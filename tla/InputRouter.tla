------------------------------ MODULE InputRouter ------------------------------
(***************************************************************************)
(* Keyboard and mouse: InputRouter of crates/hom-tui/src/input.rs, with    *)
(* what the event loop does with the action it returns (src/main.rs).  An  *)
(* event is routed by the first arm of handle_event that matches it; the   *)
(* arms are kept in the order of the code.  The third mode of the router,  *)
(* WorkflowControl, is set nowhere and left out.  Keys are a code and a    *)
(* set of modifiers; the bytes that keys are encoded as are left out, the  *)
(* coordinates sent for the mouse are not.                                 *)
(***************************************************************************)
EXTENDS PaneManager, Layout

CONSTANTS Screen,         \* the area of the panes
          X10Limit        \* the largest coordinate an X10 mouse report holds: 223

ASSUME ScreenAssumption == Screen \in [x : Nat, y : Nat, width : Nat, height : Nat]

VARIABLES bindings,       \* the four Keybindings of the router
          layout          \* App.layout

inputVars == <<bindings, layout>>

-------------------------------------------------------------------------------
Key(code, mods) == [code |-> code, mods |-> mods]
Modifiers == {"ctrl", "alt", "shift"}
NoBinding == Key("none", {})

(* Names of keys; a single character is its own name. *)
Named == [tab |-> "Tab", esc |-> "Esc", escape |-> "Esc", enter |-> "Enter", return |-> "Enter",
          backspace |-> "Backspace", delete |-> "Delete", del |-> "Delete",
          up |-> "Up", down |-> "Down", left |-> "Left", right |-> "Right", f1 |-> "F1", f2 |-> "F2"]
Characters == {"w", "q", "x", "grave", "f"}

ParseKey(name) == IF name \in DOMAIN Named THEN Named[name]
                  ELSE IF name \in Characters THEN name ELSE NoBinding.code

(* parse_keybinding, of a string split at its dashes: up to two modifiers  *)
(* and a key.                                                              *)
ParseKeybinding(parts) ==
    LET mods == Range(Front(parts))
    IN IF /\ Len(parts) \in 1 .. 3
          /\ mods \subseteq Modifiers
          /\ ParseKey(Last(parts)) # NoBinding.code
       THEN Key(ParseKey(Last(parts)), mods)
       ELSE NoBinding

Default == [toggle |-> Key("grave", {"ctrl"}), next |-> Key("Tab", {"ctrl"}),
            prev |-> Key("Tab", {"ctrl", "shift"}), kill |-> Key("w", {"ctrl"})]

(* from_config: a string that does not parse leaves the default. *)
FromConfig(config) ==
    [a \in DOMAIN Default |-> IF ParseKeybinding(config[a]) = NoBinding THEN Default[a]
                              ELSE ParseKeybinding(config[a])]

(* Modifiers that are held beyond those of the binding do not matter. *)
Matches(key, binding) == key.code = binding.code /\ binding.mods \subseteq key.mods

-------------------------------------------------------------------------------
(* What handle_event returns.  The pane of an action is NoPane where it    *)
(* has none.                                                               *)
Action(does, pane) == [does |-> does, pane |-> pane]
Nothing == Action("nothing", NoPane)
Drawn == PaneAreas(Screen, pane_order, layout)

RouteKey(key) ==
    IF key = Key("q", {"ctrl"}) THEN Action("quit", NoPane)
    ELSE IF mode # NoPane /\ Matches(key, bindings.toggle) THEN Action("command bar", NoPane)
    ELSE IF mode = NoPane /\ key.code = "Esc"
         THEN IF Drawn = <<>> THEN Nothing ELSE Action("focus", Drawn[1].pane)
    ELSE IF Matches(key, bindings.next) THEN Action("next", NoPane)
    ELSE IF Matches(key, bindings.prev) THEN Action("previous", NoPane)
    ELSE IF mode # NoPane /\ Matches(key, bindings.kill) THEN Action("kill", mode)
    ELSE IF mode # NoPane THEN Action("write", mode) ELSE Action("type", NoPane)

(* The pane a left press goes to; with no pane under it the focused one.   *)
PressedPane(cell) == PaneAt(Drawn, cell, mode)

(* encode_mouse_event: one-based coordinates inside the border of a pane.  *)
Coordinate(position, origin) ==
    Smaller(X10Limit, IF position > origin THEN position - origin ELSE 1)

Report(pane, kind, cell) ==
    LET i == SelectInSeq(Drawn, LAMBDA drawn : drawn.pane = pane)
    IN IF i = 0 \/ kind = "moved" THEN Nothing
       ELSE [does |-> "write", pane |-> pane,
             column |-> Coordinate(cell.column, Drawn[i].area.x),
             row |-> Coordinate(cell.row, Drawn[i].area.y)]

RouteMouse(kind, cell) ==
    IF kind = "left" /\ PressedPane(cell) # mode THEN Action("focus", PressedPane(cell))
    ELSE IF mode # NoPane THEN Report(mode, kind, cell)
    ELSE Nothing

-------------------------------------------------------------------------------
KillFocused == \/ KillPane(mode)
               \/ KillFails(mode)

(* run_app: the action of a key that is not for the command bar.  Bytes    *)
(* written to a pane change nothing here.                                  *)
Perform(action) ==
    /\ UNCHANGED inputVars
    /\ \/ action.does = "quit" /\ Shutdown
       \/ action.does = "command bar" /\ ToCommandBar
       \/ action.does = "focus" /\ FocusPane(action.pane)
       \/ action.does = "next" /\ FocusNext
       \/ action.does = "previous" /\ FocusPrev
       \/ action.does = "kill" /\ KillFocused

Mouse(kind, cell) == Perform(RouteMouse(kind, cell))

-------------------------------------------------------------------------------
(* A layout that shows every pane gives each of them an area, and no two   *)
(* share a cell: what is drawn hides nothing, for any number of panes and  *)
(* a last row of the grid that is not full (layout.rs:67).                 *)
PanesTile ==
    layout \in Tiling =>
        LET drawn == Drawn
        IN /\ Len(drawn) = Len(pane_order)
           /\ \A i \in 1 .. Len(drawn) : drawn[i].area.width > 0 /\ drawn[i].area.height > 0
           /\ \A cell \in Cells(Screen) : drawn # <<>> =>
                  Cardinality({i \in 1 .. Len(drawn) : Covers(drawn[i].area, cell)}) = 1

(* A press of the left button goes to the pane the user sees under it: it  *)
(* focuses that pane, or is reported to it when it has the focus already,  *)
(* whichever panes were opened and killed since (input.rs:171).  Where     *)
(* layouts overlay panes (tabs) the first of them is hit instead.          *)
PressesAreAimed ==
    layout \in Tiling =>
        LET drawn == Drawn
        IN \A i \in 1 .. Len(drawn) : \A cell \in Cells(drawn[i].area) :
              LET action == RouteMouse("left", cell)
              IN action.pane = drawn[i].pane /\ action.does \in {"focus", "write"}
===============================================================================
