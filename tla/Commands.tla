-------------------------------- MODULE Commands --------------------------------
(***************************************************************************)
(* What the user types, clicks and submits: the router, the command bar    *)
(* and handle_command of src/main.rs, which carries out a command on the   *)
(* panes.  The text written to a pane is left out, and so are messages.    *)
(* Sessions are not saved here: the program runs with --no-db.             *)
(***************************************************************************)
EXTENDS InputRouter, CommandBar

CONSTANTS Keyboards,      \* bound: what the user does in a session
          Workflows       \* the names of workflow files that load

(* A keyboard: the [keybindings] configured, the line typed so far, the    *)
(* glyphs typed after it, the other keys pressed, the cells clicked, the   *)
(* longest line and the most commands submitted, how many panes are open   *)
(* at first, and which processes may exit.  Words are only typed at the    *)
(* end of a line, or recalled.                                             *)
Codes(k) == k.glyphs \cup {key.code : key \in k.keys}
Writes(k) == (Codes(k) \ EditKeys) \cup Range(k.typed)
Edits(k) == Codes(k) \cap (EditKeys \ {"Enter", "Up", "Down", "Tab", "F1"}) # {}

ASSUME KeyboardsAssumption ==
    \A k \in Range(Keyboards) :
        /\ k.typed \in Seq(Writes(k))
        /\ k.open \in 0 .. Smaller(MaxPanes, MaxLocal)
        /\ Edits(k) => \A glyph \in Writes(k) : Chars(glyph) = 1

VARIABLES session,        \* the keyboard in use, by its number
          title,          \* Pane.title: the harness of each pane
          plugins,        \* plugins registered in App.adapter_registry
          launched        \* workflows handed to the WorkflowLauncher

commandVars == <<session, title, plugins, launched>>
keyboard == Keyboards[session]
userVars == <<vars, inputVars, barVars, commandVars>>

Untitled == "none"
Harnesses == {"claude", "codex"}             \* HarnessType::from_str_loose
Plugin == "plug"

(* The first n panes were spawned as claude and codex in turn. *)
UserInit ==
    /\ session \in DOMAIN Keyboards /\ layout = "hsplit"
    /\ BarInit(keyboard.typed)
    /\ bindings = FromConfig(keyboard.config)
    /\ LET n == keyboard.open IN
        /\ panes = 1 .. n /\ instances = 1 .. n /\ next_local = n + 1
        /\ pane_order = [i \in 1 .. n |-> i]
        /\ focused = n /\ mode \in {NoPane, n}
        /\ title = [id \in PaneIds |-> IF id \in 1 .. n THEN IF id % 2 = 1 THEN "claude" ELSE "codex"
                                       ELSE Untitled]
    /\ exited = {} /\ sessions = {} /\ next_remote = RemoteBase /\ reserved = {} /\ pending_spawns = 0
    /\ ended = {} /\ up = TRUE
    /\ plugins = {} /\ launched = <<>>

-------------------------------------------------------------------------------
(* resolve_selector: a pane by its id, or any pane whose title contains    *)
(* the name, which every title does when the name is empty.                *)
TitleContains(text, name) == name = <<>> \/ name = <<text>> \/ (name = <<"c">> /\ text \in Harnesses)

Selected(selector) ==
    IF selector.by = "id" THEN {selector.id} \cap panes
    ELSE {id \in panes : TitleContains(title[id], selector.name)}

NothingDone == UNCHANGED <<vars, inputVars, commandVars>>
Titled(id, harness) == /\ title' = [title EXCEPT ![id] = harness]
                       /\ UNCHANGED <<session, plugins, launched, inputVars>>

Known(harness) == harness \in {<<h>> : h \in Harnesses \cup plugins}

Spawn(cmd) ==
    IF cmd.remote # <<>>
    THEN IF Known(cmd.harness) /\ cmd.harness # <<Plugin>> /\ ~Full /\ next_remote \in RemoteIds
         THEN PrepareRemote /\ Titled(next_remote, cmd.harness[1])
         ELSE NothingDone
    ELSE \/ Known(cmd.harness) /\ SpawnPane /\ Titled(next_local, cmd.harness[1])
         \/ Known(cmd.harness) /\ SpawnFails /\ UNCHANGED <<inputVars, commandVars>>
         \/ (Full \/ ~Known(cmd.harness) \/ next_local \notin LocalIds) /\ NothingDone

LoadPlugin(path) ==
    /\ plugins' = IF path = <<Plugin>> THEN plugins \cup {Plugin} ELSE plugins
    /\ UNCHANGED <<vars, inputVars, session, title, launched>>

Kill(id) == KillPane(id) \/ KillFails(id)

OnSelected(cmd) ==
    IF Selected(cmd.on) = {} THEN NothingDone
    ELSE /\ \E id \in Selected(cmd.on) : \/ cmd.name = "kill" /\ Kill(id)
                                         \/ cmd.name = "focus" /\ FocusPane(id)
         /\ UNCHANGED <<inputVars, commandVars>>

SetLayout(kind) == /\ layout' = kind
                   /\ UNCHANGED <<vars, bindings, commandVars>>

Run(cmd) == /\ launched' = IF cmd.workflow \in Workflows
                           THEN Append(launched, [workflow |-> cmd.workflow, variables |-> cmd.variables])
                           ELSE launched
            /\ UNCHANGED <<vars, inputVars, session, title, plugins>>

(* Commands that write to panes or only show a message change nothing      *)
(* here; nor does a line that does not parse.                              *)
Quiet == {"send", "pipe", "broadcast", "save", "restore", "help", "error", "panic", "none"}

HandleCommand(cmd) ==
    \/ cmd.name = "spawn" /\ Spawn(cmd)
    \/ cmd.name = "load-plugin" /\ LoadPlugin(cmd.path)
    \/ cmd.name \in {"kill", "focus"} /\ OnSelected(cmd)
    \/ cmd.name = "layout" /\ SetLayout(cmd.kind)
    \/ cmd.name = "run" /\ Run(cmd)
    \/ cmd.name = "quit" /\ Shutdown /\ UNCHANGED <<inputVars, commandVars>>
    \/ cmd.name \in Quiet /\ NothingDone

-------------------------------------------------------------------------------
Submitted(code) == IF code = "Enter" /\ Trim(input) # <<>> THEN ParseCommand(Trim(input))
                   ELSE Plain("none")

Running == up /\ ~crashed

(* A key in the command bar: it edits the line, and Enter carries it out.  *)
Typed(code) ==
    /\ code \in EditKeys \/ Len(input) < keyboard.line
    /\ code \in EditKeys \ {"Enter"} \/ Len(history) < keyboard.commands
    /\ HandleKey(code)
    /\ HandleCommand(Submitted(code))

Press(key) ==
    /\ Running
    /\ LET action == RouteKey(key)
       IN IF action.does = "type" THEN Typed(key.code)
          ELSE Perform(action) /\ UNCHANGED <<barVars, commandVars>>

Click(cell) == /\ Running
               /\ Mouse("left", cell)
               /\ UNCHANGED <<barVars, commandVars>>

Background ==
    /\ Running
    /\ \/ HandleExited
       \/ \E id \in RemoteIds : CompleteRemote(id) \/ RemoteSpawnFailed(id)
       \/ \E id \in keyboard.exits : ProcessExits(id)
    /\ UNCHANGED <<inputVars, barVars, commandVars>>

UserNext ==
    \/ \E glyph \in keyboard.glyphs : Press(Key(glyph, {}))
    \/ \E key \in keyboard.keys : Press(key)
    \/ \E cell \in keyboard.clicks : Click(cell)
    \/ Background

UserSpec == UserInit /\ [][UserNext]_userVars

-------------------------------------------------------------------------------
(* The inductive invariant of the command bar.  In a line without a        *)
(* character of two bytes the cursor is at a glyph: anywhere, where words  *)
(* are not typed and bytes are glyphs; at the end, where nothing is edited.*)
BarTypes ==
    /\ session \in DOMAIN Keyboards
    /\ input \in Seq(Writes(keyboard)) /\ history \in Seq(Seq(Writes(keyboard)))
    /\ cursor_pos \in Nat /\ history_idx \in 0 .. Len(history)

CursorAtGlyph ==
    "wide" \notin Range(input) =>
        IF Edits(keyboard) THEN cursor_pos <= Len(input) ELSE cursor_pos = ByteLength(input)

UserInv == IInv /\ BarTypes /\ (~crashed => CursorAtGlyph) /\ EditsAreSafe
===============================================================================
