-------------------------------- MODULE WebFeed --------------------------------
(***************************************************************************)
(* The web view (crates/hom-web): after each draw the application sends a  *)
(* frame, the screens of all panes, to a broadcast channel; a task per     *)
(* connection forwards frames to its browser and keys from it into a       *)
(* bounded queue; the page draws what arrives.  A frame holds, per pane,   *)
(* its id, its rows and whether it has the focus; cells, colours, titles   *)
(* and the cursor go the same way and are left out.                        *)
(***************************************************************************)
EXTENDS PaneOutput

CONSTANTS Viewers,        \* browsers (external)
          FrameCapacity,  \* of the broadcast channel (8 in the code)
          InputCapacity,  \* of the queue of keys (64 in the code)
          InputBatch,     \* keys taken in one tick (16 in the code)
          MaxKeys         \* bound: keys pressed in browsers

ASSUME BatchAssumption == InputBatch \in Nat

VARIABLES
    linked,     \* viewers with a WebSocket: each has a handle_ws task
    backlog,    \* per viewer: frames its receiver has not taken yet
    wire,       \* per viewer: the frame sent and not drawn yet
    page,       \* per viewer: the panes on its page
    keys,       \* how many keys were pressed
    web_input   \* the queue of keys

webVars == <<linked, backlog, wire, page, keys, web_input>>

WebInit == /\ linked = {}
           /\ backlog = [v \in Viewers |-> <<>>] /\ wire = [v \in Viewers |-> <<>>]
           /\ page = [v \in Viewers |-> {}]
           /\ keys = 0 /\ web_input = <<>>

-------------------------------------------------------------------------------
(* publish_web_frame.  A full channel drops its oldest frame for whoever   *)
(* has not taken it.                                                       *)
Frame == {[id |-> id, rows |-> ScreenSnapshot(id), focused |-> focused = id] : id \in panes}

Push(frames, frame) ==
    LET all == Append(frames, frame)
    IN IF Len(all) > FrameCapacity THEN Tail(all) ELSE all

PublishWebFrame ==
    /\ backlog' = [v \in Viewers |-> IF v \in linked THEN Push(backlog[v], Frame) ELSE backlog[v]]
    /\ UNCHANGED <<vars, outputVars, linked, wire, page, keys, web_input>>

(* A connection; the page keeps what it shows when one is lost.            *)
Connect(v) ==
    /\ v \notin linked
    /\ linked' = linked \cup {v}
    /\ UNCHANGED <<vars, outputVars, backlog, wire, page, keys, web_input>>

Disconnect(gone) ==
    /\ linked' = linked \ gone
    /\ backlog' = [v \in Viewers |-> IF v \in gone THEN <<>> ELSE backlog[v]]
    /\ wire' = [v \in Viewers |-> IF v \in gone THEN <<>> ELSE wire[v]]
    /\ UNCHANGED <<vars, outputVars, page, keys, web_input>>

(* handle_ws: a frame is taken and sent once the connection has room.      *)
Forward(v) ==
    /\ backlog[v] # <<>> /\ wire[v] = <<>>
    /\ wire' = [wire EXCEPT ![v] = <<Head(backlog[v])>>]
    /\ backlog' = [backlog EXCEPT ![v] = Tail(@)]
    /\ UNCHANGED <<vars, outputVars, linked, page, keys, web_input>>

Ids(frame) == {pane.id : pane \in frame}
Drawn(shown, frame) == {pane \in shown : pane.id \notin Ids(frame)} \cup frame

RenderFrame_KeepsClosed(shown, frame) == Drawn(shown, frame)         \* mutant

(* renderFrame: the pane of a frame is drawn in its container, new or not, *)
(* then the containers of other panes are removed.                         *)
RenderFrame(shown, frame) == {pane \in Drawn(shown, frame) : pane.id \in Ids(frame)}

Display(v) ==
    /\ wire[v] # <<>>
    /\ page' = [page EXCEPT ![v] = RenderFrame(@, Head(wire[v]))]
    /\ wire' = [wire EXCEPT ![v] = <<>>]
    /\ UNCHANGED <<vars, outputVars, linked, backlog, keys, web_input>>

(* A key goes to the pane the page shows as focused; if the queue is full  *)
(* it is dropped.                                                          *)
Press(v) ==
    /\ v \in linked /\ keys < MaxKeys
    /\ keys' = keys + 1
    /\ \E pane \in page[v] :
          /\ pane.focused
          /\ web_input' = IF Len(web_input) < InputCapacity THEN Append(web_input, pane.id) ELSE web_input
    /\ UNCHANGED <<vars, outputVars, linked, backlog, wire, page>>

-------------------------------------------------------------------------------
(* handle_web_input: each key is sent as a prompt, to a pane that still    *)
(* exists; the write may fail if its process ended.                        *)
HandleWebInput ==
    LET n == IF Len(web_input) > InputBatch THEN InputBatch ELSE Len(web_input)
    IN /\ web_input' = SubSeq(web_input, n + 1, Len(web_input))
       /\ \E bytes \in [1 .. n -> UNION {Arrives(id, "key") : id \in Range(web_input)}] :
             /\ \A i \in 1 .. n : bytes[i] \in Arrives(web_input[i], "key")
             /\ inbox' = [id \in PaneIds |-> inbox[id] \o
                    FlattenSeq([i \in 1 .. n |-> IF web_input[i] = id THEN bytes[i] ELSE <<>>])]
       /\ UNCHANGED <<vars, openedVars, threadVars, channel, fed, step, remoteOpenVars, plugins>>
       /\ UNCHANGED <<linked, backlog, wire, page, keys>>
===============================================================================
