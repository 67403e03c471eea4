------------------------------ MODULE PaneManager ------------------------------
(***************************************************************************)
(* The panes of the application: the part of `App` (crates/hom-tui) that   *)
(* opens, focuses, kills and reaps them, with the two process managers of  *)
(* crates/hom-pty it drives, `PtyManager` for local processes and          *)
(* `RemotePtyManager` for SSH sessions.  A remote pane opens in two steps: *)
(* a slot and an id are reserved, a worker thread connects, and the result *)
(* is completed or given up later.                                         *)
(*                                                                         *)
(* Every action is one call, made by the single thread of the event loop,  *)
(* except ProcessExits, which is the operating system's.  Models, titles,  *)
(* sizes and screen contents are left out.                                 *)
(***************************************************************************)
EXTENDS Naturals, Sequences, FiniteSets, Functions

CONSTANTS MaxPanes,    \* config: general.max_panes
          RemoteBase,  \* the first id of RemotePtyManager (1000 in the code)
          MaxLocal,    \* bound: how many local processes are ever opened ...
          MaxRemote    \* bound: ... and how many remote panes are reserved

ASSUME MaxPanesAssumption == MaxPanes \in Nat
ASSUME BoundsAssumption == MaxLocal \in Nat /\ MaxRemote \in Nat
ASSUME BaseAssumption == RemoteBase \in Nat \ {0}

LocalIds == 1 .. MaxLocal
RemoteIds == RemoteBase .. (RemoteBase + MaxRemote - 1)
PaneIds == LocalIds \cup RemoteIds
NoPane == 0             \* focused_pane = None; as a mode: the command bar

VARIABLES
    panes,          \* keys of App.panes
    pane_order,     \* App.pane_order
    exited,         \* panes whose `exited` is Some
    focused,        \* App.focused_pane
    mode,           \* InputRouter.mode: the pane that gets the keys, or NoPane
    instances,      \* keys of PtyManager.instances
    next_local,     \* PtyManager.next_id
    sessions,       \* keys of RemotePtyManager.sessions
    next_remote,    \* RemotePtyManager.next_id
    reserved,       \* ids of the PreparedRemotePaneSpawns not yet consumed
    pending_spawns, \* App.pending_remote_spawns
    ended,          \* managed ids whose process ended, noticed or not
    up              \* FALSE once shutdown has run

localVars == <<instances, next_local>>
remoteVars == <<sessions, next_remote, reserved, pending_spawns>>
viewVars == <<panes, pane_order, exited, focused, mode>>
vars == <<viewVars, localVars, remoteVars, ended, up>>

-------------------------------------------------------------------------------
PositionIn(seq, id) == CHOOSE i \in 1 .. Len(seq) : seq[i] = id

Without_KeepsOrder(seq, id) == seq                                   \* mutant

(* retain(|x| x != id): an id occurs at most once (OrderMatchesPanes). *)
Without(seq, id) ==
    IF id \in Range(seq)
    THEN [i \in 1 .. Len(seq) - 1 |-> IF i < PositionIn(seq, id) THEN seq[i] ELSE seq[i + 1]]
    ELSE seq

Init == /\ panes = {} /\ pane_order = <<>> /\ exited = {}
        /\ focused = NoPane /\ mode = NoPane
        /\ instances = {} /\ next_local = 1
        /\ sessions = {} /\ next_remote = RemoteBase
        /\ reserved = {} /\ pending_spawns = 0
        /\ ended = {} /\ up = TRUE

Full_PanesOnly == Cardinality(panes) >= MaxPanes                     \* mutant

Full == Cardinality(panes) + pending_spawns >= MaxPanes

(* The end of both spawns: register the pane and give it the focus. *)
Register(id) ==
    /\ panes' = panes \cup {id}
    /\ pane_order' = Append(pane_order, id)
    /\ exited' = exited \ {id}
    /\ focused' = id
    /\ mode' = id

OpenPty_CountsLive == /\ next_local \in LocalIds                     \* mutant
                      /\ instances' = instances \cup {next_local}
                      /\ next_local' = Cardinality(instances') + 1

OpenPty == /\ next_local \in LocalIds
           /\ instances' = instances \cup {next_local}
           /\ next_local' = next_local + 1

SpawnPane ==
    /\ up /\ ~Full
    /\ OpenPty
    /\ Register(next_local)
    /\ UNCHANGED <<remoteVars, ended, up>>

(* Rejected, unknown harness, or no PTY: nothing happens.  If it is the    *)
(* terminal that cannot be created, the process is already running and     *)
(* stays with the PtyManager.                                              *)
SpawnFails ==
    /\ up
    /\ \/ UNCHANGED localVars
       \/ ~Full /\ OpenPty
    /\ UNCHANGED <<viewVars, remoteVars, ended, up>>

PrepareRemote ==
    /\ up /\ ~Full
    /\ next_remote \in RemoteIds
    /\ reserved' = reserved \cup {next_remote}
    /\ next_remote' = next_remote + 1
    /\ pending_spawns' = pending_spawns + 1
    /\ UNCHANGED <<viewVars, localVars, sessions, ended, up>>

ReleaseSlot_Never(id) == /\ reserved' = reserved \ {id}              \* mutant
                         /\ UNCHANGED pending_spawns

(* saturating_sub; consumes the PreparedRemotePaneSpawn. *)
ReleaseSlot(id) ==
    /\ reserved' = reserved \ {id}
    /\ pending_spawns' = IF pending_spawns = 0 THEN 0 ELSE pending_spawns - 1

CompleteRemote(id) ==
    /\ up /\ id \in reserved
    /\ ReleaseSlot(id)
    /\ sessions' = sessions \cup {id}
    /\ Register(id)
    /\ UNCHANGED <<localVars, next_remote, ended, up>>

(* The connection failed, or no terminal could be created for it: then the *)
(* session is dropped before it reaches the manager.                       *)
RemoteSpawnFailed(id) ==
    /\ up /\ id \in reserved
    /\ ReleaseSlot(id)
    /\ UNCHANGED <<viewVars, localVars, sessions, next_remote, ended, up>>

-------------------------------------------------------------------------------
Refocus_Never(id, order) == UNCHANGED <<focused, mode>>              \* mutant

(* After killing the focused pane the last one is focused; the router is   *)
(* told only if there is one.                                              *)
Refocus(id, order) ==
    /\ focused' = IF focused # id THEN focused
                  ELSE IF order = <<>> THEN NoPane ELSE order[Len(order)]
    /\ mode' = IF focused = id /\ order # <<>> THEN order[Len(order)] ELSE mode

(* A process that has ended is a zombie until somebody looks: it can still *)
(* be signalled, and is reaped then.  HandleExited looks too, and a local  *)
(* process reaped there cannot be signalled any more.                      *)
Reaped(id) == id \in instances \cap exited

KillPane(id) ==
    /\ up /\ id \in instances \cup sessions
    /\ IF id \in sessions
       THEN sessions' = sessions \ {id} /\ UNCHANGED instances
       ELSE ~Reaped(id) /\ instances' = instances \ {id} /\ UNCHANGED sessions
    /\ ended' = ended \ {id}
    /\ panes' = panes \ {id}
    /\ exited' = exited \ {id}
    /\ pane_order' = Without(pane_order, id)
    /\ Refocus(id, Without(pane_order, id))
    /\ UNCHANGED <<next_local, next_remote, reserved, pending_spawns, up>>

(* An unknown id, or a local process that cannot be signalled: PtyManager  *)
(* has removed the instance by then, App keeps the pane.                   *)
KillFails(id) ==
    /\ up /\ id \notin sessions
    /\ \/ /\ id \notin instances
          /\ UNCHANGED <<instances, ended>>
       \/ /\ Reaped(id)
          /\ instances' = instances \ {id}
          /\ ended' = ended \ {id}
    /\ UNCHANGED <<viewVars, next_local, remoteVars, up>>

FocusPane_RouterOnly(id) ==                                          \* mutant
    /\ up /\ id \in panes
    /\ mode' = id
    /\ UNCHANGED <<panes, pane_order, exited, focused, localVars, remoteVars, ended, up>>

FocusPane(id) == /\ up /\ id \in panes
                 /\ focused' = id
                 /\ mode' = id
                 /\ UNCHANGED <<panes, pane_order, exited, localVars, remoteVars, ended, up>>

Current == IF focused \in Range(pane_order) THEN PositionIn(pane_order, focused) ELSE 1

FocusNext == /\ pane_order # <<>>
             /\ FocusPane(pane_order[(Current % Len(pane_order)) + 1])

FocusPrev == /\ pane_order # <<>>
             /\ FocusPane(pane_order[IF Current = 1 THEN Len(pane_order) ELSE Current - 1])

(* The toggle key: keys go to the command bar. *)
ToCommandBar == /\ up /\ mode # NoPane
                /\ mode' = NoPane
                /\ UNCHANGED <<panes, pane_order, exited, focused, localVars, remoteVars, ended, up>>

NewlyExited_AnyProcess == ended \ exited                             \* mutant

NewlyExited == {id \in panes \ exited : id \in ended /\ id \in instances \cup sessions}

HandleExited == /\ up
                /\ exited' = exited \cup NewlyExited
                /\ UNCHANGED <<panes, pane_order, focused, mode, localVars, remoteVars, ended, up>>

(* A process ends, or a remote channel reports end of file. *)
ProcessExits(id) ==
    /\ id \in (instances \cup sessions) \ ended
    /\ ended' = ended \cup {id}
    /\ UNCHANGED <<viewVars, localVars, remoteVars, up>>

(* kill_all on both managers; the focus is left as it is. *)
Shutdown == /\ up
            /\ up' = FALSE
            /\ instances' = {} /\ sessions' = {} /\ ended' = {}
            /\ panes' = {} /\ pane_order' = <<>> /\ exited' = {}
            /\ UNCHANGED <<focused, mode, next_local, next_remote, reserved, pending_spawns>>

Next ==
    \/ SpawnPane \/ SpawnFails \/ PrepareRemote
    \/ FocusNext \/ FocusPrev \/ ToCommandBar
    \/ HandleExited \/ Shutdown
    \/ \E id \in PaneIds : \/ CompleteRemote(id) \/ RemoteSpawnFailed(id)
                           \/ KillPane(id) \/ KillFails(id) \/ FocusPane(id)
                           \/ ProcessExits(id)

Spec == Init /\ [][Next]_vars

-------------------------------------------------------------------------------
(* Every variable has its type; ids are handed out in order. *)
TypeOK ==
    /\ panes \subseteq PaneIds
    /\ pane_order \in Seq(PaneIds)
    /\ exited \subseteq panes
    /\ focused \in PaneIds \cup {NoPane} /\ mode \in PaneIds \cup {NoPane}
    /\ instances \subseteq LocalIds
    /\ next_local \in 1 .. MaxLocal + 1
    /\ sessions \subseteq RemoteIds /\ reserved \subseteq RemoteIds
    /\ next_remote \in RemoteBase .. RemoteBase + MaxRemote
    /\ pending_spawns \in Nat
    /\ ended \subseteq instances \cup sessions
    /\ up \in BOOLEAN

(* The limit on panes holds even though remote panes are counted while     *)
(* they connect and registered only later, when others may have opened.    *)
CapacityRespected == Cardinality(panes) + pending_spawns <= MaxPanes

(* The counter of pending remote spawns is the number of connections under *)
(* way: no slot is lost when one fails, and none is released twice.        *)
SlotsAccounted == pending_spawns = Cardinality(reserved)

(* pane_order lists exactly the panes, each once: what is drawn, cycled    *)
(* through, saved and polled for exits is what exists.                     *)
OrderMatchesPanes ==
    /\ Range(pane_order) = panes
    /\ \A i, j \in 1 .. Len(pane_order) : pane_order[i] = pane_order[j] => i = j

(* While there are panes one of them has the focus, whatever was killed    *)
(* and in whatever order panes opened.                                     *)
FocusIsLive == up => IF panes = {} THEN focused = NoPane ELSE focused \in panes

(* Keys reach the pane that is shown as focused, or the command bar; they  *)
(* go to a dead pane only when there is no other.                          *)
KeysReachFocus == up /\ panes # {} => mode \in {NoPane, focused}

(* An id names one process: no local and remote process share one          *)
(* (remote.rs:79).                                                         *)
IdsDisjoint == instances \cap sessions = {}

(* Killing a pane removes it (app.rs:608): there is no pane left that the  *)
(* managers have already let go of, and that therefore cannot be killed.   *)
PanesCanBeKilled == panes \subseteq instances \cup sessions

-------------------------------------------------------------------------------
(* The inductive invariant behind the safety properties, for local ids     *)
(* that stay below RemoteBase.  Its other parts: ids not handed out yet    *)
(* are unused, and a reserved id is no pane yet.                           *)
IdsInOrder ==
    /\ \A id \in LocalIds \cap (panes \cup instances) : id < next_local
    /\ \A id \in RemoteIds \cap (panes \cup sessions \cup reserved) : id < next_remote
    /\ reserved \cap panes = {}

IInv == /\ TypeOK
        /\ IdsInOrder
        /\ CapacityRespected
        /\ SlotsAccounted
        /\ OrderMatchesPanes
        /\ FocusIsLive
        /\ KeysReachFocus
===============================================================================
