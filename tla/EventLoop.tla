------------------------------- MODULE EventLoop -------------------------------
(***************************************************************************)
(* The event loop of the application (run_app, src/main.rs) and the        *)
(* workflow bridge.  Each tick runs, in this order, the phases of `tick`;  *)
(* it makes the calls of PaneManager.  Around it run, at any point of a    *)
(* tick: the steps of workflows (clients, the tasks of WorkflowExecutor),  *)
(* the worker threads that connect remote panes, the tasks that wait for a *)
(* sideband, the harness processes, and the clock.                         *)
(*                                                                         *)
(* A client's requests go through one unbounded channel; each carries a    *)
(* oneshot sender, held by the loop in the queue, in pending_completions,  *)
(* or by a sideband task until it replies.  A client makes one call at a   *)
(* time, so the client stands for its request.                             *)
(***************************************************************************)
EXTENDS Naturals, Sequences, FiniteSets, Functions

CONSTANTS MaxPanes, RemoteBase, MaxLocal, MaxRemote,    \* see PaneManager
          Clients,          \* the workflow steps that use the runtime
          SidebandClients,  \* those whose harness is configured with a sideband
          MaxRounds         \* attempts of a step, its fallback included

ASSUME PanesAssumption == /\ MaxPanes \in Nat /\ RemoteBase \in Nat \ {0}
                          /\ MaxLocal \in Nat /\ MaxRemote \in Nat
ASSUME SidebandAssumption == SidebandClients \subseteq Clients
ASSUME RoundsAssumption == MaxRounds \in Nat

VARIABLES panes, pane_order, exited, focused, mode, instances, next_local, sessions,
          next_remote, reserved, pending_spawns, ended, up
VARIABLES
    tick,         \* where the loop is
    should_quit,  \* App.should_quit
    completions,  \* remote_spawn_rx: results of connections, in order
    client,       \* the steps
    requests,     \* workflow_rx: the clients whose request is queued, in order
    pending,      \* App.pending_completions
    late,         \* those of them whose timeout has elapsed
    direct        \* clients served by a sideband task

Panes == INSTANCE PaneManager

paneVars == <<panes, pane_order, exited, focused, mode, instances, next_local, sessions,
              next_remote, reserved, pending_spawns, ended, up>>
loopVars == <<tick, should_quit>>
callVars == <<client, requests, pending, late, direct>>
vars == <<paneVars, loopVars, completions, callVars>>

NoPane == Panes!NoPane

-------------------------------------------------------------------------------
(* A step opens a pane, sends its prompt to it and kills it; a failed      *)
(* spawn or a kill ends the round.  `gone`: the step's task was aborted.   *)
NewClient == [stage |-> "spawn", asked |-> FALSE, pane |-> NoPane, rounds |-> MaxRounds,
              gone |-> FALSE]

Init == /\ Panes!Init
        /\ tick = "drain"
        /\ should_quit = FALSE
        /\ completions = <<>>
        /\ client = [c \in Clients |-> NewClient]
        /\ requests = <<>>
        /\ pending = {} /\ late = {} /\ direct = {}

Active(c) == ~client[c].gone /\ client[c].rounds > 0

Ask(c) == /\ Active(c) /\ ~client[c].asked
          /\ client' = [client EXCEPT ![c].asked = TRUE]
          /\ requests' = Append(requests, c)
          /\ UNCHANGED <<paneVars, loopVars, completions, pending, late, direct>>

(* The workflow returned; its tasks, and their reply receivers, are gone,  *)
(* their requests are not.                                                 *)
Abandon(c) == /\ Active(c)
              /\ client' = [client EXCEPT ![c].gone = TRUE]
              /\ UNCHANGED <<paneVars, loopVars, completions, requests, pending, late, direct>>

(* What a client does with the reply; sending to a dropped receiver has no *)
(* effect.                                                                 *)
EndOfRound_KeepsPane(r) == [r EXCEPT !.stage = "spawn", !.rounds = @ - 1]   \* mutant
EndOfRound(r) == [r EXCEPT !.stage = "spawn", !.pane = NoPane, !.rounds = @ - 1]
Replied(r, next) == IF r.gone THEN [r EXCEPT !.asked = FALSE] ELSE [next EXCEPT !.asked = FALSE]

ReplySpawned(c, id) == client' = [client EXCEPT ![c] = Replied(@, [@ EXCEPT !.stage = "send", !.pane = id])]
ReplyOver(c) == client' = [client EXCEPT ![c] = Replied(@, EndOfRound(@))]
ReplySent(S) == client' = [c \in Clients |-> IF c \in S
                              THEN Replied(client[c], [client[c] EXCEPT !.stage = "kill"])
                              ELSE client[c]]

-------------------------------------------------------------------------------
(* The phases of a tick. *)

Goto(phase) == tick' = phase /\ UNCHANGED should_quit

DrainCompletion_OkOnly ==                                            \* mutant
    /\ tick = "drain" /\ completions # <<>>
    /\ LET done == Head(completions)
       IN  IF done.ok THEN Panes!CompleteRemote(done.id) ELSE UNCHANGED paneVars
    /\ completions' = Tail(completions)
    /\ UNCHANGED <<loopVars, callVars>>

(* Results of remote connections, all that have arrived. *)
DrainCompletion ==
    /\ tick = "drain" /\ completions # <<>>
    /\ LET done == Head(completions)
       IN  \/ done.ok /\ Panes!CompleteRemote(done.id)
           \/ Panes!RemoteSpawnFailed(done.id)
    /\ completions' = Tail(completions)
    /\ UNCHANGED <<loopVars, callVars>>

DrainDone == /\ tick = "drain" /\ completions = <<>>
             /\ Goto("requests")
             /\ UNCHANGED <<paneVars, completions, callVars>>

HandleSpawn(c) ==
    /\ \/ Panes!SpawnPane /\ ReplySpawned(c, next_local)
       \/ Panes!SpawnFails /\ ReplyOver(c)
    /\ UNCHANGED <<pending, late, direct>>

(* pty_write succeeded; it can only fail for a managed process that ended. *)
Registers(c) ==
    /\ client[c].pane \in instances \cup sessions
    /\ pending' = pending \cup {c}
    /\ UNCHANGED client

HandleSend(c) ==
    /\ LET pane == client[c].pane IN
       \/ /\ pane \notin panes
          /\ ReplySent({c})
          /\ UNCHANGED <<pending, direct>>
       \/ /\ pane \in panes /\ c \in SidebandClients
          /\ direct' = direct \cup {c}
          /\ UNCHANGED <<client, pending>>
       \/ /\ pane \in panes /\ c \notin SidebandClients
          /\ Registers(c)
          /\ UNCHANGED direct
       \/ /\ pane \in panes /\ c \notin SidebandClients
          /\ pane \notin (instances \cup sessions) \ ended
          /\ ReplySent({c})
          /\ UNCHANGED <<pending, direct>>
    /\ UNCHANGED <<paneVars, late>>

HandleKill(c) ==
    /\ Panes!KillPane(client[c].pane) \/ Panes!KillFails(client[c].pane)
    /\ ReplyOver(c)
    /\ UNCHANGED <<pending, late, direct>>

(* handle_workflow_request, for every request that has arrived. *)
HandleRequest ==
    /\ tick = "requests" /\ requests # <<>>
    /\ requests' = Tail(requests)
    /\ LET c == Head(requests) IN
       \/ client[c].stage = "spawn" /\ HandleSpawn(c)
       \/ client[c].stage = "send" /\ HandleSend(c)
       \/ client[c].stage = "kill" /\ HandleKill(c)
    /\ UNCHANGED <<loopVars, completions>>

RequestsDone == /\ tick = "requests" /\ requests = <<>>
                /\ Goto("mcp")
                /\ UNCHANGED <<paneVars, completions, callVars>>

Kill(id) == Panes!KillPane(id) \/ Panes!KillFails(id)

(* Commands of MCP clients; the pane id is whatever they say. *)
McpCommand == /\ tick = "mcp"
              /\ \/ Panes!SpawnPane \/ Panes!SpawnFails
                 \/ \E id \in Panes!PaneIds : Kill(id)
              /\ UNCHANGED <<loopVars, completions, callVars>>

McpDone == /\ tick = "mcp"
           /\ Goto("input")
           /\ UNCHANGED <<paneVars, completions, callVars>>

(* At most one terminal event.  Keys go to a pane or to the command bar.   *)
TypedCommand == \/ Panes!SpawnPane \/ Panes!SpawnFails \/ Panes!PrepareRemote
                \/ \E id \in panes : Kill(id)

KeyOrClick == \/ Panes!FocusNext \/ Panes!FocusPrev \/ Panes!ToCommandBar
              \/ \E id \in panes : Panes!FocusPane(id)
              \/ mode # NoPane /\ Kill(mode)
              \/ mode = NoPane /\ TypedCommand

Input == /\ tick = "input"
         /\ KeyOrClick \/ UNCHANGED paneVars
         /\ Goto("poll")
         /\ UNCHANGED <<completions, callVars>>

(* `:restore` opens, in one event, the panes of a saved session. *)
BeginRestore == /\ tick = "input" /\ mode = NoPane
                /\ Goto("restore")
                /\ UNCHANGED <<paneVars, completions, callVars>>

RestorePane == /\ tick = "restore"
               /\ Panes!SpawnPane \/ Panes!SpawnFails \/ Panes!PrepareRemote
               /\ UNCHANGED <<loopVars, completions, callVars>>

RestoreDone == /\ tick = "restore"
               /\ Goto("poll")
               /\ UNCHANGED <<paneVars, completions, callVars>>

(* Ctrl-Q leaves the loop at once, `:quit` at the end of the tick. *)
Quit == /\ tick = "input"
        /\ \/ tick' = "stopping" /\ UNCHANGED should_quit
           \/ mode = NoPane /\ tick' = "poll" /\ should_quit' = TRUE
        /\ UNCHANGED <<paneVars, completions, callVars>>

MustResolve_PaneOnly == {c \in pending : client[c].pane \notin panes}   \* mutant
MustResolve_TimeOnly == late                                         \* mutant

MustResolve == late \cup {c \in pending : client[c].pane \notin panes}

PollPending_DrainsAll ==                                             \* mutant
    /\ tick = "poll"
    /\ \E S \in SUBSET pending :
         /\ MustResolve \subseteq S
         /\ ReplySent(S)
    /\ pending' = {} /\ late' = {}
    /\ Goto("exits")
    /\ UNCHANGED <<paneVars, completions, requests, direct>>

(* poll_pending_completions answers those that are late or whose pane is   *)
(* gone, and those whose screen shows completion or failure.               *)
PollPending ==
    /\ tick = "poll"
    /\ \E S \in SUBSET pending :
         /\ MustResolve \subseteq S
         /\ ReplySent(S)
         /\ pending' = pending \ S
         /\ late' = late \ S
    /\ Goto("exits")
    /\ UNCHANGED <<paneVars, completions, requests, direct>>

(* Processes that have exited; what waits on their panes is answered. *)
ExitsHandled ==
    /\ tick = "exits"
    /\ Panes!HandleExited
    /\ LET S == {c \in pending : client[c].pane \in Panes!NewlyExited} IN
       /\ ReplySent(S)
       /\ pending' = pending \ S
       /\ late' = late \ S
    /\ Goto(IF should_quit THEN "stopping" ELSE "drain")
    /\ UNCHANGED <<completions, requests, direct>>

(* App::shutdown, after the background tasks have been given up. *)
Stop == /\ tick = "stopping"
        /\ Panes!Shutdown
        /\ ReplySent(pending)
        /\ pending' = {}
        /\ late' = {}
        /\ Goto("stopped")
        /\ UNCHANGED <<completions, requests, direct>>

Tick == \/ DrainCompletion \/ DrainDone \/ HandleRequest \/ RequestsDone
        \/ McpCommand \/ McpDone \/ Input \/ Quit
        \/ BeginRestore \/ RestorePane \/ RestoreDone
        \/ PollPending \/ ExitsHandled \/ Stop

-------------------------------------------------------------------------------
(* What goes on around the loop. *)

Arrived == {completions[i].id : i \in 1 .. Len(completions)}

Connected_Twice(id) ==                                               \* mutant
    /\ id \in reserved
    /\ Len(completions) < 2
    /\ \E ok \in BOOLEAN : completions' = Append(completions, [id |-> id, ok |-> ok])
    /\ UNCHANGED <<paneVars, loopVars, callVars>>

(* A worker thread reports how its connection went. *)
Connected(id) ==
    /\ id \in reserved \ Arrived
    /\ \E ok \in BOOLEAN : completions' = Append(completions, [id |-> id, ok |-> ok])
    /\ UNCHANGED <<paneVars, loopVars, callVars>>

ProcessExits(id) == /\ Panes!ProcessExits(id)
                    /\ UNCHANGED <<loopVars, completions, callVars>>

TimesOut(c) == /\ c \in pending \ late
               /\ late' = late \cup {c}
               /\ UNCHANGED <<paneVars, loopVars, completions, client, requests, pending, direct>>

SidebandReplies(c) == /\ c \in direct
                      /\ direct' = direct \ {c}
                      /\ ReplySent({c})
                      /\ UNCHANGED <<paneVars, loopVars, completions, requests, pending, late>>

Stopped == tick = "stopped" /\ UNCHANGED vars

Next == \/ Tick \/ Stopped
        \/ \E c \in Clients : Ask(c) \/ Abandon(c) \/ TimesOut(c) \/ SidebandReplies(c)
        \/ \E id \in Panes!PaneIds : Connected(id) \/ ProcessExits(id)

(* The loop never blocks for longer than a tick; clocks advance; a         *)
(* sideband task has a timeout; a connection attempt ends.                 *)
Fairness == /\ WF_vars(Tick)
            /\ \A c \in Clients : WF_vars(TimesOut(c)) /\ WF_vars(SidebandReplies(c))
            /\ \A id \in Panes!RemoteIds : WF_vars(Connected(id))

Spec == Init /\ [][Next]_vars
FairSpec == Spec /\ Fairness

-------------------------------------------------------------------------------
Stages == {"spawn", "send", "kill"}

(* Every variable of the loop has its type, and a step knows its pane from *)
(* the spawn's reply to the end of the round, and only then.               *)
TypeOK ==
    /\ Panes!TypeOK
    /\ tick \in {"drain", "requests", "mcp", "input", "restore", "poll", "exits",
                "stopping", "stopped"}
    /\ should_quit \in BOOLEAN
    /\ completions \in Seq([id : Panes!RemoteIds, ok : BOOLEAN])
    /\ client \in [Clients -> [stage : Stages, asked : BOOLEAN,
                               pane : Panes!PaneIds \cup {NoPane},
                               rounds : 0 .. MaxRounds, gone : BOOLEAN]]
    /\ requests \in Seq(Clients)
    /\ pending \subseteq Clients /\ late \subseteq pending /\ direct \subseteq Clients
    /\ \A c \in Clients : client[c].stage = "spawn" <=> client[c].pane = NoPane

(* A call being made is in exactly one place: the queue, the pending       *)
(* completions or a sideband task.  No reply is lost and none is sent      *)
(* twice, whatever ticks, exits, kills and aborts come between.            *)
CallsTracked ==
    /\ \A i, j \in 1 .. Len(requests) : requests[i] = requests[j] => i = j
    /\ Range(requests) \cap pending = {}
    /\ (Range(requests) \cup pending) \cap direct = {}
    /\ {c \in Clients : client[c].asked} = Range(requests) \cup pending \cup direct

(* Two steps never hold the same pane, so a late kill or prompt, delivered *)
(* after the pane was killed by someone else, cannot hit another's pane.   *)
OwnersDistinct ==
    \A c, d \in Clients : c # d /\ client[c].pane = client[d].pane => client[c].pane = NoPane

(* When a tick begins, every pending completion waits on an existing pane, *)
(* even if users and MCP clients killed panes in the last one.             *)
PendingsAreLive == tick = "drain" => \A c \in pending : client[c].pane \in panes

(* A connection's result is delivered for a slot still reserved, once.     *)
ResultsHaveSlots ==
    /\ Arrived \subseteq reserved
    /\ \A i, j \in 1 .. Len(completions) : completions[i].id = completions[j].id => i = j

(* The inductive invariant behind them, for local ids that stay below      *)
(* RemoteBase: the panes keep theirs; a call is made in a round that is    *)
(* left, and only a prompt waits in pending_completions or in a sideband   *)
(* task; steps hold ids that were handed out; exits remove no pane.        *)
CallStages ==
    /\ \A c \in Clients : client[c].asked => client[c].rounds > 0
    /\ \A c \in pending \cup direct : client[c].stage = "send"

OwnersInOrder == \A c \in Clients : client[c].pane = NoPane \/ client[c].pane \in 1 .. next_local - 1

PendingsStayLive == tick \in {"exits", "drain"} => \A c \in pending : client[c].pane \in panes

IInv == /\ Panes!IInv
        /\ TypeOK
        /\ CallsTracked
        /\ CallStages
        /\ OwnersInOrder
        /\ OwnersDistinct
        /\ PendingsStayLive
        /\ ResultsHaveSlots

(* A connecting remote pane gives up its slot or becomes a pane, unless    *)
(* the application stops.                                                  *)
RemoteSpawnSettles ==
    \A id \in Panes!RemoteIds : id \in reserved ~> (id \notin reserved \/ tick = "stopped")

(* The loop keeps the promises the workflow engine relies on. *)
Runtime == INSTANCE RuntimeCalls WITH
    call <- [c \in Clients |-> IF client[c].asked THEN client[c].stage ELSE "none"],
    stopped <- tick = "stopped"

ImplementsRuntime == Runtime!Spec

(* 2026-04-10-phase5-blockers.md:440: the steps waiting on a pane that     *)
(* exited are notified: when a tick begins none waits on such a pane.      *)
NoWaitOnExited == tick = "drain" => \A c \in pending : client[c].pane \notin exited
===============================================================================
