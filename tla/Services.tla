-------------------------------- MODULE Services --------------------------------
(***************************************************************************)
(* The program as main.rs runs it: the ticks of the event loop in their    *)
(* order, with the services beside it (reader threads, remote connections, *)
(* the MCP server, browsers, save tasks), and the way it all stops.        *)
(*                                                                         *)
(* A launch is what the program was started with and what comes from       *)
(* outside while it runs.  The launches of a run of TLC each have a part   *)
(* of the services; the loop is the same.                                  *)
(***************************************************************************)
EXTENDS McpServer, WebFeed, Storage

CONSTANT Launches       \* bound: see MCServices

(* Every harness that can be opened is one whose output is known; what is  *)
(* in the database was saved by this program, perhaps by a run with other  *)
(* entries in config.toml and in another directory.                        *)
ASSUME ScriptAssumption ==
    /\ \A name \in DOMAIN Script : IsSeq(Script[name])
    /\ DOMAIN BuiltIn \cup {library.name : library \in ScanDir(Libraries)} \subseteq DOMAIN Script
    /\ \A l \in Launches : \A i \in 1 .. Len(l.typing) :
          l.typing[i].do = "load-plugin" => l.typing[i].library.name \in DOMAIN Script
ASSUME LaunchesAssumption ==
    \A l \in Launches :
        /\ Len(l.lines) \in Nat /\ Len(l.typing) \in Nat /\ l.mcp \in BOOLEAN
        /\ \A row \in l.stored :
              /\ RowTells(row)
              /\ {row.given, row.updated_at} \subseteq Int /\ row.given <= row.updated_at

VARIABLES
    launch,     \* [mcp, web, db, workflow: BOOLEAN, stored, lines, typing]
    stage,      \* "loop", then the steps of the way out
    phase,      \* of the tick
    typed       \* how many commands were typed

mainVars == <<launch, stage, phase, typed>>
allVars == <<vars, outputVars, mcpVars, webVars, storeVars, mainVars>>

ServicesInit ==
    /\ launch \in Launches
    /\ OutputInit /\ ServerInit(launch.lines) /\ WebInit
    /\ StoreInit(launch.stored)
    /\ stage = "loop" /\ phase = "remote" /\ typed = 0

-------------------------------------------------------------------------------
(* run_app.  A phase that has nothing to do, and can only be given         *)
(* something by the loop itself, is passed over.                           *)
Tick == <<"remote", "web input", "draw", "requests", "mcp", "keyboard", "restoring", "drain", "verdicts", "exits">>

Does(part) ==
    CASE part = "remote" -> connecting' # {} \/ completions' # <<>>
      [] part = "web input" -> launch.web
      [] part = "draw" -> TRUE
      [] part = "requests" -> launch.workflow
      [] part = "mcp" -> launch.mcp
      [] part = "keyboard" -> ~launch.mcp
      [] part = "restoring" -> todo' # <<>>
      [] part = "drain" -> panes' # {}
      [] part = "verdicts" -> Waiting' # {}
      [] part = "exits" -> panes' \ exited' # {}

Following ==
    LET at == CHOOSE i \in 1 .. Len(Tick) : Tick[i] = phase
        later == {k \in 1 .. Len(Tick) : Does(Tick[((at + k - 1) % Len(Tick)) + 1])}
    IN Tick[((at + Min(later) - 1) % Len(Tick)) + 1]

Moves == phase' = Following /\ UNCHANGED <<launch, stage, typed>>
Stays == UNCHANGED mainVars
Goes(next) == stage' = next /\ UNCHANGED <<launch, phase, typed>>
OnPanes == UNCHANGED <<mcpVars, webVars, storeVars>>
Idle == UNCHANGED <<vars, outputVars, mcpVars, webVars, storeVars>>

RemoteDone ==
    /\ phase = "remote"
    /\ \/ FinishRemote /\ OnPanes /\ Stays
       \/ completions = <<>> /\ Idle /\ Moves

WebInput == phase = "web input" /\ HandleWebInput /\ UNCHANGED <<mcpVars, storeVars>> /\ Moves

(* A draw that fails ends the loop; with --mcp nothing else does.          *)
Draw == /\ phase = "draw"
        /\ \/ PublishWebFrame /\ UNCHANGED <<mcpVars, storeVars>> /\ Moves
           \/ Idle /\ Goes("remote tasks")

Requests ==
    /\ phase = "requests"
    /\ \/ (\E id \in PaneIds : SendAndWait(id)) /\ OnPanes /\ Stays
       \/ Idle /\ Moves

McpRequests == phase = "mcp" /\ HandleMcpRequests /\ UNCHANGED <<webVars, storeVars>> /\ Moves

Command(line) ==
    \/ line.do = "spawn" /\ (Open(line.asked) \/ QueueRemote(line.asked) \/ OpenFails(line.asked)) /\ OnPanes
    \/ line.do = "kill" /\ Kill(line.pane) /\ OnPanes
    \/ line.do = "send" /\ SendTo({line.to} \cap panes, line.text) /\ OnPanes
    \/ line.do = "broadcast" /\ SendTo(panes, line.text) /\ OnPanes
    \/ line.do = "pipe" /\ Pipe(line.from, line.to) /\ OnPanes
    \/ line.do = "load-plugin" /\ LoadPlugin(line.library) /\ OnPanes
    \/ line.do = "save" /\ Save(line.name) /\ UNCHANGED <<mcpVars, webVars>>
    \/ line.do = "restore" /\ Restore(line.name) /\ UNCHANGED <<mcpVars, webVars>>

Keyboard ==
    /\ phase = "keyboard"
    /\ \/ Idle /\ Moves
       \/ Idle /\ Goes("remote tasks")                  \* the quit key
       \/ /\ typed < Len(launch.typing) /\ typed' = typed + 1
          /\ Command(launch.typing[typed'])
          /\ phase' = Following /\ UNCHANGED <<launch, stage>>

(* The loop of :restore, inside the command. *)
Restoring ==
    /\ phase = "restoring"
    /\ \/ RestorePane /\ UNCHANGED <<mcpVars, webVars>> /\ Stays
       \/ todo = <<>> /\ Idle /\ Moves

Drain == phase = "drain" /\ PollPtyOutput /\ OnPanes /\ Moves
Completions == phase = "verdicts" /\ PollPendingCompletions /\ OnPanes /\ Moves
Exits == phase = "exits" /\ NoticeExits /\ OnPanes /\ Moves

LoopStep ==
    /\ stage = "loop"
    /\ RemoteDone \/ WebInput \/ Draw \/ Requests \/ McpRequests \/ Keyboard \/ Restoring
       \/ Drain \/ Completions \/ Exits

-------------------------------------------------------------------------------
(* The way out.  Connections under way are waited for, since the abort of  *)
(* a thread that runs has no effect.                                       *)
JoinRemoteTasks == /\ stage = "remote tasks" /\ connecting = {}
                   /\ Idle /\ Goes("background")

(* A background task is signalled, given two seconds, and aborted.  The    *)
(* web server's task only stops accepting connections.                     *)
StopBackground_Waits ==                                              \* mutant
    /\ stage = "background" /\ (launch.mcp => server = "done")
    /\ Idle /\ Goes("app")

StopBackground ==
    /\ stage = "background"
    /\ \/ (launch.mcp => server = "done") /\ Idle
       \/ launch.mcp /\ server # "done" /\ Ends /\ UNCHANGED <<vars, outputVars, webVars, storeVars>>
    /\ Goes("app")

ShutdownApp == stage = "app" /\ KillAll /\ OnPanes /\ Goes("runtime")

(* Tasks that are left are dropped where they wait, connections with them. *)
DropRuntime ==
    /\ stage = "runtime"
    /\ Disconnect(linked)
    /\ saving' = {}
    /\ UNCHANGED <<mcpVars, stored, saves, clock, todo, restored>>
    /\ Goes("threads")

(* Threads are waited for, without a limit. *)
Exit == /\ stage = "threads"
        /\ \A id \in PaneIds : reader[id] \in {"none", "done"}
        /\ held = "none"
        /\ Idle /\ Goes("over")

Teardown == JoinRemoteTasks \/ StopBackground \/ ShutdownApp \/ DropRuntime \/ Exit

-------------------------------------------------------------------------------
(* Beside the loop.  Until the runtime is dropped tasks go on.             *)
Running == stage \notin {"threads", "over"}
Apart == UNCHANGED <<mcpVars, webVars, storeVars, mainVars>>

Reader(id) == Threads(id) /\ Apart
Server == /\ Running /\ launch.mcp
          /\ Replied \/ (stage = "background" /\ ShutdownSignal)
          /\ UNCHANGED <<webVars, storeVars, mainVars>>
Viewer(v) == Running /\ (Forward(v) \/ Display(v)) /\ UNCHANGED <<mcpVars, storeVars, mainVars>>

Client == /\ launch.mcp /\ Running
          /\ ClientActs
          /\ UNCHANGED <<webVars, storeVars, mainVars>>
Console == HeldCallReturns /\ UNCHANGED <<webVars, storeVars, mainVars>>
Browser(v) == /\ launch.web /\ Running
              /\ (Connect(v) /\ stage = "loop") \/ (v \in linked /\ Disconnect({v})) \/ Press(v)
              /\ UNCHANGED <<mcpVars, storeVars, mainVars>>
Database == /\ launch.db /\ Running
            /\ ClockTicks \/ \E save \in saving : SaveEnds(save)
            /\ UNCHANGED <<mcpVars, webVars, mainVars>>
World == \E id \in PaneIds : (Outside(id) \/ ConnectEnds(id)) /\ Apart

ServicesNext ==
    \/ LoopStep \/ Teardown
    \/ (\E id \in PaneIds : Reader(id)) \/ World
    \/ Server \/ Client \/ Console
    \/ (\E v \in Viewers : Viewer(v) \/ Browser(v))
    \/ Database

(* The loop ticks, threads and tasks that can go on do, and a browser      *)
(* draws what it gets.  Nothing is asked of harnesses, of what they leave  *)
(* behind, of far ends, of people or of the client, not even that it reads *)
(* what it is answered.                                                    *)
Fairness ==
    /\ WF_allVars(LoopStep \/ Teardown)
    /\ \A id \in PaneIds : WF_allVars(Reader(id))
    /\ WF_allVars(Server)
    /\ \A v \in Viewers : WF_allVars(Viewer(v))

ServicesSpec == ServicesInit /\ [][ServicesNext]_allVars /\ Fairness

-------------------------------------------------------------------------------
Ticking == stage = "loop"

(* What a harness writes is shown, all of it and in order, as long as its  *)
(* pane is open: also what it wrote last before it exited, which may be    *)
(* read and drained after the exit was noticed (app.rs:505, app.rs:756).   *)
OutputIsShown ==
    /\ []OutputInOrder
    /\ \A id \in PaneIds : []<>(Ticking /\ id \in panes => Len(fed[id]) = written[id])

(* A workflow step waiting on a pane whose harness has come to its prompt  *)
(* ends: the prompt is found on the screen, below whatever else is there   *)
(* and above the blank rows (app.rs:686, traits.rs:32).                    *)
AtPrompt(id) ==
    LET script == Script[request[id].harness]
    IN /\ ~IsPlugin(id) /\ written[id] = Len(script) /\ script # <<>>
       /\ Last(script) \in BuiltIn[request[id].harness].waits

StepsAreAnswered ==
    \A id \in PaneIds : []<>(Ticking /\ step[id] = "waiting" => id \in panes /\ ~AtPrompt(id))

(* Once the loop has ended the program ends (main.rs:397): no reader       *)
(* thread stays with a full channel, and no server with a request nobody   *)
(* will answer (hom-mcp server.rs:70).  It waits only for what is not its  *)
(* own: a connection being made, whoever holds the other end of a terminal *)
(* or connection that is still read (async_reader.rs:37), and the client,  *)
(* if the server was stopped while it read a line or wrote one.            *)
EveryTaskStops ==
    []<>(\/ stage \in {"loop", "over"}
         \/ stage = "remote tasks" /\ connecting # {}
         \/ stage = "threads" /\ ((\E id \in lingering : reader[id] = "reading") \/ held # "none"))

(* A browser that stays connected comes to show what the panes show,       *)
(* however many frames it missed (server.rs:105), and no pane that was     *)
(* closed meanwhile.                                                       *)
ViewersCatchUp == \A v \in Viewers : []<>(Ticking /\ v \in linked => page[v] = Frame)

-------------------------------------------------------------------------------
(* The parts of the inductive invariant that depend on the launch.  With   *)
(* --mcp nothing is typed, so there are only panes the client asked for;   *)
(* without it the server does not run.                                     *)
OnlyTheClient ==
    /\ launch \in Launches /\ conversation = launch.lines
    /\ typed \in Nat /\ \E i \in 1 .. Len(Tick) : phase = Tick[i]
    /\ launch.mcp => /\ phase # "keyboard" /\ todo = <<>> /\ reserved = {}
                     /\ \A id \in panes : ~IsPlugin(id)
    /\ ~launch.mcp => /\ server = "reading" /\ heard = 0
                      /\ queue = <<>> /\ response = Nothing /\ stdout = <<>> /\ held = "none"

ServicesInv == /\ IInv /\ reserved \cap sessions = {} /\ OutputInv /\ RestoreInv
               /\ OnlyTheClient /\ RepliesInv /\ IsSeq(web_input)
===============================================================================
