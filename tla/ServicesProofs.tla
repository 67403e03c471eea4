----------------------------- MODULE ServicesProofs -----------------------------
(***************************************************************************)
(* Proofs about the whole program, for every launch, any harnesses,        *)
(* capacities and viewers, and for local ids that stay below RemoteBase:   *)
(* it acts on the panes as PaneManager does; output is shown in order; a   *)
(* restore is faithful; and the replies of the MCP server match.           *)
(***************************************************************************)
EXTENDS Services, PaneManagerProofs, SequenceLemmas

(* What a step of the program does to the panes and what belongs to them.  *)
OutputStep ==
    \/ \E asked : Open(asked) \/ QueueRemote(asked) \/ OpenFails(asked)
    \/ FinishRemote \/ NoticeExits \/ PollPtyOutput
    \/ (\E id : Kill(id)) \/ KillAll
    \/ \E id \in PaneIds : Threads(id) \/ Outside(id) \/ ConnectEnds(id)
    \/ \E i \in 1 .. Len(launch.typing) :
          launch.typing[i].do = "load-plugin" /\ LoadPlugin(launch.typing[i].library)
    \/ UNCHANGED <<vars, openedVars, threadVars, channel, fed, remoteOpenVars, plugins>>

(* The MCP server's requests do nothing else to them. *)
LEMMA McpOutput == HandleMcpRequests => OutputStep
<1> SUFFICES ASSUME NEW line, Execute(line) PROVE OutputStep
  BY DEF HandleMcpRequests, paneVars, outputVars, OutputStep
<1>1. CASE SpawnAsked(line.args) \/ KillAsked(line.args)
  BY <1>1 DEF SpawnAsked, KillAsked, Kill, OutputStep
<1>2. CASE ListPanes \/ SendToPane(line.args) \/ RunWorkflow(line.args) \/ GetPaneOutput(line.args)
  BY <1>2 DEF ListPanes, SendToPane, RunWorkflow, GetPaneOutput, paneVars, outputVars, Write, OutputStep
<1>3. QED
  BY <1>1, <1>2 DEF Execute

(* A typed command is one of the launch. *)
LEMMA KeyboardOutput == OnlyTheClient /\ Keyboard => OutputStep
<1> SUFFICES ASSUME OnlyTheClient, Keyboard PROVE OutputStep
  OBVIOUS
<1>1. CASE Idle
  BY <1>1 DEF Idle, outputVars, OutputStep
<1>2. CASE typed < Len(launch.typing) /\ typed' = typed + 1 /\ Command(launch.typing[typed'])
  <2> DEFINE line == launch.typing[typed']
  <2>1. typed' \in 1 .. Len(launch.typing)
    BY <1>2, LaunchesAssumption DEF OnlyTheClient
  <2>2. CASE line.do = "spawn" \/ line.do = "kill"
    BY <1>2, <2>2 DEF Command, OutputStep
  <2>3. CASE line.do = "load-plugin"
    BY <1>2, <2>1, <2>3 DEF Command, OutputStep
  <2>4. CASE line.do \notin {"spawn", "kill", "load-plugin"}
    BY <1>2, <2>4 DEF Command, SendTo, Pipe, Save, Restore, outputVars, OutputStep
  <2>5. QED
    BY <2>2, <2>3, <2>4
<1>3. QED
  BY <1>1, <1>2 DEF Keyboard

(* Nor does any phase of the tick, ... *)
LEMMA LoopOutput == OnlyTheClient /\ LoopStep => OutputStep
<1> SUFFICES ASSUME OnlyTheClient, LoopStep PROVE OutputStep
  OBVIOUS
<1>1. CASE RemoteDone \/ Exits
  BY <1>1 DEF RemoteDone, Exits, Idle, outputVars, OutputStep
<1>2. CASE WebInput \/ Draw
  BY <1>2 DEF WebInput, Draw, Idle, HandleWebInput, PublishWebFrame, outputVars, OutputStep
<1>3. CASE Requests
  BY <1>3 DEF Requests, Idle, SendAndWait, Write, outputVars, OutputStep
<1>4. CASE McpRequests \/ Keyboard
  BY <1>4, McpOutput, KeyboardOutput DEF McpRequests
<1>5. CASE Restoring
  BY <1>5 DEF Restoring, Idle, RestorePane, outputVars, OutputStep
<1>6. CASE Drain \/ Completions
  BY <1>6 DEF Drain, Completions, PollPendingCompletions, OutputStep
<1>7. QED
  BY <1>1, <1>2, <1>3, <1>4, <1>5, <1>6 DEF LoopStep

(* What goes on beside the loop. *)
Beside == \/ \E id \in PaneIds : Reader(id)
          \/ World \/ Server \/ Client \/ Console
          \/ \E v \in Viewers : Viewer(v) \/ Browser(v)
          \/ Database

(* ... nor do threads, tasks and the world. *)
LEMMA BesideOutput == Beside => OutputStep
<1>1. CASE (\E id \in PaneIds : Reader(id)) \/ World
  BY <1>1 DEF Reader, World, OutputStep
<1>2. CASE Server \/ Client \/ Console
  BY <1>2 DEF Server, Client, Console, Replied, ClientActs, WriteReply, ShutdownSignal, ReadLine,
     EndOfInput, HeldCallReturns, paneVars, outputVars, OutputStep
<1>3. CASE \E v \in Viewers : Viewer(v) \/ Browser(v)
  BY <1>3 DEF Viewer, Browser, Forward, Display, Connect, Disconnect, Press, outputVars, OutputStep
<1>4. CASE Database
  BY <1>4 DEF Database, ClockTicks, SaveEnds, outputVars, OutputStep
<1>5. QED
  BY <1>1, <1>2, <1>3, <1>4 DEF Beside

(* Every step of the program is one of these. *)
LEMMA EveryOutputStep == OnlyTheClient /\ [ServicesNext]_allVars => OutputStep
<1> SUFFICES ASSUME OnlyTheClient, [ServicesNext]_allVars PROVE OutputStep
  OBVIOUS
<1>1. CASE Teardown
  BY <1>1 DEF Teardown, JoinRemoteTasks, StopBackground, ShutdownApp, DropRuntime, Exit,
     Idle, Disconnect, outputVars, OutputStep
<1>2. CASE UNCHANGED allVars
  BY <1>2 DEF allVars, outputVars, OutputStep
<1>3. QED
  BY <1>1, <1>2, LoopOutput, BesideOutput DEF ServicesNext, Beside

-------------------------------------------------------------------------------
(* Each of them is a call PaneManager knows, or leaves the panes alone. *)
LEMMA OutputStepsPanes == TypeOK /\ OutputStep => [Next]_vars
<1> SUFFICES ASSUME TypeOK, OutputStep PROVE [Next]_vars
  OBVIOUS
<1>1. instances \cup sessions \cup reserved \subseteq PaneIds
  BY DEF TypeOK, PaneIds
<1>2. ASSUME NEW asked, Open(asked) \/ QueueRemote(asked) \/ OpenFails(asked) PROVE [Next]_vars
  BY <1>2 DEF Open, QueueRemote, OpenFails, Next
<1>3. CASE KillAll \/ NoticeExits
  BY <1>3 DEF KillAll, NoticeExits, Next
<1>4. CASE FinishRemote
  <2>1. PICK id : CompleteRemote(id) \/ RemoteSpawnFailed(id)
    BY <1>4 DEF FinishRemote
  <2>2. id \in PaneIds
    BY <1>1, <2>1 DEF CompleteRemote, RemoteSpawnFailed
  <2>3. QED
    BY <2>1, <2>2 DEF Next
<1>5. ASSUME NEW id, Kill(id) PROVE [Next]_vars
  <2>1. CASE KillPane(id)
    BY <1>1, <2>1 DEF KillPane, Next
  <2>2. CASE KillFails(id) /\ id \in instances
    BY <1>1, <2>2 DEF Next
  <2>3. CASE KillFails(id) /\ id \notin instances
    BY <2>3 DEF KillFails, Reaped, vars, viewVars, localVars, remoteVars
  <2>4. QED
    BY <1>5, <2>1, <2>2, <2>3 DEF Kill
<1>6. ASSUME NEW id \in PaneIds, Threads(id) \/ Outside(id) \/ ConnectEnds(id) PROVE [Next]_vars
  BY <1>6 DEF Threads, ReaderReads, ReaderSends, ReaderEnds, Outside, WriteLine, OthersClose, ProcessEnds,
     ConnectEnds, Next
<1>7. QED
  BY <1>2, <1>3, <1>4, <1>5, <1>6 DEF OutputStep, PollPtyOutput, LoadPlugin

(* Ids are handed out once: one that was stays so, and a pane that is gone *)
(* does not come back.                                                     *)
LEMMA HandedOutOnce ==
    ASSUME MaxLocal < RemoteBase, IInv, reserved \cap sessions = {}, [Next]_vars
    PROVE  /\ LocalIds \cap RemoteIds = {}
           /\ \A id \in panes \cup instances \cup sessions \cup reserved : id \in PaneIds /\ HandedOut(id)
           /\ next_local <= next_local' /\ next_remote <= next_remote'
           /\ \A id \in PaneIds : HandedOut(id) => HandedOut(id)'
           /\ \A id \in PaneIds : HandedOut(id) /\ id \notin panes \cup reserved => id \notin (panes \cup reserved)'
           /\ (reserved \cap sessions)' = {}
<1>1. LocalIds \cap RemoteIds = {} /\ LocalIds \subseteq Nat /\ RemoteIds \subseteq Nat
  BY BoundsAssumption, BaseAssumption DEF LocalIds, RemoteIds
<1>2. next_local \in Nat /\ next_remote \in Nat
  BY BoundsAssumption, BaseAssumption DEF IInv, TypeOK
<1>3. \A id \in panes \cup instances \cup sessions \cup reserved : id \in PaneIds /\ HandedOut(id)
  BY DEF IInv, TypeOK, IdsInOrder, PaneIds, HandedOut
<1>4. next_local <= next_local' /\ next_remote <= next_remote' /\ next_local' \in Nat /\ next_remote' \in Nat
  BY <1>2 DEF Next, SpawnPane, SpawnFails, OpenPty, PrepareRemote, FocusNext, FocusPrev, FocusPane,
     ToCommandBar, HandleExited, Shutdown, CompleteRemote, RemoteSpawnFailed, ReleaseSlot, KillPane, KillFails,
     ProcessExits, localVars, remoteVars, vars
<1>5. \A id \in PaneIds : HandedOut(id) => HandedOut(id)'
  <2> SUFFICES ASSUME NEW id \in PaneIds, HandedOut(id) PROVE HandedOut(id)'
    OBVIOUS
  <2>1. id \in Nat
    BY <1>1 DEF PaneIds
  <2>2. QED
    BY <1>2, <1>4, <2>1 DEF HandedOut
<1>6. /\ panes' \subseteq panes \cup reserved \cup ({next_local} \cap LocalIds)
      /\ reserved' \subseteq reserved \cup ({next_remote} \cap RemoteIds)
      /\ sessions' \subseteq sessions \cup reserved /\ (sessions' = sessions \/ reserved' \cap sessions' \subseteq reserved' \cap sessions)
  BY DEF Next, SpawnPane, SpawnFails, OpenPty, PrepareRemote, FocusNext, FocusPrev, FocusPane,
     ToCommandBar, HandleExited, Shutdown, CompleteRemote, RemoteSpawnFailed, ReleaseSlot, Register, KillPane,
     KillFails, ProcessExits, localVars, remoteVars, viewVars, vars
<1>7. ASSUME NEW id \in PaneIds, HandedOut(id) PROVE id # next_remote \/ id \notin RemoteIds
  BY <1>1, <1>2, <1>7 DEF HandedOut
<1>8. ASSUME NEW id \in PaneIds, HandedOut(id) PROVE id # next_local \/ id \notin LocalIds
  BY <1>1, <1>2, <1>8 DEF HandedOut
<1>9. (reserved \cap sessions)' = {}
  BY <1>3, <1>6, <1>7
<1>10. QED
  BY <1>1, <1>3, <1>4, <1>5, <1>6, <1>7, <1>8, <1>9

(* What a pane was asked for is written down when its id is handed out. *)
LEMMA OutputOpens ==
    ASSUME OutputStep
    PROVE  \/ \E asked : /\ Starts(next_local, asked) /\ next_local \in LocalIds
                         /\ next_local' = next_local + 1 /\ UNCHANGED next_remote
           \/ \E asked : /\ Starts(next_remote, asked) /\ next_remote \in RemoteIds
                         /\ next_remote' = next_remote + 1 /\ UNCHANGED next_local
           \/ UNCHANGED <<request, started, next_local, next_remote>>
<1> DEFINE Locally(asked) == /\ Starts(next_local, asked) /\ next_local \in LocalIds
                             /\ next_local' = next_local + 1 /\ UNCHANGED next_remote
           Remotely(asked) == /\ Starts(next_remote, asked) /\ next_remote \in RemoteIds
                              /\ next_remote' = next_remote + 1 /\ UNCHANGED next_local
           Neither == UNCHANGED <<request, started, next_local, next_remote>>
<1>1. ASSUME NEW asked, Open(asked) PROVE Locally(asked)
  BY <1>1 DEF Open, Runs, SpawnPane, OpenPty, remoteVars
<1>2. ASSUME NEW asked, OpenFails(asked) PROVE Locally(asked) \/ Neither
  BY <1>2 DEF OpenFails, Runs, SpawnFails, OpenPty, localVars, remoteVars, outputVars, openedVars
<1>3. ASSUME NEW asked, QueueRemote(asked) PROVE Remotely(asked)
  BY <1>3 DEF QueueRemote, PrepareRemote, localVars
<1>4. ASSUME FinishRemote \/ NoticeExits \/ PollPtyOutput \/ KillAll PROVE Neither
  BY <1>4 DEF FinishRemote, CompleteRemote, RemoteSpawnFailed, NoticeExits, HandleExited, PollPtyOutput, KillAll,
     Shutdown, Close, vars, localVars, remoteVars, openedVars
<1>5. ASSUME NEW id, Kill(id) \/ Threads(id) \/ Outside(id) \/ ConnectEnds(id) PROVE Neither
  <2>1. CASE Kill(id)
    BY <2>1 DEF Kill, KillPane, KillFails, Close, remoteVars, outputVars, openedVars
  <2>2. CASE Threads(id) \/ Outside(id) \/ ConnectEnds(id)
    BY <2>2 DEF Threads, ReaderReads, ReaderSends, ReaderEnds, Outside, WriteLine, OthersClose, ProcessEnds,
       ProcessExits, ConnectEnds, vars, localVars, remoteVars, openedVars
  <2>3. QED
    BY <1>5, <2>1, <2>2
<1>6. ASSUME NEW library, LoadPlugin(library) PROVE Neither
  BY <1>6 DEF LoadPlugin, vars, localVars, remoteVars, openedVars
<1>7. UNCHANGED <<vars, openedVars, threadVars, channel, fed, remoteOpenVars, plugins>> => Neither
  BY DEF vars, localVars, remoteVars, openedVars
<1> HIDE DEF Locally, Remotely, Neither
<1>8. (\E asked : Locally(asked)) \/ (\E asked : Remotely(asked)) \/ Neither
  <2>1. ASSUME NEW asked, Open(asked) \/ QueueRemote(asked) \/ OpenFails(asked)
        PROVE  (\E one : Locally(one)) \/ (\E one : Remotely(one)) \/ Neither
    BY <1>1, <1>2, <1>3, <2>1
  <2>2. CASE FinishRemote \/ NoticeExits \/ PollPtyOutput \/ KillAll
    BY <1>4, <2>2
  <2>3. QED
    BY <1>5, <1>6, <1>7, <2>1, <2>2 DEF OutputStep
<1>9. QED
  BY <1>8 DEF Locally, Remotely, Neither

(* What was asked for a pane, and the command it runs, stand. *)
LEMMA RequestsStand ==
    ASSUME MaxLocal < RemoteBase, IInv, reserved \cap sessions = {},
           DOMAIN request = PaneIds, DOMAIN started = PaneIds, OutputStep
    PROVE  /\ DOMAIN request' = PaneIds /\ DOMAIN started' = PaneIds
           /\ \A id \in PaneIds : HandedOut(id) => request'[id] = request[id] /\ started'[id] = started[id]
<1>1. ASSUME NEW n, NEW asked, Starts(n, asked), ~(n \in PaneIds /\ HandedOut(n))
      PROVE  /\ DOMAIN request' = PaneIds /\ DOMAIN started' = PaneIds
             /\ \A id \in PaneIds : HandedOut(id) => request'[id] = request[id] /\ started'[id] = started[id]
  BY <1>1 DEF Starts
<1>2. LocalIds \cap RemoteIds = {} /\ next_local \in Nat /\ next_remote \in Nat
  BY BoundsAssumption, BaseAssumption DEF IInv, TypeOK, LocalIds, RemoteIds
<1>3. next_local \in LocalIds => ~HandedOut(next_local)
  BY <1>2 DEF HandedOut
<1>4. next_remote \in RemoteIds => ~HandedOut(next_remote)
  BY <1>2 DEF HandedOut
<1>5. QED
  BY <1>1, <1>3, <1>4, OutputOpens

-------------------------------------------------------------------------------
(* Output on its way. *)
LEMMA ScriptsAreLines == \A name \in DOMAIN Script : Script[name] \in Seq(Lines)
<1> SUFFICES ASSUME NEW name \in DOMAIN Script PROVE Script[name] \in Seq(Lines)
  OBVIOUS
<1> DEFINE s == Script[name]
<1>1. Len(s) \in Nat /\ s = [i \in 1 .. Len(s) |-> s[i]]
  BY ScriptAssumption DEF IsSeq
<1>2. Range(s) \in {Range(Script[other]) : other \in DOMAIN Script}
  OBVIOUS
<1>3. \A i \in 1 .. Len(s) : s[i] \in Lines
  <2>1. \A i \in 1 .. Len(s) : s[i] \in Range(s)
    BY <1>1 DEF Range
  <2> HIDE DEF s
  <2>2. QED
    BY <1>2, <2>1 DEF Lines
<1> HIDE DEF s
<1>4. QED
  BY <1>1, <1>3 DEF s

(* Nothing of a pane that just opened is on its way ... *)
LEMMA NothingYet ==
    ASSUME NEW s \in Seq(Lines)
    PROVE  Conserved(<<>>, <<>>, <<>>, <<>>, s, 0)
<1>1. 0 <= Len(s) /\ First(0, s) = <<>> /\ <<>> \in Seq(Lines)
  BY DEF First
<1>2. Cat(<<>>, <<>>) = <<>>
  BY <1>1, CatNothing
<1>3. Cat(Cat(Cat(<<>>, FlattenSeq(<<>>)), <<>>), <<>>) = First(0, s)
  BY <1>1, <1>2, FlattenSeqEmpty
<1>4. QED
  BY <1>1, <1>3 DEF Conserved, Cat, First

(* ... a line is written, read in a chunk, sent and fed to the emulator.   *)
LEMMA Moving ==
    ASSUME NEW f \in Seq(Lines), NEW c \in Seq(Seq(Lines)), NEW h \in Seq(Lines), NEW t \in Seq(Lines),
           NEW s \in Seq(Lines), NEW n \in Nat, Conserved(f, c, h, t, s, n)
    PROVE  /\ n < Len(s) => /\ s[n + 1] \in Lines
                            /\ Conserved(f, c, h, Append(t, s[n + 1]), s, n + 1)
           /\ h = <<>> => \A k \in 1 .. Len(t) :
                             /\ SubSeq(t, 1, k) \in Seq(Lines) /\ SubSeq(t, k + 1, Len(t)) \in Seq(Lines)
                             /\ Conserved(f, c, SubSeq(t, 1, k), SubSeq(t, k + 1, Len(t)), s, n)
           /\ Conserved(f, Append(c, h), <<>>, t, s, n)
           /\ f \o FlattenSeq(c) \in Seq(Lines)
           /\ Conserved(f \o FlattenSeq(c), <<>>, h, t, s, n)
           /\ f = SubSeq(s, 1, Len(f))
<1> DEFINE m == FlattenSeq(c)
           a == Cat(Cat(f, m), h)
<1>1. m \in Seq(Lines) /\ FlattenSeq(Append(c, h)) = Cat(m, h) /\ FlattenSeq(<<>>) = <<>>
  BY FlattenSeqType, FlattenSeqAppend, FlattenSeqEmpty DEF Cat
<1>2. n <= Len(s) /\ Len(s) \in Nat /\ Cat(a, t) = First(n, s)
  BY DEF Conserved, Cat, First
<1> HIDE DEF m
<1>3. Cat(f, m) \in Seq(Lines) /\ Cat(m, h) \in Seq(Lines) /\ <<>> \in Seq(Lines)
  BY <1>1, CatType
<1>4. a \in Seq(Lines)
  BY <1>3, CatType
<1> HIDE DEF a
<1>5. ASSUME n < Len(s)
      PROVE  s[n + 1] \in Lines /\ Conserved(f, c, h, Append(t, s[n + 1]), s, n + 1)
  <2>1. s[n + 1] \in Lines /\ Cat(a, Append(t, s[n + 1])) = First(n + 1, s)
    BY <1>2, <1>4, <1>5, WrittenLine
  <2>2. n + 1 <= Len(s)
    BY <1>2, <1>5
  <2>3. QED
    BY <2>1, <2>2 DEF Conserved, Cat, First, m, a
<1>6. ASSUME h = <<>>, NEW k \in 1 .. Len(t)
      PROVE  /\ SubSeq(t, 1, k) \in Seq(Lines) /\ SubSeq(t, k + 1, Len(t)) \in Seq(Lines)
             /\ Conserved(f, c, SubSeq(t, 1, k), SubSeq(t, k + 1, Len(t)), s, n)
  <2> DEFINE p == SubSeq(t, 1, k)
             q == SubSeq(t, k + 1, Len(t))
  <2>1. p \in Seq(Lines) /\ q \in Seq(Lines) /\ Cat(p, q) = t
    BY TakenChunk
  <2> HIDE DEF p, q
  <2>2. a = Cat(f, m)
    BY <1>3, <1>6, CatNothing DEF a
  <2>3. Cat(Cat(a, p), q) = Cat(a, Cat(p, q))
    BY <1>4, <2>1, CatAssociative
  <2>4. Cat(Cat(Cat(f, m), p), q) = First(n, s)
    BY <1>2, <2>1, <2>2, <2>3
  <2>5. QED
    BY <1>2, <2>1, <2>4 DEF Conserved, Cat, First, m, p, q
<1>7. Conserved(f, Append(c, h), <<>>, t, s, n)
  <2>1. Cat(f, Cat(m, h)) = a
    BY <1>1, CatAssociative DEF a
  <2>2. Cat(a, <<>>) = a
    BY <1>4, CatNothing
  <2>3. Cat(Cat(Cat(f, FlattenSeq(Append(c, h))), <<>>), t) = First(n, s)
    BY <1>1, <1>2, <2>1, <2>2
  <2>4. QED
    BY <1>2, <2>3 DEF Conserved, Cat, First
<1>8. Conserved(Cat(f, m), <<>>, h, t, s, n)
  <2>1. Cat(Cat(f, m), <<>>) = Cat(f, m)
    BY <1>3, CatNothing
  <2>2. Cat(Cat(Cat(Cat(f, m), FlattenSeq(<<>>)), h), t) = First(n, s)
    BY <1>1, <1>2, <2>1 DEF a
  <2>3. QED
    BY <1>2, <2>2 DEF Conserved, Cat, First
<1>9. f = SubSeq(s, 1, Len(f))
  <2> DEFINE r == Cat(Cat(m, h), t)
  <2>1. r \in Seq(Lines)
    BY <1>3, CatType
  <2>2. Cat(Cat(f, Cat(m, h)), t) = Cat(f, r)
    BY <1>3, CatAssociative
  <2>3. Cat(f, Cat(m, h)) = a
    BY <1>1, CatAssociative DEF a
  <2> HIDE DEF r
  <2>4. Cat(f, r) = First(n, s) /\ n \in 0 .. Len(s)
    BY <1>2, <2>2, <2>3
  <2>5. QED
    BY <2>1, <2>4, FirstIsPrefix
<1>10. QED
  BY <1>3, <1>5, <1>6, <1>7, <1>8, <1>9 DEF Cat, m

(* A step that moves no output, though a pane may close, a reader go on, a *)
(* connection fail or a plugin be loaded.                                  *)
LEMMA OutputFrame ==
    ASSUME MaxLocal < RemoteBase, IInv, reserved \cap sessions = {}, OutputInv, [Next]_vars,
           UNCHANGED <<request, started, written, tty, hand, fed>>,
           panes' \subseteq panes, reserved' \subseteq reserved, plugins' \subseteq DOMAIN Script,
           reader' \in [PaneIds -> {"none", "reading", "sending", "done"}],
           channel' \in [PaneIds -> Seq(Seq(Lines))],
           \A id \in PaneIds : /\ reader'[id] = "none" <=> reader[id] = "none"
                               /\ reader'[id] # "sending" => hand[id] = <<>>
                               /\ channel'[id] \in {channel[id], <<>>},
           \A id \in panes' : channel'[id] = channel[id]
    PROVE  OutputInv'
<1>1. OutputTypes'
  BY DEF OutputInv, OutputTypes
<1>2. OpenedOnce'
  <2>1. \A id \in PaneIds : HandedOut(id) => HandedOut(id)'
    BY HandedOutOnce
  <2>2. QED
    BY <2>1 DEF OutputInv, OpenedOnce
<1>3. AllHaveScripts'
  BY DEF OutputInv, AllHaveScripts
<1>4. \A id \in panes' : InTransit(id)'
  <2> SUFFICES ASSUME NEW id \in panes' PROVE InTransit(id)'
    OBVIOUS
  <2>1. InTransit(id) /\ channel'[id] = channel[id]
    BY DEF OutputInv
  <2>2. QED
    BY <2>1 DEF InTransit
<1>5. QED
  BY <1>1, <1>2, <1>3, <1>4 DEF OutputInv

(* A pane opens, under an id just handed out or out of the reserved ones,  *)
(* or only its reader starts.                                              *)
LEMMA Opening ==
    ASSUME MaxLocal < RemoteBase, IInv, reserved \cap sessions = {}, OutputInv, [Next]_vars,
           NEW n \in PaneIds, reader[n] = "none", Reads(n), HandedOut(n)', n \notin reserved',
           panes' \subseteq panes \cup {n}, reserved' \subseteq reserved,
           DOMAIN request' = PaneIds, DOMAIN started' = PaneIds,
           request'[n].harness \in DOMAIN Script,
           \A id \in PaneIds : id # n => request'[id] = request[id],
           UNCHANGED <<written, tty, hand, channel, fed, plugins>>
    PROVE  OutputInv'
<1>1. reader' = [reader EXCEPT ![n] = "reading"]
  BY DEF Reads
<1>2. OutputTypes'
  BY <1>1 DEF OutputInv, OutputTypes
<1>3. OpenedOnce'
  <2>1. \A id \in PaneIds : HandedOut(id) => HandedOut(id)'
    BY HandedOutOnce
  <2>2. QED
    BY <1>1, <2>1 DEF OutputInv, OutputTypes, OpenedOnce
<1>4. AllHaveScripts'
  BY <1>1 DEF OutputInv, OutputTypes, AllHaveScripts
<1>5. \A id \in panes' : InTransit(id)'
  <2> SUFFICES ASSUME NEW id \in panes' PROVE InTransit(id)'
    OBVIOUS
  <2>1. CASE id = n
    <3>1. /\ written'[n] = 0 /\ tty'[n] = <<>> /\ hand'[n] = <<>> /\ channel'[n] = <<>> /\ fed'[n] = <<>>
      BY DEF OutputInv, OpenedOnce, OutputTypes
    <3>2. Script[request'[n].harness] \in Seq(Lines)
      BY ScriptsAreLines
    <3>3. QED
      BY <2>1, <3>1, <3>2, NothingYet DEF InTransit
  <2>2. CASE id # n
    <3>1. InTransit(id) /\ request'[id] = request[id]
      BY <2>2 DEF OutputInv, IInv, TypeOK
    <3>2. QED
      BY <3>1 DEF InTransit
  <2>3. QED
    BY <2>1, <2>2
<1>6. QED
  BY <1>2, <1>3, <1>4, <1>5 DEF OutputInv

(* Output of one pane moves. *)
LEMMA OnePaneMoves ==
    ASSUME OutputInv, panes \subseteq PaneIds, NEW p \in PaneIds, UNCHANGED <<vars, request, started, plugins>>,
           reader[p] # "none", reader'[p] # "none", OutputTypes',
           p \in panes => InTransit(p)',
           \A id \in PaneIds : id # p =>
              /\ written'[id] = written[id] /\ tty'[id] = tty[id] /\ hand'[id] = hand[id]
              /\ reader'[id] = reader[id] /\ channel'[id] = channel[id] /\ fed'[id] = fed[id]
    PROVE  OutputInv'
<1>1. UNCHANGED <<panes, reserved, next_local, next_remote>>
  BY DEF vars, viewVars, localVars, remoteVars
<1>2. OpenedOnce'
  BY <1>1 DEF OutputInv, OpenedOnce, HandedOut
<1>3. AllHaveScripts'
  BY <1>1 DEF OutputInv, AllHaveScripts
<1>4. ASSUME NEW id \in panes, id # p PROVE InTransit(id)'
  <2>1. InTransit(id)
    BY DEF OutputInv
  <2>2. QED
    BY <1>4, <2>1 DEF InTransit
<1>5. QED
  BY <1>1, <1>2, <1>3, <1>4 DEF OutputInv

(* No step of the program loses, repeats or reorders output. *)
LEMMA OutputInvStep ==
    ASSUME MaxLocal < RemoteBase, IInv, reserved \cap sessions = {}, OutputInv, launch \in Launches,
           OutputStep
    PROVE  OutputInv'
<1>1. [Next]_vars /\ panes \subseteq PaneIds /\ reserved \subseteq RemoteIds
  BY OutputStepsPanes DEF IInv, TypeOK
<1>2. LocalIds \cap RemoteIds = {} /\ next_local \in Nat /\ next_remote \in Nat
  BY BoundsAssumption, BaseAssumption DEF IInv, TypeOK, LocalIds, RemoteIds
<1>3. DOMAIN request = PaneIds /\ DOMAIN started = PaneIds /\ OutputTypes /\ AllHaveScripts
  BY DEF OutputInv, OutputTypes
<1>4. ASSUME UNCHANGED <<request, started, written, tty, hand, fed, reader, channel>>,
             panes' \subseteq panes, reserved' \subseteq reserved, plugins' \subseteq DOMAIN Script
      PROVE  OutputInv'
  BY <1>1, <1>3, <1>4, OutputFrame DEF OutputTypes
<1>5. ASSUME NEW asked, NEW n, n = next_local, SpawnPane \/ (SpawnFails /\ OpenPty), Runs(asked)
      PROVE  OutputInv'
  <2>1. /\ n \in LocalIds /\ n \in PaneIds /\ n \notin RemoteIds /\ ~HandedOut(n)
        /\ next_local' = n + 1 /\ panes' \subseteq panes \cup {n} /\ UNCHANGED reserved
    BY <1>2, <1>5 DEF SpawnPane, SpawnFails, OpenPty, Register, viewVars, remoteVars, PaneIds, HandedOut
  <2>2. HandedOut(n)' /\ reader[n] = "none"
    BY <1>2, <1>5, <2>1 DEF HandedOut, OutputInv, OpenedOnce
  <2>3. /\ DOMAIN request' = PaneIds /\ DOMAIN started' = PaneIds
        /\ request'[n].harness = asked.harness
        /\ \A id \in PaneIds : id # n => request'[id] = request[id]
    BY <1>3, <1>5, <2>1 DEF Runs, Starts, Kept
  <2>4. asked.harness \in DOMAIN Script
    BY <1>3, <1>5, ScriptAssumption DEF Runs, Known, AllHaveScripts
  <2>5. n \notin reserved' /\ reserved' \subseteq reserved /\ request'[n].harness \in DOMAIN Script
    BY <1>1, <2>1, <2>3, <2>4
  <2>6. Reads(n) /\ UNCHANGED <<written, tty, hand, channel, fed, plugins>>
    BY <1>5 DEF Runs
  <2>7. QED
    BY <1>1, <2>1, <2>2, <2>3, <2>5, <2>6, Opening
<1>6. ASSUME NEW asked, QueueRemote(asked) PROVE OutputInv'
  <2>1. /\ next_remote \in PaneIds /\ next_remote \notin LocalIds /\ ~HandedOut(next_remote)
        /\ reserved' = reserved \cup {next_remote} /\ UNCHANGED panes
        /\ UNCHANGED <<threadVars, channel, fed, plugins>>
    BY <1>2, <1>6 DEF QueueRemote, PrepareRemote, viewVars, PaneIds, HandedOut
  <2>2. reader[next_remote] = "none" /\ next_remote \notin panes
    BY <2>1 DEF OutputInv, OpenedOnce
  <2>3. /\ DOMAIN request' = PaneIds /\ DOMAIN started' = PaneIds
        /\ request'[next_remote].harness = asked.harness
        /\ \A id \in PaneIds : id # next_remote => request'[id] = request[id]
    BY <1>3, <1>6, <2>1 DEF QueueRemote, Starts, Kept
  <2>4. asked.harness \in DOMAIN Script
    BY <1>6, ScriptAssumption DEF QueueRemote
  <2>5. OutputTypes' /\ AllHaveScripts'
    BY <1>1, <1>3, <2>1, <2>3, <2>4 DEF OutputTypes, AllHaveScripts, threadVars, PaneIds
  <2>6. OpenedOnce'
    <3>1. \A id \in PaneIds : HandedOut(id) => HandedOut(id)'
      BY <1>1, HandedOutOnce
    <3>2. QED
      BY <2>1, <2>2, <3>1 DEF OutputInv, OpenedOnce, threadVars
  <2>7. ASSUME NEW id \in panes PROVE InTransit(id)'
    <3>1. InTransit(id) /\ request'[id] = request[id]
      BY <1>1, <2>2, <2>3 DEF OutputInv
    <3>2. QED
      BY <2>1, <3>1 DEF InTransit, threadVars
  <2>8. QED
    BY <2>1, <2>5, <2>6, <2>7 DEF OutputInv
<1>7. CASE FinishRemote
  <2>1. PICK id : \/ CompleteRemote(id) /\ Reads(id)
                  \/ RemoteSpawnFailed(id) /\ UNCHANGED reader
    BY <1>7 DEF FinishRemote
  <2>2. id \in reserved /\ id \in PaneIds /\ reserved' = reserved \ {id}
    BY <1>1, <2>1 DEF CompleteRemote, RemoteSpawnFailed, ReleaseSlot, PaneIds
  <2>3. reader[id] = "none" /\ HandedOut(id)' /\ request[id].harness \in DOMAIN Script
    <3>1. HandedOut(id) /\ HandedOut(id)'
      BY <1>1, <2>2, HandedOutOnce
    <3>2. QED
      BY <1>3, <2>2, <3>1 DEF OutputInv, OpenedOnce, AllHaveScripts
  <2>4. CASE CompleteRemote(id) /\ Reads(id)
    <3>1. panes' = panes \cup {id}
      BY <2>4 DEF CompleteRemote, Register
    <3>2. QED
      BY <1>1, <1>3, <1>7, <2>2, <2>3, <2>4, <3>1, Opening DEF FinishRemote, openedVars
  <2>5. CASE RemoteSpawnFailed(id) /\ UNCHANGED reader
    BY <1>3, <1>4, <1>7, <2>2, <2>5 DEF FinishRemote, RemoteSpawnFailed, viewVars, openedVars, AllHaveScripts
  <2>6. QED
    BY <2>1, <2>4, <2>5
<1>8. ASSUME NEW closed, Close(closed), panes' = panes \ closed, UNCHANGED reserved PROVE OutputInv'
  <2>1. <<>> \in Seq(Seq(Lines))
    OBVIOUS
  <2>2. UNCHANGED <<request, started, written, tty, hand, fed, reader, plugins>>
    BY <1>8 DEF Close, openedVars
  <2>3. /\ channel' \in [PaneIds -> Seq(Seq(Lines))]
        /\ \A id \in PaneIds : channel'[id] \in {channel[id], <<>>}
        /\ \A id \in panes' : channel'[id] = channel[id]
    BY <1>1, <1>3, <1>8, <2>1 DEF Close, OutputTypes
  <2>4. QED
    BY <1>1, <1>3, <1>8, <2>2, <2>3, OutputFrame DEF OutputTypes, AllHaveScripts
<1>9. CASE KillAll
  <2>1. panes' = panes \ (panes \cup instances) /\ UNCHANGED reserved /\ Close(panes \cup instances)
    BY <1>9 DEF KillAll, Shutdown
  <2>2. QED
    BY <1>8, <2>1
<1>10. ASSUME NEW id, Kill(id) PROVE OutputInv'
  <2>1. CASE KillPane(id) /\ Close({id})
    BY <1>8, <2>1 DEF KillPane
  <2>2. CASE KillFails(id) /\ UNCHANGED outputVars
    BY <1>3, <1>4, <2>2 DEF KillFails, viewVars, remoteVars, outputVars, openedVars, threadVars, AllHaveScripts
  <2>3. QED
    BY <1>10, <2>1, <2>2 DEF Kill
<1>11. ASSUME NoticeExits \/ (SpawnFails /\ UNCHANGED outputVars) PROVE OutputInv'
  BY <1>3, <1>4, <1>11 DEF SpawnFails, NoticeExits, HandleExited, viewVars, remoteVars, outputVars,
     openedVars, threadVars, AllHaveScripts
<1>12. CASE PollPtyOutput
  <2>1. /\ UNCHANGED <<vars, openedVars, threadVars, plugins>>
        /\ fed' = [id \in PaneIds |-> IF id \in panes THEN fed[id] \o FlattenSeq(channel[id]) ELSE fed[id]]
        /\ channel' = [id \in PaneIds |-> IF id \in panes THEN <<>> ELSE channel[id]]
    BY <1>12 DEF PollPtyOutput, Drained
  <2>2. UNCHANGED <<panes, reserved, next_local, next_remote, written, tty, hand, reader, request, started>>
    BY <2>1 DEF vars, viewVars, localVars, remoteVars, openedVars, threadVars
  <2>3. <<>> \in Seq(Seq(Lines)) /\ \A id \in panes : fed[id] \o FlattenSeq(channel[id]) \in Seq(Lines)
    <3>1. ASSUME NEW id \in panes PROVE fed[id] \o FlattenSeq(channel[id]) \in Seq(Lines)
      <4>1. fed[id] \in Seq(Lines) /\ channel[id] \in Seq(Seq(Lines))
        BY <1>1, <1>3 DEF OutputTypes
      <4>2. FlattenSeq(channel[id]) \in Seq(Lines)
        BY <4>1, FlattenSeqType
      <4>3. QED
        BY <4>1, <4>2
    <3>2. QED
      BY <3>1
  <2>4. fed' \in [PaneIds -> Seq(Lines)] /\ channel' \in [PaneIds -> Seq(Seq(Lines))]
    BY <1>3, <2>1, <2>3 DEF OutputTypes
  <2>5. OutputTypes'
    BY <1>3, <2>2, <2>4 DEF OutputTypes
  <2>6. OpenedOnce' /\ AllHaveScripts'
    BY <1>3, <2>1, <2>2 DEF OutputInv, OpenedOnce, AllHaveScripts, HandedOut
  <2>7. ASSUME NEW id \in panes PROVE InTransit(id)'
    <3>1. InTransit(id) /\ fed'[id] = fed[id] \o FlattenSeq(channel[id]) /\ channel'[id] = <<>>
      BY <1>1, <2>1 DEF OutputInv
    <3>2. /\ fed[id] \in Seq(Lines) /\ channel[id] \in Seq(Seq(Lines)) /\ hand[id] \in Seq(Lines)
          /\ tty[id] \in Seq(Lines) /\ written[id] \in Nat
      BY <1>1, <1>3 DEF OutputTypes
    <3>3. Script[request[id].harness] \in Seq(Lines)
      BY <1>1, <1>3, ScriptsAreLines DEF AllHaveScripts, OutputInv, OpenedOnce
    <3>4. Conserved(fed[id] \o FlattenSeq(channel[id]), <<>>, hand[id], tty[id], Script[request[id].harness], written[id])
      BY <3>1, <3>2, <3>3, Moving DEF InTransit
    <3>5. QED
      BY <2>2, <3>1, <3>4 DEF InTransit
  <2>8. QED
    BY <2>2, <2>5, <2>6, <2>7 DEF OutputInv
<1>13. ASSUME NEW library, LoadPlugin(library), Loads(library) => library.name \in DOMAIN Script PROVE OutputInv'
  <2>1. UNCHANGED <<panes, reserved, request, started, written, tty, hand, fed, reader, channel>>
    BY <1>13 DEF LoadPlugin, vars, viewVars, remoteVars, openedVars, threadVars
  <2>2. plugins' \subseteq DOMAIN Script
    BY <1>3, <1>13 DEF LoadPlugin, Registered, AllHaveScripts
  <2>3. QED
    BY <1>4, <2>1, <2>2
<1>14. ASSUME NEW p \in PaneIds, Threads(p) \/ Outside(p) \/ ConnectEnds(p) PROVE OutputInv'
  <2>1. /\ written \in [PaneIds -> Nat] /\ channel \in [PaneIds -> Seq(Seq(Lines))]
        /\ tty \in [PaneIds -> Seq(Lines)] /\ hand \in [PaneIds -> Seq(Lines)] /\ fed \in [PaneIds -> Seq(Lines)]
        /\ reader \in [PaneIds -> {"none", "reading", "sending", "done"}] /\ <<>> \in Seq(Lines)
        /\ \A id \in PaneIds : reader[id] # "sending" => hand[id] = <<>>
    BY <1>3 DEF OutputTypes
  <2>2. /\ reader[p] # "none" => Script[request[p].harness] \in Seq(Lines)
        /\ p \in panes => reader[p] # "none" /\ InTransit(p)
    BY <1>3, ScriptsAreLines DEF OutputInv, OpenedOnce, AllHaveScripts
  <2>3. CASE WriteLine(p)
    <3> DEFINE s == Script[request[p].harness]
    <3>1. /\ written' = [written EXCEPT ![p] = written[p] + 1] /\ written[p] < Len(s) /\ reader[p] # "none"
          /\ tty' = [tty EXCEPT ![p] = Append(tty[p], s[written[p] + 1])]
          /\ UNCHANGED <<vars, request, started, hand, reader, channel, fed, plugins>>
      BY <2>1, <2>3 DEF WriteLine, openedVars
    <3>2. s \in Seq(Lines) /\ Len(s) \in Nat
      BY <2>2, <3>1
    <3> HIDE DEF s
    <3>3. s[written[p] + 1] \in Lines
      BY <2>1, <3>1, <3>2
    <3>4. OutputTypes'
      BY <1>3, <2>1, <3>1, <3>3 DEF OutputTypes
    <3>5. ASSUME p \in panes PROVE InTransit(p)'
      <4>1. Conserved(fed[p], channel[p], hand[p], tty[p], s, written[p])
        BY <2>2, <3>5 DEF InTransit, s
      <4>2. Conserved(fed[p], channel[p], hand[p], Append(tty[p], s[written[p] + 1]), s, written[p] + 1)
        BY <2>1, <3>1, <3>2, <4>1, Moving
      <4>3. /\ fed'[p] = fed[p] /\ channel'[p] = channel[p] /\ hand'[p] = hand[p]
            /\ tty'[p] = Append(tty[p], s[written[p] + 1]) /\ written'[p] = written[p] + 1
            /\ Script[request'[p].harness] = s
        BY <2>1, <3>1 DEF s
      <4>4. QED
        BY <4>2, <4>3 DEF InTransit
    <3>6. /\ reader'[p] # "none"
          /\ \A id \in PaneIds : id # p =>
                /\ written'[id] = written[id] /\ tty'[id] = tty[id] /\ hand'[id] = hand[id]
                /\ reader'[id] = reader[id] /\ channel'[id] = channel[id] /\ fed'[id] = fed[id]
      BY <2>1, <3>1
    <3>7. QED
      BY <1>1, <3>1, <3>4, <3>5, <3>6, OnePaneMoves
  <2>4. CASE ReaderReads(p)
    <3>1. PICK k \in 1 .. Len(tty[p]) : /\ hand' = [hand EXCEPT ![p] = SubSeq(tty[p], 1, k)]
                                        /\ tty' = [tty EXCEPT ![p] = SubSeq(tty[p], k + 1, Len(tty[p]))]
      BY <2>1, <2>4 DEF ReaderReads
    <3>2. /\ reader[p] = "reading" /\ reader' = [reader EXCEPT ![p] = "sending"] /\ hand[p] = <<>>
          /\ UNCHANGED <<vars, request, started, written, channel, fed, plugins>>
      BY <2>1, <2>4 DEF ReaderReads, openedVars
    <3>3. SubSeq(tty[p], 1, k) \in Seq(Lines) /\ SubSeq(tty[p], k + 1, Len(tty[p])) \in Seq(Lines)
      BY <2>1, TakenChunk
    <3>4. OutputTypes'
      BY <1>3, <2>1, <3>1, <3>2, <3>3 DEF OutputTypes
    <3>5. ASSUME p \in panes PROVE InTransit(p)'
      <4> DEFINE s == Script[request[p].harness]
      <4>1. Conserved(fed[p], channel[p], hand[p], tty[p], s, written[p]) /\ s \in Seq(Lines)
        BY <2>2, <3>5 DEF InTransit
      <4> HIDE DEF s
      <4>2. Conserved(fed[p], channel[p], SubSeq(tty[p], 1, k), SubSeq(tty[p], k + 1, Len(tty[p])), s, written[p])
        BY <2>1, <3>2, <4>1, Moving
      <4>3. /\ fed'[p] = fed[p] /\ channel'[p] = channel[p] /\ hand'[p] = SubSeq(tty[p], 1, k)
            /\ tty'[p] = SubSeq(tty[p], k + 1, Len(tty[p])) /\ written'[p] = written[p]
            /\ Script[request'[p].harness] = s
        BY <2>1, <3>1, <3>2 DEF s
      <4>4. QED
        BY <4>2, <4>3 DEF InTransit
    <3>6. /\ reader[p] # "none" /\ reader'[p] # "none"
          /\ \A id \in PaneIds : id # p =>
                /\ written'[id] = written[id] /\ tty'[id] = tty[id] /\ hand'[id] = hand[id]
                /\ reader'[id] = reader[id] /\ channel'[id] = channel[id] /\ fed'[id] = fed[id]
      BY <2>1, <3>1, <3>2
    <3>7. QED
      BY <1>1, <3>2, <3>4, <3>5, <3>6, OnePaneMoves
  <2>5. CASE ReaderSends(p)
    <3>1. /\ reader[p] = "sending" /\ hand' = [hand EXCEPT ![p] = <<>>]
          /\ \/ p \notin panes /\ reader' = [reader EXCEPT ![p] = "done"] /\ channel' = channel
             \/ /\ channel' = [channel EXCEPT ![p] = Append(channel[p], hand[p])]
                /\ reader' = [reader EXCEPT ![p] = "reading"]
          /\ UNCHANGED <<vars, request, started, written, tty, fed, plugins>>
      BY <2>1, <2>5 DEF ReaderSends, Received, openedVars
    <3>2. Append(channel[p], hand[p]) \in Seq(Seq(Lines))
      BY <2>1
    <3>3. OutputTypes'
      <4>1. channel' \in [PaneIds -> Seq(Seq(Lines))]
        BY <2>1, <3>1, <3>2
      <4>2. hand' \in [PaneIds -> Seq(Lines)] /\ \A id \in PaneIds : reader'[id] # "sending" => hand'[id] = <<>>
        BY <2>1, <3>1
      <4>3. reader' \in [PaneIds -> {"none", "reading", "sending", "done"}]
        BY <2>1, <3>1
      <4>4. QED
        BY <1>3, <2>1, <3>1, <4>1, <4>2, <4>3 DEF OutputTypes
    <3>4. ASSUME p \in panes PROVE InTransit(p)'
      <4> DEFINE s == Script[request[p].harness]
      <4>1. Conserved(fed[p], channel[p], hand[p], tty[p], s, written[p]) /\ s \in Seq(Lines)
        BY <2>2, <3>4 DEF InTransit
      <4> HIDE DEF s
      <4>2. Conserved(fed[p], Append(channel[p], hand[p]), <<>>, tty[p], s, written[p])
        BY <2>1, <4>1, Moving
      <4>3. /\ fed'[p] = fed[p] /\ channel'[p] = Append(channel[p], hand[p]) /\ hand'[p] = <<>>
            /\ tty'[p] = tty[p] /\ written'[p] = written[p] /\ Script[request'[p].harness] = s
        BY <2>1, <3>1, <3>4 DEF s
      <4>4. QED
        BY <4>2, <4>3 DEF InTransit
    <3>5. /\ reader[p] # "none" /\ reader'[p] # "none"
          /\ \A id \in PaneIds : id # p =>
                /\ written'[id] = written[id] /\ tty'[id] = tty[id] /\ hand'[id] = hand[id]
                /\ reader'[id] = reader[id] /\ channel'[id] = channel[id] /\ fed'[id] = fed[id]
      BY <2>1, <3>1
    <3>6. QED
      BY <1>1, <3>1, <3>3, <3>4, <3>5, OnePaneMoves
  <2>6. CASE ReaderEnds(p)
    <3>1. /\ reader[p] = "reading" /\ reader' = [reader EXCEPT ![p] = "done"]
          /\ UNCHANGED <<vars, request, started, written, tty, hand, channel, fed, plugins>>
      BY <2>6 DEF ReaderEnds, openedVars
    <3>2. OutputTypes'
      BY <1>3, <2>1, <3>1 DEF OutputTypes
    <3>3. p \in panes => InTransit(p)'
      BY <2>2, <3>1 DEF InTransit
    <3>4. /\ reader[p] # "none" /\ reader'[p] # "none"
          /\ \A id \in PaneIds : id # p => reader'[id] = reader[id]
      BY <2>1, <3>1
    <3>5. QED
      BY <1>1, <3>1, <3>2, <3>3, <3>4, OnePaneMoves
  <2>7. CASE OthersClose(p) \/ ConnectEnds(p) \/ ProcessEnds(p)
    BY <1>3, <1>4, <2>7 DEF OthersClose, ProcessEnds, ConnectEnds, ProcessExits, vars, viewVars, remoteVars,
       openedVars, threadVars, AllHaveScripts
  <2>8. QED
    BY <1>14, <2>3, <2>4, <2>5, <2>6, <2>7 DEF Threads, Outside
<1>15. CASE UNCHANGED <<vars, openedVars, threadVars, channel, fed, remoteOpenVars, plugins>>
  BY <1>3, <1>4, <1>15 DEF vars, viewVars, remoteVars, openedVars, threadVars, AllHaveScripts
<1>16. ASSUME NEW asked, Open(asked) \/ QueueRemote(asked) \/ OpenFails(asked) PROVE OutputInv'
  BY <1>5, <1>6, <1>11, <1>16 DEF Open, OpenFails
<1>17. QED
  BY <1>7, <1>9, <1>10, <1>11, <1>12, <1>13, <1>14, <1>15, <1>16, ScriptAssumption DEF OutputStep

-------------------------------------------------------------------------------
(* A phase that follows has something to do: drawing always has, and of    *)
(* the phases that do the nearest is taken.                                *)
LEMMA FollowingDoes ==
    ASSUME \E i \in 1 .. Len(Tick) : phase = Tick[i]
    PROVE  Does(Following) /\ \E i \in 1 .. Len(Tick) : Following = Tick[i]
<1> DEFINE at == CHOOSE i \in 1 .. Len(Tick) : Tick[i] = phase
           After(k) == Tick[((at + k - 1) % Len(Tick)) + 1]
           later == {k \in 1 .. Len(Tick) : Does(After(k))}
<1>1. Len(Tick) = 10
  BY DEF Tick
<1>2. at \in 1 .. 10
  BY <1>1
<1> HIDE DEF at
<1>3. \A k \in 1 .. 10 : ((at + k - 1) % 10) + 1 \in 1 .. 10
  BY <1>2
<1>4. \E k \in 1 .. 10 : ((at + k - 1) % 10) + 1 = 3
  <2>1. ASSUME at < 3 PROVE 3 - at \in 1 .. 10 /\ ((at + (3 - at) - 1) % 10) + 1 = 3
    BY <1>2, <2>1
  <2>2. ASSUME at >= 3 PROVE 13 - at \in 1 .. 10 /\ ((at + (13 - at) - 1) % 10) + 1 = 3
    BY <1>2, <2>2
  <2>3. QED
    BY <1>2, <2>1, <2>2
<1>5. Does(Tick[3])
  BY DEF Does, Tick
<1>6. later \subseteq Nat /\ later # {}
  <2>1. PICK k \in 1 .. 10 : ((at + k - 1) % 10) + 1 = 3
    BY <1>4
  <2>2. k \in later
    BY <1>1, <1>5, <2>1
  <2>3. 1 .. Len(Tick) \subseteq Nat
    BY <1>1
  <2> HIDE DEF After
  <2>4. QED
    BY <2>2, <2>3
<1>7. \E k \in later : \A other \in later : k <= other
  <2> HIDE DEF later
  <2>1. PICK k \in later : \A other \in later : ~(other < k)
    BY <1>6, NatMin
  <2>2. QED
    BY <1>6, <2>1
<1>8. Min(later) \in later
  <2> HIDE DEF later
  <2>1. QED
    BY <1>7 DEF Min
<1>9. Following = After(Min(later))
  BY DEF Following, at
<1>10. ASSUME NEW k \in later PROVE Does(After(k)) /\ \E i \in 1 .. Len(Tick) : After(k) = Tick[i]
  BY <1>1, <1>3
<1>11. QED
  BY <1>8, <1>9, <1>10

(* What was launched, and what the client will say, do not change; the     *)
(* number of commands typed grows, and the phases go on.                   *)
LEMMA LoopGoesOn ==
    ASSUME OnlyTheClient, [ServicesNext]_allVars
    PROVE  /\ launch' = launch /\ conversation' = conversation
           /\ typed' \in Nat /\ \E i \in 1 .. Len(Tick) : phase' = Tick[i]
           /\ launch.mcp => phase' # "keyboard"
<1> DEFINE GoesOn == /\ launch' = launch /\ typed' \in Nat /\ \E i \in 1 .. Len(Tick) : phase' = Tick[i]
                     /\ launch.mcp => phase' # "keyboard"
<1>1. (\E i \in 1 .. Len(Tick) : Following = Tick[i]) /\ (launch.mcp => Following # "keyboard")
  BY FollowingDoes DEF OnlyTheClient, Does
<1>2. UNCHANGED mainVars => GoesOn
  BY DEF mainVars, OnlyTheClient
<1>3. Moves => GoesOn
  BY <1>1 DEF Moves, OnlyTheClient
<1>4. ASSUME NEW next, Goes(next) PROVE GoesOn
  BY <1>4 DEF Goes, OnlyTheClient
<1>5. Keyboard => GoesOn
  <2>1. typed' = typed + 1 /\ phase' = Following /\ UNCHANGED launch => GoesOn
    BY <1>1 DEF OnlyTheClient
  <2> HIDE DEF GoesOn
  <2>2. QED
    BY <1>3, <1>4, <2>1 DEF Keyboard
<1> HIDE DEF GoesOn
<1>6. CASE LoopStep
  <2>1. conversation' = conversation
    BY <1>6 DEF LoopStep, RemoteDone, WebInput, Draw, Requests, McpRequests, Keyboard, Command, Restoring, Drain,
       Completions, Exits, Idle, OnPanes, HandleMcpRequests, mcpVars
  <2>2. GoesOn
    BY <1>2, <1>3, <1>4, <1>5, <1>6 DEF LoopStep, RemoteDone, WebInput, Draw, Requests, McpRequests, Restoring, Drain,
       Completions, Exits, Stays
  <2>3. QED
    BY <2>1, <2>2 DEF GoesOn
<1>7. CASE Teardown
  <2>1. conversation' = conversation
    BY <1>7 DEF Teardown, JoinRemoteTasks, StopBackground, Ends, ShutdownApp, DropRuntime, Exit, Idle, OnPanes, mcpVars
  <2>2. GoesOn
    BY <1>4, <1>7 DEF Teardown, JoinRemoteTasks, StopBackground, ShutdownApp, DropRuntime, Exit
  <2>3. QED
    BY <2>1, <2>2 DEF GoesOn
<1>8. CASE Beside
  <2>1. conversation' = conversation
    BY <1>8 DEF Beside, Reader, World, Apart, Server, Replied, ClientActs, WriteReply, ShutdownSignal, Ends,
       Client, ReadLine, EndOfInput, Console, HeldCallReturns, Viewer, Browser, Database, mcpVars
  <2>2. UNCHANGED mainVars
    BY <1>8 DEF Beside, Reader, World, Apart, Server, Client, Console, Viewer, Browser, Database
  <2>3. QED
    BY <1>2, <2>1, <2>2 DEF GoesOn
<1>9. CASE UNCHANGED allVars
  BY <1>2, <1>9 DEF allVars, mcpVars, GoesOn
<1>10. QED
  BY <1>6, <1>7, <1>8, <1>9 DEF ServicesNext, Beside

(* With --mcp panes are opened by the client only, all of built-in         *)
(* harnesses and none by connecting to another host.                       *)
LEMMA ClientOpens ==
    ASSUME OnlyTheClient, launch.mcp, [ServicesNext]_allVars
    PROVE  /\ todo' = <<>>
           /\ \/ panes' \subseteq panes /\ reserved' \subseteq reserved
              \/ \E asked : Open(asked) /\ asked.harness \in DOMAIN BuiltIn
<1> DEFINE Quiet == panes' \subseteq panes /\ reserved' \subseteq reserved
<1>1. phase # "keyboard" /\ todo = <<>> /\ reserved = {}
  BY DEF OnlyTheClient
<1>2. UNCHANGED vars => Quiet
  BY DEF vars, viewVars, remoteVars
<1>3. (\E asked : OpenFails(asked)) \/ NoticeExits \/ KillAll => Quiet
  BY DEF OpenFails, SpawnFails, NoticeExits, HandleExited, KillAll, Shutdown, viewVars, remoteVars
<1> HIDE DEF Quiet
<1>4. CASE HandleMcpRequests /\ UNCHANGED <<webVars, storeVars>>
  <2>1. todo' = <<>>
    BY <1>1, <1>4 DEF storeVars
  <2>2. CASE UNCHANGED paneVars
    BY <1>2, <2>1, <2>2 DEF paneVars, Quiet
  <2>3. ASSUME NEW line, Execute(line) PROVE Quiet \/ \E asked : Open(asked) /\ asked.harness \in DOMAIN BuiltIn
    <3>1. CASE SpawnAsked(line.args)
      BY <1>3, <3>1 DEF SpawnAsked, AskedFor
    <3>2. CASE KillAsked(line.args)
      BY <3>2 DEF KillAsked, KillPane, KillFails, viewVars, remoteVars, Quiet
    <3>3. CASE ListPanes \/ SendToPane(line.args) \/ RunWorkflow(line.args) \/ GetPaneOutput(line.args)
      BY <1>2, <3>3 DEF ListPanes, SendToPane, RunWorkflow, GetPaneOutput, paneVars, Write
    <3>4. QED
      BY <2>3, <3>1, <3>2, <3>3 DEF Execute
  <2>4. QED
    BY <1>4, <2>1, <2>2, <2>3 DEF HandleMcpRequests, Quiet
<1>5. CASE LoopStep /\ ~McpRequests
  <2>1. CASE RemoteDone
    BY <1>1, <1>2, <2>1 DEF RemoteDone, FinishRemote, CompleteRemote, RemoteSpawnFailed, Idle, OnPanes, storeVars, Quiet
  <2>2. CASE WebInput \/ Draw \/ Requests
    BY <1>1, <1>2, <2>2 DEF WebInput, HandleWebInput, Draw, PublishWebFrame, Requests, SendAndWait, Write, Idle,
       OnPanes, storeVars, Quiet
  <2>3. CASE Restoring
    BY <1>1, <1>2, <2>3 DEF Restoring, RestorePane, Idle, storeVars, Quiet
  <2>4. CASE Drain \/ Completions \/ Exits
    BY <1>1, <1>2, <1>3, <2>4 DEF Drain, PollPtyOutput, Completions, PollPendingCompletions, Exits, OnPanes,
       storeVars, Quiet
  <2>5. QED
    BY <1>1, <1>5, <2>1, <2>2, <2>3, <2>4 DEF LoopStep, Keyboard
<1>6. CASE Teardown
  BY <1>1, <1>2, <1>3, <1>6 DEF Teardown, JoinRemoteTasks, StopBackground, ShutdownApp, DropRuntime, Disconnect, Exit,
     Idle, OnPanes, storeVars, Quiet
<1>7. CASE Beside
  <2>1. CASE (\E id \in PaneIds : Reader(id)) \/ World
    BY <1>1, <1>2, <2>1 DEF Reader, World, Apart, Threads, ReaderReads, ReaderSends, ReaderEnds, Outside, WriteLine,
       OthersClose, ProcessEnds, ProcessExits, ConnectEnds, storeVars, viewVars, remoteVars, Quiet
  <2>2. CASE Server \/ Client \/ Console
    BY <1>1, <1>2, <2>2 DEF Server, Replied, ClientActs, WriteReply, ShutdownSignal, Client, ReadLine, EndOfInput,
       Console, HeldCallReturns, storeVars, paneVars, Quiet
  <2>3. CASE (\E v \in Viewers : Viewer(v) \/ Browser(v)) \/ Database
    BY <1>1, <1>2, <2>3 DEF Viewer, Forward, Display, Browser, Connect, Disconnect, Press, Database, ClockTicks,
       SaveEnds, storeVars, Quiet
  <2>4. QED
    BY <1>7, <2>1, <2>2, <2>3 DEF Beside
<1>8. CASE UNCHANGED allVars
  BY <1>1, <1>2, <1>8 DEF allVars, storeVars, Quiet
<1>9. QED
  BY <1>4, <1>5, <1>6, <1>7, <1>8 DEF ServicesNext, Beside, McpRequests

(* Without it the server does not run. *)
LEMMA ServerRests ==
    ASSUME OnlyTheClient, ~launch.mcp, [ServicesNext]_allVars
    PROVE  UNCHANGED <<server, heard, queue, response, stdout, held>>
<1> USE DEF mcpVars
<1>1. CASE LoopStep
  BY <1>1 DEF LoopStep, RemoteDone, WebInput, Draw, Requests, McpRequests, Keyboard, Command, Restoring, Drain,
     Completions, Exits, Idle, OnPanes, HandleMcpRequests, OnlyTheClient
<1>2. CASE Teardown
  BY <1>2 DEF Teardown, JoinRemoteTasks, StopBackground, ShutdownApp, DropRuntime, Exit, Idle, OnPanes
<1>3. CASE Beside
  BY <1>3 DEF Beside, Reader, World, Apart, Server, Client, Console, HeldCallReturns, Viewer, Browser, Database,
     OnlyTheClient
<1>4. CASE UNCHANGED allVars
  BY <1>4 DEF allVars
<1>5. QED
  BY <1>1, <1>2, <1>3, <1>4 DEF ServicesNext, Beside

(* So what depends on the launch holds on. *)
LEMMA OnlyTheClientStep ==
    ASSUME MaxLocal < RemoteBase, IInv, reserved \cap sessions = {}, OutputInv, OnlyTheClient,
           [ServicesNext]_allVars
    PROVE  OnlyTheClient'
<1>1. /\ launch' = launch /\ conversation' = conversation
      /\ typed' \in Nat /\ \E i \in 1 .. Len(Tick) : phase' = Tick[i]
      /\ launch.mcp => phase' # "keyboard"
  BY LoopGoesOn
<1>2. OutputStep
  BY EveryOutputStep
<1>3. ASSUME launch.mcp
      PROVE  todo' = <<>> /\ reserved' = {} /\ \A id \in panes' : ~IsPlugin(id)'
  <2>1. \A id \in panes : request'[id] = request[id] /\ ~IsPlugin(id)
    BY <1>2, <1>3, RequestsStand, OutputStepsPanes, HandedOutOnce DEF IInv, OutputInv, OutputTypes, OnlyTheClient
  <2>2. CASE panes' \subseteq panes /\ reserved' \subseteq reserved
    BY <1>3, <2>1, <2>2, ClientOpens DEF OnlyTheClient, IsPlugin
  <2>3. ASSUME NEW asked, Open(asked) /\ asked.harness \in DOMAIN BuiltIn
        PROVE  reserved' = {} /\ \A id \in panes' : ~IsPlugin(id)'
    <3>1. /\ panes' = panes \cup {next_local} /\ UNCHANGED reserved /\ next_local \in PaneIds
          /\ request' = [request EXCEPT ![next_local] = Kept(asked, Setting(asked.harness))]
      BY <2>3 DEF Open, Runs, SpawnPane, OpenPty, Register, Starts, remoteVars, PaneIds
    <3>2. request'[next_local].harness = asked.harness
      BY <3>1 DEF OutputInv, OutputTypes, Kept
    <3>3. QED
      BY <1>3, <2>1, <2>3, <3>1, <3>2 DEF OnlyTheClient, IsPlugin
  <2>4. QED
    BY <1>3, <2>2, <2>3, ClientOpens
<1>4. QED
  BY <1>1, <1>3, ServerRests DEF OnlyTheClient

-------------------------------------------------------------------------------
(* What the program does to what is saved and restored.                    *)
StoreStep ==
    \/ UNCHANGED storeVars
    \/ (\E name : Save(name) \/ Restore(name))
    \/ RestorePane \/ ClockTicks
    \/ (\E save \in saving : SaveEnds(save))
    \/ saving' = {} /\ UNCHANGED <<stored, saves, clock, todo, restored>>

(* Every step of the program is one of these. *)
LEMMA EveryStoreStep == [ServicesNext]_allVars => StoreStep
<1>1. CASE LoopStep
  BY <1>1 DEF LoopStep, RemoteDone, WebInput, Draw, Requests, McpRequests, Keyboard, Command, Restoring, Drain,
     Completions, Exits, Idle, OnPanes, storeVars, StoreStep
<1>2. CASE Teardown
  BY <1>2 DEF Teardown, JoinRemoteTasks, StopBackground, ShutdownApp, DropRuntime, Exit, Idle, OnPanes, storeVars,
     StoreStep
<1>3. CASE Beside
  BY <1>3 DEF Beside, Reader, World, Apart, Server, Client, Console, Viewer, Browser, Database, storeVars, StoreStep
<1>4. CASE UNCHANGED allVars
  BY <1>4 DEF allVars, storeVars, StoreStep
<1>5. SUFFICES ASSUME [ServicesNext]_allVars PROVE StoreStep
  OBVIOUS
<1>6. QED
  BY <1>1, <1>2, <1>3, <1>4, <1>5 DEF ServicesNext, Beside

(* What a pane keeps of what it was asked for says the same: with any      *)
(* entry of config.toml, in any directory, it is the command of what was   *)
(* first asked for, with that entry and in the directory of then.          *)
LEMMA KeptTells ==
    ASSUME NEW asked, NEW setting, NEW present
    PROVE  LET past == [entry |-> present.entry, directory |-> setting.directory]
           IN /\ Kept(asked, setting).harness = asked.harness
              /\ Built(Kept(asked, setting), present) = Built(asked, past)
              /\ present.entry = setting.entry => Built(asked, past) = Built(asked, setting)
<1> DEFINE past == [entry |-> present.entry, directory |-> setting.directory]
<1>1. Kept(asked, setting).harness = asked.harness /\ IsLocal(Kept(asked, setting)) = IsLocal(asked)
  BY DEF Kept, IsLocal
<1>2. Effective(Kept(asked, setting), present) = Effective(asked, past)
  <2>1. /\ Kept(asked, setting).config.model = asked.config.model
        /\ Kept(asked, setting).config.extra_args = asked.config.extra_args
        /\ Kept(asked, setting).config.working_dir = <<Effective(asked, setting).working_dir>>
    BY DEF Kept
  <2>2. /\ <<Effective(asked, setting).working_dir>> # <<>>
        /\ <<Effective(asked, setting).working_dir>>[1] = Effective(asked, setting).working_dir
    OBVIOUS
  <2>3. Effective(asked, past).working_dir = Effective(asked, setting).working_dir
    BY DEF Effective
  <2>4. QED
    BY <2>1, <2>2, <2>3 DEF Effective
<1>3. present.entry = setting.entry => Effective(asked, past) = Effective(asked, setting)
  BY DEF Effective
<1>4. QED
  BY <1>1, <1>2, <1>3 DEF Built

(* So a pane opened for what another one kept was opened again. *)
LEMMA OpensAgain ==
    ASSUME NEW asked, NEW ran, Tells(asked, ran), asked.harness \in DOMAIN BuiltIn,
           NEW command \in Commands(asked, Setting(asked.harness))
    PROVE  OpenedAgain(command, ran)
<1> DEFINE present == Setting(asked.harness)
           past == [entry |-> present.entry, directory |-> ran.setting.directory]
<1>1. command = Built(asked, present)
  BY DEF Commands
<1>2. asked = Kept(ran.asked, ran.setting) /\ ran.command = Built(ran.asked, ran.setting)
  BY DEF Tells
<1>3. /\ asked.harness = ran.asked.harness
      /\ Built(asked, present) = Built(ran.asked, past)
      /\ present.entry = ran.setting.entry => Built(ran.asked, past) = Built(ran.asked, ran.setting)
  BY <1>2, KeptTells
<1>4. present = Setting(ran.asked.harness)
  BY <1>3
<1> HIDE DEF present
<1>5. QED
  BY <1>1, <1>2, <1>3, <1>4 DEF OpenedAgain

(* Each pane of a built-in harness runs what it was asked for. *)
LEMMA RequestsTellStep ==
    ASSUME MaxLocal < RemoteBase, IInv, reserved \cap sessions = {}, RequestsTell,
           DOMAIN request = PaneIds, DOMAIN started = PaneIds, OutputStep
    PROVE  RequestsTell'
<1>1. ASSUME NEW n, NEW asked, Starts(n, asked), NEW id \in PaneIds, id = n
      PROVE  Tells(request'[id], started'[id])
  <2>1. PICK setting, command :
           /\ setting = Setting(asked.harness) /\ command \in Commands(asked, setting)
           /\ request' = [request EXCEPT ![n] = Kept(asked, setting)]
           /\ started' = [started EXCEPT ![n] = [asked |-> asked, setting |-> setting, command |-> command]]
    BY <1>1 DEF Starts
  <2>2. request'[id] = Kept(asked, setting)
    BY <1>1, <2>1
  <2>3. started'[id] = [asked |-> asked, setting |-> setting, command |-> command]
    BY <1>1, <2>1
  <2>4. started'[id].asked = asked /\ started'[id].setting = setting /\ started'[id].command = command
    BY <2>3
  <2>5. asked.harness \in DOMAIN BuiltIn => command = Built(asked, setting)
    BY <2>1 DEF Commands
  <2>6. Kept(asked, setting).harness = asked.harness
    BY KeptTells
  <2>7. QED
    BY <2>2, <2>4, <2>5, <2>6 DEF Tells
<1>2. next_local \in Nat /\ next_remote \in Nat /\ LocalIds \subseteq Nat /\ RemoteIds \subseteq Nat
  BY BoundsAssumption, BaseAssumption DEF IInv, TypeOK, LocalIds, RemoteIds
<1>3. ASSUME NEW id \in PaneIds, HandedOut(id) PROVE Tells(request'[id], started'[id])
  BY <1>3, RequestsStand DEF RequestsTell
<1>4. ASSUME NEW id \in PaneIds, HandedOut(id)', ~HandedOut(id) PROVE Tells(request'[id], started'[id])
  <2> id \in Nat
    BY <1>2 DEF PaneIds
  <2>1. CASE \E asked : Starts(next_local, asked) /\ next_local' = next_local + 1 /\ UNCHANGED next_remote
    <3>1. next_local' = next_local + 1 /\ next_remote' = next_remote
      BY <2>1
    <3>2. id = next_local
      BY <1>2, <1>4, <3>1 DEF HandedOut
    <3>3. QED
      BY <1>1, <2>1, <3>2
  <2>2. CASE \E asked : Starts(next_remote, asked) /\ next_remote' = next_remote + 1 /\ UNCHANGED next_local
    <3>1. next_remote' = next_remote + 1 /\ next_local' = next_local
      BY <2>2
    <3>2. id = next_remote
      BY <1>2, <1>4, <3>1 DEF HandedOut
    <3>3. QED
      BY <1>1, <2>2, <3>2
  <2>3. CASE UNCHANGED <<next_local, next_remote>>
    BY <1>4, <2>3 DEF HandedOut
  <2>4. QED
    BY <2>1, <2>2, <2>3, OutputOpens
<1>5. QED
  BY <1>3, <1>4 DEF RequestsTell

(* And so does each pane of a row. *)
LEMMA RowsTellStep ==
    ASSUME RequestsTell, RowsTell, pane_order \in Seq(PaneIds), StoreStep,
           \A i \in 1 .. Len(pane_order) : HandedOut(pane_order[i])
    PROVE  RowsTell'
<1>1. ASSUME NEW name, Save(name) PROVE RowsTell'
  <2> DEFINE save == [no |-> saves + 1, name |-> name, panes |-> SessionSnapshot, given |-> clock,
                      ran |-> [i \in 1 .. Len(pane_order) |-> started[pane_order[i]]]]
  <2>1. saving' = saving \cup {save} /\ UNCHANGED <<stored, clock>>
    BY <1>1 DEF Save
  <2>2. Len(pane_order) \in Nat /\ \A i \in 1 .. Len(pane_order) : Tells(request[pane_order[i]], started[pane_order[i]])
    BY DEF RequestsTell
  <2>3. /\ Len(save.panes) = Len(pane_order) /\ Len(save.ran) = Len(pane_order)
        /\ IsSeq(save.panes)
    BY <2>2 DEF SessionSnapshot, IsSeq
  <2>4. RowTells(save) /\ save.given \in Int
    BY <2>2, <2>3 DEF SessionSnapshot, RowTells, RowsTell
  <2> HIDE DEF save
  <2>5. QED
    BY <2>1, <2>4 DEF RowsTell
<1>2. ASSUME NEW save \in saving, SaveEnds(save) PROVE RowsTell'
  <2>1. RowTells(save) /\ save.given \in Int /\ clock \in Int
    BY DEF RowsTell
  <2>2. ASSUME NEW now \in save.given .. clock
        PROVE  LET row == StoredRow(save, now)
               IN RowTells(row) /\ {row.given, row.updated_at} \subseteq Int /\ row.given <= row.updated_at
    BY <2>1 DEF StoredRow, RowTells
  <2>3. QED
    BY <1>2, <2>2 DEF SaveEnds, RowsTell
<1>3. CASE ClockTicks
  BY <1>3 DEF ClockTicks, RowsTell
<1>4. ASSUME UNCHANGED <<stored, clock>>, saving' \subseteq saving PROVE RowsTell'
  BY <1>4 DEF RowsTell
<1>5. QED
  BY <1>1, <1>2, <1>3, <1>4 DEF StoreStep, Restore, RestorePane, storeVars

(* A sequence that is not at its end, and what is left of it. *)
LEMMA LeftOf ==
    ASSUME NEW s, IsSeq(s), NEW n \in Nat, n <= Len(s), SubSeq(s, n + 1, Len(s)) # <<>>
    PROVE  /\ n + 1 <= Len(s) /\ Head(SubSeq(s, n + 1, Len(s))) = s[n + 1]
           /\ Tail(SubSeq(s, n + 1, Len(s))) = SubSeq(s, (n + 1) + 1, Len(s))
<1> DEFINE T == Range(s)
<1>1. Len(s) \in Nat /\ s \in Seq(T)
  BY DEF IsSeq, Range
<1> HIDE DEF T
<1>2. n + 1 <= Len(s)
  BY <1>1
<1>3. \A i \in 1 .. Len(s) : s[i] \in T
  BY <1>1
<1> DEFINE left == SubSeq(s, n + 1, Len(s))
<1>4. left \in Seq(T) /\ Len(left) = Len(s) - n /\ \A i \in 1 .. Len(left) : left[i] = s[n + i]
  <2>1. n + 1 \in Int /\ Len(s) \in Int /\ \A i \in n + 1 .. Len(s) : s[i] \in T
    BY <1>1, <1>3
  <2>2. QED
    BY <1>1, <1>2, <2>1, SubSeqProperties
<1> DEFINE then == SubSeq(s, (n + 1) + 1, Len(s))
<1>5. then \in Seq(T) /\ Len(then) = Len(s) - (n + 1) /\ \A i \in 1 .. Len(then) : then[i] = s[(n + 1) + i]
  <2>1. (n + 1) + 1 \in Int /\ Len(s) \in Int /\ \A i \in (n + 1) + 1 .. Len(s) : s[i] \in T
    BY <1>1, <1>3
  <2>2. QED
    BY <1>1, <1>2, <2>1, SubSeqProperties
<1> HIDE DEF left, then
<1>6. left # <<>> /\ 1 \in 1 .. Len(left)
  BY <1>1, <1>2, <1>4
<1>7. Head(left) = s[n + 1]
  BY <1>4, <1>6
<1>8. Tail(left) \in Seq(T) /\ Len(Tail(left)) = Len(left) - 1 /\ \A i \in 1 .. Len(Tail(left)) : Tail(left)[i] = left[i + 1]
  BY <1>4, <1>6, HeadTailProperties
<1>9. Tail(left) = then
  <2>1. Len(Tail(left)) = Len(then)
    BY <1>1, <1>4, <1>5, <1>8
  <2>2. ASSUME NEW i \in 1 .. Len(then) PROVE Tail(left)[i] = then[i]
    <3>1. i + 1 \in 1 .. Len(left) /\ n + (i + 1) = (n + 1) + i
      BY <1>1, <1>4, <1>5
    <3>2. QED
      BY <1>4, <1>5, <1>8, <2>1, <3>1
  <2>3. QED
    BY <1>5, <1>8, <2>1, <2>2, SeqEqual
<1>10. QED
  BY <1>2, <1>7, <1>9 DEF left, then

(* What :restore opened is what the row told. *)
LEMMA RestoreTellsStep ==
    ASSUME MaxLocal < RemoteBase, IInv, reserved \cap sessions = {}, OutputInv, RestoreInv, OutputStep, StoreStep
    PROVE  RestoreTells'
<1>1. /\ \A id \in PaneIds : HandedOut(id) => /\ HandedOut(id)' /\ request'[id] = request[id]
                                              /\ started'[id] = started[id]
      /\ DOMAIN request' = PaneIds
  BY RequestsStand, HandedOutOnce, OutputStepsPanes DEF IInv, OutputInv, OutputTypes
<1>2. ASSUME NEW id \in PaneIds, HandedOut(id)
      PROVE  /\ HandedOut(id)' /\ request'[id] = request[id] /\ started'[id] = started[id]
             /\ IsPlugin(id)' <=> IsPlugin(id)
  BY <1>1, <1>2 DEF IsPlugin
<1>3. CASE UNCHANGED <<todo, restored>>
  <2>1. CASE restored = NotRestored
    BY <1>3, <2>1 DEF RestoreInv, RestoreTells
  <2>2. CASE restored # NotRestored
    <3>1. PICK row, opened : row = restored.row /\ opened = restored.opened
      OBVIOUS
    <3>2. /\ opened \in Seq(PaneIds \cup {NoPane})
          /\ \A i \in 1 .. Len(opened) :
                LET id == opened[i]
                IN id # NoPane => /\ HandedOut(id) /\ request[id].harness = row.panes[i].harness
                                  /\ ~IsPlugin(id) => OpenedAgain(started[id].command, row.ran[i])
      BY <2>2, <3>1 DEF RestoreInv, RestoreTells
    <3>3. ASSUME NEW i \in 1 .. Len(opened), NEW id, id = opened[i], id # NoPane
          PROVE  /\ HandedOut(id)' /\ request'[id].harness = row.panes[i].harness
                 /\ ~IsPlugin(id)' => OpenedAgain(started'[id].command, row.ran[i])
      BY <1>2, <3>2, <3>3
    <3>4. QED
      BY <1>3, <2>2, <3>1, <3>3 DEF RestoreInv, RestoreTells
  <2>3. QED
    BY <2>1, <2>2
<1>4. ASSUME NEW name, Restore(name) PROVE RestoreTells'
  <2>1. CASE UNCHANGED <<todo, restored>>
    BY <1>3, <2>1
  <2>2. ASSUME NEW row \in LoadSession(name), todo' = row.panes,
               restored' = [row |-> row, known |-> stored, opened |-> <<>>]
        PROVE  RestoreTells'
    <3>1. /\ row \in stored /\ RowTells(row) /\ row.updated_at \in Int /\ row.name = name
          /\ \A other \in stored : other.name = name => other.updated_at <= row.updated_at
      BY <2>2 DEF LoadSession, Named, RestoreInv, RowsTell
    <3>2. \A other \in stored : other.name = row.name => other.given <= row.updated_at
      BY <3>1 DEF RestoreInv, RowsTell
    <3>3. restored' # NotRestored
      <4>1. "row" \in DOMAIN restored' /\ "row" \notin DOMAIN NotRestored
        BY <2>2 DEF NotRestored
      <4>2. QED
        BY <4>1
    <3>4. row.panes = SubSeq(row.panes, 0 + 1, Len(row.panes)) /\ 0 <= Len(row.panes)
      BY <3>1 DEF RowTells, IsSeq
    <3>5. <<>> \in Seq(PaneIds \cup {NoPane}) /\ Len(<<>>) = 0
      OBVIOUS
    <3>6. QED
      BY <2>2, <3>1, <3>2, <3>3, <3>4, <3>5 DEF RestoreTells
  <2>3. QED
    BY <1>4, <2>1, <2>2 DEF Restore
<1>5. CASE RestorePane
  <2>1. todo # <<>> /\ restored # NotRestored /\ todo' = Tail(todo)
    BY <1>5 DEF RestorePane, RestoreInv, RestoreTells
  <2>2. PICK row, known, opened, done, asked :
           /\ row = restored.row /\ known = restored.known /\ opened = restored.opened
           /\ done = Len(opened) /\ asked = Head(todo)
    OBVIOUS
  <2>3. /\ restored = [row |-> row, known |-> known, opened |-> opened]
        /\ RowTells(row)
        /\ \A other \in known : other.name = row.name => other.given <= row.updated_at
        /\ opened \in Seq(PaneIds \cup {NoPane}) /\ done <= Len(row.panes)
        /\ todo = SubSeq(row.panes, done + 1, Len(row.panes))
        /\ \A i \in 1 .. done :
              LET id == opened[i]
              IN id # NoPane => /\ HandedOut(id) /\ request[id].harness = row.panes[i].harness
                                /\ ~IsPlugin(id) => OpenedAgain(started[id].command, row.ran[i])
    BY <2>1, <2>2 DEF RestoreInv, RestoreTells
  <2>4. done \in Nat /\ IsSeq(row.panes) /\ Len(row.panes) \in Nat
    BY <2>2, <2>3 DEF RowTells, IsSeq
  <2>5. /\ done + 1 <= Len(row.panes) /\ asked = row.panes[done + 1]
        /\ todo' = SubSeq(row.panes, (done + 1) + 1, Len(row.panes))
    BY <2>1, <2>2, <2>3, <2>4, LeftOf
  <2>6. Tells(asked, row.ran[done + 1])
    <3>1. done + 1 \in 1 .. Len(row.panes)
      BY <2>4, <2>5
    <3>2. QED
      BY <2>2, <2>3, <2>5, <3>1 DEF RowTells
  <2>7. \E id \in PaneIds \cup {NoPane} :
           /\ restored' = [restored EXCEPT !.opened = Append(opened, id)]
           /\ id # NoPane => /\ HandedOut(id)' /\ request'[id].harness = asked.harness
                             /\ ~IsPlugin(id)' => OpenedAgain(started'[id].command, row.ran[done + 1])
    <3>1. ASSUME NEW n \in PaneIds, Starts(n, asked)
          PROVE  /\ request'[n].harness = asked.harness
                 /\ ~IsPlugin(n)' => OpenedAgain(started'[n].command, row.ran[done + 1])
      <4>1. PICK command \in Commands(asked, Setting(asked.harness)) :
               /\ request' = [request EXCEPT ![n] = Kept(asked, Setting(asked.harness))]
               /\ started' = [started EXCEPT ![n] =
                     [asked |-> asked, setting |-> Setting(asked.harness), command |-> command]]
        BY <3>1 DEF Starts
      <4>2. request'[n].harness = asked.harness
        BY <3>1, <4>1, KeptTells DEF OutputInv, OutputTypes
      <4>3. started'[n].command = command
        BY <3>1, <4>1 DEF OutputInv, OutputTypes
      <4>4. QED
        BY <2>6, <4>2, <4>3, OpensAgain DEF IsPlugin
    <3>2. CASE Open(asked) /\ restored' = [restored EXCEPT !.opened = Append(@, next_local)]
      <4>1. PICK n : n = next_local
        OBVIOUS
      <4>2. n \in LocalIds /\ n \in PaneIds /\ next_local' = n + 1 /\ n \in Nat
        BY <3>2, <4>1, BoundsAssumption DEF Open, SpawnPane, OpenPty, PaneIds, LocalIds
      <4>3. HandedOut(n)'
        BY <4>2 DEF HandedOut
      <4>4. request'[n].harness = asked.harness /\ (~IsPlugin(n)' => OpenedAgain(started'[n].command, row.ran[done + 1]))
        BY <3>1, <3>2, <4>1, <4>2 DEF Open, Runs
      <4>5. QED
        BY <2>2, <2>3, <3>2, <4>1, <4>2, <4>3, <4>4
    <3>3. CASE QueueRemote(asked) /\ restored' = [restored EXCEPT !.opened = Append(@, next_remote)]
      <4>1. PICK n : n = next_remote
        OBVIOUS
      <4>2. n \in RemoteIds /\ n \in PaneIds /\ next_remote' = n + 1 /\ n \in Nat
        BY <3>3, <4>1, BoundsAssumption, BaseAssumption DEF QueueRemote, PrepareRemote, PaneIds, RemoteIds
      <4>3. HandedOut(n)'
        BY <4>2 DEF HandedOut
      <4>4. request'[n].harness = asked.harness /\ (~IsPlugin(n)' => OpenedAgain(started'[n].command, row.ran[done + 1]))
        BY <3>1, <3>3, <4>1, <4>2 DEF QueueRemote
      <4>5. QED
        BY <2>2, <2>3, <3>3, <4>1, <4>2, <4>3, <4>4
    <3>4. CASE OpenFails(asked) /\ restored' = [restored EXCEPT !.opened = Append(@, NoPane)]
      BY <2>2, <2>3, <3>4
    <3>5. QED
      BY <1>5, <2>2, <2>3, <3>2, <3>3, <3>4 DEF RestorePane
  <2>8. PICK id \in PaneIds \cup {NoPane} :
           /\ restored' = [restored EXCEPT !.opened = Append(opened, id)]
           /\ id # NoPane => /\ HandedOut(id)' /\ request'[id].harness = asked.harness
                             /\ ~IsPlugin(id)' => OpenedAgain(started'[id].command, row.ran[done + 1])
    BY <2>7
  <2> DEFINE more == Append(opened, id)
  <2>9. /\ more \in Seq(PaneIds \cup {NoPane}) /\ Len(more) = done + 1 /\ more[done + 1] = id
        /\ \A i \in 1 .. done : more[i] = opened[i]
    BY <2>2, <2>3
  <2>10. restored' = [row |-> row, known |-> known, opened |-> more] /\ restored' # NotRestored
    <3>1. restored' = [row |-> row, known |-> known, opened |-> more]
      BY <2>2, <2>3, <2>8
    <3>2. "row" \in DOMAIN restored' /\ "row" \notin DOMAIN NotRestored
      BY <3>1 DEF NotRestored
    <3>3. QED
      BY <3>1, <3>2
  <2> HIDE DEF more
  <2>11. \A i \in 1 .. Len(more) :
            LET one == more[i]
            IN one # NoPane => /\ HandedOut(one)' /\ request'[one].harness = row.panes[i].harness
                               /\ ~IsPlugin(one)' => OpenedAgain(started'[one].command, row.ran[i])
    <3> SUFFICES ASSUME NEW i \in 1 .. Len(more), NEW one, one = more[i], one # NoPane
                 PROVE  /\ HandedOut(one)' /\ request'[one].harness = row.panes[i].harness
                        /\ ~IsPlugin(one)' => OpenedAgain(started'[one].command, row.ran[i])
      OBVIOUS
    <3>1. CASE i = done + 1
      BY <2>5, <2>8, <2>9, <3>1
    <3>2. CASE i # done + 1
      <4>1. i \in 1 .. done /\ one = opened[i]
        BY <2>4, <2>9, <3>2
      <4>2. one \in PaneIds /\ HandedOut(one) /\ request[one].harness = row.panes[i].harness
            /\ (~IsPlugin(one) => OpenedAgain(started[one].command, row.ran[i]))
        BY <2>2, <2>3, <4>1
      <4>3. QED
        BY <1>2, <4>2
    <3>3. QED
      BY <3>1, <3>2
  <2>12. QED
    BY <2>2, <2>3, <2>4, <2>5, <2>9, <2>10, <2>11 DEF RestoreTells
<1>6. QED
  BY <1>3, <1>4, <1>5 DEF StoreStep, Save, ClockTicks, SaveEnds, storeVars

-------------------------------------------------------------------------------
(* Sequences of anything: every sequence is one. *)
LEMMA SeqIsSeq ==
    ASSUME NEW T, NEW s \in Seq(T)
    PROVE  IsSeq(s)
BY DEF IsSeq

(* One is a sequence of what it holds. *)
LEMMA IsSeqOf ==
    ASSUME NEW s, IsSeq(s)
    PROVE  s \in Seq(Range(s)) /\ Len(s) \in Nat /\ Range(s) = {s[i] : i \in 1 .. Len(s)}
<1>1. Len(s) \in Nat /\ s = [i \in 1 .. Len(s) |-> s[i]]
  BY DEF IsSeq
<1>2. Range(s) = {s[i] : i \in 1 .. Len(s)}
  BY <1>1 DEF Range
<1>3. QED
  BY <1>1, <1>2

(* Concatenation adds to what it holds. *)
LEMMA SeqGrows ==
    ASSUME NEW a, NEW b, IsSeq(a), IsSeq(b)
    PROVE  IsSeq(a \o b) /\ Range(a \o b) = Range(a) \cup Range(b)
<1> DEFINE T == Range(a) \cup Range(b)
<1>1. a \in Seq(Range(a)) /\ b \in Seq(Range(b)) /\ Len(a) \in Nat /\ Len(b) \in Nat
  BY IsSeqOf
<1>2. a \in Seq(T) /\ b \in Seq(T)
  BY <1>1
<1> HIDE DEF T
<1>3. /\ a \o b \in Seq(T) /\ Len(a \o b) = Len(a) + Len(b)
      /\ \A i \in 1 .. Len(a) + Len(b) : (a \o b)[i] = IF i <= Len(a) THEN a[i] ELSE b[i - Len(a)]
  BY <1>1, <1>2, ConcatProperties
<1>4. IsSeq(a \o b)
  BY <1>3, SeqIsSeq
<1>5. ASSUME NEW x PROVE x \in Range(a \o b) <=> x \in Range(a) \cup Range(b)
  <2>1. x \in Range(a \o b) <=> \E i \in 1 .. Len(a) + Len(b) : x = (a \o b)[i]
    <3>1. Range(a \o b) = {(a \o b)[i] : i \in 1 .. Len(a \o b)}
      BY <1>4, IsSeqOf
    <3>2. QED
      BY <1>3, <3>1
  <2>2. x \in Range(a) <=> \E i \in 1 .. Len(a) : x = a[i]
    BY IsSeqOf
  <2>3. x \in Range(b) <=> \E i \in 1 .. Len(b) : x = b[i]
    BY IsSeqOf
  <2>4. ASSUME NEW i \in 1 .. Len(a) PROVE i \in 1 .. Len(a) + Len(b) /\ (a \o b)[i] = a[i]
    BY <1>1, <1>3
  <2>5. ASSUME NEW i \in 1 .. Len(b) PROVE i + Len(a) \in 1 .. Len(a) + Len(b) /\ (a \o b)[i + Len(a)] = b[i]
    BY <1>1, <1>3
  <2>6. ASSUME NEW i \in 1 .. Len(a) + Len(b)
        PROVE  \/ i \in 1 .. Len(a) /\ (a \o b)[i] = a[i]
               \/ i - Len(a) \in 1 .. Len(b) /\ (a \o b)[i] = b[i - Len(a)]
    BY <1>1, <1>3
  <2>7. QED
    BY <2>1, <2>2, <2>3, <2>4, <2>5, <2>6
<1>6. QED
  BY <1>4, <1>5

(* Append leaves what is there in its place. *)
LEMMA AppendGrows ==
    ASSUME NEW a, NEW x, IsSeq(a)
    PROVE  /\ IsSeq(Append(a, x)) /\ Len(Append(a, x)) = Len(a) + 1 /\ Len(a) \in Nat
           /\ Append(a, x)[Len(a) + 1] = x /\ \A i \in 1 .. Len(a) : Append(a, x)[i] = a[i]
           /\ Range(Append(a, x)) = Range(a) \cup {x}
<1> DEFINE T == Range(a) \cup {x}
<1>1. a \in Seq(T) /\ x \in T /\ Len(a) \in Nat
  BY IsSeqOf
<1> HIDE DEF T
<1>2. /\ Append(a, x) \in Seq(T) /\ Len(Append(a, x)) = Len(a) + 1
      /\ \A i \in 1 .. Len(a) : Append(a, x)[i] = a[i]
      /\ Append(a, x)[Len(a) + 1] = x
  BY <1>1, AppendProperties
<1>3. IsSeq(Append(a, x))
  BY <1>2, SeqIsSeq
<1>4. Range(Append(a, x)) = {Append(a, x)[i] : i \in 1 .. Len(a) + 1} /\ Range(a) = {a[i] : i \in 1 .. Len(a)}
  BY <1>2, <1>3, IsSeqOf
<1>5. \A i \in 1 .. Len(a) + 1 : i = Len(a) + 1 \/ i \in 1 .. Len(a)
  BY <1>1
<1>6. 1 .. Len(a) \subseteq 1 .. Len(a) + 1 /\ Len(a) + 1 \in 1 .. Len(a) + 1
  BY <1>1
<1>7. Range(Append(a, x)) = Range(a) \cup {x}
  BY <1>2, <1>4, <1>5, <1>6
<1>8. QED
  BY <1>1, <1>2, <1>3, <1>7

-------------------------------------------------------------------------------
(* What is typed to harnesses.                                             *)
InboxStep ==
    \/ UNCHANGED inbox
    \/ \E id \in PaneIds : \E text : Write(id, text)
    \/ \E targets \in SUBSET PaneIds : \E text : SendTo(targets, text)
    \/ HandleWebInput

(* Each part of the program does nothing else to it. *)
LEMMA EveryInboxStep ==
    ASSUME TypeOK, [ServicesNext]_allVars
    PROVE  InboxStep
<1>1. panes \subseteq PaneIds
  BY DEF TypeOK
<1>2. CASE RemoteDone \/ Exits \/ Drain \/ Completions
  BY <1>2 DEF RemoteDone, Exits, Drain, Completions, FinishRemote, CompleteRemote, RemoteSpawnFailed, NoticeExits,
     PollPtyOutput, PollPendingCompletions, Idle, outputVars, useVars, InboxStep
<1>3. CASE WebInput \/ Draw
  BY <1>3 DEF WebInput, Draw, PublishWebFrame, Idle, outputVars, useVars, InboxStep
<1>4. CASE Requests
  BY <1>1, <1>4 DEF Requests, SendAndWait, Idle, outputVars, useVars, InboxStep
<1>5. CASE McpRequests
  <2>1. ASSUME NEW line, Execute(line) PROVE InboxStep
    <3>1. CASE SpawnAsked(line.args) \/ KillAsked(line.args)
      BY <3>1 DEF SpawnAsked, KillAsked, Open, Runs, OpenFails, Close, outputVars, useVars, InboxStep
    <3>2. CASE ListPanes \/ RunWorkflow(line.args) \/ GetPaneOutput(line.args)
      BY <3>2 DEF ListPanes, RunWorkflow, GetPaneOutput, paneVars, outputVars, useVars, InboxStep
    <3>3. CASE SendToPane(line.args)
      BY <1>1, <3>3 DEF SendToPane, paneVars, outputVars, useVars, InboxStep
    <3>4. QED
      BY <2>1, <3>1, <3>2, <3>3 DEF Execute
  <2>2. QED
    BY <1>5, <2>1 DEF McpRequests, HandleMcpRequests, paneVars, outputVars, useVars, InboxStep
<1>6. CASE Keyboard
  <2>1. CASE Idle
    BY <2>1 DEF Idle, outputVars, useVars, InboxStep
  <2>2. ASSUME NEW line, Command(line) PROVE InboxStep
    <3>1. CASE line.do \in {"spawn", "kill", "load-plugin", "save", "restore"}
      BY <2>2, <3>1 DEF Command, Open, Runs, QueueRemote, OpenFails, Kill, Close, LoadPlugin, Save, Restore, outputVars,
         useVars, InboxStep
    <3>2. CASE line.do = "send"
      BY <1>1, <2>2, <3>2 DEF Command, InboxStep
    <3>3. CASE line.do = "broadcast"
      BY <1>1, <2>2, <3>3 DEF Command, InboxStep
    <3>4. CASE line.do = "pipe"
      <4>1. Pipe(line.from, line.to)
        BY <2>2, <3>4 DEF Command
      <4>2. \E text : {line.to} \in SUBSET PaneIds /\ SendTo({line.to}, text)
        BY <1>1, <4>1 DEF Pipe
      <4>3. QED
        BY <4>2 DEF InboxStep
    <3>5. QED
      BY <2>2, <3>1, <3>2, <3>3, <3>4 DEF Command
  <2>3. QED
    BY <1>6, <2>1, <2>2 DEF Keyboard
<1>7. CASE Restoring
  BY <1>7 DEF Restoring, RestorePane, Open, Runs, QueueRemote, OpenFails, Idle, outputVars, useVars, InboxStep
<1>8. CASE Teardown
  BY <1>8 DEF Teardown, JoinRemoteTasks, StopBackground, ShutdownApp, KillAll, Close, DropRuntime, Disconnect, Exit,
     Idle, outputVars, useVars, InboxStep
<1>9. CASE Beside
  <2>1. CASE (\E id \in PaneIds : Reader(id)) \/ World
    BY <2>1 DEF Reader, World, Threads, ReaderReads, ReaderSends, ReaderEnds, Outside, WriteLine, OthersClose, ProcessEnds,
       ConnectEnds, outputVars, useVars, InboxStep
  <2>2. CASE Server \/ Client \/ Console
    BY <2>2 DEF Server, Client, Console, Replied, ClientActs, WriteReply, ShutdownSignal, ReadLine, EndOfInput,
       HeldCallReturns, paneVars, outputVars, useVars, InboxStep
  <2>3. CASE \E v \in Viewers : Viewer(v) \/ Browser(v)
    BY <2>3 DEF Viewer, Browser, Forward, Display, Connect, Disconnect, Press, outputVars, useVars, InboxStep
  <2>4. CASE Database
    BY <2>4 DEF Database, ClockTicks, SaveEnds, outputVars, useVars, InboxStep
  <2>5. QED
    BY <1>9, <2>1, <2>2, <2>3, <2>4 DEF Beside
<1>10. CASE UNCHANGED allVars
  BY <1>10 DEF allVars, outputVars, useVars, InboxStep
<1>11. QED
  BY <1>2, <1>3, <1>4, <1>5, <1>6, <1>7, <1>8, <1>9, <1>10 DEF LoopStep, ServicesNext, Beside

(* What a text becomes is a sequence. *)
LEMMA BytesAreSeqs ==
    ASSUME NEW id, NEW text, NEW bytes \in Bytes(id, text) \cup Arrives(id, text)
    PROVE  IsSeq(bytes)
<1>1. IsSeq(<<>>) /\ IsSeq(<<text, "newline">>)
  BY DEF IsSeq
<1>2. TranslateInput("Prompt", text) = <<text, "newline">>
  BY DEF TranslateInput
<1>3. <<TranslateInput("Prompt", text)>> # Unusable /\ PluginInput(Unusable) = <<>>
  BY DEF Unusable, PluginInput
<1>4. PluginInput(<<TranslateInput("Prompt", text)>>) = <<text, "newline">>
  BY <1>2, <1>3 DEF PluginInput
<1>5. Bytes(id, text) \subseteq {<<>>, <<text, "newline">>}
  BY <1>2, <1>3, <1>4 DEF Bytes
<1>6. QED
  BY <1>1, <1>5 DEF Arrives

(* Inboxes only grow. *)
LEMMA InboxGrows ==
    ASSUME DOMAIN inbox = PaneIds, \A id \in PaneIds : IsSeq(inbox[id]), IsSeq(web_input), InboxStep
    PROVE  /\ DOMAIN inbox' = PaneIds
           /\ \A id \in PaneIds : IsSeq(inbox'[id]) /\ Range(inbox[id]) \subseteq Range(inbox'[id])
<1>1. CASE UNCHANGED inbox
  BY <1>1
<1>2. ASSUME NEW one \in PaneIds, NEW text, Write(one, text)
      PROVE  /\ DOMAIN inbox' = PaneIds
             /\ \A id \in PaneIds : IsSeq(inbox'[id]) /\ Range(inbox[id]) \subseteq Range(inbox'[id])
  <2>1. PICK bytes \in Bytes(one, text) : inbox' = [inbox EXCEPT ![one] = inbox[one] \o bytes]
    BY <1>2 DEF Write
  <2>2. IsSeq(inbox[one] \o bytes) /\ Range(inbox[one]) \subseteq Range(inbox[one] \o bytes)
    BY BytesAreSeqs, SeqGrows
  <2>3. QED
    BY <2>1, <2>2
<1>3. ASSUME NEW targets \in SUBSET PaneIds, NEW text, SendTo(targets, text)
      PROVE  /\ DOMAIN inbox' = PaneIds
             /\ \A id \in PaneIds : IsSeq(inbox'[id]) /\ Range(inbox[id]) \subseteq Range(inbox'[id])
  <2>1. PICK bytes : /\ \A id \in targets : bytes[id] \in Arrives(id, text)
                     /\ inbox' = [id \in PaneIds |-> IF id \in targets THEN inbox[id] \o bytes[id] ELSE inbox[id]]
    BY <1>3 DEF SendTo
  <2>2. ASSUME NEW id \in targets
        PROVE  IsSeq(inbox[id] \o bytes[id]) /\ Range(inbox[id]) \subseteq Range(inbox[id] \o bytes[id])
    BY <2>1, BytesAreSeqs, SeqGrows
  <2>3. QED
    BY <2>1, <2>2
<1>4. CASE HandleWebInput
  <2> DEFINE n == IF Len(web_input) > InputBatch THEN InputBatch ELSE Len(web_input)
  <2>1. PICK bytes :
           /\ \A i \in 1 .. n : bytes[i] \in Arrives(web_input[i], "key")
           /\ inbox' = [id \in PaneIds |-> inbox[id] \o
                  FlattenSeq([i \in 1 .. n |-> IF web_input[i] = id THEN bytes[i] ELSE <<>>])]
    BY <1>4, Zenon DEF HandleWebInput
  <2>2. n \in Nat
    BY BatchAssumption DEF IsSeq
  <2> HIDE DEF n
  <2>3. /\ \A i \in 1 .. n : bytes[i] \in Arrives(web_input[i], "key")
        /\ inbox' = [id \in PaneIds |-> inbox[id] \o
               FlattenSeq([i \in 1 .. n |-> IF web_input[i] = id THEN bytes[i] ELSE <<>>])]
    BY <2>1
  <2> DEFINE T == UNION {Range(bytes[i]) : i \in 1 .. n}
             To(id) == [i \in 1 .. n |-> IF web_input[i] = id THEN bytes[i] ELSE <<>>]
  <2>4. ASSUME NEW i \in 1 .. n PROVE bytes[i] \in Seq(T)
    <3>1. bytes[i] \in Seq(Range(bytes[i]))
      BY <2>3, BytesAreSeqs, IsSeqOf
    <3>2. Range(bytes[i]) \subseteq T
      OBVIOUS
    <3> HIDE DEF T
    <3>3. QED
      BY <3>1, <3>2
  <2> HIDE DEF T
  <2>5. ASSUME NEW id \in PaneIds
        PROVE  IsSeq(inbox[id] \o FlattenSeq(To(id)))
               /\ Range(inbox[id]) \subseteq Range(inbox[id] \o FlattenSeq(To(id)))
    <3>1. To(id) \in Seq(Seq(T))
      BY <2>2, <2>4
    <3> HIDE DEF To
    <3>2. IsSeq(FlattenSeq(To(id)))
      BY <3>1, FlattenSeqType, SeqIsSeq
    <3>3. QED
      BY <3>2, SeqGrows
  <2>6. inbox' = [id \in PaneIds |-> inbox[id] \o FlattenSeq(To(id))]
    BY <2>3
  <2> HIDE DEF To
  <2>7. QED
    BY <2>5, <2>6
<1>5. QED
  BY <1>1, <1>2, <1>3, <1>4 DEF InboxStep

(* The queue of keys stays a sequence. *)
LEMMA KeysStep ==
    ASSUME IsSeq(web_input), [ServicesNext]_allVars
    PROVE  IsSeq(web_input)'
<1>1. CASE UNCHANGED web_input
  BY <1>1 DEF IsSeq
<1>2. ASSUME NEW v, Press(v) PROVE IsSeq(web_input)'
  <2>1. PICK pane : web_input' = IF Len(web_input) < InputCapacity THEN Append(web_input, pane.id) ELSE web_input
    BY <1>2 DEF Press
  <2>2. IsSeq(Append(web_input, pane.id))
    BY AppendGrows
  <2>3. IsSeq(web_input')
    BY <2>1, <2>2
  <2>4. QED
    BY <2>3 DEF IsSeq
<1>3. CASE HandleWebInput
  <2>1. PICK n : n = IF Len(web_input) > InputBatch THEN InputBatch ELSE Len(web_input)
    OBVIOUS
  <2>2. n \in Nat /\ web_input' = SubSeq(web_input, n + 1, Len(web_input))
    BY <1>3, <2>1, BatchAssumption DEF IsSeq, HandleWebInput
  <2>3. web_input \in Seq(Range(web_input)) /\ Len(web_input) \in Nat
    BY IsSeqOf
  <2>4. web_input' \in Seq(Range(web_input))
    <3>1. n + 1 \in Int /\ Len(web_input) \in Int
      BY <2>2, <2>3
    <3>2. \A i \in n + 1 .. Len(web_input) : web_input[i] \in Range(web_input)
      BY <2>2, <2>3
    <3>3. QED
      BY <2>2, <3>1, <3>2, SubSeqProperties
  <2>5. IsSeq(web_input')
    BY <2>4, SeqIsSeq
  <2>6. QED
    BY <2>5 DEF IsSeq
<1>4. CASE LoopStep /\ ~HandleWebInput
  BY <1>1, <1>4 DEF LoopStep, RemoteDone, WebInput, Draw, PublishWebFrame, Requests, McpRequests, Keyboard, Command, Restoring,
     Drain, Completions, Exits, Idle, OnPanes, webVars
<1>5. CASE Teardown
  BY <1>1, <1>5 DEF Teardown, JoinRemoteTasks, StopBackground, ShutdownApp, DropRuntime, Disconnect, Exit, Idle, OnPanes,
     webVars
<1>6. CASE Beside
  BY <1>1, <1>2, <1>6 DEF Beside, Reader, World, Apart, Server, Client, Console, Viewer, Forward, Display, Browser, Connect,
     Disconnect, Database, webVars
<1>7. CASE UNCHANGED allVars
  BY <1>1, <1>7 DEF allVars, webVars
<1>8. QED
  BY <1>3, <1>4, <1>5, <1>6, <1>7 DEF ServicesNext, Beside

-------------------------------------------------------------------------------
(* The MCP server.  What makes a reply true is there to stay.              *)
Lasts ==
    /\ next_local \in Nat /\ next_local' \in Nat /\ next_local <= next_local' /\ LocalIds \subseteq Nat
    /\ \A id \in PaneIds : HandedOut(id) => HandedOut(id)' /\ request'[id] = request[id]
    /\ \A id \in PaneIds : HandedOut(id) /\ id \notin panes \cup reserved => id \notin (panes \cup reserved)'
    /\ \A id \in PaneIds : Range(inbox[id]) \subseteq Range(inbox'[id])
    /\ Range(launched) \subseteq Range(launched')

(* So a reply that told the truth still does, ... *)
LEMMA ReplyStaysTrue ==
    ASSUME Lasts, NEW line, NEW said, StaysTrue(line, said)
    PROVE  StaysTrue(line, said)'
<1> SUFFICES ASSUME Succeeds(line, said)
             PROVE  /\ line.tool = "spawn_pane" => /\ said.is \in LocalIds /\ said.is < next_local'
                                                   /\ request'[said.is].harness = line.args.harness
                    /\ line.tool = "kill_pane" => /\ line.args.pane_id \in PaneIds /\ HandedOut(line.args.pane_id)'
                                                  /\ line.args.pane_id \notin (panes \cup reserved)'
                    /\ line.tool = "send_to_pane" => /\ line.args.pane_id \in PaneIds
                                                     /\ line.args.text \in Range(inbox'[line.args.pane_id])
                    /\ line.tool = "run_workflow" => line.args.path \in Range(launched')
  BY DEF StaysTrue, Succeeds
<1>1. ASSUME line.tool = "spawn_pane"
      PROVE  /\ said.is \in LocalIds /\ said.is < next_local'
             /\ request'[said.is].harness = line.args.harness
  <2>1. PICK n : n = said.is
    OBVIOUS
  <2>2. n \in LocalIds /\ n \in PaneIds /\ n < next_local /\ request[n].harness = line.args.harness
    BY <1>1, <2>1 DEF StaysTrue, PaneIds
  <2>3. HandedOut(n) /\ n \in Nat
    BY <2>2 DEF HandedOut, Lasts
  <2>4. request'[n] = request[n]
    BY <2>2, <2>3 DEF Lasts
  <2>5. n < next_local'
    BY <2>2, <2>3 DEF Lasts
  <2>6. QED
    BY <2>1, <2>2, <2>4, <2>5
<1>2. ASSUME line.tool = "kill_pane"
      PROVE  /\ line.args.pane_id \in PaneIds /\ HandedOut(line.args.pane_id)'
             /\ line.args.pane_id \notin (panes \cup reserved)'
  BY <1>2 DEF StaysTrue, Lasts
<1>3. ASSUME line.tool = "send_to_pane"
      PROVE  line.args.pane_id \in PaneIds /\ line.args.text \in Range(inbox'[line.args.pane_id])
  BY <1>3 DEF StaysTrue, Lasts
<1>4. ASSUME line.tool = "run_workflow" PROVE line.args.path \in Range(launched')
  BY <1>4 DEF StaysTrue, Lasts
<1>5. QED
  BY <1>1, <1>2, <1>3, <1>4

(* ... and an answer that fits its line goes on fitting. *)
LEMMA FitsOn ==
    ASSUME Lasts, NEW line, NEW said, Fits(line, said)
    PROVE  Fits(line, said)'
BY ReplyStaysTrue DEF Fits, AsAdvertised

(* What a step does to the server. *)
conversationVars == <<conversation, heard, server, queue, response, stdout, held, launched>>

ServerStep ==
    \/ UNCHANGED conversationVars
    \/ (queue # <<>> /\ HandleMcpRequests) \/ ReadLine \/ EndOfInput \/ Replied \/ WriteReply
    \/ (server # "done" /\ Ends) \/ HeldCallReturns

(* Every step of the program is one of these. *)
LEMMA EveryServerStep == [ServicesNext]_allVars => ServerStep
<1>1. CASE LoopStep
  BY <1>1 DEF LoopStep, RemoteDone, WebInput, Draw, Requests, McpRequests, HandleMcpRequests, Keyboard, Command,
     Restoring, Drain, Completions, Exits, Idle, OnPanes, mcpVars, conversationVars, ServerStep
<1>2. CASE Teardown
  BY <1>2 DEF Teardown, JoinRemoteTasks, StopBackground, ShutdownApp, DropRuntime, Exit, Idle, OnPanes, mcpVars,
     conversationVars, ServerStep
<1>3. CASE Beside
  BY <1>3 DEF Beside, Reader, World, Apart, Server, Client, ClientActs, ShutdownSignal, Console, Viewer, Browser, Database, mcpVars, conversationVars, ServerStep
<1>4. CASE UNCHANGED allVars
  BY <1>4 DEF allVars, mcpVars, conversationVars, ServerStep
<1>5. SUFFICES ASSUME [ServicesNext]_allVars PROVE ServerStep
  OBVIOUS
<1>6. QED
  BY <1>1, <1>2, <1>3, <1>4, <1>5 DEF ServicesNext, Beside

(* A call carried out has the effect its reply tells. *)
LEMMA CallTakesEffect ==
    ASSUME MaxLocal < RemoteBase, IInv, reserved \cap sessions = {}, OutputTypes, ServerTypes,
           \A id \in panes : ~IsPlugin(id),
           NEW line, Execute(line)
    PROVE  /\ response'.code = "ok" /\ StaysTrue(line, response)'
           /\ IsSeq(launched') /\ Range(launched) \subseteq Range(launched')
<1>1. LocalIds \cap RemoteIds = {} /\ LocalIds \subseteq Nat /\ next_local \in Nat
  BY BoundsAssumption, BaseAssumption DEF IInv, TypeOK, LocalIds, RemoteIds
<1>2. IsSeq(launched)
  BY DEF ServerTypes
<1>3. ASSUME Fails PROVE response'.code = "ok" /\ StaysTrue(line, response)' /\ launched' = launched
  BY <1>3 DEF Fails, Done, StaysTrue, Succeeds
<1>4. CASE line.tool = "list_panes" /\ ListPanes
  BY <1>2, <1>4 DEF ListPanes, Works, Done, StaysTrue
<1>5. CASE line.tool = "spawn_pane" /\ SpawnAsked(line.args)
  <2>1. CASE OpenFails(AskedFor(line.args)) /\ Fails
    BY <1>2, <1>3, <2>1
  <2>2. CASE Open(AskedFor(line.args)) /\ Works(next_local)
    <3>1. PICK n : n = next_local
      OBVIOUS
    <3>2. /\ n \in LocalIds /\ n \in PaneIds /\ next_local' = n + 1 /\ n < next_local'
      BY <1>1, <2>2, <3>1 DEF Open, SpawnPane, OpenPty, PaneIds
    <3>3. request' = [request EXCEPT ![n] = Kept(AskedFor(line.args), Setting(AskedFor(line.args).harness))]
      BY <2>2, <3>1 DEF Open, Runs, Starts
    <3>4. request'[n].harness = line.args.harness
      BY <3>2, <3>3 DEF OutputTypes, Kept, AskedFor
    <3>5. response' = [code |-> "ok", failed |-> FALSE, is |-> n] /\ launched' = launched
      BY <2>2, <3>1 DEF Works, Done
    <3>6. response'.code = "ok" /\ response'.is = n
      BY <3>5
    <3>7. QED
      BY <1>2, <1>5, <3>2, <3>4, <3>5, <3>6 DEF StaysTrue
  <2>3. QED
    BY <1>5, <2>1, <2>2 DEF SpawnAsked
<1>6. CASE line.tool = "send_to_pane" /\ SendToPane(line.args)
  <2>1. CASE Fails
    BY <1>2, <1>3, <2>1
  <2>2. CASE line.args.pane_id \in panes /\ Write(line.args.pane_id, line.args.text) /\ Works("sent")
    <3>1. PICK id, text : id \in PaneIds /\ id = line.args.pane_id /\ text = line.args.text
      BY <2>2 DEF IInv, TypeOK
    <3>2. Bytes(id, text) = {<<text, "newline">>}
      BY <2>2, <3>1 DEF Bytes, TranslateInput
    <3>3. inbox' = [inbox EXCEPT ![id] = inbox[id] \o <<text, "newline">>]
      BY <2>2, <3>1, <3>2 DEF Write
    <3>4. IsSeq(inbox[id]) /\ DOMAIN inbox = PaneIds
      BY <3>1 DEF ServerTypes
    <3>5. IsSeq(<<text, "newline">>) /\ text \in Range(<<text, "newline">>)
      <4>1. IsSeq(<<text, "newline">>)
        BY DEF IsSeq
      <4>2. <<text, "newline">>[1] = text /\ 1 \in 1 .. Len(<<text, "newline">>)
        OBVIOUS
      <4>3. QED
        BY <4>1, <4>2, IsSeqOf
    <3>6. text \in Range(inbox[id] \o <<text, "newline">>)
      BY <3>4, <3>5, SeqGrows
    <3>7. inbox'[id] = inbox[id] \o <<text, "newline">>
      BY <3>1, <3>3, <3>4
    <3>8. response'.code = "ok" /\ launched' = launched
      BY <2>2 DEF Works, Done
    <3>9. QED
      BY <1>2, <1>6, <3>1, <3>6, <3>7, <3>8 DEF StaysTrue
  <2>3. QED
    BY <1>6, <2>1, <2>2 DEF SendToPane
<1>7. CASE line.tool = "run_workflow" /\ RunWorkflow(line.args)
  <2>1. CASE Fails
    BY <1>2, <1>3, <2>1
  <2>2. CASE launched' = Append(launched, line.args.path) /\ response' = [code |-> "ok", failed |-> FALSE, is |-> "launched"]
    <3>1. IsSeq(launched') /\ Range(launched') = Range(launched) \cup {line.args.path}
      BY <1>2, <2>2, AppendGrows
    <3>2. QED
      BY <1>7, <2>2, <3>1 DEF StaysTrue
  <2>3. QED
    BY <1>7, <2>1, <2>2 DEF RunWorkflow
<1>8. CASE line.tool = "get_pane_output" /\ GetPaneOutput(line.args)
  <2>1. CASE Fails
    BY <1>2, <1>3, <2>1
  <2>2. ASSUME NEW shown, Works(shown)
        PROVE  response'.code = "ok" /\ StaysTrue(line, response)' /\ launched' = launched
    BY <1>8, <2>2 DEF Works, Done, StaysTrue
  <2>3. QED
    BY <1>2, <1>8, <2>1, <2>2 DEF GetPaneOutput
<1>9. CASE line.tool = "kill_pane" /\ KillAsked(line.args)
  <2>1. CASE Fails
    BY <1>2, <1>3, <2>1
  <2>2. CASE KillPane(line.args.pane_id) /\ Works("killed")
    <3>1. PICK id : id = line.args.pane_id
      OBVIOUS
    <3>2. /\ id \in PaneIds /\ HandedOut(id) /\ id \notin reserved
      BY <1>1, <2>2, <3>1 DEF KillPane, IInv, TypeOK, IdsInOrder, PaneIds, HandedOut
    <3>3. UNCHANGED <<next_local, next_remote, reserved>> /\ id \notin panes'
      BY <2>2, <3>1 DEF KillPane
    <3>4. HandedOut(id)' /\ id \notin (panes \cup reserved)'
      BY <3>2, <3>3 DEF HandedOut
    <3>5. response'.code = "ok" /\ launched' = launched
      BY <2>2 DEF Works, Done
    <3>6. QED
      BY <1>2, <1>9, <3>1, <3>2, <3>4, <3>5 DEF StaysTrue
  <2>3. QED
    BY <1>9, <2>1, <2>2 DEF KillAsked
<1>10. QED
  BY <1>4, <1>5, <1>6, <1>7, <1>8, <1>9 DEF Execute

(* What is handed over or answered to a line read fits it. *)
LEMMA ReadFits ==
    ASSUME NEW line, line.kind = "request", Dispatch(line), queue = <<>>, response = Nothing, server = "reading"
    PROVE  \/ /\ queue' = <<>> /\ response' = Nothing /\ server' = "reading" /\ ~Owed(line)
           \/ /\ queue' = <<line>> /\ response' = Nothing /\ server' = "waiting" /\ IsCall(line)
           \/ /\ queue' = <<>> /\ server' = "writing" /\ Owed(line) /\ Fits(line, response)'
<1>1. CASE (line.method = "notifications" \/ (line.id = NoId /\ ~IsCall(line))) /\ NoAnswer
  BY <1>1 DEF NoAnswer, Owed
<1>2. CASE IsCall(line) /\ queue' = Append(queue, line) /\ server' = "waiting" /\ UNCHANGED response
  BY <1>2
<1>3. CASE line.method # "notifications" /\ line.id # NoId /\ ~IsCall(line) /\ Answer(Code(line))
  <2>1. response' = [code |-> Code(line)] /\ response'.code = Code(line)
    BY <1>3 DEF Answer
  <2>2. ~AsAdvertised(line)
    BY <1>3 DEF AsAdvertised, Advertised, IsCall, Parses, Needs
  <2>3. Code(line) = "ok" => line.method # "tools/call"
    BY DEF Code
  <2>4. StaysTrue(line, response)'
    BY <2>1, <2>3 DEF StaysTrue, Succeeds
  <2>5. QED
    BY <1>3, <2>2, <2>4 DEF Answer, Owed, Fits, AsAdvertised
<1>4. QED
  BY <1>1, <1>2, <1>3 DEF Dispatch

(* The lines heard grow by the one read. *)
LEMMA OneMoreLine ==
    ASSUME ServerTypes, ReadLine
    PROVE  /\ heard \in Nat /\ heard' = heard + 1 /\ conversation' = conversation /\ stdout' = stdout
           /\ heard' \in 0 .. Len(conversation)
           /\ Answered' = Answered
           /\ OwedLines' = OwedLines \cup {l \in {heard'} : Owed(conversation[l])}
           /\ OwedLines \subseteq 1 .. heard
<1>1. heard' = heard + 1 /\ conversation' = conversation /\ stdout' = stdout /\ heard < Len(conversation)
  BY Zenon DEF ReadLine
<1>2. heard \in Nat /\ Len(conversation) \in Nat
  BY DEF ServerTypes
<1>3. 1 .. heard + 1 = (1 .. heard) \cup {heard + 1}
  BY <1>2
<1>4. OwedLines' = {l \in 1 .. heard + 1 : Owed(conversation[l])}
  BY <1>1 DEF OwedLines, Owed
<1>5. QED
  BY <1>1, <1>2, <1>3, <1>4 DEF OwedLines, Answered

(* What was answered goes on fitting, if no answer is added. *)
LEMMA AnswersStand ==
    ASSUME Lasts, AnswersInOrder, conversation' = conversation, stdout' = stdout, ServerTypes,
           OwedLines \subseteq OwedLines',
           \A l \in OwedLines' \ Answered : l = heard' /\ server' # "reading",
           \A l \in OwedLines : l = heard' =>
              /\ l = heard
              /\ server \in {"reading", "done"} /\ held # "write" => server' \in {"reading", "done"} /\ held' # "write"
    PROVE  AnswersInOrder'
<1>1. Answered' = Answered
  BY DEF Answered
<1>2. ASSUME NEW i \in 1 .. Len(stdout)
      PROVE  /\ stdout[i].line \in OwedLines'
             /\ stdout[i].line = heard' => server' \in {"reading", "done"} /\ held' # "write"
             /\ Fits(conversation[stdout[i].line], stdout[i].said)'
  <2>1. PICK one, line : one = stdout[i] /\ line = conversation[one.line]
    OBVIOUS
  <2>2. /\ Fits(line, one.said) /\ one.line \in OwedLines
        /\ one.line = heard => server \in {"reading", "done"} /\ held # "write"
    BY <2>1 DEF AnswersInOrder
  <2>3. Fits(line, one.said)'
    BY <2>2, FitsOn
  <2>4. one = stdout'[i] /\ line = conversation'[one.line]
    BY <2>1
  <2>5. QED
    BY <2>1, <2>2, <2>3, <2>4
<1>3. QED
  BY <1>1, <1>2 DEF AnswersInOrder

(* A step that reads nothing and writes nothing leaves what was heard and  *)
(* answered.                                                               *)
LEMMA SameLines ==
    ASSUME UNCHANGED <<conversation, heard, stdout>>
    PROVE  OwedLines' = OwedLines /\ Answered' = Answered /\ Heard' = Heard
BY DEF OwedLines, Owed, Answered, Heard

(* One more line answered, the one heard last, goes on fitting too. *)
LEMMA OneMoreAnswer ==
    ASSUME Lasts, ServerTypes, AnswersInOrder, UNCHANGED <<conversation, heard>>,
           heard > 0, Owed(Heard), Fits(Heard, response), server = "writing" \/ held = "write",
           stdout' = Append(stdout, [line |-> heard, said |-> response]),
           server' \in {"reading", "done"}, held' # "write"
    PROVE  IsSeq(stdout') /\ AnswersInOrder'
<1>1. PICK h, said, l, n : h = Heard /\ said = response /\ l = heard /\ n = Len(stdout)
  OBVIOUS
<1>2. /\ IsSeq(stdout') /\ Len(stdout') = n + 1 /\ n \in Nat
      /\ stdout'[n + 1] = [line |-> l, said |-> said] /\ \A i \in 1 .. n : stdout'[i] = stdout[i]
  BY <1>1, AppendGrows DEF ServerTypes
<1>3. stdout'[n + 1].line = l /\ stdout'[n + 1].said = said
  BY <1>2
<1>4. OwedLines' = OwedLines /\ heard' = l /\ l \in OwedLines /\ conversation' = conversation /\ conversation[l] = h
  BY <1>1 DEF OwedLines, Owed, Heard, ServerTypes
<1>5. Answered' = Answered \cup {l}
  <2>1. Answered' = {stdout'[i].line : i \in 1 .. n + 1}
    BY <1>2 DEF Answered
  <2>2. Answered = {stdout[i].line : i \in 1 .. n}
    BY <1>1 DEF Answered
  <2>3. 1 .. n + 1 = (1 .. n) \cup {n + 1}
    BY <1>2
  <2>4. QED
    BY <1>2, <1>3, <2>1, <2>2, <2>3
<1>6. \A k \in OwedLines' \ Answered' : k = heard' /\ server' # "reading"
  BY <1>1, <1>4, <1>5 DEF AnswersInOrder
<1>7. ASSUME NEW i \in 1 .. n + 1
      PROVE  /\ stdout'[i].line \in OwedLines'
             /\ Fits(conversation[stdout[i].line], stdout[i].said)'
  <2>1. CASE i = n + 1
    <3>1. Fits(h, said)'
      BY <1>1, FitsOn
    <3>2. h = conversation'[stdout'[i].line] /\ said = stdout'[i].said
      BY <1>3, <1>4, <2>1
    <3>3. QED
      BY <1>3, <1>4, <2>1, <3>1, <3>2
  <2>2. CASE i # n + 1
    <3>1. i \in 1 .. n
      BY <1>2, <2>2
    <3>2. PICK one, line : one = stdout[i] /\ line = conversation[one.line]
      OBVIOUS
    <3>3. Fits(line, one.said) /\ one.line \in OwedLines
      BY <1>1, <3>1, <3>2 DEF AnswersInOrder
    <3>4. Fits(line, one.said)'
      BY <3>3, FitsOn
    <3>5. one = stdout'[i] /\ line = conversation'[one.line]
      BY <1>2, <1>4, <3>1, <3>2
    <3>6. QED
      BY <1>4, <3>3, <3>4, <3>5
  <2>3. QED
    BY <2>1, <2>2
<1>8. ASSUME NEW i \in 1 .. n + 1, NEW j \in 1 .. n + 1, i < j PROVE stdout'[i].line < stdout'[j].line
  <2>1. i \in 1 .. n
    BY <1>2, <1>8
  <2>2. stdout'[i] = stdout[i] /\ stdout[i].line \in OwedLines /\ stdout[i].line # l
    BY <1>1, <1>2, <2>1 DEF AnswersInOrder
  <2>3. CASE j = n + 1
    <3>1. PICK k : k = stdout[i].line
      OBVIOUS
    <3>2. k \in 1 .. l /\ k # l /\ l \in Nat
      BY <1>1, <2>2, <3>1 DEF OwedLines, ServerTypes
    <3>3. k < l
      BY <3>2
    <3>4. QED
      BY <1>3, <2>2, <2>3, <3>1, <3>3
  <2>4. CASE j # n + 1
    <3>1. j \in 1 .. n /\ stdout'[j] = stdout[j]
      BY <1>2, <2>4
    <3>2. QED
      BY <1>1, <1>8, <2>1, <2>2, <3>1 DEF AnswersInOrder
  <2>5. QED
    BY <2>3, <2>4
<1>9. AnswersInOrder'
  BY <1>2, <1>6, <1>7, <1>8 DEF AnswersInOrder
<1>10. QED
  BY <1>2, <1>9

(* The effects of launches and of what else happened last. *)
LEMMA EffectsLast ==
    ASSUME MaxLocal < RemoteBase, ServicesInv, [ServicesNext]_allVars
    PROVE  /\ Lasts
           /\ IsSeq(launched') /\ DOMAIN inbox' = PaneIds /\ \A id \in PaneIds : IsSeq(inbox'[id])
           /\ queue # <<>> /\ HandleMcpRequests =>
                 response'.code = "ok" /\ \A line : line = Head(queue) => StaysTrue(line, response)'
<1> USE DEF ServicesInv
<1>1. OutputStep /\ [Next]_vars /\ DOMAIN request = PaneIds /\ DOMAIN started = PaneIds /\ TypeOK /\ ServerTypes
  BY EveryOutputStep, OutputStepsPanes DEF IInv, OutputInv, OutputTypes, RepliesInv
<1>2. ASSUME queue # <<>>, HandleMcpRequests
      PROVE  /\ response'.code = "ok" /\ \A line : line = Head(queue) => StaysTrue(line, response)'
             /\ IsSeq(launched') /\ Range(launched) \subseteq Range(launched')
  <2>1. PICK line : line = Head(queue)
    OBVIOUS
  <2>2. Execute(line) /\ \A id \in panes : ~IsPlugin(id)
    BY <1>2, <2>1 DEF HandleMcpRequests, OnlyTheClient
  <2>3. /\ response'.code = "ok" /\ StaysTrue(line, response)'
        /\ IsSeq(launched') /\ Range(launched) \subseteq Range(launched')
    BY <1>1, <2>2, CallTakesEffect DEF OutputInv
  <2>4. QED
    BY <2>1, <2>3
<1>3. IsSeq(launched') /\ Range(launched) \subseteq Range(launched')
  <2>1. CASE launched' = launched
    BY <1>1, <2>1 DEF ServerTypes
  <2>2. launched' = launched \/ (queue # <<>> /\ HandleMcpRequests)
    BY EveryServerStep DEF ServerStep, ReadLine, EndOfInput, Replied, WriteReply, Ends, HeldCallReturns,
       conversationVars
  <2>3. QED
    BY <1>2, <2>1, <2>2
<1>4. /\ DOMAIN inbox' = PaneIds
      /\ \A id \in PaneIds : IsSeq(inbox'[id]) /\ Range(inbox[id]) \subseteq Range(inbox'[id])
  BY <1>1, EveryInboxStep, InboxGrows DEF ServerTypes
<1>5. next_local \in Nat /\ LocalIds \subseteq Nat
  BY <1>1, BoundsAssumption DEF TypeOK, LocalIds
<1>6. next_local' \in Nat
  BY <1>1, BoundsAssumption, IInvStep DEF IInv, TypeOK
<1>7. /\ next_local <= next_local'
      /\ \A id \in PaneIds : HandedOut(id) => HandedOut(id)' /\ request'[id] = request[id]
      /\ \A id \in PaneIds : HandedOut(id) /\ id \notin panes \cup reserved => id \notin (panes \cup reserved)'
  BY <1>1, HandedOutOnce, RequestsStand
<1>8. QED
  BY <1>2, <1>3, <1>4, <1>5, <1>6, <1>7 DEF Lasts

(* The MCP server's part of the invariant is preserved by every step. *)
LEMMA RepliesInvStep ==
    ASSUME MaxLocal < RemoteBase, ServicesInv, [ServicesNext]_allVars
    PROVE  RepliesInv'
<1>1. /\ Lasts
      /\ IsSeq(launched') /\ DOMAIN inbox' = PaneIds /\ \A id \in PaneIds : IsSeq(inbox'[id])
      /\ queue # <<>> /\ HandleMcpRequests =>
            response'.code = "ok" /\ \A line : line = Head(queue) => StaysTrue(line, response)'
  BY EffectsLast
<1>2. ServerTypes /\ RequestInHand /\ AnswersInOrder
  BY DEF ServicesInv, RepliesInv
<1>3. heard \in Nat /\ OwedLines \subseteq 1 .. heard
  BY <1>2 DEF ServerTypes, OwedLines
<1>4. ASSUME UNCHANGED <<conversation, heard>>, server' \in {"reading", "waiting", "writing", "done"},
             held' \in {"none", "read", "write"}, held' # "none" => server' = "done", IsSeq(stdout'), IsSeq(queue')
      PROVE  ServerTypes'
  BY <1>1, <1>2, <1>4 DEF ServerTypes, IsSeq
<1>5. CASE UNCHANGED conversationVars
  <2>1. ServerTypes'
    BY <1>2, <1>4, <1>5 DEF ServerTypes, conversationVars
  <2>2. RequestInHand'
    <3>1. PICK h, said : h = Heard /\ said = response
      OBVIOUS
    <3>2. h = Heard' /\ said = response'
      BY <1>5, <3>1, SameLines DEF conversationVars
    <3>3. StaysTrue(h, said) => StaysTrue(h, said)'
      BY <1>1, ReplyStaysTrue
    <3>4. Fits(h, said) => Fits(h, said)'
      BY <1>1, FitsOn
    <3>5. QED
      BY <1>2, <1>5, <3>1, <3>2, <3>3, <3>4 DEF RequestInHand, conversationVars
  <2>3. AnswersInOrder'
    BY <1>1, <1>2, <1>5, SameLines, AnswersStand DEF conversationVars, AnswersInOrder
  <2>4. QED
    BY <2>1, <2>2, <2>3 DEF RepliesInv
<1>6. CASE EndOfInput \/ (server # "done" /\ Ends)
  <2>1. /\ server' = "done" /\ server # "done" /\ UNCHANGED <<conversation, heard, queue, response, stdout>>
        /\ held' \in {"none", "read", "write"} /\ held = "none" /\ (held' = "write" => server = "writing")
    BY <1>2, <1>6 DEF EndOfInput, StopsListening, Ends, LeftBehind, ServerTypes
  <2>2. ServerTypes'
    BY <1>2, <1>4, <2>1 DEF ServerTypes
  <2>3. RequestInHand'
    <3>1. PICK h, said : h = Heard /\ said = response
      OBVIOUS
    <3>2. h = Heard' /\ said = response'
      BY <2>1, <3>1, SameLines
    <3>3. Fits(h, said) => Fits(h, said)'
      BY <1>1, FitsOn
    <3>4. QED
      BY <1>2, <2>1, <3>1, <3>2, <3>3 DEF RequestInHand, Owed
  <2>4. AnswersInOrder'
    BY <1>1, <1>2, <2>1, SameLines, AnswersStand DEF AnswersInOrder
  <2>5. QED
    BY <2>2, <2>3, <2>4 DEF RepliesInv
<1>7. CASE queue # <<>> /\ HandleMcpRequests
  <2>1. /\ queue' = Tail(queue) /\ UNCHANGED <<conversation, heard, server, stdout, held>>
        /\ server \in {"waiting", "done"} /\ held # "write"
    BY <1>2, <1>7 DEF HandleMcpRequests, RequestInHand, ServerTypes
  <2>2. IsSeq(queue')
    <3>1. queue \in Seq(Range(queue))
      BY <1>2, IsSeqOf DEF ServerTypes
    <3>2. queue' \in Seq(Range(queue))
      BY <1>7, <2>1, <3>1, HeadTailProperties
    <3>3. QED
      BY <3>2, SeqIsSeq
  <2>3. ServerTypes'
    BY <1>2, <1>4, <2>1, <2>2 DEF ServerTypes
  <2>4. RequestInHand'
    <3>1. CASE server = "done"
      BY <2>1, <3>1 DEF RequestInHand
    <3>2. CASE server = "waiting"
      <4>1. PICK h : h = Heard
        OBVIOUS
      <4>2. queue = <<h>> /\ heard > 0 /\ h.kind = "request" /\ IsCall(h)
        BY <1>2, <1>7, <3>2, <4>1 DEF RequestInHand
      <4>3. queue' = <<>> /\ h = Head(queue)
        BY <2>1, <4>2
      <4>4. response'.code = "ok" /\ StaysTrue(h, response)'
        BY <1>1, <1>7, <4>3
      <4>5. h = Heard' /\ server' = "waiting" /\ heard' = heard /\ held' # "write"
        BY <2>1, <3>2, <4>1, SameLines
      <4>6. IsCall(h)'
        BY <4>2 DEF IsCall
      <4>7. QED
        BY <4>2, <4>3, <4>4, <4>5, <4>6 DEF RequestInHand
    <3>3. QED
      BY <2>1, <3>1, <3>2
  <2>5. AnswersInOrder'
    BY <1>1, <1>2, <2>1, SameLines, AnswersStand DEF AnswersInOrder
  <2>6. QED
    BY <2>3, <2>4, <2>5 DEF RepliesInv
<1>8. CASE ReadLine
  <2>1. /\ heard' = heard + 1 /\ conversation' = conversation /\ stdout' = stdout /\ heard' \in 0 .. Len(conversation)
        /\ Answered' = Answered /\ OwedLines' = OwedLines \cup {l \in {heard'} : Owed(conversation[l])}
    BY <1>2, <1>8, OneMoreLine
  <2>2. server = "reading" /\ queue = <<>> /\ response = Nothing /\ held = "none" /\ held' = "none"
    BY <1>2, <1>8 DEF ReadLine, RequestInHand, ServerTypes
  <2>3. PICK line : line = conversation[heard + 1]
    OBVIOUS
  <2>4. line = Heard' /\ line = conversation[heard'] /\ heard' > 0
    BY <1>3, <2>1, <2>3 DEF Heard
  <2>5. \/ /\ queue' = <<>> /\ response' = Nothing /\ server' = "reading" /\ ~Owed(line)
        \/ /\ queue' = <<line>> /\ response' = Nothing /\ server' = "waiting" /\ line.kind = "request" /\ IsCall(line)
        \/ /\ queue' = <<>> /\ server' = "writing" /\ Owed(line) /\ Fits(line, response)'
        \/ /\ queue' = <<>> /\ server' = "done"
    <3>1. \/ line.kind = "blank" /\ NoAnswer
          \/ line.kind = "garbage" /\ Answer("parse error")
          \/ line.kind = "oversized" /\ StopsListening
          \/ line.kind = "request" /\ Dispatch(line)
      BY <1>8, <2>3 DEF ReadLine
    <3>2. CASE line.kind = "blank" /\ NoAnswer
      BY <2>2, <3>2 DEF NoAnswer, Owed
    <3>3. CASE line.kind = "garbage" /\ Answer("parse error")
      BY <2>2, <3>3 DEF Answer, Owed, Fits
    <3>4. CASE line.kind = "oversized" /\ StopsListening
      BY <2>2, <3>4 DEF StopsListening
    <3>5. CASE line.kind = "request" /\ Dispatch(line)
      BY <2>2, <3>5, ReadFits
    <3>6. QED
      BY <3>1, <3>2, <3>3, <3>4, <3>5
  <2>6. IsSeq(queue')
    <3>1. IsSeq(<<>>) /\ IsSeq(<<line>>)
      BY DEF IsSeq
    <3>2. queue' = <<>> \/ queue' = <<line>>
      BY <2>5
    <3>3. QED
      BY <3>1, <3>2
  <2>7. ServerTypes'
    BY <1>1, <1>2, <2>1, <2>2, <2>5, <2>6 DEF ServerTypes, IsSeq
  <2>8. RequestInHand'
    BY <2>2, <2>4, <2>5 DEF RequestInHand, IsCall, Parses, Needs, Owed
  <2>9. \A l \in OwedLines' \ Answered : l = heard' /\ server' # "reading"
    BY <1>2, <2>1, <2>2, <2>4, <2>5 DEF AnswersInOrder
  <2>10. \A l \in OwedLines : l # heard'
    BY <1>3, <2>1
  <2>11. AnswersInOrder'
    BY <1>1, <1>2, <2>1, <2>9, <2>10, AnswersStand
  <2>12. QED
    BY <2>7, <2>8, <2>11 DEF RepliesInv
<1>9. CASE Replied
  <2>1. /\ server = "waiting" /\ response # Nothing /\ UNCHANGED <<conversation, heard, queue, stdout>>
        /\ held = "none" /\ held' = "none"
    BY <1>2, <1>9 DEF Replied, ServerTypes
  <2>2. PICK h, said : h = Heard /\ said = response
    OBVIOUS
  <2>3. heard > 0 /\ h.kind = "request" /\ IsCall(h) /\ queue = <<>> /\ said.code = "ok" /\ StaysTrue(h, said)
    BY <1>2, <2>1, <2>2 DEF RequestInHand
  <2>4. \/ h.id = NoId /\ server' = "reading" /\ response' = Nothing
        \/ h.id # NoId /\ server' = "writing" /\ response' = said
    BY <1>9, <2>2 DEF Replied
  <2>5. h = Heard' /\ OwedLines' = OwedLines /\ Answered' = Answered
    BY <2>1, <2>2, SameLines
  <2>6. ServerTypes'
    BY <1>2, <1>4, <2>1, <2>4 DEF ServerTypes
  <2>7. RequestInHand'
    <3>1. CASE h.id = NoId
      BY <2>1, <2>3, <2>4, <3>1 DEF RequestInHand
    <3>2. CASE h.id # NoId
      <4>1. Fits(h, said)' /\ said = response'
        BY <1>1, <2>3, <2>4, <3>2, ReplyStaysTrue DEF Fits
      <4>2. Owed(h)'
        BY <2>3, <3>2 DEF Owed, IsCall
      <4>3. server' = "writing" /\ queue' = <<>> /\ heard' > 0
        BY <2>1, <2>3, <2>4, <3>2
      <4>4. QED
        BY <2>5, <4>1, <4>2, <4>3 DEF RequestInHand
    <3>3. QED
      BY <3>1, <3>2
  <2>8. h.id = NoId => heard \notin OwedLines
    BY <2>2, <2>3 DEF OwedLines, Owed, Heard
  <2>9. \A l \in OwedLines' \ Answered : l = heard' /\ server' # "reading"
    BY <1>2, <2>1, <2>4, <2>5, <2>8 DEF AnswersInOrder
  <2>10. AnswersInOrder'
    BY <1>1, <1>2, <2>1, <2>5, <2>9, AnswersStand
  <2>11. QED
    BY <2>6, <2>7, <2>10 DEF RepliesInv
<1>10. CASE WriteReply
  <2>1. /\ server = "writing" /\ response' = Nothing /\ UNCHANGED <<conversation, heard, queue>>
        /\ held = "none" /\ held' = "none"
    BY <1>2, <1>10 DEF WriteReply, ServerTypes
  <2>2. queue = <<>> /\ heard > 0 /\ Owed(Heard) /\ Fits(Heard, response)
    BY <1>2, <2>1 DEF RequestInHand
  <2>3. CASE server' = "done" /\ UNCHANGED stdout
    <3>1. ServerTypes'
      BY <1>2, <1>4, <2>1, <2>3 DEF ServerTypes
    <3>2. RequestInHand'
      BY <2>1, <2>3 DEF RequestInHand
    <3>3. AnswersInOrder'
      BY <1>1, <1>2, <2>1, <2>3, SameLines, AnswersStand DEF AnswersInOrder
    <3>4. QED
      BY <3>1, <3>2, <3>3 DEF RepliesInv
  <2>4. CASE stdout' = Append(stdout, [line |-> heard, said |-> response]) /\ server' = "reading"
    <3>1. IsSeq(stdout') /\ AnswersInOrder'
      BY <1>1, <1>2, <2>1, <2>2, <2>4, OneMoreAnswer
    <3>2. ServerTypes'
      BY <1>2, <1>4, <2>1, <2>4, <3>1 DEF ServerTypes
    <3>3. RequestInHand'
      BY <2>1, <2>2, <2>4 DEF RequestInHand
    <3>4. QED
      BY <3>1, <3>2, <3>3 DEF RepliesInv
  <2>5. QED
    BY <1>10, <2>3, <2>4 DEF WriteReply
<1>11. CASE HeldCallReturns
  <2>1. /\ held # "none" /\ held' = "none" /\ server = "done" /\ server' = "done"
        /\ UNCHANGED <<conversation, heard, queue, response>>
    BY <1>2, <1>11 DEF HeldCallReturns, ServerTypes
  <2>2. IsSeq(stdout') /\ AnswersInOrder'
    <3>1. CASE UNCHANGED stdout
      BY <1>1, <1>2, <2>1, <3>1, SameLines, AnswersStand DEF ServerTypes, AnswersInOrder
    <3>2. CASE held = "write" /\ stdout' = Append(stdout, [line |-> heard, said |-> response])
      <4>1. heard > 0 /\ Owed(Heard) /\ Fits(Heard, response)
        BY <1>2, <3>2 DEF RequestInHand
      <4>2. QED
        BY <1>1, <1>2, <2>1, <3>2, <4>1, OneMoreAnswer
    <3>3. QED
      BY <1>11, <3>1, <3>2 DEF HeldCallReturns
  <2>3. ServerTypes'
    BY <1>2, <1>4, <2>1, <2>2 DEF ServerTypes
  <2>4. RequestInHand'
    BY <2>1 DEF RequestInHand
  <2>5. QED
    BY <2>2, <2>3, <2>4 DEF RepliesInv
<1>12. QED
  BY <1>5, <1>6, <1>7, <1>8, <1>9, <1>10, <1>11, EveryServerStep DEF ServerStep

-------------------------------------------------------------------------------
(* The program starts with nothing open, stored rows that are as they were *)
(* saved, and a server that has heard nothing.                             *)
LEMMA ServicesInitInv == ServicesInit => ServicesInv
<1> SUFFICES ASSUME ServicesInit PROVE ServicesInv
  OBVIOUS
<1>1. Init /\ IInv
  BY InitInv DEF ServicesInit, OutputInit
<1>2. reserved \cap sessions = {} /\ panes = {} /\ reserved = {}
  BY <1>1 DEF Init
<1>3. OutputInv
  <2>1. /\ written = [id \in PaneIds |-> 0] /\ tty = [id \in PaneIds |-> <<>>] /\ hand = [id \in PaneIds |-> <<>>]
        /\ reader = [id \in PaneIds |-> "none"] /\ channel = [id \in PaneIds |-> <<>>]
        /\ fed = [id \in PaneIds |-> <<>>] /\ request = [id \in PaneIds |-> NoRequest]
        /\ started = [id \in PaneIds |-> NoRequest] /\ plugins = Registered({}, ScanDir(Libraries))
    BY DEF ServicesInit, OutputInit, PerPane
  <2>2. <<>> \in Seq(Lines) /\ <<>> \in Seq(Seq(Lines))
    OBVIOUS
  <2>3. OutputTypes
    BY <2>1, <2>2 DEF OutputTypes
  <2>4. OpenedOnce
    BY <1>2, <2>1 DEF OpenedOnce
  <2>5. AllHaveScripts
    BY <1>2, <2>1, ScriptAssumption DEF AllHaveScripts, Registered
  <2>6. QED
    BY <1>2, <2>3, <2>4, <2>5 DEF OutputInv
<1>4. launch \in Launches /\ conversation = launch.lines
  BY DEF ServicesInit, ServerInit
<1>5. RestoreInv
  <2>1. stored = launch.stored /\ saving = {} /\ clock = 1 /\ todo = <<>> /\ restored = NotRestored
    BY DEF ServicesInit, StoreInit
  <2>2. RowsTell
    BY <1>4, <2>1, LaunchesAssumption DEF RowsTell
  <2>3. RequestsTell
    <3>1. next_local = 1 /\ next_remote = RemoteBase
      BY <1>1 DEF Init
    <3>2. \A id \in PaneIds : ~HandedOut(id)
      BY <3>1, BoundsAssumption, BaseAssumption DEF HandedOut, LocalIds, RemoteIds
    <3>3. QED
      BY <3>2 DEF RequestsTell
  <2>4. QED
    BY <2>1, <2>2, <2>3 DEF RestoreInv, RestoreTells
<1>6. OnlyTheClient
  <2>1. phase = Tick[1] /\ 1 \in 1 .. Len(Tick)
    BY DEF ServicesInit, Tick
  <2>2. typed = 0 /\ phase # "keyboard" /\ todo = <<>>
    BY DEF ServicesInit, StoreInit
  <2>3. server = "reading" /\ heard = 0 /\ queue = <<>> /\ response = Nothing /\ stdout = <<>> /\ held = "none"
    BY DEF ServicesInit, ServerInit
  <2>4. QED
    BY <1>2, <1>4, <2>1, <2>2, <2>3 DEF OnlyTheClient
<1>7. RepliesInv
  <2>1. /\ server = "reading" /\ heard = 0 /\ queue = <<>> /\ response = Nothing /\ stdout = <<>> /\ launched = <<>>
        /\ held = "none"
    BY DEF ServicesInit, ServerInit
  <2>2. Len(conversation) \in Nat
    BY <1>4, LaunchesAssumption
  <2>3. IsSeq(<<>>)
    BY DEF IsSeq
  <2>4. inbox = [id \in PaneIds |-> <<>>]
    BY DEF ServicesInit, OutputInit, PerPane
  <2>5. ServerTypes
    BY <2>1, <2>2, <2>3, <2>4 DEF ServerTypes
  <2>6. RequestInHand
    BY <2>1 DEF RequestInHand
  <2>7. AnswersInOrder
    BY <2>1 DEF AnswersInOrder, OwedLines
  <2>8. QED
    BY <2>5, <2>6, <2>7 DEF RepliesInv
<1>8. IsSeq(web_input)
  BY DEF ServicesInit, WebInit, IsSeq
<1>9. QED
  BY <1>1, <1>2, <1>3, <1>5, <1>6, <1>7, <1>8 DEF ServicesInv

(* And so is the whole. *)
LEMMA ServicesInvStep ==
    ASSUME MaxLocal < RemoteBase, ServicesInv, [ServicesNext]_allVars
    PROVE  ServicesInv'
<1> USE DEF ServicesInv
<1>1. launch \in Launches /\ OutputStep /\ [Next]_vars
  BY EveryOutputStep, OutputStepsPanes DEF IInv, OnlyTheClient
<1>2. IInv' /\ (reserved \cap sessions)' = {}
  BY <1>1, IInvStep, HandedOutOnce
<1>3. OutputInv'
  BY <1>1, OutputInvStep
<1>4. pane_order \in Seq(PaneIds)
  BY DEF IInv, TypeOK
<1>5. RequestsTell' /\ RowsTell' /\ RestoreTells'
  <2>1. \A i \in 1 .. Len(pane_order) : HandedOut(pane_order[i])
    <3>1. \A i \in 1 .. Len(pane_order) : pane_order[i] \in panes
      BY <1>4 DEF IInv, OrderMatchesPanes, Range
    <3>2. QED
      BY <1>1, <3>1, HandedOutOnce
  <2>2. QED
    BY <1>1, <1>4, <2>1, EveryStoreStep, RequestsTellStep, RowsTellStep, RestoreTellsStep
       DEF RestoreInv, OutputInv, OutputTypes
<1>6. OnlyTheClient'
  BY OnlyTheClientStep
<1>7. RepliesInv'
  BY RepliesInvStep
<1>8. IsSeq(web_input)'
  BY KeysStep
<1>9. QED
  BY <1>2, <1>3, <1>5, <1>6, <1>7, <1>8 DEF RestoreInv

-------------------------------------------------------------------------------
(* The inductive invariant of the whole program holds in every reachable   *)
(* state: the panes', the output's, the database's and the MCP server's    *)
(* parts rest on one another.                                              *)
THEOREM ServicesInvariance == MaxLocal < RemoteBase => (ServicesSpec => []ServicesInv)
<1> SUFFICES ASSUME MaxLocal < RemoteBase PROVE ServicesSpec => []ServicesInv
  OBVIOUS
<1>1. ServicesInit => ServicesInv
  BY ServicesInitInv
<1>2. ServicesInv /\ [ServicesNext]_allVars => ServicesInv'
  BY ServicesInvStep
<1>3. QED
  BY <1>1, <1>2, PTL DEF ServicesSpec

(* Whatever the services do beside it, and in every phase of a tick, what  *)
(* happens to the panes is what PaneManager specifies, so that its         *)
(* theorems hold of the program (main.rs:439, app.rs:217).                 *)
THEOREM ImplementsPanes == MaxLocal < RemoteBase => (ServicesSpec => Spec)
<1> SUFFICES ASSUME MaxLocal < RemoteBase PROVE ServicesSpec => Spec
  OBVIOUS
<1>1. ServicesInit => Init
  BY DEF ServicesInit, OutputInit
<1>2. ServicesInv /\ [ServicesNext]_allVars => [Next]_vars
  BY EveryOutputStep, OutputStepsPanes DEF ServicesInv, IInv
<1>3. ServicesSpec => []ServicesInv
  BY ServicesInvariance
<1>4. QED
  BY <1>1, <1>2, <1>3, PTL DEF ServicesSpec, Spec

(* An open pane shows a prefix of what its harness wrote, through reader   *)
(* thread, bounded channel and drain, for every script, channel capacity   *)
(* and chunking (async_reader.rs:37, app.rs:505).                          *)
THEOREM OutputKeepsOrder == MaxLocal < RemoteBase => (ServicesSpec => []OutputInOrder)
<1> SUFFICES ASSUME MaxLocal < RemoteBase PROVE ServicesSpec => []OutputInOrder
  OBVIOUS
<1>1. ServicesInv => OutputInOrder
  <2> SUFFICES ASSUME ServicesInv, NEW id \in panes
               PROVE  fed[id] = SubSeq(Script[request[id].harness], 1, Len(fed[id]))
    BY DEF OutputInOrder
  <2> DEFINE s == Script[request[id].harness]
  <2>1. id \in PaneIds /\ OutputTypes /\ OpenedOnce /\ AllHaveScripts /\ InTransit(id)
    BY DEF ServicesInv, IInv, TypeOK, OutputInv
  <2>2. s \in Seq(Lines)
    BY <2>1, ScriptsAreLines DEF OpenedOnce, AllHaveScripts
  <2>3. /\ fed[id] \in Seq(Lines) /\ channel[id] \in Seq(Seq(Lines)) /\ hand[id] \in Seq(Lines)
        /\ tty[id] \in Seq(Lines) /\ written[id] \in Nat
    BY <2>1 DEF OutputTypes
  <2>4. Conserved(fed[id], channel[id], hand[id], tty[id], s, written[id])
    BY <2>1 DEF InTransit
  <2> HIDE DEF s
  <2>5. fed[id] = SubSeq(s, 1, Len(fed[id]))
    BY <2>2, <2>3, <2>4, Moving
  <2>6. QED
    BY <2>5 DEF s
<1>2. QED
  BY <1>1, ServicesInvariance, PTL

(* A restore takes a row no older than any save of that name given before  *)
(* the second it was written in, in whatever order save tasks end; and the *)
(* panes it opens are those the row's panes were first asked for, though   *)
(* they were asked for with other entries in config.toml and in another    *)
(* directory (main.rs:1007, app.rs:217).                                   *)
THEOREM RestoresFaithful == MaxLocal < RemoteBase => (ServicesSpec => []RestoresAreFaithful)
<1> SUFFICES ASSUME MaxLocal < RemoteBase PROVE ServicesSpec => []RestoresAreFaithful
  OBVIOUS
<1>1. ServicesInv => RestoresAreFaithful
  BY DEF ServicesInv, RestoreInv, RestoreTells, RestoresAreFaithful
<1>2. QED
  BY <1>1, ServicesInvariance, PTL

(* The MCP server answers every request once, in order, truthfully, and no *)
(* notification, for every conversation (hom-mcp handler.rs, server.rs,    *)
(* app.rs:878, execute_mcp_command).                                       *)
THEOREM RepliesAlwaysMatch == MaxLocal < RemoteBase => (ServicesSpec => []RepliesMatch)
<1> SUFFICES ASSUME MaxLocal < RemoteBase PROVE ServicesSpec => []RepliesMatch
  OBVIOUS
<1>1. ServicesInv => RepliesMatch
  <2> SUFFICES ASSUME ServicesInv PROVE RepliesMatch
    OBVIOUS
  <2>1. AnswersInOrder
    BY DEF ServicesInv, RepliesInv
  <2>2. Answered \subseteq OwedLines /\ OwedLines \ Answered \subseteq {heard}
    BY <2>1 DEF AnswersInOrder, Answered
  <2>3. ASSUME NEW line, NEW said, Fits(line, said), line.kind = "request"
        PROVE  Truthful(line, said) /\ (AsAdvertised(line) => said.code = "ok")
    BY <2>3 DEF Fits, StaysTrue, Truthful
  <2>4. \A i \in 1 .. Len(stdout) :
           conversation[stdout[i].line].kind = "request" =>
              /\ Truthful(conversation[stdout[i].line], stdout[i].said)
              /\ AsAdvertised(conversation[stdout[i].line]) => stdout[i].said.code = "ok"
    BY <2>1, <2>3 DEF AnswersInOrder
  <2>5. QED
    BY <2>1, <2>2, <2>4 DEF AnswersInOrder, RepliesMatch
<1>2. QED
  BY <1>1, ServicesInvariance, PTL

(* With --mcp the panes are the client's alone: nothing is typed, restored *)
(* or connected to, and no pane is a plugin's (main.rs:387).               *)
THEOREM OnlyTheClientOpens == MaxLocal < RemoteBase => (ServicesSpec => []OnlyTheClient)
<1>1. ServicesInv => OnlyTheClient
  BY DEF ServicesInv
<1>2. QED
  BY <1>1, ServicesInvariance, PTL
===============================================================================
