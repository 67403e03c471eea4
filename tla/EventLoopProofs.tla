---------------------------- MODULE EventLoopProofs ----------------------------
(***************************************************************************)
(* Proofs about EventLoop, for any number of steps, panes and rounds; where *)
(* ids matter, for local ids that stay below RemoteBase.  The panes' part  *)
(* of the argument is PaneManagerProofs'.                                  *)
(***************************************************************************)
EXTENDS EventLoop, TLAPS

PaneProofs == INSTANCE PaneManagerProofs

(* The panes of the loop and the panes of the proofs are the same system.  *)
LEMMA SameStep == /\ Panes!Init <=> PaneProofs!Init
                  /\ [Panes!Next]_(Panes!vars) <=> [PaneProofs!Next]_(PaneProofs!vars)
BY DEF
       Panes!Range, Panes!Cardinality, Panes!LocalIds, Panes!RemoteIds, Panes!PaneIds,
       Panes!NoPane, Panes!localVars, Panes!remoteVars, Panes!viewVars, Panes!vars,
       Panes!PositionIn, Panes!Without, Panes!Full, Panes!Register, Panes!OpenPty,
       Panes!SpawnPane, Panes!SpawnFails, Panes!PrepareRemote, Panes!ReleaseSlot,
       Panes!CompleteRemote, Panes!RemoteSpawnFailed, Panes!Refocus, Panes!Reaped, Panes!KillPane,
       Panes!KillFails, Panes!FocusPane, Panes!Current, Panes!FocusNext,
       Panes!FocusPrev, Panes!ToCommandBar, Panes!NewlyExited, Panes!HandleExited,
       Panes!ProcessExits, Panes!Shutdown, Panes!Next, Panes!Init, PaneProofs!Range,
       PaneProofs!Cardinality, PaneProofs!LocalIds, PaneProofs!RemoteIds,
       PaneProofs!PaneIds, PaneProofs!NoPane, PaneProofs!localVars,
       PaneProofs!remoteVars, PaneProofs!viewVars, PaneProofs!vars,
       PaneProofs!PositionIn, PaneProofs!Without, PaneProofs!Full, PaneProofs!Register,
       PaneProofs!OpenPty, PaneProofs!SpawnPane, PaneProofs!SpawnFails,
       PaneProofs!PrepareRemote, PaneProofs!ReleaseSlot, PaneProofs!CompleteRemote,
       PaneProofs!RemoteSpawnFailed, PaneProofs!Refocus, PaneProofs!Reaped, PaneProofs!KillPane,
       PaneProofs!KillFails, PaneProofs!FocusPane, PaneProofs!Current,
       PaneProofs!FocusNext, PaneProofs!FocusPrev, PaneProofs!ToCommandBar,
       PaneProofs!NewlyExited, PaneProofs!HandleExited, PaneProofs!ProcessExits,
       PaneProofs!Shutdown, PaneProofs!Next, PaneProofs!Init

(* ... with the same inductive invariant. *)
LEMMA SameInvariant == Panes!IInv <=> PaneProofs!IInv
BY DEF
       Panes!Range, Panes!Cardinality, Panes!LocalIds, Panes!RemoteIds, Panes!PaneIds,
       Panes!NoPane, Panes!TypeOK, Panes!IdsInOrder, Panes!CapacityRespected,
       Panes!SlotsAccounted, Panes!OrderMatchesPanes, Panes!FocusIsLive,
       Panes!KeysReachFocus, Panes!IInv, PaneProofs!Range, PaneProofs!Cardinality,
       PaneProofs!LocalIds, PaneProofs!RemoteIds, PaneProofs!PaneIds, PaneProofs!NoPane,
       PaneProofs!TypeOK, PaneProofs!IdsInOrder, PaneProofs!CapacityRespected,
       PaneProofs!SlotsAccounted, PaneProofs!OrderMatchesPanes, PaneProofs!FocusIsLive,
       PaneProofs!KeysReachFocus, PaneProofs!IInv

(* The panes' invariant holds when the loop starts. *)
LEMMA PanesInit == Panes!Init => Panes!IInv
BY PaneProofs!InitInv, SameStep, SameInvariant, PanesAssumption

(* The invariant of the panes survives each of their steps. *)
LEMMA PanesInvStep ==
    ASSUME MaxLocal < RemoteBase, Panes!IInv, [Panes!Next]_(Panes!vars)
    PROVE  Panes!IInv'
<1>1. PaneProofs!IInv /\ [PaneProofs!Next]_(PaneProofs!vars)
  BY SameStep, SameInvariant
<1>2. PaneProofs!IInv'
  BY <1>1, PaneProofs!IInvStep, PanesAssumption
<1>3. (Panes!IInv <=> PaneProofs!IInv)'
  BY SameInvariant, PTL
<1>4. QED
  BY <1>2, <1>3

-------------------------------------------------------------------------------
(* Queues whose elements are all different. *)

(* What a queue holds after a send ... *)
LEMMA QueuePut ==
    ASSUME NEW T, NEW seq \in Seq(T), NEW x \in T
    PROVE  /\ Append(seq, x) \in Seq(T)
           /\ Len(Append(seq, x)) = Len(seq) + 1
           /\ Range(Append(seq, x)) = Range(seq) \cup {x}
           /\ \A i \in 1 .. Len(seq) : Append(seq, x)[i] = seq[i]
           /\ Append(seq, x)[Len(seq) + 1] = x
<1> DEFINE a == Append(seq, x)
<1>1. /\ a \in Seq(T) /\ Len(a) = Len(seq) + 1 /\ DOMAIN a = 1 .. Len(seq) + 1
      /\ \A i \in 1 .. Len(seq) : a[i] = seq[i]
      /\ a[Len(seq) + 1] = x
      /\ Len(seq) \in Nat /\ DOMAIN seq = 1 .. Len(seq)
  OBVIOUS
<1> HIDE DEF a
<1>2. \A i \in DOMAIN a : i \in DOMAIN seq \/ i = Len(seq) + 1
  BY <1>1
<1>3. DOMAIN seq \subseteq DOMAIN a /\ Len(seq) + 1 \in DOMAIN a
  BY <1>1
<1>4. Range(a) = Range(seq) \cup {x}
  BY <1>1, <1>2, <1>3 DEF Range
<1>5. QED
  BY <1>1, <1>4 DEF a

(* ... and after a receive ... *)
LEMMA QueueTake ==
    ASSUME NEW T, NEW seq \in Seq(T), seq # <<>>
    PROVE  /\ Head(seq) \in T /\ Tail(seq) \in Seq(T)
           /\ Head(seq) = seq[1] /\ 1 \in 1 .. Len(seq)
           /\ Len(seq) \in Nat /\ Len(Tail(seq)) = Len(seq) - 1
           /\ \A i \in 1 .. Len(Tail(seq)) : i + 1 \in 2 .. Len(seq) /\ Tail(seq)[i] = seq[i + 1]
OBVIOUS

(* ... which takes the received element out, if it occurs once. *)
LEMMA QueueTakeDistinct ==
    ASSUME NEW T, NEW seq \in Seq(T), seq # <<>>,
           \A i, j \in 1 .. Len(seq) : seq[i] = seq[j] => i = j
    PROVE  /\ Head(seq) \in Range(seq)
           /\ Range(Tail(seq)) = Range(seq) \ {Head(seq)}
           /\ \A i, j \in 1 .. Len(Tail(seq)) : Tail(seq)[i] = Tail(seq)[j] => i = j
<1> DEFINE t == Tail(seq)
<1>1. /\ Head(seq) = seq[1] /\ 1 \in 1 .. Len(seq) /\ DOMAIN seq = 1 .. Len(seq)
      /\ t \in Seq(T) /\ Len(seq) \in Nat /\ Len(t) = Len(seq) - 1 /\ DOMAIN t = 1 .. Len(t)
      /\ \A i \in 1 .. Len(t) : i + 1 \in 2 .. Len(seq) /\ t[i] = seq[i + 1]
  BY QueueTake
<1> HIDE DEF t
<1>2. \A i, j \in 1 .. Len(t) : t[i] = t[j] => i = j
  BY <1>1
<1>3. ASSUME NEW i \in DOMAIN t PROVE t[i] \in Range(seq) \ {seq[1]}
  <2>1. t[i] = seq[i + 1] /\ i + 1 \in DOMAIN seq /\ i + 1 # 1
    BY <1>1, <1>3
  <2>2. QED
    BY <1>1, <2>1 DEF Range
<1>4. ASSUME NEW i \in DOMAIN seq, i # 1 PROVE seq[i] \in Range(t)
  <2>1. i - 1 \in DOMAIN t /\ t[i - 1] = seq[i]
    BY <1>1, <1>4
  <2>2. QED
    BY <2>1 DEF Range
<1>5. Range(t) = Range(seq) \ {seq[1]}
  BY <1>3, <1>4 DEF Range
<1>6. seq[1] \in Range(seq)
  BY <1>1 DEF Range
<1>7. QED
  BY <1>1, <1>2, <1>5, <1>6 DEF t

-------------------------------------------------------------------------------
(* What a reply does to the clients. *)

ClientType == [stage : Stages, asked : BOOLEAN, pane : Panes!PaneIds \cup {NoPane},
               rounds : 0 .. MaxRounds, gone : BOOLEAN]

ClientsOK == /\ client \in [Clients -> ClientType]
             /\ \A c \in Clients : client[c].stage = "spawn" <=> client[c].pane = NoPane
             /\ \A c \in Clients : client[c].asked => client[c].rounds > 0

Asked == {c \in Clients : client[c].asked}

(* Ids are positive: NoPane is none of them. *)
LEMMA NoPaneIsNoId == NoPane \notin Panes!PaneIds
BY PanesAssumption DEF NoPane, Panes!NoPane, Panes!PaneIds, Panes!LocalIds, Panes!RemoteIds

(* Asking and being answered leave what else is known of a client. *)
LEMMA AskedMarked ==
    ASSUME NEW r \in ClientType, NEW b \in BOOLEAN, NEW x, x = [r EXCEPT !.asked = b]
    PROVE  /\ x \in ClientType /\ x.asked = b
           /\ x.pane = r.pane /\ x.stage = r.stage /\ x.rounds = r.rounds
BY DEF ClientType

(* The same of giving up. *)
LEMMA GoneMarked ==
    ASSUME NEW r \in ClientType, NEW x, x = [r EXCEPT !.gone = TRUE]
    PROVE  /\ x \in ClientType /\ x.asked = r.asked
           /\ x.pane = r.pane /\ x.stage = r.stage /\ x.rounds = r.rounds
BY DEF ClientType

(* A reply leaves a client that gave up as it is, or lets it go on. *)
LEMMA RepliedMarked ==
    ASSUME NEW r \in ClientType, NEW next \in ClientType, NEW x, x = Replied(r, next)
    PROVE  /\ x \in ClientType /\ ~x.asked
           /\ \/ x.pane = r.pane /\ x.stage = r.stage
              \/ x.pane = next.pane /\ x.stage = next.stage
<1>1. CASE r.gone
  <2>1. x = [r EXCEPT !.asked = FALSE]
    BY <1>1 DEF Replied
  <2>2. QED
    BY <2>1, AskedMarked
<1>2. CASE ~r.gone
  <2>1. x = [next EXCEPT !.asked = FALSE]
    BY <1>2 DEF Replied
  <2>2. QED
    BY <2>1, AskedMarked
<1>3. QED
  BY <1>1, <1>2

(* A prompt's answer lets the client go on to its kill. *)
LEMMA AfterSent ==
    ASSUME ClientsOK, NEW S \in SUBSET Clients, \A c \in S : client[c].stage = "send",
           ReplySent(S)
    PROVE  /\ ClientsOK'
           /\ Asked' = Asked \ S
           /\ \A c \in Clients : client'[c].pane = client[c].pane
           /\ \A c \in Clients \ S : client'[c] = client[c]
<1>1. ASSUME NEW c \in S
      PROVE  /\ client'[c] \in ClientType /\ ~client'[c].asked
             /\ client'[c].stage # "spawn" /\ client'[c].pane = client[c].pane
  BY <1>1 DEF ReplySent, Replied, ClientsOK, ClientType, Stages
<1>2. \A c \in Clients \ S : client'[c] = client[c]
  BY DEF ReplySent
<1>3. client' \in [Clients -> ClientType]
  BY <1>1, <1>2 DEF ReplySent, ClientsOK
<1>4. QED
  BY <1>1, <1>2, <1>3 DEF ClientsOK, Asked

(* A reply that opens or ends a round, to a client whose call is open. *)
LEMMA AfterRound ==
    ASSUME ClientsOK, NEW c \in Clients, client[c].asked, NEW id,
           (id \in Panes!PaneIds /\ ReplySpawned(c, id)) \/ ReplyOver(c)
    PROVE  /\ ClientsOK'
           /\ Asked' = Asked \ {c}
           /\ client'[c].pane \in {client[c].pane, id, NoPane}
           /\ \A d \in Clients \ {c} : client'[d] = client[d]
<1>1. /\ client[c] \in ClientType /\ client[c].rounds > 0
      /\ client[c].stage = "spawn" <=> client[c].pane = NoPane
  BY DEF ClientsOK
<1>2. CASE id \in Panes!PaneIds /\ ReplySpawned(c, id)
  <2>1. /\ client' = [client EXCEPT ![c] = client'[c]]
        /\ client'[c] = Replied(client[c], [client[c] EXCEPT !.stage = "send", !.pane = id])
    BY <1>2 DEF ReplySpawned, ClientsOK
  <2>2. /\ client'[c] \in ClientType /\ ~client'[c].asked
        /\ client'[c].stage = "spawn" <=> client'[c].pane = NoPane
        /\ client'[c].pane \in {client[c].pane, id}
    <3>1. PICK sent : sent = [client[c] EXCEPT !.stage = "send", !.pane = id]
      OBVIOUS
    <3>2. sent \in ClientType /\ sent.stage = "send" /\ sent.pane = id
      BY <1>1, <1>2, <3>1 DEF ClientType, Stages
    <3>3. client'[c] = Replied(client[c], sent)
      BY <2>1, <3>1
    <3>4. /\ client'[c] \in ClientType /\ ~client'[c].asked
          /\ \/ client'[c].pane = client[c].pane /\ client'[c].stage = client[c].stage
             \/ client'[c].pane = id /\ client'[c].stage = "send"
      <4>1. PICK r, x : r = client[c] /\ x = client'[c]
        OBVIOUS
      <4>2. r \in ClientType /\ sent \in ClientType /\ x = Replied(r, sent)
        BY <1>1, <3>2, <3>3, <4>1
      <4>3. /\ x \in ClientType /\ ~x.asked
            /\ \/ x.pane = r.pane /\ x.stage = r.stage
               \/ x.pane = sent.pane /\ x.stage = sent.stage
        BY <4>2, RepliedMarked
      <4>4. QED
        BY <3>2, <4>1, <4>3
    <3>5. id # NoPane
      BY <1>2, NoPaneIsNoId
    <3>6. QED
      BY <1>1, <3>4, <3>5
  <2>3. QED
    BY <2>1, <2>2 DEF ClientsOK, Asked
<1>3. CASE ReplyOver(c)
  <2>1. /\ client' = [client EXCEPT ![c] = client'[c]]
        /\ client'[c] = Replied(client[c], EndOfRound(client[c]))
    BY <1>3 DEF ReplyOver, ClientsOK
  <2>2. client[c].rounds - 1 \in 0 .. MaxRounds
    BY <1>1, RoundsAssumption DEF ClientType
  <2>3. /\ client'[c] \in ClientType /\ ~client'[c].asked
        /\ client'[c].stage = "spawn" <=> client'[c].pane = NoPane
        /\ client'[c].pane \in {client[c].pane, NoPane}
    BY <1>1, <2>1, <2>2 DEF Replied, EndOfRound, ClientType, Stages
  <2>4. QED
    BY <2>1, <2>3 DEF ClientsOK, Asked
<1>4. QED
  BY <1>2, <1>3

-------------------------------------------------------------------------------
(* The panes, as the loop drives them. *)

PanesUnchanged == UNCHANGED Panes!vars

(* Kills of a known id, by a key, a command or an MCP client. *)
LEMMA KillIsPaneStep ==
    ASSUME NEW id \in Panes!PaneIds, Kill(id) PROVE Panes!Next
BY DEF Kill, Panes!Next

(* Keys, clicks and typed commands. *)
LEMMA CommandIsPaneStep ==
    ASSUME Panes!TypeOK, TypedCommand \/ KeyOrClick PROVE Panes!Next
<1>1. /\ panes \subseteq Panes!PaneIds
      /\ mode \in Panes!PaneIds \cup {NoPane}
  BY DEF Panes!TypeOK, NoPane
<1>2. ASSUME TypedCommand PROVE Panes!Next
  BY <1>1, <1>2, KillIsPaneStep DEF TypedCommand, Panes!Next
<1>3. CASE KeyOrClick
  <2>1. ASSUME NEW id \in panes, Panes!FocusPane(id) PROVE Panes!Next
    BY <1>1, <2>1 DEF Panes!Next
  <2>2. ASSUME mode # NoPane, Kill(mode) PROVE Panes!Next
    BY <1>1, <2>2, KillIsPaneStep
  <2>3. ASSUME Panes!FocusNext \/ Panes!FocusPrev \/ Panes!ToCommandBar PROVE Panes!Next
    BY <2>3 DEF Panes!Next
  <2>4. QED
    BY <1>2, <1>3, <2>1, <2>2, <2>3 DEF KeyOrClick
<1>4. QED
  BY <1>2, <1>3

(* Every step of the loop is one of the panes, or leaves them alone. *)
LEMMA PanesStep ==
    ASSUME TypeOK, [Next]_vars
    PROVE  [Panes!Next]_(Panes!vars)
<1>1. UNCHANGED paneVars => PanesUnchanged
  BY DEF paneVars, PanesUnchanged, Panes!vars, Panes!viewVars, Panes!localVars, Panes!remoteVars
<1>2. CASE DrainCompletion
  <2>1. Head(completions) \in [id : Panes!RemoteIds, ok : BOOLEAN]
    BY <1>2, QueueTake DEF DrainCompletion, TypeOK
  <2>2. Head(completions).id \in Panes!PaneIds
    BY <2>1 DEF Panes!PaneIds
  <2>3. QED
    BY <1>2, <2>2 DEF DrainCompletion, Panes!Next
<1>3. CASE HandleRequest
  <2> DEFINE c == Head(requests)
  <2>1. c \in Clients
    BY <1>3, QueueTake DEF HandleRequest, TypeOK
  <2>2. client[c].stage = "kill" => client[c].pane \in Panes!PaneIds
    <3>1. /\ client[c].pane \in Panes!PaneIds \cup {NoPane}
          /\ client[c].stage = "spawn" <=> client[c].pane = NoPane
      BY <2>1 DEF TypeOK
    <3>2. QED
      BY <3>1
  <2>3. ASSUME HandleSpawn(c) PROVE Panes!Next
    BY <2>3 DEF HandleSpawn, Panes!Next
  <2>4. ASSUME HandleSend(c) PROVE PanesUnchanged
    BY <1>1, <2>4 DEF HandleSend
  <2>5. ASSUME client[c].stage = "kill", HandleKill(c) PROVE Panes!Next
    BY <2>2, <2>5, KillIsPaneStep DEF HandleKill, Kill
  <2>6. QED
    BY <1>3, <2>3, <2>4, <2>5 DEF HandleRequest, PanesUnchanged
<1>4. CASE McpCommand \/ RestorePane
  BY <1>4, KillIsPaneStep DEF McpCommand, RestorePane, Panes!Next
<1>5. CASE Input
  <2>1. Panes!TypeOK
    BY DEF TypeOK
  <2>2. QED
    BY <1>1, <1>5, <2>1, CommandIsPaneStep DEF Input, PanesUnchanged
<1>6. CASE ExitsHandled \/ Stop
  BY <1>6 DEF ExitsHandled, Stop, Panes!Next
<1>7. CASE DrainDone \/ RequestsDone \/ McpDone \/ Quit \/ BeginRestore \/ RestoreDone
           \/ PollPending
  BY <1>1, <1>7 DEF DrainDone, RequestsDone, McpDone, Quit, BeginRestore, RestoreDone,
                    PollPending, PanesUnchanged
<1>8. ASSUME NEW c \in Clients, Ask(c) \/ Abandon(c) \/ TimesOut(c) \/ SidebandReplies(c)
      PROVE  PanesUnchanged
  BY <1>1, <1>8 DEF Ask, Abandon, TimesOut, SidebandReplies
<1>9. ASSUME NEW id \in Panes!PaneIds, Connected(id) PROVE PanesUnchanged
  BY <1>1, <1>9 DEF Connected
<1>10. ASSUME NEW id \in Panes!PaneIds, ProcessExits(id) PROVE Panes!Next
  BY <1>10 DEF ProcessExits, Panes!Next
<1>11. ASSUME UNCHANGED vars PROVE PanesUnchanged
  BY <1>1, <1>11 DEF vars
<1>12. CASE Tick
  BY <1>2, <1>3, <1>4, <1>5, <1>6, <1>7, <1>12 DEF Tick
<1>13. QED
  BY <1>8, <1>9, <1>10, <1>11, <1>12 DEF Next, Stopped, PanesUnchanged

(* PtyManager hands out local ids one by one (manager.rs:92). *)
LEMMA NextLocalGrows ==
    ASSUME [Panes!Next]_(Panes!vars)
    PROVE  next_local' \in {next_local, next_local + 1}
<1>1. CASE Panes!SpawnPane \/ Panes!SpawnFails
  BY <1>1 DEF Panes!SpawnPane, Panes!SpawnFails, Panes!OpenPty, Panes!localVars
<1>2. CASE Panes!PrepareRemote \/ Panes!ToCommandBar \/ Panes!HandleExited \/ Panes!Shutdown
  BY <1>2 DEF Panes!PrepareRemote, Panes!ToCommandBar, Panes!HandleExited, Panes!Shutdown,
              Panes!localVars
<1>3. ASSUME NEW id, Panes!FocusPane(id) PROVE next_local' = next_local
  BY <1>3 DEF Panes!FocusPane, Panes!localVars
<1>4. CASE Panes!FocusNext \/ Panes!FocusPrev
  BY <1>3, <1>4 DEF Panes!FocusNext, Panes!FocusPrev
<1>5. ASSUME NEW id \in Panes!PaneIds,
             Panes!CompleteRemote(id) \/ Panes!RemoteSpawnFailed(id) \/ Panes!KillPane(id)
             \/ Panes!KillFails(id) \/ Panes!ProcessExits(id)
      PROVE  next_local' = next_local
  BY <1>5 DEF Panes!CompleteRemote, Panes!RemoteSpawnFailed, Panes!KillPane, Panes!KillFails,
              Panes!ProcessExits, Panes!localVars
<1>6. CASE UNCHANGED Panes!vars
  BY <1>6 DEF Panes!vars, Panes!localVars
<1>7. QED
  BY <1>1, <1>2, <1>3, <1>4, <1>5, <1>6 DEF Panes!Next

-------------------------------------------------------------------------------
(* Calls and who owns which pane. *)

CallsInv == /\ ClientsOK
            /\ requests \in Seq(Clients)
            /\ pending \subseteq Clients /\ late \subseteq pending /\ direct \subseteq Clients
            /\ CallsTracked
            /\ \A c \in pending \cup direct : client[c].stage = "send"
            /\ OwnersInOrder
            /\ OwnersDistinct

(* The part of the invariant that is about calls. *)
LEMMA CallsInvHolds == IInv => CallsInv /\ next_local \in Nat
<1> SUFFICES ASSUME IInv PROVE CallsInv /\ next_local \in Nat
  OBVIOUS
<1>1. ClientsOK
  BY DEF IInv, TypeOK, CallStages, ClientsOK, ClientType
<1>2. next_local \in Nat
  BY PanesAssumption DEF IInv, TypeOK, Panes!TypeOK
<1>3. QED
  BY <1>1, <1>2 DEF IInv, TypeOK, CallStages, CallsInv

(* Who owns which pane does not change, or a step gives its pane up. *)
LEMMA OwnersKept ==
    ASSUME OwnersInOrder, OwnersDistinct, next_local \in Nat,
           next_local' \in {next_local, next_local + 1},
           \A c \in Clients : client'[c].pane \in {client[c].pane, NoPane}
    PROVE  OwnersInOrder' /\ OwnersDistinct'
<1>1. \A c \in Clients : client'[c].pane = NoPane \/ client'[c].pane \in 1 .. next_local' - 1
  BY DEF OwnersInOrder
<1>2. \A c, d \in Clients : c # d /\ client'[c].pane = client'[d].pane => client'[c].pane = NoPane
  BY DEF OwnersDistinct
<1>3. NoPane' = NoPane
  BY DEF NoPane, Panes!NoPane
<1>4. QED
  BY <1>1, <1>2, <1>3 DEF OwnersInOrder, OwnersDistinct

(* A step that gets the id just handed out shares it with no other. *)
LEMMA OwnersGrow ==
    ASSUME OwnersInOrder, OwnersDistinct, next_local \in Nat \ {0}, next_local' = next_local + 1,
           NEW c \in Clients, client'[c].pane \in {client[c].pane, next_local, NoPane},
           \A d \in Clients \ {c} : client'[d] = client[d]
    PROVE  OwnersInOrder' /\ OwnersDistinct'
<1>1. \A d \in Clients : client[d].pane # next_local \/ client[d].pane = NoPane
  BY DEF OwnersInOrder
<1>2. \A d \in Clients : client'[d].pane = NoPane \/ client'[d].pane \in 1 .. next_local' - 1
  BY DEF OwnersInOrder
<1>3. next_local # NoPane
  BY DEF NoPane, Panes!NoPane
<1>4. \A d, e \in Clients : d # e /\ client'[d].pane = client'[e].pane => client'[d].pane = NoPane
  BY <1>1, <1>3 DEF OwnersDistinct
<1>5. NoPane' = NoPane
  BY DEF NoPane, Panes!NoPane
<1>6. QED
  BY <1>2, <1>4, <1>5 DEF OwnersInOrder, OwnersDistinct

(* Calls that wait in pending_completions or in a sideband task are        *)
(* answered and no longer wait there.                                      *)
LEMMA CallsAfterAnswers ==
    ASSUME CallsInv, next_local \in Nat, next_local' \in {next_local, next_local + 1},
           NEW S \in SUBSET (pending \cup direct), ReplySent(S), requests' = requests,
           pending' = pending \ S, direct' = direct \ S, late' = late \ S
    PROVE  CallsInv'
<1>1. /\ S \in SUBSET Clients /\ \A c \in S : client[c].stage = "send"
  BY DEF CallsInv
<1>2. /\ ClientsOK'
      /\ Asked' = Asked \ S
      /\ \A c \in Clients : client'[c].pane = client[c].pane
      /\ \A c \in Clients \ S : client'[c] = client[c]
  BY <1>1, AfterSent DEF CallsInv
<1>3. /\ Range(requests) \cap pending = {} /\ (Range(requests) \cup pending) \cap direct = {}
      /\ Asked = Range(requests) \cup pending \cup direct
      /\ \A i, j \in 1 .. Len(requests) : requests[i] = requests[j] => i = j
  BY DEF CallsInv, CallsTracked, Asked
<1>4. Range(requests') = Range(requests) /\ requests' \in Seq(Clients)
  BY DEF CallsInv
<1>5. CallsTracked'
  BY <1>2, <1>3, <1>4 DEF CallsTracked, Asked
<1>6. OwnersInOrder' /\ OwnersDistinct'
  BY <1>2, OwnersKept DEF CallsInv
<1>7. \A c \in pending' \cup direct' : client'[c].stage = "send"
  BY <1>1, <1>2 DEF CallsInv
<1>8. QED
  BY <1>2, <1>4, <1>5, <1>6, <1>7 DEF CallsInv

(* The loop takes a request from the channel and handles it. *)
LEMMA CallsAfterRequest ==
    ASSUME CallsInv, next_local \in Nat \ {0}, next_local' \in {next_local, next_local + 1},
           HandleRequest
    PROVE  CallsInv'
<1> DEFINE c == Head(requests)
<1>1. /\ requests \in Seq(Clients) /\ requests # <<>>
      /\ Range(requests) \cap pending = {} /\ (Range(requests) \cup pending) \cap direct = {}
      /\ Asked = Range(requests) \cup pending \cup direct
      /\ \A i, j \in 1 .. Len(requests) : requests[i] = requests[j] => i = j
  BY DEF CallsInv, CallsTracked, Asked, HandleRequest
<1>2. /\ c \in Clients /\ Tail(requests) \in Seq(Clients)
      /\ c \in Range(requests)
      /\ Range(Tail(requests)) = Range(requests) \ {c}
      /\ \A i, j \in 1 .. Len(Tail(requests)) :
            Tail(requests)[i] = Tail(requests)[j] => i = j
  BY <1>1, QueueTake, QueueTakeDistinct
<1>3. requests' = Tail(requests)
  BY DEF HandleRequest
<1>4. client[c].asked /\ c \notin pending /\ c \notin direct
  BY <1>1, <1>2 DEF Asked
<1> HIDE DEF c
<1>5. ASSUME Asked' = Asked \ {c}, UNCHANGED <<pending, direct>> PROVE CallsTracked'
  BY <1>1, <1>2, <1>3, <1>4, <1>5 DEF CallsTracked, Asked
<1>6. ASSUME client' = client,
             \/ pending' = pending \cup {c} /\ direct' = direct
             \/ direct' = direct \cup {c} /\ pending' = pending
      PROVE  CallsTracked'
  BY <1>1, <1>2, <1>3, <1>4, <1>6 DEF CallsTracked, Asked
<1>7. ASSUME HandleSpawn(c) PROVE CallsInv'
  <2>1. /\ (next_local \in Panes!PaneIds /\ next_local' = next_local + 1
            /\ ReplySpawned(c, next_local)) \/ ReplyOver(c)
        /\ UNCHANGED <<pending, late, direct>>
    BY <1>7 DEF HandleSpawn, Panes!SpawnPane, Panes!OpenPty, Panes!PaneIds
  <2>2. /\ ClientsOK'
        /\ Asked' = Asked \ {c}
        /\ client'[c].pane \in {client[c].pane, next_local, NoPane}
        /\ \A d \in Clients \ {c} : client'[d] = client[d]
    BY <1>2, <1>4, <2>1, AfterRound DEF CallsInv
  <2>3. CASE next_local' = next_local + 1
    BY <1>2, <1>3, <1>4, <1>5, <2>1, <2>2, <2>3, OwnersGrow DEF CallsInv
  <2>4. CASE next_local' = next_local /\ ReplyOver(c)
    <3>1. /\ Asked' = Asked \ {c} /\ ClientsOK'
          /\ client'[c].pane \in {client[c].pane, NoPane}
      BY <1>2, <1>4, <2>4, AfterRound DEF CallsInv
    <3>2. OwnersInOrder' /\ OwnersDistinct'
      BY <2>2, <3>1, OwnersKept DEF CallsInv
    <3>3. QED
      BY <1>2, <1>3, <1>4, <1>5, <2>1, <2>2, <3>2 DEF CallsInv
  <2>5. QED
    BY <2>1, <2>3, <2>4
<1>8. ASSUME HandleKill(c) PROVE CallsInv'
  <2>1. ReplyOver(c) /\ UNCHANGED <<pending, late, direct>>
    BY <1>8 DEF HandleKill
  <2>2. /\ ClientsOK'
        /\ Asked' = Asked \ {c}
        /\ client'[c].pane \in {client[c].pane, NoPane}
        /\ \A d \in Clients \ {c} : client'[d] = client[d]
    BY <1>2, <1>4, <2>1, AfterRound DEF CallsInv
  <2>3. OwnersInOrder' /\ OwnersDistinct'
    BY <2>2, OwnersKept DEF CallsInv
  <2>4. QED
    BY <1>2, <1>3, <1>4, <1>5, <2>1, <2>2, <2>3 DEF CallsInv
<1>9. ASSUME client[c].stage = "send", HandleSend(c) PROVE CallsInv'
  <2>1. CASE ReplySent({c}) /\ UNCHANGED <<pending, direct, late>>
    <3>1. /\ ClientsOK'
          /\ Asked' = Asked \ {c}
          /\ \A d \in Clients : client'[d].pane = client[d].pane
          /\ \A d \in Clients \ {c} : client'[d] = client[d]
      BY <1>2, <1>9, <2>1, AfterSent DEF CallsInv
    <3>2. OwnersInOrder' /\ OwnersDistinct'
      BY <3>1, OwnersKept DEF CallsInv
    <3>3. QED
      BY <1>2, <1>3, <1>4, <1>5, <2>1, <3>1, <3>2 DEF CallsInv
  <2>2. CASE /\ client' = client /\ late' = late
             /\ \/ pending' = pending \cup {c} /\ direct' = direct
                \/ direct' = direct \cup {c} /\ pending' = pending
    <3>1. OwnersInOrder' /\ OwnersDistinct'
      BY <2>2, OwnersKept DEF CallsInv
    <3>2. ClientsOK'
      BY <2>2 DEF CallsInv, ClientsOK
    <3>3. QED
      BY <1>2, <1>3, <1>6, <1>9, <2>2, <3>1, <3>2 DEF CallsInv
  <2>3. QED
    BY <1>9, <2>1, <2>2 DEF HandleSend, Registers
<1>10. QED
  BY <1>7, <1>8, <1>9 DEF HandleRequest, c

(* No step loses a call, answers one twice or shares a pane. *)
LEMMA CallsStep ==
    ASSUME CallsInv, next_local \in Nat \ {0}, next_local' \in {next_local, next_local + 1},
           [Next]_vars
    PROVE  CallsInv'
<1>1. ASSUME UNCHANGED callVars PROVE CallsInv'
  <2>1. OwnersInOrder' /\ OwnersDistinct'
    BY <1>1, OwnersKept DEF CallsInv, callVars
  <2>2. ClientsOK'
    BY <1>1 DEF CallsInv, ClientsOK, callVars
  <2>3. CallsTracked'
    BY <1>1 DEF CallsInv, CallsTracked, callVars
  <2>4. QED
    BY <1>1, <2>1, <2>2, <2>3 DEF CallsInv, callVars
<1>2. ASSUME NEW c \in Clients, Ask(c) PROVE CallsInv'
  <2>1. /\ client' = [client EXCEPT ![c].asked = TRUE] /\ requests' = Append(requests, c)
        /\ client[c].rounds > 0 /\ ~client[c].asked /\ UNCHANGED <<pending, late, direct>>
    BY <1>2 DEF Ask, Active
  <2>2. /\ requests' \in Seq(Clients)
        /\ Len(requests') = Len(requests) + 1 /\ Len(requests) \in Nat
        /\ Range(requests') = Range(requests) \cup {c}
        /\ \A i \in 1 .. Len(requests) : requests'[i] = requests[i] /\ requests[i] \in Range(requests)
        /\ requests'[Len(requests) + 1] = c
    BY <2>1, QueuePut DEF CallsInv, Range
  <2>3. ClientsOK' /\ Asked' = Asked \cup {c}
    <3>1. /\ client[c] \in ClientType /\ TRUE \in BOOLEAN
          /\ client[c].stage = "spawn" <=> client[c].pane = NoPane
      BY DEF CallsInv, ClientsOK
    <3>2. /\ DOMAIN client' = Clients /\ client'[c] = [client[c] EXCEPT !.asked = TRUE]
          /\ \A d \in Clients \ {c} : client'[d] = client[d]
          /\ client' = [d \in Clients |-> client'[d]]
      BY <2>1 DEF CallsInv, ClientsOK
    <3>3. /\ client'[c] \in ClientType /\ client'[c].asked = TRUE /\ client'[c].pane = client[c].pane
          /\ client'[c].stage = client[c].stage /\ client'[c].rounds = client[c].rounds
      BY <3>1, <3>2, AskedMarked
    <3>4. QED
      BY <2>1, <3>1, <3>2, <3>3 DEF CallsInv, ClientsOK, Asked
  <2>4. c \notin Range(requests) /\ c \notin pending /\ c \notin direct
    BY <2>1 DEF CallsInv, CallsTracked
  <2>5. \A i, j \in 1 .. Len(requests') : requests'[i] = requests'[j] => i = j
    BY <2>2, <2>4 DEF CallsInv, CallsTracked
  <2>6. CallsTracked'
    BY <2>1, <2>2, <2>3, <2>4, <2>5 DEF CallsInv, CallsTracked, Asked
  <2>7. \A d \in Clients : client'[d].pane = client[d].pane /\ client'[d].stage = client[d].stage
    BY <2>1 DEF CallsInv, ClientsOK, ClientType
  <2>8. OwnersInOrder' /\ OwnersDistinct'
    BY <2>7, OwnersKept DEF CallsInv
  <2>9. QED
    BY <2>1, <2>2, <2>3, <2>6, <2>7, <2>8 DEF CallsInv
<1>3. ASSUME NEW c \in Clients, Abandon(c) PROVE CallsInv'
  <2>1. client' = [client EXCEPT ![c].gone = TRUE] /\ UNCHANGED <<requests, pending, late, direct>>
    BY <1>3 DEF Abandon
  <2>2. ClientsOK' /\ Asked' = Asked
    <3>1. /\ client[c] \in ClientType /\ TRUE \in BOOLEAN
          /\ client[c].stage = "spawn" <=> client[c].pane = NoPane
      BY DEF CallsInv, ClientsOK
    <3>2. /\ DOMAIN client' = Clients /\ client'[c] = [client[c] EXCEPT !.gone = TRUE]
          /\ \A d \in Clients \ {c} : client'[d] = client[d]
          /\ client' = [d \in Clients |-> client'[d]]
      BY <2>1 DEF CallsInv, ClientsOK
    <3>3. /\ client'[c] \in ClientType /\ client'[c].asked = client[c].asked /\ client'[c].pane = client[c].pane
          /\ client'[c].stage = client[c].stage /\ client'[c].rounds = client[c].rounds
      BY <3>1, <3>2, GoneMarked
    <3>4. ClientsOK'
      <4>1. \A d \in Clients : client[d] \in ClientType /\ client'[d] \in ClientType
        BY <3>2, <3>3 DEF CallsInv, ClientsOK
      <4>2. \A d \in Clients : client'[d].stage = "spawn" <=> client'[d].pane = NoPane
        <5>1. \A d \in Clients : client[d].stage = "spawn" <=> client[d].pane = NoPane
          BY DEF CallsInv, ClientsOK
        <5>2. \A d \in Clients : client'[d].stage = client[d].stage /\ client'[d].pane = client[d].pane
          BY <3>2, <3>3
        <5>3. QED
          BY <5>1, <5>2
      <4>3. \A d \in Clients : client'[d].asked => client'[d].rounds > 0
        <5>1. \A d \in Clients : client[d].asked => client[d].rounds > 0
          BY DEF CallsInv, ClientsOK
        <5>2. QED
          BY <3>2, <3>3, <5>1
      <4>4. client' \in [Clients -> ClientType]
        BY <3>2, <4>1
      <4>5. QED
        BY <4>2, <4>3, <4>4 DEF ClientsOK
    <3>5. \A d \in Clients : client'[d].asked = client[d].asked
      BY <3>2, <3>3
    <3>6. QED
      BY <3>4, <3>5 DEF Asked
  <2>3. CallsTracked'
    BY <2>1, <2>2 DEF CallsInv, CallsTracked, Asked
  <2>4. \A d \in Clients : client'[d].pane = client[d].pane /\ client'[d].stage = client[d].stage
    BY <2>1 DEF CallsInv, ClientsOK, ClientType
  <2>5. OwnersInOrder' /\ OwnersDistinct'
    BY <2>4, OwnersKept DEF CallsInv
  <2>6. QED
    BY <2>1, <2>2, <2>3, <2>4, <2>5 DEF CallsInv
<1>4. ASSUME NEW c \in Clients, TimesOut(c) PROVE CallsInv'
  <2>1. UNCHANGED <<client, requests, pending, direct>> /\ late' \subseteq pending
    BY <1>4 DEF TimesOut, CallsInv
  <2>2. OwnersInOrder' /\ OwnersDistinct'
    BY <2>1, OwnersKept DEF CallsInv
  <2>3. ClientsOK' /\ CallsTracked'
    BY <2>1 DEF CallsInv, ClientsOK, CallsTracked
  <2>4. QED
    BY <2>1, <2>2, <2>3 DEF CallsInv
<1>5. ASSUME NEW c \in Clients, SidebandReplies(c) PROVE CallsInv'
  <2>1. /\ {c} \in SUBSET (pending \cup direct) /\ c \notin pending
        /\ ReplySent({c}) /\ direct' = direct \ {c} /\ UNCHANGED <<requests, pending, late>>
    BY <1>5 DEF SidebandReplies, CallsInv, CallsTracked
  <2>2. pending' = pending \ {c} /\ late' = late \ {c}
    BY <2>1 DEF CallsInv
  <2>3. QED
    BY <2>1, <2>2, CallsAfterAnswers
<1>6. ASSUME NEW S \in SUBSET pending, ReplySent(S), pending' = pending \ S, late' = late \ S,
             UNCHANGED <<requests, direct>>
      PROVE  CallsInv'
  <2>1. direct' = direct \ S
    BY <1>6 DEF CallsInv, CallsTracked
  <2>2. QED
    BY <1>6, <2>1, CallsAfterAnswers
<1>7. CASE PollPending
  BY <1>6, <1>7 DEF PollPending
<1>8. CASE ExitsHandled
  <2> DEFINE S == {c \in pending : client[c].pane \in Panes!NewlyExited}
  <2>1. S \in SUBSET pending
    OBVIOUS
  <2>2. QED
    BY <1>6, <1>8, <2>1 DEF ExitsHandled
<1>9. CASE Stop
  <2>1. pending' = pending \ pending /\ late' = late \ pending /\ ReplySent(pending)
        /\ UNCHANGED <<requests, direct>>
    BY <1>9 DEF Stop, CallsInv
  <2>2. QED
    BY <1>6, <2>1
<1>10. CASE HandleRequest
  BY <1>10, CallsAfterRequest
<1>11. CASE \/ DrainCompletion \/ DrainDone \/ RequestsDone \/ McpCommand \/ McpDone \/ Input
            \/ Quit \/ BeginRestore \/ RestorePane \/ RestoreDone
  BY <1>1, <1>11 DEF DrainCompletion, DrainDone, RequestsDone, McpCommand, McpDone, Input,
                     Quit, BeginRestore, RestorePane, RestoreDone
<1>12. ASSUME NEW id \in Panes!PaneIds, Connected(id) \/ ProcessExits(id) PROVE CallsInv'
  BY <1>1, <1>12 DEF Connected, ProcessExits
<1>13. CASE Tick
  BY <1>7, <1>8, <1>9, <1>10, <1>11, <1>13 DEF Tick
<1>14. CASE UNCHANGED vars
  BY <1>1, <1>14 DEF vars
<1>15. QED
  BY <1>2, <1>3, <1>4, <1>5, <1>12, <1>13, <1>14 DEF Next, Stopped

-------------------------------------------------------------------------------
(* Connections and their results. *)

Results == [id : Panes!RemoteIds, ok : BOOLEAN]

ResultsInv == completions \in Seq(Results) /\ ResultsHaveSlots

(* Only a completed or a failed connection gives up a slot. *)
LEMMA SlotsKept ==
    ASSUME NEW id,
           \/ Panes!SpawnPane \/ Panes!SpawnFails \/ Panes!PrepareRemote
           \/ Panes!FocusNext \/ Panes!FocusPrev \/ Panes!ToCommandBar
           \/ Panes!FocusPane(id) \/ Kill(id) \/ Panes!ProcessExits(id)
           \/ Panes!HandleExited \/ Panes!Shutdown \/ UNCHANGED paneVars
    PROVE  reserved \subseteq reserved'
<1>1. ASSUME NEW pane, Panes!FocusPane(pane) PROVE reserved' = reserved
  BY <1>1 DEF Panes!FocusPane, Panes!remoteVars
<1>2. CASE Panes!FocusNext \/ Panes!FocusPrev \/ Panes!FocusPane(id)
  BY <1>1, <1>2 DEF Panes!FocusNext, Panes!FocusPrev
<1>3. CASE Kill(id) \/ Panes!ProcessExits(id)
  BY <1>3 DEF Kill, Panes!KillPane, Panes!KillFails, Panes!ProcessExits, Panes!remoteVars
<1>4. CASE Panes!SpawnPane \/ Panes!SpawnFails \/ Panes!PrepareRemote
  BY <1>4 DEF Panes!SpawnPane, Panes!SpawnFails, Panes!PrepareRemote, Panes!remoteVars
<1>5. CASE \/ Panes!ToCommandBar \/ Panes!HandleExited \/ Panes!Shutdown \/ UNCHANGED paneVars
  BY <1>5 DEF Panes!ToCommandBar, Panes!HandleExited, Panes!Shutdown, Panes!remoteVars, paneVars
<1>6. QED
  BY <1>2, <1>3, <1>4, <1>5

(* Results in the channel keep their slots. *)
LEMMA ResultsStep ==
    ASSUME ResultsInv, reserved \subseteq Panes!RemoteIds, [Next]_vars
    PROVE  ResultsInv'
<1>1. /\ completions \in Seq(Results) /\ Len(completions) \in Nat
      /\ \A i \in 1 .. Len(completions) : completions[i].id \in reserved
      /\ \A i, j \in 1 .. Len(completions) : completions[i].id = completions[j].id => i = j
  BY DEF ResultsInv, ResultsHaveSlots, Arrived
<1>2. ASSUME completions' = completions, reserved \subseteq reserved' PROVE ResultsInv'
  BY <1>2 DEF ResultsInv, ResultsHaveSlots, Arrived
<1>3. CASE DrainCompletion
  <2> DEFINE done == Head(completions)
             t == Tail(completions)
  <2>1. /\ completions # <<>> /\ completions' = t
        /\ reserved' = reserved \ {done.id}
    BY <1>3 DEF DrainCompletion, Panes!CompleteRemote, Panes!RemoteSpawnFailed,
                Panes!ReleaseSlot
  <2>2. /\ done = completions[1] /\ 1 \in 1 .. Len(completions)
        /\ t \in Seq(Results) /\ Len(t) = Len(completions) - 1
        /\ \A i \in 1 .. Len(t) : i + 1 \in 2 .. Len(completions) /\ t[i] = completions[i + 1]
    BY <1>1, <2>1, QueueTake
  <2> HIDE DEF done, t
  <2>3. \A i \in 1 .. Len(t) : t[i].id \in reserved'
    BY <1>1, <2>1, <2>2
  <2>4. ASSUME NEW i \in 1 .. Len(t), NEW j \in 1 .. Len(t), t[i].id = t[j].id PROVE i = j
    <3>1. completions[i + 1].id = completions[j + 1].id
      BY <2>2, <2>4
    <3>2. i + 1 = j + 1
      BY <1>1, <2>2, <3>1
    <3>3. QED
      BY <3>2
  <2>5. QED
    BY <2>1, <2>2, <2>3, <2>4 DEF ResultsInv, ResultsHaveSlots, Arrived
<1>4. ASSUME NEW id \in Panes!PaneIds, Connected(id) PROVE ResultsInv'
  <2>1. PICK ok \in BOOLEAN : completions' = Append(completions, [id |-> id, ok |-> ok])
    BY <1>4 DEF Connected
  <2>2. /\ id \in reserved /\ reserved' = reserved
        /\ \A i \in 1 .. Len(completions) : completions[i].id # id
    BY <1>4 DEF Connected, Arrived, paneVars
  <2> DEFINE done == [id |-> id, ok |-> ok]
             a == Append(completions, done)
  <2>3. done \in Results /\ done.id = id
    BY <2>2 DEF Results
  <2> HIDE DEF done
  <2>4. /\ a \in Seq(Results) /\ Len(a) = Len(completions) + 1
        /\ \A i \in 1 .. Len(completions) : a[i] = completions[i]
        /\ a[Len(completions) + 1] = done
    BY <1>1, <2>3, QueuePut
  <2>5. completions' = a
    BY <2>1 DEF done
  <2> HIDE DEF a
  <2>6. \A i \in 1 .. Len(a) : i \in 1 .. Len(completions) \/ i = Len(completions) + 1
    BY <1>1, <2>4
  <2>7. \A i \in 1 .. Len(a) : a[i].id \in reserved'
    BY <1>1, <2>2, <2>3, <2>4, <2>6
  <2>8. \A i, j \in 1 .. Len(a) : a[i].id = a[j].id => i = j
    BY <1>1, <2>2, <2>3, <2>4, <2>6
  <2>9. QED
    BY <2>4, <2>5, <2>7, <2>8 DEF ResultsInv, ResultsHaveSlots, Arrived
<1>5. CASE HandleRequest
  <2>1. PICK c : HandleSpawn(c) \/ HandleSend(c) \/ HandleKill(c)
    BY <1>5 DEF HandleRequest
  <2>2. reserved \subseteq reserved'
    BY <2>1, SlotsKept DEF HandleSpawn, HandleSend, HandleKill, Kill
  <2>3. QED
    BY <1>2, <1>5, <2>2 DEF HandleRequest
<1>6. CASE Input
  <2>1. reserved \subseteq reserved'
    BY <1>6, SlotsKept DEF Input, KeyOrClick, TypedCommand
  <2>2. QED
    BY <1>2, <1>6, <2>1 DEF Input
<1>7. CASE McpCommand \/ RestorePane
  BY <1>2, <1>7, SlotsKept DEF McpCommand, RestorePane
<1>8. CASE \/ DrainDone \/ RequestsDone \/ McpDone \/ Quit \/ BeginRestore \/ RestoreDone
           \/ PollPending
  BY <1>2, <1>8, SlotsKept DEF DrainDone, RequestsDone, McpDone, Quit, BeginRestore,
                               RestoreDone, PollPending
<1>9. CASE ExitsHandled \/ Stop
  BY <1>2, <1>9, SlotsKept DEF ExitsHandled, Stop
<1>10. ASSUME NEW c \in Clients, Ask(c) \/ Abandon(c) \/ TimesOut(c) \/ SidebandReplies(c)
       PROVE  ResultsInv'
  BY <1>2, <1>10, SlotsKept DEF Ask, Abandon, TimesOut, SidebandReplies
<1>11. ASSUME NEW id \in Panes!PaneIds, ProcessExits(id) PROVE ResultsInv'
  BY <1>2, <1>11, SlotsKept DEF ProcessExits
<1>12. CASE UNCHANGED vars
  BY <1>2, <1>12, SlotsKept DEF vars
<1>13. CASE Tick
  BY <1>3, <1>5, <1>6, <1>7, <1>8, <1>9, <1>13 DEF Tick
<1>14. QED
  BY <1>4, <1>10, <1>11, <1>12, <1>13 DEF Next, Stopped

-------------------------------------------------------------------------------
(* Between the exits of a tick and the end of the next drain no pane goes  *)
(* away and no prompt starts to wait.                                      *)
LEMMA PendingsStep ==
    ASSUME PendingsStayLive, CallsInv, [Next]_vars
    PROVE  PendingsStayLive'
<1>1. ASSUME tick \in {"exits", "drain"}, pending' \subseteq pending, panes \subseteq panes',
             \A c \in Clients : client'[c].pane = client[c].pane
      PROVE  PendingsStayLive'
  BY <1>1 DEF PendingsStayLive, CallsInv
<1>2. ASSUME tick' \notin {"exits", "drain"} PROVE PendingsStayLive'
  BY <1>2 DEF PendingsStayLive
<1>3. ASSUME UNCHANGED <<tick, pending, panes, client>> PROVE PendingsStayLive'
  BY <1>3 DEF PendingsStayLive
<1>4. ASSUME NEW S \in SUBSET pending, ReplySent(S)
      PROVE  \A c \in Clients : client'[c].pane = client[c].pane
  <2>1. S \in SUBSET Clients /\ \A c \in S : client[c].stage = "send"
    BY <1>4 DEF CallsInv
  <2>2. QED
    BY <1>4, <2>1, AfterSent DEF CallsInv
<1>5. CASE PollPending
  <2>1. PICK S \in SUBSET pending :
           /\ MustResolve \subseteq S /\ ReplySent(S) /\ pending' = pending \ S
    BY <1>5 DEF PollPending
  <2>2. \A c \in pending' : c \in Clients /\ client[c].pane \in panes
    BY <2>1 DEF MustResolve, CallsInv
  <2>3. panes' = panes /\ \A c \in Clients : client'[c].pane = client[c].pane
    BY <1>4, <1>5, <2>1 DEF PollPending, paneVars
  <2>4. QED
    BY <2>2, <2>3 DEF PendingsStayLive
<1>6. CASE ExitsHandled
  <2> DEFINE S == {c \in pending : client[c].pane \in Panes!NewlyExited}
  <2>1. S \in SUBSET pending /\ tick = "exits" /\ pending' \subseteq pending
    BY <1>6 DEF ExitsHandled
  <2>2. panes' = panes
    BY <1>6 DEF ExitsHandled, Panes!HandleExited
  <2>3. \A c \in Clients : client'[c].pane = client[c].pane
    BY <1>4, <1>6, <2>1 DEF ExitsHandled
  <2>4. QED
    BY <1>1, <2>1, <2>2, <2>3
<1>7. CASE DrainCompletion
  <2>1. tick = "drain" /\ UNCHANGED <<client, pending>> /\ panes \subseteq panes'
    BY <1>7 DEF DrainCompletion, callVars, Panes!CompleteRemote, Panes!Register,
                Panes!RemoteSpawnFailed, Panes!viewVars
  <2>2. QED
    BY <1>1, <2>1
<1>8. CASE \/ DrainDone \/ HandleRequest \/ RequestsDone \/ McpCommand \/ McpDone \/ Input
           \/ Quit \/ BeginRestore \/ RestorePane \/ RestoreDone \/ Stop
  BY <1>2, <1>8 DEF DrainDone, HandleRequest, RequestsDone, McpCommand, McpDone, Input, Quit,
                    BeginRestore, RestorePane, RestoreDone, Stop, Goto, loopVars
<1>9. ASSUME NEW c \in Clients, Ask(c) \/ Abandon(c) PROVE PendingsStayLive'
  <2>1. UNCHANGED <<tick, pending, panes>>
    BY <1>9 DEF Ask, Abandon, paneVars, loopVars
  <2>2. CASE client' = [client EXCEPT ![c].asked = TRUE]
    <3>1. \A d \in Clients : client'[d].pane = client[d].pane
      BY <2>2 DEF CallsInv, ClientsOK, ClientType
    <3>2. QED
      BY <1>1, <1>2, <2>1, <3>1
  <2>3. CASE client' = [client EXCEPT ![c].gone = TRUE]
    <3>1. \A d \in Clients : client'[d].pane = client[d].pane
      BY <2>3 DEF CallsInv, ClientsOK, ClientType
    <3>2. QED
      BY <1>1, <1>2, <2>1, <3>1
  <2>4. QED
    BY <1>9, <2>2, <2>3 DEF Ask, Abandon
<1>10. ASSUME NEW c \in Clients, SidebandReplies(c) PROVE PendingsStayLive'
  <2>1. {c} \in SUBSET Clients /\ client[c].stage = "send" /\ ReplySent({c})
    BY <1>10 DEF SidebandReplies, CallsInv
  <2>2. \A d \in Clients : client'[d].pane = client[d].pane
    BY <2>1, AfterSent DEF CallsInv
  <2>3. UNCHANGED <<tick, pending, panes>>
    BY <1>10 DEF SidebandReplies, paneVars, loopVars
  <2>4. QED
    BY <1>1, <1>2, <2>2, <2>3
<1>11. ASSUME NEW c \in Clients, TimesOut(c) PROVE PendingsStayLive'
  BY <1>3, <1>11 DEF TimesOut, paneVars, loopVars
<1>12. ASSUME NEW id \in Panes!PaneIds, Connected(id) \/ ProcessExits(id)
       PROVE  PendingsStayLive'
  BY <1>3, <1>12 DEF Connected, ProcessExits, Panes!ProcessExits, Panes!viewVars, paneVars,
                     loopVars, callVars
<1>13. CASE UNCHANGED vars
  BY <1>3, <1>13 DEF vars, paneVars, loopVars, callVars
<1>14. CASE Tick
  BY <1>5, <1>6, <1>7, <1>8, <1>14 DEF Tick
<1>15. QED
  BY <1>9, <1>10, <1>11, <1>12, <1>13, <1>14 DEF Next, Stopped

-------------------------------------------------------------------------------
Phases == {"drain", "requests", "mcp", "input", "restore", "poll", "exits", "stopping",
           "stopped"}

(* The loop goes from phase to phase. *)
LEMMA PhaseStep ==
    ASSUME tick \in Phases, should_quit \in BOOLEAN, [Next]_vars
    PROVE  tick' \in Phases /\ should_quit' \in BOOLEAN
<1>1. CASE \/ DrainCompletion \/ DrainDone \/ HandleRequest \/ RequestsDone \/ McpCommand
           \/ McpDone \/ Input \/ Quit \/ BeginRestore \/ RestorePane \/ RestoreDone
  BY <1>1 DEF DrainCompletion, DrainDone, HandleRequest, RequestsDone, McpCommand, McpDone,
              Input, Quit, BeginRestore, RestorePane, RestoreDone, Goto, loopVars, Phases
<1>2. CASE PollPending \/ ExitsHandled \/ Stop
  BY <1>2 DEF PollPending, ExitsHandled, Stop, Goto, Phases
<1>3. CASE Tick
  BY <1>1, <1>2, <1>3 DEF Tick
<1>4. ASSUME NEW c \in Clients, Ask(c) \/ Abandon(c) \/ TimesOut(c) \/ SidebandReplies(c)
      PROVE  UNCHANGED loopVars
  BY <1>4 DEF Ask, Abandon, TimesOut, SidebandReplies
<1>5. ASSUME NEW id \in Panes!PaneIds, Connected(id) \/ ProcessExits(id)
      PROVE  UNCHANGED loopVars
  BY <1>5 DEF Connected, ProcessExits
<1>6. QED
  BY <1>3, <1>4, <1>5 DEF Next, Stopped, vars, loopVars

(* The invariant holds initially ... *)
LEMMA InitInv == Init => IInv
<1> SUFFICES ASSUME Init PROVE IInv
  OBVIOUS
<1>1. Panes!IInv
  BY PanesInit DEF Init
<1>2. Panes!TypeOK
  BY <1>1 DEF Panes!IInv
<1>3. \A c \in Clients : client[c] = NewClient
  BY DEF Init
<1>4. NewClient \in ClientType /\ NewClient.stage = "spawn" /\ NewClient.pane = NoPane
      /\ ~NewClient.asked
  BY RoundsAssumption DEF NewClient, ClientType, Stages
<1>5. client \in [Clients -> ClientType]
  BY <1>4 DEF Init
<1>6. Range(requests) = {} /\ Len(requests) = 0 /\ requests \in Seq(Clients)
  BY DEF Init, Range
<1>7. Len(completions) = 0 /\ completions \in Seq(Results)
  BY DEF Init
<1>8. TypeOK
  BY <1>2, <1>3, <1>4, <1>5, <1>6, <1>7 DEF Init, TypeOK, ClientType, Results
<1>9. CallsTracked /\ CallStages
  BY <1>3, <1>4, <1>6 DEF Init, CallsTracked, CallStages
<1>10. OwnersInOrder /\ OwnersDistinct
  BY <1>3, <1>4 DEF OwnersInOrder, OwnersDistinct
<1>11. PendingsStayLive /\ ResultsHaveSlots
  BY <1>7 DEF Init, PendingsStayLive, ResultsHaveSlots, Arrived
<1>12. QED
  BY <1>1, <1>8, <1>9, <1>10, <1>11 DEF IInv

(* ... and every step keeps it. *)
LEMMA IInvStep ==
    ASSUME MaxLocal < RemoteBase, IInv, [Next]_vars
    PROVE  IInv'
<1>1. [Panes!Next]_(Panes!vars)
  BY PanesStep DEF IInv
<1>2. Panes!IInv'
  BY <1>1, PanesInvStep DEF IInv
<1>3. next_local' \in {next_local, next_local + 1}
  BY <1>1, NextLocalGrows
<1>4. next_local \in Nat \ {0}
  BY PanesAssumption DEF IInv, TypeOK, Panes!TypeOK
<1>5. CallsInv'
  BY <1>3, <1>4, CallsInvHolds, CallsStep
<1>6. ResultsInv'
  <2>1. ResultsInv /\ reserved \subseteq Panes!RemoteIds
    BY DEF IInv, TypeOK, ResultsInv, Results, Panes!TypeOK
  <2>2. QED
    BY <2>1, ResultsStep
<1>7. PendingsStayLive'
  BY CallsInvHolds, PendingsStep DEF IInv
<1>8. tick' \in Phases /\ should_quit' \in BOOLEAN
  BY PhaseStep DEF IInv, TypeOK, Phases
<1>9. Panes!TypeOK'
  BY <1>2 DEF Panes!IInv
<1>10. TypeOK' /\ CallStages'
  BY <1>5, <1>6, <1>8, <1>9 DEF TypeOK, CallStages, CallsInv, ClientsOK, ClientType, ResultsInv,
                                Results, Phases
<1>11. QED
  BY <1>2, <1>5, <1>6, <1>7, <1>10 DEF IInv, CallsInv, ResultsInv

-------------------------------------------------------------------------------
(* The inductive invariant of the loop holds in every reachable state.     *)
THEOREM Invariance == MaxLocal < RemoteBase => (Spec => []IInv)
<1> SUFFICES ASSUME MaxLocal < RemoteBase PROVE Spec => []IInv
  OBVIOUS
<1>1. Init => IInv
  BY InitInv
<1>2. IInv /\ [Next]_vars => IInv'
  BY IInvStep
<1>3. QED
  BY <1>1, <1>2, PTL DEF Spec

(* Variables keep their types, and a step knows its pane exactly from the  *)
(* spawn's reply to the end of its round (main.rs:1105-1188).              *)
THEOREM TypeCorrect == MaxLocal < RemoteBase => (Spec => []TypeOK)
<1>1. IInv => TypeOK
  BY DEF IInv
<1>2. QED
  BY <1>1, Invariance, PTL

(* No call is lost or answered twice: it is queued, pending or with a      *)
(* sideband task, and only there (main.rs:1105-1188, app.rs:688-752).      *)
THEOREM CallsAreTracked == MaxLocal < RemoteBase => (Spec => []CallsTracked)
<1>1. IInv => CallsTracked
  BY DEF IInv
<1>2. QED
  BY <1>1, Invariance, PTL

(* Two steps never hold the same pane: a late kill or prompt of one cannot *)
(* reach the pane of another (main.rs:1131-1182).                          *)
THEOREM OwnersAreDistinct == MaxLocal < RemoteBase => (Spec => []OwnersDistinct)
<1>1. IInv => OwnersDistinct
  BY DEF IInv
<1>2. QED
  BY <1>1, Invariance, PTL

(* When a tick begins no pending completion waits on a pane that is gone,  *)
(* whatever was killed during the last one (app.rs:691-701).               *)
THEOREM PendingsLive == MaxLocal < RemoteBase => (Spec => []PendingsAreLive)
<1>1. IInv => PendingsAreLive
  BY DEF IInv, PendingsStayLive, PendingsAreLive
<1>2. QED
  BY <1>1, Invariance, PTL

(* A connection's result finds its slot still reserved, once               *)
(* (main.rs:163-184, 440-457).                                             *)
THEOREM ResultsFindSlots == MaxLocal < RemoteBase => (Spec => []ResultsHaveSlots)
<1>1. IInv => ResultsHaveSlots
  BY DEF IInv
<1>2. QED
  BY <1>1, Invariance, PTL

(* The loop, with its workflow steps, users and MCP clients, drives the    *)
(* panes only as PaneManager describes ...                                 *)
THEOREM ImplementsPanes == MaxLocal < RemoteBase => (Spec => Panes!Spec)
<1> SUFFICES ASSUME MaxLocal < RemoteBase PROVE Spec => Panes!Spec
  OBVIOUS
<1>1. Init => Panes!Init
  BY DEF Init
<1>2. TypeOK /\ [Next]_vars => [Panes!Next]_(Panes!vars)
  BY PanesStep
<1>3. Spec => []TypeOK
  BY TypeCorrect
<1>4. QED
  BY <1>1, <1>2, <1>3, PTL DEF Spec, Panes!Spec

(* ... so that whatever they do the limit on panes, the count of           *)
(* connections, the drawing order and the focus are right.                 *)
THEOREM PanesInOrder ==
    MaxLocal < RemoteBase =>
        (Spec => [](/\ Panes!CapacityRespected /\ Panes!SlotsAccounted
                    /\ Panes!OrderMatchesPanes
                    /\ Panes!FocusIsLive /\ Panes!KeysReachFocus))
<1>1. IInv => /\ Panes!CapacityRespected /\ Panes!SlotsAccounted
              /\ Panes!OrderMatchesPanes
              /\ Panes!FocusIsLive /\ Panes!KeysReachFocus
  BY DEF IInv, Panes!IInv
<1>2. QED
  BY <1>1, Invariance, PTL

-------------------------------------------------------------------------------
(* The loop keeps the safety promises of RuntimeCalls. *)

CallOf(c) == IF client[c].asked THEN client[c].stage ELSE "none"

(* A step that answers some calls and leaves the others as they are. *)
LEMMA AnswersRefine ==
    ASSUME NEW S \in SUBSET Clients,
           \A c \in Clients : CallOf(c)' = IF c \in S THEN "none" ELSE CallOf(c),
           tick = "stopped" => tick' = "stopped"
    PROVE  [Runtime!Next]_(Runtime!vars)
<1> DEFINE calls == [c \in Clients |-> IF client[c].asked THEN client[c].stage ELSE "none"]
<1>1. calls' = [c \in Clients |-> IF c \in S THEN "none" ELSE calls[c]]
  BY DEF CallOf
<1>2. CASE (tick' = "stopped") = (tick = "stopped")
  BY <1>1, <1>2 DEF Runtime!Next, Runtime!Answer, Runtime!Answered
<1>3. CASE tick' = "stopped"
  BY <1>1, <1>3 DEF Runtime!Next, Runtime!Stop, Runtime!Answered
<1>4. QED
  BY <1>2, <1>3

(* After the shutdown no tick follows. *)
LEMMA StaysStopped == ASSUME [Next]_vars, tick = "stopped" PROVE tick' = "stopped"
<1>1. ~Tick
  BY DEF Tick, DrainCompletion, DrainDone, HandleRequest, RequestsDone, McpCommand, McpDone,
         Input, Quit, BeginRestore, RestorePane, RestoreDone, PollPending, ExitsHandled, Stop
<1>2. ASSUME NEW c \in Clients, Ask(c) \/ Abandon(c) \/ TimesOut(c) \/ SidebandReplies(c)
      PROVE  tick' = tick
  BY <1>2 DEF Ask, Abandon, TimesOut, SidebandReplies, loopVars
<1>3. ASSUME NEW id \in Panes!PaneIds, Connected(id) \/ ProcessExits(id)
      PROVE  tick' = tick
  BY <1>3 DEF Connected, ProcessExits, loopVars
<1>4. QED
  BY <1>1, <1>2, <1>3 DEF Next, Stopped, vars, loopVars

(* Every step of the loop is one that RuntimeCalls allows. *)
LEMMA RuntimeStep ==
    ASSUME CallsInv, [Next]_vars
    PROVE  [Runtime!Next]_(Runtime!vars)
<1>1. tick = "stopped" => tick' = "stopped"
  BY StaysStopped
<1>2. ASSUME NEW S \in SUBSET Clients, Asked' = Asked \ S,
             \A c \in Clients \ S : client'[c] = client[c]
      PROVE  [Runtime!Next]_(Runtime!vars)
  <2>1. \A c \in Clients : CallOf(c)' = IF c \in S THEN "none" ELSE CallOf(c)
    BY <1>2 DEF CallOf, Asked
  <2>2. QED
    BY <1>1, <2>1, AnswersRefine
<1>3. ASSUME client' = client PROVE [Runtime!Next]_(Runtime!vars)
  BY <1>2, <1>3 DEF Asked
<1>4. ASSUME NEW S \in SUBSET (pending \cup direct), ReplySent(S)
      PROVE  [Runtime!Next]_(Runtime!vars)
  <2>1. S \in SUBSET Clients /\ \A c \in S : client[c].stage = "send"
    BY <1>4 DEF CallsInv
  <2>2. QED
    BY <1>2, <1>4, <2>1, AfterSent DEF CallsInv
<1>5. CASE PollPending \/ Stop
  BY <1>4, <1>5 DEF PollPending, Stop
<1>6. CASE ExitsHandled
  <2> DEFINE S == {c \in pending : client[c].pane \in Panes!NewlyExited}
  <2>1. S \in SUBSET (pending \cup direct)
    OBVIOUS
  <2>2. QED
    BY <1>4, <1>6, <2>1 DEF ExitsHandled
<1>7. CASE HandleRequest
  <2> DEFINE c == Head(requests)
  <2>1. requests \in Seq(Clients) /\ requests # <<>> /\ c \in Clients /\ c \in Range(requests)
    BY <1>7, QueueTake, QueueTakeDistinct DEF CallsInv, CallsTracked, HandleRequest
  <2>2. client[c].asked
    BY <2>1 DEF CallsInv, CallsTracked
  <2> HIDE DEF c
  <2>3. ASSUME HandleSpawn(c) \/ HandleKill(c) PROVE [Runtime!Next]_(Runtime!vars)
    <3>1. (next_local \in Panes!PaneIds /\ ReplySpawned(c, next_local)) \/ ReplyOver(c)
      BY <2>3 DEF HandleSpawn, HandleKill, Panes!SpawnPane, Panes!OpenPty, Panes!PaneIds
    <3>2. Asked' = Asked \ {c} /\ \A d \in Clients \ {c} : client'[d] = client[d]
      BY <2>1, <2>2, <3>1, AfterRound DEF CallsInv
    <3>3. QED
      BY <1>2, <2>1, <3>2
  <2>4. ASSUME client[c].stage = "send", HandleSend(c) PROVE [Runtime!Next]_(Runtime!vars)
    <3>1. ReplySent({c}) \/ client' = client
      BY <2>4 DEF HandleSend, Registers
    <3>2. CASE ReplySent({c})
      <4>1. Asked' = Asked \ {c} /\ \A d \in Clients \ {c} : client'[d] = client[d]
        BY <2>1, <2>4, <3>2, AfterSent DEF CallsInv
      <4>2. QED
        BY <1>2, <2>1, <4>1
    <3>3. QED
      BY <1>3, <3>1, <3>2
  <2>5. QED
    BY <1>7, <2>3, <2>4 DEF HandleRequest, c
<1>8. CASE \/ DrainCompletion \/ DrainDone \/ RequestsDone \/ McpCommand \/ McpDone \/ Input
           \/ Quit \/ BeginRestore \/ RestorePane \/ RestoreDone
  BY <1>3, <1>8 DEF DrainCompletion, DrainDone, RequestsDone, McpCommand, McpDone, Input,
                    Quit, BeginRestore, RestorePane, RestoreDone, callVars
<1>9. ASSUME NEW c \in Clients, Ask(c) PROVE [Runtime!Next]_(Runtime!vars)
  <2> DEFINE calls == [d \in Clients |-> IF client[d].asked THEN client[d].stage ELSE "none"]
  <2>1. /\ client' = [client EXCEPT ![c].asked = TRUE] /\ ~client[c].asked
        /\ tick' = tick
    BY <1>9 DEF Ask, loopVars
  <2>2. /\ client'[c].asked /\ client'[c].stage = client[c].stage
        /\ \A d \in Clients \ {c} : client'[d] = client[d]
        /\ client[c].stage \in {"spawn", "send", "kill"}
    BY <2>1 DEF CallsInv, ClientsOK, ClientType, Stages
  <2>3. calls[c] = "none" /\ calls' = [calls EXCEPT ![c] = client[c].stage]
    <3>1. /\ calls' = [d \in Clients |-> IF client'[d].asked THEN client'[d].stage ELSE "none"]
          /\ [calls EXCEPT ![c] = client[c].stage]
               = [d \in Clients |-> IF d = c THEN client[c].stage ELSE calls[d]]
      OBVIOUS
    <3>2. \A d \in Clients : (IF client'[d].asked THEN client'[d].stage ELSE "none")
                             = (IF d = c THEN client[c].stage ELSE calls[d])
      BY <2>2
    <3>3. QED
      BY <2>1, <3>1, <3>2
  <2>4. Runtime!Call(c)
    BY <2>1, <2>2, <2>3 DEF Runtime!Call
  <2>5. QED
    BY <2>4 DEF Runtime!Next
<1>10. ASSUME NEW c \in Clients, Abandon(c) PROVE [Runtime!Next]_(Runtime!vars)
  <2>1. client' = [client EXCEPT ![c].gone = TRUE]
    BY <1>10 DEF Abandon
  <2>2. \A d \in Clients : CallOf(d)' = CallOf(d)
    BY <2>1 DEF CallsInv, ClientsOK, ClientType, CallOf
  <2>3. {} \in SUBSET Clients /\ \A d \in Clients : CallOf(d)' = IF d \in {} THEN "none" ELSE CallOf(d)
    BY <2>2
  <2>4. QED
    BY <1>1, <2>3, AnswersRefine
<1>11. ASSUME NEW c \in Clients, SidebandReplies(c) PROVE [Runtime!Next]_(Runtime!vars)
  BY <1>4, <1>11 DEF SidebandReplies
<1>12. ASSUME NEW c \in Clients, TimesOut(c) PROVE [Runtime!Next]_(Runtime!vars)
  BY <1>3, <1>12 DEF TimesOut
<1>13. ASSUME NEW id \in Panes!PaneIds, Connected(id) \/ ProcessExits(id)
       PROVE  [Runtime!Next]_(Runtime!vars)
  BY <1>3, <1>13 DEF Connected, ProcessExits, callVars
<1>14. CASE UNCHANGED vars
  BY <1>3, <1>14 DEF vars, callVars
<1>15. CASE Tick
  BY <1>5, <1>6, <1>7, <1>8, <1>15 DEF Tick
<1>16. QED
  BY <1>9, <1>10, <1>11, <1>12, <1>13, <1>14, <1>15 DEF Next, Stopped

(* The safety half of what the workflow engine relies on: every step of    *)
(* the loop makes a client's call, answers calls that were made, or leaves *)
(* them alone; a call changes in no other way.  That calls are eventually  *)
(* answered is liveness, and TLC's.                                        *)
THEOREM ImplementsRuntimeSafety == MaxLocal < RemoteBase => (Spec => Runtime!Safety)
<1> SUFFICES ASSUME MaxLocal < RemoteBase PROVE Spec => Runtime!Safety
  OBVIOUS
<1>1. Init => Runtime!Init
  BY DEF Init, NewClient, Runtime!Init
<1>2. IInv /\ [Next]_vars => [Runtime!Next]_(Runtime!vars)
  BY CallsInvHolds, RuntimeStep
<1>3. Spec => []IInv
  BY Invariance
<1>4. QED
  BY <1>1, <1>2, <1>3, PTL DEF Spec, Runtime!Safety
===============================================================================
