--------------------------- MODULE RpcSidebandProofs ---------------------------
(***************************************************************************)
(* Proofs about RpcSideband, for any callers, any number of child          *)
(* processes and any supply of request ids.                                *)
(***************************************************************************)
EXTENDS RpcSideband, TLAPS

CallType == [at : Places, on : Processes \cup {None}, id : Ids \cup {None}]

(* A record of a call is one whose process and id fit its place. *)
CallOK(r) == /\ r \in CallType
             /\ r.on = None <=> r.at \in {"idle", "starting"}
             /\ r.id = None <=> r.at \in {"idle", "starting", "inserting"}

(* TypeOK, with the type of calls taken apart. *)
LEMMA TypeIsCalls ==
    TypeOK <=> /\ current \in Processes \cup {None}
               /\ process \in [Processes -> ProcessType]
               /\ caller \in [Callers -> CallType]
               /\ \A c \in Callers : CallOK(caller[c])
BY DEF TypeOK, CallType, CallOK, At

(* The records that calls and children start from. *)
LEMMA FirstRecords == /\ CallOK(Idle)
                      /\ Unused \in ProcessType /\ Spawned \in ProcessType
BY NoneAssumption DEF CallOK, CallType, Idle, Unused, Spawned, ProcessType, Places

(* A child that is dropped does not run and answers nothing. *)
LEMMA DroppedRecord ==
    ASSUME NEW r \in ProcessType
    PROVE  /\ Dropped(r) \in ProcessType
           /\ ~Dropped(r).up /\ ~Dropped(r).reading
           /\ Dropped(r).todo = {} /\ Dropped(r).replies = {}
BY DEF Dropped, Unused, Spawned, ProcessType

(* An id that is in use nowhere. *)
LEMMA UsedIds ==
    ASSUME NEW id
    PROVE  id \in InUse <=> \/ \E c \in Callers : caller[c].id # None /\ caller[c].id = id
                            \/ \E p \in Processes : id \in process[p].todo \cup process[p].replies
<1> DEFINE byCall == {caller[c].id : c \in {d \in Callers : caller[d].id # None}}
           byChild == UNION {process[p].todo \cup process[p].replies : p \in Processes}
<1>1. id \in byChild <=> \E p \in Processes : id \in process[p].todo \cup process[p].replies
  OBVIOUS
<1>2. id \in byCall <=> \E c \in Callers : caller[c].id # None /\ caller[c].id = id
  OBVIOUS
<1>3. InUse = byCall \cup byChild
  BY DEF InUse
<1> HIDE DEF byCall, byChild
<1>4. QED
  BY <1>1, <1>2, <1>3

(* A new request id is not in use by any process or call. *)
LEMMA FreshIdIsFresh ==
    ASSUME TypeOK, Ids # InUse
    PROVE  /\ FreshId \in Ids /\ FreshId # None
           /\ \A c \in Callers : caller[c].id # FreshId
           /\ \A p \in Processes : FreshId \notin process[p].todo \cup process[p].replies
<1>1. InUse \subseteq Ids
  <2>1. ASSUME NEW id \in InUse PROVE id \in Ids
    BY <2>1, UsedIds DEF TypeOK, ProcessType
  <2>2. QED
    BY <2>1
<1>2. \E id \in Ids \ InUse : TRUE
  BY <1>1
<1>3. FreshId \in Ids \ InUse
  BY <1>2 DEF FreshId
<1>4. QED
  BY <1>3, UsedIds, NoneAssumption

(* A child that nobody knows of can be started. *)
LEMMA ChosenIsForgotten ==
    ASSUME NEW p \in Processes, Forgotten(p)
    PROVE  LET q == CHOOSE x \in Processes : Forgotten(x)
           IN  q \in Processes /\ Forgotten(q)
OBVIOUS

-------------------------------------------------------------------------------
(* The sideband starts without a child and without calls. *)
LEMMA InitInv == Init => IInv
<1> SUFFICES ASSUME Init PROVE IInv
  OBVIOUS
<1>1. \A c \in Callers : caller[c] = Idle
  BY DEF Init
<1>2. \A p \in Processes : process[p] = Unused /\ ~process[p].up
  BY DEF Init, Unused, Spawned
<1>3. TypeOK
  BY <1>1, FirstRecords, TypeIsCalls DEF Init, CallOK
<1>4. Idle.at = "idle" /\ Idle.id = None
  BY DEF Idle
<1>5. QED
  BY <1>1, <1>2, <1>3, <1>4 DEF IInv, OneChild, IdsDistinct, UnsentAreKnown, AnswersFindCallers, At

(* Variables keep their types. *)
LEMMA TypeStep == ASSUME TypeOK, [Next]_vars PROVE TypeOK'
<1> USE TypeIsCalls
<1>1. /\ current \in Processes \cup {None}
      /\ process \in [Processes -> ProcessType]
      /\ caller \in [Callers -> CallType]
      /\ \A c \in Callers : CallOK(caller[c])
  OBVIOUS
<1>2. ASSUME caller' \in [Callers -> CallType], \A c \in Callers : CallOK(caller'[c]),
             process' \in [Processes -> ProcessType], current' \in Processes \cup {None}
      PROVE  TypeOK'
  BY <1>2 DEF TypeOK, CallOK, CallType, At
<1>3. ASSUME NEW c \in Callers, NEW r, CallOK(r), caller' = [caller EXCEPT ![c] = r]
      PROVE  caller' \in [Callers -> CallType] /\ \A d \in Callers : CallOK(caller'[d])
  BY <1>1, <1>3 DEF CallOK
<1>4. DropCurrent =>
        process' \in [Processes -> ProcessType] /\ current' \in Processes \cup {None}
  BY <1>1, DroppedRecord DEF DropCurrent
<1>0. ASSUME NEW p \in Processes, process' = [process EXCEPT ![p] = process'[p]],
             process'[p] \in ProcessType
      PROVE  process' \in [Processes -> ProcessType]
  BY <1>0, <1>1
<1>5. ASSUME NEW c \in Callers, Call(c) PROVE TypeOK'
  <2>1. CallOK([caller[c] EXCEPT !.at = "starting"])
    BY <1>1, <1>5 DEF Call, InCall, CallOK, CallType, Places
  <2>2. QED
    BY <1>1, <1>2, <1>3, <1>5, <2>1 DEF Call
<1>6. ASSUME NEW c \in Callers, EnsureChild(c) PROVE TypeOK'
  <2>1. ASSUME NEW p \in Processes
        PROVE  CallOK([caller[c] EXCEPT !.at = "inserting", !.on = p])
    BY <1>1, <1>6, NoneAssumption DEF EnsureChild, At, CallOK, CallType, Places
  <2>2. CASE Use(c)
    <3>1. current \in Processes /\ UNCHANGED <<current, process>>
          /\ caller' = [caller EXCEPT ![c] = [caller[c] EXCEPT !.at = "inserting", !.on = current]]
      BY <1>1, <2>2 DEF Use
    <3>2. QED
      BY <1>1, <1>2, <1>3, <2>1, <3>1
  <2>3. CASE Start(c)
    <3>1. current' \in Processes
      BY <2>3, ChosenIsForgotten DEF Start
    <3>2. caller' = [caller EXCEPT ![c] = [caller[c] EXCEPT !.at = "inserting", !.on = current']]
      BY <2>3 DEF Start
    <3>3. process' \in [Processes -> ProcessType]
      BY <1>1, <2>3, FirstRecords, DroppedRecord DEF Start
    <3>4. QED
      BY <1>2, <1>3, <2>1, <3>1, <3>2, <3>3
  <2>4. CASE StartFails(c)
    BY <1>2, <1>3, <1>4, <2>4, FirstRecords DEF StartFails
  <2>5. QED
    BY <1>6, <2>2, <2>3, <2>4 DEF EnsureChild
<1>7. ASSUME NEW c \in Callers, Insert(c) PROVE TypeOK'
  <2>1. FreshId \in Ids
    BY <1>7, FreshIdIsFresh DEF Insert
  <2>2. CallOK([caller[c] EXCEPT !.at = "queued", !.id = FreshId])
    BY <1>1, <1>7, <2>1, NoneAssumption DEF Insert, At, CallOK, CallType, Places
  <2>3. process' \in [Processes -> ProcessType]
    <3> DEFINE p == caller[c].on
    <3>1. p \in Processes
      BY <1>1, <1>7 DEF Insert, At, CallOK, CallType
    <3>2. /\ process' = [process EXCEPT ![p] = process'[p]]
          /\ process'[p] = [process[p] EXCEPT !.pending = @ \cup {FreshId}]
      BY <1>1, <1>7, <3>1 DEF Insert
    <3>3. process'[p] \in ProcessType
      BY <1>1, <2>1, <3>1, <3>2 DEF ProcessType
    <3>4. QED
      BY <1>0, <3>1, <3>2, <3>3
  <2>4. QED
    BY <1>1, <1>2, <1>3, <1>7, <2>2, <2>3 DEF Insert
<1>8. ASSUME NEW c \in Callers, LockStdin(c) \/ Blocks(c) PROVE TypeOK'
  <2>1. CASE LockStdin(c)
    <3>1. CallOK([caller[c] EXCEPT !.at = "writing"])
      BY <1>1, <2>1 DEF LockStdin, At, CallOK, CallType, Places
    <3>2. QED
      BY <1>1, <1>2, <1>3, <2>1, <3>1 DEF LockStdin
  <2>2. CASE Blocks(c)
    <3>1. CallOK([caller[c] EXCEPT !.at = "blocked"])
      BY <1>1, <2>2 DEF Blocks, At, CallOK, CallType, Places
    <3>2. QED
      BY <1>1, <1>2, <1>3, <2>2, <3>1 DEF Blocks
  <2>3. QED
    BY <1>8, <2>1, <2>2
<1>9. ASSUME NEW c \in Callers, Write(c) PROVE TypeOK'
  <2> DEFINE p == caller[c].on
  <2>1. /\ p \in Processes /\ caller[c].id \in Ids
        /\ CallOK([caller[c] EXCEPT !.at = "waiting"])
        /\ CallOK([caller[c] EXCEPT !.at = "resetting"])
    BY <1>1, <1>9 DEF Write, At, CallOK, CallType, Places
  <2>2. process' \in [Processes -> ProcessType]
    <3>1. CASE process' = [process EXCEPT ![p].torn = FALSE,
                             ![p].todo = IF process[p].torn \/ ~process[p].open THEN @
                                         ELSE @ \cup {caller[c].id}]
      <4>1. PICK S \in SUBSET Ids :
               /\ process' = [process EXCEPT ![p] = process'[p]]
               /\ process'[p] = [process[p] EXCEPT !.torn = FALSE, !.todo = S]
        <5> DEFINE S == IF process[p].torn \/ ~process[p].open THEN process[p].todo
                        ELSE process[p].todo \cup {caller[c].id}
        <5>1. S \in SUBSET Ids
          BY <1>1, <2>1 DEF ProcessType
        <5>2. process' = [process EXCEPT ![p].torn = FALSE, ![p].todo = S]
          BY <1>1, <2>1, <3>1
        <5> HIDE DEF S
        <5>3. QED
          BY <1>1, <2>1, <5>1, <5>2
      <4>2. process'[p] \in ProcessType
        <5> HIDE DEF p
        <5>1. process[p] \in ProcessType
          BY <1>1, <2>1
        <5>2. QED
          BY <4>1, <5>1 DEF ProcessType
      <4>3. QED
        BY <1>0, <2>1, <4>1, <4>2
    <3>2. CASE process' = [process EXCEPT ![p].pending = @ \ {caller[c].id}]
      <4>1. /\ process' = [process EXCEPT ![p] = process'[p]]
            /\ process'[p] = [process[p] EXCEPT !.pending = @ \ {caller[c].id}]
        BY <1>1, <2>1, <3>2
      <4>2. process'[p] \in ProcessType
        BY <1>1, <2>1, <4>1 DEF ProcessType
      <4>3. QED
        BY <1>0, <2>1, <4>1, <4>2
    <3>3. QED
      BY <1>9, <3>1, <3>2 DEF Write
  <2>3. QED
    BY <1>1, <1>2, <1>3, <1>9, <2>1, <2>2 DEF Write
<1>10. ASSUME NEW c \in Callers, Reset(c) \/ Disconnected(c) PROVE TypeOK'
  BY <1>1, <1>2, <1>3, <1>4, <1>10, FirstRecords DEF Reset, Disconnected
<1>11. ASSUME NEW c \in Callers, GiveUp(c) PROVE TypeOK'
  <2>1. process' \in [Processes -> ProcessType]
    <3> DEFINE p == caller[c].on
    <3>1. CASE At(c, {"blocked"}) /\ process' = [process EXCEPT ![p].torn = TRUE]
      <4>1. p \in Processes
        BY <1>1, <3>1 DEF At, CallOK, CallType
      <4>2. /\ process' = [process EXCEPT ![p] = process'[p]]
            /\ process'[p] = [process[p] EXCEPT !.torn = TRUE]
        BY <1>1, <3>1, <4>1
      <4>3. process'[p] \in ProcessType
        BY <1>1, <4>1, <4>2 DEF ProcessType
      <4>4. QED
        BY <1>0, <4>1, <4>2, <4>3
    <3>2. QED
      BY <1>1, <1>11, <3>1 DEF GiveUp
  <2>2. QED
    BY <1>1, <1>2, <1>3, <1>11, <2>1, FirstRecords DEF GiveUp
<1>12. ASSUME NEW p \in Processes, NEW ids, caller' = Answered(p, ids)
       PROVE  caller' \in [Callers -> CallType] /\ \A d \in Callers : CallOK(caller'[d])
  BY <1>1, <1>12, FirstRecords DEF Answered, CallOK
<1>13. ASSUME NEW p \in Processes, NEW id \in Ids, Route(p, id) \/ Reply(p, id) PROVE TypeOK'
  <2>1. process' \in [Processes -> ProcessType]
    BY <1>1, <1>13 DEF Route, Reply, ProcessType
  <2>2. QED
    BY <1>1, <1>2, <1>12, <1>13, <2>1 DEF Route, Reply
<1>14. ASSUME NEW p \in Processes, EndOfFile(p) \/ Exit(p) \/ CloseStdin(p) \/ CloseStdout(p)
       PROVE  TypeOK'
  <2>1. ASSUME EndOfFile(p) PROVE process' \in [Processes -> ProcessType]
    <3>1. /\ process' = [process EXCEPT ![p] = process'[p]]
          /\ process'[p] = [process[p] EXCEPT !.reading = FALSE, !.pending = {}]
      BY <1>1, <2>1 DEF EndOfFile
    <3>2. QED
      BY <1>0, <1>1, <3>1 DEF ProcessType
  <2>2. ASSUME Exit(p) PROVE process' \in [Processes -> ProcessType]
    <3>1. /\ process' = [process EXCEPT ![p] = process'[p]]
          /\ process'[p] = [process[p] EXCEPT !.up = FALSE, !.hears = FALSE, !.open = FALSE,
                                              !.todo = {}, !.torn = FALSE]
      BY <1>1, <2>2 DEF Exit
    <3>2. QED
      BY <1>0, <1>1, <3>1 DEF ProcessType
  <2>3. ASSUME CloseStdout(p) PROVE process' \in [Processes -> ProcessType]
    <3>1. /\ process' = [process EXCEPT ![p] = process'[p]]
          /\ process'[p] = [process[p] EXCEPT !.open = FALSE, !.todo = {}]
      BY <1>1, <2>3 DEF CloseStdout
    <3>2. QED
      BY <1>0, <1>1, <3>1 DEF ProcessType
  <2>4. ASSUME CloseStdin(p) PROVE process' \in [Processes -> ProcessType]
    <3>1. PICK read \in SUBSET process[p].todo :
            process' = [process EXCEPT ![p].hears = FALSE, ![p].todo = read, ![p].torn = FALSE]
      BY <2>4 DEF CloseStdin
    <3>2. /\ process' = [process EXCEPT ![p] = process'[p]]
          /\ process'[p] = [process[p] EXCEPT !.hears = FALSE, !.todo = read, !.torn = FALSE]
      BY <1>1, <3>1
    <3>3. read \subseteq Ids
      BY <1>1 DEF ProcessType
    <3>4. QED
      BY <1>0, <1>1, <3>2, <3>3 DEF ProcessType
  <2>5. process' \in [Processes -> ProcessType]
    BY <1>14, <2>1, <2>2, <2>3, <2>4
  <2>6. QED
    BY <1>1, <1>2, <1>12, <1>14, <2>5 DEF EndOfFile, Exit, CloseStdin, CloseStdout
<1>15. CASE UNCHANGED vars
  BY <1>1, <1>2, <1>15 DEF vars
<1>16. QED
  BY <1>5, <1>6, <1>7, <1>8, <1>9, <1>10, <1>11, <1>13, <1>14, <1>15 DEF Next, Dispatch

-------------------------------------------------------------------------------
(* A child that runs is the current one. *)
LEMMA OneChildStep == ASSUME TypeOK, OneChild, [Next]_vars PROVE OneChild'
<1>1. /\ current \in Processes \cup {None}
      /\ process \in [Processes -> ProcessType]
      /\ \A c \in Callers : CallOK(caller[c])
  BY TypeIsCalls
<1>2. ASSUME current' = current, \A p \in Processes : process'[p].up => process[p].up
      PROVE  OneChild'
  BY <1>2 DEF OneChild
<1>3. ASSUME DropCurrent PROVE OneChild'
  BY <1>1, <1>3, DroppedRecord DEF DropCurrent, OneChild
<1>4. ASSUME NEW c \in Callers, EnsureChild(c) PROVE OneChild'
  <2>1. CASE Use(c)
    BY <1>2, <2>1 DEF Use
  <2>2. CASE Start(c)
    BY <1>1, <2>2, DroppedRecord DEF Start, OneChild
  <2>3. QED
    BY <1>3, <1>4, <2>1, <2>2 DEF EnsureChild, StartFails
<1>5. ASSUME NEW c \in Callers, At(c, {"inserting", "writing", "blocked"})
      PROVE  caller[c].on \in Processes
  BY <1>1, <1>5 DEF At, CallOK, CallType
<1>6. ASSUME NEW c \in Callers, Insert(c) PROVE OneChild'
  <2>1. caller[c].on \in Processes
    BY <1>5, <1>6 DEF Insert, At
  <2>2. QED
    BY <1>1, <1>2, <1>6, <2>1 DEF Insert, ProcessType
<1>7. ASSUME NEW c \in Callers, Write(c) PROVE OneChild'
  <2>1. caller[c].on \in Processes
    BY <1>5, <1>7 DEF Write, At
  <2>2. QED
    BY <1>1, <1>2, <1>7, <2>1 DEF Write, ProcessType
<1>8. ASSUME NEW c \in Callers, GiveUp(c) PROVE OneChild'
  <2>1. CASE At(c, {"blocked"})
    <3>1. caller[c].on \in Processes
      BY <1>5, <2>1 DEF At
    <3>2. QED
      BY <1>1, <1>2, <1>8, <3>1 DEF GiveUp, ProcessType
  <2>2. QED
    BY <1>2, <1>8, <2>1 DEF GiveUp
<1>9. ASSUME NEW c \in Callers, Reset(c) PROVE OneChild'
  BY <1>3, <1>9 DEF Reset
<1>10. ASSUME NEW c \in Callers, Call(c) \/ LockStdin(c) \/ Blocks(c) \/ Disconnected(c)
       PROVE  OneChild'
  BY <1>2, <1>10 DEF Call, LockStdin, Blocks, Disconnected
<1>11. ASSUME NEW p \in Processes, NEW id \in Ids, Route(p, id) \/ Reply(p, id) PROVE OneChild'
  BY <1>1, <1>2, <1>11 DEF Route, Reply, ProcessType
<1>12. ASSUME NEW p \in Processes, EndOfFile(p) \/ Exit(p) \/ CloseStdin(p) \/ CloseStdout(p)
       PROVE  OneChild'
  <2>1. CASE EndOfFile(p)
    BY <1>1, <1>2, <2>1 DEF EndOfFile, ProcessType
  <2>2. CASE Exit(p)
    BY <1>1, <1>2, <2>2 DEF Exit, ProcessType
  <2>3. CASE CloseStdin(p)
    BY <1>1, <1>2, <2>3 DEF CloseStdin, ProcessType
  <2>4. CASE CloseStdout(p)
    BY <1>1, <1>2, <2>4 DEF CloseStdout, ProcessType
  <2>5. QED
    BY <1>12, <2>1, <2>2, <2>3, <2>4
<1>13. CASE UNCHANGED vars
  BY <1>2, <1>13 DEF vars
<1>14. QED
  BY <1>4, <1>6, <1>7, <1>8, <1>9, <1>10, <1>11, <1>12, <1>13 DEF Next, Dispatch

-------------------------------------------------------------------------------
(* Requests and the entries that wait for their answers. *)

Unsent == {"queued", "writing", "blocked"}

Matched == IdsDistinct /\ UnsentAreKnown /\ AnswersFindCallers

(* What the proofs use of the invariant, about one call. *)
LEMMA MatchedCalls ==
    ASSUME TypeOK, Matched, NEW c \in Callers
    PROVE  /\ caller[c].at \in Unsent \cup {"waiting"} =>
                caller[c].on \in Processes /\ caller[c].id \in Ids /\ caller[c].id # None
           /\ caller[c].at \in Unsent =>
                /\ process[caller[c].on].reading => caller[c].id \in process[caller[c].on].pending
                /\ \A p \in Processes : caller[c].id \notin process[p].todo \cup process[p].replies
           /\ caller[c].at = "waiting" /\ process[caller[c].on].reading
              /\ caller[c].id \in process[caller[c].on].todo \cup process[caller[c].on].replies
              => caller[c].id \in process[caller[c].on].pending
           /\ caller[c].id # None => \A d \in Callers \ {c} : caller[d].id # caller[c].id
<1>1. CallOK(caller[c])
  BY TypeIsCalls
<1>2. caller[c].at \in Unsent \cup {"waiting"} =>
         caller[c].on \in Processes /\ caller[c].id \in Ids /\ caller[c].id # None
  BY <1>1, NoneAssumption DEF CallOK, CallType, Unsent
<1>3. QED
  BY <1>2 DEF Matched, IdsDistinct, UnsentAreKnown, AnswersFindCallers, At, Unsent

(* Conversely, this much about every call is the invariant. *)
LEMMA MatchedFromCalls ==
    ASSUME TypeOK',
           \A c, d \in Callers : caller'[c].id = caller'[d].id /\ caller'[c].id # None => c = d,
           \A c \in Callers : caller'[c].at \in Unsent =>
                /\ process'[caller'[c].on].reading
                      => caller'[c].id \in process'[caller'[c].on].pending
                /\ \A p \in Processes :
                      caller'[c].id \notin process'[p].todo \cup process'[p].replies,
           \A c \in Callers :
                caller'[c].at = "waiting" /\ process'[caller'[c].on].reading
                /\ caller'[c].id \in process'[caller'[c].on].todo \cup process'[caller'[c].on].replies
                => caller'[c].id \in process'[caller'[c].on].pending
    PROVE  Matched'
<1>1. \A c \in Callers : caller'[c].at = "waiting" => caller'[c].id # None
  BY DEF TypeOK, At
<1>2. QED
  BY <1>1 DEF Matched, IdsDistinct, UnsentAreKnown, AnswersFindCallers, At, Unsent

(* Most steps let calls go on or end, take requests away from the child,   *)
(* and keep the entries of the calls that need them.                       *)
GoesOn(c) == \/ caller'[c].id = None
             \/ /\ caller'[c].id = caller[c].id
                /\ caller'[c].on = caller[c].on
                /\ \/ caller'[c].at = caller[c].at
                   \/ caller'[c].at \in Unsent /\ caller[c].at \in Unsent
                   \/ caller'[c].at \notin Unsent \cup {"waiting"}

KeepsEntry(c) == LET p == caller[c].on
                 IN  process'[p].reading =>
                        /\ process[p].reading
                        /\ caller[c].id \in process[p].pending => caller[c].id \in process'[p].pending

SendsNothing == \A p \in Processes :
    process'[p].todo \cup process'[p].replies \subseteq process[p].todo \cup process[p].replies

(* A step that sends nothing and leaves the entries of the calls alone. *)
LEMMA MatchedKept ==
    ASSUME TypeOK, TypeOK', Matched, SendsNothing,
           \A c \in Callers : GoesOn(c),
           \A c \in Callers : caller'[c].at \in Unsent \cup {"waiting"} => KeepsEntry(c)
    PROVE  Matched'
<1>1. \A c \in Callers : caller'[c].at \in Unsent \cup {"waiting"} => caller'[c].id # None
  BY DEF TypeOK, At, Unsent
<1>2. ASSUME NEW c \in Callers, NEW d \in Callers, caller'[c].id = caller'[d].id,
             caller'[c].id # None
      PROVE  c = d
  BY <1>2 DEF GoesOn, Matched, IdsDistinct
<1>3. ASSUME NEW c \in Callers, caller'[c].at \in Unsent
      PROVE  /\ process'[caller'[c].on].reading
                   => caller'[c].id \in process'[caller'[c].on].pending
             /\ \A p \in Processes :
                   caller'[c].id \notin process'[p].todo \cup process'[p].replies
  <2>1. caller'[c].id = caller[c].id /\ caller'[c].on = caller[c].on /\ caller[c].at \in Unsent
    BY <1>1, <1>3 DEF GoesOn, Unsent
  <2>2. QED
    BY <1>3, <2>1, MatchedCalls DEF KeepsEntry, SendsNothing
<1>4. ASSUME NEW c \in Callers, caller'[c].at = "waiting", process'[caller'[c].on].reading,
             caller'[c].id \in process'[caller'[c].on].todo \cup process'[caller'[c].on].replies
      PROVE  caller'[c].id \in process'[caller'[c].on].pending
  <2>1. caller'[c].id = caller[c].id /\ caller'[c].on = caller[c].on /\ caller[c].at = "waiting"
    BY <1>1, <1>4 DEF GoesOn, Unsent
  <2>2. QED
    BY <1>4, <2>1, MatchedCalls DEF KeepsEntry, SendsNothing
<1>5. QED
  BY <1>2, <1>3, <1>4, MatchedFromCalls

(* Every step keeps calls and pending maps matched. *)
LEMMA MatchedStep == ASSUME TypeOK, TypeOK', Matched, [Next]_vars PROVE Matched'
<1>1. /\ process \in [Processes -> ProcessType]
      /\ caller \in [Callers -> CallType]
      /\ \A c \in Callers : CallOK(caller[c])
      /\ caller' \in [Callers -> CallType]
  BY TypeIsCalls DEF TypeOK, CallType
<1>2. ASSUME NEW c \in Callers, caller' = [caller EXCEPT ![c] = caller'[c]], GoesOn(c)
      PROVE  \A d \in Callers : GoesOn(d)
  BY <1>1, <1>2 DEF GoesOn
<1>3. ASSUME process' = process, \A c \in Callers : GoesOn(c) PROVE Matched'
  BY <1>3, MatchedKept DEF SendsNothing, KeepsEntry
<1>4. Idle.id = None
  BY DEF Idle
<1>5. ASSUME NEW c \in Callers,
             Call(c) \/ (Use(c) /\ At(c, {"starting"})) \/ LockStdin(c) \/ Blocks(c) \/ Disconnected(c)
      PROVE  Matched'
  <2>1. process' = process /\ caller' = [caller EXCEPT ![c] = caller'[c]]
    BY <1>1, <1>5 DEF Call, Use, LockStdin, Blocks, Disconnected
  <2>2. CASE Call(c)
    BY <1>1, <1>2, <1>3, <2>1, <2>2 DEF Call, InCall, CallOK, GoesOn, CallType
  <2>3. CASE Use(c) /\ At(c, {"starting"})
    BY <1>1, <1>2, <1>3, <2>1, <2>3 DEF Use, At, CallOK, GoesOn, CallType
  <2>4. CASE LockStdin(c)
    BY <1>1, <1>2, <1>3, <2>1, <2>4 DEF LockStdin, At, GoesOn, CallType, Unsent
  <2>5. CASE Blocks(c)
    BY <1>1, <1>2, <1>3, <2>1, <2>5 DEF Blocks, At, GoesOn, CallType, Unsent
  <2>6. CASE Disconnected(c)
    BY <1>1, <1>2, <1>3, <1>4, <2>1, <2>6 DEF Disconnected, GoesOn
  <2>7. QED
    BY <1>5, <2>2, <2>3, <2>4, <2>5, <2>6
<1>6. ASSUME DropCurrent, \A c \in Callers : GoesOn(c) PROVE Matched'
  <2>1. ASSUME NEW p \in Processes
        PROVE  /\ process'[p].todo \cup process'[p].replies
                    \subseteq process[p].todo \cup process[p].replies
               /\ process'[p].reading => process'[p] = process[p]
    BY <1>1, <1>6, DroppedRecord DEF DropCurrent
  <2>2. \A c \in Callers : caller'[c].at \in Unsent \cup {"waiting"} => KeepsEntry(c)
    <3>1. ASSUME NEW c \in Callers, caller'[c].at \in Unsent \cup {"waiting"}
          PROVE  caller[c].on \in Processes
      BY <1>6, <3>1, MatchedCalls DEF GoesOn, TypeOK, At, Unsent
    <3>2. QED
      BY <2>1, <3>1 DEF KeepsEntry
  <2>3. QED
    BY <1>6, <2>1, <2>2, MatchedKept DEF SendsNothing
<1>7. ASSUME NEW c \in Callers, StartFails(c) \/ Reset(c) PROVE Matched'
  BY <1>1, <1>2, <1>4, <1>6, <1>7 DEF StartFails, Reset, GoesOn
<1>8. ASSUME NEW c \in Callers, At(c, {"starting"}), Start(c) PROVE Matched'
  <2>1. /\ current' \in Processes /\ Forgotten(current')
        /\ caller' = [caller EXCEPT ![c].at = "inserting", ![c].on = current']
        /\ \A p \in Processes : process'[p] = IF p = current' THEN Spawned
                                              ELSE IF p = current THEN Dropped(process[p])
                                              ELSE process[p]
    BY <1>8, ChosenIsForgotten DEF Start
  <2>2. caller[c].id = None
    BY <1>1, <1>8 DEF At, CallOK
  <2>3. \A d \in Callers : GoesOn(d)
    BY <1>1, <2>1, <2>2 DEF GoesOn, CallType
  <2>4. SendsNothing
    BY <1>1, <2>1, DroppedRecord DEF SendsNothing, Spawned
  <2>5. ASSUME NEW d \in Callers, caller'[d].at \in Unsent \cup {"waiting"} PROVE KeepsEntry(d)
    <3>1. d # c /\ caller'[d] = caller[d]
      BY <1>1, <2>1, <2>5 DEF Unsent, CallType
    <3>2. caller[d].on \in Processes /\ caller[d].on # current'
      BY <2>1, <2>5, <3>1, MatchedCalls DEF Forgotten
    <3>3. QED
      BY <1>1, <2>1, <3>2, DroppedRecord DEF KeepsEntry
  <2>6. QED
    BY <2>3, <2>4, <2>5, MatchedKept
<1>9. ASSUME NEW c \in Callers, Insert(c) PROVE Matched'
  <2> DEFINE p == caller[c].on
  <2>1. /\ FreshId \in Ids /\ FreshId # None
        /\ \A d \in Callers : caller[d].id # FreshId
        /\ \A q \in Processes : FreshId \notin process[q].todo \cup process[q].replies
    BY <1>9, FreshIdIsFresh DEF Insert
  <2>2. p \in Processes
    BY <1>1, <1>9 DEF Insert, At, CallOK, CallType
  <2> HIDE DEF p
  <2>3. /\ \A q \in Processes \ {p} : process'[q] = process[q]
        /\ process'[p] = [process[p] EXCEPT !.pending = @ \cup {FreshId}]
    BY <1>1, <1>9, <2>2 DEF Insert, p
  <2>4. /\ \A q \in Processes : /\ process'[q].todo = process[q].todo
                                /\ process'[q].replies = process[q].replies
                                /\ process'[q].reading = process[q].reading
                                /\ process[q].pending \subseteq process'[q].pending
        /\ FreshId \in process'[p].pending
    BY <1>1, <2>2, <2>3 DEF ProcessType
  <2>5. /\ caller'[c].at = "queued" /\ caller'[c].id = FreshId /\ caller'[c].on = p
        /\ \A d \in Callers \ {c} : caller'[d] = caller[d]
    BY <1>1, <1>9 DEF Insert, CallType, p
  <2>6. \A d, e \in Callers : caller'[d].id = caller'[e].id /\ caller'[d].id # None => d = e
    BY <2>1, <2>5 DEF Matched, IdsDistinct
  <2>7. ASSUME NEW d \in Callers, caller'[d].at \in Unsent
        PROVE  /\ process'[caller'[d].on].reading
                      => caller'[d].id \in process'[caller'[d].on].pending
               /\ \A q \in Processes :
                      caller'[d].id \notin process'[q].todo \cup process'[q].replies
    <3>1. CASE d = c
      BY <2>1, <2>4, <2>5, <3>1
    <3>2. CASE d # c
      BY <2>4, <2>5, <2>7, <3>2, MatchedCalls
    <3>3. QED
      BY <3>1, <3>2
  <2>8. ASSUME NEW d \in Callers, caller'[d].at = "waiting", process'[caller'[d].on].reading,
               caller'[d].id \in process'[caller'[d].on].todo \cup process'[caller'[d].on].replies
        PROVE  caller'[d].id \in process'[caller'[d].on].pending
    <3>1. d # c /\ caller'[d] = caller[d]
      BY <2>5, <2>8
    <3>2. QED
      BY <2>4, <2>8, <3>1, MatchedCalls
  <2>9. QED
    BY <2>6, <2>7, <2>8, MatchedFromCalls
<1>10. ASSUME NEW c \in Callers, Write(c) PROVE Matched'
  <2> DEFINE p == caller[c].on
             id == caller[c].id
  <2>1. /\ caller[c].at \in Unsent /\ p \in Processes /\ id \in Ids /\ id # None
        /\ process[p].reading => id \in process[p].pending
        /\ \A d \in Callers \ {c} : caller[d].id # id
    BY <1>10, MatchedCalls DEF Write, At, Unsent
  <2>2. CASE /\ process' = [process EXCEPT ![p].pending = @ \ {id}]
             /\ caller' = [caller EXCEPT ![c].at = "resetting"]
    <3>1. /\ caller'[c].at = "resetting" /\ caller'[c].id = id /\ caller'[c].on = p
          /\ \A d \in Callers \ {c} : caller'[d] = caller[d]
      BY <1>1, <2>2 DEF CallType
    <3>2. /\ \A q \in Processes : /\ process'[q].todo = process[q].todo
                                  /\ process'[q].replies = process[q].replies
                                  /\ process'[q].reading = process[q].reading
                                  /\ process[q].pending \ {id} \subseteq process'[q].pending
      BY <1>1, <2>1, <2>2 DEF ProcessType
    <3> HIDE DEF p, id
    <3>3. \A d \in Callers : GoesOn(d)
      BY <3>1 DEF GoesOn, Unsent, p, id
    <3>4. ASSUME NEW d \in Callers, caller'[d].at \in Unsent \cup {"waiting"} PROVE KeepsEntry(d)
      <4>1. d # c /\ caller[d].on \in Processes /\ caller[d].id # id
        BY <2>1, <3>1, <3>4, MatchedCalls DEF Unsent
      <4>2. QED
        BY <3>2, <4>1 DEF KeepsEntry
    <3>5. QED
      BY <3>2, <3>3, <3>4, MatchedKept DEF SendsNothing
  <2>3. CASE /\ process' = [process EXCEPT ![p].torn = FALSE,
                              ![p].todo = IF process[p].torn \/ ~process[p].open THEN @
                                          ELSE @ \cup {id}]
             /\ caller' = [caller EXCEPT ![c].at = "waiting"]
    <3>1. /\ caller'[c].at = "waiting" /\ caller'[c].id = id /\ caller'[c].on = p
          /\ \A d \in Callers \ {c} : caller'[d] = caller[d]
      BY <1>1, <2>3 DEF CallType
    <3>2. \A q \in Processes : /\ process'[q].todo \subseteq process[q].todo \cup {id}
                               /\ process'[q].replies = process[q].replies
                               /\ process'[q].reading = process[q].reading
                               /\ process'[q].pending = process[q].pending
      BY <1>1, <2>1, <2>3 DEF ProcessType
    <3> HIDE DEF p, id
    <3>3. \A d, e \in Callers : caller'[d].id = caller'[e].id /\ caller'[d].id # None => d = e
      BY <2>1, <3>1 DEF Matched, IdsDistinct, p, id
    <3>4. ASSUME NEW d \in Callers, caller'[d].at \in Unsent
          PROVE  /\ process'[caller'[d].on].reading
                        => caller'[d].id \in process'[caller'[d].on].pending
                 /\ \A q \in Processes :
                        caller'[d].id \notin process'[q].todo \cup process'[q].replies
      <4>1. d # c /\ caller'[d] = caller[d] /\ caller[d].id # id
        BY <2>1, <3>1, <3>4 DEF Unsent
      <4>2. QED
        BY <3>2, <3>4, <4>1, MatchedCalls
    <3>5. ASSUME NEW d \in Callers, caller'[d].at = "waiting", process'[caller'[d].on].reading,
                 caller'[d].id \in process'[caller'[d].on].todo \cup process'[caller'[d].on].replies
          PROVE  caller'[d].id \in process'[caller'[d].on].pending
      <4>1. CASE d = c
        BY <2>1, <3>1, <3>2, <3>5, <4>1
      <4>2. CASE d # c
        <5>1. caller'[d] = caller[d] /\ caller[d].id # id /\ caller[d].on \in Processes
          BY <2>1, <3>1, <3>5, <4>2, MatchedCalls
        <5>2. QED
          BY <3>2, <3>5, <5>1, MatchedCalls
      <4>3. QED
        BY <4>1, <4>2
    <3>6. QED
      BY <3>3, <3>4, <3>5, MatchedFromCalls
  <2>4. QED
    BY <1>10, <2>2, <2>3 DEF Write
<1>11. ASSUME NEW c \in Callers, GiveUp(c) PROVE Matched'
  <2>1. \A q \in Processes : /\ process'[q].todo = process[q].todo
                             /\ process'[q].replies = process[q].replies
                             /\ process'[q].reading = process[q].reading
                             /\ process'[q].pending = process[q].pending
    <3>1. CASE process' = [process EXCEPT ![caller[c].on].torn = TRUE]
      BY <1>1, <3>1 DEF ProcessType
    <3>2. QED
      BY <1>11, <3>1 DEF GiveUp
  <2>2. \A d \in Callers : GoesOn(d)
    BY <1>1, <1>2, <1>4, <1>11 DEF GiveUp, GoesOn
  <2>3. \A d \in Callers : caller'[d].at \in Unsent \cup {"waiting"} => KeepsEntry(d)
    <3>1. \A d \in Callers : caller'[d].at \in Unsent \cup {"waiting"} => caller[d].on \in Processes
      BY <2>2, MatchedCalls DEF GoesOn, TypeOK, At, Unsent
    <3>2. QED
      BY <2>1, <3>1 DEF KeepsEntry
  <2>4. QED
    BY <2>1, <2>2, <2>3, MatchedKept DEF SendsNothing
<1>12. ASSUME NEW p \in Processes, NEW ids, caller' = Answered(p, ids)
       PROVE  \A c \in Callers : \/ caller'[c] = caller[c]
                                 \/ /\ caller'[c] = Idle /\ caller[c].at = "waiting"
                                    /\ caller[c].on = p /\ caller[c].id \in ids
  BY <1>12 DEF Answered, At
<1>13. ASSUME NEW p \in Processes, NEW id \in Ids, Route(p, id) PROVE Matched'
  <2>1. /\ \A q \in Processes \ {p} : process'[q] = process[q]
        /\ process'[p].todo = process[p].todo
        /\ process'[p].replies \subseteq process[p].replies
        /\ process'[p].reading = process[p].reading
        /\ process'[p].pending = process[p].pending \ {id}
        /\ id \in process[p].replies /\ process[p].reading
    BY <1>1, <1>13 DEF Route, ProcessType
  <2>2. caller' = Answered(p, {id} \cap process[p].pending)
    BY <1>13 DEF Route
  <2>3. \A c \in Callers : GoesOn(c)
    BY <1>4, <1>12, <2>2 DEF GoesOn
  <2>4. ASSUME NEW c \in Callers, caller'[c].at \in Unsent \cup {"waiting"} PROVE KeepsEntry(c)
    <3>1. caller'[c] = caller[c] /\ caller[c].on \in Processes
      BY <1>12, <2>2, <2>4, MatchedCalls DEF Unsent, Idle
    <3>2. CASE caller[c].on # p
      BY <2>1, <3>1, <3>2 DEF KeepsEntry
    <3>3. CASE caller[c].on = p /\ caller[c].id = id
      <4>1. caller[c].at = "waiting" /\ id \in process[p].pending
        BY <2>1, <2>4, <3>1, <3>3, MatchedCalls DEF Unsent
      <4>2. caller'[c] = Idle
        BY <2>2, <3>3, <4>1 DEF Answered, At
      <4>3. QED
        BY <2>4, <4>2 DEF Idle, Unsent
    <3>4. CASE caller[c].on = p /\ caller[c].id # id
      BY <2>1, <3>1, <3>4 DEF KeepsEntry
    <3>5. QED
      BY <3>2, <3>3, <3>4
  <2>5. QED
    BY <2>1, <2>3, <2>4, MatchedKept DEF SendsNothing
<1>14. ASSUME NEW p \in Processes, NEW id \in Ids, Reply(p, id) PROVE Matched'
  <2>1. \A q \in Processes : /\ process'[q].todo \cup process'[q].replies
                                   \subseteq process[q].todo \cup process[q].replies
                             /\ process'[q].reading = process[q].reading
                             /\ process'[q].pending = process[q].pending
    BY <1>1, <1>14 DEF Reply, ProcessType
  <2>2. caller' = caller
    BY <1>14 DEF Reply
  <2>3. \A c \in Callers : caller[c].at \in Unsent \cup {"waiting"} => caller[c].on \in Processes
    BY MatchedCalls
  <2>4. QED
    BY <2>1, <2>2, <2>3, MatchedKept DEF GoesOn, KeepsEntry, SendsNothing
<1>15. ASSUME NEW p \in Processes, EndOfFile(p) PROVE Matched'
  <2>1. /\ \A q \in Processes \ {p} : process'[q] = process[q]
        /\ process'[p].todo = process[p].todo
        /\ process'[p].replies = process[p].replies
        /\ ~process'[p].reading
    BY <1>1, <1>15 DEF EndOfFile, ProcessType
  <2>2. caller' = Answered(p, process[p].pending)
    BY <1>15 DEF EndOfFile
  <2>3. \A c \in Callers : GoesOn(c)
    BY <1>4, <1>12, <2>2 DEF GoesOn
  <2>4. \A c \in Callers : caller'[c].at \in Unsent \cup {"waiting"} =>
                           caller'[c] = caller[c] /\ caller[c].on \in Processes
    BY <1>12, <2>2, MatchedCalls DEF Unsent, Idle
  <2>5. \A c \in Callers : caller'[c].at \in Unsent \cup {"waiting"} => KeepsEntry(c)
    BY <2>1, <2>4 DEF KeepsEntry
  <2>6. QED
    BY <2>1, <2>3, <2>5, MatchedKept DEF SendsNothing
<1>16. ASSUME NEW p \in Processes, Exit(p) \/ CloseStdin(p) \/ CloseStdout(p) PROVE Matched'
  <2>1. \A q \in Processes : /\ process'[q].todo \subseteq process[q].todo
                             /\ process'[q].replies = process[q].replies
                             /\ process'[q].reading = process[q].reading
                             /\ process'[q].pending = process[q].pending
    <3>1. CASE Exit(p)
      BY <1>1, <3>1 DEF Exit, ProcessType
    <3>2. CASE CloseStdout(p)
      BY <1>1, <3>2 DEF CloseStdout, ProcessType
    <3>3. CASE CloseStdin(p)
      BY <1>1, <3>3 DEF CloseStdin, ProcessType
    <3>4. QED
      BY <1>16, <3>1, <3>2, <3>3
  <2>2. caller' = caller
    BY <1>16 DEF Exit, CloseStdin, CloseStdout
  <2>3. \A c \in Callers : caller[c].at \in Unsent \cup {"waiting"} => caller[c].on \in Processes
    BY MatchedCalls
  <2>4. QED
    BY <2>1, <2>2, <2>3, MatchedKept DEF GoesOn, KeepsEntry, SendsNothing
<1>17. CASE UNCHANGED vars
  <2>1. caller' = caller /\ process' = process
    BY <1>17 DEF vars
  <2>2. \A c \in Callers : GoesOn(c)
    BY <2>1 DEF GoesOn
  <2>3. QED
    BY <1>3, <2>1, <2>2
<1>18. ASSUME NEW c \in Callers, EnsureChild(c) PROVE Matched'
  BY <1>5, <1>7, <1>8, <1>18 DEF EnsureChild
<1>19. ASSUME NEW c \in Callers,
              Call(c) \/ Dispatch(c) \/ Blocks(c) \/ Disconnected(c) \/ GiveUp(c)
       PROVE  Matched'
  BY <1>5, <1>7, <1>9, <1>10, <1>11, <1>18, <1>19 DEF Dispatch
<1>20. ASSUME NEW p \in Processes,
              \/ EndOfFile(p) \/ Exit(p) \/ CloseStdin(p) \/ CloseStdout(p)
              \/ \E id \in Ids : Route(p, id) \/ Reply(p, id)
       PROVE  Matched'
  BY <1>13, <1>14, <1>15, <1>16, <1>20
<1>21. QED
  BY <1>17, <1>19, <1>20 DEF Next

-------------------------------------------------------------------------------
(* The inductive invariant of the sideband holds in every reachable state. *)
THEOREM Invariance == Spec => []IInv
<1>1. Init => IInv
  BY InitInv
<1>2. IInv /\ [Next]_vars => IInv'
  <2> SUFFICES ASSUME IInv, [Next]_vars PROVE IInv'
    OBVIOUS
  <2>1. TypeOK'
    BY TypeStep DEF IInv
  <2>2. OneChild'
    BY OneChildStep DEF IInv
  <2>3. Matched'
    BY <2>1, MatchedStep DEF IInv, Matched
  <2>4. QED
    BY <2>1, <2>2, <2>3 DEF IInv, Matched
<1>3. QED
  BY <1>1, <1>2, PTL DEF Spec

(* Variables keep their types, and a call knows its process and request    *)
(* exactly while it needs them.                                            *)
THEOREM TypeCorrect == Spec => []TypeOK
<1>1. IInv => TypeOK
  BY DEF IInv
<1>2. QED
  BY <1>1, Invariance, PTL

(* At most one child runs, and it is the current one.                      *)
THEOREM NoOrphans == Spec => []OneChild
<1>1. IInv => OneChild
  BY DEF IInv
<1>2. QED
  BY <1>1, Invariance, PTL

(* Calls that wait at the same time wait for different requests, and an    *)
(* answer that is still to come finds its caller's entry.                  *)
THEOREM AnswersArrive == Spec => []AnswersFindCallers
<1>1. IInv => AnswersFindCallers
  BY DEF IInv
<1>2. QED
  BY <1>1, Invariance, PTL
===============================================================================
