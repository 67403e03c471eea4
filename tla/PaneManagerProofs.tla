--------------------------- MODULE PaneManagerProofs ---------------------------
(***************************************************************************)
(* Proofs about PaneManager, for every limit on panes and every bound on   *)
(* the ids; where ids matter, for local ids that stay below RemoteBase.    *)
(***************************************************************************)
EXTENDS PaneManager, FiniteSetTheorems, TLAPS

(* There are finitely many ids, so sets of panes have a cardinality. *)
LEMMA PaneIdsFinite == IsFiniteSet(PaneIds)
<1>1. IsFiniteSet(LocalIds)
  BY BoundsAssumption, FS_Interval DEF LocalIds
<1>2. RemoteBase + MaxRemote - 1 \in Int
  BY BoundsAssumption, BaseAssumption
<1>3. IsFiniteSet(RemoteIds)
  BY <1>2, BaseAssumption, FS_Interval DEF RemoteIds
<1>4. QED
  BY <1>1, <1>3, FS_Union DEF PaneIds

(* Every set of pane ids is finite, and its size a natural number. *)
LEMMA Countable ==
    ASSUME NEW S \in SUBSET PaneIds
    PROVE  IsFiniteSet(S) /\ Cardinality(S) \in Nat
BY PaneIdsFinite, FS_Subset, FS_CardinalityType

(* What retain leaves of a sequence without duplicates. *)
LEMMA WithoutElement ==
    ASSUME NEW T, NEW seq \in Seq(T), NEW id,
           \A i, j \in 1 .. Len(seq) : seq[i] = seq[j] => i = j
    PROVE  /\ Without(seq, id) \in Seq(T)
           /\ Range(Without(seq, id)) = Range(seq) \ {id}
           /\ \A i, j \in 1 .. Len(Without(seq, id)) :
                 Without(seq, id)[i] = Without(seq, id)[j] => i = j
<1>1. CASE id \notin Range(seq)
  BY <1>1 DEF Without
<1>2. CASE id \in Range(seq)
  <2> DEFINE p == PositionIn(seq, id)
             w == Without(seq, id)
  <2>1. p \in 1 .. Len(seq) /\ seq[p] = id
    BY <1>2 DEF PositionIn, Range
  <2>2. w = [i \in 1 .. Len(seq) - 1 |-> IF i < p THEN seq[i] ELSE seq[i + 1]]
    BY <1>2 DEF Without
  <2>3. Len(seq) - 1 \in Nat /\ Len(seq) \in Nat
    BY <2>1
  <2> HIDE DEF p
  <2>4. \A i \in 1 .. Len(seq) - 1 : w[i] = (IF i < p THEN seq[i] ELSE seq[i + 1])
    BY <2>2
  <2> HIDE DEF w
  <2>5. w \in Seq(T) /\ Len(w) = Len(seq) - 1 /\ DOMAIN w = 1 .. Len(seq) - 1
    BY <2>1, <2>2, <2>3
  <2>6. \A i, j \in 1 .. Len(w) : w[i] = w[j] => i = j
    BY <2>1, <2>3, <2>4, <2>5
  <2>7. ASSUME NEW i \in 1 .. Len(seq), i # p PROVE seq[i] \in Range(w)
    <3>1. CASE i < p
      <4>1. i \in DOMAIN w /\ w[i] = seq[i]
        BY <2>1, <2>3, <2>4, <2>5, <3>1
      <4>2. QED
        BY <4>1 DEF Range
    <3>2. CASE i > p
      <4>1. i - 1 \in DOMAIN w /\ w[i - 1] = seq[i]
        BY <2>1, <2>3, <2>4, <2>5, <3>2
      <4>2. QED
        BY <4>1 DEF Range
    <3>3. QED
      BY <2>1, <2>3, <2>7, <3>1, <3>2
  <2>8. ASSUME NEW i \in DOMAIN w PROVE w[i] \in Range(seq) \ {id}
    <3>1. CASE i < p
      <4>1. i \in 1 .. Len(seq) /\ i # p /\ w[i] = seq[i]
        BY <2>1, <2>3, <2>4, <2>5, <3>1
      <4>2. QED
        BY <2>1, <4>1 DEF Range
    <3>2. CASE i >= p
      <4>1. i + 1 \in 1 .. Len(seq) /\ i + 1 # p /\ w[i] = seq[i + 1]
        BY <2>1, <2>3, <2>4, <2>5, <3>2
      <4>2. QED
        BY <2>1, <4>1 DEF Range
    <3>3. QED
      BY <2>1, <2>5, <3>1, <3>2
  <2>9. Range(w) = Range(seq) \ {id}
    BY <2>1, <2>7, <2>8 DEF Range
  <2>10. QED
    BY <2>5, <2>6, <2>9 DEF w
<1>3. QED
  BY <1>1, <1>2

(* What push adds to it. *)
LEMMA AppendElement ==
    ASSUME NEW T, NEW seq \in Seq(T), NEW id \in T
    PROVE  /\ Append(seq, id) \in Seq(T)
           /\ Range(Append(seq, id)) = Range(seq) \cup {id}
           /\ (id \notin Range(seq) /\ \A i, j \in 1 .. Len(seq) : seq[i] = seq[j] => i = j)
              => \A i, j \in 1 .. Len(Append(seq, id)) :
                    Append(seq, id)[i] = Append(seq, id)[j] => i = j
<1> DEFINE a == Append(seq, id)
<1>1. /\ a \in Seq(T) /\ Len(a) = Len(seq) + 1 /\ DOMAIN a = 1 .. Len(seq) + 1
      /\ \A i \in 1 .. Len(seq) : a[i] = seq[i]
      /\ a[Len(seq) + 1] = id
      /\ Len(seq) \in Nat /\ DOMAIN seq = 1 .. Len(seq)
  OBVIOUS
<1> HIDE DEF a
<1>2. Range(a) = Range(seq) \cup {id}
  <2>1. \A i \in DOMAIN a : i \in DOMAIN seq \/ i = Len(seq) + 1
    BY <1>1
  <2>2. DOMAIN seq \subseteq DOMAIN a /\ Len(seq) + 1 \in DOMAIN a
    BY <1>1
  <2>3. QED
    BY <1>1, <2>1, <2>2 DEF Range
<1>3. ASSUME id \notin Range(seq), \A i, j \in 1 .. Len(seq) : seq[i] = seq[j] => i = j
      PROVE  \A i, j \in 1 .. Len(a) : a[i] = a[j] => i = j
  <2>1. \A i \in 1 .. Len(seq) : a[i] # id
    BY <1>1, <1>3 DEF Range
  <2>2. QED
    BY <1>1, <1>3, <2>1
<1>4. QED
  BY <1>1, <1>2, <1>3 DEF a

(* The last of a nonempty order is one of its elements. *)
LEMMA LastElement ==
    ASSUME NEW T, NEW seq \in Seq(T), seq # <<>>
    PROVE  seq[Len(seq)] \in Range(seq) /\ seq[Len(seq)] \in T
<1>1. Len(seq) \in 1 .. Len(seq) /\ DOMAIN seq = 1 .. Len(seq)
  OBVIOUS
<1>2. QED
  BY <1>1 DEF Range

(* Ids are positive: NoPane is none of them. *)
LEMMA NoPaneIsNoId == NoPane \notin PaneIds
BY BaseAssumption, BoundsAssumption DEF NoPane, PaneIds, LocalIds, RemoteIds

-------------------------------------------------------------------------------
(* The application starts without panes. *)
LEMMA InitInv == Init => IInv
<1> SUFFICES ASSUME Init PROVE IInv
  OBVIOUS
<1>1. TypeOK
  BY BoundsAssumption, BaseAssumption DEF Init, TypeOK, LocalIds, RemoteIds, PaneIds, NoPane
<1>2. Cardinality(panes) = 0 /\ Cardinality(reserved) = 0 /\ pending_spawns = 0
  BY FS_EmptySet DEF Init
<1>3. CapacityRespected /\ SlotsAccounted
  BY <1>2, MaxPanesAssumption DEF CapacityRespected, SlotsAccounted
<1>4. IdsInOrder /\ OrderMatchesPanes /\ FocusIsLive /\ KeysReachFocus
  BY DEF Init, IdsInOrder, OrderMatchesPanes, Range, FocusIsLive, KeysReachFocus, NoPane
<1>5. QED
  BY <1>1, <1>3, <1>4 DEF IInv

(* pane_order after a kill, and what is focused then. *)
LEMMA AfterKill ==
    ASSUME TypeOK, OrderMatchesPanes, NEW id, KillPane(id)
    PROVE  /\ pane_order' \in Seq(PaneIds)
           /\ OrderMatchesPanes'
           /\ focused = id /\ pane_order' # <<>> => focused' \in panes' /\ mode' = focused'
           /\ focused = id /\ pane_order' = <<>> => focused' = NoPane /\ mode' = mode
           /\ focused # id => focused' = focused /\ mode' = mode
<1> DEFINE rest == Without(pane_order, id)
<1>1. /\ rest \in Seq(PaneIds)
      /\ Range(rest) = panes \ {id}
      /\ \A i, j \in 1 .. Len(rest) : rest[i] = rest[j] => i = j
  <2>1. /\ pane_order \in Seq(PaneIds)
        /\ \A i, j \in 1 .. Len(pane_order) : pane_order[i] = pane_order[j] => i = j
    BY DEF TypeOK, OrderMatchesPanes
  <2>2. QED
    BY <2>1, WithoutElement DEF OrderMatchesPanes
<1> HIDE DEF rest
<1>2. /\ pane_order' = rest
      /\ panes' = panes \ {id}
      /\ focused' = IF focused # id THEN focused
                    ELSE IF rest = <<>> THEN NoPane ELSE rest[Len(rest)]
      /\ mode' = IF focused = id /\ rest # <<>> THEN rest[Len(rest)] ELSE mode
  BY DEF KillPane, Refocus, rest
<1>3. rest # <<>> => rest[Len(rest)] \in Range(rest)
  BY <1>1, LastElement
<1>4. QED
  BY <1>1, <1>2, <1>3 DEF OrderMatchesPanes

(* Every call keeps the types. *)
LEMMA TypeStep == TypeOK /\ OrderMatchesPanes /\ [Next]_vars => TypeOK'
<1> SUFFICES ASSUME TypeOK, OrderMatchesPanes, [Next]_vars PROVE TypeOK'
  OBVIOUS
<1>1. CASE SpawnPane
  <2>1. pane_order' \in Seq(PaneIds)
    BY <1>1, AppendElement DEF SpawnPane, OpenPty, Register, TypeOK, PaneIds
  <2>2. QED
    BY <1>1, <2>1, BoundsAssumption
    DEF SpawnPane, OpenPty, Register, TypeOK, PaneIds, LocalIds, remoteVars
<1>2. CASE SpawnFails
  <2>1. instances \subseteq instances' /\ instances' \subseteq LocalIds
    BY <1>2 DEF SpawnFails, OpenPty, TypeOK, localVars
  <2>2. next_local' \in 1 .. MaxLocal + 1
    BY <1>2, BoundsAssumption DEF SpawnFails, OpenPty, TypeOK, localVars, LocalIds
  <2>3. UNCHANGED <<panes, pane_order, exited, focused, mode>>
    BY <1>2 DEF SpawnFails, viewVars
  <2>4. UNCHANGED <<sessions, next_remote, reserved, pending_spawns, ended, up>>
    BY <1>2 DEF SpawnFails, remoteVars
  <2>5. QED
    BY <2>1, <2>2, <2>3, <2>4 DEF TypeOK
<1>3. CASE PrepareRemote
  BY <1>3, BoundsAssumption, BaseAssumption
  DEF PrepareRemote, TypeOK, RemoteIds, viewVars, localVars
<1>4. ASSUME NEW id \in PaneIds, CompleteRemote(id) PROVE TypeOK'
  <2>1. pane_order' \in Seq(PaneIds)
    BY <1>4, AppendElement DEF CompleteRemote, Register, TypeOK
  <2>2. pending_spawns' \in Nat
    BY <1>4 DEF CompleteRemote, ReleaseSlot, TypeOK
  <2>3. QED
    BY <1>4, <2>1, <2>2 DEF CompleteRemote, ReleaseSlot, Register, TypeOK, localVars
<1>5. ASSUME NEW id \in PaneIds, RemoteSpawnFailed(id) PROVE TypeOK'
  BY <1>5 DEF RemoteSpawnFailed, ReleaseSlot, TypeOK, viewVars, localVars
<1>6. ASSUME NEW id \in PaneIds, KillPane(id) PROVE TypeOK'
  <2>1. pane_order' \in Seq(PaneIds)
    BY <1>6, AfterKill
  <2>2. focused' \in PaneIds \cup {NoPane} /\ mode' \in PaneIds \cup {NoPane}
    <3>1. panes' \subseteq PaneIds
      BY <1>6 DEF KillPane, TypeOK
    <3>2. QED
      BY <1>6, <3>1, AfterKill DEF TypeOK
  <2>3. QED
    BY <1>6, <2>1, <2>2 DEF KillPane, TypeOK
<1>7. ASSUME NEW id \in PaneIds, KillFails(id) PROVE TypeOK'
  BY <1>7 DEF KillFails, TypeOK, viewVars, remoteVars
<1>8. ASSUME NEW id, FocusPane(id) PROVE TypeOK'
  BY <1>8 DEF FocusPane, TypeOK, localVars, remoteVars
<1>9. CASE FocusNext \/ FocusPrev
  BY <1>8, <1>9 DEF FocusNext, FocusPrev
<1>10. CASE ToCommandBar
  BY <1>10 DEF ToCommandBar, TypeOK, localVars, remoteVars
<1>11. CASE HandleExited
  BY <1>11 DEF HandleExited, NewlyExited, TypeOK, localVars, remoteVars
<1>12. ASSUME NEW id \in PaneIds, ProcessExits(id) PROVE TypeOK'
  BY <1>12 DEF ProcessExits, TypeOK, viewVars, localVars, remoteVars
<1>13. CASE Shutdown
  <2>1. pane_order' \in Seq(PaneIds)
    BY <1>13 DEF Shutdown
  <2>2. QED
    BY <1>13, <2>1 DEF Shutdown, TypeOK
<1>14. CASE UNCHANGED vars
  BY <1>14 DEF vars, viewVars, localVars, remoteVars, TypeOK
<1>15. QED
  BY <1>1, <1>2, <1>3, <1>4, <1>5, <1>6, <1>7, <1>8, <1>9, <1>10, <1>11, <1>12, <1>13, <1>14
  DEF Next

-------------------------------------------------------------------------------
(* Steps that hand out no id. *)
HandsOutNoId ==
    /\ panes' \subseteq panes
    /\ instances' \subseteq instances
    /\ sessions' \subseteq sessions
    /\ reserved' \subseteq reserved
    /\ next_local' = next_local
    /\ next_remote' = next_remote

(* Ids are handed out in order, and a reserved id is no pane until it is   *)
(* completed.                                                              *)
LEMMA IdsStep ==
    ASSUME MaxLocal < RemoteBase, TypeOK, IdsInOrder, [Next]_vars
    PROVE  IdsInOrder'
<1>1. LocalIds \cap RemoteIds = {}
  BY BoundsAssumption, BaseAssumption DEF LocalIds, RemoteIds
<1>2. /\ LocalIds \subseteq Nat /\ RemoteIds \subseteq Nat
      /\ next_local \in Nat /\ next_remote \in Nat
  BY BoundsAssumption, BaseAssumption DEF LocalIds, RemoteIds, TypeOK
<1>3. CASE SpawnPane
  <2>1. /\ panes' = panes \cup {next_local}
        /\ instances' = instances \cup {next_local}
        /\ next_local' = next_local + 1 /\ next_local \in LocalIds
        /\ UNCHANGED <<sessions, next_remote, reserved>>
    BY <1>3 DEF SpawnPane, OpenPty, Register, remoteVars
  <2>2. reserved \cap panes' = {}
    BY <1>1, <2>1 DEF TypeOK, IdsInOrder
  <2>3. QED
    BY <1>1, <1>2, <2>1, <2>2 DEF IdsInOrder
<1>4. CASE SpawnFails
  <2>1. /\ \/ instances' = instances /\ next_local' = next_local
           \/ instances' = instances \cup {next_local} /\ next_local' = next_local + 1
        /\ UNCHANGED <<panes, sessions, next_remote, reserved>>
    BY <1>4 DEF SpawnFails, OpenPty, localVars, viewVars, remoteVars
  <2>2. QED
    BY <1>2, <2>1 DEF IdsInOrder
<1>5. CASE PrepareRemote
  <2>1. /\ reserved' = reserved \cup {next_remote}
        /\ next_remote' = next_remote + 1 /\ next_remote \in RemoteIds
        /\ UNCHANGED <<panes, instances, next_local, sessions>>
    BY <1>5 DEF PrepareRemote, viewVars, localVars
  <2>2. next_remote \notin panes
    BY <1>2, <2>1 DEF IdsInOrder
  <2>3. QED
    BY <1>2, <2>1, <2>2 DEF IdsInOrder
<1>6. ASSUME NEW id \in PaneIds, CompleteRemote(id) PROVE IdsInOrder'
  <2>1. /\ panes' = panes \cup {id} /\ sessions' = sessions \cup {id}
        /\ reserved' = reserved \ {id} /\ id \in reserved
        /\ UNCHANGED <<instances, next_local, next_remote>>
    BY <1>6 DEF CompleteRemote, ReleaseSlot, Register, localVars
  <2>2. id \in RemoteIds
    BY <2>1 DEF TypeOK
  <2>3. QED
    BY <1>1, <1>2, <2>1, <2>2 DEF IdsInOrder
<1>7. ASSUME NEW id \in PaneIds,
             RemoteSpawnFailed(id) \/ KillPane(id) \/ KillFails(id) \/ ProcessExits(id)
      PROVE  HandsOutNoId
  BY <1>7 DEF HandsOutNoId, RemoteSpawnFailed, ReleaseSlot, KillPane, KillFails, ProcessExits,
              viewVars, localVars, remoteVars
<1>8. ASSUME NEW id, FocusPane(id) PROVE HandsOutNoId
  BY <1>8 DEF HandsOutNoId, FocusPane, localVars, remoteVars
<1>9. ASSUME FocusNext \/ FocusPrev \/ ToCommandBar \/ HandleExited \/ Shutdown \/ UNCHANGED vars
      PROVE  HandsOutNoId
  <2>1. CASE FocusNext \/ FocusPrev
    BY <1>8, <2>1 DEF FocusNext, FocusPrev
  <2>2. CASE ToCommandBar \/ HandleExited \/ Shutdown \/ UNCHANGED vars
    BY <2>2 DEF HandsOutNoId, ToCommandBar, HandleExited, Shutdown, vars, viewVars,
                localVars, remoteVars
  <2>3. QED
    BY <1>9, <2>1, <2>2
<1>10. ASSUME HandsOutNoId PROVE IdsInOrder'
  BY <1>10 DEF HandsOutNoId, IdsInOrder
<1>11. QED
  BY <1>3, <1>4, <1>5, <1>6, <1>7, <1>8, <1>9, <1>10 DEF Next

(* A push adds a new id to pane_order, and retain takes out the one that   *)
(* is killed.                                                              *)
LEMMA OrderStep ==
    ASSUME TypeOK, IdsInOrder, OrderMatchesPanes, [Next]_vars
    PROVE  OrderMatchesPanes'
<1>1. ASSUME NEW id \in PaneIds, id \notin panes, Register(id)
      PROVE  OrderMatchesPanes'
  BY <1>1, AppendElement DEF Register, OrderMatchesPanes, TypeOK
<1>2. CASE SpawnPane
  <2>1. next_local \in LocalIds /\ next_local \in PaneIds /\ Register(next_local)
    BY <1>2 DEF SpawnPane, OpenPty, PaneIds
  <2>2. next_local \in Nat
    BY BoundsAssumption DEF TypeOK
  <2>3. next_local \notin panes
    BY <2>1, <2>2 DEF IdsInOrder
  <2>4. QED
    BY <1>1, <2>1, <2>3
<1>3. ASSUME NEW id \in PaneIds, CompleteRemote(id) PROVE OrderMatchesPanes'
  BY <1>1, <1>3 DEF CompleteRemote, IdsInOrder
<1>4. ASSUME NEW id \in PaneIds, KillPane(id) PROVE OrderMatchesPanes'
  BY <1>4, AfterKill
<1>5. CASE Shutdown
  BY <1>5 DEF Shutdown, OrderMatchesPanes, Range
<1>6. ASSUME UNCHANGED <<panes, pane_order>> PROVE OrderMatchesPanes'
  BY <1>6 DEF OrderMatchesPanes
<1>7. CASE SpawnFails \/ PrepareRemote \/ UNCHANGED vars
  BY <1>6, <1>7 DEF SpawnFails, PrepareRemote, vars, viewVars
<1>8. ASSUME NEW id, FocusPane(id) PROVE OrderMatchesPanes'
  BY <1>6, <1>8 DEF FocusPane
<1>9. CASE FocusNext \/ FocusPrev
  BY <1>8, <1>9 DEF FocusNext, FocusPrev
<1>10. CASE ToCommandBar \/ HandleExited
  BY <1>6, <1>10 DEF ToCommandBar, HandleExited
<1>11. ASSUME NEW id \in PaneIds, RemoteSpawnFailed(id) \/ KillFails(id) \/ ProcessExits(id)
       PROVE  OrderMatchesPanes'
  BY <1>6, <1>11 DEF RemoteSpawnFailed, KillFails, ProcessExits, viewVars
<1>12. QED
  BY <1>2, <1>3, <1>4, <1>5, <1>6, <1>7, <1>9, <1>10, <1>11, <1>8 DEF Next

(* One element more or less. *)
LEMMA Counting ==
    ASSUME NEW S \in SUBSET PaneIds, NEW id \in PaneIds
    PROVE  /\ Cardinality(S \cup {id}) \in Nat
           /\ Cardinality(S \cup {id}) <= Cardinality(S) + 1
           /\ id \notin S => Cardinality(S \cup {id}) = Cardinality(S) + 1
           /\ Cardinality(S \ {id}) \in Nat
           /\ Cardinality(S \ {id}) <= Cardinality(S)
           /\ id \in S => Cardinality(S \ {id}) = Cardinality(S) - 1
<1>1. IsFiniteSet(S) /\ Cardinality(S) \in Nat
  BY Countable
<1>2. CASE id \in S
  <2>1. S \cup {id} = S
    BY <1>2
  <2>2. S \ {id} \in SUBSET PaneIds
    OBVIOUS
  <2>3. Cardinality(S \ {id}) \in Nat
    BY <2>2, Countable
  <2>4. Cardinality(S \ {id}) = Cardinality(S) - 1
    BY <1>1, <1>2, FS_RemoveElement
  <2>5. Cardinality(S \cup {id}) \in Nat /\ Cardinality(S \cup {id}) <= Cardinality(S) + 1
    BY <1>1, <2>1
  <2>6. Cardinality(S \ {id}) <= Cardinality(S)
    BY <1>1, <2>3, <2>4
  <2>7. QED
    BY <1>2, <2>3, <2>4, <2>5, <2>6
<1>3. CASE id \notin S
  <2>1. S \ {id} = S
    BY <1>3
  <2>2. Cardinality(S \cup {id}) = Cardinality(S) + 1
    BY <1>1, <1>3, FS_AddElement
  <2>3. Cardinality(S \cup {id}) \in Nat /\ Cardinality(S \cup {id}) <= Cardinality(S) + 1
    BY <1>1, <2>2
  <2>4. Cardinality(S \ {id}) \in Nat /\ Cardinality(S \ {id}) <= Cardinality(S)
    BY <1>1, <2>1
  <2>5. QED
    BY <1>3, <2>2, <2>3, <2>4
<1>4. QED
  BY <1>2, <1>3

(* A pane counts against the limit as a slot or as a pane, and never as    *)
(* both.                                                                   *)
LEMMA CountStep ==
    ASSUME TypeOK, IdsInOrder, CapacityRespected, SlotsAccounted, [Next]_vars
    PROVE  CapacityRespected' /\ SlotsAccounted'
<1>1. /\ panes \in SUBSET PaneIds /\ reserved \in SUBSET PaneIds
      /\ Cardinality(panes) \in Nat /\ Cardinality(reserved) \in Nat
      /\ pending_spawns \in Nat /\ MaxPanes \in Nat
  BY Countable, MaxPanesAssumption DEF TypeOK, PaneIds
<1>2. /\ pending_spawns = Cardinality(reserved)
      /\ Cardinality(panes) + pending_spawns <= MaxPanes
  BY DEF CapacityRespected, SlotsAccounted
<1>3. ASSUME UNCHANGED <<panes, pending_spawns, reserved>>
      PROVE  CapacityRespected' /\ SlotsAccounted'
  BY <1>3 DEF CapacityRespected, SlotsAccounted
<1>4. CASE SpawnPane
  <2>1. /\ panes' = panes \cup {next_local} /\ next_local \in PaneIds
        /\ UNCHANGED <<reserved, pending_spawns>>
        /\ ~(Cardinality(panes) + pending_spawns >= MaxPanes)
    BY <1>4 DEF SpawnPane, OpenPty, Register, PaneIds, remoteVars, Full
  <2>2. Cardinality(panes') <= Cardinality(panes) + 1 /\ Cardinality(panes') \in Nat
    BY <1>1, <2>1, Counting
  <2>3. QED
    BY <1>1, <1>2, <2>1, <2>2 DEF CapacityRespected, SlotsAccounted
<1>5. CASE PrepareRemote
  <2>1. /\ reserved' = reserved \cup {next_remote} /\ next_remote \in RemoteIds
        /\ pending_spawns' = pending_spawns + 1 /\ UNCHANGED panes
        /\ ~(Cardinality(panes) + pending_spawns >= MaxPanes)
    BY <1>5 DEF PrepareRemote, viewVars, Full
  <2>2. next_remote \in Nat /\ next_remote \in PaneIds
    BY <2>1, BaseAssumption DEF TypeOK, PaneIds
  <2>3. next_remote \notin reserved
    BY <2>1, <2>2 DEF IdsInOrder
  <2>4. Cardinality(reserved') = Cardinality(reserved) + 1
    BY <1>1, <2>1, <2>2, <2>3, Counting
  <2>5. QED
    BY <1>1, <1>2, <2>1, <2>4 DEF CapacityRespected, SlotsAccounted
<1>6. ASSUME NEW id \in PaneIds, id \in reserved, ReleaseSlot(id)
      PROVE  /\ SlotsAccounted' /\ pending_spawns' \in Nat
             /\ pending_spawns' = pending_spawns - 1
  <2>1. Cardinality(reserved') = Cardinality(reserved) - 1
    BY <1>1, <1>6, Counting DEF ReleaseSlot
  <2>2. Cardinality(reserved') \in Nat
    BY <1>1, <1>6, Countable DEF ReleaseSlot
  <2>3. QED
    BY <1>1, <1>2, <1>6, <2>1, <2>2 DEF ReleaseSlot, SlotsAccounted
<1>7. ASSUME NEW id \in PaneIds, CompleteRemote(id)
      PROVE  CapacityRespected' /\ SlotsAccounted'
  <2>1. panes' = panes \cup {id} /\ id \in reserved /\ ReleaseSlot(id)
    BY <1>7 DEF CompleteRemote, Register
  <2>2. Cardinality(panes') <= Cardinality(panes) + 1 /\ Cardinality(panes') \in Nat
    BY <1>1, <2>1, Counting
  <2>3. pending_spawns' = pending_spawns - 1 /\ SlotsAccounted'
    BY <1>6, <2>1
  <2>4. QED
    BY <1>1, <1>2, <2>2, <2>3 DEF CapacityRespected
<1>8. ASSUME NEW id \in PaneIds, RemoteSpawnFailed(id)
      PROVE  CapacityRespected' /\ SlotsAccounted'
  <2>1. panes' = panes /\ id \in reserved /\ ReleaseSlot(id)
    BY <1>8 DEF RemoteSpawnFailed, viewVars
  <2>2. pending_spawns' = pending_spawns - 1 /\ SlotsAccounted'
    BY <1>6, <2>1
  <2>3. QED
    BY <1>1, <1>2, <2>1, <2>2 DEF CapacityRespected
<1>9. ASSUME NEW id \in PaneIds, KillPane(id)
      PROVE  CapacityRespected' /\ SlotsAccounted'
  <2>1. panes' = panes \ {id} /\ UNCHANGED <<reserved, pending_spawns>>
    BY <1>9 DEF KillPane
  <2>2. Cardinality(panes') <= Cardinality(panes) /\ Cardinality(panes') \in Nat
    <3>1. panes' \in SUBSET PaneIds
      BY <1>1, <2>1
    <3>2. QED
      BY <1>1, <2>1, <3>1, Counting, Countable
  <2>3. QED
    BY <1>1, <1>2, <2>1, <2>2 DEF CapacityRespected, SlotsAccounted
<1>10. CASE Shutdown
  <2>1. Cardinality(panes') = 0 /\ UNCHANGED <<reserved, pending_spawns>>
    BY <1>10, FS_EmptySet DEF Shutdown
  <2>2. QED
    BY <1>1, <1>2, <2>1 DEF CapacityRespected, SlotsAccounted
<1>11. CASE SpawnFails \/ UNCHANGED vars
  BY <1>3, <1>11 DEF SpawnFails, vars, viewVars, remoteVars
<1>12. ASSUME NEW id, FocusPane(id) PROVE UNCHANGED <<panes, pending_spawns, reserved>>
  BY <1>12 DEF FocusPane, remoteVars
<1>13. CASE FocusNext \/ FocusPrev
  BY <1>3, <1>12, <1>13 DEF FocusNext, FocusPrev
<1>14. CASE ToCommandBar \/ HandleExited
  BY <1>3, <1>14 DEF ToCommandBar, HandleExited, remoteVars
<1>15. ASSUME NEW id \in PaneIds, KillFails(id) \/ ProcessExits(id)
       PROVE  UNCHANGED <<panes, pending_spawns, reserved>>
  BY <1>15 DEF KillFails, ProcessExits, viewVars, remoteVars
<1>16. QED
  BY <1>3, <1>4, <1>5, <1>7, <1>8, <1>9, <1>10, <1>11, <1>12, <1>13, <1>14, <1>15 DEF Next

(* The focus follows what opens and what is killed. *)
LEMMA FocusStep ==
    ASSUME TypeOK, OrderMatchesPanes, FocusIsLive, KeysReachFocus, [Next]_vars
    PROVE  FocusIsLive' /\ KeysReachFocus'
<1>1. ASSUME NEW id, Register(id) PROVE FocusIsLive' /\ KeysReachFocus'
  BY <1>1 DEF Register, FocusIsLive, KeysReachFocus
<1>2. CASE SpawnPane
  BY <1>1, <1>2 DEF SpawnPane
<1>3. ASSUME NEW id \in PaneIds, CompleteRemote(id) PROVE FocusIsLive' /\ KeysReachFocus'
  BY <1>1, <1>3 DEF CompleteRemote
<1>4. ASSUME NEW id, FocusPane(id) PROVE FocusIsLive' /\ KeysReachFocus'
  BY <1>4 DEF FocusPane, FocusIsLive, KeysReachFocus
<1>5. CASE FocusNext \/ FocusPrev
  BY <1>4, <1>5 DEF FocusNext, FocusPrev
<1>6. ASSUME NEW id \in PaneIds, KillPane(id) PROVE FocusIsLive' /\ KeysReachFocus'
  <2>1. up /\ panes' = panes \ {id} /\ up' = up
    BY <1>6 DEF KillPane
  <2>2. Range(pane_order') = panes' /\ id # NoPane
    BY <1>6, AfterKill, NoPaneIsNoId DEF OrderMatchesPanes
  <2>3. CASE focused = id /\ pane_order' # <<>>
    BY <1>6, <2>1, <2>3, AfterKill DEF FocusIsLive, KeysReachFocus
  <2>4. CASE focused = id /\ pane_order' = <<>>
    <3>1. panes' = {}
      BY <2>2, <2>4 DEF Range
    <3>2. QED
      BY <1>6, <2>4, <3>1, AfterKill DEF FocusIsLive, KeysReachFocus
  <2>5. CASE focused # id
    BY <1>6, <2>1, <2>2, <2>5, AfterKill DEF FocusIsLive, KeysReachFocus
  <2>6. QED
    BY <2>3, <2>4, <2>5
<1>7. CASE ToCommandBar
  BY <1>7 DEF ToCommandBar, FocusIsLive, KeysReachFocus
<1>8. CASE Shutdown
  BY <1>8 DEF Shutdown, FocusIsLive, KeysReachFocus
<1>9. ASSUME UNCHANGED <<panes, focused, mode, up>> PROVE FocusIsLive' /\ KeysReachFocus'
  BY <1>9 DEF FocusIsLive, KeysReachFocus
<1>10. CASE SpawnFails \/ PrepareRemote \/ HandleExited \/ UNCHANGED vars
  BY <1>9, <1>10 DEF SpawnFails, PrepareRemote, HandleExited, vars, viewVars
<1>11. ASSUME NEW id \in PaneIds, RemoteSpawnFailed(id) \/ KillFails(id) \/ ProcessExits(id)
       PROVE  UNCHANGED <<panes, focused, mode, up>>
  BY <1>11 DEF RemoteSpawnFailed, KillFails, ProcessExits, viewVars
<1>12. QED
  BY <1>2, <1>3, <1>4, <1>5, <1>6, <1>7, <1>8, <1>9, <1>10, <1>11 DEF Next

-------------------------------------------------------------------------------
(* No step breaks the inductive invariant. *)
LEMMA IInvStep == ASSUME MaxLocal < RemoteBase, IInv, [Next]_vars
                  PROVE  IInv'
<1>1. TypeOK'
  BY TypeStep DEF IInv
<1>2. IdsInOrder'
  BY IdsStep DEF IInv
<1>3. OrderMatchesPanes'
  BY OrderStep DEF IInv
<1>4. CapacityRespected' /\ SlotsAccounted'
  BY CountStep DEF IInv
<1>5. FocusIsLive' /\ KeysReachFocus'
  BY FocusStep DEF IInv
<1>6. QED
  BY <1>1, <1>2, <1>3, <1>4, <1>5 DEF IInv

(* The inductive invariant of the panes holds in every reachable state, as *)
(* long as local ids stay below the first id of a remote pane              *)
(* (remote.rs:79-82).                                                      *)
THEOREM Invariance == MaxLocal < RemoteBase => (Spec => []IInv)
<1> SUFFICES ASSUME MaxLocal < RemoteBase PROVE Spec => []IInv
  OBVIOUS
<1>1. Init => IInv
  BY InitInv
<1>2. IInv /\ [Next]_vars => IInv'
  BY IInvStep
<1>3. QED
  BY <1>1, <1>2, PTL DEF Spec

(* Variables keep their types, for every limit and bound. *)
THEOREM TypeCorrect == MaxLocal < RemoteBase => (Spec => []TypeOK)
<1>1. IInv => TypeOK
  BY DEF IInv
<1>2. QED
  BY <1>1, Invariance, PTL

(* max_panes is never exceeded, counting the remote panes still connecting *)
(* (app.rs:217, 387).                                                      *)
THEOREM Capacity == MaxLocal < RemoteBase => (Spec => []CapacityRespected)
<1>1. IInv => CapacityRespected
  BY DEF IInv
<1>2. QED
  BY <1>1, Invariance, PTL

(* No slot of a remote pane is lost or released twice (app.rs:446-503). *)
THEOREM Slots == MaxLocal < RemoteBase => (Spec => []SlotsAccounted)
<1>1. IInv => SlotsAccounted
  BY DEF IInv
<1>2. QED
  BY <1>1, Invariance, PTL

(* pane_order and the map of panes agree (app.rs:370, 490, 624). *)
THEOREM OrderAgrees == MaxLocal < RemoteBase => (Spec => []OrderMatchesPanes)
<1>1. IInv => OrderMatchesPanes
  BY DEF IInv
<1>2. QED
  BY <1>1, Invariance, PTL

(* The focus is on a live pane while there is one (app.rs:626-633). *)
THEOREM FocusStaysLive == MaxLocal < RemoteBase => (Spec => []FocusIsLive)
<1>1. IInv => FocusIsLive
  BY DEF IInv
<1>2. QED
  BY <1>1, Invariance, PTL

(* Keys go to the focused pane or to the command bar (app.rs:631). *)
THEOREM KeysGoToFocus == MaxLocal < RemoteBase => (Spec => []KeysReachFocus)
<1>1. IInv => KeysReachFocus
  BY DEF IInv
<1>2. QED
  BY <1>1, Invariance, PTL
===============================================================================
