----------------------------- MODULE CommandsProofs -----------------------------
(***************************************************************************)
(* Proofs about Commands, for every configuration, screen, set of keys and *)
(* line: that keys, clicks and commands act on the panes as PaneManager    *)
(* does, and what the command bar, the splitter and the layout compute.    *)
(***************************************************************************)
EXTENDS Commands, PaneManagerProofs, SequenceLemmas

(* A length in characters or bytes is a number above 0. *)
LEMMA GlyphLengths ==
    ASSUME NEW glyph
    PROVE  /\ Chars(glyph) \in Nat \ {0} /\ Bytes(glyph) \in Nat \ {0}
           /\ glyph # "wide" => Bytes(glyph) = Chars(glyph)
<1>1. Chars(glyph) \in Nat \ {0}
  BY DEF Chars
<1>2. QED
  BY <1>1 DEF Bytes

(* A fold of lengths: the running sum. *)
LEMMA ByteLengthRuns ==
    ASSUME NEW G, NEW line \in Seq(G)
    PROVE  \E h \in [0 .. Len(line) -> Nat] :
              /\ h[0] = 0
              /\ \A i \in 1 .. Len(line) : h[i] = h[i - 1] + Bytes(line[i])
              /\ ByteLength(line) = h[Len(line)]
<1> DEFINE n == Len(line)
           step == [i \in 1 .. n |-> [x \in Nat |-> x + Bytes(line[i])]]
           Is(g) == g = [s \in SUBSET (1 .. n) |-> IF s = {} THEN 0 ELSE g[s \ {Max(s)}] + Bytes(line[Max(s)])]
<1>1. n \in Nat /\ DOMAIN line = 1 .. n
  OBVIOUS
<1>2. ByteLength(line) = (CHOOSE g : Is(g))[1 .. n]
  BY <1>1 DEF ByteLength, FoldLeft, MapThenFoldSet
<1>3. \A i \in 1 .. n : step[i] \in [Nat -> Nat] /\ \A x \in Nat : step[i][x] = x + Bytes(line[i])
  BY GlyphLengths
<1>4. step \in [1 .. n -> [Nat -> Nat]]
  BY <1>3
<1> HIDE DEF step
<1>5. PICK f \in [SUBSET (1 .. n) -> Nat] : FoldsBy(f, step, 0, n, Nat)
  BY <1>1, <1>4, FoldExists
<1>6. \A s \in SUBSET (1 .. n) : s # {} => Max(s) \in 1 .. n /\ s \ {Max(s)} \in SUBSET (1 .. n)
  BY <1>1, MaxIs
<1>7. Is(f)
  <2>1. \A s \in SUBSET (1 .. n) :
            f[s] = IF s = {} THEN 0 ELSE f[s \ {Max(s)}] + Bytes(line[Max(s)])
    BY <1>3, <1>5, <1>6 DEF FoldsBy
  <2>2. QED
    BY <1>5, <2>1
<1>8. Is(CHOOSE g : Is(g))
  BY <1>7
<1> DEFINE e == CHOOSE g : Is(g)
<1>9. FoldsBy(e, step, 0, n, Nat)
  <2>1. Is(e)
    BY <1>8
  <2> HIDE DEF e
  <2>2. QED
    BY <1>3, <1>6, <2>1 DEF FoldsBy
<1>10. e[1 .. n] = ByteLength(line)
  BY <1>2
<1> HIDE DEF e, Is
<1>11. /\ e[1 .. 0] = 0
       /\ \A i \in 0 .. n : e[1 .. i] \in Nat
       /\ \A i \in 1 .. n : e[1 .. i] = step[i][e[1 .. i - 1]]
  <2> DEFINE B == Nat
             b == 0
  <2>1. /\ b \in B /\ n \in Nat /\ step \in [1 .. n -> [B -> B]]
        /\ FoldsBy(e, step, b, n, B)
    BY <1>1, <1>4, <1>9
  <2>2. /\ e[1 .. 0] = b
        /\ \A i \in 0 .. n : e[1 .. i] \in B
        /\ \A i \in 1 .. n : e[1 .. i] = step[i][e[1 .. i - 1]]
    <3> HIDE DEF n, B, b
    <3>1. QED
      BY <2>1, FoldSteps
  <2>3. QED
    BY <2>2
<1> DEFINE h == [i \in 0 .. n |-> e[1 .. i]]
<1>12. QED
  <2>1. \A i \in 1 .. n : i - 1 \in 0 .. n /\ i \in 0 .. n
    BY <1>1
  <2>2. 0 \in 0 .. n /\ n \in 0 .. n
    BY <1>1
  <2>3. h \in [0 .. n -> Nat] /\ h[0] = 0 /\ ByteLength(line) = h[n]
    BY <1>10, <1>11, <2>2
  <2>4. \A i \in 1 .. n : h[i] = h[i - 1] + Bytes(line[i])
    BY <1>3, <1>11, <2>1
  <2>5. QED
    BY <2>3, <2>4

(* ... of which the lengths of the prefixes are the values on the way. *)
LEMMA PrefixLengths ==
    ASSUME NEW G, NEW line \in Seq(G)
    PROVE  \E h \in [0 .. Len(line) -> Nat] :
              /\ h[0] = 0
              /\ \A i \in 1 .. Len(line) : h[i] = h[i - 1] + Bytes(line[i])
              /\ \A i \in 0 .. Len(line) : ByteLength(SubSeq(line, 1, i)) = h[i]
              /\ ByteLength(line) = h[Len(line)]
<1>1. PICK h \in [0 .. Len(line) -> Nat] :
              /\ h[0] = 0
              /\ \A i \in 1 .. Len(line) : h[i] = h[i - 1] + Bytes(line[i])
              /\ ByteLength(line) = h[Len(line)]
  BY ByteLengthRuns
<1>2. ASSUME NEW i \in 0 .. Len(line) PROVE ByteLength(SubSeq(line, 1, i)) = h[i]
  <2> DEFINE p == SubSeq(line, 1, i)
  <2>1. p \in Seq(G) /\ Len(p) = i /\ i \in Nat /\ \A j \in 1 .. i : p[j] = line[j]
    OBVIOUS
  <2> HIDE DEF p
  <2>2. PICK g \in [0 .. Len(p) -> Nat] :
              /\ g[0] = 0
              /\ \A j \in 1 .. Len(p) : g[j] = g[j - 1] + Bytes(p[j])
              /\ ByteLength(p) = g[Len(p)]
    BY <2>1, ByteLengthRuns
  <2>3. g[0] = h[0] /\ \A j \in 1 .. i : g[j - 1] = h[j - 1] => g[j] = h[j]
    <3>1. \A j \in 1 .. i : j \in 1 .. Len(line) /\ j \in 1 .. Len(p)
      BY <2>1
    <3>2. QED
      BY <1>1, <2>1, <2>2, <3>1
  <2>4. SameTo(g, h, i)
    BY <2>1, <2>3, GoOnAlike DEF Alike
  <2>5. QED
    BY <2>1, <2>2, <2>4 DEF p, SameTo
<1>3. QED
  BY <1>1, <1>2

(* Every line has a length, the empty one 0, and no two prefixes of a line *)
(* have the same.                                                          *)
LEMMA LengthsDiffer ==
    ASSUME NEW G, NEW line \in Seq(G)
    PROVE  /\ ByteLength(line) \in Nat
           /\ \A i \in 0 .. Len(line) : ByteLength(SubSeq(line, 1, i)) \in Nat
           /\ ByteLength(SubSeq(line, 1, Len(line))) = ByteLength(line)
           /\ \A i, j \in 0 .. Len(line) :
                 ByteLength(SubSeq(line, 1, i)) = ByteLength(SubSeq(line, 1, j)) => i = j
<1>1. PICK h \in [0 .. Len(line) -> Nat] :
              /\ h[0] = 0
              /\ \A i \in 1 .. Len(line) : h[i] = h[i - 1] + Bytes(line[i])
              /\ \A i \in 0 .. Len(line) : ByteLength(SubSeq(line, 1, i)) = h[i]
              /\ ByteLength(line) = h[Len(line)]
  BY PrefixLengths
<1> DEFINE n == Len(line)
<1>2. n \in Nat /\ n \in 0 .. n /\ \A i \in 0 .. n : h[i] \in Nat
  BY <1>1
<1>3. \A i \in 1 .. n : h[i - 1] < h[i]
  <2>1. ASSUME NEW i \in 1 .. n PROVE h[i - 1] < h[i]
    <3>1. i - 1 \in 0 .. n /\ h[i] = h[i - 1] + Bytes(line[i])
      BY <1>1
    <3>2. Bytes(line[i]) \in Nat \ {0}
      BY GlyphLengths
    <3>3. h[i - 1] \in Nat
      BY <1>1, <3>1
    <3>4. QED
      BY <3>1, <3>2, <3>3
  <2>2. QED
    BY <2>1
<1>4. \A i, j \in 0 .. n : i < j => h[i] < h[j]
  <2> HIDE DEF n
  <2>1. QED
    BY <1>2, <1>3, Rises
<1>5. ASSUME NEW i \in 0 .. n, NEW j \in 0 .. n, h[i] = h[j] PROVE i = j
  <2>1. i < j \/ j < i \/ i = j
    OBVIOUS
  <2>2. h[i] \in Nat /\ h[j] \in Nat
    BY <1>2
  <2>3. QED
    BY <1>4, <1>5, <2>1, <2>2
<1>6. QED
  BY <1>1, <1>2, <1>5

(* Where every glyph has one byte, bytes are counted like glyphs. *)
LEMMA EvenLine ==
    ASSUME NEW G, NEW line \in Seq(G), \A i \in 1 .. Len(line) : Bytes(line[i]) = 1
    PROVE  /\ ByteLength(line) = Len(line)
           /\ \A i \in 0 .. Len(line) : ByteLength(SubSeq(line, 1, i)) = i
<1>1. PICK h \in [0 .. Len(line) -> Nat] :
              /\ h[0] = 0
              /\ \A i \in 1 .. Len(line) : h[i] = h[i - 1] + Bytes(line[i])
              /\ \A i \in 0 .. Len(line) : ByteLength(SubSeq(line, 1, i)) = h[i]
              /\ ByteLength(line) = h[Len(line)]
  BY PrefixLengths
<1> DEFINE n == Len(line)
           g == [i \in 0 .. n |-> i]
<1>2. n \in Nat /\ n \in 0 .. n /\ 0 \in 0 .. n /\ \A i \in 1 .. n : i \in 0 .. n /\ i - 1 \in 0 .. n
  OBVIOUS
<1>3. h[0] = g[0] /\ \A i \in 1 .. n : h[i - 1] = g[i - 1] => h[i] = g[i]
  BY <1>1, <1>2
<1>4. SameTo(h, g, n)
  <2> HIDE DEF g, n
  <2>1. QED
    BY <1>2, <1>3, GoOnAlike DEF Alike
<1>5. QED
  BY <1>1, <1>2, <1>4 DEF SameTo

(* Nothing has length 0. *)
LEMMA LengthOfNothing == ByteLength(<<>>) = 0
<1> DEFINE G == {}
           none == <<>>
<1>1. none \in Seq(G) /\ Len(none) = 0 /\ \A i \in 1 .. Len(none) : Bytes(none[i]) = 1
  OBVIOUS
<1> HIDE DEF G, none
<1>2. ByteLength(none) = Len(none)
  BY <1>1, EvenLine
<1>3. QED
  BY <1>1, <1>2 DEF none

(* A glyph at the end adds its length. *)
LEMMA LengthAppended ==
    ASSUME NEW G, NEW line \in Seq(G), NEW glyph \in G
    PROVE  ByteLength(Append(line, glyph)) = ByteLength(line) + Bytes(glyph)
<1> DEFINE d == Append(line, glyph)
           n == Len(line)
<1>1. /\ d \in Seq(G) /\ Len(d) = n + 1 /\ n \in Nat /\ d[n + 1] = glyph
      /\ SubSeq(d, 1, n) = line
  OBVIOUS
<1> HIDE DEF d, n
<1>2. PICK h \in [0 .. Len(d) -> Nat] :
              /\ h[0] = 0
              /\ \A i \in 1 .. Len(d) : h[i] = h[i - 1] + Bytes(d[i])
              /\ \A i \in 0 .. Len(d) : ByteLength(SubSeq(d, 1, i)) = h[i]
              /\ ByteLength(d) = h[Len(d)]
  BY <1>1, PrefixLengths
<1>3. n \in 0 .. Len(d) /\ n + 1 \in 1 .. Len(d) /\ (n + 1) - 1 = n
  BY <1>1
<1>4. QED
  BY <1>1, <1>2, <1>3 DEF d
-------------------------------------------------------------------------------
(* What is assumed of the keyboard in use. *)
LEMMA KeyboardIs ==
    ASSUME session \in DOMAIN Keyboards
    PROVE  /\ keyboard.typed \in Seq(Writes(keyboard))
           /\ keyboard.open \in Nat /\ keyboard.open <= MaxPanes /\ keyboard.open <= MaxLocal
           /\ Edits(keyboard) => \A glyph \in Writes(keyboard) : Chars(glyph) = 1
<1>1. keyboard \in Range(Keyboards)
  BY DEF keyboard, Range
<1>2. /\ keyboard.typed \in Seq(Writes(keyboard))
      /\ keyboard.open \in 0 .. Smaller(MaxPanes, MaxLocal)
      /\ Edits(keyboard) => \A glyph \in Writes(keyboard) : Chars(glyph) = 1
  BY <1>1, KeyboardsAssumption
<1>3. QED
  BY <1>2, MaxPanesAssumption, BoundsAssumption DEF Smaller

(* The panes that are open at first satisfy the invariant of the panes. *)
LEMMA UserInitPanes ==
    ASSUME MaxLocal < RemoteBase, UserInit
    PROVE  IInv
<1> DEFINE n == keyboard.open
<1>1. session \in DOMAIN Keyboards
  BY DEF UserInit
<1>2. /\ panes = 1 .. n /\ instances = 1 .. n /\ next_local = n + 1
      /\ pane_order = [i \in 1 .. n |-> i]
      /\ focused = n /\ mode \in {NoPane, n}
      /\ exited = {} /\ sessions = {} /\ next_remote = RemoteBase /\ reserved = {} /\ pending_spawns = 0
      /\ ended = {} /\ up = TRUE
  BY DEF UserInit
<1>3. n \in Nat /\ n <= MaxPanes /\ n <= MaxLocal
  BY <1>1, KeyboardIs
<1> HIDE DEF n
<1>4. 1 .. n \subseteq LocalIds /\ 1 .. n \subseteq PaneIds /\ n \in PaneIds \cup {NoPane}
  BY <1>3, BoundsAssumption DEF LocalIds, PaneIds, NoPane
<1>5. TypeOK
  <2>1. pane_order \in Seq(PaneIds)
    BY <1>2, <1>3, <1>4
  <2>2. n + 1 \in 1 .. MaxLocal + 1 /\ RemoteBase \in RemoteBase .. RemoteBase + MaxRemote
    BY <1>3, BoundsAssumption, BaseAssumption
  <2>3. QED
    BY <1>2, <1>4, <2>1, <2>2 DEF TypeOK, NoPane
<1>6. IdsInOrder
  <2>1. \A id \in 1 .. n : id < n + 1 /\ id \notin RemoteIds
    BY <1>3, BaseAssumption, BoundsAssumption DEF RemoteIds
  <2>2. QED
    BY <1>2, <2>1 DEF IdsInOrder
<1>7. Cardinality(panes) = n /\ Cardinality(reserved) = 0
  BY <1>2, <1>3, FS_Interval, FS_EmptySet
<1>8. CapacityRespected /\ SlotsAccounted
  BY <1>2, <1>3, <1>7, MaxPanesAssumption DEF CapacityRespected, SlotsAccounted
<1>9. OrderMatchesPanes
  <2>1. Len(pane_order) = n /\ \A i \in 1 .. n : pane_order[i] = i
    BY <1>2, <1>3
  <2>2. Range(pane_order) = 1 .. n
    BY <1>2 DEF Range
  <2>3. QED
    BY <1>2, <2>1, <2>2 DEF OrderMatchesPanes
<1>10. FocusIsLive /\ KeysReachFocus
  <2>1. n = 0 => panes = {}
    BY <1>2
  <2>2. n # 0 => n \in panes
    BY <1>2, <1>3
  <2>3. QED
    BY <1>2, <2>1, <2>2 DEF FocusIsLive, KeysReachFocus, NoPane
<1>11. QED
  BY <1>5, <1>6, <1>8, <1>9, <1>10 DEF IInv

(* What a key or a click does to panes is an action of PaneManager. *)
LEMMA PerformIsPaneStep ==
    ASSUME TypeOK, NEW action, Perform(action), action.does = "kill" => mode # NoPane
    PROVE  Next
<1>1. panes \subseteq PaneIds /\ mode \in PaneIds \cup {NoPane}
  BY DEF TypeOK
<1>2. ASSUME NEW id, FocusPane(id) PROVE Next
  BY <1>1, <1>2 DEF FocusPane, Next
<1>3. ASSUME mode # NoPane, KillFocused PROVE Next
  BY <1>1, <1>3 DEF KillFocused, Next
<1>4. Shutdown \/ ToCommandBar \/ FocusNext \/ FocusPrev => Next
  BY DEF Next
<1>5. QED
  BY <1>2, <1>3, <1>4 DEF Perform

(* Only the pane that gets the keys is killed by one. *)
LEMMA KeysKillThatPane == \A key : RouteKey(key).does = "kill" => mode # NoPane
BY DEF RouteKey, Action, Nothing

(* ... and a click kills none. *)
LEMMA ClicksKillNone == \A kind, cell : RouteMouse(kind, cell).does # "kill"
BY DEF RouteMouse, Report, Action, Nothing

(* The same of a command. *)
LEMMA CommandIsPaneStep ==
    ASSUME TypeOK, NEW cmd, HandleCommand(cmd)
    PROVE  Next \/ UNCHANGED vars
<1>1. panes \subseteq PaneIds
  BY DEF TypeOK
<1>2. ASSUME Spawn(cmd) PROVE Next \/ UNCHANGED vars
  BY <1>2 DEF Spawn, Next, NothingDone
<1>3. ASSUME OnSelected(cmd) PROVE Next \/ UNCHANGED vars
  <2>1. Selected(cmd.on) \subseteq PaneIds
    BY <1>1 DEF Selected
  <2>2. ASSUME NEW id \in PaneIds, Kill(id) \/ FocusPane(id) PROVE Next
    BY <2>2 DEF Kill, Next
  <2>3. QED
    BY <1>3, <2>1, <2>2 DEF OnSelected, NothingDone
<1>4. Shutdown => Next
  BY DEF Next
<1>5. LoadPlugin(cmd.path) \/ SetLayout(cmd.kind) \/ Run(cmd) \/ NothingDone => UNCHANGED vars
  BY DEF LoadPlugin, SetLayout, Run, NothingDone
<1>6. QED
  BY <1>2, <1>3, <1>4, <1>5 DEF HandleCommand

(* Every step of a session is one of the panes, or leaves them alone. *)
LEMMA UserIsPaneStep ==
    ASSUME TypeOK, [UserNext]_userVars
    PROVE  [Next]_vars
<1>1. /\ panes \subseteq PaneIds /\ instances \cup sessions \subseteq PaneIds /\ RemoteIds \subseteq PaneIds
  BY DEF TypeOK, PaneIds
<1>2. ASSUME NEW key, Press(key) PROVE Next \/ UNCHANGED vars
  BY <1>2, PerformIsPaneStep, CommandIsPaneStep, KeysKillThatPane DEF Press, Typed
<1>3. ASSUME NEW cell, Click(cell) PROVE Next
  BY <1>3, PerformIsPaneStep, ClicksKillNone DEF Click, Mouse
<1>4. ASSUME Background PROVE Next
  <2>1. ASSUME NEW id \in RemoteIds, CompleteRemote(id) \/ RemoteSpawnFailed(id) PROVE Next
    BY <1>1, <2>1 DEF Next
  <2>2. ASSUME NEW id, ProcessExits(id) PROVE Next
    BY <1>1, <2>2 DEF Next, ProcessExits
  <2>3. HandleExited => Next
    BY DEF Next
  <2>4. QED
    BY <1>4, <2>1, <2>2, <2>3 DEF Background
<1>5. UNCHANGED userVars => UNCHANGED vars
  BY DEF userVars
<1>6. QED
  BY <1>2, <1>3, <1>4, <1>5 DEF UserNext
-------------------------------------------------------------------------------
(* A keyboard that edits types no words; the cursor of a line fits it.     *)
Orderly(k) == Edits(k) => \A glyph \in Writes(k) : Chars(glyph) = 1
Narrow(line) == "wide" \notin Range(line)
Fits(k, line, cursor) ==
    Narrow(line) => IF Edits(k) THEN cursor <= Len(line) ELSE cursor = ByteLength(line)

(* Narrow lines of an orderly keyboard that edits count bytes like glyphs. *)
LEMMA NarrowLine ==
    ASSUME NEW k, Orderly(k), Edits(k), NEW line \in Seq(Writes(k)), Narrow(line)
    PROVE  /\ ByteLength(line) = Len(line)
           /\ \A i \in 0 .. Len(line) : ByteLength(SubSeq(line, 1, i)) = i
<1>1. ASSUME NEW i \in 1 .. Len(line) PROVE Bytes(line[i]) = 1
  <2>1. line[i] \in Writes(k) /\ line[i] # "wide"
    BY DEF Narrow, Range
  <2>2. Chars(line[i]) = 1
    BY <2>1 DEF Orderly
  <2>3. QED
    BY <2>1, <2>2, GlyphLengths
<1>2. QED
  BY <1>1, EvenLine

(* The end of a line fits it. *)
LEMMA EndFits ==
    ASSUME NEW k, Orderly(k), NEW line \in Seq(Writes(k))
    PROVE  Fits(k, line, ByteLength(line))
<1>1. CASE Edits(k) /\ Narrow(line)
  <2>1. ByteLength(line) = Len(line) /\ Len(line) \in Nat
    BY <1>1, NarrowLine
  <2>2. QED
    BY <1>1, <2>1 DEF Fits
<1>2. QED
  BY <1>1 DEF Fits

(* In a narrow line a cursor that fits is at a glyph ... *)
LEMMA CursorFound ==
    ASSUME NEW k, Orderly(k), NEW line \in Seq(Writes(k)), Narrow(line),
           NEW cursor \in Nat, Fits(k, line, cursor)
    PROVE  /\ GlyphsBefore(line, cursor) # {}
           /\ Edits(k) /\ cursor < Len(line) => GlyphsBefore(line, cursor) \ {Len(line)} # {}
<1>1. CASE Edits(k)
  <2>1. cursor \in 0 .. Len(line) /\ ByteLength(SubSeq(line, 1, cursor)) = cursor
    BY <1>1, NarrowLine DEF Fits
  <2>2. cursor \in GlyphsBefore(line, cursor)
    BY <2>1 DEF GlyphsBefore
  <2>3. QED
    BY <2>2
<1>2. CASE ~Edits(k)
  <2>1. Len(line) \in 0 .. Len(line) /\ ByteLength(SubSeq(line, 1, Len(line))) = cursor
    BY <1>2, LengthsDiffer DEF Fits
  <2>2. Len(line) \in GlyphsBefore(line, cursor)
    BY <2>1 DEF GlyphsBefore
  <2>3. QED
    BY <1>2, <2>2
<1>3. QED
  BY <1>1, <1>2

(* ... what is inserted there leaves it at a glyph ... *)
LEMMA InsertFits ==
    ASSUME NEW k, Orderly(k), NEW line \in Seq(Writes(k)),
           NEW cursor \in Nat, Fits(k, line, cursor),
           NEW glyph \in Writes(k), NEW i \in GlyphsBefore(line, cursor)
    PROVE  /\ InsertAt(line, i + 1, glyph) \in Seq(Writes(k))
           /\ Fits(k, InsertAt(line, i + 1, glyph), cursor + Chars(glyph))
<1> DEFINE d == InsertAt(line, i + 1, glyph)
<1>1. i \in 0 .. Len(line) /\ ByteLength(SubSeq(line, 1, i)) = cursor
  BY DEF GlyphsBefore
<1>2. /\ d \in Seq(Writes(k)) /\ Len(d) = Len(line) + 1 /\ d[i + 1] = glyph
      /\ \A j \in 1 .. i : d[j] = line[j]
      /\ \A j \in i + 1 .. Len(line) : d[j + 1] = line[j]
  <2> DEFINE G == Writes(k)
  <2>1. line \in Seq(G) /\ glyph \in G
    OBVIOUS
  <2> HIDE DEF G
  <2>2. /\ d \in Seq(G) /\ Len(d) = Len(line) + 1 /\ d[i + 1] = glyph
        /\ \A j \in 1 .. i : d[j] = line[j]
        /\ \A j \in i + 1 .. Len(line) : d[j + 1] = line[j]
    BY <1>1, <2>1, Inserted
  <2>3. QED
    BY <2>2 DEF G
<1>3. ASSUME Narrow(d) PROVE Narrow(line) /\ glyph # "wide"
  <2>1. \A j \in 1 .. Len(line) + 1 : d[j] # "wide"
    BY <1>2, <1>3 DEF Narrow, Range
  <2>2. ASSUME NEW j \in 1 .. Len(line) PROVE line[j] # "wide"
    <3>1. CASE j <= i
      <4>1. j \in 1 .. i /\ j \in 1 .. Len(line) + 1
        BY <1>1, <3>1
      <4>2. QED
        BY <1>2, <2>1, <4>1
    <3>2. CASE i < j
      <4>1. j \in i + 1 .. Len(line) /\ j + 1 \in 1 .. Len(line) + 1
        BY <1>1, <3>2
      <4>2. QED
        BY <1>2, <2>1, <4>1
    <3>3. QED
      BY <1>1, <3>1, <3>2
  <2>3. i + 1 \in 1 .. Len(line) + 1
    BY <1>1
  <2>4. QED
    BY <1>2, <2>1, <2>2, <2>3 DEF Narrow, Range
<1> HIDE DEF d
<1>4. CASE Narrow(d) /\ Edits(k)
  <2>1. Chars(glyph) = 1 /\ cursor <= Len(line) /\ Len(line) \in Nat
    BY <1>3, <1>4 DEF Orderly, Fits
  <2>2. QED
    BY <1>2, <1>4, <2>1 DEF Fits, d
<1>5. CASE Narrow(d) /\ ~Edits(k)
  <2>1. cursor = ByteLength(line) /\ glyph # "wide"
    BY <1>3, <1>5 DEF Fits
  <2>2. i = Len(line)
    <3>1. Len(line) \in 0 .. Len(line)
      OBVIOUS
    <3>2. QED
      BY <1>1, <2>1, <3>1, LengthsDiffer
  <2>3. d = Append(line, glyph)
    <3>1. Append(line, glyph) \in Seq(Writes(k)) /\ Len(Append(line, glyph)) = Len(d)
      BY <1>2
    <3>2. \A j \in 1 .. Len(d) : d[j] = Append(line, glyph)[j]
      BY <1>2, <2>2
    <3>3. QED
      BY <1>2, <3>1, <3>2, SeqEqual
  <2>4. ByteLength(d) = cursor + Chars(glyph)
    BY <2>1, <2>3, LengthAppended, GlyphLengths
  <2>5. QED
    BY <1>2, <1>5, <2>4 DEF Fits, d
<1>6. QED
  BY <1>2, <1>4, <1>5 DEF Fits, d

(* ... and so does what is taken out. *)
LEMMA RemoveFits ==
    ASSUME NEW k, Orderly(k), Edits(k), NEW line \in Seq(Writes(k)), NEW position \in Nat,
           GlyphsBefore(line, position) \ {Len(line)} # {}, NEW i \in GlyphsBefore(line, position)
    PROVE  /\ RemoveAt(line, i + 1) \in Seq(Writes(k))
           /\ Fits(k, RemoveAt(line, i + 1), position)
<1> DEFINE d == RemoveAt(line, i + 1)
           p == SubSeq(line, 1, i)
<1>1. i \in 0 .. Len(line) /\ ByteLength(p) = position
  BY DEF GlyphsBefore
<1>2. i # Len(line)
  <2>1. PICK j \in GlyphsBefore(line, position) : j # Len(line)
    OBVIOUS
  <2>2. j \in 0 .. Len(line) /\ ByteLength(SubSeq(line, 1, j)) = position
    BY DEF GlyphsBefore
  <2>3. i = j
    BY <1>1, <2>2, LengthsDiffer
  <2>4. QED
    BY <2>1, <2>3
<1>3. i \in 0 .. Len(line) - 1
  BY <1>1, <1>2
<1>4. d \in Seq(Writes(k)) /\ Len(d) = Len(line) - 1 /\ \A j \in 1 .. i : d[j] = line[j]
  BY <1>3, Removed
<1>5. p \in Seq(Writes(k)) /\ Len(p) = i /\ \A j \in 1 .. i : p[j] = line[j]
  BY <1>1
<1> HIDE DEF d, p
<1>6. ASSUME Narrow(d) PROVE position <= Len(d)
  <2>1. Narrow(p)
    <3>1. ASSUME NEW j \in 1 .. i PROVE p[j] # "wide"
      <4>1. j \in 1 .. Len(d)
        BY <1>3, <1>4
      <4>2. QED
        BY <1>4, <1>5, <1>6, <4>1 DEF Narrow, Range
    <3>2. QED
      BY <1>5, <3>1 DEF Narrow, Range
  <2>2. ByteLength(p) = i
    BY <1>5, <2>1, NarrowLine
  <2>3. QED
    BY <1>1, <1>3, <1>4, <2>2
<1>7. QED
  BY <1>4, <1>6 DEF Fits, d

(* Trimming a line leaves a part of it. *)
LEMMA Trimmed ==
    ASSUME NEW G, NEW line \in Seq(G)
    PROVE  Trim(line) \in Seq(G)
<1> DEFINE I == {i \in 1 .. Len(line) : IsText(line[i])}
<1>1. CASE I = {}
  <2>1. SelectInSeq(line, IsText) = 0
    BY <1>1 DEF SelectInSeq
  <2>2. QED
    BY <2>1 DEF Trim
<1>2. CASE I # {}
  <2>1. Min(I) \in I /\ Max(I) \in I
    <3>1. I \in SUBSET Nat /\ I \in SUBSET (1 .. Len(line)) /\ Len(line) \in Nat
      OBVIOUS
    <3> HIDE DEF I
    <3>2. QED
      BY <1>2, <3>1, MinIs, MaxIs
  <2>2. Min(I) \in 1 .. Len(line) /\ Max(I) \in 1 .. Len(line)
    BY <2>1
  <2>3. SelectInSeq(line, IsText) = Min(I) /\ SelectLastInSeq(line, IsText) = Max(I)
    BY <1>2 DEF SelectInSeq, SelectLastInSeq
  <2> HIDE DEF I
  <2>4. SubSeq(line, Min(I), Max(I)) \in Seq(G)
    BY <2>2
  <2>5. QED
    BY <2>2, <2>3, <2>4 DEF Trim
<1>3. QED
  BY <1>1, <1>2

(* What the invariant says of the line, for a keyboard. *)
LineOf(k, line, cursor, past, idx) ==
    /\ line \in Seq(Writes(k)) /\ past \in Seq(Seq(Writes(k)))
    /\ cursor \in Nat /\ idx \in 0 .. Len(past)

(* One key of a keyboard keeps a line whose cursor fits it, or stops the   *)
(* program for one of the reasons named.                                   *)
LEMMA KeyFits ==
    ASSUME NEW k, Orderly(k), LineOf(k, input, cursor_pos, history, history_idx),
           Fits(k, input, cursor_pos), ~crashed, NEW code \in Codes(k), HandleKey(code)
    PROVE  /\ LineOf(k, input', cursor_pos', history', history_idx')
           /\ crashed' \/ Fits(k, input', cursor_pos')
           /\ EditsAreSafe'
<1> DEFINE Good == /\ LineOf(k, input', cursor_pos', history', history_idx')
                   /\ crashed' \/ Fits(k, input', cursor_pos')
                   /\ EditsAreSafe'
           Edit == {"Backspace", "Delete", "Left", "Right", "Home", "End"}
<1>1. /\ input \in Seq(Writes(k)) /\ history \in Seq(Seq(Writes(k)))
      /\ cursor_pos \in Nat /\ history_idx \in 0 .. Len(history)
  BY DEF LineOf
<1>2. ByteLength(input) \in Nat
  BY <1>1, LengthsDiffer
<1>3. code \in Edit => Edits(k)
  BY DEF Edits, EditKeys
<1>4. ASSUME NEW line \in Seq(Writes(k)), NEW cursor \in Nat, Fits(k, line, cursor), Edited(line, cursor)
      PROVE  Good
  BY <1>1, <1>4 DEF Edited, LineOf, EditsAreSafe
<1>5. ASSUME Panic, ~Narrow(input) PROVE Good
  <2>1. /\ crashed' /\ "wide" \in Range(input')
        /\ LineOf(k, input', cursor_pos', history', history_idx')
    BY <1>1, <1>5 DEF Panic, Narrow, LineOf
  <2>2. QED
    BY <2>1 DEF EditsAreSafe
<1>6. ASSUME UNCHANGED barVars PROVE Good
  BY <1>1, <1>6 DEF barVars, LineOf, EditsAreSafe
<1>7. ASSUME NEW i \in 0 .. Len(history), Recall(i) PROVE Good
  <2>1. input' \in Seq(Writes(k)) /\ cursor_pos' = ByteLength(input') /\ history' = history
        /\ history_idx' = i /\ crashed' = crashed
    BY <1>1, <1>7 DEF Recall
  <2> DEFINE line == input'
  <2>2. ByteLength(line) \in Nat /\ Fits(k, line, ByteLength(line))
    <3> HIDE DEF line
    <3>1. line \in Seq(Writes(k))
      BY <2>1 DEF line
    <3>2. QED
      BY <3>1, LengthsDiffer, EndFits
  <2>3. QED
    BY <1>1, <2>1, <2>2 DEF LineOf, EditsAreSafe
<1>8. ASSUME Edits(k), NEW cursor \in Nat, cursor <= ByteLength(input), MoveTo(cursor) PROVE Good
  <2>1. Fits(k, input, cursor)
    <3>1. Narrow(input) => ByteLength(input) = Len(input)
      BY <1>1, <1>8, NarrowLine
    <3>2. QED
      BY <1>8, <3>1 DEF Fits
  <2>2. QED
    BY <1>1, <1>4, <1>8, <2>1 DEF MoveTo
<1>9. ASSUME Edits(k), MoveTo(cursor_pos) PROVE Good
  BY <1>1, <1>4, <1>9 DEF MoveTo
<1>10. ASSUME Edits(k), NEW position \in Nat, Narrow(input) => position < Len(input), RemoveAtByte(position)
       PROVE  Good
  <2>1. CASE GlyphsBefore(input, position) \ {Len(input)} = {}
    <3>1. ~Narrow(input)
      <4>1. SUFFICES ASSUME Narrow(input) PROVE FALSE
        OBVIOUS
      <4>2. position \in 0 .. Len(input) /\ position # Len(input) /\ position < Len(input)
        BY <1>1, <1>10, <4>1
      <4>3. ByteLength(SubSeq(input, 1, position)) = position
        BY <1>1, <1>10, <4>1, <4>2, NarrowLine
      <4>4. position \in GlyphsBefore(input, position)
        BY <4>2, <4>3 DEF GlyphsBefore
      <4>5. QED
        BY <2>1, <4>2, <4>4
    <3>2. QED
      BY <1>5, <1>10, <2>1, <3>1 DEF RemoveAtByte
  <2>2. CASE GlyphsBefore(input, position) \ {Len(input)} # {}
    <3>1. PICK i \in GlyphsBefore(input, position) : Edited(RemoveAt(input, i + 1), position)
      BY <1>10, <2>2 DEF RemoveAtByte
    <3>2. /\ RemoveAt(input, i + 1) \in Seq(Writes(k))
          /\ Fits(k, RemoveAt(input, i + 1), position)
      BY <1>1, <1>10, <2>2, RemoveFits
    <3>3. QED
      BY <1>4, <3>1, <3>2
  <2>3. QED
    BY <2>1, <2>2
<1>11. Edits(k) /\ Narrow(input) => ByteLength(input) = Len(input) /\ cursor_pos <= Len(input)
  BY <1>1, NarrowLine DEF Fits
<1>12. CASE code = "Backspace" /\ Backspace
  <2>1. CASE cursor_pos > 0
    <3>1. cursor_pos - 1 \in Nat /\ Edits(k) /\ RemoveAtByte(cursor_pos - 1)
      BY <1>1, <1>3, <1>12, <2>1 DEF Backspace
    <3>2. Narrow(input) => cursor_pos - 1 < Len(input)
      BY <1>1, <1>11, <3>1
    <3>3. QED
      BY <1>10, <3>1, <3>2
  <2>2. CASE ~(cursor_pos > 0)
    BY <1>3, <1>9, <1>12, <2>2 DEF Backspace
  <2>3. QED
    BY <2>1, <2>2
<1>13. CASE code = "Delete" /\ Delete
  <2>1. CASE cursor_pos < ByteLength(input)
    <3>1. Edits(k) /\ RemoveAtByte(cursor_pos)
      BY <1>3, <1>13, <2>1 DEF Delete
    <3>2. Narrow(input) => cursor_pos < Len(input)
      BY <1>11, <2>1, <3>1
    <3>3. QED
      BY <1>1, <1>10, <3>1, <3>2
  <2>2. CASE ~(cursor_pos < ByteLength(input))
    BY <1>3, <1>9, <1>13, <2>2 DEF Delete
  <2>3. QED
    BY <2>1, <2>2
<1>14. CASE code = "Right" /\ Right
  <2>1. CASE cursor_pos < ByteLength(input)
    <3>1. cursor_pos + 1 \in Nat /\ cursor_pos + 1 <= ByteLength(input) /\ MoveTo(cursor_pos + 1)
      BY <1>1, <1>2, <1>14, <2>1 DEF Right
    <3>2. QED
      BY <1>3, <1>8, <1>14, <3>1
  <2>2. CASE ~(cursor_pos < ByteLength(input))
    <3>1. ByteLength(input) <= ByteLength(input) /\ MoveTo(ByteLength(input))
      BY <1>2, <1>14, <2>2 DEF Right
    <3>2. QED
      BY <1>2, <1>3, <1>8, <1>14, <3>1
  <2>3. QED
    BY <2>1, <2>2
<1>15. CASE code = "Left" /\ Left
  <2>1. PICK cursor \in Nat : MoveTo(cursor) /\ cursor <= cursor_pos
    <3>1. CASE cursor_pos > 0
      <4>1. cursor_pos - 1 \in Nat /\ cursor_pos - 1 <= cursor_pos /\ MoveTo(cursor_pos - 1)
        BY <1>1, <1>15, <3>1 DEF Left
      <4>2. QED
        BY <4>1
    <3>2. CASE ~(cursor_pos > 0)
      BY <1>1, <1>15, <3>2 DEF Left
    <3>3. QED
      BY <3>1, <3>2
  <2>2. Edits(k)
    BY <1>3, <1>15
  <2>3. Fits(k, input, cursor)
    <3>1. Narrow(input) => cursor_pos <= Len(input)
      BY <1>11, <2>2
    <3>2. Len(input) \in Nat
      BY <1>1
    <3>3. QED
      BY <1>1, <2>1, <2>2, <3>1, <3>2 DEF Fits
  <2>4. QED
    BY <1>1, <1>4, <2>1, <2>3 DEF MoveTo
<1>16. CASE code = "Home" /\ MoveTo(0)
  <2>1. 0 \in Nat /\ 0 <= ByteLength(input) /\ Edits(k)
    BY <1>2, <1>3, <1>16
  <2>2. QED
    BY <1>8, <1>16, <2>1
<1>17. CASE code = "End" /\ MoveTo(ByteLength(input))
  <2>1. ByteLength(input) <= ByteLength(input) /\ Edits(k)
    BY <1>2, <1>3, <1>17
  <2>2. QED
    BY <1>2, <1>8, <1>17, <2>1
<1>18. CASE Up
  <2>1. CASE history # <<>>
    <3>1. PICK i \in 0 .. Len(history) : Recall(i)
      <4>1. Len(history) \in Nat /\ Len(history) # 0
        BY <1>1, <2>1
      <4>2. CASE history_idx = 0
        BY <1>18, <2>1, <4>1, <4>2 DEF Up
      <4>3. CASE history_idx = 1
        BY <1>1, <1>18, <2>1, <4>1, <4>3 DEF Up
      <4>4. CASE history_idx \notin {0, 1}
        <5>1. history_idx - 1 \in 0 .. Len(history) /\ Recall(history_idx - 1)
          BY <1>1, <1>18, <2>1, <4>1, <4>4 DEF Up
        <5>2. QED
          BY <5>1
      <4>5. QED
        BY <4>2, <4>3, <4>4
    <3>2. QED
      BY <1>7, <3>1
  <2>2. QED
    BY <1>6, <1>18, <2>1 DEF Up
<1>19. CASE Down
  <2>1. CASE history_idx # 0
    <3>1. PICK i \in 0 .. Len(history) : Recall(i)
      <4>1. CASE history_idx < Len(history)
        <5>1. history_idx + 1 \in 0 .. Len(history) /\ Recall(history_idx + 1)
          BY <1>1, <1>19, <2>1, <4>1 DEF Down
        <5>2. QED
          BY <5>1
      <4>2. CASE ~(history_idx < Len(history))
        <5>1. 0 \in 0 .. Len(history) /\ Recall(0)
          BY <1>1, <1>19, <2>1, <4>2 DEF Down
        <5>2. QED
          BY <5>1
      <4>3. QED
        BY <4>1, <4>2
    <3>2. QED
      BY <1>7, <3>1
  <2>2. QED
    BY <1>6, <1>19, <2>1 DEF Down
<1>20. CASE Enter
  <2>1. CASE Trim(input) = <<>>
    BY <1>6, <1>20, <2>1 DEF Enter
  <2>2. CASE Trim(input) # <<>>
    <3> DEFINE t == Trim(input)
    <3>1. t \in Seq(Writes(k))
      BY <1>1, Trimmed
    <3>2. /\ history' = Append(history, t) /\ history_idx' = 0 /\ input' = <<>> /\ cursor_pos' = 0
          /\ crashed' = (ParseCommand(t) = Plain("panic"))
      BY <1>20, <2>2 DEF Enter, Submit
    <3> HIDE DEF t
    <3>3. /\ Append(history, t) \in Seq(Seq(Writes(k))) /\ Len(Append(history, t)) \in Nat
          /\ Append(history, t) # <<>> /\ Last(Append(history, t)) = t
      <4> DEFINE L == Seq(Writes(k))
                 d == Append(history, t)
      <4>1. history \in Seq(L) /\ t \in L
        BY <1>1, <3>1
      <4> HIDE DEF L
      <4>2. d \in Seq(L) /\ d # <<>> /\ Len(d) = Len(history) + 1 /\ d[Len(history) + 1] = t
        BY <4>1, AppendProperties
      <4>3. Len(history) \in Nat
        BY <4>1, LenProperties
      <4> HIDE DEF d
      <4>4. Len(d) \in Nat /\ d[Len(d)] = t
        BY <4>2, <4>3
      <4>5. QED
        BY <4>2, <4>4 DEF Last, L, d
    <3>4. LineOf(k, input', cursor_pos', history', history_idx')
      BY <3>2, <3>3 DEF LineOf
    <3>5. Fits(k, input', cursor_pos')
      <4>1. <<>> \in Seq(Writes(k)) /\ Len(<<>>) = 0
        OBVIOUS
      <4>2. ByteLength(<<>>) = 0
        BY LengthOfNothing
      <4>3. QED
        BY <3>2, <4>1, <4>2 DEF Fits
    <3>6. EditsAreSafe'
      BY <3>2, <3>3 DEF EditsAreSafe
    <3>7. QED
      BY <3>4, <3>5, <3>6
  <2>3. QED
    BY <2>1, <2>2
<1>21. CASE code \notin EditKeys /\ Insert(code)
  <2>1. code \in Writes(k)
    BY <1>21 DEF Writes
  <2>2. CASE GlyphsBefore(input, cursor_pos) = {}
    <3>1. ~Narrow(input)
      BY <1>1, <2>2, CursorFound
    <3>2. QED
      BY <1>5, <1>21, <2>2, <3>1 DEF Insert
  <2>3. CASE GlyphsBefore(input, cursor_pos) # {}
    <3>1. PICK i \in GlyphsBefore(input, cursor_pos) :
              Edited(InsertAt(input, i + 1, code), cursor_pos + Chars(code))
      BY <1>21, <2>3 DEF Insert
    <3>2. /\ InsertAt(input, i + 1, code) \in Seq(Writes(k))
          /\ Fits(k, InsertAt(input, i + 1, code), cursor_pos + Chars(code))
      BY <1>1, <2>1, InsertFits
    <3>3. cursor_pos + Chars(code) \in Nat
      BY <1>1, GlyphLengths
    <3>4. QED
      BY <1>4, <3>1, <3>2, <3>3
  <2>4. QED
    BY <2>2, <2>3
<1>22. QED
  BY <1>6, <1>12, <1>13, <1>14, <1>15, <1>16, <1>17, <1>18, <1>19, <1>20, <1>21 DEF HandleKey

(* A command changes neither the keyboard nor, ever, the line. *)
LEMMA CommandKeepsSession == \A cmd : HandleCommand(cmd) => session' = session
BY DEF HandleCommand, Spawn, Titled, NothingDone, LoadPlugin, OnSelected, SetLayout, Run, commandVars

(* Where the invariant of the line is that of the keyboard in use. *)
LEMMA BarInvIs ==
    /\ BarTypes <=> /\ session \in DOMAIN Keyboards
                    /\ LineOf(keyboard, input, cursor_pos, history, history_idx)
    /\ CursorAtGlyph <=> Fits(keyboard, input, cursor_pos)
BY DEF BarTypes, LineOf, CursorAtGlyph, Fits, Narrow

(* Sessions start with a line typed and the cursor at its end. *)
LEMMA UserInitInv ==
    ASSUME MaxLocal < RemoteBase, UserInit
    PROVE  UserInv
<1>1. IInv
  BY UserInitPanes
<1>2. session \in DOMAIN Keyboards /\ BarInit(keyboard.typed)
  BY DEF UserInit
<1> DEFINE line == keyboard.typed
<1>3. line \in Seq(Writes(keyboard)) /\ Orderly(keyboard)
  BY <1>2, KeyboardIs DEF Orderly
<1>4. /\ input = line /\ cursor_pos = ByteLength(line) /\ history = <<>> /\ history_idx = 0
      /\ crashed = FALSE
  BY <1>2 DEF BarInit
<1> HIDE DEF line
<1>5. ByteLength(line) \in Nat /\ Fits(keyboard, line, ByteLength(line))
  BY <1>3, LengthsDiffer, EndFits
<1>6. LineOf(keyboard, input, cursor_pos, history, history_idx)
  <2>1. <<>> \in Seq(Seq(Writes(keyboard))) /\ 0 \in 0 .. Len(<<>>)
    OBVIOUS
  <2>2. QED
    BY <1>3, <1>4, <1>5, <2>1 DEF LineOf
<1>7. BarTypes /\ CursorAtGlyph
  BY <1>2, <1>4, <1>5, <1>6, BarInvIs
<1>8. QED
  BY <1>1, <1>4, <1>7 DEF UserInv, EditsAreSafe

(* The invariant of the command bar is inductive. *)
LEMMA UserInvStep ==
    ASSUME MaxLocal < RemoteBase, UserInv, [UserNext]_userVars
    PROVE  UserInv'
<1>1. IInv /\ TypeOK /\ BarTypes /\ (~crashed => CursorAtGlyph) /\ EditsAreSafe
  BY DEF UserInv, IInv
<1>2. IInv'
  BY <1>1, UserIsPaneStep, IInvStep
<1> DEFINE Good == BarTypes' /\ (~crashed' => CursorAtGlyph') /\ EditsAreSafe'
<1>3. ASSUME UNCHANGED <<session, barVars>> PROVE Good
  BY <1>1, <1>3 DEF barVars, BarTypes, CursorAtGlyph, EditsAreSafe, keyboard
<1>4. ASSUME NEW code \in Codes(keyboard), Running, HandleKey(code), session' = session PROVE Good
  <2> DEFINE k == keyboard
  <2>1. Orderly(k) /\ LineOf(k, input, cursor_pos, history, history_idx) /\ Fits(k, input, cursor_pos)
        /\ ~crashed /\ code \in Codes(k) /\ session \in DOMAIN Keyboards
    BY <1>1, <1>4, KeyboardIs, BarInvIs DEF Running, Orderly
  <2>2. keyboard' = k
    BY <1>4 DEF keyboard
  <2>3. /\ LineOf(k, input', cursor_pos', history', history_idx')
        /\ crashed' \/ Fits(k, input', cursor_pos')
        /\ EditsAreSafe'
    <3> HIDE DEF k
    <3>1. QED
      BY <1>4, <2>1, KeyFits
  <2>4. BarTypes' /\ (~crashed' => CursorAtGlyph')
    <3>1. /\ LineOf(keyboard, input, cursor_pos, history, history_idx)'
          /\ crashed' \/ Fits(keyboard, input, cursor_pos)'
          /\ (session \in DOMAIN Keyboards)'
      <4> HIDE DEF k
      <4>1. QED
        BY <1>4, <2>1, <2>2, <2>3 DEF LineOf, Fits
    <3>2. QED
      BY <3>1 DEF BarTypes, LineOf, CursorAtGlyph, Fits, Narrow
  <2>5. QED
    BY <2>3, <2>4
<1>5. ASSUME NEW key, key.code \in Codes(keyboard), Press(key) PROVE Good
  <2>1. CASE RouteKey(key).does = "type"
    BY <1>4, <1>5, <2>1, CommandKeepsSession DEF Press, Typed
  <2>2. CASE RouteKey(key).does # "type"
    BY <1>3, <1>5, <2>2 DEF Press, commandVars
  <2>3. QED
    BY <2>1, <2>2
<1>6. ASSUME NEW glyph \in keyboard.glyphs, Press(Key(glyph, {})) PROVE Good
  BY <1>5, <1>6 DEF Codes, Key
<1>7. ASSUME NEW key \in keyboard.keys, Press(key) PROVE Good
  BY <1>5, <1>7 DEF Codes
<1>8. ASSUME NEW cell, Click(cell) PROVE Good
  BY <1>3, <1>8 DEF Click, commandVars
<1>9. ASSUME Background PROVE Good
  BY <1>3, <1>9 DEF Background, commandVars
<1>10. ASSUME UNCHANGED userVars PROVE Good
  BY <1>3, <1>10 DEF userVars, commandVars
<1>11. Good
  BY <1>6, <1>7, <1>8, <1>9, <1>10 DEF UserNext
<1>12. QED
  BY <1>2, <1>11 DEF UserInv

(* Whatever is pressed, clicked, typed and submitted, and whatever ends or *)
(* connects meanwhile, panes, line and cursor keep the invariant.          *)
THEOREM UserInvariance == MaxLocal < RemoteBase => (UserSpec => []UserInv)
<1> SUFFICES ASSUME MaxLocal < RemoteBase PROVE UserSpec => []UserInv
  OBVIOUS
<1>1. UserInit => UserInv
  BY UserInitInv
<1>2. UserInv /\ [UserNext]_userVars => UserInv'
  BY UserInvStep
<1>3. QED
  BY <1>1, <1>2, PTL DEF UserSpec

(* Editing and submitting stop the program only in a line with a character *)
(* of two bytes, or for :send of a lone quote (command_bar.rs:90).         *)
THEOREM EditsNeverCrash == MaxLocal < RemoteBase => (UserSpec => []EditsAreSafe)
<1>1. UserInv => EditsAreSafe
  BY DEF UserInv
<1>2. QED
  BY <1>1, UserInvariance, PTL

(* Keys, clicks and commands act on panes as PaneManager does: every       *)
(* session behaves as its specification says, from the panes open at first.*)
THEOREM SessionsActOnPanes == MaxLocal < RemoteBase => (UserSpec => [][Next]_vars)
<1>1. UserInv => TypeOK
  BY DEF UserInv, IInv
<1>2. TypeOK /\ [UserNext]_userVars => [Next]_vars
  BY UserIsPaneStep
<1>3. QED
  BY <1>1, <1>2, UserInvariance, PTL DEF UserSpec

(* However keys, clicks and commands are mixed, keys reach the pane that   *)
(* is shown as focused, or the command bar.                                *)
THEOREM SessionKeysReachFocus == MaxLocal < RemoteBase => (UserSpec => []KeysReachFocus)
<1>1. UserInv => KeysReachFocus
  BY DEF UserInv, IInv
<1>2. QED
  BY <1>1, UserInvariance, PTL
-------------------------------------------------------------------------------
(* Division rounds down ... *)
LEMMA DivIs ==
    ASSUME NEW a \in Nat, NEW d \in Nat \ {0}
    PROVE  a \div d \in Nat /\ d * (a \div d) <= a /\ a < d * (a \div d) + d
OBVIOUS

(* ... to the only such number ... *)
LEMMA DivUnique ==
    ASSUME NEW a \in Nat, NEW d \in Nat \ {0}, NEW q \in Nat, d * q <= a, a < d * q + d
    PROVE  a \div d = q
OBVIOUS

(* ... and grows with what is divided. *)
LEMMA DivGrows ==
    ASSUME NEW a \in Nat, NEW b \in Nat, NEW d \in Nat \ {0}
    PROVE  /\ a <= b => a \div d <= b \div d
           /\ a + d <= b => a \div d < b \div d
OBVIOUS

(* The borders of n parts go from 0 to the length and never back; if the   *)
(* length has a cell for every part, each part gets one.                   *)
LEMMA Borders ==
    ASSUME NEW len \in Nat, NEW n \in Nat \ {0}
    PROVE  /\ \A i \in Nat : Border(len, n, i) \in Nat
           /\ Border(len, n, 0) = 0 /\ Border(len, n, n) = len
           /\ \A i, j \in Nat : i <= j => Border(len, n, i) <= Border(len, n, j)
           /\ n <= len => \A i \in Nat : Border(len, n, i) < Border(len, n, i + 1)
<1> DEFINE top(i) == 2 * i * len + n
           d == 2 * n
<1>1. d \in Nat \ {0} /\ \A i \in Nat : top(i) \in Nat /\ Border(len, n, i) = top(i) \div d
  BY DEF Border
<1>2. top(0) \div d = 0
  <2>1. top(0) = n /\ d * 0 <= n /\ n < d * 0 + d
    OBVIOUS
  <2>2. QED
    BY <1>1, <2>1, DivUnique
<1>3. top(n) \div d = len
  <2>1. top(n) = d * len + n /\ d * len <= top(n) /\ top(n) < d * len + d
    OBVIOUS
  <2>2. QED
    BY <1>1, <2>1, DivUnique
<1>4. \A i, j \in Nat : i <= j => top(i) <= top(j)
  OBVIOUS
<1>5. n <= len => \A i \in Nat : top(i) + d <= top(i + 1)
  OBVIOUS
<1> HIDE DEF top, d
<1>6. \A i \in Nat : Border(len, n, i) \in Nat
  BY <1>1, DivIs
<1>7. ASSUME NEW i \in Nat, NEW j \in Nat, i <= j PROVE Border(len, n, i) <= Border(len, n, j)
  BY <1>1, <1>4, <1>7, DivGrows
<1>8. ASSUME n <= len, NEW i \in Nat PROVE Border(len, n, i) < Border(len, n, i + 1)
  <2>1. i + 1 \in Nat /\ top(i) + d <= top(i + 1)
    BY <1>5, <1>8
  <2>2. QED
    BY <1>1, <2>1, DivGrows
<1>9. QED
  BY <1>1, <1>2, <1>3, <1>6, <1>7, <1>8

(* A position is in part i of n. *)
InPart(p, len, n, i) == Border(len, n, i - 1) <= p /\ p < Border(len, n, i)

(* Every position of the length is in one part and in no other. *)
LEMMA OnePart ==
    ASSUME NEW len \in Nat, NEW n \in Nat \ {0}, NEW p \in Int
    PROVE  /\ (0 <= p /\ p < len) <=> \E i \in 1 .. n : InPart(p, len, n, i)
           /\ \A i, j \in 1 .. n : InPart(p, len, n, i) /\ InPart(p, len, n, j) => i = j
<1> DEFINE B(i) == Border(len, n, i)
<1>1. /\ \A i \in Nat : B(i) \in Nat
      /\ B(0) = 0 /\ B(n) = len
      /\ \A i, j \in Nat : i <= j => B(i) <= B(j)
  BY Borders
<1>2. \A i : InPart(p, len, n, i) <=> B(i - 1) <= p /\ p < B(i)
  BY DEF InPart
<1> HIDE DEF B
<1>3. ASSUME 0 <= p, p < len PROVE \E i \in 1 .. n : InPart(p, len, n, i)
  <2> DEFINE S == {i \in Nat : p < B(i)}
  <2>1. S \in SUBSET Nat /\ n \in S
    BY <1>1, <1>3
  <2> HIDE DEF S
  <2>2. PICK i \in S : \A j \in S : ~(j < i)
    BY <2>1, NatMin
  <2>3. i \in Nat /\ p < B(i) /\ i <= n /\ i # 0
    BY <1>1, <1>3, <2>1, <2>2 DEF S
  <2>4. i \in 1 .. n /\ i - 1 \in Nat /\ i - 1 \notin S
    BY <2>2, <2>3
  <2>5. B(i - 1) <= p
    BY <1>1, <2>4 DEF S
  <2>6. QED
    BY <1>2, <2>3, <2>4, <2>5
<1>4. ASSUME NEW i \in 1 .. n, InPart(p, len, n, i) PROVE 0 <= p /\ p < len
  <2>1. i - 1 \in Nat /\ i \in Nat /\ i <= n /\ B(i - 1) <= p /\ p < B(i)
    BY <1>2, <1>4
  <2>2. B(i - 1) \in Nat /\ B(i) \in Nat /\ B(i) <= len
    BY <1>1, <2>1
  <2>3. QED
    BY <2>1, <2>2
<1>5. ASSUME NEW i \in 1 .. n, NEW j \in 1 .. n, InPart(p, len, n, i), InPart(p, len, n, j), i < j PROVE FALSE
  <2>1. i \in Nat /\ j - 1 \in Nat /\ i <= j - 1 /\ p < B(i) /\ B(j - 1) <= p
    BY <1>2, <1>5
  <2>2. B(i) \in Nat /\ B(j - 1) \in Nat /\ B(i) <= B(j - 1)
    BY <1>1, <2>1
  <2>3. QED
    BY <2>1, <2>2
<1>6. \A i, j \in 1 .. n : InPart(p, len, n, i) /\ InPart(p, len, n, j) => i = j
  <2>1. \A i, j \in 1 .. n : i < j \/ j < i \/ i = j
    OBVIOUS
  <2>2. QED
    BY <1>5, <2>1
<1>7. QED
  BY <1>3, <1>4, <1>6

-------------------------------------------------------------------------------
Rect == [x : Nat, y : Nat, width : Nat, height : Nat]
Cell == [column : Int, row : Int]

(* n areas divide an area: each of its cells is in one of them, and no     *)
(* other cell is.                                                          *)
Divides(areas, n, area) ==
    /\ \A i \in 1 .. n : areas[i] \in Rect
    /\ \A cell \in Cell : /\ Covers(area, cell) <=> \E i \in 1 .. n : Covers(areas[i], cell)
                          /\ \A i, j \in 1 .. n : Covers(areas[i], cell) /\ Covers(areas[j], cell) => i = j

(* Areas of n rows: borders of the height. *)
LEMMA StackedIs ==
    ASSUME NEW area \in Rect, NEW n \in Nat \ {0}, NEW i \in 1 .. n
    PROVE  /\ Stacked(area, n)[i] \in Rect
           /\ Stacked(area, n)[i].width = area.width
           /\ n <= area.height => Stacked(area, n)[i].height > 0
           /\ \A cell \in Cell :
                 Covers(Stacked(area, n)[i], cell) <=>
                    /\ 0 <= cell.column - area.x /\ cell.column - area.x < area.width
                    /\ InPart(cell.row - area.y, area.height, n, i)
<1> DEFINE a == Border(area.height, n, i - 1)
           b == Border(area.height, n, i)
           part == Stacked(area, n)[i]
<1>1. /\ area.height \in Nat /\ area.width \in Nat /\ area.x \in Nat /\ area.y \in Nat
      /\ i - 1 \in Nat /\ i \in Nat /\ i - 1 <= i /\ (i - 1) + 1 = i
  BY DEF Rect
<1>2. a \in Nat /\ b \in Nat /\ a <= b /\ (n <= area.height => a < b)
  BY <1>1, Borders
<1>3. part = [area EXCEPT !.y = @ + a, !.height = b - a]
  BY DEF Stacked
<1> HIDE DEF a, b, part
<1>4. part = [x |-> area.x, y |-> area.y + a, width |-> area.width, height |-> b - a]
  BY <1>3 DEF Rect
<1>5. part \in Rect /\ part.width = area.width /\ (n <= area.height => part.height > 0)
  BY <1>1, <1>2, <1>4 DEF Rect
<1>6. ASSUME NEW cell \in Cell
      PROVE  Covers(part, cell) <=> /\ 0 <= cell.column - area.x /\ cell.column - area.x < area.width
                                    /\ a <= cell.row - area.y /\ cell.row - area.y < b
  <2>1. cell.row \in Int /\ cell.column \in Int
    BY DEF Cell
  <2>2. part.x = area.x /\ part.y = area.y + a /\ part.width = area.width /\ part.height = b - a
    BY <1>4
  <2>3. QED
    BY <1>1, <1>2, <2>1, <2>2 DEF Covers
<1>7. QED
  BY <1>5, <1>6 DEF InPart, a, b, part

(* The same of columns. *)
LEMMA SideBySideIs ==
    ASSUME NEW area \in Rect, NEW n \in Nat \ {0}, NEW i \in 1 .. n
    PROVE  /\ SideBySide(area, n)[i] \in Rect
           /\ SideBySide(area, n)[i].height = area.height
           /\ n <= area.width => SideBySide(area, n)[i].width > 0
           /\ \A cell \in Cell :
                 Covers(SideBySide(area, n)[i], cell) <=>
                    /\ 0 <= cell.row - area.y /\ cell.row - area.y < area.height
                    /\ InPart(cell.column - area.x, area.width, n, i)
<1> DEFINE a == Border(area.width, n, i - 1)
           b == Border(area.width, n, i)
           part == SideBySide(area, n)[i]
<1>1. /\ area.height \in Nat /\ area.width \in Nat /\ area.x \in Nat /\ area.y \in Nat
      /\ i - 1 \in Nat /\ i \in Nat /\ i - 1 <= i /\ (i - 1) + 1 = i
  BY DEF Rect
<1>2. a \in Nat /\ b \in Nat /\ a <= b /\ (n <= area.width => a < b)
  BY <1>1, Borders
<1>3. part = [area EXCEPT !.x = @ + a, !.width = b - a]
  BY DEF SideBySide
<1> HIDE DEF a, b, part
<1>4. part = [x |-> area.x + a, y |-> area.y, width |-> b - a, height |-> area.height]
  BY <1>3 DEF Rect
<1>5. part \in Rect /\ part.height = area.height /\ (n <= area.width => part.width > 0)
  BY <1>1, <1>2, <1>4 DEF Rect
<1>6. ASSUME NEW cell \in Cell
      PROVE  Covers(part, cell) <=> /\ 0 <= cell.row - area.y /\ cell.row - area.y < area.height
                                    /\ a <= cell.column - area.x /\ cell.column - area.x < b
  <2>1. cell.row \in Int /\ cell.column \in Int
    BY DEF Cell
  <2>2. part.y = area.y /\ part.x = area.x + a /\ part.height = area.height /\ part.width = b - a
    BY <1>4
  <2>3. QED
    BY <1>1, <1>2, <2>1, <2>2 DEF Covers
<1>7. QED
  BY <1>5, <1>6 DEF InPart, a, b, part

(* Rows divide an area, and so do columns. *)
LEMMA PartsDivide ==
    ASSUME NEW area \in Rect, NEW n \in Nat \ {0}
    PROVE  Divides(Stacked(area, n), n, area) /\ Divides(SideBySide(area, n), n, area)
<1>1. area.height \in Nat /\ area.width \in Nat /\ area.x \in Nat /\ area.y \in Nat
  BY DEF Rect
<1>2. ASSUME NEW cell \in Cell
      PROVE  /\ cell.row - area.y \in Int /\ cell.column - area.x \in Int
             /\ Covers(area, cell) <=> /\ 0 <= cell.column - area.x /\ cell.column - area.x < area.width
                                       /\ 0 <= cell.row - area.y /\ cell.row - area.y < area.height
  <2>1. cell.row \in Int /\ cell.column \in Int
    BY DEF Cell
  <2>2. QED
    BY <1>1, <2>1 DEF Covers
<1>3. Divides(Stacked(area, n), n, area)
  <2>1. ASSUME NEW cell \in Cell
        PROVE  /\ Covers(area, cell) <=> \E i \in 1 .. n : Covers(Stacked(area, n)[i], cell)
               /\ \A i, j \in 1 .. n :
                    Covers(Stacked(area, n)[i], cell) /\ Covers(Stacked(area, n)[j], cell) => i = j
    <3> DEFINE p == cell.row - area.y
               inside == 0 <= cell.column - area.x /\ cell.column - area.x < area.width
    <3>1. \A i \in 1 .. n : Covers(Stacked(area, n)[i], cell) <=> inside /\ InPart(p, area.height, n, i)
      BY StackedIs
    <3>2. p \in Int /\ (Covers(area, cell) <=> inside /\ 0 <= p /\ p < area.height)
      BY <1>2
    <3> HIDE DEF p, inside
    <3>3. /\ (0 <= p /\ p < area.height) <=> \E i \in 1 .. n : InPart(p, area.height, n, i)
          /\ \A i, j \in 1 .. n : InPart(p, area.height, n, i) /\ InPart(p, area.height, n, j) => i = j
      BY <1>1, <3>2, OnePart
    <3>4. QED
      BY <3>1, <3>2, <3>3
  <2>2. QED
    BY <2>1, StackedIs DEF Divides
<1>4. Divides(SideBySide(area, n), n, area)
  <2>1. ASSUME NEW cell \in Cell
        PROVE  /\ Covers(area, cell) <=> \E i \in 1 .. n : Covers(SideBySide(area, n)[i], cell)
               /\ \A i, j \in 1 .. n :
                    Covers(SideBySide(area, n)[i], cell) /\ Covers(SideBySide(area, n)[j], cell) => i = j
    <3> DEFINE p == cell.column - area.x
               inside == 0 <= cell.row - area.y /\ cell.row - area.y < area.height
    <3>1. \A i \in 1 .. n : Covers(SideBySide(area, n)[i], cell) <=> inside /\ InPart(p, area.width, n, i)
      BY SideBySideIs
    <3>2. p \in Int /\ (Covers(area, cell) <=> inside /\ 0 <= p /\ p < area.width)
      BY <1>2
    <3> HIDE DEF p, inside
    <3>3. /\ (0 <= p /\ p < area.width) <=> \E i \in 1 .. n : InPart(p, area.width, n, i)
          /\ \A i, j \in 1 .. n : InPart(p, area.width, n, i) /\ InPart(p, area.width, n, j) => i = j
      BY <1>1, <3>2, OnePart
    <3>4. QED
      BY <3>1, <3>2, <3>3
  <2>2. QED
    BY <2>1, SideBySideIs DEF Divides
<1>5. QED
  BY <1>3, <1>4

(* The grid of n panes: c columns, and just as many rows as are needed.    *)
LEMMA GridSize ==
    ASSUME NEW n \in Nat \ {0}
    PROVE  /\ GridColumns(n) \in 1 .. n
           /\ GridRows(n) \in 1 .. n
           /\ n <= GridRows(n) * GridColumns(n)
           /\ (GridRows(n) - 1) * GridColumns(n) < n
<1> DEFINE S == {c \in Nat : c \in 1 .. n /\ c * c >= n}
<1>1. PICK c \in S : \A b \in S : ~(b < c)
  <2>1. n \in 1 .. n /\ n * n >= n
    OBVIOUS
  <2>2. S \in SUBSET Nat /\ n \in S
    BY <2>1
  <2> HIDE DEF S
  <2>3. QED
    BY <2>2, NatMin
<1>2. c \in 1 .. n /\ c * c >= n /\ (c - 1) * (c - 1) < n
  <2>1. c \in 1 .. n /\ c * c >= n /\ c - 1 \in Nat
    BY <1>1
  <2>2. c - 1 \notin S
    BY <1>1, <2>1
  <2>3. CASE c = 1
    BY <2>1, <2>3
  <2>4. CASE c # 1
    <3>1. c - 1 \in 1 .. n
      BY <2>1, <2>4
    <3>2. ~((c - 1) * (c - 1) >= n) /\ (c - 1) * (c - 1) \in Nat
      BY <2>1, <2>2, <3>1
    <3>3. QED
      BY <2>1, <3>2
  <2>5. QED
    BY <2>3, <2>4
<1>3. GridColumns(n) \in 1 .. n
  BY <1>2 DEF GridColumns
<1> DEFINE w == GridColumns(n)
           r == GridRows(n)
<1>4. r = (n + w - 1) \div w
  BY DEF GridRows, CeilDiv
<1>5. w \in Nat \ {0} /\ n + w - 1 \in Nat
  BY <1>3
<1> HIDE DEF w, r
<1>6. r \in Nat /\ w * r <= n + w - 1 /\ n + w - 1 < w * r + w
  BY <1>4, <1>5, DivIs
<1>7. r # 0
  BY <1>5, <1>6
<1>8. r * w = w * r /\ (r - 1) * w = w * r - w /\ w * r \in Nat
  BY <1>5, <1>6
<1>9. n <= r * w /\ (r - 1) * w < n
  BY <1>5, <1>6, <1>8
<1>10. r <= n
  <2>1. SUFFICES ASSUME r > n PROVE FALSE
    BY <1>6
  <2>2. r - 1 \in Nat /\ n <= r - 1 /\ r - 1 <= (r - 1) * w
    BY <1>5, <1>6, <2>1
  <2>3. QED
    BY <1>5, <1>6, <1>9, <2>2
<1>11. r \in 1 .. n
  BY <1>6, <1>7, <1>10
<1>12. QED
  BY <1>3, <1>9, <1>11 DEF r, w

(* The panes of row r: w of them, fewer in the last row. *)
InRow(n, r) == Smaller(GridColumns(n), n - (r - 1) * GridColumns(n))

(* Pane i is in a row, at a place of that row ... *)
LEMMA PlaceOf ==
    ASSUME NEW n \in Nat \ {0}, NEW i \in 1 .. n
    PROVE  /\ CeilDiv(i, GridColumns(n)) \in 1 .. GridRows(n)
           /\ i - (CeilDiv(i, GridColumns(n)) - 1) * GridColumns(n) \in
                 1 .. InRow(n, CeilDiv(i, GridColumns(n)))
<1> DEFINE w == GridColumns(n)
           rows == GridRows(n)
           r == CeilDiv(i, w)
<1>1. w \in Nat \ {0} /\ rows \in Nat \ {0} /\ n <= rows * w
  BY GridSize
<1>2. r = (i + w - 1) \div w
  BY DEF CeilDiv
<1>3. i + w - 1 \in Nat
  BY <1>1
<1> HIDE DEF w, rows, r
<1>4. r \in Nat /\ w * r <= i + w - 1 /\ i + w - 1 < w * r + w
  BY <1>1, <1>2, <1>3, DivIs
<1>5. r # 0
  BY <1>1, <1>4
<1>6. (r - 1) * w = w * r - w /\ w * r \in Nat
  BY <1>1, <1>4
<1>7. i - (r - 1) * w \in 1 .. w /\ i - (r - 1) * w <= n - (r - 1) * w
  BY <1>1, <1>4, <1>6
<1>8. r <= rows
  <2>1. SUFFICES ASSUME r > rows PROVE FALSE
    BY <1>1, <1>4
  <2>2. rows <= r - 1 /\ r - 1 \in Nat
    BY <1>1, <1>4, <2>1
  <2>3. rows * w <= (r - 1) * w
    BY <1>1, <2>2
  <2>4. (r - 1) * w < i
    BY <1>4, <1>6, <1>1
  <2>5. rows * w \in Nat /\ (r - 1) * w \in Nat
    BY <1>1, <2>2
  <2>6. QED
    BY <1>1, <2>3, <2>4, <2>5
<1>9. r \in 1 .. rows
  BY <1>1, <1>4, <1>5, <1>8
<1>10. i - (r - 1) * w \in 1 .. Smaller(w, n - (r - 1) * w)
  BY <1>7 DEF Smaller
<1>11. QED
  BY <1>9, <1>10 DEF InRow, w, rows, r

(* ... and every place of a row is that of a pane. *)
LEMMA PaneIn ==
    ASSUME NEW n \in Nat \ {0}, NEW r \in 1 .. GridRows(n)
    PROVE  /\ InRow(n, r) \in 1 .. n
           /\ \A k \in 1 .. InRow(n, r) :
                 /\ (r - 1) * GridColumns(n) + k \in 1 .. n
                 /\ CeilDiv((r - 1) * GridColumns(n) + k, GridColumns(n)) = r
<1> DEFINE w == GridColumns(n)
           rows == GridRows(n)
           before == (r - 1) * w
<1>1. w \in 1 .. n /\ w \in Nat \ {0} /\ rows \in Nat \ {0} /\ (rows - 1) * w < n /\ r \in 1 .. rows
  BY GridSize
<1>2. InRow(n, r) = Smaller(w, n - before)
  BY DEF InRow
<1>3. before = w * (r - 1) /\ before \in Nat /\ before < n
  <2> HIDE DEF w, rows
  <2>1. r - 1 \in Nat /\ r - 1 <= rows - 1 /\ rows - 1 \in Nat
    BY <1>1
  <2>2. (r - 1) * w <= (rows - 1) * w /\ (r - 1) * w \in Nat /\ (rows - 1) * w \in Nat
    BY <1>1, <2>1
  <2>3. QED
    BY <1>1, <2>1, <2>2
<1> HIDE DEF before, w, rows
<1>4. InRow(n, r) \in 1 .. n /\ InRow(n, r) <= w /\ InRow(n, r) <= n - before
  BY <1>1, <1>2, <1>3 DEF Smaller
<1>5. ASSUME NEW k \in 1 .. InRow(n, r) PROVE before + k \in 1 .. n /\ CeilDiv(before + k, w) = r
  <2>1. k \in Nat /\ 1 <= k /\ k <= w /\ k <= n - before
    BY <1>1, <1>3, <1>4
  <2>2. before + k \in 1 .. n
    BY <1>3, <2>1
  <2>3. before + k + w - 1 \in Nat /\ w * r = before + w /\ r \in Nat
    BY <1>1, <1>3, <2>1 DEF before
  <2>4. w * r <= before + k + w - 1 /\ before + k + w - 1 < w * r + w
    BY <1>1, <1>3, <2>1, <2>3
  <2>5. (before + k + w - 1) \div w = r
    BY <1>1, <2>3, <2>4, DivUnique
  <2>6. QED
    BY <2>2, <2>5 DEF CeilDiv
<1>6. QED
  BY <1>4, <1>5 DEF before, w

(* The area of pane i of the grid. *)
LEMMA GridAreasAre ==
    ASSUME NEW n \in Nat \ {0}, NEW area
    PROVE  LET w == GridColumns(n)
               r(i) == CeilDiv(i, w)
           IN GridAreas(area, n) =
                [i \in 1 .. n |-> SideBySide(Stacked(area, GridRows(n))[r(i)], InRow(n, r(i)))[i - (r(i) - 1) * w]]
<1>1. Smaller(n, GridRows(n) * GridColumns(n)) = n
  BY GridSize DEF Smaller
<1>2. QED
  BY <1>1 DEF GridAreas, InRow

(* The grid divides an area among n panes; where the area has n rows and n *)
(* columns of cells at least, each pane gets one.                          *)
LEMMA GridDivides ==
    ASSUME NEW area \in Rect, NEW n \in Nat \ {0}
    PROVE  /\ Divides(GridAreas(area, n), n, area)
           /\ n <= area.width /\ n <= area.height =>
                 \A i \in 1 .. n : GridAreas(area, n)[i].width > 0 /\ GridAreas(area, n)[i].height > 0
<1> DEFINE w == GridColumns(n)
           rows == GridRows(n)
           row(r) == Stacked(area, rows)[r]
           part(r, k) == SideBySide(row(r), InRow(n, r))[k]
           r(i) == CeilDiv(i, w)
           k(i) == i - (r(i) - 1) * w
           index(q, j) == (q - 1) * w + j
           g == GridAreas(area, n)
<1>1. w \in Nat \ {0} /\ rows \in Nat \ {0} /\ w <= n /\ rows <= n
  BY GridSize
<1>2. \A i \in 1 .. n : g[i] = part(r(i), k(i))
  <2>1. g = [i \in 1 .. n |-> SideBySide(Stacked(area, rows)[r(i)], InRow(n, r(i)))[i - (r(i) - 1) * w]]
    BY GridAreasAre
  <2> HIDE DEF g
  <2>2. QED
    BY <2>1
<1>3. \A i \in 1 .. n : r(i) \in 1 .. rows /\ k(i) \in 1 .. InRow(n, r(i)) /\ i = index(r(i), k(i))
  <2>1. ASSUME NEW i \in 1 .. n PROVE r(i) \in 1 .. rows /\ k(i) \in 1 .. InRow(n, r(i)) /\ i = index(r(i), k(i))
    <3>1. r(i) \in 1 .. rows /\ k(i) \in 1 .. InRow(n, r(i))
      BY PlaceOf
    <3> HIDE DEF r, rows, w
    <3>2. (r(i) - 1) * w \in Int
      BY <1>1, <3>1
    <3>3. i = index(r(i), k(i))
      BY <3>2
    <3>4. QED
      BY <3>1, <3>3
  <2>2. QED
    BY <2>1
<1>4. ASSUME NEW q \in 1 .. rows
      PROVE  /\ InRow(n, q) \in 1 .. n
             /\ \A j \in 1 .. InRow(n, q) : index(q, j) \in 1 .. n /\ r(index(q, j)) = q /\ k(index(q, j)) = j
  <2>1. InRow(n, q) \in 1 .. n
    BY PaneIn
  <2>2. ASSUME NEW j \in 1 .. InRow(n, q)
        PROVE  index(q, j) \in 1 .. n /\ r(index(q, j)) = q /\ k(index(q, j)) = j
    <3>1. index(q, j) \in 1 .. n /\ r(index(q, j)) = q
      BY PaneIn
    <3>2. j \in Int /\ (q - 1) * w \in Int
      BY <1>1, <2>1
    <3> HIDE DEF r, w
    <3>3. k(index(q, j)) = index(q, j) - (r(index(q, j)) - 1) * w /\ index(q, j) = (q - 1) * w + j
      OBVIOUS
    <3> HIDE DEF index, k
    <3>4. QED
      BY <3>1, <3>2, <3>3
  <2>3. QED
    BY <2>1, <2>2
<1>5. \A q \in 1 .. rows : row(q) \in Rect /\ row(q).width = area.width /\ (rows <= area.height => row(q).height > 0)
  BY <1>1, StackedIs
<1>6. Divides([q \in 1 .. rows |-> row(q)], rows, area)
  <2>1. Divides(Stacked(area, rows), rows, area)
    BY <1>1, PartsDivide
  <2>2. QED
    BY <2>1 DEF Divides
<1>7. \A q \in 1 .. rows : InRow(n, q) \in Nat \ {0} /\ Divides(SideBySide(row(q), InRow(n, q)), InRow(n, q), row(q))
  <2>1. ASSUME NEW q \in 1 .. rows
        PROVE  InRow(n, q) \in Nat \ {0} /\ Divides(SideBySide(row(q), InRow(n, q)), InRow(n, q), row(q))
    <3>1. InRow(n, q) \in Nat \ {0} /\ row(q) \in Rect
      BY <1>4, <1>5
    <3> HIDE DEF row
    <3>2. QED
      BY <3>1, PartsDivide
  <2>2. QED
    BY <2>1
<1> HIDE DEF w, rows, g, r, k, index
<1>8. \A q \in 1 .. rows : \A j \in 1 .. InRow(n, q) :
         /\ part(q, j) \in Rect /\ part(q, j).height = row(q).height
         /\ InRow(n, q) <= row(q).width => part(q, j).width > 0
  <2>1. ASSUME NEW q \in 1 .. rows, NEW j \in 1 .. InRow(n, q)
        PROVE  /\ part(q, j) \in Rect /\ part(q, j).height = row(q).height
               /\ InRow(n, q) <= row(q).width => part(q, j).width > 0
    <3>1. InRow(n, q) \in Nat \ {0} /\ row(q) \in Rect
      BY <1>5, <1>7
    <3> HIDE DEF row
    <3>2. QED
      BY <3>1, SideBySideIs
  <2>2. QED
    BY <2>1
<1> HIDE DEF part
<1>9. ASSUME NEW cell \in Cell
      PROVE  /\ Covers(area, cell) <=> \E q \in 1 .. rows : Covers(row(q), cell)
             /\ \A p, q \in 1 .. rows : Covers(row(p), cell) /\ Covers(row(q), cell) => p = q
             /\ \A q \in 1 .. rows :
                   /\ Covers(row(q), cell) <=> \E j \in 1 .. InRow(n, q) : Covers(part(q, j), cell)
                   /\ \A i, j \in 1 .. InRow(n, q) :
                         Covers(part(q, i), cell) /\ Covers(part(q, j), cell) => i = j
  BY <1>6, <1>7 DEF Divides, part
<1> HIDE DEF row
<1>10. ASSUME NEW cell \in Cell
       PROVE  /\ Covers(area, cell) <=> \E i \in 1 .. n : Covers(g[i], cell)
              /\ \A i, j \in 1 .. n : Covers(g[i], cell) /\ Covers(g[j], cell) => i = j
  <2>1. ASSUME Covers(area, cell) PROVE \E i \in 1 .. n : Covers(g[i], cell)
    <3>1. PICK q \in 1 .. rows : Covers(row(q), cell)
      BY <1>9, <2>1
    <3>2. PICK j \in 1 .. InRow(n, q) : Covers(part(q, j), cell)
      BY <1>9, <3>1
    <3>3. index(q, j) \in 1 .. n /\ g[index(q, j)] = part(q, j)
      BY <1>2, <1>4
    <3>4. QED
      BY <3>2, <3>3
  <2>2. ASSUME NEW i \in 1 .. n, Covers(g[i], cell) PROVE Covers(row(r(i)), cell) /\ Covers(part(r(i), k(i)), cell)
    BY <1>2, <1>3, <1>9, <2>2
  <2>3. ASSUME NEW i \in 1 .. n, Covers(g[i], cell) PROVE Covers(area, cell)
    BY <1>3, <1>9, <2>2, <2>3
  <2>4. ASSUME NEW i \in 1 .. n, NEW j \in 1 .. n, Covers(g[i], cell), Covers(g[j], cell) PROVE i = j
    <3>1. r(i) = r(j)
      BY <1>3, <1>9, <2>2, <2>4
    <3>2. k(i) = k(j)
      BY <1>3, <1>9, <2>2, <2>4, <3>1
    <3>3. QED
      BY <1>3, <3>1, <3>2
  <2>5. QED
    BY <2>1, <2>3, <2>4
<1>11. \A i \in 1 .. n : g[i] \in Rect
  BY <1>2, <1>3, <1>8
<1>12. ASSUME n <= area.width, n <= area.height, NEW i \in 1 .. n PROVE g[i].width > 0 /\ g[i].height > 0
  <2>1. area.width \in Nat /\ area.height \in Nat
    BY DEF Rect
  <2>2. r(i) \in 1 .. rows /\ k(i) \in 1 .. InRow(n, r(i)) /\ g[i] = part(r(i), k(i))
    BY <1>2, <1>3
  <2>3. rows <= area.height /\ InRow(n, r(i)) <= area.width
    <3>1. InRow(n, r(i)) \in 1 .. n
      BY <1>4, <2>2
    <3>2. QED
      BY <1>1, <1>12, <2>1, <3>1
  <2>4. row(r(i)).width = area.width /\ row(r(i)).height > 0
    BY <1>5, <2>2, <2>3
  <2>5. QED
    BY <1>8, <2>2, <2>3, <2>4
<1>13. QED
  BY <1>10, <1>11, <1>12 DEF Divides, g

(* In a layout that shows every pane the areas drawn divide the screen.    *)
LEMMA DrawnDivide ==
    ASSUME NEW order, NEW kind \in Tiling, NEW T, order \in Seq(T), order # <<>>, NEW area \in Rect
    PROVE  LET drawn == PaneAreas(area, order, kind)
               n == Len(order)
           IN /\ drawn \in Seq([pane : T, area : Rect]) /\ Len(drawn) = n
              /\ \A i \in 1 .. n : drawn[i].pane = order[i]
              /\ Divides([i \in 1 .. n |-> drawn[i].area], n, area)
              /\ n <= area.width /\ n <= area.height =>
                    \A i \in 1 .. n : drawn[i].area.width > 0 /\ drawn[i].area.height > 0
<1> DEFINE n == Len(order)
           areas == IF n = 1 THEN <<area>> ELSE Areas(area, n, kind)
           drawn == PaneAreas(area, order, kind)
           Enough == n <= area.width /\ n <= area.height
<1>1. n \in Nat \ {0} /\ \A i \in 1 .. n : order[i] \in T
  <2>1. n \in Nat /\ n # 0
    OBVIOUS
  <2>2. QED
    BY <2>1, ElementOfSeq
<1>2. drawn = [i \in 1 .. Smaller(n, Len(areas)) |-> [pane |-> order[i], area |-> areas[i]]]
  BY DEF PaneAreas
<1>3. area.width \in Nat /\ area.height \in Nat
  BY DEF Rect
<1> DEFINE Good == /\ areas = [i \in 1 .. n |-> areas[i]]
                   /\ Divides(areas, n, area)
                   /\ Enough => \A i \in 1 .. n : areas[i].width > 0 /\ areas[i].height > 0
<1>4. ASSUME n = 1 PROVE Good
  <2>1. areas = <<area>>
    BY <1>4
  <2> HIDE DEF areas, n
  <2>2. areas = [i \in 1 .. 1 |-> area]
    BY <2>1
  <2>3. areas[1] = area /\ \A i \in 1 .. 1 : i = 1
    BY <2>2
  <2>4. Divides(areas, 1, area)
    BY <2>3 DEF Divides
  <2>5. QED
    BY <1>3, <1>4, <2>2, <2>3, <2>4
<1>5. ASSUME n # 1 PROVE Good
  <2>1. CASE kind = "hsplit"
    <3>1. areas = Stacked(area, n)
      BY <1>5, <2>1 DEF Areas
    <3>2. Stacked(area, n) = [i \in 1 .. n |-> Stacked(area, n)[i]]
      BY DEF Stacked
    <3>3. Divides(Stacked(area, n), n, area)
      BY <1>1, PartsDivide
    <3>4. Enough => \A i \in 1 .. n : Stacked(area, n)[i].width > 0 /\ Stacked(area, n)[i].height > 0
      <4>1. ASSUME Enough, NEW i \in 1 .. n
            PROVE  Stacked(area, n)[i].width = area.width /\ Stacked(area, n)[i].height > 0
        BY <1>1, <4>1, StackedIs
      <4>2. Enough => area.width > 0
        BY <1>1, <1>3
      <4>3. QED
        BY <4>1, <4>2
    <3> HIDE DEF areas, n, Enough
    <3>5. QED
      BY <3>1, <3>2, <3>3, <3>4
  <2>2. CASE kind = "vsplit"
    <3>1. areas = SideBySide(area, n)
      BY <1>5, <2>2 DEF Areas
    <3>2. SideBySide(area, n) = [i \in 1 .. n |-> SideBySide(area, n)[i]]
      BY DEF SideBySide
    <3>3. Divides(SideBySide(area, n), n, area)
      BY <1>1, PartsDivide
    <3>4. Enough => \A i \in 1 .. n : SideBySide(area, n)[i].width > 0 /\ SideBySide(area, n)[i].height > 0
      <4>1. ASSUME Enough, NEW i \in 1 .. n
            PROVE  SideBySide(area, n)[i].height = area.height /\ SideBySide(area, n)[i].width > 0
        BY <1>1, <4>1, SideBySideIs
      <4>2. Enough => area.height > 0
        BY <1>1, <1>3
      <4>3. QED
        BY <4>1, <4>2
    <3> HIDE DEF areas, n, Enough
    <3>5. QED
      BY <3>1, <3>2, <3>3, <3>4
  <2>3. CASE kind = "grid"
    <3>1. areas = GridAreas(area, n)
      BY <1>5, <2>3 DEF Areas
    <3>2. GridAreas(area, n) = [i \in 1 .. n |-> GridAreas(area, n)[i]]
      BY <1>1, GridAreasAre
    <3>3. /\ Divides(GridAreas(area, n), n, area)
          /\ Enough => \A i \in 1 .. n : GridAreas(area, n)[i].width > 0 /\ GridAreas(area, n)[i].height > 0
      BY <1>1, GridDivides
    <3> HIDE DEF areas, n, Enough
    <3>4. QED
      BY <3>1, <3>2, <3>3
  <2>4. QED
    BY <2>1, <2>2, <2>3 DEF Tiling
<1>6. /\ areas = [i \in 1 .. n |-> areas[i]]
      /\ Divides(areas, n, area)
      /\ Enough => \A i \in 1 .. n : areas[i].width > 0 /\ areas[i].height > 0
  <2> HIDE DEF areas, n, Enough
  <2>1. QED
    BY <1>4, <1>5
<1> HIDE DEF areas, drawn, Enough, n
<1>7. \A i \in 1 .. n : areas[i] \in Rect
  BY <1>6 DEF Divides
<1>8. Len(areas) = n
  <2>1. areas \in Seq(Rect)
    BY <1>1, <1>6, <1>7
  <2>2. DOMAIN areas = 1 .. n
    BY <1>6
  <2>3. QED
    BY <1>1, <2>1, <2>2, LenProperties
<1>9. drawn = [i \in 1 .. n |-> [pane |-> order[i], area |-> areas[i]]]
  BY <1>1, <1>2, <1>8 DEF Smaller
<1>10. drawn \in Seq([pane : T, area : Rect]) /\ Len(drawn) = n
  BY <1>1, <1>7, <1>9
<1>11. \A i \in 1 .. n : drawn[i].pane = order[i] /\ drawn[i].area = areas[i]
  BY <1>9
<1>12. [i \in 1 .. n |-> drawn[i].area] = areas
  BY <1>6, <1>11
<1>13. QED
  BY <1>6, <1>10, <1>11, <1>12 DEF drawn, n, Enough

(* There are no more panes in the order than panes. *)
LEMMA OrderFits == ASSUME IInv PROVE Len(pane_order) \in Nat /\ Len(pane_order) <= MaxPanes
<1> DEFINE n == Len(pane_order)
<1>1. /\ pane_order \in Seq(PaneIds) /\ panes \in SUBSET PaneIds /\ pending_spawns \in Nat
      /\ Range(pane_order) = panes
      /\ \A i, j \in 1 .. n : pane_order[i] = pane_order[j] => i = j
      /\ Cardinality(panes) + pending_spawns <= MaxPanes
  BY DEF IInv, TypeOK, OrderMatchesPanes, CapacityRespected
<1>2. n \in Nat /\ DOMAIN pane_order = 1 .. n
  BY <1>1, LenProperties
<1>3. pane_order \in [1 .. n -> panes]
  <2>1. pane_order \in [1 .. n -> PaneIds]
    BY <1>1
  <2>2. \A i \in 1 .. n : pane_order[i] \in panes
    BY <1>1, <1>2 DEF Range
  <2>3. QED
    BY <2>1, <2>2
<1>4. pane_order \in Injection(1 .. n, panes)
  BY <1>1, <1>3 DEF Injection, IsInjective
<1>5. IsFiniteSet(panes) /\ Cardinality(panes) \in Nat
  BY <1>1, Countable
<1>6. Cardinality(1 .. n) <= Cardinality(panes)
  <2> HIDE DEF n
  <2>1. QED
    BY <1>4, <1>5, FS_Injection
<1>7. Cardinality(1 .. n) = n
  <2> HIDE DEF n
  <2>1. QED
    BY <1>2, FS_Interval
<1>8. QED
  BY <1>1, <1>2, <1>5, <1>6, <1>7, MaxPanesAssumption

(* The areas drawn now. *)
LEMMA DrawnNow ==
    ASSUME TypeOK, layout \in Tiling, pane_order # <<>>
    PROVE  LET n == Len(pane_order)
           IN /\ Drawn \in Seq([pane : PaneIds, area : Rect]) /\ Len(Drawn) = n
              /\ Divides([i \in 1 .. n |-> Drawn[i].area], n, Screen)
              /\ n <= Screen.width /\ n <= Screen.height =>
                    \A i \in 1 .. n : Drawn[i].area.width > 0 /\ Drawn[i].area.height > 0
<1>1. pane_order \in Seq(PaneIds) /\ Screen \in Rect
  BY ScreenAssumption DEF TypeOK, Rect
<1>2. QED
  BY <1>1, DrawnDivide DEF Drawn

(* Cells of an area are those it covers. *)
LEMMA CellsCovered ==
    ASSUME NEW area \in Rect, NEW cell \in Cells(area)
    PROVE  cell \in Cell /\ Covers(area, cell)
<1>1. area.x \in Nat /\ area.y \in Nat /\ area.width \in Nat /\ area.height \in Nat
  BY DEF Rect
<1>2. /\ cell \in [column : area.x .. area.x + area.width - 1, row : area.y .. area.y + area.height - 1]
      /\ cell.column \in area.x .. area.x + area.width - 1
      /\ cell.row \in area.y .. area.y + area.height - 1
  BY DEF Cells
<1>3. cell.column \in Int /\ cell.row \in Int /\ cell = [column |-> cell.column, row |-> cell.row]
  BY <1>1, <1>2
<1>4. QED
  BY <1>1, <1>2, <1>3 DEF Cell, Covers

(* What is drawn hides nothing and leaves no gap ... *)
LEMMA DrawnTile ==
    ASSUME IInv, MaxPanes <= Screen.width, MaxPanes <= Screen.height
    PROVE  PanesTile
<1> SUFFICES ASSUME layout \in Tiling
             PROVE  /\ Len(Drawn) = Len(pane_order)
                    /\ \A i \in 1 .. Len(Drawn) : Drawn[i].area.width > 0 /\ Drawn[i].area.height > 0
                    /\ \A cell \in Cells(Screen) : Drawn # <<>> =>
                          Cardinality({i \in 1 .. Len(Drawn) : Covers(Drawn[i].area, cell)}) = 1
  BY DEF PanesTile
<1>1. CASE pane_order = <<>>
  <2>1. Drawn = <<>>
    BY <1>1 DEF Drawn, PaneAreas
  <2>2. Len(Drawn) = Len(pane_order) /\ \A i \in 1 .. Len(Drawn) : FALSE
    BY <1>1, <2>1
  <2>3. QED
    BY <2>1, <2>2
<1>2. CASE pane_order # <<>>
  <2> DEFINE n == Len(pane_order)
             areas == [i \in 1 .. n |-> Drawn[i].area]
  <2>1. n \in Nat /\ n <= MaxPanes
    BY OrderFits
  <2>2. Screen \in Rect /\ Screen.width \in Nat /\ Screen.height \in Nat
    BY ScreenAssumption DEF Rect
  <2>3. n <= Screen.width /\ n <= Screen.height
    BY <2>1, <2>2, MaxPanesAssumption
  <2>4. /\ Len(Drawn) = n /\ Divides(areas, n, Screen)
        /\ \A i \in 1 .. n : Drawn[i].area.width > 0 /\ Drawn[i].area.height > 0
    BY <1>2, <2>3, DrawnNow DEF IInv
  <2>5. \A i \in 1 .. n : areas[i] = Drawn[i].area
    OBVIOUS
  <2> HIDE DEF n, areas
  <2>6. ASSUME NEW cell \in Cells(Screen)
        PROVE  Cardinality({i \in 1 .. n : Covers(Drawn[i].area, cell)}) = 1
    <3>1. cell \in Cell /\ Covers(Screen, cell)
      BY <2>2, CellsCovered
    <3>2. PICK i \in 1 .. n : Covers(areas[i], cell)
      BY <2>4, <3>1 DEF Divides
    <3>3. \A j \in 1 .. n : Covers(areas[j], cell) => j = i
      BY <2>4, <3>1, <3>2 DEF Divides
    <3>4. {j \in 1 .. n : Covers(Drawn[j].area, cell)} = {i}
      BY <2>5, <3>2, <3>3
    <3>5. QED
      BY <3>4, FS_Singleton
  <2>7. QED
    BY <2>4, <2>6 DEF n
<1>3. QED
  BY <1>1, <1>2

(* ... and a press goes to the pane whose area it is in. *)
LEMMA PressesGo == ASSUME TypeOK PROVE PressesAreAimed
<1> SUFFICES ASSUME layout \in Tiling, NEW i \in 1 .. Len(Drawn), NEW cell \in Cells(Drawn[i].area)
             PROVE  /\ RouteMouse("left", cell).pane = Drawn[i].pane
                    /\ RouteMouse("left", cell).does \in {"focus", "write"}
  BY DEF PressesAreAimed
<1> DEFINE n == Len(Drawn)
           areas == [j \in 1 .. n |-> Drawn[j].area]
<1>1. pane_order # <<>>
  <2>1. SUFFICES ASSUME pane_order = <<>> PROVE FALSE
    OBVIOUS
  <2>2. Drawn = <<>>
    BY <2>1 DEF Drawn, PaneAreas
  <2>3. QED
    BY <2>2
<1>2. Drawn \in Seq([pane : PaneIds, area : Rect]) /\ n \in Nat /\ Divides(areas, n, Screen)
  <2>1. /\ Drawn \in Seq([pane : PaneIds, area : Rect]) /\ n = Len(pane_order)
        /\ Divides([j \in 1 .. Len(pane_order) |-> Drawn[j].area], Len(pane_order), Screen)
    BY <1>1, DrawnNow
  <2>2. n \in Nat
    BY <2>1
  <2>3. areas = [j \in 1 .. Len(pane_order) |-> Drawn[j].area]
    BY <2>1
  <2>4. QED
    BY <2>1, <2>2, <2>3
<1>3. \A j \in 1 .. n : areas[j] = Drawn[j].area
  OBVIOUS
<1>4. Drawn[i] \in [pane : PaneIds, area : Rect]
  BY <1>2, ElementOfSeq
<1>5. Drawn[i].pane \in PaneIds /\ Drawn[i].area \in Rect
  BY <1>4
<1>6. cell \in Cell /\ Covers(Drawn[i].area, cell)
  BY <1>5, CellsCovered
<1> HIDE DEF n, areas
<1>7. \A j \in 1 .. n : Covers(Drawn[j].area, cell) <=> j = i
  BY <1>2, <1>3, <1>6 DEF Divides, n
<1>8. {j \in 1 .. n : Covers(Drawn[j].area, cell)} = {i} /\ i \in 1 .. n
  BY <1>7 DEF n
<1>9. Min({i}) = i
  <2>1. {i} \in SUBSET Nat /\ {i} # {}
    BY <1>2, <1>8
  <2>2. QED
    BY <2>1, MinIs
<1>10. i # 0
  BY <1>2, <1>8
<1>11. PressedPane(cell) = Drawn[i].pane
  <2>1. SelectInSeq(Drawn, LAMBDA drawn : Covers(drawn.area, cell)) = i
    BY <1>8, <1>9 DEF SelectInSeq, n
  <2>2. QED
    BY <1>10, <2>1 DEF PressedPane, PaneAt
<1>12. CASE Drawn[i].pane # mode
  BY <1>11, <1>12 DEF RouteMouse, Action
<1>13. CASE Drawn[i].pane = mode
  <2>1. mode # NoPane
    BY <1>5, <1>13, NoPaneIsNoId
  <2> DEFINE S == {j \in 1 .. n : Drawn[j].pane = mode}
             found == SelectInSeq(Drawn, LAMBDA drawn : drawn.pane = mode)
  <2>2. i \in S
    BY <1>8, <1>13
  <2>3. found = Min(S)
    BY <2>2 DEF SelectInSeq, n
  <2>4. S \in SUBSET Nat /\ Min(S) \in 1 .. n
    <3>1. S \in SUBSET Nat
      BY <1>2
    <3> HIDE DEF S
    <3>2. Min(S) \in S
      BY <2>2, <3>1, MinIs
    <3>3. QED
      BY <3>1, <3>2 DEF S
  <2>5. found # 0
    BY <1>2, <2>3, <2>4
  <2>6. Report(mode, "left", cell).pane = mode /\ Report(mode, "left", cell).does = "write"
    BY <2>5 DEF Report
  <2>7. QED
    BY <1>11, <1>13, <2>1, <2>6 DEF RouteMouse
<1>14. QED
  BY <1>12, <1>13

(* A layout that shows every pane draws each pane, and each cell of the    *)
(* screen in one of them, for any number of panes up to the limit and any  *)
(* screen that has as many rows and columns of cells (layout.rs:67).       *)
THEOREM DrawnPanesTile ==
    MaxLocal < RemoteBase /\ MaxPanes <= Screen.width /\ MaxPanes <= Screen.height
        => (UserSpec => []PanesTile)
<1> SUFFICES ASSUME MaxLocal < RemoteBase, MaxPanes <= Screen.width, MaxPanes <= Screen.height
             PROVE  UserSpec => []PanesTile
  OBVIOUS
<1>1. UserInv => PanesTile
  BY DrawnTile DEF UserInv
<1>2. QED
  BY <1>1, UserInvariance, PTL

(* A press of the left button goes to the pane drawn at the cell, on any   *)
(* screen (input.rs:171).                                                  *)
THEOREM PressesReachPane == MaxLocal < RemoteBase => (UserSpec => []PressesAreAimed)
<1>1. UserInv => PressesAreAimed
  BY PressesGo DEF UserInv, IInv
<1>2. QED
  BY <1>1, UserInvariance, PTL
-------------------------------------------------------------------------------
(* shell_split of a line that is quoted.                                   *)
Double == "\""
Back == "\\"

Reading(words, word, quote, escape) == [words |-> words, word |-> word, quote |-> quote, escape |-> escape]
Start == Reading(<<>>, <<>>, "none", FALSE)
Read(line) == FoldLeft(SplitStep, Start, line)

States(G) == [words : Seq(Seq(G)), word : Seq(G), quote : {"none", "'", Double}, escape : BOOLEAN]

(* Reading a glyph leads from state to state. *)
LEMMA SplitStepType ==
    ASSUME NEW G, NEW s \in States(G), NEW c \in G
    PROVE  SplitStep(s, c) \in States(G)
<1>1. /\ s.words \in Seq(Seq(G)) /\ s.word \in Seq(G)
      /\ s.quote \in {"none", "'", Double} /\ s.escape \in BOOLEAN
      /\ s = Reading(s.words, s.word, s.quote, s.escape)
  BY DEF States, Reading
<1>2. Append(s.word, c) \in Seq(G) /\ Append(s.words, s.word) \in Seq(Seq(G)) /\ <<>> \in Seq(G)
  BY <1>1
<1>3. CASE s.escape
  BY <1>1, <1>2, <1>3 DEF SplitStep, States
<1>4. CASE ~s.escape /\ c = "\\" /\ Escapes(s.quote)
  BY <1>1, <1>2, <1>4 DEF SplitStep, States
<1>5. CASE ~s.escape /\ ~(c = "\\" /\ Escapes(s.quote)) /\ c \in {"'", "\""} /\ s.quote \in {"none", c}
  <2>1. SplitStep(s, c) = [s EXCEPT !.quote = IF @ = c THEN "none" ELSE c]
    BY <1>5 DEF SplitStep
  <2>2. QED
    BY <1>1, <1>5, <2>1 DEF States, Double
<1>6. CASE ~s.escape /\ c = " " /\ s.quote = "none"
  <2>1. SplitStep(s, c) = IF s.word = <<>> THEN s
                          ELSE [s EXCEPT !.words = Append(@, s.word), !.word = <<>>]
    BY <1>6 DEF SplitStep
  <2>2. QED
    BY <1>1, <1>2, <2>1 DEF States
<1>7. CASE /\ ~s.escape /\ ~(c = "\\" /\ Escapes(s.quote))
           /\ ~(c \in {"'", "\""} /\ s.quote \in {"none", c})
           /\ ~(c = " " /\ s.quote = "none")
  <2>1. SplitStep(s, c) = [s EXCEPT !.word = Append(@, c)]
    BY <1>7 DEF SplitStep
  <2>2. QED
    BY <1>1, <1>2, <2>1 DEF States
<1>8. QED
  BY <1>3, <1>4, <1>5, <1>6, <1>7

(* Reading a line goes glyph by glyph: there are the states on the way.    *)
LEMMA ReadRuns ==
    ASSUME NEW G, NEW line \in Seq(G)
    PROVE  \E h \in [0 .. Len(line) -> States(G)] :
              /\ h[0] = Start
              /\ \A i \in 1 .. Len(line) : h[i] = SplitStep(h[i - 1], line[i])
              /\ Read(line) = h[Len(line)]
<1> DEFINE n == Len(line)
           B == States(G)
           b == Start
           step == [i \in 1 .. n |-> [x \in B |-> SplitStep(x, line[i])]]
           Is(g) == g = [s \in SUBSET (1 .. n) |-> IF s = {} THEN b ELSE SplitStep(g[s \ {Max(s)}], line[Max(s)])]
<1>1. n \in Nat /\ DOMAIN line = 1 .. n /\ \A i \in 1 .. n : line[i] \in G
  OBVIOUS
<1>2. Read(line) = (CHOOSE g : Is(g))[1 .. n]
  BY <1>1 DEF Read, FoldLeft, MapThenFoldSet
<1>3. \A i \in 1 .. n : step[i] \in [B -> B] /\ \A x \in B : step[i][x] = SplitStep(x, line[i])
  BY <1>1, SplitStepType
<1>4. step \in [1 .. n -> [B -> B]]
  BY <1>3
<1>5. b \in B
  BY DEF Start, Reading, States
<1> HIDE DEF step, B, b
<1>6. PICK f \in [SUBSET (1 .. n) -> B] : FoldsBy(f, step, b, n, B)
  <2> HIDE DEF n
  <2>1. QED
    BY <1>1, <1>4, <1>5, FoldExists
<1>7. \A s \in SUBSET (1 .. n) : s # {} => Max(s) \in 1 .. n /\ s \ {Max(s)} \in SUBSET (1 .. n)
  BY <1>1, MaxIs
<1>8. Is(f)
  <2>1. \A s \in SUBSET (1 .. n) :
            f[s] = IF s = {} THEN b ELSE SplitStep(f[s \ {Max(s)}], line[Max(s)])
    BY <1>3, <1>6, <1>7 DEF FoldsBy
  <2>2. QED
    BY <1>6, <2>1
<1>9. Is(CHOOSE g : Is(g))
  BY <1>8
<1> DEFINE e == CHOOSE g : Is(g)
<1>10. FoldsBy(e, step, b, n, B)
  <2>1. Is(e)
    BY <1>9
  <2> HIDE DEF e
  <2>2. QED
    BY <1>3, <1>7, <2>1 DEF FoldsBy
<1>11. e[1 .. n] = Read(line)
  BY <1>2
<1> HIDE DEF e, Is
<1>12. /\ e[1 .. 0] = b
       /\ \A i \in 0 .. n : e[1 .. i] \in B
       /\ \A i \in 1 .. n : e[1 .. i] = step[i][e[1 .. i - 1]]
  <2>1. /\ b \in B /\ n \in Nat /\ step \in [1 .. n -> [B -> B]]
        /\ FoldsBy(e, step, b, n, B)
    BY <1>1, <1>4, <1>5, <1>10
  <2> HIDE DEF n
  <2>2. QED
    BY <2>1, FoldSteps
<1> DEFINE h == [i \in 0 .. n |-> e[1 .. i]]
<1>13. /\ 0 \in 0 .. n /\ n \in 0 .. n
       /\ \A i \in 1 .. n : i - 1 \in 0 .. n /\ i \in 0 .. n
  BY <1>1
<1>14. h \in [0 .. n -> B] /\ h[0] = b /\ Read(line) = h[n]
  BY <1>11, <1>12, <1>13
<1>15. \A i \in 1 .. n : h[i] = SplitStep(h[i - 1], line[i])
  BY <1>3, <1>12, <1>13
<1> HIDE DEF h
<1>16. QED
  BY <1>14, <1>15 DEF n, B, b

(* One more glyph is one more step. *)
LEMMA ReadOn ==
    ASSUME NEW G, NEW line \in Seq(G), NEW c \in G
    PROVE  Read(Append(line, c)) = SplitStep(Read(line), c)
<1> DEFINE d == Append(line, c)
           n == Len(line)
<1>1. /\ d \in Seq(G) /\ Len(d) = n + 1 /\ n \in Nat /\ d[n + 1] = c
      /\ \A i \in 1 .. n : d[i] = line[i]
  OBVIOUS
<1> HIDE DEF d
<1>2. PICK h \in [0 .. Len(d) -> States(G)] :
              /\ h[0] = Start
              /\ \A i \in 1 .. Len(d) : h[i] = SplitStep(h[i - 1], d[i])
              /\ Read(d) = h[Len(d)]
  BY <1>1, ReadRuns
<1>3. PICK g \in [0 .. n -> States(G)] :
              /\ g[0] = Start
              /\ \A i \in 1 .. n : g[i] = SplitStep(g[i - 1], line[i])
              /\ Read(line) = g[n]
  BY ReadRuns
<1> HIDE DEF n
<1>4. Alike(g, h, n)
  <2>1. \A i \in 1 .. n : i \in 1 .. Len(d)
    BY <1>1
  <2>2. \A i \in 1 .. n : h[i] = SplitStep(h[i - 1], line[i])
    BY <1>1, <1>2, <2>1
  <2>3. QED
    BY <1>2, <1>3, <2>2 DEF Alike
<1>5. g[n] = h[n]
  <2>1. SameTo(g, h, n)
    BY <1>1, <1>4, GoOnAlike
  <2>2. n \in 0 .. n
    BY <1>1
  <2>3. QED
    BY <2>1, <2>2 DEF SameTo
<1>6. h[n + 1] = SplitStep(h[n], c)
  <2>1. n + 1 \in 1 .. Len(d) /\ (n + 1) - 1 = n
    BY <1>1
  <2>2. QED
    BY <1>1, <1>2, <2>1
<1>7. QED
  BY <1>1, <1>2, <1>3, <1>5, <1>6 DEF d

(* Nothing read is the start. *)
LEMMA ReadNothing == Read(<<>>) = Start
<1> DEFINE G == {}
           none == <<>>
<1>1. none \in Seq(G) /\ Len(none) = 0
  OBVIOUS
<1> HIDE DEF G, none
<1>2. PICK h \in [0 .. Len(none) -> States(G)] : h[0] = Start /\ Read(none) = h[Len(none)]
  BY <1>1, ReadRuns
<1>3. QED
  BY <1>1, <1>2 DEF none

(* Inside double quotes glyphs are taken literally, after a backslash      *)
(* those two that have a meaning there; a quote begins and ends it.        *)
InQuotes(word) == Reading(<<>>, word, Double, FALSE)

LEMMA QuotedSteps ==
    ASSUME NEW G, NEW word \in Seq(G), NEW c \in G
    PROVE  /\ SplitStep(Start, Double) = InQuotes(<<>>)
           /\ c \notin {Double, Back} => SplitStep(InQuotes(word), c) = InQuotes(Append(word, c))
           /\ SplitStep(SplitStep(InQuotes(word), Back), c) = InQuotes(Append(word, c))
           /\ SplitStep(InQuotes(word), Double) = Reading(<<>>, word, "none", FALSE)
<1>1. SplitStep(Start, Double) = InQuotes(<<>>)
  BY DEF SplitStep, Start, Double, InQuotes, Reading, Escapes
<1>2. ASSUME c \notin {Double, Back} PROVE SplitStep(InQuotes(word), c) = InQuotes(Append(word, c))
  <2>1. ~(c \in {"'", "\""} /\ Double \in {"none", c}) /\ Double # "none" /\ c # "\\"
    BY <1>2 DEF Double, Back
  <2>2. SplitStep(InQuotes(word), c) = [InQuotes(word) EXCEPT !.word = Append(@, c)]
    BY <2>1 DEF SplitStep, InQuotes, Reading
  <2>3. QED
    BY <2>2 DEF InQuotes, Reading
<1>3. SplitStep(SplitStep(InQuotes(word), Back), c) = InQuotes(Append(word, c))
  <2>1. SplitStep(InQuotes(word), Back) = Reading(<<>>, word, Double, TRUE)
    BY DEF SplitStep, Double, Back, InQuotes, Reading, Escapes
  <2>2. SplitStep(Reading(<<>>, word, Double, TRUE), c) = InQuotes(Append(word, c))
    BY DEF SplitStep, InQuotes, Reading
  <2>3. QED
    BY <2>1, <2>2
<1>4. SplitStep(InQuotes(word), Double) = Reading(<<>>, word, "none", FALSE)
  BY DEF SplitStep, Double, InQuotes, Reading, Escapes
<1>5. QED
  BY <1>1, <1>2, <1>3, <1>4

(* A line with its quotes and backslashes escaped, up to glyph i, after    *)
(* the quote that opens it.                                                *)
Chunk(glyph) == IF glyph \in {"\"", "\\"} THEN <<"\\", glyph>> ELSE <<glyph>>
Chunks(line, i) == [j \in 1 .. i |-> Chunk(line[j])]
Opened(line, i) == <<Double>> \o FlattenSeq(Chunks(line, i))

(* One glyph more, escaped if it must be. *)
LEMMA OpenedOn ==
    ASSUME NEW G, Double \in G, Back \in G, NEW line \in Seq(G), NEW i \in Nat, i + 1 <= Len(line)
    PROVE  /\ Opened(line, i) \in Seq(G)
           /\ Opened(line, i + 1) = IF line[i + 1] \in {Double, Back}
                                    THEN Append(Append(Opened(line, i), Back), line[i + 1])
                                    ELSE Append(Opened(line, i), line[i + 1])
<1> DEFINE c == line[i + 1]
           a == FlattenSeq(Chunks(line, i))
           q == <<Double>>
<1>1. c \in G /\ \A j \in 1 .. i + 1 : line[j] \in G
  <2>1. Len(line) \in Nat /\ i + 1 \in 1 .. Len(line) /\ \A j \in 1 .. i + 1 : j \in 1 .. Len(line)
    BY LenProperties
  <2>2. QED
    BY <2>1, ElementOfSeq
<1>2. \A x \in G : Chunk(x) \in Seq(G)
  <2>1. ASSUME NEW x \in G PROVE Chunk(x) \in Seq(G)
    <3>1. <<Back, x>> \in Seq(G) /\ <<x>> \in Seq(G)
      OBVIOUS
    <3>2. Chunk(x) = <<Back, x>> \/ Chunk(x) = <<x>>
      BY DEF Chunk, Back
    <3>3. QED
      BY <3>1, <3>2
  <2>2. QED
    BY <2>1
<1>3. Chunks(line, i) \in Seq(Seq(G)) /\ Chunk(c) \in Seq(G)
  <2>1. \A j \in 1 .. i : Chunk(line[j]) \in Seq(G)
    BY <1>1, <1>2
  <2>2. QED
    BY <1>1, <1>2, <2>1 DEF Chunks
<1>4. Chunks(line, i + 1) = Append(Chunks(line, i), Chunk(c))
  <2> DEFINE d == Chunks(line, i + 1)
             e == Append(Chunks(line, i), Chunk(c))
  <2>1. \A j \in 1 .. i + 1 : Chunk(line[j]) \in Seq(G)
    BY <1>1, <1>2
  <2>2. d \in Seq(Seq(G)) /\ Len(d) = i + 1 /\ \A j \in 1 .. i + 1 : d[j] = Chunk(line[j])
    BY <2>1 DEF Chunks
  <2>3. Len(Chunks(line, i)) = i /\ \A j \in 1 .. i : Chunks(line, i)[j] = Chunk(line[j])
    BY DEF Chunks
  <2>4. e \in Seq(Seq(G)) /\ Len(e) = i + 1 /\ e[i + 1] = Chunk(c) /\ \A j \in 1 .. i : e[j] = Chunk(line[j])
    BY <1>3, <2>3, AppendProperties
  <2> HIDE DEF d, e
  <2>5. \A j \in 1 .. i + 1 : d[j] = e[j]
    <3>1. \A j \in 1 .. i + 1 : j \in 1 .. i \/ j = i + 1
      OBVIOUS
    <3>2. QED
      BY <2>2, <2>4, <3>1
  <2>6. d = e
    BY <2>2, <2>4, <2>5, SeqEqual
  <2>7. QED
    BY <2>6 DEF d, e
<1>5. a \in Seq(G) /\ FlattenSeq(Chunks(line, i + 1)) = a \o Chunk(c)
  BY <1>3, <1>4, FlattenSeqType, FlattenSeqAppend
<1>6. q \in Seq(G)
  OBVIOUS
<1> HIDE DEF a, q
<1>7. q \o (a \o Chunk(c)) = (q \o a) \o Chunk(c) /\ q \o a \in Seq(G)
  <2> DEFINE b == Chunk(c)
  <2>1. b \in Seq(G)
    BY <1>3
  <2> HIDE DEF b
  <2>2. Cat(q, Cat(a, b)) = Cat(Cat(q, a), b) /\ Cat(q, a) \in Seq(G)
    BY <1>5, <1>6, <2>1, CatAssociative, CatType
  <2>3. QED
    BY <2>2 DEF Cat, b
<1>8. Opened(line, i) = q \o a /\ Opened(line, i + 1) = (q \o a) \o Chunk(c)
  BY <1>5, <1>7 DEF Opened, a, q
<1> DEFINE o == Opened(line, i)
<1>9. o \in Seq(G) /\ Opened(line, i + 1) = o \o Chunk(c)
  BY <1>7, <1>8
<1> HIDE DEF o
<1>10. CASE c \in {Double, Back}
  <2>1. Chunk(c) = <<Back, c>>
    BY <1>10 DEF Chunk, Double, Back
  <2>2. o \o <<Back, c>> = Append(Append(o, Back), c)
    BY <1>1, <1>9
  <2>3. QED
    BY <1>9, <1>10, <2>1, <2>2 DEF o
<1>11. CASE c \notin {Double, Back}
  <2>1. Chunk(c) = <<c>>
    BY <1>11 DEF Chunk, Double, Back
  <2>2. o \o <<c>> = Append(o, c)
    BY <1>1, <1>9, AppendIsConcat
  <2>3. QED
    BY <1>9, <1>11, <2>1, <2>2 DEF o
<1>12. QED
  BY <1>10, <1>11

(* What has been read of an opened line is its own glyphs. *)
LEMMA OpenedReads ==
    ASSUME NEW G, Double \in G, Back \in G, NEW line \in Seq(G)
    PROVE  /\ Opened(line, Len(line)) \in Seq(G)
           /\ Read(Opened(line, Len(line))) = InQuotes(line)
<1> DEFINE n == Len(line)
           Reads(i) == Opened(line, i) \in Seq(G) /\ Read(Opened(line, i)) = InQuotes(SubSeq(line, 1, i))
           S == {i \in Nat : i <= n => Reads(i)}
<1>1. n \in Nat
  OBVIOUS
<1>2. Reads(0)
  <2>1. Chunks(line, 0) = <<>> /\ SubSeq(line, 1, 0) = <<>>
    BY DEF Chunks
  <2>2. Opened(line, 0) = <<Double>>
    <3>1. <<Double>> \in Seq(G)
      OBVIOUS
    <3>2. <<Double>> \o <<>> = <<Double>>
      BY <3>1, ConcatEmptySeq
    <3>3. QED
      BY <2>1, <3>2, FlattenSeqEmpty DEF Opened
  <2>3. <<Double>> = Append(<<>>, Double) /\ <<>> \in Seq(G) /\ <<Double>> \in Seq(G)
    OBVIOUS
  <2>4. Read(<<Double>>) = SplitStep(Start, Double)
    BY <2>3, ReadOn, ReadNothing
  <2>5. SplitStep(Start, Double) = InQuotes(<<>>)
    BY <2>3, QuotedSteps
  <2>6. QED
    BY <2>1, <2>2, <2>3, <2>4, <2>5
<1>3. ASSUME NEW i \in S PROVE i + 1 \in S
  <2>1. SUFFICES ASSUME i + 1 <= n PROVE Reads(i + 1)
    OBVIOUS
  <2>2. i \in Nat /\ i + 1 \in 1 .. n /\ Opened(line, i) \in Seq(G)
        /\ Read(Opened(line, i)) = InQuotes(SubSeq(line, 1, i))
    BY <1>1, <1>3, <2>1
  <2> DEFINE c == line[i + 1]
             word == SubSeq(line, 1, i)
             o == Opened(line, i)
             next == Opened(line, i + 1)
  <2>3. c \in G /\ word \in Seq(G) /\ SubSeq(line, 1, i + 1) = Append(word, c)
    <3>1. c \in G
      BY <2>2, ElementOfSeq
    <3>2. i \in 0 .. Len(line) /\ i + 1 \in 0 .. Len(line) /\ 1 \in 1 .. Len(line) + 1
      BY <1>1, <2>2
    <3>3. word \in Seq(G) /\ Len(word) = i /\ \A j \in 1 .. i : word[j] = line[j]
      BY <3>2, Parted
    <3> DEFINE d == SubSeq(line, 1, i + 1)
               e == Append(word, c)
    <3>4. d \in Seq(G) /\ Len(d) = i + 1 /\ \A j \in 1 .. i + 1 : d[j] = line[j]
      BY <3>2, Parted
    <3> HIDE DEF word
    <3>5. e \in Seq(G) /\ Len(e) = i + 1 /\ e[i + 1] = c /\ \A j \in 1 .. i : e[j] = word[j]
      BY <3>1, <3>3, AppendProperties
    <3> HIDE DEF d, e
    <3>6. \A j \in 1 .. i + 1 : d[j] = e[j]
      <4>1. \A j \in 1 .. i + 1 : j \in 1 .. i \/ j = i + 1
        BY <2>2
      <4>2. QED
        BY <3>3, <3>4, <3>5, <4>1
    <3>7. d = e
      BY <3>4, <3>5, <3>6, SeqEqual
    <3>8. QED
      BY <3>1, <3>3, <3>7 DEF d, e
  <2>4. next = IF c \in {Double, Back} THEN Append(Append(o, Back), c) ELSE Append(o, c)
    BY <1>1, <2>2, OpenedOn
  <2> HIDE DEF c, word, o, next
  <2>5. o \in Seq(G) /\ Read(o) = InQuotes(word)
    BY <2>2 DEF o, word
  <2>6. next \in Seq(G) /\ Read(next) = InQuotes(Append(word, c))
    <3>1. CASE c \in {Double, Back}
      <4>1. Append(o, Back) \in Seq(G) /\ Append(Append(o, Back), c) \in Seq(G)
        BY <2>3, <2>5
      <4>2. Read(Append(o, Back)) = SplitStep(InQuotes(word), Back)
        BY <2>5, ReadOn
      <4>3. Read(Append(Append(o, Back), c)) = SplitStep(SplitStep(InQuotes(word), Back), c)
        BY <2>3, <4>1, <4>2, ReadOn
      <4>4. QED
        BY <2>3, <2>4, <3>1, <4>1, <4>3, QuotedSteps
    <3>2. CASE c \notin {Double, Back}
      <4>1. Append(o, c) \in Seq(G) /\ Read(Append(o, c)) = SplitStep(InQuotes(word), c)
        BY <2>3, <2>5, ReadOn
      <4>2. QED
        BY <2>3, <2>4, <3>2, <4>1, QuotedSteps
    <3>3. QED
      BY <3>1, <3>2
  <2>7. QED
    BY <2>3, <2>6 DEF next
<1>4. S = Nat
  <2>1. 0 \in S /\ S \in SUBSET Nat
    BY <1>2
  <2> HIDE DEF S
  <2>2. QED
    BY <1>3, <2>1, NatSetInduction
<1>5. Reads(n)
  BY <1>1, <1>4
<1>6. SubSeq(line, 1, n) = line
  OBVIOUS
<1>7. QED
  BY <1>5, <1>6

(* What is quoted is read as it was. *)
LEMMA QuotedIsRead ==
    ASSUME NEW H, NEW line \in Seq(H)
    PROVE  Split(Quote(line)) = [ok |-> TRUE, words |-> IF line = <<>> THEN <<>> ELSE <<line>>]
<1> DEFINE G == H \cup {Double, Back}
           o == Opened(line, Len(line))
           end == Read(Quote(line))
<1>1. Double \in G /\ Back \in G /\ line \in Seq(G)
  OBVIOUS
<1> HIDE DEF G
<1>2. o \in Seq(G) /\ Read(o) = InQuotes(line)
  BY <1>1, OpenedReads
<1>3. Quote(line) = o \o <<Double>>
  BY DEF Quote, Opened, Chunks, Chunk, Double
<1> HIDE DEF o
<1>4. Quote(line) = Append(o, Double)
  BY <1>1, <1>2, <1>3, AppendIsConcat
<1>5. end = SplitStep(InQuotes(line), Double)
  BY <1>1, <1>2, <1>4, ReadOn
<1>6. end = Reading(<<>>, line, "none", FALSE)
  BY <1>1, <1>5, QuotedSteps
<1>7. Split(Quote(line)) = [ok |-> ~end.escape /\ end.quote = "none",
                            words |-> IF end.word = <<>> THEN end.words ELSE Append(end.words, end.word)]
  BY DEF Split, Read, Start, Reading
<1> HIDE DEF end
<1>8. end.escape = FALSE /\ end.quote = "none" /\ end.word = line /\ end.words = <<>>
  BY <1>6 DEF Reading
<1>9. Append(<<>>, line) = <<line>>
  OBVIOUS
<1>10. QED
  BY <1>7, <1>8, <1>9

(* Any line, quoted, is one argument equal to it (command_bar.rs:182).     *)
THEOREM QuotingIsLossless == MaxLocal < RemoteBase => (UserSpec => []QuotedArgumentsSurvive)
<1>1. UserInv => QuotedArgumentsSurvive
  <2>1. UserInv => input \in Seq(Writes(keyboard))
    BY DEF UserInv, BarTypes
  <2>2. QED
    BY <2>1, QuotedIsRead DEF QuotedArgumentsSurvive
<1>2. QED
  BY <1>1, UserInvariance, PTL
===============================================================================
