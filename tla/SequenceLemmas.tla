----------------------------- MODULE SequenceLemmas -----------------------------
(***************************************************************************)
(* Facts about sequences for any system: what SequencesExt's FlattenSeq    *)
(* does when a chunk is appended, what becomes of a prefix, that a fold    *)
(* over 1 .. n goes from one number to the next, and what Max and Min      *)
(* choose.  FlattenSeq and the folds are defined by recursive functions;   *)
(* induction over them is done with sets of numbers, each nonempty one of  *)
(* which has a least element.                                              *)
(***************************************************************************)
EXTENDS Integers, SequencesExt, SequenceTheorems, WellFoundedInduction, TLAPS

Less == {ss \in Nat \X Nat : ss[1] < ss[2]}

(* A nonempty set of numbers has a least element. *)
LEMMA NatMin == ASSUME NEW T \in SUBSET Nat, T # {} PROVE \E x \in T : \A y \in T : ~(y < x)
<1>1. IsWellFoundedOn(Less, Nat)
  BY NatLessThanWellFounded DEF OpToRel, Less
<1>2. \E x \in T : \A y \in T : ~(<<y, x>> \in Less)
  BY <1>1, WFMin
<1>3. QED
  BY <1>2 DEF Less

(* Induction on numbers, for sets. *)
LEMMA NatSetInduction ==
    ASSUME NEW S \in SUBSET Nat, 0 \in S, \A n \in S : n + 1 \in S
    PROVE  S = Nat
<1>1. ASSUME Nat \ S # {} PROVE FALSE
  <2>1. PICK x \in Nat \ S : \A y \in Nat \ S : ~(y < x)
    BY <1>1, NatMin
  <2>2. x # 0 /\ x - 1 \in Nat
    BY <2>1
  <2>3. x - 1 \in S
    BY <2>1, <2>2
  <2>4. QED
    BY <2>1, <2>2, <2>3
<1>2. QED
  BY <1>1

-------------------------------------------------------------------------------
(* h[i] is the concatenation of the first i members of c, for i up to n. *)
Flattens(h, c, n) == \A i \in 1 .. n : h[i] = IF i = 1 THEN c[i] ELSE h[i - 1] \o c[i]

(* Such a function exists. *)
LEMMA FlatteningExists ==
    ASSUME NEW T, NEW c \in Seq(Seq(T))
    PROVE  \E h \in [1 .. Len(c) -> Seq(T)] : Flattens(h, c, Len(c))
<1> DEFINE S == {n \in Nat : n <= Len(c) => \E h \in [1 .. n -> Seq(T)] : Flattens(h, c, n)}
<1>1. 0 \in S
  <2> DEFINE none == [i \in 1 .. 0 |-> <<>>]
  <2>1. none \in [1 .. 0 -> Seq(T)]
    OBVIOUS
  <2>2. Flattens(none, c, 0)
    BY DEF Flattens
  <2> HIDE DEF none
  <2>3. QED
    BY <2>1, <2>2
<1>2. ASSUME NEW n \in S PROVE n + 1 \in S
  <2>1. CASE n + 1 <= Len(c)
    <3>1. PICK h \in [1 .. n -> Seq(T)] : Flattens(h, c, n)
      BY <1>2, <2>1
    <3>2. n \in Nat /\ n + 1 \in 1 .. Len(c) /\ c[n + 1] \in Seq(T)
      BY <2>1
    <3> DEFINE last == IF n = 0 THEN c[1] ELSE h[n] \o c[n + 1]
               k == [i \in 1 .. n + 1 |-> IF i = n + 1 THEN last ELSE h[i]]
    <3>3. last \in Seq(T)
      BY <3>2
    <3>4. k \in [1 .. n + 1 -> Seq(T)]
      BY <3>2, <3>3
    <3>5. ASSUME NEW i \in 1 .. n + 1 PROVE k[i] = IF i = 1 THEN c[i] ELSE k[i - 1] \o c[i]
      <4>1. CASE i = n + 1
        <5>1. k[i] = last /\ (n # 0 => n \in 1 .. n + 1 /\ n # n + 1)
          BY <3>2, <4>1
        <5>2. n # 0 => k[n] = h[n]
          BY <5>1
        <5>3. QED
          BY <3>2, <4>1, <5>1, <5>2
      <4>2. CASE i # n + 1
        <5>1. i \in 1 .. n /\ k[i] = h[i] /\ (i # 1 => k[i - 1] = h[i - 1])
          BY <3>2, <4>2
        <5>2. QED
          BY <3>1, <5>1 DEF Flattens
      <4>3. QED
        BY <4>1, <4>2
    <3> HIDE DEF k
    <3>6. k \in [1 .. n + 1 -> Seq(T)] /\ Flattens(k, c, n + 1)
      BY <3>4, <3>5 DEF Flattens
    <3>7. QED
      BY <3>2, <3>6
  <2>2. QED
    BY <2>1
<1>3. S = Nat
  <2>1. S \in SUBSET Nat
    OBVIOUS
  <2>2. QED
    BY <1>1, <1>2, <2>1, NatSetInduction
<1>4. QED
  BY <1>3

Agree(g, h, n) == \A i \in 1 .. n : g[i] = h[i]

(* Two such functions agree. *)
LEMMA FlatteningUnique ==
    ASSUME NEW n \in Nat, NEW c, NEW d, NEW g, NEW h,
           Agree(c, d, n), Flattens(g, c, n), Flattens(h, d, n)
    PROVE  Agree(g, h, n)
<1> DEFINE S == {i \in Nat : i \in 1 .. n => g[i] = h[i]}
<1>1. 0 \in S
  OBVIOUS
<1>2. ASSUME NEW i \in S PROVE i + 1 \in S
  <2>1. CASE i + 1 \in 1 .. n
    <3>1. CASE i = 0
      BY <2>1, <3>1 DEF Flattens, Agree
    <3>2. CASE i # 0
      <4>1. i \in 1 .. n /\ g[i] = h[i] /\ i + 1 # 1 /\ (i + 1) - 1 = i
        BY <1>2, <2>1, <3>2
      <4>2. g[i + 1] = g[i] \o c[i + 1] /\ h[i + 1] = h[i] \o d[i + 1] /\ c[i + 1] = d[i + 1]
        BY <2>1, <4>1 DEF Flattens, Agree
      <4>3. g[i + 1] = h[i + 1]
        BY <4>1, <4>2
      <4>4. QED
        BY <4>3
    <3>3. QED
      BY <3>1, <3>2
  <2>2. QED
    BY <2>1
<1>3. S = Nat
  <2>1. S \in SUBSET Nat
    OBVIOUS
  <2>2. QED
    BY <1>1, <1>2, <2>1, NatSetInduction
<1>4. QED
  BY <1>3 DEF Agree

(* FlattenSeq is the last value of that function. *)
LEMMA FlattenSeqIs ==
    ASSUME NEW T, NEW c \in Seq(Seq(T)), Len(c) # 0
    PROVE  \E h \in [1 .. Len(c) -> Seq(T)] : Flattens(h, c, Len(c)) /\ FlattenSeq(c) = h[Len(c)]
<1> DEFINE Is(g) == g = [i \in 1 .. Len(c) |-> IF i = 1 THEN c[i] ELSE g[i - 1] \o c[i]]
<1>1. PICK h \in [1 .. Len(c) -> Seq(T)] : Flattens(h, c, Len(c))
  BY FlatteningExists
<1>2. Is(h)
  BY <1>1 DEF Flattens
<1>3. Is(CHOOSE g : Is(g))
  BY <1>2
<1> DEFINE f == CHOOSE g : Is(g)
<1>4. FlattenSeq(c) = f[Len(c)]
  BY DEF FlattenSeq
<1>5. Flattens(f, c, Len(c))
  <2>1. Is(f)
    BY <1>3
  <2> HIDE DEF f
  <2>2. QED
    BY <2>1 DEF Flattens
<1> HIDE DEF f
<1>6. Agree(f, h, Len(c))
  BY <1>1, <1>5, FlatteningUnique DEF Agree
<1>7. Len(c) \in 1 .. Len(c)
  OBVIOUS
<1>8. FlattenSeq(c) = h[Len(c)]
  BY <1>4, <1>6, <1>7 DEF Agree
<1>9. QED
  BY <1>1, <1>8

(* Flattening yields a sequence ... *)
LEMMA FlattenSeqType ==
    ASSUME NEW T, NEW c \in Seq(Seq(T))
    PROVE  FlattenSeq(c) \in Seq(T)
<1>1. CASE Len(c) = 0
  BY <1>1 DEF FlattenSeq
<1>2. CASE Len(c) # 0
  <2>1. PICK h \in [1 .. Len(c) -> Seq(T)] : FlattenSeq(c) = h[Len(c)]
    BY <1>2, FlattenSeqIs
  <2>2. Len(c) \in 1 .. Len(c)
    BY <1>2
  <2>3. QED
    BY <2>1, <2>2
<1>3. QED
  BY <1>1, <1>2

(* ... of nothing, if there is no chunk ... *)
LEMMA FlattenSeqEmpty == FlattenSeq(<<>>) = <<>>
BY DEF FlattenSeq

(* ... and one more chunk comes at its end. *)
LEMMA FlattenSeqAppend ==
    ASSUME NEW T, NEW c \in Seq(Seq(T)), NEW x \in Seq(T)
    PROVE  FlattenSeq(Append(c, x)) = FlattenSeq(c) \o x
<1> DEFINE d == Append(c, x)
           n == Len(c)
<1>1. /\ Len(d) = n + 1 /\ n \in Nat
      /\ d[n + 1] = x /\ \A i \in 1 .. n : c[i] = d[i]
  OBVIOUS
<1>2. d \in Seq(Seq(T)) /\ Len(d) # 0
  BY <1>1
<1> HIDE DEF d, n
<1>3. PICK h \in [1 .. Len(d) -> Seq(T)] : Flattens(h, d, Len(d)) /\ FlattenSeq(d) = h[Len(d)]
  BY <1>2, FlattenSeqIs
<1>4. \A i \in 1 .. n + 1 : h[i] = IF i = 1 THEN d[i] ELSE h[i - 1] \o d[i]
  BY <1>1, <1>3 DEF Flattens
<1>5. CASE n = 0
  <2>1. c = <<>> /\ FlattenSeq(c) = <<>>
    BY <1>5, FlattenSeqEmpty DEF n
  <2>2. h[1] = x
    BY <1>1, <1>3, <1>5 DEF Flattens
  <2>3. QED
    BY <1>1, <1>3, <1>5, <2>1, <2>2 DEF d
<1>6. CASE n # 0
  <2>1. PICK g \in [1 .. n -> Seq(T)] : Flattens(g, c, n) /\ FlattenSeq(c) = g[n]
    BY <1>1, <1>6, FlattenSeqIs DEF n
  <2>2. 1 .. n \subseteq 1 .. n + 1
    BY <1>1
  <2>3. Flattens(h, d, n)
    BY <1>4, <2>2 DEF Flattens
  <2>4. Flattens(g, c, n) /\ n \in Nat /\ Agree(c, d, n)
    BY <1>1, <2>1 DEF Agree
  <2>5. Agree(g, h, n)
    BY <2>3, <2>4, FlatteningUnique
  <2>6. g[n] = h[n] /\ n + 1 # 1 /\ (n + 1) - 1 = n /\ n + 1 \in 1 .. n + 1
    BY <1>1, <1>6, <2>5 DEF Agree
  <2>7. h[n + 1] = h[n] \o d[n + 1]
    BY <1>4, <2>6
  <2>8. QED
    BY <1>1, <1>3, <2>1, <2>6, <2>7 DEF d
<1>7. QED
  BY <1>5, <1>6

-------------------------------------------------------------------------------
(* Concatenation and prefixes, by names the provers do not expand. *)
Cat(a, b) == a \o b
First(n, s) == SubSeq(s, 1, n)

(* Concatenation yields a sequence, ... *)
LEMMA CatType ==
    ASSUME NEW T, NEW a \in Seq(T), NEW b \in Seq(T)
    PROVE  Cat(a, b) \in Seq(T)
BY ConcatProperties DEF Cat

(* ... is associative, ... *)
LEMMA CatAssociative ==
    ASSUME NEW T, NEW a \in Seq(T), NEW b \in Seq(T), NEW c \in Seq(T)
    PROVE  Cat(Cat(a, b), c) = Cat(a, Cat(b, c))
BY ConcatAssociative DEF Cat

(* ... and adding nothing changes nothing. *)
LEMMA CatNothing ==
    ASSUME NEW T, NEW a \in Seq(T)
    PROVE  Cat(a, <<>>) = a /\ Cat(<<>>, a) = a
BY ConcatEmptySeq DEF Cat

(* A line written is the next one of the script. *)
LEMMA WrittenLine ==
    ASSUME NEW T, NEW a \in Seq(T), NEW b \in Seq(T), NEW s \in Seq(T), NEW n \in Nat, n < Len(s),
           Cat(a, b) = First(n, s)
    PROVE  s[n + 1] \in T /\ Cat(a, Append(b, s[n + 1])) = First(n + 1, s)
<1> DEFINE e == <<s[n + 1]>>
<1>1. n + 1 \in 1 .. Len(s) /\ s[n + 1] \in T /\ (n + 1) - 1 = n
  BY ElementOfSeq, LenProperties
<1>2. First(n + 1, s) = Cat(First(n, s), e)
  <2>1. 1 \in 1 .. Len(s) /\ n + 1 \in 1 .. Len(s)
    BY <1>1
  <2>2. SubSeq(s, 1, n + 1) = SubSeq(s, 1, (n + 1) - 1) \o <<s[n + 1]>>
    BY <2>1, SubSeqRecursiveSecond
  <2>3. QED
    BY <1>1, <2>2 DEF Cat, First
<1>3. Append(b, s[n + 1]) = Cat(b, e) /\ e \in Seq(T)
  BY <1>1, AppendIsConcat DEF Cat
<1> HIDE DEF e
<1>4. Cat(a, Cat(b, e)) = Cat(Cat(a, b), e)
  BY <1>3, CatAssociative
<1>5. QED
  BY <1>1, <1>2, <1>3, <1>4

(* A chunk is taken from the front. *)
LEMMA TakenChunk ==
    ASSUME NEW T, NEW d \in Seq(T), NEW n \in 1 .. Len(d)
    PROVE  /\ SubSeq(d, 1, n) \in Seq(T) /\ SubSeq(d, n + 1, Len(d)) \in Seq(T)
           /\ Cat(SubSeq(d, 1, n), SubSeq(d, n + 1, Len(d))) = d
<1>1. /\ Len(d) \in Nat /\ n \in Int /\ 1 \in Int /\ n + 1 \in Int /\ Len(d) \in Int
      /\ \A i \in 1 .. n : d[i] \in T
      /\ \A i \in n + 1 .. Len(d) : d[i] \in T
  BY ElementOfSeq, LenProperties
<1>2. SubSeq(d, 1, n) \in Seq(T) /\ SubSeq(d, n + 1, Len(d)) \in Seq(T)
  BY <1>1, SubSeqProperties
<1>3. 1 \in 1 .. Len(d) + 1 /\ n \in 1 - 1 .. Len(d) /\ Len(d) \in n .. Len(d)
  BY <1>1
<1>4. SubSeq(d, 1, n) \o SubSeq(d, n + 1, Len(d)) = SubSeq(d, 1, Len(d))
  BY <1>3, ConcatAdjacentSubSeq
<1>5. QED
  BY <1>2, <1>4, SubSeqFull DEF Cat

(* What comes first is a prefix. *)
LEMMA FirstIsPrefix ==
    ASSUME NEW T, NEW a \in Seq(T), NEW b \in Seq(T), NEW s \in Seq(T), NEW n \in 0 .. Len(s),
           Cat(a, b) = First(n, s)
    PROVE  a = SubSeq(s, 1, Len(a))
<1>1. /\ Len(a) \in Nat /\ Len(b) \in Nat /\ Len(s) \in Nat
      /\ Len(Cat(a, b)) = Len(a) + Len(b)
      /\ \A i \in 1 .. Len(a) : Cat(a, b)[i] = a[i]
  BY ConcatProperties, LenProperties DEF Cat
<1>2. Len(First(n, s)) = n /\ \A i \in 1 .. n : First(n, s)[i] = s[i]
  <2>1. \A i \in 1 .. n : s[i] \in T
    BY <1>1, ElementOfSeq
  <2>2. QED
    BY <1>1, <2>1, SubSeqProperties DEF First
<1>3. Len(a) <= n /\ \A i \in 1 .. Len(a) : a[i] = s[i]
  BY <1>1, <1>2
<1>4. \A i \in 1 .. Len(a) : s[i] \in T
  BY <1>1, <1>3, ElementOfSeq
<1>5. /\ SubSeq(s, 1, Len(a)) \in Seq(T) /\ Len(SubSeq(s, 1, Len(a))) = Len(a)
      /\ \A i \in 1 .. Len(a) : SubSeq(s, 1, Len(a))[i] = s[i]
  BY <1>1, <1>4, SubSeqProperties
<1>6. QED
  BY <1>3, <1>5, SeqEqual
-------------------------------------------------------------------------------
(* The greatest member of a set of numbers that is not empty. *)
LEMMA MaxIs ==
    ASSUME NEW m \in Nat, NEW s \in SUBSET (1 .. m), s # {}
    PROVE  Max(s) \in s /\ \A y \in s : y <= Max(s)
<1> DEFINE T == {u \in Nat : \A y \in s : y <= u}
<1>1. T \in SUBSET Nat /\ m \in T
  OBVIOUS
<1>2. PICK u \in T : \A y \in T : ~(y < u)
  <2> HIDE DEF T
  <2>1. QED
    BY <1>1, NatMin
<1>3. u \in s
  <2>1. SUFFICES ASSUME u \notin s PROVE FALSE
    OBVIOUS
  <2>2. PICK z \in s : TRUE
    OBVIOUS
  <2>3. u - 1 \in Nat /\ \A y \in s : y <= u - 1
    BY <2>1, <2>2
  <2>4. QED
    BY <1>2, <2>3
<1>4. \E x \in s : \A y \in s : x >= y
  BY <1>3
<1>5. Max(s) \in s /\ \A y \in s : Max(s) >= y
  BY <1>4 DEF Max
<1>6. s \subseteq Nat
  OBVIOUS
<1>7. QED
  BY <1>5, <1>6

(* The least member. *)
LEMMA MinIs ==
    ASSUME NEW s \in SUBSET Nat, s # {}
    PROVE  Min(s) \in s /\ \A y \in s : Min(s) <= y
<1>1. PICK x \in s : \A y \in s : ~(y < x)
  BY NatMin
<1>2. \E z \in s : \A y \in s : z =< y
  BY <1>1
<1>3. QED
  BY <1>2 DEF Min

(* A fold over 1 .. n takes the greatest number last; step says what is    *)
(* done with a number, for values of B.                                    *)
FoldsBy(f, step, b, n, B) ==
    /\ f[{}] = b
    /\ \A s \in SUBSET (1 .. n) :
          s # {} /\ f[s \ {Max(s)}] \in B => f[s] = step[Max(s)][f[s \ {Max(s)}]]

Foldable(step, b, n, B) == \E f \in [SUBSET (1 .. n) -> B] : FoldsBy(f, step, b, n, B)

(* There is such a function on all sets of numbers ... *)
LEMMA FoldExists ==
    ASSUME NEW B, NEW b \in B, NEW n \in Nat, NEW step \in [1 .. n -> [B -> B]]
    PROVE  \E f \in [SUBSET (1 .. n) -> B] : FoldsBy(f, step, b, n, B)
<1> DEFINE S == {m \in Nat : m <= n => Foldable(step, b, m, B)}
<1>1. 0 \in S
  <2> DEFINE f == [s \in SUBSET (1 .. 0) |-> b]
  <2>1. f \in [SUBSET (1 .. 0) -> B] /\ {} \in SUBSET (1 .. 0) /\ \A s \in SUBSET (1 .. 0) : s = {}
    OBVIOUS
  <2>2. FoldsBy(f, step, b, 0, B)
    BY <2>1 DEF FoldsBy
  <2> HIDE DEF f
  <2>3. Foldable(step, b, 0, B)
    BY <2>1, <2>2 DEF Foldable
  <2>4. QED
    BY <2>3
<1>2. ASSUME NEW m \in S PROVE m + 1 \in S
  <2>1. SUFFICES ASSUME m + 1 <= n PROVE Foldable(step, b, m + 1, B)
    OBVIOUS
  <2>2. m \in Nat /\ m + 1 \in Nat /\ m <= n
    BY <2>1
  <2> HIDE DEF S
  <2>3. PICK f \in [SUBSET (1 .. m) -> B] : FoldsBy(f, step, b, m, B)
    <3>1. Foldable(step, b, m, B)
      BY <1>2, <2>2 DEF S
    <3>2. QED
      BY <3>1 DEF Foldable
  <2> DEFINE g == [s \in SUBSET (1 .. m + 1) |->
                      IF m + 1 \in s THEN step[m + 1][f[s \ {m + 1}]] ELSE f[s]]
  <2>4. \A s \in SUBSET (1 .. m + 1) : s \ {m + 1} \in SUBSET (1 .. m)
    BY <2>2
  <2>5. m + 1 \in 1 .. n
    BY <2>1, <2>2
  <2>6. \A s \in SUBSET (1 .. m + 1) : IF m + 1 \in s THEN step[m + 1][f[s \ {m + 1}]] \in B ELSE f[s] \in B
    <3>1. ASSUME NEW s \in SUBSET (1 .. m + 1) PROVE f[s \ {m + 1}] \in B
      BY <2>3, <2>4
    <3>2. ASSUME NEW s \in SUBSET (1 .. m + 1), m + 1 \notin s PROVE s \ {m + 1} = s
      BY <3>2
    <3>3. ASSUME NEW x \in B PROVE step[m + 1][x] \in B
      BY <2>5
    <3>4. QED
      BY <3>1, <3>2, <3>3
  <2>7. g \in [SUBSET (1 .. m + 1) -> B]
    BY <2>6
  <2>8. \A s \in SUBSET (1 .. m + 1) : g[s] = IF m + 1 \in s THEN step[m + 1][f[s \ {m + 1}]] ELSE f[s]
    OBVIOUS
  <2> HIDE DEF g
  <2>9. {} \in SUBSET (1 .. m + 1) /\ g[{}] = b
    BY <2>3, <2>8 DEF FoldsBy
  <2>10. ASSUME NEW s \in SUBSET (1 .. m + 1), s # {} PROVE g[s] = step[Max(s)][g[s \ {Max(s)}]]
    <3>1. Max(s) \in s /\ (\A y \in s : y <= Max(s)) /\ s \ {Max(s)} \in SUBSET (1 .. m + 1)
      <4>1. Max(s) \in s /\ \A y \in s : y <= Max(s)
        BY <2>2, <2>10, MaxIs
      <4>2. QED
        BY <4>1
    <3>2. CASE m + 1 \in s
      <4>1. Max(s) = m + 1
        <5>1. Max(s) \in 1 .. m + 1 /\ m + 1 <= Max(s)
          BY <3>1, <3>2
        <5>2. QED
          BY <2>2, <5>1
      <4>2. g[s \ {Max(s)}] = f[s \ {m + 1}]
        BY <2>8, <3>1, <4>1
      <4>3. QED
        BY <2>8, <3>2, <4>1, <4>2
    <3>3. CASE m + 1 \notin s
      <4>1. s \in SUBSET (1 .. m) /\ s \ {Max(s)} \in SUBSET (1 .. m) /\ m + 1 \notin s \ {Max(s)}
        BY <2>4, <3>3
      <4>2. g[s] = f[s] /\ g[s \ {Max(s)}] = f[s \ {Max(s)}]
        BY <2>8, <3>1, <3>3, <4>1
      <4>3. f[s] = step[Max(s)][f[s \ {Max(s)}]]
        BY <2>3, <2>10, <4>1 DEF FoldsBy
      <4>4. QED
        BY <4>2, <4>3
    <3>4. QED
      BY <3>2, <3>3
  <2>11. FoldsBy(g, step, b, m + 1, B)
    BY <2>9, <2>10 DEF FoldsBy
  <2>12. QED
    BY <2>7, <2>11 DEF Foldable
<1>3. S = Nat
  <2>1. S \in SUBSET Nat
    OBVIOUS
  <2> HIDE DEF S
  <2>2. QED
    BY <1>1, <1>2, <2>1, NatSetInduction
<1>4. n \in S
  BY <1>3
<1>5. Foldable(step, b, n, B)
  BY <1>4
<1>6. QED
  BY <1>5 DEF Foldable

(* ... and any such function steps from 1 .. i - 1 to 1 .. i. *)
LEMMA FoldSteps ==
    ASSUME NEW B, NEW b \in B, NEW n \in Nat, NEW step \in [1 .. n -> [B -> B]], NEW f,
           FoldsBy(f, step, b, n, B)
    PROVE  /\ f[1 .. 0] = b
           /\ \A i \in 0 .. n : f[1 .. i] \in B
           /\ \A i \in 1 .. n : f[1 .. i] = step[i][f[1 .. i - 1]]
<1>1. 1 .. 0 = {} /\ f[1 .. 0] = b
  BY DEF FoldsBy
<1>2. ASSUME NEW i \in 1 .. n, f[1 .. i - 1] \in B
      PROVE  f[1 .. i] = step[i][f[1 .. i - 1]] /\ f[1 .. i] \in B
  <2>1. 1 .. i \in SUBSET (1 .. n) /\ i \in Nat /\ i \in 1 .. i
    OBVIOUS
  <2>2. Max(1 .. i) \in 1 .. i /\ \A y \in 1 .. i : y <= Max(1 .. i)
    BY <2>1, MaxIs
  <2>3. Max(1 .. i) = i
    BY <2>1, <2>2
  <2>4. (1 .. i) \ {i} = 1 .. i - 1
    BY <2>1
  <2>5. f[1 .. i] = step[i][f[1 .. i - 1]]
    BY <1>2, <2>1, <2>3, <2>4 DEF FoldsBy
  <2>6. step[i][f[1 .. i - 1]] \in B
    BY <1>2
  <2>7. QED
    BY <2>5, <2>6
<1> DEFINE S == {i \in Nat : i <= n => f[1 .. i] \in B}
<1>3. 0 \in S
  BY <1>1
<1>4. ASSUME NEW i \in S PROVE i + 1 \in S
  <2>1. SUFFICES ASSUME i + 1 <= n PROVE f[1 .. i + 1] \in B
    OBVIOUS
  <2>2. i + 1 \in 1 .. n /\ (i + 1) - 1 = i /\ f[1 .. i] \in B
    BY <1>4, <2>1
  <2>3. QED
    BY <1>2, <2>2
<1>5. S = Nat
  <2>1. S \in SUBSET Nat
    OBVIOUS
  <2> HIDE DEF S
  <2>2. QED
    BY <1>3, <1>4, <2>1, NatSetInduction
<1>6. \A i \in 0 .. n : f[1 .. i] \in B
  BY <1>5
<1>7. QED
  <2>1. \A i \in 1 .. n : i - 1 \in 0 .. n
    OBVIOUS
  <2>2. QED
    BY <1>1, <1>2, <1>6, <2>1

(* Two functions of numbers may start and go on alike, and be alike. *)
Alike(g, h, n) == g[0] = h[0] /\ \A i \in 1 .. n : g[i - 1] = h[i - 1] => g[i] = h[i]
SameTo(g, h, n) == \A i \in 0 .. n : g[i] = h[i]

(* If they go on alike they are alike. *)
LEMMA GoOnAlike ==
    ASSUME NEW n \in Nat, NEW g, NEW h, Alike(g, h, n)
    PROVE  SameTo(g, h, n)
<1> USE DEF Alike, SameTo
<1> DEFINE S == {i \in Nat : i <= n => g[i] = h[i]}
<1>1. 0 \in S
  OBVIOUS
<1>2. ASSUME NEW i \in S PROVE i + 1 \in S
  <2>1. SUFFICES ASSUME i + 1 <= n PROVE g[i + 1] = h[i + 1]
    OBVIOUS
  <2>2. i + 1 \in 1 .. n /\ (i + 1) - 1 = i /\ g[i] = h[i]
    BY <1>2, <2>1
  <2>3. QED
    BY <2>2
<1>3. S = Nat
  <2>1. S \in SUBSET Nat
    OBVIOUS
  <2> HIDE DEF S
  <2>2. QED
    BY <1>1, <1>2, <2>1, NatSetInduction
<1>4. QED
  BY <1>3

(* Numbers each of which is above the one before rise. *)
LEMMA Rises ==
    ASSUME NEW n \in Nat, NEW h, \A i \in 0 .. n : h[i] \in Nat, \A i \in 1 .. n : h[i - 1] < h[i]
    PROVE  \A i, j \in 0 .. n : i < j => h[i] < h[j]
<1> DEFINE S == {m \in Nat : m <= n => \A i \in 0 .. n : i < m => h[i] < h[m]}
<1>1. 0 \in S
  OBVIOUS
<1>2. ASSUME NEW m \in S PROVE m + 1 \in S
  <2>1. SUFFICES ASSUME m + 1 <= n, NEW i \in 0 .. n, i < m + 1 PROVE h[i] < h[m + 1]
    OBVIOUS
  <2>2. /\ m + 1 \in 1 .. n /\ (m + 1) - 1 = m /\ m \in 0 .. n /\ m + 1 \in 0 .. n
        /\ \A k \in 0 .. n : k < m => h[k] < h[m]
    BY <1>2, <2>1
  <2>3. h[m] < h[m + 1] /\ h[i] \in Nat /\ h[m] \in Nat /\ h[m + 1] \in Nat
    BY <2>2
  <2>4. i = m \/ i < m
    BY <2>1, <2>2
  <2>5. QED
    BY <2>2, <2>3, <2>4
<1>3. S = Nat
  <2>1. S \in SUBSET Nat
    OBVIOUS
  <2> HIDE DEF S
  <2>2. QED
    BY <1>1, <1>2, <2>1, NatSetInduction
<1>4. QED
  BY <1>3
-------------------------------------------------------------------------------
(* The first i members, and those from m on. *)
LEMMA Parted ==
    ASSUME NEW T, NEW s \in Seq(T), NEW i \in 0 .. Len(s), NEW m \in 1 .. Len(s) + 1
    PROVE  /\ SubSeq(s, 1, i) \in Seq(T) /\ Len(SubSeq(s, 1, i)) = i
           /\ \A j \in 1 .. i : SubSeq(s, 1, i)[j] = s[j]
           /\ SubSeq(s, m, Len(s)) \in Seq(T) /\ Len(SubSeq(s, m, Len(s))) = Len(s) + 1 - m
           /\ \A j \in 1 .. Len(s) + 1 - m : SubSeq(s, m, Len(s))[j] = s[m + j - 1]
<1>1. /\ Len(s) \in Nat /\ i \in Int /\ 1 \in Int /\ m \in Int /\ Len(s) \in Int
      /\ \A j \in 1 .. i : s[j] \in T
      /\ \A j \in m .. Len(s) : s[j] \in T
  BY ElementOfSeq, LenProperties
<1>2. /\ SubSeq(s, 1, i) \in Seq(T) /\ Len(SubSeq(s, 1, i)) = i
      /\ \A j \in 1 .. i : SubSeq(s, 1, i)[j] = s[j]
  <2>1. /\ SubSeq(s, 1, i) \in Seq(T)
        /\ Len(SubSeq(s, 1, i)) = IF 1 <= i THEN i - 1 + 1 ELSE 0
        /\ \A j \in 1 .. i - 1 + 1 : SubSeq(s, 1, i)[j] = s[1 + j - 1]
    BY <1>1, SubSeqProperties
  <2>2. QED
    BY <1>1, <2>1
<1>3. /\ SubSeq(s, m, Len(s)) \in Seq(T)
      /\ Len(SubSeq(s, m, Len(s))) = IF m <= Len(s) THEN Len(s) - m + 1 ELSE 0
      /\ \A j \in 1 .. Len(s) - m + 1 : SubSeq(s, m, Len(s))[j] = s[m + j - 1]
  BY <1>1, SubSeqProperties
<1>4. QED
  BY <1>1, <1>2, <1>3

(* Two sequences in one. *)
LEMMA Joined ==
    ASSUME NEW T, NEW a \in Seq(T), NEW b \in Seq(T)
    PROVE  /\ a \o b \in Seq(T) /\ Len(a \o b) = Len(a) + Len(b)
           /\ \A j \in 1 .. Len(a) : (a \o b)[j] = a[j]
           /\ \A j \in 1 .. Len(b) : (a \o b)[Len(a) + j] = b[j]
<1>1. Len(a) \in Nat /\ Len(b) \in Nat
  BY LenProperties
<1>2. /\ a \o b \in Seq(T) /\ Len(a \o b) = Len(a) + Len(b)
      /\ \A i \in 1 .. Len(a) + Len(b) : (a \o b)[i] = IF i <= Len(a) THEN a[i] ELSE b[i - Len(a)]
  BY ConcatProperties
<1>3. ASSUME NEW j \in 1 .. Len(b) PROVE (a \o b)[Len(a) + j] = b[j]
  <2>1. Len(a) + j \in 1 .. Len(a) + Len(b) /\ ~(Len(a) + j <= Len(a)) /\ Len(a) + j - Len(a) = j
    BY <1>1
  <2>2. QED
    BY <1>2, <2>1
<1>4. ASSUME NEW j \in 1 .. Len(a) PROVE (a \o b)[j] = a[j]
  <2>1. j \in 1 .. Len(a) + Len(b) /\ j <= Len(a)
    BY <1>1
  <2>2. QED
    BY <1>2, <2>1
<1>5. QED
  BY <1>2, <1>3, <1>4

(* A member put at the end. *)
LEMMA Lengthened ==
    ASSUME NEW T, NEW a \in Seq(T), NEW x \in T
    PROVE  /\ a \o <<x>> \in Seq(T) /\ Len(a \o <<x>>) = Len(a) + 1
           /\ \A j \in 1 .. Len(a) : (a \o <<x>>)[j] = a[j]
           /\ (a \o <<x>>)[Len(a) + 1] = x
<1> DEFINE e == <<x>>
<1>1. e \in Seq(T) /\ Len(e) = 1 /\ e[1] = x /\ 1 \in 1 .. 1
  OBVIOUS
<1> HIDE DEF e
<1> DEFINE c == a \o e
<1>2. /\ c \in Seq(T) /\ Len(c) = Len(a) + Len(e)
      /\ \A j \in 1 .. Len(a) : c[j] = a[j]
      /\ \A j \in 1 .. Len(e) : c[Len(a) + j] = e[j]
  BY <1>1, Joined
<1> HIDE DEF c
<1>3. c[Len(a) + 1] = x
  BY <1>1, <1>2
<1>4. QED
  BY <1>1, <1>2, <1>3 DEF c, e

(* A member put in after the first i. *)
LEMMA Inserted ==
    ASSUME NEW T, NEW s \in Seq(T), NEW x \in T, NEW i \in 0 .. Len(s)
    PROVE  /\ InsertAt(s, i + 1, x) \in Seq(T)
           /\ Len(InsertAt(s, i + 1, x)) = Len(s) + 1
           /\ InsertAt(s, i + 1, x)[i + 1] = x
           /\ \A j \in 1 .. i : InsertAt(s, i + 1, x)[j] = s[j]
           /\ \A j \in i + 1 .. Len(s) : InsertAt(s, i + 1, x)[j + 1] = s[j]
<1> DEFINE a == SubSeq(s, 1, i)
           b == SubSeq(s, i + 1, Len(s))
<1>1. /\ a \in Seq(T) /\ Len(a) = i /\ \A j \in 1 .. i : a[j] = s[j]
      /\ b \in Seq(T) /\ Len(b) = Len(s) - i /\ \A j \in 1 .. Len(s) - i : b[j] = s[i + j]
      /\ i \in Nat /\ Len(s) \in Nat
  <2>1. i + 1 \in 1 .. Len(s) + 1 /\ i \in Nat /\ Len(s) \in Nat
    OBVIOUS
  <2>2. /\ a \in Seq(T) /\ Len(a) = i /\ \A j \in 1 .. i : a[j] = s[j]
        /\ b \in Seq(T) /\ Len(b) = Len(s) + 1 - (i + 1)
        /\ \A j \in 1 .. Len(s) + 1 - (i + 1) : b[j] = s[(i + 1) + j - 1]
    BY <2>1, Parted
  <2> HIDE DEF a, b
  <2>3. QED
    BY <2>1, <2>2
<1>2. InsertAt(s, i + 1, x) = a \o <<x>> \o b
  <2>1. (i + 1) - 1 = i
    OBVIOUS
  <2>2. QED
    BY <2>1 DEF InsertAt
<1> HIDE DEF a, b
<1> DEFINE c == a \o <<x>>
<1>3. c \in Seq(T) /\ Len(c) = i + 1 /\ c[i + 1] = x /\ \A j \in 1 .. i : c[j] = s[j]
  <2>1. /\ c \in Seq(T) /\ Len(c) = Len(a) + 1
        /\ \A j \in 1 .. Len(a) : c[j] = a[j]
        /\ c[Len(a) + 1] = x
    BY <1>1, Lengthened
  <2> HIDE DEF c
  <2>2. QED
    BY <1>1, <2>1
<1> HIDE DEF c
<1> DEFINE d == c \o b
<1>4. /\ d \in Seq(T) /\ Len(d) = Len(s) + 1
      /\ \A j \in 1 .. i + 1 : d[j] = c[j]
      /\ \A j \in 1 .. Len(s) - i : d[i + 1 + j] = b[j]
  BY <1>1, <1>3
<1> HIDE DEF d
<1>5. \A j \in i + 1 .. Len(s) : d[j + 1] = s[j]
  <2>1. ASSUME NEW j \in i + 1 .. Len(s) PROVE d[j + 1] = s[j]
    <3>1. j - i \in 1 .. Len(s) - i /\ i + 1 + (j - i) = j + 1 /\ i + (j - i) = j
      BY <1>1
    <3>2. d[i + 1 + (j - i)] = b[j - i] /\ b[j - i] = s[i + (j - i)]
      BY <1>1, <1>4, <3>1
    <3>3. QED
      BY <3>1, <3>2
  <2>2. QED
    BY <2>1
<1>6. d[i + 1] = x /\ \A j \in 1 .. i : d[j] = s[j]
  BY <1>1, <1>3, <1>4
<1>7. InsertAt(s, i + 1, x) = d
  BY <1>2 DEF c, d
<1>8. QED
  BY <1>4, <1>5, <1>6, <1>7

(* The member after the first i taken out. *)
LEMMA Removed ==
    ASSUME NEW T, NEW s \in Seq(T), NEW i \in 0 .. Len(s) - 1
    PROVE  /\ RemoveAt(s, i + 1) \in Seq(T)
           /\ Len(RemoveAt(s, i + 1)) = Len(s) - 1
           /\ \A j \in 1 .. i : RemoveAt(s, i + 1)[j] = s[j]
<1> DEFINE a == SubSeq(s, 1, i)
           b == SubSeq(s, i + 2, Len(s))
<1>1. /\ a \in Seq(T) /\ Len(a) = i /\ \A j \in 1 .. i : a[j] = s[j]
      /\ b \in Seq(T) /\ Len(b) = Len(s) - 1 - i
      /\ i \in Nat /\ Len(s) \in Nat
  <2>1. i \in 0 .. Len(s) /\ i + 2 \in 1 .. Len(s) + 1 /\ i \in Nat /\ Len(s) \in Nat
    OBVIOUS
  <2>2. /\ a \in Seq(T) /\ Len(a) = i /\ \A j \in 1 .. i : a[j] = s[j]
        /\ b \in Seq(T) /\ Len(b) = Len(s) + 1 - (i + 2)
    BY <2>1, Parted
  <2> HIDE DEF a, b
  <2>3. QED
    BY <2>1, <2>2
<1>2. RemoveAt(s, i + 1) = a \o b
  <2>1. (i + 1) - 1 = i /\ (i + 1) + 1 = i + 2
    OBVIOUS
  <2>2. QED
    BY <2>1 DEF RemoveAt
<1> HIDE DEF a, b
<1>3. /\ a \o b \in Seq(T) /\ Len(a \o b) = Len(a) + Len(b)
      /\ \A j \in 1 .. Len(a) : (a \o b)[j] = a[j]
  BY <1>1, Joined
<1> DEFINE d == a \o b
<1>4. d \in Seq(T) /\ Len(d) = i + (Len(s) - 1 - i) /\ \A j \in 1 .. i : d[j] = s[j]
  BY <1>1, <1>3
<1>5. RemoveAt(s, i + 1) = d
  BY <1>2
<1> HIDE DEF d
<1>6. Len(d) = Len(s) - 1
  BY <1>1, <1>4
<1>7. QED
  BY <1>4, <1>5, <1>6
===============================================================================
