----------------------------- MODULE DataProofs -----------------------------
(***************************************************************************)
(* Induction in a form the provers take: over the set of the numbers that  *)
(* have a property, instead of over the property; and what it gives about  *)
(* sequences, about FoldLeft, FoldRight and FlattenSeq.  And what the      *)
(* operators of LazyValidity do to the bits of the rows and to the number  *)
(* of nulls among them.                                                    *)
(***************************************************************************)
EXTENDS LazyValidity, SequencesExt, SequenceTheorems, FiniteSetTheorems,
        WellFoundedInduction, TLAPS

Less == {p \in Nat \X Nat : p[1] < p[2]}

LEMMA LessWellFounded == IsWellFoundedOn(Less, Nat)
<1>1. IsWellFoundedOn(OpToRel(<, Nat), Nat)
  BY NatLessThanWellFounded
<1>2. OpToRel(<, Nat) = Less
  BY DEF OpToRel, Less
<1> QED
  BY <1>1, <1>2

LEMMA Least ==
  ASSUME NEW T \in SUBSET Nat, T # {}
  PROVE  \E x \in T : \A y \in T : x <= y
<1>1. PICK x \in T : \A y \in T : << y, x >> \notin Less
  BY LessWellFounded, WFMin
<1>2. ASSUME NEW y \in T, y < x
      PROVE  << y, x >> \in Less
  <2>1. << y, x >> \in Nat \X Nat /\ << y, x >>[1] = y /\ << y, x >>[2] = x
    OBVIOUS
  <2> QED
    BY <1>2, <2>1 DEF Less
<1>3. \A y \in T : ~(y < x)
  BY <1>1, <1>2
<1> QED
  BY <1>3

(* A set of numbers that has 0 and with every number the next has them all. *)
LEMMA SetInduction ==
  ASSUME NEW T \in SUBSET Nat, 0 \in T, \A n \in T : n + 1 \in T
  PROVE  T = Nat
<1> SUFFICES ASSUME Nat \ T # {}
             PROVE  FALSE
  OBVIOUS
<1>1. PICK x \in Nat \ T : \A y \in Nat \ T : x <= y
  BY Least
<1> QED
  BY <1>1, x # 0, x - 1 \in Nat, x - 1 \in T

(* The same up to a number. *)
LEMMA IntervalInduction ==
  ASSUME NEW n \in Nat, NEW T, 0 \in T, \A i \in 0 .. n - 1 : i \in T => i + 1 \in T
  PROVE  \A i \in 0 .. n : i \in T
<1> DEFINE U == {i \in Nat : i <= n => i \in T}
<1>1. U \in SUBSET Nat /\ 0 \in U
  OBVIOUS
<1>2. ASSUME NEW i \in U
      PROVE  i + 1 \in U
  <2>1. i \in Nat /\ (i + 1 <= n => i \in 0 .. n - 1 /\ i <= n)
    OBVIOUS
  <2> QED
    BY <2>1
<1>3. U = Nat
  <2> HIDE DEF U
  <2> QED
    BY <1>1, <1>2, SetInduction
<1> QED
  BY <1>3

LEMMA MaxOf ==
  ASSUME NEW n \in Nat, NEW s \in SUBSET (1 .. n), s # {}
  PROVE  Max(s) \in s /\ \A i \in s : i <= Max(s)
<1> DEFINE T == {n - i : i \in s}
<1>1. T \in SUBSET Nat /\ T # {}
  OBVIOUS
<1>2. PICK x \in T : \A y \in T : x <= y
  <2> HIDE DEF T
  <2> QED
    BY <1>1, Least
<1>3. PICK i \in s : x = n - i
  BY <1>2
<1>4. ASSUME NEW j \in s
      PROVE  i >= j
  <2>1. n - i <= n - j /\ i \in Nat /\ j \in Nat
    BY <1>2, <1>3
  <2> QED
    BY <2>1
<1>5. \E k \in s : \A j \in s : k >= j
  BY <1>4
<1>6. Max(s) \in s /\ \A j \in s : Max(s) >= j
  BY <1>5 DEF Max
<1> QED
  BY <1>6

-----------------------------------------------------------------------------
(* A sequence that ascends from one element to the next ascends. *)
LEMMA AscendsFar ==
  ASSUME NEW s \in Seq(Int),
         \A i \in 1 .. Len(s) - 1 : s[i] <= s[i + 1]
  PROVE  \A i, j \in 1 .. Len(s) : i <= j => s[i] <= s[j]
<1> DEFINE T == {d \in Nat : \A i \in 1 .. Len(s) :
                               i + d <= Len(s) => s[i] <= s[i + d]}
<1>1. 0 \in T
  <2>1. ASSUME NEW i \in 1 .. Len(s)
        PROVE  s[i] <= s[i + 0]
    <3>1. s[i] \in Int /\ i + 0 = i
      OBVIOUS
    <3> QED
      BY <3>1
  <2> QED
    BY <2>1
<1>2. ASSUME NEW d \in T
      PROVE  d + 1 \in T
  <2>1. ASSUME NEW i \in 1 .. Len(s), i + (d + 1) <= Len(s)
        PROVE  s[i] <= s[i + (d + 1)]
    <3>1. d \in Nat /\ i + d \in 1 .. Len(s) - 1 /\ i + (d + 1) = (i + d) + 1
      BY <2>1
    <3>2. s[i] <= s[i + d] /\ s[i + d] <= s[(i + d) + 1]
      BY <3>1
    <3>3. s[i] \in Int /\ s[i + d] \in Int /\ s[(i + d) + 1] \in Int
      BY <3>1
    <3> QED
      BY <3>1, <3>2, <3>3
  <2> QED
    BY <2>1
<1>3. T = Nat
  <2>1. T \in SUBSET Nat
    OBVIOUS
  <2> HIDE DEF T
  <2> QED
    BY <1>1, <1>2, <2>1, SetInduction
<1>4. ASSUME NEW i \in 1 .. Len(s), NEW j \in 1 .. Len(s), i <= j
      PROVE  s[i] <= s[j]
  <2>1. j - i \in Nat /\ i + (j - i) = j
    BY <1>4
  <2>2. j - i \in T
    BY <1>3, <2>1
  <2> QED
    BY <2>1, <2>2
<1> QED
  BY <1>4

(* Equal up to b, equal between a and b. *)
LEMMA SameSubSeq ==
  ASSUME NEW S, NEW s \in Seq(S), NEW t \in Seq(S), NEW a \in Nat,
         NEW b \in Nat, b <= Len(s), b <= Len(t),
         \A i \in 1 .. b : s[i] = t[i]
  PROVE  SubSeq(s, a + 1, b) = SubSeq(t, a + 1, b)
OBVIOUS

(* A sequence that extends another one by one element. *)
LEMMA OneMoreElement ==
  ASSUME NEW n \in Nat, NEW s, NEW t, s = [i \in 1 .. n |-> s[i]],
         t = [i \in 1 .. n + 1 |-> t[i]], \A i \in 1 .. n : t[i] = s[i]
  PROVE  Len(t) = Len(s) + 1 /\ SubSeq(t, 1, Len(s)) = s
<1> DEFINE S == {t[i] : i \in 1 .. n + 1}
<1>1. s \in Seq(S) /\ t \in Seq(S) /\ Len(s) = n /\ Len(t) = n + 1
  <2>1. ASSUME NEW i \in 1 .. n
        PROVE  s[i] \in S
    <3>1. i \in 1 .. n + 1 /\ s[i] = t[i]
      OBVIOUS
    <3> QED
      BY <3>1
  <2>2. \A i \in 1 .. n + 1 : t[i] \in S
    OBVIOUS
  <2> HIDE DEF S
  <2>3. s \in [1 .. n -> S] /\ t \in [1 .. n + 1 -> S]
    BY <2>1, <2>2
  <2> QED
    BY <2>3, n + 1 \in Nat
<1> HIDE DEF S
<1>2. SubSeq(t, 1, n) = [i \in 1 .. n |-> t[i]]
  BY <1>1
<1>3. [i \in 1 .. n |-> t[i]] = [i \in 1 .. n |-> s[i]]
  OBVIOUS
<1> QED
  BY <1>1, <1>2, <1>3

-----------------------------------------------------------------------------
(* What FoldLeft iterates for a sequence of n elements exists, ...         *)
Iterates(f, n, base, g) ==
  \A s \in SUBSET (1 .. n) :
    f[s] = IF s = {} THEN base ELSE g[f[s \ {Max(s)}], Max(s)]

LEMMA LeftFoldExists ==
  ASSUME NEW n \in Nat, NEW S, NEW base \in S, NEW g \in [S \X (1 .. n) -> S]
  PROVE  \E f \in [SUBSET (1 .. n) -> S] : Iterates(f, n, base, g)
<1> DEFINE T == {m \in Nat : \E f \in [SUBSET (1 .. m) -> S] :
                               Iterates(f, m, base, g)}
<1> USE DEF Iterates
<1>1. 0 \in T
  <2> DEFINE f == [s \in SUBSET (1 .. 0) |-> base]
  <2>1. SUBSET (1 .. 0) = {{}}
    OBVIOUS
  <2>2. f \in [SUBSET (1 .. 0) -> S] /\ Iterates(f, 0, base, g)
    BY <2>1
  <2> QED
    BY <2>2
<1>2. ASSUME NEW m \in 0 .. n - 1, m \in T
      PROVE  m + 1 \in T
  <2>1. PICK f \in [SUBSET (1 .. m) -> S] : Iterates(f, m, base, g)
    BY <1>2
  <2> DEFINE more == [s \in SUBSET (1 .. m + 1) |->
                        IF m + 1 \in s THEN g[f[s \ {m + 1}], m + 1] ELSE f[s]]
  <2>2. /\ \A s \in SUBSET (1 .. m + 1) : s \ {m + 1} \in SUBSET (1 .. m)
        /\ \A s \in SUBSET (1 .. m + 1) : m + 1 \notin s => s \in SUBSET (1 .. m)
        /\ m + 1 \in 1 .. n
    OBVIOUS
  <2>3. more \in [SUBSET (1 .. m + 1) -> S]
    <3>1. ASSUME NEW s \in SUBSET (1 .. m + 1), m + 1 \in s
          PROVE  g[f[s \ {m + 1}], m + 1] \in S
      <4>1. f[s \ {m + 1}] \in S
        BY <2>2
      <4> QED
        BY <2>2, <4>1
    <3>2. ASSUME NEW s \in SUBSET (1 .. m + 1), m + 1 \notin s
          PROVE  f[s] \in S
      BY <2>2, <3>2
    <3> QED
      BY <3>1, <3>2
  <2>4. ASSUME NEW s \in SUBSET (1 .. m + 1)
        PROVE  more[s] = IF s = {} THEN base ELSE g[more[s \ {Max(s)}], Max(s)]
    <3>1. CASE m + 1 \in s
      <4>1. Max(s) = m + 1
        <5>1. Max(s) \in s /\ \A i \in s : i <= Max(s)
          BY <3>1, MaxOf, m + 1 \in Nat
        <5>2. m + 1 <= Max(s) /\ Max(s) \in 1 .. m + 1
          BY <3>1, <5>1
        <5> QED
          BY <5>2
      <4>2. more[s \ {m + 1}] = f[s \ {m + 1}]
        <5>1. s \ {m + 1} \in SUBSET (1 .. m + 1) /\ m + 1 \notin s \ {m + 1}
          OBVIOUS
        <5> QED
          BY <5>1
      <4>3. more[s] = g[f[s \ {m + 1}], m + 1] /\ s # {}
        BY <3>1
      <4> HIDE DEF more
      <4> QED
        BY <4>1, <4>2, <4>3
    <3>2. CASE m + 1 \notin s
      <4>1. s \in SUBSET (1 .. m) /\ more[s] = f[s]
        BY <2>2, <3>2
      <4>2. CASE s # {}
        <5>1. s \ {Max(s)} \in SUBSET (1 .. m) /\ s \ {Max(s)} \in SUBSET (1 .. m + 1)
              /\ m + 1 \notin s \ {Max(s)}
          BY <3>2, <4>1
        <5>2. more[s \ {Max(s)}] = f[s \ {Max(s)}]
          BY <5>1
        <5>3. f[s] = g[f[s \ {Max(s)}], Max(s)]
          BY <2>1, <4>1, <4>2
        <5> HIDE DEF more
        <5> QED
          BY <4>1, <4>2, <5>2, <5>3
      <4>3. CASE s = {}
        BY <2>1, <4>1, <4>3
      <4> QED
        BY <4>2, <4>3
    <3> QED
      BY <3>1, <3>2
  <2>5. m + 1 \in Nat
    OBVIOUS
  <2> HIDE DEF more
  <2> QED
    BY <2>3, <2>4, <2>5
<1>3. n \in T
  <2> HIDE DEF T
  <2> QED
    BY <1>1, <1>2, IntervalInduction, n \in 0 .. n
<1> QED
  BY <1>3

(* ... and steps through the sequence. *)
LEMMA PrefixSteps ==
  ASSUME NEW n \in Nat
  PROVE  /\ 1 .. 0 = {}
         /\ \A i \in 1 .. n : /\ Max(1 .. i) = i
                              /\ (1 .. i) \ {i} = 1 .. i - 1
                              /\ 1 .. i # {}
                              /\ 1 .. i \in SUBSET (1 .. n)
                              /\ 1 .. i - 1 \in SUBSET (1 .. n)
<1>1. ASSUME NEW i \in 1 .. n
      PROVE  Max(1 .. i) = i
  <2>1. Max(1 .. i) \in 1 .. i /\ \A j \in 1 .. i : j <= Max(1 .. i)
    BY MaxOf, i \in Nat, i \in 1 .. i
  <2>2. i <= Max(1 .. i)
    BY <2>1
  <2> QED
    BY <2>1, <2>2
<1> QED
  BY <1>1

-----------------------------------------------------------------------------
(* FlattenSeq in steps. *)
LEMMA FlattenSteps ==
  ASSUME NEW W, NEW seqs \in Seq(Seq(W))
  PROVE  \E h \in [0 .. Len(seqs) -> Seq(W)] :
           /\ h[0] = << >>
           /\ \A i \in 1 .. Len(seqs) : h[i] = h[i - 1] \o seqs[i]
           /\ FlattenSeq(seqs) = h[Len(seqs)]
<1> DEFINE n == Len(seqs)
           next(f, i) == IF i = 1 THEN seqs[i] ELSE f[i - 1] \o seqs[i]
           flat == CHOOSE f : f = [i \in 1 .. n |-> next(f, i)]
           h == [i \in 0 .. n |-> IF i = 0 THEN << >> ELSE flat[i]]
<1>1. n \in Nat /\ \A i \in 1 .. n : seqs[i] \in Seq(W)
  OBVIOUS
<1>2. \E f : f = [i \in 1 .. n |-> next(f, i)]
  <2> DEFINE T == {m \in Nat : \E f \in [1 .. m -> Seq(W)] :
                                 \A i \in 1 .. m : f[i] = next(f, i)}
  <2>1. 0 \in T
    <3>1. [i \in 1 .. 0 |-> << >>] \in [1 .. 0 -> Seq(W)] /\ 1 .. 0 = {}
      OBVIOUS
    <3> HIDE DEF next
    <3> QED
      BY <3>1
  <2>2. ASSUME NEW m \in 0 .. n - 1, m \in T
        PROVE  m + 1 \in T
    <3>1. PICK f \in [1 .. m -> Seq(W)] : \A i \in 1 .. m : f[i] = next(f, i)
      BY <2>2
    <3> DEFINE g == [i \in 1 .. m + 1 |-> next(f, i)]
    <3>2. \A i \in 1 .. m + 1 : i \in 1 .. n /\ (i # 1 => i - 1 \in 1 .. m)
      BY <1>1
    <3>3. \A i \in 1 .. m + 1 : next(f, i) \in Seq(W)
      BY <1>1, <3>2
    <3>4. g \in [1 .. m + 1 -> Seq(W)]
      BY <3>3
    <3>5. \A i \in 1 .. m : g[i] = f[i]
      <4>1. \A i \in 1 .. m : i \in 1 .. m + 1
        OBVIOUS
      <4> HIDE DEF next
      <4> QED
        BY <3>1, <4>1
    <3>6. \A i \in 1 .. m + 1 : g[i] = next(g, i)
      BY <3>2, <3>5
    <3>7. m + 1 \in Nat
      OBVIOUS
    <3> HIDE DEF g, next
    <3> QED
      BY <3>4, <3>6, <3>7
  <2>3. n \in T
    <3> HIDE DEF T
    <3> QED
      BY <1>1, <2>1, <2>2, IntervalInduction, n \in 0 .. n
  <2>4. PICK f \in [1 .. n -> Seq(W)] : \A i \in 1 .. n : f[i] = next(f, i)
    BY <2>3
  <2>5. f = [i \in 1 .. n |-> next(f, i)]
    <3> HIDE DEF next
    <3> QED
      BY <2>4
  <2> QED
    BY <2>5
<1>3. flat = [i \in 1 .. n |-> next(flat, i)]
  <2> HIDE DEF next, n
  <2> QED
    BY <1>2
<1>4. \A i \in 1 .. n : flat[i] = next(flat, i)
  <2> HIDE DEF next
  <2> QED
    BY <1>3
<1> HIDE DEF flat
<1>5. h[0] = << >> /\ \A i \in 1 .. n : h[i] = flat[i]
  BY <1>1
<1>6. \A i \in 0 .. n : h[i] \in Seq(W)
  <2> DEFINE T == {i \in 0 .. n : h[i] \in Seq(W)}
  <2>1. 0 \in T
    BY <1>1, <1>5
  <2>2. ASSUME NEW i \in 0 .. n - 1, i \in T
        PROVE  i + 1 \in T
    <3>1. i + 1 \in 1 .. n /\ h[i + 1] = next(flat, i + 1)
      BY <1>1, <1>4, <1>5
    <3>2. CASE i = 0
      BY <1>1, <3>1, <3>2
    <3>3. CASE i # 0
      <4>1. i \in 1 .. n /\ (i + 1) - 1 = i /\ i + 1 # 1
        BY <1>1, <3>3
      <4>2. flat[i] \in Seq(W)
        BY <2>2, <1>5, <4>1
      <4>3. next(flat, i + 1) = flat[i] \o seqs[i + 1]
        BY <4>1
      <4>4. h[i + 1] \in Seq(W) /\ i + 1 \in 0 .. n
        <5>1. seqs[i + 1] \in Seq(W) /\ i + 1 \in 0 .. n
          BY <1>1, <3>1
        <5>2. flat[i] \o seqs[i + 1] \in Seq(W)
          BY <4>2, <5>1
        <5> HIDE DEF h, next
        <5> QED
          BY <3>1, <4>3, <5>1, <5>2
      <4> QED
        BY <4>4
    <3> QED
      BY <3>2, <3>3
  <2> HIDE DEF T
  <2>3. \A i \in 0 .. n : i \in T
    BY <1>1, <2>1, <2>2, IntervalInduction
  <2> QED
    BY <2>3 DEF T
<1>7. ASSUME NEW i \in 1 .. n
      PROVE  h[i] = h[i - 1] \o seqs[i]
  <2>1. CASE i = 1
    <3>1. h[i] = seqs[i] /\ h[i - 1] = << >> /\ seqs[i] \in Seq(W)
      BY <1>1, <1>4, <1>5, <2>1
    <3> HIDE DEF h
    <3>2. << >> \o seqs[i] = seqs[i]
      BY <3>1
    <3> QED
      BY <3>1, <3>2
  <2>2. CASE i # 1
    <3>1. i - 1 \in 1 .. n
      BY <1>1, <2>2
    <3>2. h[i] = flat[i - 1] \o seqs[i] /\ h[i - 1] = flat[i - 1]
      BY <1>4, <1>5, <2>2, <3>1
    <3> QED
      BY <3>2
  <2> QED
    BY <2>1, <2>2
<1>8. FlattenSeq(seqs) = IF Len(seqs) = 0 THEN seqs ELSE flat[Len(seqs)]
  BY Zenon DEF FlattenSeq, flat
<1>9. FlattenSeq(seqs) = h[n]
  <2>1. CASE n = 0
    <3>1. seqs = << >> /\ h[n] = << >>
      BY <2>1, EmptySeq
    <3> QED
      BY <1>8, <2>1, <3>1
  <2>2. CASE n # 0
    BY <1>1, <1>5, <1>8, <2>2
  <2> QED
    BY <2>1, <2>2
<1>10. h \in [0 .. n -> Seq(W)]
  <2> DEFINE v(i) == IF i = 0 THEN << >> ELSE flat[i]
  <2>1. \A i \in 0 .. n : v(i) \in Seq(W)
    BY <1>6
  <2> QED
    BY <2>1
<1> HIDE DEF h
<1> QED
  BY <1>5, <1>7, <1>9, <1>10

(* The steps are the only ones there are. *)
LEMMA FlattenUnique ==
  ASSUME NEW W, NEW seqs \in Seq(Seq(W)), NEW h, h[0] = << >>,
         \A i \in 1 .. Len(seqs) : h[i] = h[i - 1] \o seqs[i]
  PROVE  FlattenSeq(seqs) = h[Len(seqs)] /\ FlattenSeq(seqs) \in Seq(W)
<1>1. PICK f \in [0 .. Len(seqs) -> Seq(W)] :
           /\ f[0] = << >>
           /\ \A i \in 1 .. Len(seqs) : f[i] = f[i - 1] \o seqs[i]
           /\ FlattenSeq(seqs) = f[Len(seqs)]
  BY FlattenSteps
<1> DEFINE n == Len(seqs)
           T == {i \in 0 .. n : h[i] = f[i]}
<1>2. n \in Nat /\ 0 \in T
  BY <1>1
<1>3. ASSUME NEW i \in 0 .. n - 1, i \in T
      PROVE  i + 1 \in T
  <2>1. i + 1 \in 1 .. n /\ (i + 1) - 1 = i /\ i + 1 \in 0 .. n
    BY <1>2
  <2>2. h[i + 1] = h[i] \o seqs[i + 1] /\ f[i + 1] = f[i] \o seqs[i + 1]
    BY <1>1, <2>1
  <2> QED
    BY <1>3, <2>1, <2>2
<1> HIDE DEF T
<1>4. \A i \in 0 .. n : i \in T
  BY <1>2, <1>3, IntervalInduction
<1>5. n \in 0 .. n /\ h[n] = f[n]
  BY <1>2, <1>4 DEF T
<1> QED
  BY <1>1, <1>5

(* One more sequence at the end. *)
LEMMA FlattenAppend ==
  ASSUME NEW W, NEW seqs \in Seq(Seq(W)), NEW s \in Seq(W)
  PROVE  /\ FlattenSeq(Append(seqs, s)) = FlattenSeq(seqs) \o s
         /\ FlattenSeq(seqs) \in Seq(W)
<1>1. PICK h \in [0 .. Len(seqs) -> Seq(W)] :
           /\ h[0] = << >>
           /\ \A i \in 1 .. Len(seqs) : h[i] = h[i - 1] \o seqs[i]
           /\ FlattenSeq(seqs) = h[Len(seqs)]
  BY FlattenSteps
<1> DEFINE n == Len(seqs)
           more == Append(seqs, s)
           g == [i \in 0 .. n + 1 |-> IF i = n + 1 THEN h[n] \o s ELSE h[i]]
<1>2. /\ n \in Nat /\ Len(more) = n + 1 /\ more \in Seq(Seq(W))
      /\ \A i \in 1 .. n : more[i] = seqs[i]
      /\ more[n + 1] = s
  OBVIOUS
<1>3. /\ g[0] = << >> /\ g[n + 1] = h[n] \o s
      /\ \A i \in 0 .. n : g[i] = h[i]
  BY <1>1, <1>2
<1>4. ASSUME NEW i \in 1 .. n + 1
      PROVE  g[i] = g[i - 1] \o more[i]
  <2>1. CASE i = n + 1
    <3>1. n \in 0 .. n /\ i - 1 = n
      BY <1>2, <2>1
    <3> HIDE DEF g, more
    <3> QED
      BY <1>2, <1>3, <2>1, <3>1
  <2>2. CASE i # n + 1
    <3>1. i \in 1 .. n /\ i \in 0 .. n /\ i - 1 \in 0 .. n
      BY <1>2, <2>2
    <3> QED
      BY <1>1, <1>2, <1>3, <3>1
  <2> QED
    BY <2>1, <2>2
<1> HIDE DEF g, more
<1>5. FlattenSeq(more) = g[n + 1]
  <2>1. \A i \in 1 .. Len(more) : g[i] = g[i - 1] \o more[i]
    BY <1>2, <1>4
  <2> QED
    BY <1>2, <1>3, <2>1, FlattenUnique
<1>6. h[n] \in Seq(W)
  BY <1>1, <1>2, n \in 0 .. n
<1> QED
  BY <1>1, <1>3, <1>5, <1>6 DEF more

-----------------------------------------------------------------------------
(* Folding from the right: what FoldLeft iterates, seen in a mirror. *)
LEMMA MinOf ==
  ASSUME NEW n \in Nat, NEW s \in SUBSET (1 .. n), s # {}
  PROVE  Min(s) \in s /\ \A i \in s : Min(s) <= i
<1>1. s \in SUBSET Nat
  OBVIOUS
<1>2. \E i \in s : \A j \in s : i <= j
  BY <1>1, Least
<1> QED
  BY <1>2 DEF Min

RightIterates(f, n, base, g) ==
  \A s \in SUBSET (1 .. n) :
    f[s] = IF s = {} THEN base ELSE g[f[s \ {Min(s)}], Min(s)]

LEMMA RightFoldExists ==
  ASSUME NEW n \in Nat, NEW S, NEW base \in S, NEW g \in [S \X (1 .. n) -> S]
  PROVE  \E f \in [SUBSET (1 .. n) -> S] : RightIterates(f, n, base, g)
<1> DEFINE m(s) == {n + 1 - i : i \in s}
           k == [p \in S \X (1 .. n) |-> g[p[1], n + 1 - p[2]]]
<1>1. \A i \in 1 .. n : n + 1 - i \in 1 .. n /\ n + 1 - (n + 1 - i) = i
  OBVIOUS
<1>2. ASSUME NEW x \in S, NEW i \in 1 .. n
      PROVE  k[x, i] = g[x, n + 1 - i] /\ k[x, i] \in S
  <2>1. << x, i >> \in S \X (1 .. n) /\ << x, n + 1 - i >> \in S \X (1 .. n)
    BY <1>1
  <2>2. k[x, i] = g[x, n + 1 - i]
    BY <2>1
  <2> QED
    BY <2>1, <2>2
<1>3. k \in [S \X (1 .. n) -> S]
  <2>1. ASSUME NEW p \in S \X (1 .. n)
        PROVE  g[p[1], n + 1 - p[2]] \in S
    <3>1. << p[1], n + 1 - p[2] >> \in S \X (1 .. n)
      BY <1>1
    <3> QED
      BY <3>1
  <2> QED
    BY <2>1
<1>4. PICK f \in [SUBSET (1 .. n) -> S] : Iterates(f, n, base, k)
  <2> HIDE DEF k
  <2> QED
    BY <1>3, LeftFoldExists
<1> DEFINE h == [s \in SUBSET (1 .. n) |-> f[m(s)]]
<1>5. \A s \in SUBSET (1 .. n) : m(s) \in SUBSET (1 .. n)
  BY <1>1
<1>6. h \in [SUBSET (1 .. n) -> S]
  <2> HIDE DEF m
  <2> QED
    BY <1>5
<1>7. ASSUME NEW s \in SUBSET (1 .. n), s # {}
      PROVE  h[s] = g[h[s \ {Min(s)}], Min(s)]
  <2>1. PICK a : a = Min(s)
    OBVIOUS
  <2>2. a \in s /\ a \in 1 .. n /\ \A i \in s : a <= i
    BY <1>7, <2>1, MinOf
  <2>3. m(s) # {} /\ m(s) \in SUBSET (1 .. n)
    BY <1>5, <2>2
  <2>4. PICK b : b = Max(m(s))
    OBVIOUS
  <2>5. b \in m(s) /\ \A i \in m(s) : i <= b
    <3> HIDE DEF m
    <3> QED
      BY <2>3, <2>4, MaxOf
  <2>6. b = n + 1 - a /\ b \in 1 .. n /\ n + 1 - b = a
    <3>1. n + 1 - a \in m(s)
      BY <2>2
    <3>2. n + 1 - a <= b
      BY <2>5, <3>1
    <3>3. PICK i \in s : b = n + 1 - i
      BY <2>5
    <3>4. a <= i /\ i \in 1 .. n
      BY <2>2
    <3> QED
      BY <2>2, <3>2, <3>3, <3>4
  <2>7. m(s) \ {b} = m(s \ {a})
    <3>1. \A i \in s : n + 1 - i = b <=> i = a
      BY <2>2, <2>6
    <3> QED
      BY <3>1
  <2>8. f[m(s)] = k[f[m(s) \ {b}], b]
    <3> HIDE DEF m, k
    <3> QED
      BY <1>4, <2>3, <2>4 DEF Iterates
  <2>9. m(s \ {a}) \in SUBSET (1 .. n) /\ s \ {a} \in SUBSET (1 .. n)
    <3> HIDE DEF m
    <3> QED
      BY <1>5
  <2>10. f[m(s \ {a})] \in S
    <3> HIDE DEF m
    <3> QED
      BY <2>9
  <2>11. k[f[m(s \ {a})], b] = g[f[m(s \ {a})], a]
    <3> HIDE DEF m, k
    <3> QED
      BY <1>2, <2>6, <2>10
  <2>12. h[s] = f[m(s)] /\ h[s \ {a}] = f[m(s \ {a})]
    <3> HIDE DEF m
    <3> QED
      BY <2>9
  <2> HIDE DEF h, k, m
  <2> QED
    BY <2>1, <2>7, <2>8, <2>11, <2>12
<1>8. h[{}] = base
  <2>1. m({}) = {} /\ {} \in SUBSET (1 .. n)
    OBVIOUS
  <2>2. f[{}] = base
    <3> HIDE DEF k
    <3> QED
      BY <1>4, <2>1 DEF Iterates
  <2> HIDE DEF m
  <2> QED
    BY <2>1, <2>2
<1> HIDE DEF h
<1> QED
  BY <1>6, <1>7, <1>8 DEF RightIterates

(* ... and steps through the sequence from its end. *)
LEMMA SuffixSteps ==
  ASSUME NEW n \in Nat
  PROVE  /\ n + 1 .. n = {}
         /\ \A i \in 1 .. n : /\ Min(i .. n) = i
                              /\ (i .. n) \ {i} = i + 1 .. n
                              /\ i .. n # {}
                              /\ i .. n \in SUBSET (1 .. n)
                              /\ i + 1 .. n \in SUBSET (1 .. n)
<1>1. ASSUME NEW i \in 1 .. n
      PROVE  Min(i .. n) = i
  <2>1. i .. n \in SUBSET (1 .. n) /\ i .. n # {} /\ i \in i .. n
    OBVIOUS
  <2>2. Min(i .. n) \in i .. n /\ \A j \in i .. n : Min(i .. n) <= j
    BY <2>1, MinOf
  <2>3. Min(i .. n) <= i
    BY <2>1, <2>2
  <2> QED
    BY <2>2, <2>3
<1> QED
  BY <1>1

-----------------------------------------------------------------------------
(* The bitmap. *)
LEMMA NoBitmapType == NoBitmap \in Bitmap
BY EmptySeq DEF NoBitmap, Bitmap

LEMMA BitmapTypes ==
  ASSUME NEW bitmap \in Bitmap, NEW n \in Nat
  PROVE  /\ MarkNull(bitmap, n) \in Bitmap
         /\ MarkValid(bitmap) \in Bitmap
<1>1. bitmap.bits \in Seq(Bit) /\ bitmap.data \in BOOLEAN
  BY DEF Bitmap
<1>2. Append(bitmap.bits, 0) \in Seq(Bit) /\ Append(bitmap.bits, 1) \in Seq(Bit)
  BY <1>1 DEF Bit
<1>3. [i \in 1 .. n |-> IF i = n THEN 0 ELSE 1] \in Seq(Bit)
  BY DEF Bit
<1> QED
  BY <1>1, <1>2, <1>3 DEF MarkNull, MarkValid, AppendBit, Bitmap

(* A bitmap without bits has no nulls. *)
LEMMA NoBitsNoNulls ==
  ASSUME NEW bitmap, bitmap.bits = << >>
  PROVE  NullCount(bitmap) = 0
<1>1. ZeroBits(<< >>) = {}
  BY DEF ZeroBits
<1> QED
  BY <1>1, FS_EmptySet DEF NullCount

-----------------------------------------------------------------------------
(* Counting the nulls of a bitmap as bits are appended to it. *)
LEMMA ZeroBitsFinite ==
  ASSUME NEW bits \in Seq(Bit)
  PROVE  IsFiniteSet(ZeroBits(bits))
<1>1. ZeroBits(bits) \in SUBSET (1 .. Len(bits)) /\ Len(bits) \in Int
  BY DEF ZeroBits
<1>2. IsFiniteSet(1 .. Len(bits))
  BY <1>1, FS_Interval
<1> QED
  BY <1>1, <1>2, FS_Subset

LEMMA AppendedZeroBits ==
  ASSUME NEW bits \in Seq(Bit)
  PROVE  /\ ZeroBits(Append(bits, 1)) = ZeroBits(bits)
         /\ Cardinality(ZeroBits(Append(bits, 0)))
              = Cardinality(ZeroBits(bits)) + 1
<1>1. ASSUME NEW b \in Bit
      PROVE  /\ DOMAIN Append(bits, b) = 1 .. Len(bits) + 1
             /\ DOMAIN bits = 1 .. Len(bits)
             /\ Len(bits) \in Nat
             /\ \A i \in 1 .. Len(bits) : Append(bits, b)[i] = bits[i]
             /\ Append(bits, b)[Len(bits) + 1] = b
  OBVIOUS
<1>2. 0 \in Bit /\ 1 \in Bit
  BY DEF Bit
<1>3. ZeroBits(Append(bits, 1)) = ZeroBits(bits)
  BY <1>1, <1>2 DEF ZeroBits
<1>4. /\ ZeroBits(Append(bits, 0)) = ZeroBits(bits) \cup {Len(bits) + 1}
      /\ Len(bits) + 1 \notin ZeroBits(bits)
  BY <1>1, <1>2 DEF ZeroBits
<1>5. IsFiniteSet(ZeroBits(bits))
  BY ZeroBitsFinite
<1>6. Cardinality(ZeroBits(bits) \cup {Len(bits) + 1})
        = Cardinality(ZeroBits(bits)) + 1
  BY <1>4, <1>5, FS_AddElement
<1> QED
  BY <1>3, <1>4, <1>6

(* A null adds one to the null count, a valid feature adds nothing; a      *)
(* bitmap that exists grows by one bit, and one that is created by the     *)
(* n-th feature of the batch starts with n.                                *)
LEMMA MarkNullCounts ==
  ASSUME NEW bitmap \in Bitmap, NEW n \in Nat \ {0},
         ~bitmap.data => bitmap.bits = << >>
  PROVE  /\ MarkNull(bitmap, n).data
         /\ NullCount(MarkNull(bitmap, n)) = NullCount(bitmap) + 1
         /\ Len(MarkNull(bitmap, n).bits)
              = IF bitmap.data THEN Len(bitmap.bits) + 1 ELSE n
<1>1. bitmap.bits \in Seq(Bit) /\ bitmap.data \in BOOLEAN
  BY DEF Bitmap
<1>2. CASE bitmap.data
  <2>1. MarkNull(bitmap, n) = [data |-> TRUE, bits |-> Append(bitmap.bits, 0)]
    BY <1>2 DEF MarkNull, AppendBit
  <2>2. /\ MarkNull(bitmap, n).data
        /\ MarkNull(bitmap, n).bits = Append(bitmap.bits, 0)
    BY <2>1
  <2>3. Len(Append(bitmap.bits, 0)) = Len(bitmap.bits) + 1
    BY <1>1
  <2> QED
    BY <1>1, <1>2, <2>2, <2>3, AppendedZeroBits DEF NullCount
<1>3. CASE ~bitmap.data
  <2> DEFINE bits == [i \in 1 .. n |-> IF i = n THEN 0 ELSE 1]
  <2>1. MarkNull(bitmap, n) = [data |-> TRUE, bits |-> bits]
    BY <1>3 DEF MarkNull
  <2>2. bits \in Seq(Bit) /\ Len(bits) = n
    BY DEF Bit
  <2>3. ZeroBits(bits) = {n}
    BY DEF ZeroBits
  <2>4. Cardinality(ZeroBits(bits)) = 1
    BY <2>3, FS_Singleton
  <2>5. Cardinality(ZeroBits(bitmap.bits)) = 0
    <3>1. ZeroBits(bitmap.bits) = {}
      BY <1>3 DEF ZeroBits
    <3> QED
      BY <3>1, FS_EmptySet
  <2> HIDE DEF bits
  <2> QED
    BY <1>3, <2>1, <2>2, <2>4, <2>5 DEF NullCount
<1> QED
  BY <1>1, <1>2, <1>3

LEMMA MarkValidCounts ==
  ASSUME NEW bitmap \in Bitmap
  PROVE  /\ MarkValid(bitmap).data = bitmap.data
         /\ NullCount(MarkValid(bitmap)) = NullCount(bitmap)
         /\ ~bitmap.data => MarkValid(bitmap) = bitmap
         /\ bitmap.data => Len(MarkValid(bitmap).bits) = Len(bitmap.bits) + 1
<1>1. bitmap.bits \in Seq(Bit) /\ bitmap.data \in BOOLEAN
  BY DEF Bitmap
<1>2. CASE bitmap.data
  <2>1. MarkValid(bitmap) = [data |-> TRUE, bits |-> Append(bitmap.bits, 1)]
    BY <1>2 DEF MarkValid, AppendBit
  <2>2. Len(Append(bitmap.bits, 1)) = Len(bitmap.bits) + 1
    BY <1>1
  <2> QED
    BY <1>1, <1>2, <2>1, <2>2, AppendedZeroBits DEF NullCount
<1>3. CASE ~bitmap.data
  BY <1>3 DEF MarkValid
<1> QED
  BY <1>1, <1>2, <1>3

(* A bit more leaves the earlier rows valid or null as they were. *)
LEMMA ValidityKept ==
  ASSUME NEW bitmap \in Bitmap, NEW n \in Nat \ {0},
         ~bitmap.data => bitmap.bits = << >>,
         bitmap.data => Len(bitmap.bits) = n - 1,
         NEW i \in 1 .. n - 1
  PROVE  /\ IsValid(MarkNull(bitmap, n), i) = IsValid(bitmap, i)
         /\ IsValid(MarkValid(bitmap), i) = IsValid(bitmap, i)
<1>1. bitmap.bits \in Seq(Bit) /\ bitmap.data \in BOOLEAN
  BY DEF Bitmap
<1>2. CASE bitmap.data
  <2>1. /\ i \in 1 .. Len(bitmap.bits) /\ bitmap.bits # << >>
    BY <1>2, EmptySeq
  <2>2. ASSUME NEW b \in Bit
        PROVE  IsValid(AppendBit(bitmap, b), i) = IsValid(bitmap, i)
    <3>1. /\ AppendBit(bitmap, b).bits = Append(bitmap.bits, b)
          /\ Append(bitmap.bits, b)[i] = bitmap.bits[i]
          /\ Len(Append(bitmap.bits, b)) = Len(bitmap.bits) + 1
      BY <1>1, <2>1 DEF AppendBit
    <3>2. Append(bitmap.bits, b) # << >>
      BY <1>1, <3>1, EmptySeq
    <3> QED
      BY <2>1, <3>1, <3>2 DEF IsValid
  <2>3. 0 \in Bit /\ 1 \in Bit
    BY DEF Bit
  <2> QED
    BY <1>2, <2>2, <2>3 DEF MarkNull, MarkValid
<1>3. CASE ~bitmap.data
  <2> DEFINE bits == [k \in 1 .. n |-> IF k = n THEN 0 ELSE 1]
  <2>1. MarkNull(bitmap, n).bits = bits /\ bits[i] = 1 /\ MarkValid(bitmap) = bitmap
    BY <1>3 DEF MarkNull, MarkValid
  <2> HIDE DEF bits
  <2> QED
    BY <1>3, <2>1 DEF IsValid
<1> QED
  BY <1>2, <1>3
=============================================================================
