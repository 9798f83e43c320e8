--------------------------- MODULE WKBRowsProofs ---------------------------
(***************************************************************************)
(* Proofs about what the rows of the well-known binary writer hold, and    *)
(* about the batches in which features are appended whole.                 *)
(***************************************************************************)
EXTENDS WKBAppend, WKBWriterProofs, FiniteSetTheorems

(* A node of a geometry, in terms of what a visitor is told. *)
LEMMA GeometryNodes ==
  ASSUME NEW ns \in Seq(NodeSet)
  PROVE  /\ DOMAIN GeometryOf(ns) = 1 .. Len(ns)
         /\ \A i \in 1 .. Len(ns) :
              LET node == GeometryOf(ns)[i]
              IN /\ node.size \in Nat
                 /\ node.size = IF HoldsCoords(ns[i].type) THEN Len(ns[i].xs)
                                ELSE Cardinality(Parts(ns, i))
                 /\ node.type = IF ns[i].type = RING THEN LINESTRING ELSE ns[i].type
                 /\ node.dims = ns[i].dims /\ node.xs = ns[i].xs
                 /\ ns[i].type \in RING .. GEOMETRYCOLLECTION
                 /\ ns[i].xs \in Seq(Nat) /\ Len(ns[i].xs) \in Nat
                 /\ ns[i].dims \in 1 .. 4
<1>1. ASSUME NEW i \in 1 .. Len(ns)
      PROVE  /\ ns[i].type \in RING .. GEOMETRYCOLLECTION
             /\ ns[i].xs \in Seq(Nat) /\ Len(ns[i].xs) \in Nat
             /\ ns[i].dims \in 1 .. 4
             /\ Cardinality(Parts(ns, i)) \in Nat
  <2>1. ns[i] \in NodeSet
    OBVIOUS
  <2>2. Cardinality(Parts(ns, i)) \in Nat
    BY PartsCount
  <2> QED
    BY <2>1, <2>2 DEF NodeSet
<1> QED
  BY <1>1 DEF GeometryOf, GeometryNode

(* GeoArrowGeometryView by GeoArrowGeometryView, AppendBuffer goes from one *)
(* node to the next.                                                       *)
LEMMA AppendSteps ==
  ASSUME NEW ns \in Seq(NodeSet), NEW S, values \in Seq(S)
  PROVE  \E h : /\ h[0] = [values |-> values, rings |-> 0]
                /\ \A i \in 1 .. Len(ns) :
                     h[i] = AppendNode(h[i - 1], GeometryOf(ns)[i])
                /\ AppendBuffer(GeometryOf(ns)) = h[Len(ns)].values
<1> DEFINE n    == Len(ns)
           geom == GeometryOf(ns)
           base == [values |-> values, rings |-> 0]
           own(i) == {CoordWord(geom[i].xs[k], geom[i].dims) : k \in 1 .. geom[i].size}
           W    == S \cup Word \cup UNION {own(i) : i \in 1 .. n}
           Acc  == [values : Seq(W), rings : Int]
           g    == [p \in Acc \X (1 .. n) |-> AppendNode(p[1], geom[p[2]])]
<1>1. n \in Nat /\ DOMAIN geom = 1 .. n /\ \A i \in 1 .. n : geom[i].size \in Nat
  BY GeometryNodes
<1>2. base \in Acc
  <2>1. S \subseteq W
    OBVIOUS
  <2> HIDE DEF W
  <2>2. values \in Seq(W)
    BY <2>1
  <2> QED
    BY <2>2
<1>3. ASSUME NEW acc \in Acc, NEW i \in 1 .. n
      PROVE  AppendNode(acc, geom[i]) \in Acc
  <2> DEFINE node == geom[i]
             head == << HeadWord(node.type, node.dims) >>
             count == << CountWord(node.size) >>
  <2>1. /\ node.size \in Nat /\ node.type \in Int /\ node.dims \in Int
        /\ Word \subseteq W /\ own(i) \subseteq W
    <3>1. /\ node.size \in Nat
          /\ node.type = IF ns[i].type = RING THEN LINESTRING ELSE ns[i].type
          /\ ns[i].type \in RING .. GEOMETRYCOLLECTION
          /\ node.dims = ns[i].dims /\ ns[i].dims \in 1 .. 4
      BY GeometryNodes
    <3>2. Word \subseteq W /\ own(i) \subseteq W
      <4> HIDE DEF own, node
      <4> QED
        OBVIOUS
    <3> HIDE DEF node, W, own
    <3> QED
      BY <3>1, <3>2 DEF RING, GEOMETRYCOLLECTION, LINESTRING
  <2>2. HeadWord(node.type, node.dims) \in Word /\ CountWord(node.size) \in Word
        /\ EmptyPoint(node.dims) \in Word
    <3>1. node.dims \in Int /\ node.type \in Int /\ node.size \in Nat
      BY <2>1
    <3> HIDE DEF node
    <3> QED
      BY <3>1, WordTypes, CountWordType
  <2>3. \A k \in 1 .. node.size : CoordWord(node.xs[k], node.dims) \in own(i)
    OBVIOUS
  <2> HIDE DEF W, own, node
  <2>4. AppendSequence(node) \in Seq(W)
    <3>1. \A k \in 1 .. node.size : CoordWord(node.xs[k], node.dims) \in W
      BY <2>1, <2>3
    <3>2. node.size \in Nat
      BY <2>1
    <3>3. [k \in 1 .. node.size |-> CoordWord(node.xs[k], node.dims)]
            \in [1 .. node.size -> W]
      BY <3>1
    <3>4. AppendSequence(node) \in [1 .. node.size -> W]
      BY <3>3 DEF AppendSequence
    <3> DEFINE m == node.size
    <3>5. m \in Nat /\ AppendSequence(node) \in [1 .. m -> W]
      BY <3>2, <3>4
    <3> HIDE DEF m
    <3> QED
      BY <3>5
  <2>5. head \in Seq(W) /\ count \in Seq(W) /\ << EmptyPoint(node.dims) >> \in Seq(W)
    BY <2>1, <2>2
  <2>6. RemainingRings(acc.rings, node) \in Int
    BY <2>1 DEF RemainingRings
  <2>7. \E words \in Seq(W) :
          AppendNode(acc, node) = [values |-> acc.values \o words,
                                   rings |-> RemainingRings(acc.rings, node)]
    <3> DEFINE counted == count \o AppendSequence(node)
               body ==
                 CASE node.type = POINT /\ node.size = 0 -> << EmptyPoint(node.dims) >>
                   [] node.type = POINT /\ node.size > 0 -> AppendSequence(node)
                   [] node.type = LINESTRING             -> counted
                   [] OTHER                              -> count
               words == IF acc.rings > 0 THEN counted ELSE head \o body
    <3>1. words \in Seq(W)
      <4>1. counted \in Seq(W)
        <5> HIDE DEF count
        <5> QED
          BY <2>4, <2>5
      <4>2. body \in Seq(W)
        <5> HIDE DEF count, counted
        <5> QED
          BY <2>4, <2>5, <4>1
      <4>3. head \o body \in Seq(W)
        <5> HIDE DEF head, body
        <5> QED
          BY <2>5, <4>2
      <4> HIDE DEF counted, head, body
      <4> QED
        BY <4>1, <4>3
    <3>2. AppendNode(acc, node) = [values |-> acc.values \o words,
                                   rings |-> RemainingRings(acc.rings, node)]
      BY DEF AppendNode
    <3> HIDE DEF words
    <3> QED
      BY <3>1, <3>2
  <2>8. AppendNode(acc, node) \in Acc
    <3>1. PICK words \in Seq(W) :
            AppendNode(acc, node) = [values |-> acc.values \o words,
                                     rings |-> RemainingRings(acc.rings, node)]
      BY <2>7
    <3>2. acc.values \o words \in Seq(W)
      OBVIOUS
    <3> QED
      BY <2>6, <3>1, <3>2
  <2> QED
    BY <2>8 DEF node
<1>4. g \in [Acc \X (1 .. n) -> Acc]
  <2> HIDE DEF Acc, geom
  <2> QED
    BY <1>3
<1> DEFINE next(f, s) == IF s = {} THEN base ELSE AppendNode(f[s \ {Max(s)}], geom[Max(s)])
           iter == CHOOSE f : f = [s \in SUBSET (1 .. n) |-> next(f, s)]
<1>5. AppendBuffer(geom) = iter[1 .. n].values
  <2>1. AppendBuffer(geom) =
          (LET f[s \in SUBSET DOMAIN geom] == next(f, s)
           IN f[DOMAIN geom]).values
    BY DEF AppendBuffer, FoldLeft, MapThenFoldSet
  <2> QED
    BY <1>1, <2>1
<1>6. \E f : f = [s \in SUBSET (1 .. n) |-> next(f, s)]
  <2>1. PICK f \in [SUBSET (1 .. n) -> Acc] : Iterates(f, n, base, g)
    <3> HIDE DEF Acc, base, g, n, geom
    <3>1. n \in Nat /\ base \in Acc /\ g \in [Acc \X (1 .. n) -> Acc]
      BY <1>1, <1>2, <1>4
    <3> QED
      BY <3>1, LeftFoldExists, ZenonT(40)
  <2>2. ASSUME NEW s \in SUBSET (1 .. n)
        PROVE  f[s] = next(f, s)
    <3>1. CASE s # {}
      <4>1. Max(s) \in 1 .. n /\ s \ {Max(s)} \in SUBSET (1 .. n)
        BY <1>1, <3>1, MaxOf
      <4>2. << f[s \ {Max(s)}], Max(s) >> \in Acc \X (1 .. n)
        <5> HIDE DEF Acc
        <5> QED
          BY <4>1
      <4>3. g[f[s \ {Max(s)}], Max(s)] = AppendNode(f[s \ {Max(s)}], geom[Max(s)])
        <5> HIDE DEF Acc, geom
        <5> QED
          BY <4>2
      <4> HIDE DEF g, base, geom
      <4> QED
        BY <2>1, <3>1, <4>3 DEF Iterates
    <3>2. CASE s = {}
      <4> HIDE DEF g, base
      <4> QED
        BY <2>1, <3>2 DEF Iterates
    <3> QED
      BY <3>1, <3>2
  <2> HIDE DEF next
  <2>3. f = [s \in SUBSET (1 .. n) |-> next(f, s)]
    BY <2>1, <2>2
  <2> QED
    BY <2>3
<1>7. \A s \in SUBSET (1 .. n) : iter[s] = next(iter, s)
  <2> HIDE DEF next
  <2>1. iter = [s \in SUBSET (1 .. n) |-> next(iter, s)]
    BY <1>6
  <2> HIDE DEF iter
  <2> QED
    BY <2>1
<1> HIDE DEF iter
<1> DEFINE h == [i \in 0 .. n |-> iter[1 .. i]]
<1>8. h[0] = base /\ h[n] = iter[1 .. n]
  <2>1. 1 .. 0 = {} /\ {} \in SUBSET (1 .. n) /\ 0 \in 0 .. n /\ n \in 0 .. n
    BY <1>1
  <2>2. iter[{}] = base
    BY <1>7, <2>1
  <2> QED
    BY <2>1, <2>2
<1>9. ASSUME NEW i \in 1 .. n
      PROVE  h[i] = AppendNode(h[i - 1], geom[i])
  <2>1. /\ Max(1 .. i) = i /\ (1 .. i) \ {i} = 1 .. i - 1 /\ 1 .. i # {}
        /\ 1 .. i \in SUBSET (1 .. n)
    BY <1>1, PrefixSteps
  <2>2. iter[1 .. i] = AppendNode(iter[1 .. i - 1], geom[i])
    <3> HIDE DEF geom, base
    <3> QED
      BY <1>7, <2>1
  <2>3. i \in 0 .. n /\ i - 1 \in 0 .. n
    BY <1>1
  <2> HIDE DEF geom
  <2> QED
    BY <2>2, <2>3
<1> HIDE DEF h, geom
<1>10. /\ h[0] = [values |-> values, rings |-> 0]
       /\ \A i \in 1 .. Len(ns) : h[i] = AppendNode(h[i - 1], geom[i])
       /\ AppendBuffer(geom) = h[Len(ns)].values
  BY <1>5, <1>8, <1>9
<1> QED
  BY <1>10 DEF geom
-----------------------------------------------------------------------------
LEMMA NodeWordsType ==
  ASSUME NEW ns \in Seq(NodeSet), NEW i \in 1 .. Len(ns)
  PROVE  NodeWords(ns, i) \in Seq(Word)
<1> DEFINE node == ns[i]
           head == << HeadWord(node.type, node.dims) >>
           counted == << CountWord(Len(node.xs)) >> \o Sequence(node)
<1>1. /\ node.type \in RING .. GEOMETRYCOLLECTION /\ node.dims \in 1 .. 4
      /\ node.xs \in Seq(Nat) /\ Len(node.xs) \in Nat
  BY GeometryNodes
<1>2. Cardinality(Parts(ns, i)) \in Nat
  BY PartsCount
<1> HIDE DEF node
<1>3. node.type \in Int /\ node.dims \in Int
  BY <1>1 DEF RING, GEOMETRYCOLLECTION
<1>4. /\ HeadWord(node.type, node.dims) \in Word
      /\ CountWord(Len(node.xs)) \in Word
      /\ CountWord(Cardinality(Parts(ns, i))) \in Word
      /\ CoordWord(NaN, node.dims) \in Word
      /\ \A n \in Nat : CoordWord(n, node.dims) \in Word
  BY <1>1, <1>2, <1>3, WordTypes, CountWordType DEF NaN
<1>5. Sequence(node) \in Seq(Word)
  <2> DEFINE xs == node.xs
             word(n) == CoordWord(n, node.dims)
  <2>1. xs \in Seq(Nat) /\ \A n \in Nat : word(n) \in Word
    BY <1>1, <1>4
  <2> HIDE DEF xs, word
  <2>2. [k \in DOMAIN xs |-> word(xs[k])] \in Seq(Word)
    BY <2>1
  <2> QED
    BY <2>2 DEF Sequence, xs, word
<1>6. /\ head \in Seq(Word) /\ << CountWord(Len(node.xs)) >> \in Seq(Word)
      /\ << CountWord(Cardinality(Parts(ns, i))) >> \in Seq(Word)
      /\ << CoordWord(NaN, node.dims) >> \in Seq(Word)
  BY <1>4
<1>7. counted \in Seq(Word)
  BY <1>5, <1>6
<1> HIDE DEF head, counted
<1>8. /\ head \o counted \in Seq(Word)
      /\ head \o << CountWord(Cardinality(Parts(ns, i))) >> \in Seq(Word)
      /\ head \o << CoordWord(NaN, node.dims) >> \in Seq(Word)
      /\ head \o Sequence(node) \in Seq(Word)
  BY <1>5, <1>6, <1>7
<1> QED
  BY <1>7, <1>8 DEF NodeWords, head, counted, node

LEMMA EncodingSteps ==
  ASSUME NEW ns \in Seq(NodeSet)
  PROVE  \E f \in [0 .. Len(ns) -> Seq(Word)] :
           /\ f[0] = << >>
           /\ \A i \in 1 .. Len(ns) : f[i] = f[i - 1] \o NodeWords(ns, i)
           /\ Encoding(ns) = f[Len(ns)]
<1> DEFINE seqs == [i \in DOMAIN ns |-> NodeWords(ns, i)]
<1>1. seqs \in Seq(Seq(Word)) /\ Len(seqs) = Len(ns)
      /\ \A i \in 1 .. Len(ns) : seqs[i] = NodeWords(ns, i)
  <2>1. \A i \in 1 .. Len(ns) : NodeWords(ns, i) \in Seq(Word)
    BY NodeWordsType
  <2>2. DOMAIN ns = 1 .. Len(ns) /\ Len(ns) \in Nat
    OBVIOUS
  <2> QED
    BY <2>1, <2>2
<1>2. Encoding(ns) = FlattenSeq(seqs)
  BY DEF Encoding
<1> HIDE DEF seqs
<1>3. PICK f \in [0 .. Len(seqs) -> Seq(Word)] :
           /\ f[0] = << >>
           /\ \A i \in 1 .. Len(seqs) : f[i] = f[i - 1] \o seqs[i]
           /\ FlattenSeq(seqs) = f[Len(seqs)]
  BY <1>1, FlattenSteps
<1> QED
  BY <1>1, <1>2, <1>3

(* How many rings of the last polygon are still to come after node i. *)
RingsLeft(ns, i, r) ==
  LET End(p) == p + Cardinality(Parts(ns, p))
  IN /\ r \in Nat
     /\ r > 0 => \E p \in 1 .. i : ns[p].type = POLYGON /\ End(p) = i + r
     /\ r = 0 => \A p \in 1 .. i : ns[p].type = POLYGON => End(p) <= i

LEMMA RingsTracked ==
  ASSUME NEW ns \in Seq(NodeSet), RingsFollow(ns),
         NEW i \in 0 .. Len(ns) - 1, NEW r, RingsLeft(ns, i, r)
  PROVE  /\ r > 0 <=> ns[i + 1].type = RING
         /\ RingsLeft(ns, i + 1, RemainingRings(r, GeometryOf(ns)[i + 1]))
<1> DEFINE n == Len(ns)
           Size(p) == Cardinality(Parts(ns, p))
           Polygon(p) == ns[p].type = POLYGON
<1>1. n \in Nat /\ \A p \in 1 .. n : Size(p) \in Nat
  BY PartsCount
<1>2. \A k \in 1 .. n :
        ns[k].type = RING <=> \E p \in 1 .. n : Polygon(p) /\ k \in p + 1 .. p + Size(p)
  BY DEF RingsFollow
<1>3. \A k \in 1 .. n : ~(Polygon(k) /\ ns[k].type = RING)
  BY DEF POLYGON, RING
<1>4. /\ r \in Nat /\ i \in Int /\ i + 1 \in 1 .. n /\ 1 .. i \subseteq 1 .. n
      /\ r > 0 => \E p \in 1 .. i : Polygon(p) /\ p + Size(p) = i + r
      /\ r = 0 => \A p \in 1 .. i : Polygon(p) => p + Size(p) <= i
  BY <1>1 DEF RingsLeft
<1> DEFINE next == RemainingRings(r, GeometryOf(ns)[i + 1])
<1>5. /\ r > 0 => next = r - 1
      /\ r = 0 /\ Polygon(i + 1) => next = Size(i + 1)
      /\ r = 0 /\ ~Polygon(i + 1) => next = 0
  <2>1. /\ GeometryOf(ns)[i + 1].size = IF HoldsCoords(ns[i + 1].type)
                                        THEN Len(ns[i + 1].xs) ELSE Size(i + 1)
        /\ GeometryOf(ns)[i + 1].type = IF ns[i + 1].type = RING THEN LINESTRING
                                        ELSE ns[i + 1].type
    BY <1>4, GeometryNodes
  <2>2. Polygon(i + 1) <=> GeometryOf(ns)[i + 1].type = POLYGON
    BY <2>1 DEF POLYGON, LINESTRING, RING
  <2>3. Polygon(i + 1) => GeometryOf(ns)[i + 1].size = Size(i + 1)
    BY <2>1 DEF HoldsCoords, POLYGON, POINT, LINESTRING, RING
  <2> HIDE DEF Polygon, Size
  <2> QED
    BY <1>4, <2>2, <2>3 DEF RemainingRings
<1> HIDE DEF next, Polygon, Size, n
<1>6. CASE r > 0
  <2>1. PICK p \in 1 .. i : Polygon(p) /\ p + Size(p) = i + r
    BY <1>4, <1>6
  <2>2. p \in 1 .. n /\ p \in Int /\ Size(p) \in Nat
    BY <1>1, <1>4
  <2>3. i + 1 \in p + 1 .. p + Size(p)
    BY <1>4, <1>6, <2>1, <2>2
  <2>4. ns[i + 1].type = RING
    BY <1>2, <1>4, <2>1, <2>2, <2>3
  <2>5. next = r - 1 /\ next \in Nat
    BY <1>4, <1>5, <1>6
  <2>6. p \in 1 .. i + 1 /\ Polygon(p) /\ p + Size(p) = (i + 1) + next
    BY <1>4, <2>1, <2>2, <2>5
  <2>7. ASSUME next = 0, NEW q \in 1 .. i + 1, Polygon(q)
        PROVE  q + Size(q) <= i + 1
    <3>1. q \in 1 .. n /\ q \in Int /\ Size(q) \in Nat
      BY <1>1, <1>4
    <3>2. q # i + 1
      BY <1>3, <1>4, <2>4, <2>7
    <3>3. SUFFICES ASSUME q + Size(q) > i + 1
                   PROVE  FALSE
      BY <1>4, <3>1
    <3>4. p + Size(p) = i + 1
      BY <1>4, <2>6, <2>7
    <3>5. CASE q < p
      <4>1. p \in q + 1 .. q + Size(q)
        BY <1>4, <2>2, <3>1, <3>3, <3>5
      <4>2. ns[p].type = RING
        BY <1>2, <2>2, <2>7, <3>1, <4>1
      <4> QED
        BY <1>3, <2>1, <2>2, <4>2
    <3>6. CASE p < q
      <4>1. q \in p + 1 .. p + Size(p)
        BY <1>4, <2>2, <3>1, <3>2, <3>4, <3>6
      <4>2. ns[q].type = RING
        BY <1>2, <2>1, <2>2, <3>1, <4>1
      <4> QED
        BY <1>3, <2>7, <3>1, <4>2
    <3>7. CASE p = q
      BY <1>4, <2>2, <3>1, <3>3, <3>4, <3>7
    <3> QED
      BY <2>2, <3>1, <3>5, <3>6, <3>7
  <2> QED
    BY <1>6, <2>4, <2>5, <2>6, <2>7 DEF RingsLeft, next, Polygon, Size
<1>7. CASE r = 0
  <2>1. ns[i + 1].type # RING
    <3>1. SUFFICES ASSUME ns[i + 1].type = RING
                   PROVE  FALSE
      OBVIOUS
    <3>2. PICK p \in 1 .. n : Polygon(p) /\ i + 1 \in p + 1 .. p + Size(p)
      BY <1>2, <1>4, <3>1
    <3>3. p \in Int /\ Size(p) \in Nat
      BY <1>1
    <3>4. p \in 1 .. i /\ p + Size(p) > i
      BY <1>4, <3>2, <3>3
    <3> QED
      BY <1>4, <1>7, <3>2, <3>3, <3>4
  <2>2. next \in Nat
    BY <1>1, <1>4, <1>5, <1>7
  <2>3. next > 0 => Polygon(i + 1) /\ (i + 1) + Size(i + 1) = (i + 1) + next
                    /\ i + 1 \in 1 .. i + 1
    BY <1>4, <1>5, <1>7
  <2>4. ASSUME next = 0, NEW p \in 1 .. i + 1, Polygon(p)
        PROVE  p + Size(p) <= i + 1
    <3>1. CASE p = i + 1
      BY <1>1, <1>4, <1>5, <1>7, <2>4, <3>1
    <3>2. CASE p # i + 1
      <4>1. p \in 1 .. i /\ p \in 1 .. n
        BY <1>4, <3>2
      <4>2. p + Size(p) <= i /\ p \in Int /\ Size(p) \in Nat
        BY <1>1, <1>4, <1>7, <2>4, <4>1
      <4> QED
        BY <1>4, <4>2
    <3> QED
      BY <3>1, <3>2
  <2> QED
    BY <1>7, <2>1, <2>2, <2>3, <2>4 DEF RingsLeft, next, Polygon, Size
<1> QED
  BY <1>4, <1>6, <1>7

(* The words of a node are those the encoding has for it. *)
LEMMA AppendedNode ==
  ASSUME NEW ns \in Seq(NodeSet), NEW i \in 1 .. Len(ns), NEW acc, acc.rings \in Nat,
         acc.rings > 0 <=> ns[i].type = RING
  PROVE  AppendNode(acc, GeometryOf(ns)[i]) =
           [values |-> acc.values \o NodeWords(ns, i),
            rings  |-> RemainingRings(acc.rings, GeometryOf(ns)[i])]
<1> DEFINE node == GeometryOf(ns)[i]
           told == ns[i]
<1>1. /\ node.size = IF HoldsCoords(told.type) THEN Len(told.xs)
                     ELSE Cardinality(Parts(ns, i))
      /\ node.type = IF told.type = RING THEN LINESTRING ELSE told.type
      /\ node.dims = told.dims /\ node.xs = told.xs
      /\ told.type \in RING .. GEOMETRYCOLLECTION
      /\ told.xs \in Seq(Nat) /\ Len(told.xs) \in Nat
  BY GeometryNodes
<1> HIDE DEF node, told
<1>2. HoldsCoords(told.type) => AppendSequence(node) = Sequence(told)
  <2>1. ASSUME HoldsCoords(told.type)
        PROVE  1 .. node.size = DOMAIN told.xs
    BY <1>1, <2>1
  <2> QED
    BY <1>1, <2>1 DEF AppendSequence, Sequence
<1>3. acc.rings > 0 <=> told.type = RING
  BY DEF told
<1>4. told.xs = << >> <=> Len(told.xs) = 0
  BY <1>1, EmptySeq
<1> DEFINE head    == << HeadWord(node.type, node.dims) >>
           counted == << CountWord(node.size) >> \o AppendSequence(node)
           body    ==
             CASE node.type = POINT /\ node.size = 0 -> << EmptyPoint(node.dims) >>
               [] node.type = POINT /\ node.size > 0 -> AppendSequence(node)
               [] node.type = LINESTRING             -> counted
               [] OTHER                              -> << CountWord(node.size) >>
           words == IF acc.rings > 0 THEN counted ELSE head \o body
<1>5. words = NodeWords(ns, i)
  <2>1. CASE told.type = RING
    <3>1. words = counted
      BY <1>3, <2>1
    <3>2. NodeWords(ns, i) = << CountWord(Len(told.xs)) >> \o Sequence(told)
      BY <2>1 DEF NodeWords, told, RING, POINT, LINESTRING
    <3>3. HoldsCoords(told.type)
      BY <2>1 DEF HoldsCoords
    <3> QED
      BY <1>1, <1>2, <3>1, <3>2, <3>3
  <2>2. CASE told.type = POINT
    <3>1. HoldsCoords(told.type) /\ told.type # RING /\ node.type = POINT
      BY <1>1, <2>2 DEF HoldsCoords, RING, POINT
    <3>2. ~(acc.rings > 0) /\ node.size = Len(told.xs)
      BY <1>1, <1>3, <3>1
    <3>3. words = head \o (IF node.size = 0 THEN << EmptyPoint(node.dims) >>
                            ELSE AppendSequence(node))
      <4>1. node.size = 0 \/ node.size > 0
        BY <1>1, <3>2
      <4>2. body = IF node.size = 0 THEN << EmptyPoint(node.dims) >>
                   ELSE AppendSequence(node)
        <5> HIDE DEF counted
        <5> QED
          BY <3>1, <4>1 DEF POINT, LINESTRING
      <4> HIDE DEF body, head, counted
      <4> QED
        BY <3>2, <4>2
    <3>4. NodeWords(ns, i) = << HeadWord(told.type, told.dims) >>
            \o (IF told.xs = << >> THEN << CoordWord(NaN, told.dims) >> ELSE Sequence(told))
      BY <2>2, <3>1 DEF NodeWords, told, RING, POINT, LINESTRING
    <3> QED
      BY <1>1, <1>2, <1>4, <2>2, <3>1, <3>2, <3>3, <3>4 DEF EmptyPoint
  <2>3. CASE told.type = LINESTRING
    <3>1. HoldsCoords(told.type) /\ told.type # RING /\ node.type = LINESTRING
          /\ node.type # POINT /\ told.type # POINT
      BY <1>1, <2>3 DEF HoldsCoords, RING, POINT, LINESTRING
    <3>2. ~(acc.rings > 0) /\ node.size = Len(told.xs)
      BY <1>1, <1>3, <3>1
    <3>3. words = head \o counted
      BY <3>1, <3>2
    <3>4. NodeWords(ns, i) = << HeadWord(told.type, told.dims) >>
            \o (<< CountWord(Len(told.xs)) >> \o Sequence(told))
      BY <2>3, <3>1 DEF NodeWords, told, RING, POINT, LINESTRING
    <3> QED
      BY <1>1, <1>2, <2>3, <3>1, <3>2, <3>3, <3>4
  <2>4. CASE told.type \notin {RING, POINT, LINESTRING}
    <3>1. ~HoldsCoords(told.type) /\ node.type = told.type
      BY <1>1, <2>4 DEF HoldsCoords
    <3>2. ~(acc.rings > 0) /\ node.size = Cardinality(Parts(ns, i))
          /\ node.type # POINT /\ node.type # LINESTRING
      BY <1>1, <1>3, <2>4, <3>1
    <3>3. words = head \o << CountWord(node.size) >>
      BY <3>2
    <3>4. NodeWords(ns, i) = << HeadWord(told.type, told.dims) >>
            \o << CountWord(Cardinality(Parts(ns, i))) >>
      BY <2>4 DEF NodeWords, told, RING, POINT, LINESTRING
    <3> QED
      BY <1>1, <3>1, <3>2, <3>3, <3>4
  <2> QED
    BY <2>1, <2>2, <2>3, <2>4
<1>6. AppendNode(acc, node) = [values |-> acc.values \o words,
                               rings |-> RemainingRings(acc.rings, node)]
  BY DEF AppendNode
<1> HIDE DEF words
<1> QED
  BY <1>5, <1>6 DEF node

(* GeoArrowWKBWriterAppend adds the encoding of the feature. *)
LEMMA AppendedIsEncoding ==
  ASSUME NEW ns \in Seq(NodeSet), RingsFollow(ns),
         NEW S, Word \subseteq S, values \in Seq(S)
  PROVE  /\ AppendBuffer(GeometryOf(ns)) = values \o Encoding(ns)
         /\ Encoding(ns) \in Seq(Word)
<1> DEFINE n == Len(ns)
           geom == GeometryOf(ns)
<1>1. PICK h : /\ h[0] = [values |-> values, rings |-> 0]
               /\ \A i \in 1 .. n : h[i] = AppendNode(h[i - 1], geom[i])
               /\ AppendBuffer(geom) = h[n].values
  BY AppendSteps
<1>2. PICK f \in [0 .. n -> Seq(Word)] :
           /\ f[0] = << >>
           /\ \A i \in 1 .. n : f[i] = f[i - 1] \o NodeWords(ns, i)
           /\ Encoding(ns) = f[n]
  BY EncodingSteps
<1>3. n \in Nat /\ n \in 0 .. n
  OBVIOUS
<1> DEFINE T == {i \in 0 .. n : /\ h[i].values = values \o f[i]
                                /\ RingsLeft(ns, i, h[i].rings)}
<1>4. 0 \in T
  <2>1. values \o << >> = values
    OBVIOUS
  <2>2. RingsLeft(ns, 0, 0)
    BY DEF RingsLeft
  <2> QED
    BY <1>1, <1>2, <1>3, <2>1, <2>2
<1>5. ASSUME NEW i \in 0 .. n - 1, i \in T
      PROVE  i + 1 \in T
  <2>1. i + 1 \in 1 .. n /\ (i + 1) - 1 = i /\ i \in 0 .. n /\ i + 1 \in 0 .. n
    BY <1>3
  <2>2. /\ h[i + 1] = AppendNode(h[i], geom[i + 1])
        /\ f[i + 1] = f[i] \o NodeWords(ns, i + 1)
    BY <1>1, <1>2, <2>1
  <2>3. /\ h[i].rings \in Nat
        /\ h[i].rings > 0 <=> ns[i + 1].type = RING
        /\ RingsLeft(ns, i + 1, RemainingRings(h[i].rings, geom[i + 1]))
    BY <1>5, RingsTracked DEF RingsLeft
  <2>4. h[i + 1] = [values |-> h[i].values \o NodeWords(ns, i + 1),
                    rings  |-> RemainingRings(h[i].rings, geom[i + 1])]
    BY <2>1, <2>2, <2>3, AppendedNode
  <2>5. h[i].values = values \o f[i]
    BY <1>5
  <2>6. (values \o f[i]) \o NodeWords(ns, i + 1) = values \o (f[i] \o NodeWords(ns, i + 1))
    <3>1. f[i] \in Seq(S) /\ NodeWords(ns, i + 1) \in Seq(S)
      <4>1. f[i] \in Seq(Word) /\ NodeWords(ns, i + 1) \in Seq(Word)
        BY <1>2, <2>1, NodeWordsType
      <4> QED
        BY <4>1
    <3> DEFINE v == values
               a == f[i]
               b == NodeWords(ns, i + 1)
    <3>2. v \in Seq(S) /\ a \in Seq(S) /\ b \in Seq(S)
      BY <3>1
    <3> HIDE DEF v, a, b
    <3>3. (v \o a) \o b = v \o (a \o b)
      BY <3>2
    <3> QED
      BY <3>3 DEF v, a, b
  <2>7. h[i + 1].values = values \o f[i + 1]
    <3> DEFINE words == h[i].values \o NodeWords(ns, i + 1)
               rings == RemainingRings(h[i].rings, geom[i + 1])
    <3>1. h[i + 1] = [values |-> words, rings |-> rings]
      BY <2>4
    <3> HIDE DEF words, rings
    <3>2. h[i + 1].values = words
      BY <3>1
    <3> QED
      BY <2>2, <2>5, <2>6, <3>2 DEF words
  <2>8. RingsLeft(ns, i + 1, h[i + 1].rings)
    BY <2>3, <2>4
  <2> QED
    BY <2>1, <2>7, <2>8
<1> HIDE DEF T
<1>6. \A i \in 0 .. n : i \in T
  BY <1>3, <1>4, <1>5, IntervalInduction
<1>7. h[n].values = values \o f[n]
  BY <1>3, <1>6 DEF T
<1> QED
  BY <1>1, <1>2, <1>3, <1>7

-----------------------------------------------------------------------------
(* Nothing is claimed of the words of values beyond the largest offset but *)
(* that there are more of them than fit.                                   *)
Grown == \E S : Word \subseteq S /\ values \in Seq(S)

ArrayInv == ArrayWellFormed /\ OffsetsAddressable /\ OffsetsNeverWrap

AppendInv == Grown /\ ArrayInv /\ (Fits => BatchInv)

(* One more word, or a word that is replaced. *)
LEMMA OneWordMore ==
  ASSUME NEW S, NEW v \in Seq(S), NEW w
  PROVE  /\ Append(v, w) \in Seq(S \cup {w}) /\ Len(Append(v, w)) = Len(v) + 1
         /\ \A p : /\ [v EXCEPT ![p] = w] \in Seq(S \cup {w})
                   /\ Len([v EXCEPT ![p] = w]) = Len(v)
<1>1. v \in Seq(S \cup {w}) /\ Len(v) \in Nat
  OBVIOUS
<1>2. ASSUME NEW p
      PROVE  /\ [v EXCEPT ![p] = w] \in Seq(S \cup {w})
             /\ Len([v EXCEPT ![p] = w]) = Len(v)
  <2>1. [v EXCEPT ![p] = w] \in [1 .. Len(v) -> S \cup {w}]
    <3>1. v \in [1 .. Len(v) -> S \cup {w}]
      BY <1>1
    <3> QED
      BY <3>1
  <2> QED
    BY <1>1, <2>1
<1> QED
  BY <1>1, <1>2

(* No call of a visitor takes words away. *)
LEMMA ValuesGrow ==
  ASSUME ProtocolAssumption, WKBAssumption, Grown, [Next]_vars, ~Finish
  PROVE  Grown' /\ Len(values) <= Len(values')
<1>1. PICK S : Word \subseteq S /\ values \in Seq(S)
  BY DEF Grown
<1> DEFINE v == values
<1>2. v \in Seq(S) /\ Len(v) \in Nat
  BY <1>1
<1>3. SUFFICES \E W : /\ S \subseteq W /\ values' \in Seq(W)
                      /\ Len(v) <= Len(values')
  BY <1>1 DEF Grown, Word
<1>4. CASE values' = v
  BY <1>2, <1>4
<1>5. ASSUME NEW w, NEW p, values' = Append(v, w) \/ values' = [v EXCEPT ![p] = w]
      PROVE  \E W : /\ S \subseteq W /\ values' \in Seq(W)
                    /\ Len(v) <= Len(values')
  <2> HIDE DEF v
  <2>1. /\ Append(v, w) \in Seq(S \cup {w}) /\ Len(Append(v, w)) = Len(v) + 1
        /\ [v EXCEPT ![p] = w] \in Seq(S \cup {w})
        /\ Len([v EXCEPT ![p] = w]) = Len(v)
    BY <1>2, OneWordMore
  <2>2. values' \in Seq(S \cup {w}) /\ Len(v) <= Len(values')
    BY <1>2, <1>5, <2>1
  <2> QED
    BY <2>2
<1>6. ASSUME NEW W, NEW words \in Seq(W), values' = v \o words
      PROVE  \E V : /\ S \subseteq V /\ values' \in Seq(V)
                    /\ Len(v) <= Len(values')
  <2> HIDE DEF v
  <2>1. v \in Seq(S \cup W) /\ words \in Seq(S \cup W) /\ Len(words) \in Nat
    BY <1>2
  <2>2. v \o words \in Seq(S \cup W) /\ Len(v \o words) = Len(v) + Len(words)
    BY <1>2, <2>1
  <2> QED
    BY <1>2, <1>6, <2>1, <2>2
<1>7. ASSUME NEW type \in GeomTypes, NEW dims \in Dims, GeomStart(type, dims)
      PROVE  \E W : /\ S \subseteq W /\ values' \in Seq(W)
                    /\ Len(v) <= Len(values')
  <2> DEFINE two == << HeadWord(type, dims), CountWord(0) >>
  <2>1. two \in Seq({HeadWord(type, dims), CountWord(0)})
    OBVIOUS
  <2>2. values' = Append(v, HeadWord(type, dims)) \/ values' = v \o two
    BY <1>7 DEF GeomStart
  <2> HIDE DEF two, v
  <2> QED
    BY <1>5, <1>6, <2>1, <2>2
<1>8. ASSUME NEW n \in 0 .. MaxChunk, Coords(n)
      PROVE  \E W : /\ S \subseteq W /\ values' \in Seq(W)
                    /\ Len(v) <= Len(values')
  <2> DEFINE word  == CoordWord(Label, nodes[Len(nodes)].dims)
             words == [i \in 1 .. n |-> word]
  <2>1. values' = v \o words
    BY <1>8 DEF Coords
  <2> HIDE DEF word
  <2>2. n \in Nat /\ words \in [1 .. n -> {word}]
    BY DEF ProtocolAssumption
  <2>3. words \in Seq({word})
    BY <2>2
  <2> HIDE DEF words, v
  <2> QED
    BY <1>6, <2>1, <2>3
<1>9. CASE RingStart \/ RingEnd \/ GeomEnd
  <2>1. \/ values' = v
        \/ \E w, p : values' = Append(v, w) \/ values' = [v EXCEPT ![p] = w]
    BY <1>9 DEF RingStart, RingEnd, GeomEnd, AfterGeom, Backpatched
  <2> QED
    BY <1>4, <1>5, <2>1
<1>10. CASE \/ FeatStart \/ FeatStartOverflow \/ NullFeat \/ FeatEnd
            \/ ReaderFails \/ UNCHANGED vars
  <2>1. values' = v
    BY <1>10 DEF FeatStart, FeatStartOverflow, feat_start_wkb, StartFeature,
       NullFeat, FeatEnd, ReaderFails, vars, writerVars, bufferVars
  <2> QED
    BY <1>4, <2>1
<1> QED
  BY <1>7, <1>8, <1>9, <1>10 DEF Next

(* The array of a Finish that was accepted. *)
LEMMA FinishNeverWraps ==
  ASSUME ProtocolAssumption, WKBAssumption, Inv, Finish
  PROVE  OffsetsNeverWrap'
<1>1. /\ offsets \in Seq(Nat) /\ Len(offsets) \in Nat /\ Len(values) \in Nat
      /\ \A i \in 1 .. Len(offsets) : offsets[i] \in Nat
  BY DEF Inv, TypeOK, WriterTypeOK
<1>2. /\ array'.offsets = Append(offsets, Len(values)) /\ array'.values = values
  BY DEF Finish, HandedOver
<1>3. /\ DOMAIN array'.offsets = 1 .. Len(offsets) + 1
      /\ array'.offsets[Len(offsets) + 1] = Len(values)
      /\ \A i \in 1 .. Len(offsets) : array'.offsets[i] = offsets[i]
  BY <1>1, <1>2
<1>4. /\ \A i \in 1 .. Len(offsets) : offsets[i] <= Len(values)
      /\ \A i \in 1 .. Len(offsets) - 1 : offsets[i] <= offsets[i + 1]
  BY DEF Inv, OffsetsAscend
<1>5. ASSUME NEW i \in 1 .. Len(offsets) + 1
      PROVE  /\ array'.offsets[i] \in 0 .. Len(values)
             /\ i > 1 => array'.offsets[i - 1] <= array'.offsets[i]
  <2>1. CASE i = Len(offsets) + 1
    <3>1. i > 1 => i - 1 \in 1 .. Len(offsets)
      BY <1>1, <2>1
    <3> QED
      BY <1>1, <1>3, <1>4, <2>1, <3>1
  <2>2. CASE i # Len(offsets) + 1
    <3>1. i \in 1 .. Len(offsets)
      BY <1>1, <2>2
    <3>2. i > 1 => i - 1 \in 1 .. Len(offsets) - 1 /\ (i - 1) + 1 = i
                   /\ i - 1 \in 1 .. Len(offsets)
      BY <1>1, <3>1
    <3>3. i > 1 => offsets[i - 1] <= offsets[i]
      BY <1>4, <3>2
    <3>4. array'.offsets[i] = offsets[i] /\ array'.offsets[i] \in 0 .. Len(values)
      BY <1>1, <1>3, <1>4, <3>1
    <3>5. i > 1 => array'.offsets[i - 1] = offsets[i - 1]
      BY <1>3, <3>2
    <3> QED
      BY <3>3, <3>4, <3>5
  <2> QED
    BY <2>1, <2>2
<1> QED
  BY <1>2, <1>3, <1>5 DEF OffsetsNeverWrap

(* Nothing is open between two appended features, and what they leave is   *)
(* what a visited feature leaves.                                          *)
LEMMA AppendKeepsBatch ==
  ASSUME ProtocolAssumption, WKBAssumption, BatchInv, Idle, Fits,
         AppendOffset, values' \in Seq(Word), Len(values) <= Len(values'),
         UNCHANGED << stackVars, featIsNull, outVars >>,
         \/ /\ UNCHANGED << open, nodes, failed >>
            /\ \E feature \in FeatureSet : rows' = Append(rows, feature)
            /\ \E isValid \in BOOLEAN : AppendValidity(isValid)
         \/ Abandon /\ UNCHANGED << length, nullCount, validity >>
  PROVE  BatchInv'
<1> DEFINE Counts == /\ UNCHANGED << open, nodes, failed >>
                     /\ \E feature \in FeatureSet : rows' = Append(rows, feature)
                     /\ \E isValid \in BOOLEAN : AppendValidity(isValid)
           Fails == Abandon /\ UNCHANGED << length, nullCount, validity >>
<1>1. /\ ProtocolTypeOK /\ WriterTypeOK /\ OffsetsAscend /\ Aligned /\ NullsCounted
      /\ open = << >>
  BY DEF BatchInv, Inv, TypeOK, Idle
<1>2. /\ open' = << >> /\ (nodes' = nodes \/ nodes' = << >>)
      /\ Len(<< >>) = 0
  BY <1>1, EmptySeq DEF Abandon
<1>3. /\ values \in Seq(Word) /\ Len(values) \in Nat /\ Len(values') \in Nat
      /\ offsets \in Seq(Nat) /\ Len(offsets) \in Nat
      /\ rows \in Seq(FeatureSet) /\ Len(rows) \in Nat /\ failed \in Nat
      /\ length \in Nat /\ nullCount \in Nat /\ validity \in Bitmap
      /\ nodes \in Seq(NodeSet)
  BY <1>1 DEF ProtocolTypeOK, WriterTypeOK
<1>4. offsets' = Append(offsets, Len(values))
  BY <1>3 DEF AppendOffset, Int32, Fits, WKBAssumption
<1>5. /\ offsets' \in Seq(Nat) /\ Len(offsets') = Len(offsets) + 1
      /\ offsets'[Len(offsets) + 1] = Len(values)
      /\ \A i \in 1 .. Len(offsets) : offsets'[i] = offsets[i]
  BY <1>3, <1>4
<1>6. OffsetsAscend'
  <2>1. /\ IF offsets = << >> THEN values = << >> ELSE offsets[1] = 0
        /\ \A i \in 1 .. Len(offsets) : offsets[i] <= Len(values)
        /\ \A i \in 1 .. Len(offsets) - 1 : offsets[i] <= offsets[i + 1]
    BY <1>1 DEF OffsetsAscend
  <2>2. offsets' # << >> /\ offsets'[1] = 0
    <3>1. Len(offsets') # 0
      BY <1>3, <1>5
    <3>2. offsets' # << >>
      BY <3>1, EmptySeq
    <3>3. CASE offsets = << >>
      <4>1. Len(offsets) = 0 /\ Len(values) = 0
        BY <2>1, <3>3, EmptySeq
      <4> QED
        BY <1>5, <3>2, <4>1
    <3>4. CASE offsets # << >>
      <4>1. 1 \in 1 .. Len(offsets)
        BY <1>3, <3>4, EmptySeq
      <4>2. offsets'[1] = offsets[1]
        BY <1>5, <4>1
      <4> QED
        BY <2>1, <3>2, <3>4, <4>2
    <3> QED
      BY <3>3, <3>4
  <2>3. ASSUME NEW i \in 1 .. Len(offsets) + 1
        PROVE  offsets'[i] <= Len(values')
    <3>1. CASE i = Len(offsets) + 1
      BY <1>5, <3>1
    <3>2. CASE i # Len(offsets) + 1
      <4>4. Len(offsets) \in Nat
        BY <1>3
      <4>1. i \in 1 .. Len(offsets)
        BY <3>2, <4>4
      <4>2. offsets[i] <= Len(values) /\ offsets[i] \in Nat
        BY <1>3, <2>1, <4>1
      <4>3. offsets'[i] = offsets[i]
        BY <1>5, <4>1
      <4> QED
        BY <1>3, <4>2, <4>3
    <3> QED
      BY <3>1, <3>2
  <2>4. ASSUME NEW i \in 1 .. Len(offsets)
        PROVE  offsets'[i] <= offsets'[i + 1]
    <3>1. CASE i = Len(offsets)
      BY <1>5, <2>1, <3>1
    <3>2. CASE i # Len(offsets)
      <4>1. i \in 1 .. Len(offsets) - 1 /\ i + 1 \in 1 .. Len(offsets)
        BY <1>3, <3>2
      <4> QED
        BY <1>5, <2>1, <4>1
    <3> QED
      BY <3>1, <3>2
  <2>5. Len(offsets') - 1 = Len(offsets) /\ 1 .. Len(offsets') = 1 .. Len(offsets) + 1
    BY <1>3, <1>5
  <2> QED
    BY <1>2, <2>2, <2>3, <2>4, <2>5 DEF OffsetsAscend
<1>7. ASSUME Counts
      PROVE  TypeOK' /\ Aligned' /\ NullsCounted'
  <2>1. PICK isValid \in BOOLEAN : AppendValidity(isValid)
    BY <1>7
  <2>2. PICK feature \in FeatureSet : rows' = Append(rows, feature)
    BY <1>7
  <2>3. /\ length' = length + 1 /\ length + 1 \in Nat \ {0}
        /\ failed' = failed /\ open' = open /\ nodes' = nodes
        /\ rows' \in Seq(FeatureSet) /\ Len(rows') = Len(rows) + 1
    <3>1. length' = length + 1
      BY <2>1 DEF AppendValidity
    <3>2. rows' \in Seq(FeatureSet) /\ Len(rows') = Len(rows) + 1
      BY <1>3, <2>2
    <3> QED
      BY <1>3, <1>7, <3>1, <3>2
  <2>4. /\ validity' \in Bitmap /\ nullCount' \in Nat
        /\ NullsCounted'
        /\ failed = 0 /\ validity'.data => Len(validity'.bits) = Len(rows) + 1
    <3>1. /\ ~validity.data => validity.bits = << >>
          /\ nullCount = NullCount(validity)
          /\ failed = 0 => /\ length = Len(rows)
                           /\ validity.data => Len(validity.bits) = Len(rows)
      BY <1>1, <1>3 DEF NullsCounted, Aligned, Unended, Idle
    <3>2. CASE ~isValid
      <4>1. /\ validity' = MarkNull(validity, length + 1)
            /\ nullCount' = nullCount + 1
        BY <2>1, <3>2 DEF AppendValidity
      <4>2. /\ MarkNull(validity, length + 1) \in Bitmap
            /\ MarkNull(validity, length + 1).data
            /\ NullCount(MarkNull(validity, length + 1)) = NullCount(validity) + 1
            /\ Len(MarkNull(validity, length + 1).bits)
                 = IF validity.data THEN Len(validity.bits) + 1 ELSE length + 1
        BY <1>3, <2>3, <3>1, BitmapTypes, MarkNullCounts
      <4> QED
        BY <1>3, <3>1, <4>1, <4>2 DEF NullsCounted
    <3>3. CASE isValid
      <4>1. validity' = MarkValid(validity) /\ nullCount' = nullCount
        BY <2>1, <3>3 DEF AppendValidity
      <4>2. /\ MarkValid(validity) \in Bitmap
            /\ MarkValid(validity).data = validity.data
            /\ NullCount(MarkValid(validity)) = NullCount(validity)
            /\ ~validity.data => MarkValid(validity) = validity
            /\ validity.data => Len(MarkValid(validity).bits) = Len(validity.bits) + 1
        BY <1>3, BitmapTypes, MarkValidCounts
      <4> QED
        BY <1>3, <3>1, <4>1, <4>2 DEF NullsCounted
    <3> QED
      BY <3>2, <3>3
  <2>5. Aligned'
    BY <1>1, <1>2, <1>3, <1>5, <2>3, <2>4 DEF Aligned, Unended, Idle
  <2>6. TypeOK'
    BY <1>1, <1>2, <1>5, <2>3, <2>4
    DEF TypeOK, ProtocolTypeOK, WriterTypeOK, stackVars, outVars
  <2> QED
    BY <2>4, <2>5, <2>6
<1>8. ASSUME Fails
      PROVE  TypeOK' /\ Aligned' /\ NullsCounted'
  <2>1. /\ failed' = failed + 1 /\ rows' = rows /\ open' = << >> /\ nodes' = << >>
        /\ UNCHANGED << length, nullCount, validity >>
    BY <1>8 DEF Abandon
  <2>2. Aligned' /\ NullsCounted'
    BY <1>1, <1>3, <2>1 DEF Aligned, NullsCounted, NullCount, ZeroBits
  <2>3. TypeOK'
    <3>1. failed + 1 \in Nat /\ << >> \in Seq(NodeSet) /\ << >> \in Seq(FrameSet)
      BY <1>3, EmptySeq
    <3> QED
      BY <1>1, <1>5, <2>1, <3>1
      DEF TypeOK, ProtocolTypeOK, WriterTypeOK, stackVars, outVars
  <2> QED
    BY <2>2, <2>3
<1>9. /\ Nesting' /\ LevelsTrackVisit' /\ ReservedCounts'
  BY <1>2 DEF Nesting, LevelsTrackVisit, ReservedCounts, InGeometry
<1>10. ArrayWellFormed' /\ OffsetsAddressable'
  BY DEF BatchInv, ArrayWellFormed, OffsetsAddressable, NullCount, ZeroBits, outVars
<1>11. TypeOK' /\ Aligned' /\ NullsCounted'
  BY <1>7, <1>8
<1> QED
  BY <1>6, <1>9, <1>10, <1>11 DEF BatchInv, Inv

(* Cutting a sequence that something was added to, behind what was there. *)
LEMMA CutBehind ==
  ASSUME NEW S, NEW s \in Seq(S), NEW t \in Seq(S),
         NEW n \in Len(s) .. Len(s) + Len(t)
  PROVE  SubSeq(s \o t, 1, n) = s \o SubSeq(t, 1, n - Len(s))
<1> DEFINE u == SubSeq(t, 1, n - Len(s))
<1>1. /\ u \in Seq(S) /\ Len(u) = n - Len(s)
      /\ \A i \in 1 .. n - Len(s) : u[i] = t[i]
  OBVIOUS
<1>2. /\ s \o t \in Seq(S) /\ Len(s \o t) = Len(s) + Len(t)
      /\ \A i \in 1 .. n :
           (s \o t)[i] = IF i <= Len(s) THEN s[i] ELSE t[i - Len(s)]
  OBVIOUS
<1> HIDE DEF u
<1>3. /\ s \o u \in Seq(S) /\ Len(s \o u) = n
      /\ \A i \in 1 .. n :
           (s \o u)[i] = IF i <= Len(s) THEN s[i] ELSE u[i - Len(s)]
  BY <1>1
<1> DEFINE all == s \o t
           cut == s \o u
<1>4. /\ all \in Seq(S) /\ n \in Nat /\ n <= Len(all)
      /\ cut \in Seq(S) /\ Len(cut) = n
  BY <1>2, <1>3
<1>5. \A i \in 1 .. n : all[i] = cut[i]
  BY <1>1, <1>2, <1>3
<1> HIDE DEF all, cut
<1>6. SubSeq(all, 1, n) = cut
  BY <1>4, <1>5
<1> QED
  BY <1>6 DEF all, cut, u

(* Appending a feature whole only adds to the values. *)
LEMMA AppendedWords ==
  ASSUME GeometriesAssumption, Grown,
         (\E ns \in Geometries : AppendGeometry(ns)) \/ AppendNull \/ AppendFails
  PROVE  /\ Grown' /\ Len(values) \in Nat /\ Len(values') \in Nat
         /\ Len(values) <= Len(values')
         /\ values \in Seq(Word) => values' \in Seq(Word)
<1>1. PICK S : Word \subseteq S /\ values \in Seq(S)
  BY DEF Grown
<1>2. /\ Len(values) \in Nat
      /\ \E words \in Seq(Word) : values' = values \o words
  <2>1. values \o << >> = values /\ << >> \in Seq(Word) /\ Len(values) \in Nat
    BY <1>1
  <2>2. CASE AppendNull
    BY <2>1, <2>2 DEF AppendNull
  <2>3. ASSUME NEW ns \in Geometries, AppendGeometry(ns)
        PROVE  \E words \in Seq(Word) : values' = values \o words
    <3>1. ns \in Seq(NodeSet) /\ RingsFollow(ns)
      BY DEF GeometriesAssumption
    <3>2. /\ AppendBuffer(GeometryOf(ns)) = values \o Encoding(ns)
          /\ Encoding(ns) \in Seq(Word)
      BY <1>1, <3>1, AppendedIsEncoding
    <3> QED
      BY <2>3, <3>2 DEF AppendGeometry
  <2>4. CASE AppendFails
    <3>1. PICK ns \in Geometries :
            \E n \in Len(values) .. Len(AppendBuffer(GeometryOf(ns))) - 1 :
              values' = SubSeq(AppendBuffer(GeometryOf(ns)), 1, n)
      BY <2>4 DEF AppendFails
    <3>2. ns \in Seq(NodeSet) /\ RingsFollow(ns)
      BY DEF GeometriesAssumption
    <3>3. /\ AppendBuffer(GeometryOf(ns)) = values \o Encoding(ns)
          /\ Encoding(ns) \in Seq(Word)
      BY <1>1, <3>2, AppendedIsEncoding
    <3> DEFINE enc == Encoding(ns)
               old == values
    <3>4. enc \in Seq(Word) /\ old \in Seq(S)
      BY <1>1, <3>3
    <3>5. \E n \in Len(old) .. Len(old \o enc) - 1 : values' = SubSeq(old \o enc, 1, n)
      BY <3>1, <3>3
    <3> HIDE DEF enc, old
    <3>6. PICK n \in Len(old) .. Len(old) + Len(enc) : values' = SubSeq(old \o enc, 1, n)
      BY <3>4, <3>5
    <3>7. enc \in Seq(S)
      BY <1>1, <3>4
    <3>8. values' = old \o SubSeq(enc, 1, n - Len(old))
      BY <3>4, <3>6, <3>7, CutBehind
    <3>9. SubSeq(enc, 1, n - Len(old)) \in Seq(Word)
      BY <3>4, <3>6
    <3> QED
      BY <2>1, <3>8, <3>9 DEF old
  <2> QED
    BY <2>1, <2>2, <2>3, <2>4
<1>3. PICK words \in Seq(Word) : values' = values \o words
  BY <1>2
<1>4. /\ values' \in Seq(S) /\ Len(values') \in Nat /\ Len(values) <= Len(values')
      /\ values \in Seq(Word) => values' \in Seq(Word)
  <2> DEFINE v == values
  <2>1. v \in Seq(S) /\ words \in Seq(S) /\ values' = v \o words
    BY <1>1, <1>3
  <2>2. v \in Seq(Word) => values' \in Seq(Word)
    BY <1>3
  <2> HIDE DEF v
  <2>3. /\ v \o words \in Seq(S) /\ Len(v \o words) = Len(v) + Len(words)
        /\ Len(v) \in Nat /\ Len(words) \in Nat
    BY <2>1
  <2> QED
    BY <2>1, <2>2, <2>3 DEF v
<1>5. Grown'
  <2>1. Word' = Word
    BY DEF Word
  <2> QED
    BY <1>1, <1>4, <2>1 DEF Grown
<1> QED
  BY <1>2, <1>4, <1>5

(* Whatever the next call is. *)
LEMMA AppendStepInv ==
  ASSUME ProtocolAssumption, WKBAssumption, GeometriesAssumption, AppendInv,
         [AppendNext]_vars
  PROVE  AppendInv'
<1>1. CASE Finish
  <2>1. BatchInv /\ Inv /\ [Next]_vars
    BY <1>1 DEF AppendInv, Finish, Next, BatchInv
  <2>2. BatchInv' /\ OffsetsNeverWrap'
    BY <2>1, <1>1, StepBatchInv, FinishNeverWraps
  <2>3. values' \in Seq(Word) /\ Word' = Word
    BY <2>2 DEF BatchInv, Inv, TypeOK, WriterTypeOK, Word
  <2> QED
    BY <2>2, <2>3 DEF AppendInv, ArrayInv, Grown, BatchInv
<1>2. CASE [Next]_vars /\ ~Finish
  <2>1. Grown' /\ Len(values) <= Len(values')
    BY <1>2, ValuesGrow DEF AppendInv
  <2>2. array' = array
    BY <1>2 DEF Next, FeatStart, FeatStartOverflow, feat_start_wkb,
       StartFeature, NullFeat, GeomStart, RingStart, Coords, RingEnd, GeomEnd,
       FeatEnd, ReaderFails, vars, writerVars, outVars
  <2>3. ArrayInv'
    BY <2>2 DEF AppendInv, ArrayInv, ArrayWellFormed, OffsetsAddressable,
       OffsetsNeverWrap, NullCount, ZeroBits
  <2>4. Fits' => Fits
    <3>1. Len(values) \in Nat /\ Len(values') \in Nat
      BY <2>1 DEF AppendInv, Grown
    <3> QED
      BY <2>1, <3>1 DEF Fits, WKBAssumption
  <2>5. Fits' => BatchInv'
    BY <1>2, <2>4, StepBatchInv DEF AppendInv
  <2> QED
    BY <2>1, <2>3, <2>5 DEF AppendInv
<1>3. ASSUME \/ \E ns \in Geometries : AppendGeometry(ns)
             \/ AppendNull \/ AppendFails
      PROVE  AppendInv'
  <2>1. /\ Grown' /\ Len(values) \in Nat /\ Len(values') \in Nat
        /\ Len(values) <= Len(values')
        /\ values \in Seq(Word) => values' \in Seq(Word)
    BY <1>3, AppendedWords DEF AppendInv
  <2>2. /\ Idle /\ AppendOffset /\ UNCHANGED << stackVars, featIsNull, outVars >>
        /\ \/ /\ UNCHANGED << open, nodes, failed >>
              /\ \E feature \in FeatureSet : rows' = Append(rows, feature)
              /\ \E isValid \in BOOLEAN : AppendValidity(isValid)
           \/ Abandon /\ UNCHANGED << length, nullCount, validity >>
    <3>1. ASSUME NEW ns \in Geometries, AppendGeometry(ns)
          PROVE  [null |-> FALSE, nodes |-> ns] \in FeatureSet
      BY DEF GeometriesAssumption, FeatureSet
    <3>2. [null |-> TRUE, nodes |-> << >>] \in FeatureSet
      <4>1. << >> \in Seq(NodeSet)
        OBVIOUS
      <4> QED
        BY <4>1 DEF FeatureSet
    <3> QED
      BY <1>3, <3>1, <3>2 DEF AppendGeometry, AppendNull, AppendFails, Appended
  <2>3. ArrayInv'
    BY <2>2 DEF AppendInv, ArrayInv, ArrayWellFormed, OffsetsAddressable,
       OffsetsNeverWrap, NullCount, ZeroBits, outVars
  <2>4. ASSUME Fits'
        PROVE  BatchInv'
    <3>1. Fits
      BY <2>1, <2>4 DEF Fits, WKBAssumption
    <3>2. BatchInv /\ values \in Seq(Word)
      BY <3>1 DEF AppendInv, BatchInv, Inv, TypeOK, WriterTypeOK
    <3> QED
      BY <2>1, <2>2, <3>1, <3>2, AppendKeepsBatch
  <2> QED
    BY <2>1, <2>3, <2>4 DEF AppendInv
<1> QED
  BY <1>1, <1>2, <1>3 DEF AppendNext

(* The invariant of a writer that is visited and appended to. *)
THEOREM AppendInvCorrect == AppendSpec => []AppendInv
<1>1. ASSUME Init
      PROVE  AppendInv
  <2>1. BatchInv
    BY <1>1, InitBatchInv, ProtocolAssumption, WKBAssumption
  <2>2. values \in Seq(Word)
    BY <2>1 DEF BatchInv, Inv, TypeOK, WriterTypeOK
  <2>3. array.offsets = << 0 >> /\ array.values = << >> /\ Len(<< >>) = 0
    BY <1>1, EmptySeq DEF Init, NoArray
  <2>4. OffsetsNeverWrap
    BY <2>3 DEF OffsetsNeverWrap
  <2> QED
    BY <2>1, <2>2, <2>4 DEF AppendInv, ArrayInv, Grown, BatchInv
<1> QED
  BY <1>1, AppendStepInv, ProtocolAssumption, WKBAssumption,
     GeometriesAssumption, PTL DEF AppendSpec

(* The writer checks the size of its values in feat_start and Finish only, *)
(* and appends of whole geometries cast it without a check: still, however *)
(* the two are mixed and whatever was abandoned, every array that is       *)
(* handed over has offsets that ascend inside its values.                  *)
THEOREM NeverWraps == AppendSpec => []OffsetsNeverWrap
BY AppendInvCorrect, PTL DEF AppendInv, ArrayInv

-----------------------------------------------------------------------------
(* The words of a geometry or ring that has not ended: its count is 0, and *)
(* an empty point does not have its NaNs.                                  *)
OpenWords(node) ==
  LET head == << HeadWord(node.type, node.dims) >>
      zero == << CountWord(0) >>
  IN CASE node.type = RING       -> zero \o Sequence(node)
       [] node.type = POINT      -> head \o Sequence(node)
       [] node.type = LINESTRING -> head \o (zero \o Sequence(node))
       [] OTHER                  -> head \o zero

CountPlace(type) == IF type = RING THEN 1 ELSE 2

VisitedWords(at, i) ==
  IF \E l \in 1 .. Depth : at[l] = i THEN OpenWords(nodes[i])
  ELSE NodeWords(nodes, i)

(* The values from the last offset on are the words of the nodes, those of *)
(* the i-th after pos[i]; an open level knows where its count is.          *)
Stored(at, pos) ==
  /\ pos \in [1 .. Len(nodes) + 1 -> Nat]
  /\ pos[1] = offsets[Len(offsets)] /\ pos[Len(nodes) + 1] = Len(values)
  /\ \A i \in 1 .. Len(nodes) :
       /\ pos[i + 1] = pos[i] + Len(VisitedWords(at, i))
       /\ \A k \in 1 .. Len(VisitedWords(at, i)) :
            values[pos[i] + k] = VisitedWords(at, i)[k]
  /\ \A l \in 1 .. Depth :
       /\ open[l + 1].type # POINT =>
            sizePos[l] = pos[at[l]] + CountPlace(open[l + 1].type)
       /\ open[l + 1].type # RING => dimensions[l] = nodes[at[l]].dims

(* The words of the coordinates of a node. *)
LEMMA SequenceType ==
  ASSUME NEW node \in NodeSet
  PROVE  /\ Sequence(node) \in Seq(Word) /\ Len(Sequence(node)) = Len(node.xs)
         /\ node.xs \in Seq(Nat) /\ Len(node.xs) \in Nat
         /\ \A k \in 1 .. Len(node.xs) : Sequence(node)[k] = CoordWord(node.xs[k], node.dims)
<1> DEFINE xs == node.xs
           word(n) == CoordWord(n, node.dims)
<1>1. xs \in Seq(Nat)
  BY DEF NodeSet
<1>2. \A n \in Nat : word(n) \in Word
  BY DEF CoordWord, Word, NumDimensions
<1>3. Sequence(node) = [k \in DOMAIN xs |-> word(xs[k])]
  BY DEF Sequence
<1> HIDE DEF xs, word
<1>4. /\ Sequence(node) \in Seq(Word) /\ Len(Sequence(node)) = Len(xs)
      /\ Len(xs) \in Nat
      /\ \A k \in 1 .. Len(xs) : Sequence(node)[k] = word(xs[k])
  BY <1>1, <1>2, <1>3
<1> QED
  BY <1>1, <1>4 DEF xs, word

(* The words of an open node one by one. *)
LEMMA OpenWordsAre ==
  ASSUME NEW node \in NodeSet
  PROVE  LET seq   == Sequence(node)
             place == CountPlace(node.type)
             words == OpenWords(node)
         IN /\ words \in Seq(Word)
            /\ node.type = RING => words = << CountWord(0) >> \o seq
            /\ node.type = POINT => words = << HeadWord(node.type, node.dims) >> \o seq
            /\ node.type = LINESTRING =>
                 words = << HeadWord(node.type, node.dims) >> \o (<< CountWord(0) >> \o seq)
            /\ ~HoldsCoords(node.type) =>
                 words = << HeadWord(node.type, node.dims) >> \o << CountWord(0) >>
<1> DEFINE seq == Sequence(node)
           head == << HeadWord(node.type, node.dims) >>
           zero == << CountWord(0) >>
<1>1. /\ node.type \in Int /\ node.dims \in Int
  BY DEF NodeSet, RING, GEOMETRYCOLLECTION
<1>2. head \in Seq(Word) /\ zero \in Seq(Word) /\ seq \in Seq(Word)
  <2>1. HeadWord(node.type, node.dims) \in Word /\ CountWord(0) \in Word
    BY <1>1, WordTypes, CountWordType
  <2> QED
    BY <2>1, SequenceType
<1>3. OpenWords(node) = CASE node.type = RING       -> zero \o seq
                          [] node.type = POINT      -> head \o seq
                          [] node.type = LINESTRING -> head \o (zero \o seq)
                          [] OTHER                  -> head \o zero
  BY DEF OpenWords
<1> HIDE DEF head, zero, seq
<1>4. /\ node.type = RING => OpenWords(node) = zero \o seq
      /\ node.type = POINT => OpenWords(node) = head \o seq
      /\ node.type = LINESTRING => OpenWords(node) = head \o (zero \o seq)
      /\ ~HoldsCoords(node.type) => OpenWords(node) = head \o zero
  BY <1>3 DEF HoldsCoords, RING, POINT, LINESTRING
<1>5. OpenWords(node) \in Seq(Word)
  <2>1. /\ zero \o seq \in Seq(Word) /\ head \o seq \in Seq(Word)
        /\ head \o zero \in Seq(Word)
    BY <1>2
  <2>2. head \o (zero \o seq) \in Seq(Word)
    BY <1>2, <2>1
  <2>3. \/ node.type = RING \/ node.type = POINT \/ node.type = LINESTRING
        \/ ~HoldsCoords(node.type)
    BY DEF HoldsCoords
  <2> QED
    BY <1>4, <2>1, <2>2, <2>3
<1> QED
  BY <1>4, <1>5 DEF head, zero, seq

(* Ending a node fills in its count, or the NaNs of an empty point. *)
LEMMA ClosingWords ==
  ASSUME NEW ns \in Seq(NodeSet), NEW i \in 1 .. Len(ns)
  PROVE  LET node  == ns[i]
             place == CountPlace(node.type)
         IN /\ OpenWords(node) \in Seq(Word) /\ NodeWords(ns, i) \in Seq(Word)
            /\ Len(OpenWords(node)) \in Nat /\ Len(NodeWords(ns, i)) \in Nat
            /\ node.type # POINT =>
                 /\ Len(NodeWords(ns, i)) = Len(OpenWords(node))
                 /\ place \in 1 .. Len(OpenWords(node))
                 /\ \A k \in 1 .. Len(OpenWords(node)) :
                      NodeWords(ns, i)[k] = IF k = place THEN CountWord(PartsSeen(ns, i))
                                            ELSE OpenWords(node)[k]
            /\ node.type = POINT =>
                 NodeWords(ns, i) = IF node.xs = << >>
                                    THEN Append(OpenWords(node), CoordWord(NaN, node.dims))
                                    ELSE OpenWords(node)
<1> DEFINE node == ns[i]
           seq == Sequence(node)
           headWord == HeadWord(node.type, node.dims)
           zeroWord == CountWord(0)
           fullWord == CountWord(PartsSeen(ns, i))
           nan == CoordWord(NaN, node.dims)
           o == OpenWords(node)
           w == NodeWords(ns, i)
           place == CountPlace(node.type)
<1>1. node \in NodeSet
  OBVIOUS
<1>2. o \in Seq(Word) /\ w \in Seq(Word) /\ seq \in Seq(Word)
  BY <1>1, OpenWordsAre, NodeWordsType, SequenceType
<1>3. Len(o) \in Nat /\ Len(w) \in Nat
  BY <1>2
<1>4. /\ node.type = RING => o = << zeroWord >> \o seq /\ w = << fullWord >> \o seq
      /\ node.type = LINESTRING => /\ o = << headWord >> \o (<< zeroWord >> \o seq)
                                   /\ w = << headWord >> \o (<< fullWord >> \o seq)
      /\ ~HoldsCoords(node.type) => /\ o = << headWord >> \o << zeroWord >>
                                    /\ w = << headWord >> \o << fullWord >>
      /\ node.type = POINT =>
           /\ o = << headWord >> \o seq
           /\ w = << headWord >> \o (IF node.xs = << >> THEN << nan >> ELSE seq)
  <2>1. /\ node.type = RING => o = << zeroWord >> \o seq
        /\ node.type = LINESTRING => o = << headWord >> \o (<< zeroWord >> \o seq)
        /\ ~HoldsCoords(node.type) => o = << headWord >> \o << zeroWord >>
        /\ node.type = POINT => o = << headWord >> \o seq
    BY <1>1, OpenWordsAre
  <2>2. PartsSeen(ns, i) = IF HoldsCoords(node.type) THEN Len(node.xs)
                           ELSE Cardinality(Parts(ns, i))
    BY DEF PartsSeen
  <2>3. node.type = RING => w = << fullWord >> \o seq
    BY <2>2 DEF NodeWords, HoldsCoords, RING, POINT, LINESTRING
  <2>4. node.type = LINESTRING => w = << headWord >> \o (<< fullWord >> \o seq)
    BY <2>2 DEF NodeWords, HoldsCoords, RING, POINT, LINESTRING
  <2>5. ~HoldsCoords(node.type) => w = << headWord >> \o << fullWord >>
    BY <2>2 DEF NodeWords, HoldsCoords, RING, POINT, LINESTRING
  <2>6. node.type = POINT => w = << headWord >> \o (IF node.xs = << >> THEN << nan >> ELSE seq)
    BY DEF NodeWords, RING, POINT, LINESTRING
  <2> QED
    BY <2>1, <2>3, <2>4, <2>5, <2>6
<1> HIDE DEF seq, headWord, zeroWord, fullWord, nan, o, w
<1>5. ASSUME node.type # POINT
      PROVE  /\ Len(w) = Len(o) /\ place \in 1 .. Len(o)
             /\ \A k \in 1 .. Len(o) : w[k] = IF k = place THEN fullWord ELSE o[k]
  <2>1. CASE node.type = RING
    <3>1. place = 1
      BY <2>1 DEF CountPlace
    <3>2. o = << zeroWord >> \o seq /\ w = << fullWord >> \o seq
      BY <1>4, <2>1
    <3>3. Len(seq) \in Nat
      BY <1>2
    <3>4. ASSUME NEW x
          PROVE  /\ Len(<< x >> \o seq) = Len(seq) + 1
                 /\ \A k \in 1 .. Len(seq) + 1 :
                      (<< x >> \o seq)[k] = IF k = 1 THEN x ELSE seq[k - 1]
      BY <1>2, <3>3
    <3> HIDE DEF place
    <3> QED
      BY <3>1, <3>2, <3>3, <3>4
  <2>2. CASE node.type = LINESTRING
    <3>1. place = 2
      BY <2>2 DEF CountPlace, LINESTRING, RING
    <3>2. /\ o = << headWord >> \o (<< zeroWord >> \o seq)
          /\ w = << headWord >> \o (<< fullWord >> \o seq)
      BY <1>4, <2>2
    <3>3. ASSUME NEW x, NEW s, s \in Seq(Word)
          PROVE  /\ << x >> \o s \in Seq(Word \cup {x})
                 /\ Len(<< x >> \o s) = Len(s) + 1 /\ Len(s) \in Nat
                 /\ \A k \in 1 .. Len(s) + 1 :
                      (<< x >> \o s)[k] = IF k = 1 THEN x ELSE s[k - 1]
      BY <3>3
    <3>4. ASSUME NEW x, NEW t, x \in Word, t = << headWord >> \o (<< x >> \o seq)
          PROVE  /\ Len(t) = Len(seq) + 2
                 /\ \A k \in 1 .. Len(seq) + 2 :
                      t[k] = IF k = 1 THEN headWord
                             ELSE IF k = 2 THEN x ELSE seq[k - 2]
      <4> DEFINE s == << x >> \o seq
      <4>1. /\ s \in Seq(Word) /\ Len(s) = Len(seq) + 1 /\ Len(seq) \in Nat
            /\ \A k \in 1 .. Len(seq) + 1 : s[k] = IF k = 1 THEN x ELSE seq[k - 1]
        <5>1. << x >> \in Seq(Word)
          BY <3>4
        <5> QED
          BY <1>2, <3>3, <5>1
      <4> HIDE DEF s
      <4>2. /\ Len(t) = Len(s) + 1
            /\ \A k \in 1 .. Len(s) + 1 : t[k] = IF k = 1 THEN headWord ELSE s[k - 1]
        BY <3>3, <3>4, <4>1 DEF s
      <4>3. ASSUME NEW k \in 1 .. Len(seq) + 2
            PROVE  t[k] = IF k = 1 THEN headWord
                          ELSE IF k = 2 THEN x ELSE seq[k - 2]
        <5>1. t[k] = IF k = 1 THEN headWord ELSE s[k - 1]
          BY <4>1, <4>2
        <5>2. k # 1 => s[k - 1] = IF k = 2 THEN x ELSE seq[k - 2]
          <6>1. k # 1 => /\ k - 1 \in 1 .. Len(seq) + 1 /\ (k - 1) - 1 = k - 2
                         /\ k - 1 = 1 <=> k = 2
            BY <4>1
          <6> QED
            BY <4>1, <6>1
        <5> QED
          BY <5>1, <5>2
      <4> QED
        BY <4>1, <4>2, <4>3
    <3>5. zeroWord \in Word /\ fullWord \in Word
      <4>1. PartsSeen(ns, i) \in Nat
        <5>1. Cardinality(Parts(ns, i)) \in Nat
          BY PartsCount
        <5>2. Len(ns[i].xs) \in Nat
          BY <1>1 DEF NodeSet
        <5> QED
          BY <5>1, <5>2 DEF PartsSeen
      <4> QED
        BY <4>1, CountWordType DEF zeroWord, fullWord
    <3>6. Len(seq) \in Nat
      BY <1>2
    <3> HIDE DEF place
    <3> QED
      BY <3>1, <3>2, <3>4, <3>5, <3>6
  <2>3. CASE ~HoldsCoords(node.type)
    <3>1. place = 2
      BY <2>3 DEF CountPlace, HoldsCoords
    <3> HIDE DEF place
    <3>2. o = << headWord >> \o << zeroWord >> /\ w = << headWord >> \o << fullWord >>
      BY <1>4, <2>3
    <3> QED
      BY <3>1, <3>2
  <2> QED
    BY <1>5, <2>1, <2>2, <2>3 DEF HoldsCoords
<1>6. ASSUME node.type = POINT
      PROVE  w = IF node.xs = << >> THEN Append(o, nan) ELSE o
  <2>1. CASE node.xs = << >>
    <3>1. Len(seq) = 0
      BY <1>1, <2>1, EmptySeq, SequenceType DEF seq
    <3>2. o = << headWord >>
      <4>1. seq = << >>
        BY <1>2, <3>1, EmptySeq
      <4> QED
        BY <1>4, <1>6, <4>1
    <3>3. w = << headWord >> \o << nan >>
      BY <1>4, <1>6, <2>1
    <3>4. Append(<< headWord >>, nan) = << headWord >> \o << nan >>
      OBVIOUS
    <3> QED
      BY <2>1, <3>2, <3>3, <3>4
  <2>2. CASE node.xs # << >>
    BY <1>4, <1>6, <2>2
  <2> QED
    BY <2>1, <2>2
<1> QED
  BY <1>2, <1>3, <1>5, <1>6 DEF o, w, nan, fullWord

(* What the words of the nodes occupy of the values. *)
LEMMA StoredInside ==
  ASSUME ProtocolTypeOK, Nesting, open # << >>, NEW at, Tracks(at),
         NEW pos, Stored(at, pos)
  PROVE  /\ \A i \in 1 .. Len(nodes) + 1 : pos[i] \in Nat
         /\ \A i, j \in 1 .. Len(nodes) + 1 : i <= j => pos[i] <= pos[j]
         /\ \A i \in 1 .. Len(nodes) :
              /\ VisitedWords(at, i) \in Seq(Word)
              /\ Len(VisitedWords(at, i)) \in Nat
              /\ pos[i + 1] = pos[i] + Len(VisitedWords(at, i))
              /\ pos[i + 1] <= Len(values)
         /\ Len(nodes) \in Nat /\ Len(values) \in Nat
<1> DEFINE n == Len(nodes)
<1>1. n \in Nat /\ nodes \in Seq(NodeSet) /\ \A i \in 1 .. n : nodes[i] \in NodeSet
  BY TracksTypes
<1>2. ASSUME NEW i \in 1 .. n
      PROVE  VisitedWords(at, i) \in Seq(Word) /\ Len(VisitedWords(at, i)) \in Nat
  <2>1. /\ OpenWords(nodes[i]) \in Seq(Word) /\ NodeWords(nodes, i) \in Seq(Word)
        /\ Len(OpenWords(nodes[i])) \in Nat /\ Len(NodeWords(nodes, i)) \in Nat
    BY <1>1, ClosingWords
  <2> QED
    BY <2>1 DEF VisitedWords
<1>3. /\ pos \in [1 .. n + 1 -> Nat] /\ pos[n + 1] = Len(values)
      /\ \A i \in 1 .. n : pos[i + 1] = pos[i] + Len(VisitedWords(at, i))
  BY DEF Stored
<1> HIDE DEF n
<1>4. pos \in Seq(Int) /\ Len(pos) = n + 1
  <2>1. pos \in [1 .. n + 1 -> Int] /\ n + 1 \in Nat
    BY <1>1, <1>3
  <2> QED
    BY <2>1
<1>5. \A i \in 1 .. n + 1 : pos[i] \in Nat
  BY <1>3
<1>6. \A i \in 1 .. Len(pos) - 1 : pos[i] <= pos[i + 1]
  <2>1. ASSUME NEW i \in 1 .. n
        PROVE  pos[i] <= pos[i + 1]
    <3>1. pos[i] \in Nat
      BY <1>1, <1>5
    <3> QED
      BY <1>2, <1>3, <3>1
  <2> QED
    BY <1>1, <1>4, <2>1
<1>7. \A i, j \in 1 .. n + 1 : i <= j => pos[i] <= pos[j]
  BY <1>4, <1>6, AscendsFar
<1>8. \A i \in 1 .. n : pos[i + 1] <= Len(values)
  <2>1. ASSUME NEW i \in 1 .. n
        PROVE  pos[i + 1] <= Len(values)
    <3>1. i + 1 \in 1 .. n + 1 /\ n + 1 \in 1 .. n + 1 /\ i + 1 <= n + 1
      BY <1>1
    <3> QED
      BY <1>3, <1>7, <3>1
  <2> QED
    BY <2>1
<1>9. Len(values) \in Nat
  <2>1. n + 1 \in 1 .. n + 1
    BY <1>1
  <2> QED
    BY <1>3, <1>5, <2>1
<1> QED
  BY <1>1, <1>2, <1>3, <1>5, <1>7, <1>8, <1>9 DEF n

(* geom_start and ring_start add the words of a node that has no part yet, *)
(* and the nodes before it keep theirs.                                    *)
LEMMA StartStored ==
  ASSUME ProtocolTypeOK, Nesting, open # << >>, NEW at, Tracks(at),
         values \in Seq(Word), NEW pos, Stored(at, pos),
         NEW type \in RING .. GEOMETRYCOLLECTION, NEW dims \in 1 .. 4,
         ReadPartStart(type, dims), ~HoldsCoords(Top.type),
         NEW deeper, deeper = [l \in 1 .. Depth + 1 |->
                                 IF l = Depth + 1 THEN Len(nodes) + 1 ELSE at[l]],
         NEW further, further = [i \in 1 .. Len(nodes) + 2 |->
                                   IF i = Len(nodes) + 2 THEN Len(values') ELSE pos[i]],
         values' = values \o OpenWords(Node(type, dims, Depth)),
         offsets' = offsets,
         \A l \in 1 .. Depth : sizePos'[l] = sizePos[l] /\ dimensions'[l] = dimensions[l],
         type # POINT => sizePos'[Depth + 1] = Len(values) + CountPlace(type),
         type # RING => dimensions'[Depth + 1] = dims
  PROVE  Stored(deeper, further)'
<1> DEFINE n == Len(nodes)
           d == Depth
           node == Node(type, dims, d)
           new == OpenWords(node)
           end == Len(values)
<1>1. /\ n \in Nat /\ nodes \in Seq(NodeSet) /\ d \in Nat /\ Len(open) = d + 1
      /\ \A l \in 1 .. d : at[l] \in 1 .. n
      /\ end \in Nat
  BY TracksTypes
<1>2. /\ \A i \in 1 .. n + 1 : pos[i] \in Nat
      /\ \A i \in 1 .. n : /\ Len(VisitedWords(at, i)) \in Nat
                           /\ pos[i + 1] = pos[i] + Len(VisitedWords(at, i))
                           /\ pos[i + 1] <= end
  BY StoredInside
<1>3. /\ pos[1] = offsets[Len(offsets)] /\ pos[n + 1] = end
      /\ \A i \in 1 .. n : \A k \in 1 .. Len(VisitedWords(at, i)) :
           values[pos[i] + k] = VisitedWords(at, i)[k]
      /\ \A l \in 1 .. d :
           /\ open[l + 1].type # POINT =>
                sizePos[l] = pos[at[l]] + CountPlace(open[l + 1].type)
           /\ open[l + 1].type # RING => dimensions[l] = nodes[at[l]].dims
  BY DEF Stored
<1>4. node \in NodeSet /\ node.type = type /\ node.dims = dims
  BY <1>1 DEF Node, NodeSet
<1>5. new \in Seq(Word) /\ Len(new) \in Nat
  <2> HIDE DEF node
  <2>1. new \in Seq(Word)
    BY <1>4, OpenWordsAre
  <2> QED
    BY <2>1
<1>6. /\ Len(values') = end + Len(new)
      /\ \A i \in 1 .. end : values'[i] = values[i]
      /\ \A k \in 1 .. Len(new) : values'[end + k] = new[k]
  <2> DEFINE v == values
  <2>1. v \in Seq(Word) /\ values' = v \o new
    OBVIOUS
  <2> HIDE DEF v, new
  <2>2. /\ Len(values') = Len(v) + Len(new)
        /\ \A i \in 1 .. Len(v) : values'[i] = v[i]
        /\ \A k \in 1 .. Len(new) : values'[Len(v) + k] = new[k]
    BY <1>5, <2>1
  <2> QED
    BY <2>2 DEF v
<1>7. /\ nodes' = Append(nodes, node) /\ Len(nodes') = n + 1
      /\ nodes'[n + 1] = node /\ \A i \in 1 .. n : nodes'[i] = nodes[i]
  BY <1>1 DEF ReadPartStart
<1>20. \A i \in 1 .. n : ~(\E l \in 1 .. d : at[l] = i) =>
         Parts(nodes', i) = Parts(nodes, i)
  BY TracksStart
<1>8. /\ Depth' = d + 1 /\ Len(open') = Len(open) + 1
      /\ open'[d + 2].type = type
      /\ \A l \in 1 .. d : open'[l + 1].type = open[l + 1].type
  <2>1. Depth' = d + 1
    BY TracksStart
  <2>2. /\ Len(open') = Len(open) + 1
        /\ open'[Len(open) + 1] = Frame(type)
        /\ \A i \in 1 .. Len(open) : open'[i].type = open[i].type
    BY StackPushed
  <2>3. Len(open) + 1 = d + 2 /\ \A l \in 1 .. d : l + 1 \in 1 .. Len(open)
    BY <1>1
  <2>4. open'[d + 2].type = type
    <3> HIDE DEF d
    <3>1. open'[d + 2] = Frame(type)
      BY <2>2, <2>3
    <3> QED
      BY <3>1 DEF Frame
  <2> HIDE DEF d
  <2> QED
    BY <2>1, <2>2, <2>3, <2>4
<1> DEFINE Words(i) == IF \E l \in 1 .. d + 1 : deeper[l] = i THEN OpenWords(nodes'[i])
                       ELSE NodeWords(nodes', i)
<1>9. ASSUME NEW i \in 1 .. n
      PROVE  Words(i) = VisitedWords(at, i)
  <2>1. (\E l \in 1 .. d + 1 : deeper[l] = i) <=> \E l \in 1 .. d : at[l] = i
    <3> HIDE DEF d, n
    <3>1. ASSUME NEW l \in 1 .. d + 1, deeper[l] = i
          PROVE  l \in 1 .. d /\ at[l] = i
      <4>1. l # d + 1
        BY <1>1, <3>1 DEF d, n
      <4> QED
        BY <1>1, <3>1, <4>1 DEF d, n
    <3>2. ASSUME NEW l \in 1 .. d, at[l] = i
          PROVE  l \in 1 .. d + 1 /\ deeper[l] = i
      <4>1. l \in 1 .. d + 1 /\ l # d + 1
        BY <1>1
      <4> QED
        BY <3>2, <4>1 DEF d, n
    <3> QED
      BY <3>1, <3>2
  <2>2. nodes'[i] = nodes[i]
    BY <1>7
  <2>3. CASE \E l \in 1 .. d : at[l] = i
    <3> HIDE DEF d
    <3> QED
      BY <2>1, <2>2, <2>3 DEF VisitedWords, d
  <2>4. CASE ~\E l \in 1 .. d : at[l] = i
    <3>1. Parts(nodes', i) = Parts(nodes, i)
      BY <1>20, <2>4
    <3>2. NodeWords(nodes', i) = NodeWords(nodes, i)
      BY <2>2, <3>1 DEF NodeWords
    <3> HIDE DEF d
    <3> QED
      BY <2>1, <2>4, <3>2 DEF VisitedWords, d
  <2> QED
    BY <2>3, <2>4
<1>10. Words(n + 1) = new
  <2>1. d + 1 \in 1 .. d + 1 /\ deeper[d + 1] = n + 1
    BY <1>1
  <2> QED
    BY <1>7, <2>1
<1>11. /\ further \in [1 .. n + 2 -> Nat]
       /\ further[n + 2] = end + Len(new) /\ further[1] = pos[1]
       /\ \A i \in 1 .. n + 1 : further[i] = pos[i]
  <2> HIDE DEF n, end, new
  <2>1. \A i \in 1 .. n + 1 : further[i] = pos[i]
    BY <1>1 DEF n
  <2>2. further[n + 2] = end + Len(new)
    BY <1>1, <1>6 DEF n
  <2>3. \A i \in 1 .. n + 2 : i \in 1 .. n + 1 \/ i = n + 2
    BY <1>1
  <2>4. \A i \in 1 .. n + 2 : further[i] \in Nat
    <3>1. \A i \in 1 .. n + 1 : further[i] \in Nat
      BY <1>2, <2>1 DEF n
    <3>2. further[n + 2] \in Nat
      BY <1>1, <1>5, <2>2
    <3> QED
      BY <2>3, <3>1, <3>2
  <2>5. further \in [1 .. n + 2 -> Nat] /\ 1 \in 1 .. n + 1
    BY <1>1, <2>4 DEF n
  <2> QED
    BY <2>1, <2>2, <2>5
<1> HIDE DEF new, end, Words
<1>12. ASSUME NEW i \in 1 .. n + 1
       PROVE  /\ further[i + 1] = further[i] + Len(Words(i))
              /\ \A k \in 1 .. Len(Words(i)) : values'[further[i] + k] = Words(i)[k]
  <2>1. CASE i = n + 1
    <3>1. further[i] = end /\ further[i + 1] = end + Len(new) /\ Words(i) = new
      BY <1>1, <1>3, <1>10, <1>11, <2>1
    <3> QED
      BY <1>6, <3>1
  <2>2. CASE i # n + 1
    <3>1. i \in 1 .. n /\ i \in 1 .. n + 1 /\ i + 1 \in 1 .. n + 1
      <4> HIDE DEF n
      <4> QED
        BY <1>1, <2>2
    <3>2. further[i] = pos[i] /\ further[i + 1] = pos[i + 1]
          /\ Words(i) = VisitedWords(at, i)
      BY <1>9, <1>11, <3>1
    <3>3. ASSUME NEW k \in 1 .. Len(VisitedWords(at, i))
          PROVE  values'[pos[i] + k] = VisitedWords(at, i)[k]
      <4>1. pos[i] \in Nat /\ pos[i + 1] = pos[i] + Len(VisitedWords(at, i))
            /\ pos[i + 1] <= end /\ Len(VisitedWords(at, i)) \in Nat
        BY <1>2, <3>1
      <4>2. pos[i] + k \in 1 .. end
        <5> DEFINE m == Len(VisitedWords(at, i))
                   p == pos[i]
                   q == pos[i + 1]
        <5>1. p \in Nat /\ m \in Nat /\ k \in 1 .. m /\ q = p + m /\ q <= end
              /\ end \in Nat
          BY <1>1, <4>1
        <5> HIDE DEF m, p, q
        <5>2. p + k \in 1 .. end
          BY <5>1
        <5> QED
          BY <5>2 DEF p
      <4>3. values[pos[i] + k] = VisitedWords(at, i)[k]
        BY <1>3, <3>1
      <4> QED
        BY <1>6, <4>2, <4>3
    <3>4. pos[i + 1] = pos[i] + Len(VisitedWords(at, i))
      BY <1>2, <3>1
    <3> QED
      BY <3>2, <3>3, <3>4
  <2> QED
    BY <2>1, <2>2
<1>13. ASSUME NEW l \in 1 .. d + 1
       PROVE  /\ open'[l + 1].type # POINT =>
                   sizePos'[l] = further[deeper[l]] + CountPlace(open'[l + 1].type)
              /\ open'[l + 1].type # RING => dimensions'[l] = nodes'[deeper[l]].dims
  <2>1. CASE l = d + 1
    <3>1. deeper[l] = n + 1 /\ l + 1 = d + 2 /\ n + 1 \in 1 .. n + 1
      BY <1>1, <2>1
    <3>2. further[n + 1] = end
      BY <1>3, <1>11, <3>1
    <3> QED
      BY <1>4, <1>7, <1>8, <2>1, <3>1, <3>2 DEF end
  <2>2. CASE l # d + 1
    <3>1. l \in 1 .. d /\ deeper[l] = at[l] /\ at[l] \in 1 .. n /\ at[l] \in 1 .. n + 1
      BY <1>1, <2>2
    <3>2. further[at[l]] = pos[at[l]] /\ nodes'[at[l]] = nodes[at[l]]
      BY <1>7, <1>11, <3>1
    <3>3. /\ open[l + 1].type # POINT =>
               sizePos[l] = pos[at[l]] + CountPlace(open[l + 1].type)
          /\ open[l + 1].type # RING => dimensions[l] = nodes[at[l]].dims
          /\ open'[l + 1].type = open[l + 1].type
          /\ sizePos'[l] = sizePos[l] /\ dimensions'[l] = dimensions[l]
      BY <1>3, <1>8, <3>1
    <3> QED
      BY <3>1, <3>2, <3>3
  <2> QED
    BY <2>1, <2>2
<1>14. \A i : VisitedWords(deeper, i)' = Words(i)
  BY <1>8 DEF VisitedWords, Words
<1>15. Len(nodes') + 1 = n + 2
  <2> HIDE DEF n
  <2> QED
    BY <1>1, <1>7
<1>16. further \in [1 .. Len(nodes') + 1 -> Nat]
  BY <1>11, <1>15
<1>17. further[1] = offsets'[Len(offsets')] /\ further[Len(nodes') + 1] = Len(values')
  BY <1>3, <1>6, <1>11, <1>15
<1>18. \A i \in 1 .. Len(nodes') :
         /\ further[i + 1] = further[i] + Len(VisitedWords(deeper, i)')
         /\ \A k \in 1 .. Len(VisitedWords(deeper, i)') :
              values'[further[i] + k] = VisitedWords(deeper, i)'[k]
  <2>1. ASSUME NEW i \in 1 .. n + 1
        PROVE  /\ further[i + 1] = further[i] + Len(VisitedWords(deeper, i)')
               /\ \A k \in 1 .. Len(VisitedWords(deeper, i)') :
                    values'[further[i] + k] = VisitedWords(deeper, i)'[k]
    <3> DEFINE visited == VisitedWords(deeper, i)'
    <3>1. visited = Words(i)
      BY <1>14
    <3> HIDE DEF visited
    <3>2. /\ further[i + 1] = further[i] + Len(visited)
          /\ \A k \in 1 .. Len(visited) : values'[further[i] + k] = visited[k]
      <4> HIDE DEF n
      <4> QED
        <5>1. /\ further[i + 1] = further[i] + Len(Words(i))
              /\ \A k \in 1 .. Len(Words(i)) : values'[further[i] + k] = Words(i)[k]
          BY <1>12
        <5> QED
          BY <3>1, <5>1
    <3> QED
      BY <3>2 DEF visited
  <2>2. Len(nodes') = n + 1
    BY <1>7
  <2> HIDE DEF n
  <2> QED
    BY <2>1, <2>2
<1>19. \A l \in 1 .. Depth' :
         /\ open'[l + 1].type # POINT =>
              sizePos'[l] = further[deeper[l]] + CountPlace(open'[l + 1].type)
         /\ open'[l + 1].type # RING => dimensions'[l] = nodes'[deeper[l]].dims
  BY <1>8, <1>13
<1> QED
  BY <1>16, <1>17, <1>18, <1>19 DEF Stored

(* Coordinates go behind the words of the node they belong to. *)
LEMMA MoreWords ==
  ASSUME NEW node \in NodeSet, HoldsCoords(node.type), NEW n \in Nat, NEW x \in Nat,
         NEW longer, longer = [node EXCEPT !.xs = @ \o [k \in 1 .. n |-> x]]
  PROVE  /\ OpenWords(longer) = OpenWords(node) \o [k \in 1 .. n |-> CoordWord(x, node.dims)]
         /\ longer \in NodeSet
<1> DEFINE xs == node.xs
           new == [k \in 1 .. n |-> x]
           dims == node.dims
           word(v) == CoordWord(v, dims)
           more == [k \in 1 .. n |-> word(x)]
           seq == Sequence(node)
<1>1. /\ xs \in Seq(Nat) /\ Len(xs) \in Nat /\ seq \in Seq(Word) /\ Len(seq) = Len(xs)
      /\ \A k \in 1 .. Len(xs) : seq[k] = word(xs[k])
  BY SequenceType
<1>2. new \in Seq(Nat) /\ Len(new) = n /\ \A k \in 1 .. n : new[k] = x
  OBVIOUS
<1>3. longer.xs = xs \o new /\ longer.type = node.type /\ longer.dims = dims
  <2> HIDE DEF new
  <2>1. longer = [node EXCEPT !.xs = @ \o new]
    BY DEF new
  <2> QED
    BY <2>1 DEF NodeSet
<1>4. longer \in NodeSet
  <2> HIDE DEF new
  <2>1. longer = [node EXCEPT !.xs = xs \o new]
    BY DEF new
  <2> DEFINE ys == xs \o new
  <2>2. ys \in Seq(Nat)
    <3> HIDE DEF xs
    <3> QED
      BY <1>1, <1>2
  <2> HIDE DEF ys
  <2>3. longer = [node EXCEPT !.xs = ys]
    BY <2>1 DEF ys
  <2> QED
    BY <2>2, <2>3 DEF NodeSet
<1>5. word(x) \in Word /\ more \in Seq(Word) /\ Len(more) = n
      /\ \A k \in 1 .. n : more[k] = word(x)
  <2>1. word(x) \in Word
    BY DEF CoordWord, Word, NumDimensions
  <2> HIDE DEF word
  <2> QED
    BY <2>1
<1>6. /\ Sequence(longer) \in Seq(Word) /\ Len(Sequence(longer)) = Len(longer.xs)
      /\ \A k \in 1 .. Len(longer.xs) : Sequence(longer)[k] = CoordWord(longer.xs[k], longer.dims)
  BY <1>4, SequenceType
<1>7. Sequence(longer) = seq \o more
  <2> DEFINE t == Sequence(longer)
             ys == xs \o new
  <2>1. /\ t \in Seq(Word) /\ Len(t) = Len(ys)
        /\ \A k \in 1 .. Len(ys) : t[k] = word(ys[k])
    <3> HIDE DEF new, word
    <3> QED
      BY <1>3, <1>6 DEF word
  <2>2. /\ Len(ys) = Len(xs) + n
        /\ \A k \in 1 .. Len(xs) : ys[k] = xs[k]
        /\ \A k \in 1 .. n : ys[Len(xs) + k] = x
    <3> HIDE DEF xs, new
    <3>3. xs \in Seq(Nat) /\ new \in Seq(Nat)
      BY <1>1, <1>2
    <3>1. /\ Len(xs \o new) = Len(xs) + Len(new)
          /\ \A k \in 1 .. Len(xs) : (xs \o new)[k] = xs[k]
      BY <3>3
    <3>2. ASSUME NEW k \in 1 .. n
          PROVE  (xs \o new)[Len(xs) + k] = x
      <4>1. Len(xs) + k \in 1 .. Len(xs) + n /\ Len(xs) + k > Len(xs)
            /\ (Len(xs) + k) - Len(xs) = k
        BY <1>1
      <4>2. (xs \o new)[Len(xs) + k] = new[k]
        BY <1>1, <1>2, <4>1
      <4> QED
        BY <1>2, <4>2
    <3> QED
      BY <1>2, <3>1, <3>2
  <2>3. /\ seq \o more \in Seq(Word) /\ Len(seq \o more) = Len(seq) + n
        /\ \A k \in 1 .. Len(seq) : (seq \o more)[k] = seq[k]
        /\ \A k \in 1 .. n : (seq \o more)[Len(seq) + k] = word(x)
    <3> HIDE DEF seq, more, word
    <3> QED
      BY <1>1, <1>5
  <2> DEFINE u == seq \o more
             len == Len(xs)
  <2> HIDE DEF xs, new, more, seq, t, ys, word, u, len
  <2>4. ASSUME NEW k \in 1 .. Len(t)
        PROVE  t[k] = u[k]
    <3>1. len \in Nat /\ Len(t) = len + n
      BY <1>1, <2>1, <2>2 DEF len
    <3>2. CASE k <= len
      <4>1. k \in 1 .. len
        BY <3>1, <3>2
      <4> QED
        BY <1>1, <2>1, <2>2, <2>3, <4>1 DEF len, u
    <3>3. CASE k > len
      <4>1. k - len \in 1 .. n /\ k = len + (k - len)
        BY <3>1, <3>3
      <4>2. PICK j \in 1 .. n : k = len + j
        BY <4>1
      <4>3. t[k] = word(ys[k]) /\ ys[k] = x
        BY <2>1, <2>2, <4>2 DEF len
      <4>4. u[k] = word(x)
        BY <1>1, <2>3, <4>2 DEF len, u
      <4> QED
        BY <4>3, <4>4
    <3> QED
      BY <3>1, <3>2, <3>3
  <2>5. u \in Seq(Word) /\ Len(u) = Len(t)
    BY <1>1, <2>1, <2>2, <2>3 DEF u
  <2>6. t = u
    BY <2>1, <2>4, <2>5
  <2> QED
    BY <2>6 DEF t, u
<1>8. /\ node.type = RING => /\ OpenWords(node) = << CountWord(0) >> \o seq
                             /\ OpenWords(longer) = << CountWord(0) >> \o (seq \o more)
      /\ node.type = POINT =>
           /\ OpenWords(node) = << HeadWord(node.type, dims) >> \o seq
           /\ OpenWords(longer) = << HeadWord(node.type, dims) >> \o (seq \o more)
      /\ node.type = LINESTRING =>
           /\ OpenWords(node) = << HeadWord(node.type, dims) >> \o (<< CountWord(0) >> \o seq)
           /\ OpenWords(longer) =
                << HeadWord(node.type, dims) >> \o (<< CountWord(0) >> \o (seq \o more))
  <2>1. /\ node.type = RING => OpenWords(node) = << CountWord(0) >> \o seq
        /\ node.type = POINT => OpenWords(node) = << HeadWord(node.type, dims) >> \o seq
        /\ node.type = LINESTRING =>
             OpenWords(node) = << HeadWord(node.type, dims) >> \o (<< CountWord(0) >> \o seq)
    BY OpenWordsAre
  <2>2. LET s == Sequence(longer)
        IN /\ longer.type = RING => OpenWords(longer) = << CountWord(0) >> \o s
           /\ longer.type = POINT => OpenWords(longer) = << HeadWord(longer.type, longer.dims) >> \o s
           /\ longer.type = LINESTRING =>
                OpenWords(longer) = << HeadWord(longer.type, longer.dims) >> \o (<< CountWord(0) >> \o s)
    BY <1>4, OpenWordsAre
  <2> HIDE DEF seq, more
  <2> QED
    BY <1>3, <1>7, <2>1, <2>2
<1> DEFINE h == HeadWord(node.type, dims)
           c == CountWord(0)
<1> HIDE DEF h, c, seq, more
<1>9. ASSUME NEW w
      PROVE  << w >> \o (seq \o more) = (<< w >> \o seq) \o more
  <2>1. seq \in Seq(Word \cup {w}) /\ more \in Seq(Word \cup {w}) /\ << w >> \in Seq(Word \cup {w})
    BY <1>1, <1>5
  <2> QED
    BY <2>1
<1>10. << h >> \o (<< c >> \o (seq \o more)) = (<< h >> \o (<< c >> \o seq)) \o more
  <2>1. << c >> \o (seq \o more) = (<< c >> \o seq) \o more
    BY <1>9
  <2> DEFINE s == << c >> \o seq
             V == Word \cup {c} \cup {h}
  <2>2. seq \in Seq(V) /\ more \in Seq(V) /\ << c >> \in Seq(V) /\ << h >> \in Seq(V)
    BY <1>1, <1>5
  <2> HIDE DEF V
  <2>3. s \in Seq(V)
    BY <2>2
  <2> HIDE DEF s
  <2>4. << h >> \o (s \o more) = (<< h >> \o s) \o more
    BY <2>2, <2>3
  <2> QED
    BY <2>1, <2>4 DEF s
<1>11. OpenWords(longer) = OpenWords(node) \o more
  <2>1. node.type \in {POINT, LINESTRING, RING}
    BY DEF HoldsCoords
  <2> QED
    BY <1>8, <1>9, <1>10, <2>1 DEF h, c
<1> QED
  BY <1>4, <1>11 DEF more

(* The positions pos with the last of them, the k-th, moved to end. *)
EndAt(pos, k, end) == [pos EXCEPT ![k] = end]

(* The words that lie behind one another in v, the i-th after pos[i]. *)
Placed(v, pos, m, words) ==
  /\ pos[m + 1] = Len(v)
  /\ \A i \in 1 .. m :
       /\ pos[i + 1] = pos[i] + Len(words[i])
       /\ \A k \in 1 .. Len(words[i]) : v[pos[i] + k] = words[i][k]

(* They still do when the last of them grows at the end of v. *)
LEMMA LastGrows ==
  ASSUME NEW v \in Seq(Word), NEW more \in Seq(Word), NEW m \in Nat \ {0},
         NEW old \in [1 .. m -> Seq(Word)], NEW new,
         \A i \in 1 .. m - 1 : new[i] = old[i], new[m] = old[m] \o more,
         NEW pos \in [1 .. m + 1 -> Nat], Placed(v, pos, m, old),
         \A i \in 1 .. m : pos[i + 1] <= Len(v)
  PROVE  LET further == EndAt(pos, m + 1, Len(v \o more))
         IN /\ further \in [1 .. m + 1 -> Nat]
            /\ \A i \in 1 .. m : further[i] = pos[i]
            /\ Placed(v \o more, further, m, new)
<1> DEFINE n == Len(more)
           end == Len(v)
           w == v \o more
           further == EndAt(pos, m + 1, Len(w))
<1>1. m \in Nat \ {0} /\ n \in Nat /\ end \in Nat
  OBVIOUS
<1>2. /\ Len(w) = end + n
      /\ \A i \in 1 .. end : w[i] = v[i]
      /\ \A k \in 1 .. n : w[end + k] = more[k]
  OBVIOUS
<1>3. /\ pos[m + 1] = end
      /\ \A i \in 1 .. m :
           /\ pos[i + 1] = pos[i] + Len(old[i])
           /\ \A k \in 1 .. Len(old[i]) : v[pos[i] + k] = old[i][k]
  BY DEF Placed
<1>4. \A i \in 1 .. m : old[i] \in Seq(Word) /\ Len(old[i]) \in Nat
  <2>1. \A i \in 1 .. m : old[i] \in Seq(Word)
    OBVIOUS
  <2>2. \A s \in Seq(Word) : Len(s) \in Nat
    OBVIOUS
  <2> QED
    BY <2>1, <2>2
<1>5. \A i \in 1 .. m : pos[i + 1] <= end
  OBVIOUS
<1> HIDE DEF n, end, w
<1>7. /\ further \in [1 .. m + 1 -> Nat] /\ further[m + 1] = end + n
      /\ \A i \in 1 .. m : further[i] = pos[i]
  <2>1. further = [pos EXCEPT ![m + 1] = end + n]
    BY <1>2 DEF EndAt
  <2>2. end + n \in Nat /\ m + 1 \in 1 .. m + 1
        /\ \A i \in 1 .. m : i \in 1 .. m + 1 /\ i # m + 1
    BY <1>1
  <2> HIDE DEF further
  <2> QED
    BY <2>1, <2>2
<1> HIDE DEF further
<1>8. ASSUME NEW i \in 1 .. m
      PROVE  /\ further[i + 1] = further[i] + Len(new[i])
             /\ \A k \in 1 .. Len(new[i]) : w[further[i] + k] = new[i][k]
  <2> DEFINE p == pos[i]
             q == pos[i + 1]
             s == old[i]
             len == Len(s)
             both == s \o more
  <2>1. p \in Nat /\ len \in Nat /\ q = p + len /\ q <= end /\ s \in Seq(Word)
    <3>1. i \in 1 .. m + 1
      BY <1>1
    <3> QED
      BY <1>3, <1>4, <1>5, <3>1
  <2>2. \A k \in 1 .. len : v[p + k] = s[k]
    BY <1>3
  <2>3. further[i] = p
    BY <1>7
  <2>4. i = m => new[i] = both /\ q = end /\ further[i + 1] = end + n
    BY <1>3, <1>7
  <2>5. i # m => new[i] = s /\ further[i + 1] = q
    <3>1. i # m => i \in 1 .. m - 1 /\ i + 1 \in 1 .. m
      BY <1>1
    <3> QED
      BY <1>7, <3>1
  <2> HIDE DEF p, q, s
  <2>6. /\ Len(both) = len + n
        /\ \A k \in 1 .. len : both[k] = s[k]
        /\ \A k \in 1 .. n : both[len + k] = more[k]
    <3>1. s \in Seq(Word) /\ more \in Seq(Word)
      BY <2>1
    <3>2. /\ Len(s \o more) = Len(s) + Len(more)
          /\ \A k \in 1 .. Len(s) : (s \o more)[k] = s[k]
          /\ \A k \in 1 .. Len(more) : (s \o more)[Len(s) + k] = more[k]
      BY <3>1
    <3> QED
      BY <3>2 DEF n
  <2> HIDE DEF len, both
  <2>7. ASSUME NEW k \in 1 .. len
        PROVE  w[p + k] = s[k]
    <3>1. p \in Nat /\ len \in Nat /\ q = p + len /\ q <= end /\ end \in Nat
      BY <1>1, <2>1
    <3>2. p + k \in 1 .. end
      BY <3>1
    <3> QED
      BY <1>2, <2>2, <3>2
  <2>8. CASE i = m
    <3>1. /\ p \in Nat /\ len \in Nat /\ p + len = end /\ n \in Nat
          /\ further[i + 1] = end + n
      BY <1>1, <2>1, <2>4, <2>8
    <3>2. further[i + 1] = p + Len(both)
      <4>1. Len(both) = len + n
        BY <2>6
      <4> QED
        BY <3>1, <4>1
    <3>3. ASSUME NEW k \in 1 .. len + n
          PROVE  w[p + k] = both[k]
      <4>1. CASE k <= len
        <5>1. k \in 1 .. len
          BY <3>1, <4>1
        <5> QED
          BY <2>6, <2>7, <5>1
      <4>2. CASE k > len
        <5>1. PICK j \in 1 .. n : k = len + j
          <6>1. k - len \in 1 .. n /\ k = len + (k - len)
            BY <3>1, <4>2
          <6> QED
            BY <6>1
        <5>2. p + k = end + j
          BY <3>1, <5>1
        <5> QED
          BY <1>2, <2>6, <5>1, <5>2
      <4>3. k <= len \/ k > len
        <5>1. len \in Int /\ k \in Int
          BY <3>1
        <5> QED
          BY <5>1
      <4> QED
        BY <4>1, <4>2, <4>3
    <3>4. new[i] = both /\ further[i] = p /\ Len(both) = len + n
      BY <2>3, <2>4, <2>6, <2>8
    <3> QED
      BY <3>2, <3>3, <3>4
  <2>9. CASE i # m
    <3>1. new[i] = s /\ further[i + 1] = q /\ further[i] = p /\ q = p + len
      BY <2>1, <2>3, <2>5, <2>9
    <3> QED
      BY <2>7, <3>1 DEF len
  <2> QED
    BY <2>8, <2>9
<1>9. further[m + 1] = Len(w)
  BY <1>2, <1>7
<1>10. Placed(w, further, m, new)
  BY <1>8, <1>9 DEF Placed
<1> QED
  BY <1>7, <1>10 DEF w, further

(* The same for the words of the nodes. *)
LEMMA WordsGrow ==
  ASSUME ProtocolTypeOK, Nesting, open # << >>, NEW at, Tracks(at), values \in Seq(Word),
         NEW pos, Stored(at, pos), Len(nodes) # 0, NEW more \in Seq(Word),
         NEW words,
         \A i \in 1 .. Len(nodes) - 1 : words[i] = VisitedWords(at, i),
         words[Len(nodes)] = VisitedWords(at, Len(nodes)) \o more,
         values' = values \o more
  PROVE  LET further == EndAt(pos, Len(nodes) + 1, Len(values'))
         IN /\ further \in [1 .. Len(nodes) + 1 -> Nat]
            /\ \A i \in 1 .. Len(nodes) : further[i] = pos[i]
            /\ Placed(values', further, Len(nodes), words)
<1> DEFINE m == Len(nodes)
           old == [i \in 1 .. m |-> VisitedWords(at, i)]
           further == EndAt(pos, m + 1, Len(values \o more))
<1>1. /\ m \in Nat \ {0} /\ m \in 1 .. m
      /\ \A i \in 1 .. m : VisitedWords(at, i) \in Seq(Word) /\ pos[i + 1] <= Len(values)
      /\ \A i \in 1 .. m : pos[i + 1] = pos[i] + Len(VisitedWords(at, i))
  <2>1. m \in Nat /\ m # 0
    BY DEF ProtocolTypeOK
  <2>2. \A i \in 1 .. m : /\ VisitedWords(at, i) \in Seq(Word) /\ pos[i + 1] <= Len(values)
                          /\ pos[i + 1] = pos[i] + Len(VisitedWords(at, i))
    BY StoredInside
  <2>3. m \in 1 .. m
    BY <2>1
  <2> QED
    BY <2>1, <2>2, <2>3
<1>2. /\ pos \in [1 .. m + 1 -> Nat] /\ pos[m + 1] = Len(values)
      /\ \A i \in 1 .. m : \A k \in 1 .. Len(VisitedWords(at, i)) :
           values[pos[i] + k] = VisitedWords(at, i)[k]
  BY DEF Stored
<1>3. old \in [1 .. m -> Seq(Word)] /\ \A i \in 1 .. m : old[i] = VisitedWords(at, i)
  BY <1>1
<1>4. /\ \A i \in 1 .. m - 1 : words[i] = VisitedWords(at, i)
      /\ words[m] = VisitedWords(at, m) \o more
  OBVIOUS
<1> HIDE DEF m, old
<1>5. Placed(values, pos, m, old)
  <2>1. ASSUME NEW i \in 1 .. m
        PROVE  /\ pos[i + 1] = pos[i] + Len(old[i])
               /\ \A k \in 1 .. Len(old[i]) : values[pos[i] + k] = old[i][k]
    <3>1. /\ pos[i + 1] = pos[i] + Len(VisitedWords(at, i))
          /\ \A k \in 1 .. Len(VisitedWords(at, i)) :
               values[pos[i] + k] = VisitedWords(at, i)[k]
      BY <1>1, <1>2
    <3>2. old[i] = VisitedWords(at, i)
      BY <1>3
    <3> QED
      BY <3>1, <3>2
  <2> QED
    BY <1>2, <2>1 DEF Placed
<1>6. /\ \A i \in 1 .. m - 1 : words[i] = old[i]
      /\ words[m] = old[m] \o more
      /\ \A i \in 1 .. m : pos[i + 1] <= Len(values)
  <2>1. \A i \in 1 .. m - 1 : i \in 1 .. m
    BY <1>1
  <2> QED
    BY <1>1, <1>3, <1>4, <2>1
<1>7. /\ further \in [1 .. m + 1 -> Nat]
      /\ \A i \in 1 .. m : further[i] = pos[i]
      /\ Placed(values \o more, further, m, words)
  <2>1. m \in Nat \ {0}
    BY <1>1
  <2> QED
    BY <1>2, <1>3, <1>5, <1>6, <2>1, LastGrows
<1> QED
  BY <1>7 DEF m

(* Coordinates are appended to the words of the innermost node. *)
LEMMA CoordsStored ==
  ASSUME ProtocolTypeOK, Nesting, NEW at, Tracks(at), values \in Seq(Word),
         NEW pos, Stored(at, pos), NEW n \in Nat, ReadCoords(n),
         values' = values \o [i \in 1 .. n |-> CoordWord(Label, nodes[Len(nodes)].dims)],
         UNCHANGED << offsets, sizePos, dimensions >>,
         NEW further, further = EndAt(pos, Len(nodes) + 1, Len(values'))
  PROVE  Stored(at, further)'
<1> DEFINE m == Len(nodes)
           d == Depth
           last == nodes[m]
           x == Label
           more == [i \in 1 .. n |-> CoordWord(x, last.dims)]
           end == Len(values)
<1>1. open # << >>
  BY EmptySeq DEF ReadCoords, InGeometry
<1>2. /\ m \in Nat /\ nodes \in Seq(NodeSet) /\ d \in Nat /\ Len(open) = d + 1
      /\ \A l \in 1 .. d : at[l] \in 1 .. m
      /\ end \in Nat
  BY <1>1, TracksTypes
<1>3. /\ Tracks(at)' /\ Depth' = d /\ d \in Nat \ {0}
      /\ at[d] = m /\ Len(nodes') = m
      /\ \A i \in 1 .. m - 1 : nodes'[i] = nodes[i]
      /\ nodes'[m] = [last EXCEPT !.xs = @ \o [k \in 1 .. n |-> x]]
      /\ \A l \in 1 .. d - 1 : at[l] \in 1 .. m - 1
      /\ \A i \in 1 .. m : Parts(nodes', i) = Parts(nodes, i)
  BY TracksCoords
<1>4. d \in 1 .. d /\ m \in 1 .. m /\ last \in NodeSet /\ x \in Nat
      /\ HoldsCoords(last.type)
  <2>1. d \in 1 .. d /\ m \in 1 .. m /\ last \in NodeSet
    BY <1>2, <1>3
  <2>2. x \in Nat
    BY LabelType
  <2>3. last.type = open[d + 1].type
    BY <1>3, <2>1 DEF Tracks
  <2>4. HoldsCoords(last.type)
    BY <1>2, <2>3 DEF ReadCoords, Top
  <2> QED
    BY <2>1, <2>2, <2>4
<1>5. OpenWords(nodes'[m]) = OpenWords(last) \o more /\ nodes'[m] \in NodeSet
  <2> DEFINE longer == nodes'[m]
  <2>1. longer = [last EXCEPT !.xs = @ \o [k \in 1 .. n |-> x]]
    BY <1>3
  <2> HIDE DEF longer, last, x
  <2>2. OpenWords(longer) = OpenWords(last) \o [k \in 1 .. n |-> CoordWord(x, last.dims)]
        /\ longer \in NodeSet
    BY <1>4, <2>1, MoreWords
  <2> QED
    BY <2>2 DEF longer
<1>6. /\ more \in Seq(Word) /\ Len(more) = n
      /\ OpenWords(last) \in Seq(Word) /\ Len(OpenWords(last)) \in Nat
  <2>1. CoordWord(x, last.dims) \in Word
    BY <1>4 DEF CoordWord, Word, NumDimensions
  <2>2. more \in Seq(Word) /\ Len(more) = n
    <3> DEFINE w == CoordWord(x, last.dims)
    <3> HIDE DEF w
    <3>1. [i \in 1 .. n |-> w] \in Seq({w}) /\ Len([i \in 1 .. n |-> w]) = n
      OBVIOUS
    <3> QED
      BY <2>1, <3>1 DEF w
  <2>3. OpenWords(last) \in Seq(Word)
    BY <1>4, OpenWordsAre
  <2> QED
    BY <2>2, <2>3
<1>7. /\ \A i \in 1 .. m + 1 : pos[i] \in Nat
      /\ \A i, j \in 1 .. m + 1 : i <= j => pos[i] <= pos[j]
      /\ \A i \in 1 .. m : /\ Len(VisitedWords(at, i)) \in Nat
                           /\ pos[i + 1] = pos[i] + Len(VisitedWords(at, i))
                           /\ pos[i + 1] <= end
  BY <1>1, StoredInside
<1>8. /\ pos \in [1 .. m + 1 -> Nat]
      /\ pos[1] = offsets[Len(offsets)] /\ pos[m + 1] = end
      /\ \A i \in 1 .. m : \A k \in 1 .. Len(VisitedWords(at, i)) :
           values[pos[i] + k] = VisitedWords(at, i)[k]
      /\ \A l \in 1 .. d :
           /\ open[l + 1].type # POINT =>
                sizePos[l] = pos[at[l]] + CountPlace(open[l + 1].type)
           /\ open[l + 1].type # RING => dimensions[l] = nodes[at[l]].dims
  BY DEF Stored
<1>10. VisitedWords(at, m) = OpenWords(last)
  BY <1>3, <1>4 DEF VisitedWords
<1> DEFINE Words(i) == IF \E l \in 1 .. d : at[l] = i THEN OpenWords(nodes'[i])
                       ELSE NodeWords(nodes', i)
<1>11. Words(m) = OpenWords(last) \o more
  BY <1>3, <1>4, <1>5
<1>12. ASSUME NEW i \in 1 .. m - 1
       PROVE  Words(i) = VisitedWords(at, i)
  <2>1. nodes'[i] = nodes[i] /\ Parts(nodes', i) = Parts(nodes, i)
    BY <1>2, <1>3
  <2>2. NodeWords(nodes', i) = NodeWords(nodes, i)
    BY <2>1 DEF NodeWords
  <2> QED
    BY <2>1, <2>2 DEF VisitedWords
<1>13. /\ further \in [1 .. m + 1 -> Nat]
       /\ \A i \in 1 .. m : further[i] = pos[i]
       /\ further[m + 1] = Len(values')
       /\ \A i \in 1 .. m :
            /\ further[i + 1] = further[i] + Len(Words(i))
            /\ \A k \in 1 .. Len(Words(i)) : values'[further[i] + k] = Words(i)[k]
  <2> DEFINE words == [i \in 1 .. m |-> Words(i)]
  <2>1. \A i \in 1 .. m : words[i] = Words(i)
    OBVIOUS
  <2>2. Len(nodes) # 0 /\ values' = values \o more
    BY <1>4
  <2> HIDE DEF words, Words, more
  <2>3. /\ \A i \in 1 .. m - 1 : words[i] = VisitedWords(at, i)
        /\ words[m] = VisitedWords(at, m) \o more
    <3>1. \A i \in 1 .. m - 1 : i \in 1 .. m
      BY <1>2
    <3> QED
      BY <1>4, <1>10, <1>11, <1>12, <2>1, <3>1
  <2>4. LET longer == EndAt(pos, Len(nodes) + 1, Len(values'))
        IN /\ longer \in [1 .. Len(nodes) + 1 -> Nat]
           /\ \A i \in 1 .. Len(nodes) : longer[i] = pos[i]
           /\ Placed(values', longer, Len(nodes), words)
    <3>1. more \in Seq(Word)
      BY <1>6
    <3> QED
      BY <1>1, <2>2, <2>3, <3>1, WordsGrow
  <2>5. /\ further \in [1 .. m + 1 -> Nat]
        /\ \A i \in 1 .. m : further[i] = pos[i]
        /\ Placed(values', further, m, words)
    BY <2>4
  <2> HIDE DEF m, end
  <2>6. /\ further[m + 1] = Len(values')
        /\ \A i \in 1 .. m :
             /\ further[i + 1] = further[i] + Len(words[i])
             /\ \A k \in 1 .. Len(words[i]) : values'[further[i] + k] = words[i][k]
    BY <2>5 DEF Placed
  <2>7. ASSUME NEW i \in 1 .. m
        PROVE  /\ further[i + 1] = further[i] + Len(Words(i))
               /\ \A k \in 1 .. Len(Words(i)) : values'[further[i] + k] = Words(i)[k]
    <3>1. words[i] = Words(i)
      BY <2>1
    <3>2. /\ further[i + 1] = further[i] + Len(words[i])
          /\ \A k \in 1 .. Len(words[i]) : values'[further[i] + k] = words[i][k]
      BY <2>6
    <3> QED
      BY <3>1, <3>2
  <2> QED
    BY <2>5, <2>6, <2>7
<1>14. 1 \in 1 .. m /\ further[1] = pos[1]
  BY <1>4, <1>13
<1> HIDE DEF more, end, Words, x
<1>15. ASSUME NEW l \in 1 .. d
       PROVE  /\ open'[l + 1].type # POINT =>
                   sizePos'[l] = further[at[l]] + CountPlace(open'[l + 1].type)
              /\ open'[l + 1].type # RING => dimensions'[l] = nodes'[at[l]].dims
  <2>1. open'[l + 1].type = open[l + 1].type
    <3>2. l + 1 \in 1 .. Len(open)
      BY <1>2
    <3>1. l + 1 \in 1 .. Len(open) /\ open' = Counted(n)
      BY <3>2 DEF ReadCoords
    <3> QED
      BY <1>1, <3>1, CountedType
  <2>2. at[l] \in 1 .. m /\ further[at[l]] = pos[at[l]]
    BY <1>2, <1>13
  <2>3. nodes'[at[l]].dims = nodes[at[l]].dims
    <3>1. CASE at[l] = m
      <4>1. nodes'[m].dims = last.dims
        BY <1>3, <1>4 DEF NodeSet
      <4> QED
        BY <3>1, <4>1
    <3>2. CASE at[l] # m
      <4>1. at[l] \in 1 .. m - 1
        <5> HIDE DEF m
        <5> QED
          BY <1>2, <2>2, <3>2
      <4> QED
        BY <1>3, <4>1
    <3> QED
      BY <3>1, <3>2
  <2> QED
    BY <1>8, <2>1, <2>2, <2>3
<1>16. \A i : VisitedWords(at, i)' = Words(i)
  BY <1>3 DEF VisitedWords, Words
<1>17. further \in [1 .. Len(nodes') + 1 -> Nat]
  BY <1>3, <1>13
<1>18. further[1] = offsets'[Len(offsets')] /\ further[Len(nodes') + 1] = Len(values')
  BY <1>3, <1>8, <1>13, <1>14
<1>19. \A i \in 1 .. Len(nodes') :
         /\ further[i + 1] = further[i] + Len(VisitedWords(at, i)')
         /\ \A k \in 1 .. Len(VisitedWords(at, i)') :
              values'[further[i] + k] = VisitedWords(at, i)'[k]
  <2>1. ASSUME NEW i \in 1 .. m
        PROVE  /\ further[i + 1] = further[i] + Len(VisitedWords(at, i)')
               /\ \A k \in 1 .. Len(VisitedWords(at, i)') :
                    values'[further[i] + k] = VisitedWords(at, i)'[k]
    <3> DEFINE visited == VisitedWords(at, i)'
    <3>1. visited = Words(i)
      BY <1>16
    <3> HIDE DEF visited
    <3>2. /\ further[i + 1] = further[i] + Len(visited)
          /\ \A k \in 1 .. Len(visited) : values'[further[i] + k] = visited[k]
      <4>1. /\ further[i + 1] = further[i] + Len(Words(i))
            /\ \A k \in 1 .. Len(Words(i)) : values'[further[i] + k] = Words(i)[k]
        BY <1>13
      <4> QED
        BY <3>1, <4>1
    <3> QED
      BY <3>2 DEF visited
  <2>2. Len(nodes') = m
    BY <1>3
  <2> HIDE DEF m
  <2> QED
    BY <2>1, <2>2
<1>20. \A l \in 1 .. Depth' :
         /\ open'[l + 1].type # POINT =>
              sizePos'[l] = further[at[l]] + CountPlace(open'[l + 1].type)
         /\ open'[l + 1].type # RING => dimensions'[l] = nodes'[at[l]].dims
  BY <1>3, <1>15
<1> QED
  BY <1>17, <1>18, <1>19, <1>20 DEF Stored

(* When a level is left, only the words of its node change their kind. *)
LEMMA EndWords ==
  ASSUME ProtocolTypeOK, Nesting, InGeometry, NEW at, Tracks(at), ReadPartEnd,
         NEW outer, outer = [l \in 1 .. Depth - 1 |-> at[l]]
  PROVE  /\ \A i \in 1 .. Len(nodes) : VisitedWords(outer, i)' =
              IF i = at[Depth] THEN NodeWords(nodes, i) ELSE VisitedWords(at, i)
         /\ \A i : VisitedWords(outer, i)' =
              IF \E l \in 1 .. Depth - 1 : outer[l] = i THEN OpenWords(nodes[i])
              ELSE NodeWords(nodes, i)
         /\ VisitedWords(at, at[Depth]) = OpenWords(nodes[at[Depth]])
         /\ nodes' = nodes /\ Depth' = Depth - 1 /\ Depth \in Nat \ {0}
         /\ at[Depth] \in 1 .. Len(nodes)
         /\ \A l \in 1 .. Depth - 1 :
              /\ l \in 1 .. Depth /\ outer[l] = at[l] /\ at[l] \in 1 .. at[Depth] - 1
              /\ open'[l + 1] = open[l + 1]
<1> DEFINE d == Depth
           m == Len(nodes)
<1>1. open # << >>
  BY EmptySeq DEF InGeometry
<1>2. /\ d \in Nat /\ m \in Nat /\ Len(open) = d + 1
      /\ \A l \in 1 .. d : at[l] \in 1 .. m
  BY <1>1, TracksTypes
<1>3. Depth' = d - 1 /\ d \in Nat \ {0}
  BY TracksEnd
<1>4. /\ Len(open') = Len(open) - 1
      /\ \A i \in 1 .. Len(open) - 1 : open'[i] = open[i]
      /\ nodes' = nodes
  BY StackPopped DEF ReadPartEnd
<1>5. d \in 1 .. d /\ at[d] \in 1 .. m
  BY <1>2, <1>3
<1>6. ASSUME NEW l \in 1 .. d - 1
      PROVE  /\ l \in 1 .. d /\ outer[l] = at[l] /\ at[l] \in 1 .. at[d] - 1
             /\ open'[l + 1] = open[l + 1]
  <2>1. l \in 1 .. d /\ outer[l] = at[l] /\ l < d
    BY <1>3
  <2>2. at[l] < at[d]
    BY <1>1, <1>5, <2>1, OpenNodesAscend
  <2>3. at[l] \in 1 .. at[d] - 1
    <3>1. at[l] \in Nat /\ at[l] >= 1 /\ at[d] \in Nat
      BY <1>2, <1>5, <2>1
    <3> HIDE DEF d
    <3> QED
      BY <2>2, <3>1
  <2>4. l + 1 \in 1 .. Len(open) - 1
    BY <1>2, <1>3
  <2> QED
    BY <1>4, <2>1, <2>3, <2>4
<1>7. VisitedWords(at, at[d]) = OpenWords(nodes[at[d]])
  BY <1>5 DEF VisitedWords
<1>8. \A i : VisitedWords(outer, i)' =
         IF \E l \in 1 .. d - 1 : outer[l] = i THEN OpenWords(nodes[i])
         ELSE NodeWords(nodes, i)
  BY <1>3, <1>4 DEF VisitedWords
<1>9. ASSUME NEW i \in 1 .. m
      PROVE  VisitedWords(outer, i)' =
               IF i = at[d] THEN NodeWords(nodes, i) ELSE VisitedWords(at, i)
  <2>1. (\E l \in 1 .. d - 1 : outer[l] = i)
          <=> (i # at[d] /\ \E l \in 1 .. d : at[l] = i)
    <3> HIDE DEF d, m
    <3>1. ASSUME NEW l \in 1 .. d - 1, outer[l] = i
          PROVE  i # at[d] /\ l \in 1 .. d /\ at[l] = i
      <4>1. at[l] \in 1 .. at[d] - 1 /\ outer[l] = at[l] /\ l \in 1 .. d
        BY <1>6
      <4>3. at[d] \in Int
        BY <1>2, <1>5 DEF m
      <4>2. at[l] # at[d]
        BY <4>1, <4>3
      <4> QED
        BY <3>1, <4>1, <4>2
    <3>2. ASSUME NEW l \in 1 .. d, at[l] = i, i # at[d]
          PROVE  l \in 1 .. d - 1 /\ outer[l] = i
      <4>1. l \in 1 .. d - 1
        BY <1>3, <3>2
      <4> QED
        BY <1>6, <3>2, <4>1
    <3> QED
      BY <3>1, <3>2
  <2> DEFINE inner == \E l \in 1 .. d : at[l] = i
             left == \E l \in 1 .. d - 1 : outer[l] = i
  <2>2. VisitedWords(outer, i)' = IF left THEN OpenWords(nodes[i]) ELSE NodeWords(nodes, i)
    BY <1>8
  <2>3. VisitedWords(at, i) = IF inner THEN OpenWords(nodes[i]) ELSE NodeWords(nodes, i)
    BY DEF VisitedWords
  <2>4. left <=> i # at[d] /\ inner
    BY <2>1
  <2> HIDE DEF inner, left
  <2> QED
    BY <2>2, <2>3, <2>4
<1> QED
  BY <1>3, <1>4, <1>5, <1>6, <1>7, <1>8, <1>9

(* geom_end and ring_end fill in the count that was reserved. *)
LEMMA CountFilled ==
  ASSUME ProtocolTypeOK, Nesting, InGeometry, NEW at, Tracks(at), ReadPartEnd,
         values \in Seq(Word), NEW pos, Stored(at, pos),
         Top.type # POINT, size[Depth] = PartsSeen(nodes, at[Depth]),
         values' = [values EXCEPT ![sizePos[Depth]] = CountWord(size[Depth])],
         UNCHANGED << offsets, sizePos, dimensions >>,
         NEW outer, outer = [l \in 1 .. Depth - 1 |-> at[l]]
  PROVE  Stored(outer, pos)'
<1> DEFINE d == Depth
           m == Len(nodes)
           c == at[d]
           end == Len(values)
           place == CountPlace(nodes[c].type)
           patch == sizePos[d]
           full == CountWord(PartsSeen(nodes, c))
<1>1. open # << >>
  BY EmptySeq DEF InGeometry
<1>2. /\ m \in Nat /\ nodes \in Seq(NodeSet) /\ d \in Nat /\ Len(open) = d + 1
      /\ \A l \in 1 .. d : at[l] \in 1 .. m
      /\ end \in Nat
  BY <1>1, TracksTypes
<1>3. /\ \A i \in 1 .. m : VisitedWords(outer, i)' =
              IF i = c THEN NodeWords(nodes, i) ELSE VisitedWords(at, i)
      /\ VisitedWords(at, c) = OpenWords(nodes[c])
      /\ nodes' = nodes /\ Depth' = d - 1 /\ d \in Nat \ {0}
      /\ c \in 1 .. m
      /\ \A l \in 1 .. d - 1 :
           /\ l \in 1 .. d /\ outer[l] = at[l] /\ at[l] \in 1 .. c - 1
           /\ open'[l + 1] = open[l + 1]
  <2>1. \A i \in 1 .. Len(nodes) : VisitedWords(outer, i)' =
              IF i = at[Depth] THEN NodeWords(nodes, i) ELSE VisitedWords(at, i)
    BY EndWords
  <2>2. VisitedWords(at, at[Depth]) = OpenWords(nodes[at[Depth]])
    BY EndWords
  <2>3. /\ nodes' = nodes /\ Depth' = Depth - 1 /\ Depth \in Nat \ {0}
        /\ at[Depth] \in 1 .. Len(nodes)
    BY EndWords
  <2>4. \A l \in 1 .. Depth - 1 :
              /\ l \in 1 .. Depth /\ outer[l] = at[l] /\ at[l] \in 1 .. at[Depth] - 1
              /\ open'[l + 1] = open[l + 1]
    BY EndWords
  <2> QED
    BY <2>1, <2>2, <2>3, <2>4
<1>4. /\ \A i \in 1 .. m + 1 : pos[i] \in Nat
      /\ \A i, j \in 1 .. m + 1 : i <= j => pos[i] <= pos[j]
      /\ \A i \in 1 .. m : /\ Len(VisitedWords(at, i)) \in Nat
                           /\ pos[i + 1] = pos[i] + Len(VisitedWords(at, i))
                           /\ pos[i + 1] <= end
  BY <1>1, StoredInside
<1>5. /\ pos \in [1 .. m + 1 -> Nat]
      /\ pos[1] = offsets[Len(offsets)] /\ pos[m + 1] = end
      /\ \A i \in 1 .. m : \A k \in 1 .. Len(VisitedWords(at, i)) :
           values[pos[i] + k] = VisitedWords(at, i)[k]
      /\ \A l \in 1 .. d :
           /\ open[l + 1].type # POINT =>
                sizePos[l] = pos[at[l]] + CountPlace(open[l + 1].type)
           /\ open[l + 1].type # RING => dimensions[l] = nodes[at[l]].dims
  BY DEF Stored
<1>6. d \in 1 .. d /\ nodes[c].type = open[d + 1].type /\ open[d + 1] = Top
  BY <1>2, <1>3 DEF Tracks, Top
<1>7. nodes[c].type # POINT /\ patch = pos[c] + place
  BY <1>5, <1>6
<1>8. LET node == nodes[c]
          p == CountPlace(node.type)
      IN node.type # POINT =>
           /\ Len(NodeWords(nodes, c)) = Len(OpenWords(node))
           /\ p \in 1 .. Len(OpenWords(node))
           /\ \A k \in 1 .. Len(OpenWords(node)) :
                NodeWords(nodes, c)[k] = IF k = p THEN CountWord(PartsSeen(nodes, c))
                                         ELSE OpenWords(node)[k]
  BY <1>2, <1>3, ClosingWords
<1>9. /\ Len(NodeWords(nodes, c)) = Len(VisitedWords(at, c))
      /\ place \in 1 .. Len(VisitedWords(at, c))
      /\ \A k \in 1 .. Len(VisitedWords(at, c)) :
           NodeWords(nodes, c)[k] = IF k = place THEN full ELSE VisitedWords(at, c)[k]
  BY <1>3, <1>7, <1>8
<1>10. /\ Len(values') = end
       /\ \A i \in 1 .. end : values'[i] = IF i = patch THEN full ELSE values[i]
  <2>1. values' = [values EXCEPT ![patch] = full]
    OBVIOUS
  <2> HIDE DEF patch, full
  <2> QED
    BY <2>1
<1> DEFINE visited(i) == VisitedWords(at, i)
           words(i) == VisitedWords(outer, i)'
<1>11. ASSUME NEW i \in 1 .. m
       PROVE  /\ pos[i + 1] = pos[i] + Len(words(i))
              /\ \A k \in 1 .. Len(words(i)) : values'[pos[i] + k] = words(i)[k]
  <2> DEFINE p == pos[i]
             q == pos[i + 1]
             pc == pos[c]
             qc == pos[c + 1]
             len == Len(visited(i))
             lenc == Len(visited(c))
  <2>1. /\ p \in Nat /\ len \in Nat /\ q = p + len /\ q <= end
    <3>1. i \in 1 .. m + 1
      BY <1>2
    <3> QED
      BY <1>4, <3>1
  <2>2. /\ pc \in Nat /\ lenc \in Nat /\ qc = pc + lenc /\ place \in 1 .. lenc
    <3>1. c \in 1 .. m + 1
      BY <1>2, <1>3
    <3> QED
      BY <1>3, <1>4, <1>9, <3>1
  <2>3. \A k \in 1 .. len : values[p + k] = visited(i)[k]
    BY <1>5
  <2>4. CASE i = c
    <3>1. words(i) = NodeWords(nodes, c) /\ Len(words(i)) = len
          /\ \A k \in 1 .. len : words(i)[k] = IF k = place THEN full ELSE visited(i)[k]
      BY <1>3, <1>9, <2>4
    <3>2. p = pc /\ patch = p + place
      BY <1>7, <2>4
    <3> HIDE DEF words, visited, p, q, pc, qc, len, lenc, place, patch, full, end
    <3>3. ASSUME NEW k \in 1 .. len
          PROVE  values'[p + k] = words(i)[k]
      <4>1. p + k \in 1 .. end /\ (p + k = patch <=> k = place)
        <5>1. place \in Nat /\ end \in Nat
          BY <1>2, <2>2 DEF end
        <5> QED
          BY <2>1, <3>2, <5>1
      <4> QED
        BY <1>10, <2>3, <3>1, <4>1
    <3>4. q = p + Len(words(i))
      BY <2>1, <3>1
    <3>5. \A k \in 1 .. Len(words(i)) : values'[p + k] = words(i)[k]
      BY <3>1, <3>3
    <3> QED
      BY <3>4, <3>5 DEF p, q
  <2>5. CASE i # c
    <3>1. words(i) = visited(i)
      BY <1>3, <2>5
    <3>2. q <= pc \/ qc <= p
      <4>1. /\ i \in 1 .. m + 1 /\ c \in 1 .. m + 1
            /\ i + 1 \in 1 .. m + 1 /\ c + 1 \in 1 .. m + 1
            /\ (i + 1 <= c \/ c + 1 <= i)
        <5>1. c \in 1 .. m /\ m \in Nat
          BY <1>2, <1>3
        <5> HIDE DEF c, m
        <5> QED
          BY <2>5, <5>1
      <4> HIDE DEF c, m
      <4> QED
        BY <1>4, <4>1
    <3>3. patch = pc + place
      BY <1>7
    <3> HIDE DEF words, visited, p, q, pc, qc, len, lenc, place, patch, full, end
    <3>4. ASSUME NEW k \in 1 .. len
          PROVE  values'[p + k] = visited(i)[k]
      <4>1. p + k \in 1 .. end /\ p + k # patch
        <5>1. place \in Nat /\ end \in Nat
          BY <1>2, <2>2 DEF end
        <5> QED
          BY <2>1, <2>2, <3>2, <3>3, <5>1
      <4> QED
        BY <1>10, <2>3, <4>1
    <3>5. Len(words(i)) = len
      BY <3>1 DEF len
    <3>6. q = p + Len(words(i))
      BY <2>1, <3>5
    <3>7. \A k \in 1 .. Len(words(i)) : values'[p + k] = words(i)[k]
      BY <3>1, <3>4, <3>5
    <3> QED
      BY <3>6, <3>7 DEF p, q
  <2> QED
    BY <2>4, <2>5
<1>12. ASSUME NEW l \in 1 .. Depth'
       PROVE  /\ open'[l + 1].type # POINT =>
                   sizePos'[l] = pos[outer[l]] + CountPlace(open'[l + 1].type)
              /\ open'[l + 1].type # RING => dimensions'[l] = nodes'[outer[l]].dims
  <2>1. l \in 1 .. d - 1
    BY <1>3
  <2>2. l \in 1 .. d /\ outer[l] = at[l] /\ open'[l + 1] = open[l + 1]
    BY <1>3, <2>1
  <2> HIDE DEF d
  <2> QED
    BY <1>3, <1>5, <2>2
<1>13. /\ pos \in [1 .. Len(nodes') + 1 -> Nat]
       /\ pos[1] = offsets'[Len(offsets')] /\ pos[Len(nodes') + 1] = Len(values')
  BY <1>3, <1>5, <1>10
<1>14. Len(nodes') = m
  BY <1>3
<1> HIDE DEF d, m
<1>15. \A i \in 1 .. Len(nodes') :
         /\ pos[i + 1] = pos[i] + Len(words(i))
         /\ \A k \in 1 .. Len(words(i)) : values'[pos[i] + k] = words(i)[k]
  BY <1>11, <1>14
<1> QED
  BY <1>12, <1>13, <1>15 DEF Stored

(* geom_end writes the NaNs of an empty point. *)
LEMMA PointEnded ==
  ASSUME ProtocolTypeOK, Nesting, InGeometry, NEW at, Tracks(at), ReadPartEnd,
         values \in Seq(Word), NEW pos, Stored(at, pos), Top.type = POINT,
         LET node == nodes[at[Depth]]
         IN values' = IF node.xs = << >> THEN Append(values, CoordWord(NaN, node.dims))
                      ELSE values,
         UNCHANGED << offsets, sizePos, dimensions >>,
         NEW outer, outer = [l \in 1 .. Depth - 1 |-> at[l]],
         NEW further, further = EndAt(pos, Len(nodes) + 1, Len(values'))
  PROVE  Stored(outer, further)'
<1> DEFINE d == Depth
           m == Len(nodes)
           last == nodes[m]
           nan == CoordWord(NaN, last.dims)
           more == IF last.xs = << >> THEN << nan >> ELSE << >>
           words == [i \in 1 .. m |-> VisitedWords(outer, i)']
<1>1. open # << >>
  BY EmptySeq DEF InGeometry
<1>2. /\ m \in Nat /\ nodes \in Seq(NodeSet) /\ d \in Nat /\ Len(open) = d + 1
      /\ \A l \in 1 .. d : at[l] \in 1 .. m
  BY <1>1, TracksTypes
<1>3. /\ \A i \in 1 .. m : VisitedWords(outer, i)' =
              IF i = at[d] THEN NodeWords(nodes, i) ELSE VisitedWords(at, i)
      /\ VisitedWords(at, at[d]) = OpenWords(nodes[at[d]])
      /\ nodes' = nodes /\ Depth' = d - 1 /\ d \in Nat \ {0}
      /\ at[d] \in 1 .. m
      /\ \A l \in 1 .. d - 1 :
           /\ l \in 1 .. d /\ outer[l] = at[l] /\ at[l] \in 1 .. at[d] - 1
           /\ open'[l + 1] = open[l + 1]
  <2>1. \A i \in 1 .. Len(nodes) : VisitedWords(outer, i)' =
              IF i = at[Depth] THEN NodeWords(nodes, i) ELSE VisitedWords(at, i)
    BY EndWords
  <2>2. VisitedWords(at, at[Depth]) = OpenWords(nodes[at[Depth]])
    BY EndWords
  <2>3. /\ nodes' = nodes /\ Depth' = Depth - 1 /\ Depth \in Nat \ {0}
        /\ at[Depth] \in 1 .. Len(nodes)
    BY EndWords
  <2>4. \A l \in 1 .. Depth - 1 :
              /\ l \in 1 .. Depth /\ outer[l] = at[l] /\ at[l] \in 1 .. at[Depth] - 1
              /\ open'[l + 1] = open[l + 1]
    BY EndWords
  <2> QED
    BY <2>1, <2>2, <2>3, <2>4
<1>4. d \in 1 .. d /\ open[d + 1].type = POINT
  BY <1>2, <1>3 DEF Top
<1>5. at[d] = m /\ last.type = POINT /\ m \in 1 .. m /\ last \in NodeSet
  <2>1. HoldsCoords(open[d + 1].type)
    BY <1>4 DEF HoldsCoords
  <2>2. at[d] = m /\ nodes[at[d]].type = open[d + 1].type
    BY <1>4, <2>1 DEF Tracks
  <2> QED
    BY <1>2, <1>3, <1>4, <2>2
<1>6. nan \in Word /\ more \in Seq(Word)
  <2>1. nan \in Word
    <3>1. last.dims \in Int
      BY <1>5 DEF NodeSet
    <3> QED
      BY <1>5, WordTypes DEF NaN, CoordWord, Word, NumDimensions
  <2> HIDE DEF nan
  <2>2. << nan >> \in Seq(Word) /\ << >> \in Seq(Word)
    BY <2>1
  <2> QED
    BY <2>1, <2>2
<1>7. values' = values \o more
  <2> DEFINE v == values
  <2>1. v \in Seq(Word) /\ values' = IF last.xs = << >> THEN Append(v, nan) ELSE v
    BY <1>5
  <2> HIDE DEF v, nan
  <2>2. Append(v, nan) = v \o << nan >> /\ v = v \o << >>
    BY <1>6, <2>1
  <2> QED
    BY <2>1, <2>2 DEF v
<1>8. /\ \A i \in 1 .. m : words[i] = VisitedWords(outer, i)'
  OBVIOUS
<1>9. words[m] = VisitedWords(at, m) \o more
  <2> DEFINE o == OpenWords(last)
             w == NodeWords(nodes, m)
  <2>1. o \in Seq(Word) /\ w = IF last.xs = << >> THEN Append(o, nan) ELSE o
    BY <1>2, <1>5, ClosingWords
  <2>2. words[m] = w /\ VisitedWords(at, m) = o
    BY <1>3, <1>5, <1>8
  <2> HIDE DEF o, w, words, nan
  <2>3. Append(o, nan) = o \o << nan >> /\ o = o \o << >>
    BY <1>6, <2>1
  <2> QED
    BY <2>1, <2>2, <2>3
<1>10. \A i \in 1 .. m - 1 : i \in 1 .. m /\ words[i] = VisitedWords(at, i)
  <2>1. \A i \in 1 .. m - 1 : i \in 1 .. m /\ i # m
    BY <1>2
  <2> QED
    BY <1>3, <1>5, <1>8, <2>1
<1> HIDE DEF more, words, nan
<1>11. LET longer == EndAt(pos, Len(nodes) + 1, Len(values'))
       IN /\ longer \in [1 .. Len(nodes) + 1 -> Nat]
          /\ \A i \in 1 .. Len(nodes) : longer[i] = pos[i]
          /\ Placed(values', longer, Len(nodes), words)
  <2>1. Len(nodes) # 0 /\ more \in Seq(Word)
    BY <1>5, <1>6
  <2>2. /\ \A i \in 1 .. Len(nodes) - 1 : words[i] = VisitedWords(at, i)
        /\ words[Len(nodes)] = VisitedWords(at, Len(nodes)) \o more
    BY <1>9, <1>10
  <2> QED
    BY <1>1, <1>7, <2>1, <2>2, WordsGrow
<1>12. /\ further \in [1 .. m + 1 -> Nat]
       /\ \A i \in 1 .. m : further[i] = pos[i]
       /\ Placed(values', further, m, words)
  BY <1>11
<1>13. /\ pos[1] = offsets[Len(offsets)]
       /\ \A l \in 1 .. d :
           /\ open[l + 1].type # POINT =>
                sizePos[l] = pos[at[l]] + CountPlace(open[l + 1].type)
           /\ open[l + 1].type # RING => dimensions[l] = nodes[at[l]].dims
  BY DEF Stored
<1>14. ASSUME NEW l \in 1 .. Depth'
       PROVE  /\ open'[l + 1].type # POINT =>
                   sizePos'[l] = further[outer[l]] + CountPlace(open'[l + 1].type)
              /\ open'[l + 1].type # RING => dimensions'[l] = nodes'[outer[l]].dims
  <2>1. l \in 1 .. d - 1
    BY <1>3
  <2>2. l \in 1 .. d /\ outer[l] = at[l] /\ open'[l + 1] = open[l + 1]
    BY <1>3, <2>1
  <2>3. further[at[l]] = pos[at[l]]
    BY <1>2, <1>12, <2>2
  <2> HIDE DEF d
  <2> QED
    BY <1>3, <1>13, <2>2, <2>3
<1>15. /\ further \in [1 .. Len(nodes') + 1 -> Nat]
       /\ further[1] = offsets'[Len(offsets')] /\ further[Len(nodes') + 1] = Len(values')
  <2>1. further[m + 1] = Len(values')
    BY <1>12 DEF Placed
  <2>2. 1 \in 1 .. m
    BY <1>5
  <2> QED
    BY <1>3, <1>12, <1>13, <2>1, <2>2
<1>16. \A i \in 1 .. Len(nodes') :
         /\ further[i + 1] = further[i] + Len(VisitedWords(outer, i)')
         /\ \A k \in 1 .. Len(VisitedWords(outer, i)') :
              values'[further[i] + k] = VisitedWords(outer, i)'[k]
  <2> HIDE DEF m
  <2>1. ASSUME NEW i \in 1 .. m
        PROVE  /\ further[i + 1] = further[i] + Len(VisitedWords(outer, i)')
               /\ \A k \in 1 .. Len(VisitedWords(outer, i)') :
                    values'[further[i] + k] = VisitedWords(outer, i)'[k]
    <3>1. words[i] = VisitedWords(outer, i)'
      BY <1>8
    <3>2. /\ further[i + 1] = further[i] + Len(words[i])
          /\ \A k \in 1 .. Len(words[i]) : values'[further[i] + k] = words[i][k]
      BY <1>12 DEF Placed
    <3> QED
      BY <3>1, <3>2
  <2>2. Len(nodes') = m
    BY <1>3 DEF m
  <2> QED
    BY <2>1, <2>2
<1> QED
  BY <1>14, <1>15, <1>16 DEF Stored

(* The counts of the open geometries and rings are no larger than what was *)
(* written for them, so as long as the values fit no count has wrapped.    *)
CountsFit == \A i \in 2 .. Len(open) : open[i].n <= Len(values)

(* What the values hold of the feature that is open. *)
FeatureStored ==
  open # << >> => CountsFit /\ \E at, pos : Tracks(at) /\ Stored(at, pos)

(* What geom_start and ring_start write. *)
LEMMA NewWords ==
  ASSUME NEW type \in RING .. GEOMETRYCOLLECTION, NEW dims \in 1 .. 4, NEW depth \in Nat
  PROVE  LET words == OpenWords(Node(type, dims, depth))
         IN /\ words = CASE type = RING  -> << CountWord(0) >>
                         [] type = POINT -> << HeadWord(type, dims) >>
                         [] OTHER        -> << HeadWord(type, dims), CountWord(0) >>
            /\ words \in Seq(Word) /\ Len(words) \in Nat \ {0}
<1> DEFINE node == Node(type, dims, depth)
           h == HeadWord(type, dims)
           c == CountWord(0)
           seq == Sequence(node)
<1>1. node \in NodeSet /\ node.type = type /\ node.dims = dims /\ node.xs = << >>
  BY DEF Node, NodeSet
<1>2. seq = << >>
  <2>1. Len(node.xs) = 0
    BY <1>1, EmptySeq
  <2>2. seq \in Seq(Word) /\ Len(seq) = 0
    BY <1>1, <2>1, SequenceType
  <2> HIDE DEF seq
  <2> QED
    BY <2>2, EmptySeq
<1>3. /\ OpenWords(node) \in Seq(Word)
      /\ type = RING => OpenWords(node) = << c >> \o seq
      /\ type = POINT => OpenWords(node) = << h >> \o seq
      /\ type = LINESTRING => OpenWords(node) = << h >> \o (<< c >> \o seq)
      /\ ~HoldsCoords(type) => OpenWords(node) = << h >> \o << c >>
  <2> HIDE DEF node
  <2>1. LET words == OpenWords(node)
        IN /\ words \in Seq(Word)
           /\ node.type = RING => words = << CountWord(0) >> \o Sequence(node)
           /\ node.type = POINT =>
                words = << HeadWord(node.type, node.dims) >> \o Sequence(node)
           /\ node.type = LINESTRING =>
                words = << HeadWord(node.type, node.dims) >>
                          \o (<< CountWord(0) >> \o Sequence(node))
           /\ ~HoldsCoords(node.type) =>
                words = << HeadWord(node.type, node.dims) >> \o << CountWord(0) >>
    BY <1>1, OpenWordsAre
  <2> QED
    BY <1>1, <2>1
<1> HIDE DEF node, h, c, seq
<1>4. /\ << c >> \o seq = << c >> /\ << h >> \o seq = << h >>
      /\ << h >> \o << c >> = << h, c >>
  <2>1. << h >> \o << c >> = << h, c >>
    <3> DEFINE a == << h >>
               b == << c >>
               t == << h, c >>
               S == {h, c}
    <3>1. /\ a \in Seq(S) /\ b \in Seq(S) /\ t \in Seq(S)
          /\ Len(a) = 1 /\ Len(b) = 1 /\ Len(t) = 2
          /\ a[1] = h /\ b[1] = c /\ t[1] = h /\ t[2] = c
      OBVIOUS
    <3> HIDE DEF a, b, t, S
    <3>2. a \o b \in Seq(S) /\ Len(a \o b) = 2 /\ (a \o b)[1] = h /\ (a \o b)[2] = c
      <4>1. a \in Seq(S) /\ b \in Seq(S)
        BY <3>1
      <4>2. /\ a \o b \in Seq(S) /\ Len(a \o b) = Len(a) + Len(b)
            /\ \A k \in 1 .. Len(a) : (a \o b)[k] = a[k]
            /\ \A k \in 1 .. Len(b) : (a \o b)[Len(a) + k] = b[k]
        BY <4>1
      <4>3. (a \o b)[1] = a[1]
        BY <3>1, <4>2
      <4>4. (a \o b)[Len(a) + 1] = b[1]
        BY <3>1, <4>2
      <4> QED
        BY <3>1, <4>2, <4>3, <4>4
    <3> DEFINE u == a \o b
    <3> HIDE DEF u
    <3>3. u = t
      <4>1. u \in Seq(S) /\ Len(u) = 2 /\ u[1] = h /\ u[2] = c
        BY <3>2 DEF u
      <4>2. \A k \in 1 .. 2 : u[k] = t[k]
        BY <3>1, <4>1
      <4> QED
        BY <3>1, <4>1, <4>2
    <3> QED
      BY <3>3 DEF u, a, b, t
  <2>2. ASSUME NEW w
        PROVE  << w >> \o << >> = << w >>
    <3> DEFINE t == << w >>
    <3>1. t \in Seq({w})
      OBVIOUS
    <3> HIDE DEF t
    <3>2. t \o << >> = t
      BY <3>1
    <3> QED
      BY <3>2 DEF t
  <2>3. << c >> \o seq = << c >> /\ << h >> \o seq = << h >>
    BY <1>2, <2>2
  <2> QED
    BY <2>1, <2>3
<1>5. OpenWords(node) = CASE type = RING  -> << c >>
                          [] type = POINT -> << h >>
                          [] OTHER        -> << h, c >>
  BY <1>3, <1>4 DEF HoldsCoords, RING, POINT, LINESTRING
<1>6. Len(OpenWords(node)) \in Nat \ {0}
  <2>1. Len(<< c >>) = 1 /\ Len(<< h >>) = 1 /\ Len(<< h, c >>) = 2
    OBVIOUS
  <2>2. \/ OpenWords(node) = << c >> \/ OpenWords(node) = << h >>
        \/ OpenWords(node) = << h, c >>
    BY <1>5
  <2> QED
    BY <2>1, <2>2
<1> QED
  BY <1>3, <1>5, <1>6 DEF node, h, c

(* geom_start and ring_start. *)
LEMMA StartKeeps ==
  ASSUME ProtocolTypeOK, Nesting, open # << >>, values \in Seq(Word), FeatureStored,
         NEW type \in RING .. GEOMETRYCOLLECTION, NEW dims \in 1 .. 4,
         ReadPartStart(type, dims), ~HoldsCoords(Top.type),
         values' = values \o OpenWords(Node(type, dims, Depth)),
         offsets' = offsets,
         \A l \in 1 .. Depth : sizePos'[l] = sizePos[l] /\ dimensions'[l] = dimensions[l],
         type # POINT => sizePos'[Depth + 1] = Len(values) + CountPlace(type),
         type # RING => dimensions'[Depth + 1] = dims
  PROVE  FeatureStored'
<1>1. PICK at, pos : Tracks(at) /\ Stored(at, pos)
  BY DEF FeatureStored
<1>2. PICK deeper : deeper = [l \in 1 .. Depth + 1 |->
                                IF l = Depth + 1 THEN Len(nodes) + 1 ELSE at[l]]
  OBVIOUS
<1>3. PICK further : further = [i \in 1 .. Len(nodes) + 2 |->
                                  IF i = Len(nodes) + 2 THEN Len(values') ELSE pos[i]]
  OBVIOUS
<1>4. Tracks(deeper)'
  BY <1>1, <1>2, TracksStart
<1>5. Stored(deeper, further)'
  BY <1>1, <1>2, <1>3, StartStored
<1>6. CountsFit'
  <2> DEFINE new == OpenWords(Node(type, dims, Depth))
             s == Len(open)
             v == values
  <2>1. Depth \in Nat
    BY <1>1, TracksTypes
  <2>2. new \in Seq(Word) /\ Len(new) \in Nat \ {0}
    BY <2>1, NewWords
  <2>3. v \in Seq(Word) /\ values' = v \o new
    OBVIOUS
  <2> HIDE DEF new, v
  <2>4. Len(values') = Len(v) + Len(new) /\ Len(v) \in Nat
    BY <2>2, <2>3
  <2>5. /\ Len(open') = s + 1 /\ s \in Nat /\ open \in Seq(FrameSet)
        /\ open'[s + 1] = Frame(type)
        /\ \A i \in 1 .. s : open'[i].n = IF i = s THEN open[i].n + 1 ELSE open[i].n
    BY StackPushed DEF ProtocolTypeOK
  <2>6. \A i \in 2 .. s : open[i].n \in Nat /\ open[i].n <= Len(v)
    <3>1. \A i \in 2 .. s : open[i] \in FrameSet
      BY <2>5
    <3> QED
      BY <3>1 DEF FrameSet, FeatureStored, CountsFit, v
  <2>7. open'[s + 1].n = 0
    BY <2>5 DEF Frame
  <2> HIDE DEF s
  <2>8. ASSUME NEW i \in 2 .. s + 1
        PROVE  open'[i].n <= Len(values')
    <3>1. CASE i = s + 1
      BY <2>2, <2>4, <2>7, <3>1
    <3>2. CASE i # s + 1
      <4>1. i \in 2 .. s /\ i \in 1 .. s
        BY <2>5, <3>2
      <4>2. open[i].n \in Nat /\ open[i].n <= Len(v)
        BY <2>6, <4>1
      <4>3. open'[i].n = open[i].n \/ open'[i].n = open[i].n + 1
        BY <2>5, <4>1
      <4>4. Len(v) \in Nat /\ Len(values') \in Nat /\ Len(v) + 1 <= Len(values')
        BY <2>2, <2>4
      <4> QED
        BY <4>2, <4>3, <4>4
    <3> QED
      BY <3>1, <3>2
  <2> QED
    BY <2>5, <2>8 DEF CountsFit
<1> QED
  BY <1>4, <1>5, <1>6 DEF FeatureStored

(* coords: however many chunks a sequence comes in. *)
LEMMA CoordsKeep ==
  ASSUME ProtocolTypeOK, Nesting, values \in Seq(Word), FeatureStored,
         NEW n \in Nat, ReadCoords(n),
         values' = values \o [i \in 1 .. n |-> CoordWord(Label, nodes[Len(nodes)].dims)],
         UNCHANGED << offsets, sizePos, dimensions >>
  PROVE  FeatureStored'
<1>1. open # << >>
  BY EmptySeq DEF ReadCoords, InGeometry
<1>2. PICK at, pos : Tracks(at) /\ Stored(at, pos)
  BY <1>1 DEF FeatureStored
<1>3. PICK further : further = EndAt(pos, Len(nodes) + 1, Len(values'))
  OBVIOUS
<1>4. Tracks(at)'
  BY <1>2, TracksCoords
<1>5. Stored(at, further)'
  BY <1>2, <1>3, CoordsStored
<1>6. CountsFit'
  <2> DEFINE w == CoordWord(Label, nodes[Len(nodes)].dims)
             more == [i \in 1 .. n |-> w]
             s == Len(open)
             v == values
  <2>2. more \in Seq({w}) /\ Len(more) = n
    <3> HIDE DEF w
    <3> QED
      OBVIOUS
  <2>3. v \in Seq(Word) /\ values' = v \o more
    OBVIOUS
  <2> HIDE DEF w, more, v
  <2>4. Len(values') = Len(v) + n /\ Len(v) \in Nat
    <3>1. v \in Seq(Word \cup {w}) /\ more \in Seq(Word \cup {w})
      BY <2>2, <2>3
    <3>2. Len(v \o more) = Len(v) + Len(more) /\ Len(v) \in Nat
      BY <3>1
    <3> QED
      BY <2>2, <2>3, <3>2
  <2>5. /\ Len(open') = s /\ s \in Nat /\ open \in Seq(FrameSet)
        /\ \A i \in 1 .. s : open'[i].n = IF i = s THEN open[i].n + n ELSE open[i].n
    BY <1>1, CountedType DEF ProtocolTypeOK, ReadCoords
  <2>6. \A i \in 2 .. s : open[i].n \in Nat /\ open[i].n <= Len(v)
    <3>1. \A i \in 2 .. s : open[i] \in FrameSet
      BY <2>5
    <3> QED
      BY <1>1, <3>1 DEF FrameSet, FeatureStored, CountsFit, v
  <2> HIDE DEF s
  <2>7. ASSUME NEW i \in 2 .. s
        PROVE  open'[i].n <= Len(values')
    <3>1. open[i].n \in Nat /\ open[i].n <= Len(v)
          /\ open'[i].n \in {open[i].n, open[i].n + n}
      <4>1. i \in 1 .. s
        BY <2>5
      <4> QED
        BY <2>5, <2>6, <4>1
    <3> QED
      BY <2>4, <3>1
  <2> QED
    BY <2>5, <2>7 DEF CountsFit
<1> QED
  BY <1>4, <1>5, <1>6 DEF FeatureStored

(* geom_end and ring_end: while the values fit, the count that is filled   *)
(* in is the number of parts.                                              *)
LEMMA EndKeeps ==
  ASSUME ProtocolAssumption, WKBAssumption, Inv, Fits, FeatureStored, RingEnd \/ GeomEnd
  PROVE  FeatureStored'
<1> DEFINE d == Depth
<1>1. /\ InGeometry /\ ReadPartEnd /\ ProtocolTypeOK /\ Nesting
      /\ values \in Seq(Word) /\ UNCHANGED << offsets, sizePos, dimensions >>
      /\ values' = AfterGeom
  <2>1. InGeometry /\ ReadPartEnd
    BY DEF RingEnd, GeomEnd, ReadRingEnd, ReadGeomEnd
  <2>2. ProtocolTypeOK /\ Nesting /\ values \in Seq(Word)
    BY DEF Inv, TypeOK, WriterTypeOK
  <2>3. RingEnd => geomType[level] # POINT
    BY <2>1, OpenLevel DEF RingEnd, ReadRingEnd, RING, POINT
  <2> QED
    BY <2>1, <2>2, <2>3 DEF RingEnd, GeomEnd, AfterGeom
<1>2. /\ open # << >> /\ level = d /\ geomType[d] = Top.type /\ d \in Nat \ {0}
      /\ Len(open) = d + 1 /\ size[d] = Top.n % CountMod /\ Top.n \in Nat
  <2>1. open # << >> /\ geomType[level] = Top.type /\ level \in Nat \ {0}
    BY <1>1, OpenLevel DEF WKBAssumption
  <2>2. /\ level = Depth /\ Len(open) = level + 1
        /\ Top.n \in Nat /\ size[level] = Top.n % CountMod
    BY <2>1, VisitLevel
  <2> QED
    BY <2>1, <2>2
<1>3. PICK at, pos : Tracks(at) /\ Stored(at, pos)
  BY <1>2 DEF FeatureStored
<1>4. size[d] = Top.n
  <2>1. Top.n <= Len(values)
    <3>1. Len(open) \in 2 .. Len(open)
      BY <1>2
    <3> QED
      BY <1>2, <3>1 DEF FeatureStored, CountsFit, Top
  <2>2. Top.n \in 0 .. CountMod - 1 /\ CountMod \in Nat \ {0}
    <3>1. Len(values) \in Nat
      BY <1>1
    <3> QED
      BY <1>2, <2>1, <3>1 DEF Fits, WKBAssumption
  <2> DEFINE t == Top.n
  <2>3. t \in 0 .. CountMod - 1 /\ size[d] = t % CountMod
    BY <1>2, <2>2
  <2> HIDE DEF t
  <2>4. (CountMod * 0 + t) % CountMod = t
    BY <2>2, <2>3, ModUnique
  <2>5. CountMod * 0 + t = t
    BY <2>2, <2>3
  <2> QED
    BY <2>3, <2>4, <2>5 DEF t
<1>5. /\ d \in 1 .. d /\ open[d + 1] = Top
      /\ Top.n = PartsSeen(nodes, at[d]) /\ nodes[at[d]].type = Top.type
      /\ at[d] \in 1 .. Len(nodes)
  <2>1. d \in 1 .. d /\ open[d + 1] = Top
    BY <1>2 DEF Top
  <2> QED
    BY <1>3, <2>1 DEF Tracks
<1>6. PICK outer : outer = [l \in 1 .. Depth - 1 |-> at[l]]
  OBVIOUS
<1>7. Tracks(outer)'
  BY <1>1, <1>3, <1>6, TracksEnd
<1>8. \E further : Stored(outer, further)'
  <2>1. CASE Top.type # POINT
    <3>1. values' = [values EXCEPT ![sizePos[Depth]] = CountWord(size[Depth])]
      BY <1>1, <1>2, <2>1 DEF AfterGeom, Backpatched
    <3>2. size[Depth] = PartsSeen(nodes, at[Depth])
      BY <1>4, <1>5
    <3> QED
      BY <1>1, <1>3, <1>6, <2>1, <3>1, <3>2, CountFilled
  <2>2. CASE Top.type = POINT
    <3>1. PICK further : further = EndAt(pos, Len(nodes) + 1, Len(values'))
      OBVIOUS
    <3>2. LET node == nodes[at[Depth]]
          IN values' = IF node.xs = << >> THEN Append(values, CoordWord(NaN, node.dims))
                       ELSE values
      <4> DEFINE node == nodes[at[Depth]]
      <4>1. dimensions[d] = node.dims
        BY <1>3, <1>5, <2>2 DEF Stored, POINT, RING
      <4>2. size[d] = Len(node.xs)
        BY <1>4, <1>5, <2>2 DEF PartsSeen, HoldsCoords
      <4>3. node.xs \in Seq(Nat)
        BY <1>1, <1>2, <1>3, <1>5, TracksTypes
      <4>4. size[d] = 0 <=> node.xs = << >>
        BY <4>2, <4>3, EmptySeq
      <4>5. values' = IF size[d] = 0 THEN Append(values, CoordWord(NaN, dimensions[d]))
                      ELSE values
        BY <1>1, <1>2, <2>2 DEF AfterGeom, EmptyPoint
      <4> QED
        BY <4>1, <4>4, <4>5
    <3> QED
      BY <1>1, <1>3, <1>6, <2>2, <3>1, <3>2, PointEnded
  <2> QED
    BY <2>1, <2>2
<1>9. CountsFit'
  <2>1. /\ Len(open') = Len(open) - 1 /\ Len(open) \in Nat
        /\ \A i \in 1 .. Len(open) - 1 : open'[i] = open[i]
    BY <1>1, <1>2, StackPopped
  <2>2. Len(values) <= Len(values') /\ Len(values) \in Nat /\ Len(values') \in Nat
    <3>1. WordsKept /\ values' \in Seq(Word)
      <4>1. [Next]_vars /\ ~Finish
        <5>1. ~Idle
          BY <1>2 DEF Idle
        <5> QED
          BY <5>1 DEF Next, Finish, BatchDone
      <4> QED
        BY <4>1, StepInv, WordsKeptByCalls DEF Inv, TypeOK, WriterTypeOK
    <3> QED
      BY <1>1, <3>1 DEF WordsKept
  <2>3. ASSUME NEW i \in 2 .. Len(open) - 1
        PROVE  open'[i].n <= Len(values')
    <3>1. i \in 1 .. Len(open) - 1 /\ i \in 2 .. Len(open)
      BY <2>1
    <3>2. open'[i] = open[i] /\ open[i].n <= Len(values)
      BY <1>2, <2>1, <3>1 DEF FeatureStored, CountsFit
    <3>3. open[i].n \in Nat
      <4>1. open[i] \in FrameSet
        BY <1>1, <3>1 DEF ProtocolTypeOK
      <4> QED
        BY <4>1 DEF FrameSet
    <3> QED
      BY <2>2, <3>2, <3>3
  <2> QED
    BY <2>1, <2>3 DEF CountsFit
<1>10. (\E at2, pos2 : Tracks(at2) /\ Stored(at2, pos2))'
  BY <1>7, <1>8
<1> QED
  BY <1>9, <1>10 DEF FeatureStored

(* What a call that completes no row does to the words of the current one. *)
LEMMA VisitKeeps ==
  ASSUME ProtocolAssumption, WKBAssumption, Inv, Fits, NoParts, FeatureStored,
         [Next]_vars, ~FeatStartOverflow, ~FeatEnd, ~ReaderFails, ~Finish
  PROVE  FeatureStored'
<1>1. /\ ProtocolTypeOK /\ Nesting /\ values \in Seq(Word)
  BY DEF Inv, TypeOK, WriterTypeOK
<1>2. CASE FeatStart
  <2>1. PICK at : at = [l \in 1 .. 0 |-> 0]
    OBVIOUS
  <2>2. PICK pos : pos = [i \in 1 .. 1 |-> Len(values)]
    OBVIOUS
  <2>3. /\ Len(open') = 1 /\ Depth' = 0 /\ nodes' = << >> /\ Len(nodes') = 0
        /\ values' = values /\ Len(values) \in Nat
        /\ offsets'[Len(offsets')] = Len(values)
    <3>1. open' = << Frame(FEATURE) >> /\ Len(<< Frame(FEATURE) >>) = 1
      BY <1>2 DEF FeatStart, ReadFeatStart
    <3>2. offsets' = Append(offsets, Len(values)) /\ offsets \in Seq(Nat)
      BY <1>2 DEF FeatStart, Inv, TypeOK, WriterTypeOK
    <3>3. offsets'[Len(offsets')] = Len(values)
      BY <1>1, <3>2
    <3>4. nodes' = << >> /\ values' = values
      BY <1>2 DEF FeatStart, ReadFeatStart, feat_start_wkb, StartFeature
    <3> QED
      BY <1>1, <3>1, <3>3, <3>4, EmptySeq DEF Depth
  <2>4. Tracks(at)'
    <3>1. at \in [1 .. 0 -> 1 .. 0]
      BY <2>1
    <3> QED
      BY <2>3, <3>1 DEF Tracks
  <2>5. Stored(at, pos)'
    <3>1. pos \in [1 .. 1 -> Nat] /\ pos[1] = Len(values)
      BY <2>2, <2>3
    <3> QED
      BY <2>3, <3>1 DEF Stored
  <2>6. CountsFit'
    BY <2>3 DEF CountsFit
  <2> QED
    BY <2>4, <2>5, <2>6 DEF FeatureStored
<1>3. CASE NullFeat
  <2>1. /\ open = << Frame(FEATURE) >> /\ open' = << Frame(NULLFEATURE) >>
        /\ UNCHANGED << nodes, values, offsets, sizePos, dimensions >>
    BY <1>3 DEF NullFeat, ReadNullFeat, stackVars, bufferVars
  <2>2. Len(open) = 1 /\ open # << >> /\ open[1].n = 0 /\ Len(open') = 1
    <3>1. Len(<< Frame(FEATURE) >>) = 1 /\ Len(<< Frame(NULLFEATURE) >>) = 1
      OBVIOUS
    <3>2. open # << >>
      BY <2>1, <3>1, EmptySeq
    <3>3. open[1] = Frame(FEATURE)
      BY <2>1
    <3> QED
      BY <2>1, <3>1, <3>2, <3>3 DEF Frame
  <2>3. PICK at, pos : Tracks(at) /\ Stored(at, pos)
    BY <2>2 DEF FeatureStored
  <2>4. Depth = 0 /\ Depth' = 0 /\ Len(nodes) = 0
    BY <2>2, EmptySeq DEF Depth, NoParts
  <2>5. Tracks(at)'
    BY <2>1, <2>3, <2>4 DEF Tracks
  <2>6. Stored(at, pos)'
    BY <2>1, <2>3, <2>4 DEF Stored
  <2>7. CountsFit'
    BY <2>2 DEF CountsFit
  <2> QED
    BY <2>5, <2>6, <2>7 DEF FeatureStored
<1>4. ASSUME NEW type \in GeomTypes, NEW dims \in Dims, GeomStart(type, dims)
      PROVE  FeatureStored'
  <2>1. /\ open # << >> /\ ReadPartStart(type, dims) /\ ~HoldsCoords(Top.type)
        /\ type \in RING .. GEOMETRYCOLLECTION /\ dims \in 1 .. 4 /\ type # RING
    BY <1>4 DEF GeomStart, ReadGeomStart, Idle, MayContain, HoldsCoords, Containers,
       ProtocolAssumption, RING, POINT, LINESTRING, MULTIPOINT, MULTILINESTRING,
       MULTIPOLYGON, GEOMETRYCOLLECTION, FEATURE
  <2>2. /\ level = Depth /\ level \in 0 .. MaxLevel + 1 /\ level \in Nat
        /\ level + 1 \in Level /\ sizePos \in [Level -> Nat]
        /\ dimensions \in [Level -> 1 .. 4] /\ MaxLevel \in Nat
    <3>1. level = Depth /\ level \in 0 .. MaxLevel + 1
      BY <2>1, VisitLevel
    <3>2. level \in 0 .. MaxLevel
      BY <1>4 DEF GeomStart, CheckLevel
    <3> QED
      BY <3>1, <3>2 DEF Level, WKBAssumption, Inv, TypeOK, WriterTypeOK
  <2>3. values' = values \o OpenWords(Node(type, dims, Depth))
    <3> DEFINE h == HeadWord(type, dims)
               c == CountWord(0)
               v == values
    <3>1. OpenWords(Node(type, dims, Depth)) = IF type = POINT THEN << h >> ELSE << h, c >>
      BY <2>1, <2>2, NewWords
    <3>2. values' = IF type = POINT THEN Append(v, h) ELSE v \o << h, c >>
      BY <1>4 DEF GeomStart
    <3>3. v \in Seq(Word) /\ h \in Word
      BY <1>1, <2>1, WordTypes DEF RING, GEOMETRYCOLLECTION
    <3> HIDE DEF h, c, v
    <3>4. Append(v, h) = v \o << h >>
      BY <3>3
    <3> QED
      BY <3>1, <3>2, <3>4 DEF v
  <2>4. /\ offsets' = offsets
        /\ dimensions' = [dimensions EXCEPT ![level + 1] = dims]
        /\ sizePos' = IF type = POINT THEN sizePos
                      ELSE [sizePos EXCEPT ![level + 1] = Len(values) + 2]
    BY <1>4 DEF GeomStart, Reserved
  <2>5. \A l \in 1 .. Depth : sizePos'[l] = sizePos[l] /\ dimensions'[l] = dimensions[l]
    <3>1. \A l \in 1 .. level : l \in Level /\ l # level + 1
      BY <2>2 DEF Level
    <3> QED
      BY <2>2, <2>4, <3>1
  <2>6. type # POINT => sizePos'[Depth + 1] = Len(values) + CountPlace(type)
    BY <2>1, <2>2, <2>4 DEF CountPlace
  <2>7. dimensions'[Depth + 1] = dims
    BY <2>2, <2>4
  <2> QED
    BY <1>1, <2>1, <2>3, <2>4, <2>5, <2>6, <2>7, StartKeeps
<1>5. CASE RingStart
  <2> DEFINE dims == nodes[Len(nodes)].dims
  <2>1. /\ open # << >> /\ ReadPartStart(RING, dims) /\ ~HoldsCoords(Top.type)
        /\ RING \in RING .. GEOMETRYCOLLECTION /\ dims \in 1 .. 4 /\ RING # POINT
    <3>1. InGeometry /\ Top.type = POLYGON /\ ReadPartStart(RING, dims)
      BY <1>5 DEF RingStart, ReadRingStart
    <3>2. nodes # << >> /\ nodes \in Seq(NodeSet)
      BY <1>1, <3>1 DEF Nesting, ProtocolTypeOK
    <3>3. dims \in 1 .. 4
      <4>1. nodes[Len(nodes)] \in NodeSet
        BY <3>2, EmptySeq
      <4> QED
        BY <4>1 DEF NodeSet
    <3>4. open # << >>
      BY <3>1, EmptySeq DEF InGeometry
    <3> QED
      BY <3>1, <3>3, <3>4 DEF HoldsCoords, RING, POINT, LINESTRING, POLYGON,
         GEOMETRYCOLLECTION
  <2> HIDE DEF dims
  <2>2. /\ level = Depth /\ level \in 0 .. MaxLevel + 1 /\ level \in Nat
        /\ level + 1 \in Level /\ sizePos \in [Level -> Nat] /\ MaxLevel \in Nat
    <3>1. level = Depth /\ level \in 0 .. MaxLevel + 1
      BY <2>1, VisitLevel
    <3>2. level \in 0 .. MaxLevel
      BY <1>5 DEF RingStart, CheckLevel
    <3> QED
      BY <3>1, <3>2 DEF Level, WKBAssumption, Inv, TypeOK, WriterTypeOK
  <2>3. values' = values \o OpenWords(Node(RING, dims, Depth))
    <3> DEFINE c == CountWord(0)
               v == values
    <3>1. OpenWords(Node(RING, dims, Depth)) = << c >>
      BY <2>1, <2>2, NewWords
    <3>2. values' = Append(v, c) /\ v \in Seq(Word) /\ c \in Word
      BY <1>1, <1>5, CountWordType DEF RingStart
    <3> HIDE DEF c, v
    <3>3. Append(v, c) = v \o << c >>
      BY <3>2
    <3> QED
      BY <3>1, <3>2, <3>3 DEF v
  <2>4. /\ offsets' = offsets /\ dimensions' = dimensions
        /\ sizePos' = [sizePos EXCEPT ![level + 1] = Len(values) + 1]
    BY <1>5 DEF RingStart, Reserved
  <2>5. \A l \in 1 .. Depth : sizePos'[l] = sizePos[l] /\ dimensions'[l] = dimensions[l]
    <3>1. \A l \in 1 .. level : l \in Level /\ l # level + 1
      BY <2>2 DEF Level
    <3> QED
      BY <2>2, <2>4, <3>1
  <2>6. sizePos'[Depth + 1] = Len(values) + CountPlace(RING)
    BY <2>2, <2>4 DEF CountPlace
  <2> QED
    BY <1>1, <2>1, <2>3, <2>4, <2>5, <2>6, StartKeeps
<1>6. ASSUME NEW n \in 0 .. MaxChunk, Coords(n)
      PROVE  FeatureStored'
  <2>1. n \in Nat
    BY DEF ProtocolAssumption
  <2>2. /\ ReadCoords(n) /\ UNCHANGED << offsets, sizePos, dimensions >>
        /\ values' = values \o [i \in 1 .. n |-> CoordWord(Label, nodes[Len(nodes)].dims)]
    BY <1>6 DEF Coords
  <2> QED
    BY <1>1, <2>1, <2>2, CoordsKeep
<1>7. CASE RingEnd \/ GeomEnd
  BY <1>7, EndKeeps
<1>8. CASE UNCHANGED vars
  <2>1. UNCHANGED << open, nodes, values, offsets, sizePos, dimensions >>
    BY <1>8 DEF vars, protocolVars, writerVars, stackVars, bufferVars
  <2>2. CASE open = << >>
    BY <2>1, <2>2 DEF FeatureStored
  <2>3. CASE open # << >>
    <3>1. PICK at, pos : Tracks(at) /\ Stored(at, pos)
      BY <2>3 DEF FeatureStored
    <3>2. Depth' = Depth
      BY <2>1 DEF Depth
    <3>3. Tracks(at)'
      BY <2>1, <3>1, <3>2 DEF Tracks
    <3>4. \A i : VisitedWords(at, i)' = VisitedWords(at, i)
      BY <2>1, <3>2 DEF VisitedWords
    <3>5. Stored(at, pos)'
      <4>1. \A i \in 1 .. Len(nodes) :
              /\ pos[i + 1] = pos[i] + Len(VisitedWords(at, i)')
              /\ \A k \in 1 .. Len(VisitedWords(at, i)') :
                   values[pos[i] + k] = VisitedWords(at, i)'[k]
        BY <3>1, <3>4 DEF Stored
      <4>2. \A i \in 1 .. Len(nodes)' :
              /\ pos[i + 1] = pos[i] + Len(VisitedWords(at, i)')
              /\ \A k \in 1 .. Len(VisitedWords(at, i)') :
                   values'[pos[i] + k] = VisitedWords(at, i)'[k]
        BY <2>1, <4>1
      <4>3. /\ pos \in [1 .. Len(nodes)' + 1 -> Nat]
            /\ pos[1] = offsets'[Len(offsets)'] /\ pos[Len(nodes)' + 1] = Len(values)'
            /\ \A l \in 1 .. Depth' :
                 /\ open'[l + 1].type # POINT =>
                      sizePos'[l] = pos[at[l]] + CountPlace(open'[l + 1].type)
                 /\ open'[l + 1].type # RING => dimensions'[l] = nodes'[at[l]].dims
        BY <2>1, <3>1, <3>2 DEF Stored
      <4> QED
        BY <4>2, <4>3 DEF Stored
    <3>6. CountsFit'
      BY <2>1, <2>3 DEF FeatureStored, CountsFit
    <3> QED
      BY <3>3, <3>5, <3>6 DEF FeatureStored
  <2> QED
    BY <2>2, <2>3
<1> QED
  BY <1>2, <1>3, <1>4, <1>5, <1>6, <1>7, <1>8 DEF Next

(* At feat_end the words since the last offset are the encoding. *)
LEMMA FeatureEncoded ==
  ASSUME ProtocolTypeOK, Nesting, values \in Seq(Word), FeatureStored, Len(open) = 1
  PROVE  SubSeq(values, offsets[Len(offsets)] + 1, Len(values)) = Encoding(nodes)
<1> DEFINE n == Len(nodes)
           start == offsets[Len(offsets)]
           end == Len(values)
<1>1. open # << >> /\ Depth = 0
  <2>1. open # << >>
    <3>1. open \in Seq(FrameSet)
      BY DEF ProtocolTypeOK
    <3> QED
      BY <3>1, EmptySeq
  <2> QED
    BY <2>1 DEF Depth
<1>2. PICK at, pos : Tracks(at) /\ Stored(at, pos)
  BY <1>1 DEF FeatureStored
<1>3. nodes \in Seq(NodeSet) /\ n \in Nat /\ end \in Nat
  BY DEF ProtocolTypeOK
<1>4. PICK f \in [0 .. n -> Seq(Word)] :
        /\ f[0] = << >>
        /\ \A i \in 1 .. n : f[i] = f[i - 1] \o NodeWords(nodes, i)
        /\ Encoding(nodes) = f[n]
  BY <1>3, EncodingSteps
<1>5. \A i \in 1 .. n : VisitedWords(at, i) = NodeWords(nodes, i)
  BY <1>1 DEF VisitedWords
<1>6. /\ pos[1] = start /\ pos[n + 1] = end /\ pos \in [1 .. n + 1 -> Nat]
      /\ \A i \in 1 .. n :
           /\ pos[i + 1] = pos[i] + Len(NodeWords(nodes, i))
           /\ \A k \in 1 .. Len(NodeWords(nodes, i)) :
                values[pos[i] + k] = NodeWords(nodes, i)[k]
  <2>1. /\ pos[1] = start /\ pos[n + 1] = end /\ pos \in [1 .. n + 1 -> Nat]
    BY <1>2 DEF Stored
  <2>2. ASSUME NEW i \in 1 .. n
        PROVE  /\ pos[i + 1] = pos[i] + Len(NodeWords(nodes, i))
               /\ \A k \in 1 .. Len(NodeWords(nodes, i)) :
                    values[pos[i] + k] = NodeWords(nodes, i)[k]
    <3>1. /\ pos[i + 1] = pos[i] + Len(VisitedWords(at, i))
          /\ \A k \in 1 .. Len(VisitedWords(at, i)) :
               values[pos[i] + k] = VisitedWords(at, i)[k]
      BY <1>2 DEF Stored
    <3> QED
      BY <1>5, <3>1
  <2> QED
    BY <2>1, <2>2
<1>7. \A i \in 1 .. n : NodeWords(nodes, i) \in Seq(Word)
  BY <1>3, NodeWordsType
<1> HIDE DEF n, start, end
<1> DEFINE T == {i \in 0 .. n : /\ start + Len(f[i]) = pos[i + 1]
                                /\ \A k \in 1 .. Len(f[i]) : values[start + k] = f[i][k]}
<1>8. start \in Nat
  <2>1. 1 \in 1 .. n + 1
    BY <1>3
  <2> QED
    BY <1>6, <2>1
<1>9. 0 \in T
  <2> DEFINE e == f[0]
  <2>1. Len(e) = 0
    BY <1>4, EmptySeq
  <2>2. pos[0 + 1] = start
    BY <1>6
  <2>3. 0 \in 0 .. n
    BY <1>3
  <2> HIDE DEF e
  <2>4. start + Len(e) = pos[0 + 1]
    BY <1>8, <2>1, <2>2
  <2>5. \A k \in 1 .. Len(e) : values[start + k] = e[k]
    BY <2>1
  <2> QED
    BY <2>3, <2>4, <2>5 DEF e
<1>10. ASSUME NEW i \in 0 .. n - 1, i \in T
       PROVE  i + 1 \in T
  <2> DEFINE a == f[i]
             b == NodeWords(nodes, i + 1)
             p == pos[i + 1]
             la == Len(a)
             lb == Len(b)
  <2>1. i + 1 \in 1 .. n /\ (i + 1) - 1 = i /\ i \in 0 .. n /\ i + 1 \in 0 .. n
    BY <1>3
  <2>2. /\ a \in Seq(Word) /\ b \in Seq(Word) /\ f[i + 1] = a \o b
        /\ pos[(i + 1) + 1] = p + lb
        /\ \A k \in 1 .. lb : values[p + k] = b[k]
        /\ start + la = p
        /\ \A k \in 1 .. la : values[start + k] = a[k]
    BY <1>4, <1>6, <1>7, <1>10, <2>1
  <2> HIDE DEF a, b, p
  <2>3. /\ Len(a \o b) = la + lb /\ la \in Nat /\ lb \in Nat
        /\ \A k \in 1 .. la : (a \o b)[k] = a[k]
        /\ \A k \in 1 .. lb : (a \o b)[la + k] = b[k]
    <3>1. a \in Seq(Word) /\ b \in Seq(Word)
      BY <2>2
    <3> QED
      BY <3>1
  <2> DEFINE both == a \o b
  <2> HIDE DEF la, lb, both
  <2>4. start + Len(both) = p + lb
    BY <1>8, <2>2, <2>3 DEF both
  <2>5. ASSUME NEW k \in 1 .. la + lb
        PROVE  values[start + k] = both[k]
    <3>1. CASE k <= la
      <4>1. k \in 1 .. la
        BY <2>3, <3>1
      <4> QED
        BY <2>2, <2>3, <4>1 DEF both
    <3>2. CASE k > la
      <4>1. PICK j \in 1 .. lb : k = la + j
        <5>1. k - la \in 1 .. lb /\ k = la + (k - la)
          BY <2>3, <3>2
        <5> QED
          BY <5>1
      <4>2. start + k = p + j
        BY <1>8, <2>2, <2>3, <4>1
      <4> QED
        BY <2>2, <2>3, <4>1, <4>2 DEF both
    <3>3. k <= la \/ k > la
      BY <2>3
    <3> QED
      BY <3>1, <3>2, <3>3
  <2> QED
    BY <2>1, <2>2, <2>3, <2>4, <2>5 DEF both
<1> HIDE DEF T
<1>11. n \in T
  <2>1. \A i \in 0 .. n : i \in T
    BY <1>3, <1>9, <1>10, IntervalInduction
  <2> QED
    BY <1>3, <2>1
<1> DEFINE e == f[n]
<1>12. /\ e \in Seq(Word) /\ Len(e) \in Nat /\ start + Len(e) = end
       /\ \A k \in 1 .. Len(e) : values[start + k] = e[k]
  <2>1. n \in 0 .. n
    BY <1>3
  <2>2. e \in Seq(Word)
    BY <1>4, <2>1
  <2> QED
    BY <1>6, <1>11, <2>2 DEF T
<1> HIDE DEF e
<1> DEFINE s == SubSeq(values, start + 1, end)
<1>13. /\ s \in Seq(Word) /\ Len(s) = end - start
       /\ \A k \in 1 .. end - start : s[k] = values[start + k]
  <2> DEFINE v == values
  <2>1. v \in Seq(Word) /\ end = Len(v) /\ start + Len(e) = end
    BY <1>12 DEF end
  <2>2. start <= end
    BY <1>3, <1>8, <1>12
  <2> HIDE DEF v
  <2>3. LET t == SubSeq(v, start + 1, end)
        IN /\ t \in Seq(Word) /\ Len(t) = end - start
           /\ \A k \in 1 .. end - start : t[k] = v[start + k]
    BY <1>3, <1>8, <2>1, <2>2
  <2> QED
    BY <2>3 DEF v
<1> HIDE DEF s
<1>14. Len(s) = Len(e)
  BY <1>3, <1>8, <1>12, <1>13
<1>15. \A k \in 1 .. Len(s) : s[k] = e[k]
  BY <1>12, <1>13, <1>14
<1>16. s = e
  BY <1>12, <1>13, <1>14, <1>15
<1> QED
  BY <1>4, <1>16 DEF s, e, start, end

-----------------------------------------------------------------------------
(* A row as it can be read back, and as the calls told it. *)
DecodedRow(i) == [valid |-> IsValid(validity, i), words |-> RowWords(i)]
Told(feature) == [valid |-> ~feature.null, words |-> Encoding(feature.nodes)]

(* One more row: the others are unchanged and the new one is as told. *)
LEMMA RowAdded ==
  ASSUME NEW k \in Nat, rows \in Seq(FeatureSet), Len(rows) = k,
         CompleteRows = k, CompleteRows' = k + 1,
         failed = 0, Fits, RowsEncodeFeatures,
         NEW feature \in FeatureSet, rows' = Append(rows, feature),
         \A i \in 1 .. k : DecodedRow(i)' = DecodedRow(i),
         DecodedRow(k + 1)' = Told(feature)
  PROVE  RowsEncodeFeatures'
<1>1. Decoded = [i \in 1 .. k |-> DecodedRow(i)]
  BY DEF Decoded, DecodedRow
<1>2. Decoded = [i \in 1 .. k |-> Told(rows[i])]
  <2>1. Decoded = [i \in DOMAIN rows |-> Told(rows[i])]
    BY DEF RowsEncodeFeatures, Fits, Told
  <2>2. DOMAIN rows = 1 .. k
    OBVIOUS
  <2> QED
    BY <2>1, <2>2
<1>3. \A i \in 1 .. k : DecodedRow(i) = Told(rows[i])
  <2> TAKE i \in 1 .. k
  <2>1. Decoded[i] = DecodedRow(i)
    BY <1>1
  <2>2. Decoded[i] = Told(rows[i])
    BY <1>2
  <2> QED
    BY <2>1, <2>2
<1>4. /\ DOMAIN rows' = 1 .. k + 1 /\ rows'[k + 1] = feature
      /\ \A i \in 1 .. k : rows'[i] = rows[i]
  OBVIOUS
<1>5. \A i \in 1 .. k + 1 : DecodedRow(i)' = Told(rows'[i])
  <2> TAKE i \in 1 .. k + 1
  <2>1. CASE i = k + 1
    BY <1>4, <2>1
  <2>2. CASE i # k + 1
    <3>1. i \in 1 .. k
      BY <2>2
    <3> QED
      BY <1>3, <1>4, <3>1
  <2> QED
    BY <2>1, <2>2
<1>6. Decoded' = [i \in 1 .. k + 1 |-> DecodedRow(i)']
  BY DEF Decoded, DecodedRow
<1>7. Decoded' = [i \in DOMAIN rows' |-> Told(rows'[i])]
  BY <1>4, <1>5, <1>6
<1> QED
  BY <1>7 DEF RowsEncodeFeatures, Told

(* The bit of the feature that was completed last. *)
LEMMA LastValid ==
  ASSUME NEW bitmap \in Bitmap, NEW n \in Nat \ {0},
         ~bitmap.data => bitmap.bits = << >>,
         bitmap.data => Len(bitmap.bits) = n - 1
  PROVE  /\ IsValid(MarkNull(bitmap, n), n) = FALSE
         /\ IsValid(MarkValid(bitmap), n) = TRUE
<1>1. bitmap.bits \in Seq(Bit) /\ bitmap.data \in BOOLEAN
  BY DEF Bitmap
<1>2. CASE bitmap.data
  <2>1. ASSUME NEW b \in Bit
        PROVE  /\ AppendBit(bitmap, b).bits # << >>
               /\ AppendBit(bitmap, b).bits[n] = b
    <3>1. /\ AppendBit(bitmap, b).bits = Append(bitmap.bits, b)
          /\ Append(bitmap.bits, b)[n] = b
          /\ Len(Append(bitmap.bits, b)) = n
      BY <1>1, <1>2 DEF AppendBit
    <3>2. Append(bitmap.bits, b) # << >>
      <4>1. Append(bitmap.bits, b) \in Seq(Bit)
        BY <1>1
      <4> QED
        BY <3>1, <4>1, EmptySeq
    <3> QED
      BY <3>1, <3>2
  <2>2. 0 \in Bit /\ 1 \in Bit
    BY DEF Bit
  <2>3. IsValid(AppendBit(bitmap, 0), n) = FALSE
    BY <2>1, <2>2 DEF IsValid
  <2>4. IsValid(AppendBit(bitmap, 1), n) = TRUE
    BY <2>1, <2>2 DEF IsValid
  <2>5. MarkNull(bitmap, n) = AppendBit(bitmap, 0) /\ MarkValid(bitmap) = AppendBit(bitmap, 1)
    BY <1>2 DEF MarkNull, MarkValid
  <2> QED
    BY <2>3, <2>4, <2>5
<1>3. CASE ~bitmap.data
  <2> DEFINE bits == [k \in 1 .. n |-> IF k = n THEN 0 ELSE 1]
  <2>1. MarkNull(bitmap, n).bits = bits /\ MarkValid(bitmap) = bitmap
    BY <1>3 DEF MarkNull, MarkValid
  <2>2. bits[n] = 0 /\ bits \in Seq(Bit) /\ Len(bits) = n
    BY DEF Bit
  <2> HIDE DEF bits
  <2>3. bits # << >>
    BY <2>2, EmptySeq
  <2> QED
    BY <1>3, <2>1, <2>2, <2>3 DEF IsValid
<1> QED
  BY <1>2, <1>3

(* feat_end adds the row of the feature that was visited. *)
LEMMA FeatEndEncodes ==
  ASSUME ProtocolAssumption, WKBAssumption, BatchInv, Fits, failed = 0,
         FeatureStored, RowsEncodeFeatures, FeatEnd
  PROVE  RowsEncodeFeatures'
<1>1. /\ length \in Nat /\ Len(rows) \in Nat /\ validity \in Bitmap
      /\ ProtocolTypeOK /\ Inv /\ Len(validity.bits) \in Nat
      /\ values \in Seq(Word) /\ rows \in Seq(FeatureSet)
  BY SinkTypes
<1>2. /\ Len(open) = 1 /\ open # << >> /\ open' = << >> /\ failed' = 0
      /\ UNCHANGED << values, length, offsets >>
      /\ rows' = Append(rows, [null |-> Top.type = NULLFEATURE, nodes |-> nodes])
  <2>1. Len(open) = 1 /\ open' = << >> /\ failed' = failed
        /\ UNCHANGED << values, length, offsets >>
        /\ rows' = Append(rows, [null |-> Top.type = NULLFEATURE, nodes |-> nodes])
    BY DEF FeatEnd, ReadFeatEnd, FeatureComplete
  <2>2. open # << >>
    BY <2>1, EmptySeq
  <2> QED
    BY <2>1, <2>2
<1>3. length \in Nat \ {0} /\ length - 1 \in Nat
  BY <1>1, <1>2, OpenFeatureCounted
<1> PICK k \in Nat : k = length - 1
  BY <1>3
<1> PICK feature : feature = [null |-> Top.type = NULLFEATURE, nodes |-> nodes]
  OBVIOUS
<1>4. CompleteRows = k /\ CompleteRows' = k + 1
  BY <1>1, <1>2 DEF CompleteRows, Idle
<1>5. /\ Len(rows) = k /\ Len(offsets) = length
      /\ (validity.data => Len(validity.bits) = length - 1)
      /\ (~validity.data => validity.bits = << >>)
  BY <1>1, <1>2 DEF BatchInv, Aligned, NullsCounted, Unended, Idle
<1>6. validity' = IF featIsNull THEN MarkNull(validity, length) ELSE MarkValid(validity)
  BY DEF FeatEnd
<1>7. ASSUME NEW i \in 1 .. k
      PROVE  DecodedRow(i)' = DecodedRow(i)
  <2>1. /\ IsValid(MarkNull(validity, length), i) = IsValid(validity, i)
        /\ IsValid(MarkValid(validity), i) = IsValid(validity, i)
    BY <1>1, <1>3, <1>5, ValidityKept
  <2>2. IsValid(validity, i)' = IsValid(validity', i)
    BY DEF IsValid
  <2>3. IsValid(validity, i)' = IsValid(validity, i)
    BY <1>6, <2>1, <2>2
  <2>4. RowWords(i)' = RowWords(i)
    BY <1>2 DEF RowWords
  <2> QED
    BY <2>3, <2>4 DEF DecodedRow
<1>8. DecodedRow(k + 1)' = Told(feature)
  <2>1. IsValid(validity, length)' = ~(Top.type = NULLFEATURE)
    <3>1. /\ IsValid(MarkNull(validity, length), length) = FALSE
          /\ IsValid(MarkValid(validity), length) = TRUE
      BY <1>1, <1>3, <1>5, LastValid
    <3>2. IsValid(validity, length)' = IsValid(validity', length)
      BY <1>2 DEF IsValid
    <3>3. (Top.type = NULLFEATURE) = featIsNull
      BY <1>1, <1>2 DEF Inv, LevelsTrackVisit, TypeOK, WriterTypeOK
    <3>4. CASE featIsNull
      BY <1>6, <3>1, <3>2, <3>3, <3>4
    <3>5. CASE ~featIsNull
      BY <1>6, <3>1, <3>2, <3>3, <3>5
    <3> QED
      BY <3>4, <3>5
  <2>2. RowWords(length)' = Encoding(nodes)
    <3>1. RowWords(length)' = SubSeq(values, offsets[length] + 1, Len(values))
      <4>1. length' = length /\ offsets' = offsets /\ values' = values
        BY <1>2
      <4>2. ~(length < Len(offsets))
        BY <1>3, <1>5
      <4>3. ~(length' < Len(offsets)')
        BY <4>1, <4>2
      <4> QED
        BY <4>1, <4>3 DEF RowWords
    <3>2. Nesting
      BY <1>1 DEF Inv
    <3> QED
      BY <1>1, <1>2, <1>5, <3>1, <3>2, FeatureEncoded
  <2>3. DecodedRow(length)' = [valid |-> IsValid(validity, length)',
                               words |-> RowWords(length)']
    BY <1>2 DEF DecodedRow
  <2>4. Told(feature) = [valid |-> ~(Top.type = NULLFEATURE), words |-> Encoding(nodes)]
    BY DEF Told
  <2>5. DecodedRow(k + 1)' = DecodedRow(length)'
    BY <1>2, <1>3 DEF DecodedRow, RowWords, IsValid
  <2> QED
    BY <2>1, <2>2, <2>3, <2>4, <2>5
<1>9. feature \in FeatureSet /\ rows' = Append(rows, feature)
  BY <1>1, <1>2 DEF ProtocolTypeOK, FeatureSet
<1> QED
  BY <1>1, <1>3, <1>4, <1>5, <1>7, <1>8, <1>9, RowAdded

(* What was added to a sequence. *)
LEMMA AddedWords ==
  ASSUME NEW S, NEW v \in Seq(S), NEW w \in Seq(S)
  PROVE  /\ v \o w \in Seq(S) /\ Len(v \o w) = Len(v) + Len(w)
         /\ \A k \in 1 .. Len(v) : (v \o w)[k] = v[k]
         /\ SubSeq(v \o w, Len(v) + 1, Len(v \o w)) = w
<1>1. /\ v \o w \in Seq(S) /\ Len(v \o w) = Len(v) + Len(w)
      /\ Len(v) \in Nat /\ Len(w) \in Nat
      /\ \A k \in 1 .. Len(v) : (v \o w)[k] = v[k]
      /\ \A k \in 1 .. Len(w) : (v \o w)[Len(v) + k] = w[k]
  OBVIOUS
<1> DEFINE both == v \o w
           a == Len(v)
           b == Len(w)
<1>2. both \in Seq(S) /\ Len(both) = a + b /\ a \in Nat /\ b \in Nat
      /\ \A k \in 1 .. b : both[a + k] = w[k]
  BY <1>1
<1> HIDE DEF both, a
<1> DEFINE tail == SubSeq(both, a + 1, a + b)
<1>3. tail \in Seq(S) /\ Len(tail) = b /\ \A k \in 1 .. b : tail[k] = both[a + k]
  <2> HIDE DEF b
  <2> QED
    BY <1>2
<1> HIDE DEF tail
<1>4. tail = w
  <2>1. \A k \in 1 .. b : tail[k] = w[k]
    BY <1>2, <1>3
  <2> QED
    BY <1>3, <2>1
<1> QED
  BY <1>1, <1>2, <1>4 DEF tail, both, a

(* A feature that is appended whole adds its row and leaves the others,    *)
(* which end at the offset that is appended with it.                       *)
LEMMA AppendedRow ==
  ASSUME ProtocolAssumption, WKBAssumption, BatchInv, Idle, Fits, failed = 0,
         RowsEncodeFeatures, AppendOffset, UNCHANGED << open, failed >>,
         NEW words \in Seq(Word), values' = values \o words,
         NEW feature \in FeatureSet, rows' = Append(rows, feature),
         AppendValidity(~feature.null), Encoding(feature.nodes) = words
  PROVE  RowsEncodeFeatures'
<1>1. /\ length \in Nat /\ Len(rows) \in Nat /\ validity \in Bitmap
      /\ Len(validity.bits) \in Nat /\ Len(values) \in Nat
      /\ values \in Seq(Word) /\ rows \in Seq(FeatureSet)
      /\ offsets \in Seq(Nat) /\ Inv
  BY SinkTypes
<1>2. /\ Len(rows) = length /\ Len(offsets) = length
      /\ (validity.data => Len(validity.bits) = length)
      /\ (~validity.data => validity.bits = << >>)
  BY <1>1 DEF BatchInv, Aligned, NullsCounted, Unended
<1> PICK k \in Nat : k = length
  BY <1>1
<1> PICK ended : ended = Append(offsets, Len(values))
  OBVIOUS
<1>3. offsets' = ended
  BY <1>1 DEF AppendOffset, Int32, Fits, WKBAssumption
<1>4. CompleteRows = k /\ CompleteRows' = k + 1 /\ length' = k + 1
  BY <1>1 DEF CompleteRows, Idle, AppendValidity
<1>5. /\ Len(ended) = k + 1 /\ ended[k + 1] = Len(values)
      /\ \A i \in 1 .. k : ended[i] = offsets[i]
  BY <1>1, <1>2
<1>6. /\ values' \in Seq(Word) /\ Len(values) <= Len(values')
      /\ \A i \in 1 .. Len(values) : values'[i] = values[i]
      /\ SubSeq(values', Len(values) + 1, Len(values')) = words
  <2> DEFINE v == values
  <2>1. v \in Seq(Word) /\ values' = v \o words
    BY <1>1
  <2> HIDE DEF v
  <2>2. /\ v \o words \in Seq(Word) /\ Len(v \o words) = Len(v) + Len(words)
        /\ \A i \in 1 .. Len(v) : (v \o words)[i] = v[i]
        /\ SubSeq(v \o words, Len(v) + 1, Len(v \o words)) = words
    BY <2>1, AddedWords
  <2>3. Len(v) \in Nat /\ Len(words) \in Nat
    BY <2>1
  <2> QED
    BY <2>1, <2>2, <2>3 DEF v
<1>7. ASSUME NEW i \in 1 .. k
      PROVE  DecodedRow(i)' = DecodedRow(i)
  <2>1. IsValid(validity, i)' = IsValid(validity, i)
    <3>1. k + 1 \in Nat \ {0} /\ i \in 1 .. (k + 1) - 1 /\ (k + 1) - 1 = length
      OBVIOUS
    <3>2. /\ IsValid(MarkNull(validity, k + 1), i) = IsValid(validity, i)
          /\ IsValid(MarkValid(validity), i) = IsValid(validity, i)
      BY <1>1, <1>2, <3>1, ValidityKept
    <3>3. validity' = MarkNull(validity, k + 1) \/ validity' = MarkValid(validity)
      BY DEF AppendValidity
    <3>4. IsValid(validity, i)' = IsValid(validity', i)
      BY DEF IsValid
    <3> QED
      BY <3>2, <3>3, <3>4
  <2>2. RowWords(i)' = RowWords(i)
    <3>1. RowWords(i) = SubSeq(values, ended[i] + 1, ended[i + 1]) /\ i < Len(ended)
      BY RowWordsEnded
    <3>2. RowWords(i)' = SubSeq(values', ended[i] + 1, ended[i + 1])
      BY <1>3, <3>1 DEF RowWords
    <3>3. ended[i] \in Nat /\ ended[i + 1] \in Nat /\ ended[i + 1] <= Len(values)
      <4>1. ended[i] \in Nat
        BY <1>1, <1>2, <1>5
      <4>2. CASE i = k
        BY <1>1, <1>5, <4>1, <4>2
      <4>3. CASE i # k
        <5>1. i + 1 \in 1 .. k
          BY <4>3
        <5>2. offsets[i + 1] \in Nat /\ offsets[i + 1] <= Len(values)
          BY <1>1, <1>2, <5>1 DEF Inv, OffsetsAscend
        <5> QED
          BY <1>5, <4>1, <5>1, <5>2
      <4> QED
        BY <4>2, <4>3
    <3> DEFINE a == ended[i]
               b == ended[i + 1]
               new == values'
    <3>4. /\ a \in Nat /\ b \in Nat /\ new \in Seq(Word)
          /\ b <= Len(values) /\ b <= Len(new)
          /\ \A j \in 1 .. b : new[j] = values[j]
      <4>1. a \in Nat /\ b \in Nat /\ b <= Len(values) /\ new \in Seq(Word)
        BY <1>6, <3>3
      <4>2. /\ Len(values) \in Nat /\ Len(new) \in Nat /\ Len(values) <= Len(new)
            /\ \A j \in 1 .. Len(values) : new[j] = values[j]
        BY <1>1, <1>6
      <4> HIDE DEF a, b, new
      <4> QED
        BY <4>1, <4>2
    <3> HIDE DEF a, b, new
    <3>5. SubSeq(new, a + 1, b) = SubSeq(values, a + 1, b)
      BY <1>1, <3>4, SameSubSeq
    <3> QED
      BY <3>1, <3>2, <3>5 DEF a, b, new
  <2> QED
    BY <2>1, <2>2 DEF DecodedRow
<1>8. DecodedRow(k + 1)' = Told(feature)
  <2>1. IsValid(validity, k + 1)' = ~feature.null
    <3>1. k + 1 \in Nat \ {0} /\ (k + 1) - 1 = length
      OBVIOUS
    <3>2. /\ IsValid(MarkNull(validity, k + 1), k + 1) = FALSE
          /\ IsValid(MarkValid(validity), k + 1) = TRUE
      BY <1>1, <1>2, <3>1, LastValid
    <3>3. validity' = IF ~feature.null THEN MarkValid(validity)
                      ELSE MarkNull(validity, k + 1)
      BY DEF AppendValidity
    <3>4. IsValid(validity, k + 1)' = IsValid(validity', k + 1)
      BY DEF IsValid
    <3>5. CASE feature.null
      BY <3>2, <3>3, <3>4, <3>5
    <3>6. CASE ~feature.null
      BY <3>2, <3>3, <3>4, <3>6
    <3> QED
      BY <3>5, <3>6
  <2>2. RowWords(k + 1)' = words
    <3>1. ~(k + 1 < Len(offsets)')
      BY <1>3, <1>5
    <3>2. RowWords(k + 1)' = SubSeq(values', ended[k + 1] + 1, Len(values'))
      BY <1>3, <3>1 DEF RowWords
    <3> QED
      BY <1>5, <1>6, <3>2
  <2> QED
    BY <2>1, <2>2 DEF DecodedRow, Told
<1> QED
  BY <1>1, <1>2, <1>4, <1>7, <1>8, RowAdded

(* A null feature has no words. *)
LEMMA NoWords == Encoding(<< >>) = << >>
<1>1. << >> \in Seq(NodeSet) /\ Len(<< >>) = 0
  OBVIOUS
<1>2. PICK f \in [0 .. Len(<< >>) -> Seq(Word)] :
        /\ f[0] = << >>
        /\ Encoding(<< >>) = f[Len(<< >>)]
  BY <1>1, EncodingSteps
<1> QED
  BY <1>1, <1>2

(* Rows, and the words of the feature that is open. *)
RowsInv ==
  /\ RowsEncodeFeatures
  /\ Fits => NoParts /\ (failed = 0 => FeatureStored)

(* Whatever the next call is, as long as the values fit after it. *)
LEMMA RowsStep ==
  ASSUME ProtocolAssumption, WKBAssumption, GeometriesAssumption, AppendInv,
         RowsInv, [AppendNext]_vars
  PROVE  RowsInv'
<1>1. CASE Finish
  <2>1. /\ open = << >> /\ open' = << >> /\ rows' = << >> /\ length' = 0
    BY <1>1 DEF Finish, BatchDone, Idle, EmptyCounters
  <2>2. Decoded' = [i \in 1 .. 0 |-> DecodedRow(i)']
    BY <2>1 DEF Decoded, DecodedRow, CompleteRows, Idle
  <2>3. 1 .. 0 = {} /\ DOMAIN rows' = {}
    BY <2>1
  <2>4. RowsEncodeFeatures'
    BY <2>2, <2>3 DEF RowsEncodeFeatures
  <2> QED
    BY <2>1, <2>4 DEF RowsInv, NoParts, FeatureStored
<1>2. CASE ~Finish /\ ~Fits'
  BY <1>2 DEF RowsInv, RowsEncodeFeatures, Fits
<1>3. CASE ~Finish /\ Fits'
  <2>1. /\ Len(values) \in Nat /\ Len(values') \in Nat /\ Len(values) <= Len(values')
    <3>1. CASE [Next]_vars
      <4>1. Grown' /\ Grown /\ Len(values) <= Len(values')
        BY <1>3, <3>1, ValuesGrow DEF AppendInv
      <4> QED
        BY <4>1 DEF Grown
    <3>2. CASE ~[Next]_vars
      BY <3>2, AppendedWords DEF AppendNext, AppendInv
    <3> QED
      BY <3>1, <3>2
  <2>2. Fits
    BY <1>3, <2>1 DEF Fits, WKBAssumption
  <2>3. BatchInv /\ Inv /\ NoParts /\ (failed = 0 => FeatureStored)
    BY <2>2 DEF AppendInv, RowsInv, BatchInv
  <2>4. /\ ProtocolTypeOK /\ Nesting /\ failed \in Nat /\ values \in Seq(Word)
    BY <2>3, SinkTypes DEF Inv
  <2>5. NoParts'
    <3>1. CASE [Next]_vars
      BY <2>3, <2>4, <3>1, StepIsCall, NoPartsPreserved
    <3>2. CASE ~[Next]_vars
      <4>1. \/ UNCHANGED << open, nodes >> \/ open' = << >>
        BY <3>2 DEF AppendNext, AppendGeometry, AppendNull, AppendFails, Appended, Abandon
      <4> QED
        BY <2>3, <4>1 DEF NoParts
    <3> QED
      BY <3>1, <3>2
  <2>6. ASSUME failed' = 0
        PROVE  FeatureStored' /\ RowsEncodeFeatures'
    <3>1. /\ ~FeatStartOverflow /\ ~ReaderFails /\ ~AppendFails
      BY <2>4, <2>6 DEF FeatStartOverflow, ReaderFails, AppendFails, Abandon
    <3>2. CASE FeatEnd
      <4>1. open' = << >> /\ failed = 0
        BY <2>6, <3>2 DEF FeatEnd, ReadFeatEnd
      <4> QED
        BY <2>2, <2>3, <3>2, <4>1, FeatEndEncodes DEF RowsInv, FeatureStored
    <3>3. CASE [Next]_vars /\ ~FeatEnd
      <4>1. Pending' = Pending /\ failed = 0
        BY <1>3, <2>3, <2>6, <3>1, <3>3, VisitIsStutter
      <4>2. FeatureStored'
        BY <1>3, <2>2, <2>3, <3>1, <3>3, <4>1, VisitKeeps
      <4>3. rows' = rows
        BY <1>3, <3>1, <3>3 DEF Next, vars, protocolVars, FeatStart, NullFeat,
           GeomStart, RingStart, Coords, RingEnd, GeomEnd, ReadFeatStart,
           ReadNullFeat, ReadGeomStart, ReadRingStart, ReadPartStart, ReadCoords,
           ReadRingEnd, ReadGeomEnd, ReadPartEnd
      <4>4. Decoded' = Decoded
        BY <2>6, <4>1 DEF Pending
      <4>5. [i \in DOMAIN rows |-> Told(rows[i])]' = [i \in DOMAIN rows |-> Told(rows[i])]
        BY <4>3
      <4>6. Decoded = [i \in DOMAIN rows |-> Told(rows[i])]
        BY <2>2, <4>1 DEF RowsInv, RowsEncodeFeatures, Fits, Told
      <4> QED
        BY <4>2, <4>4, <4>5, <4>6 DEF RowsEncodeFeatures, Told
    <3>4. ASSUME NEW ns \in Geometries, AppendGeometry(ns)
          PROVE  FeatureStored' /\ RowsEncodeFeatures'
      <4> DEFINE feature == [null |-> FALSE, nodes |-> ns]
      <4>1. /\ Idle /\ UNCHANGED << open, failed >> /\ failed = 0
            /\ rows' = Append(rows, feature) /\ AppendOffset
            /\ values' = AppendBuffer(GeometryOf(ns)) /\ AppendValidity(TRUE)
        BY <2>6, <3>4 DEF AppendGeometry, Appended
      <4>2. ns \in Seq(NodeSet) /\ RingsFollow(ns)
        BY DEF GeometriesAssumption
      <4>3. values' = values \o Encoding(ns) /\ Encoding(ns) \in Seq(Word)
        BY <2>4, <4>1, <4>2, AppendedIsEncoding
      <4>4. feature \in FeatureSet /\ ~feature.null = TRUE /\ feature.nodes = ns
        BY <4>2 DEF FeatureSet
      <4>5. RowsEncodeFeatures /\ AppendValidity(~feature.null)
        BY <4>1, <4>4 DEF RowsInv
      <4> HIDE DEF feature
      <4>6. RowsEncodeFeatures'
        BY <2>2, <2>3, <4>1, <4>3, <4>4, <4>5, AppendedRow
      <4> QED
        BY <4>1, <4>6 DEF FeatureStored, Idle
    <3>5. CASE AppendNull
      <4> DEFINE feature == [null |-> TRUE, nodes |-> << >>]
      <4>1. /\ Idle /\ UNCHANGED << open, failed >> /\ failed = 0
            /\ rows' = Append(rows, feature) /\ AppendOffset
            /\ values' = values /\ AppendValidity(FALSE)
        BY <2>6, <3>5 DEF AppendNull, Appended
      <4>2. Encoding(<< >>) = << >> /\ << >> \in Seq(Word) /\ << >> \in Seq(NodeSet)
        BY NoWords
      <4>3. values' = values \o << >>
        BY <2>4, <4>1
      <4>4. feature \in FeatureSet /\ ~feature.null = FALSE /\ feature.nodes = << >>
        BY <4>2 DEF FeatureSet
      <4>5. RowsEncodeFeatures /\ AppendValidity(~feature.null)
        BY <4>1, <4>4 DEF RowsInv
      <4> HIDE DEF feature
      <4>6. RowsEncodeFeatures'
        BY <2>2, <2>3, <4>1, <4>2, <4>3, <4>4, <4>5, AppendedRow
      <4> QED
        BY <4>1, <4>6 DEF FeatureStored, Idle
    <3> QED
      BY <1>3, <3>1, <3>2, <3>3, <3>4, <3>5 DEF AppendNext
  <2> QED
    BY <2>5, <2>6 DEF RowsInv, RowsEncodeFeatures
<1> QED
  BY <1>1, <1>2, <1>3

(* What the writer is for: whatever features are visited, in however many  *)
(* chunks, or appended whole between the visits, a batch in which none was *)
(* abandoned and whose values fit holds for each feature its well-known    *)
(* binary, with every count filled in, and is null where the feature was.  *)
THEOREM RowsCorrect == AppendSpec => []RowsEncodeFeatures
<1>1. ASSUME Init
      PROVE  RowsInv
  <2>1. open = << >> /\ rows = << >> /\ length = 0
    BY <1>1 DEF Init, ProtocolInit
  <2>2. Decoded = [i \in 1 .. 0 |-> DecodedRow(i)]
    BY <2>1 DEF Decoded, DecodedRow, CompleteRows, Idle
  <2>3. 1 .. 0 = {} /\ DOMAIN rows = {}
    BY <2>1
  <2>4. RowsEncodeFeatures
    BY <2>2, <2>3 DEF RowsEncodeFeatures
  <2> QED
    BY <2>1, <2>4 DEF RowsInv, NoParts, FeatureStored
<1>2. AppendInv /\ RowsInv /\ [AppendNext]_vars => RowsInv'
  BY RowsStep, ProtocolAssumption, WKBAssumption, GeometriesAssumption
<1>3. RowsInv => RowsEncodeFeatures
  BY DEF RowsInv
<1> QED
  BY <1>1, <1>2, <1>3, AppendInvCorrect, PTL DEF AppendSpec

(* The same of the writer when it is only visited. *)
THEOREM VisitedRowsCorrect == Spec => []RowsEncodeFeatures
<1>1. [Next]_vars => [AppendNext]_vars
  BY DEF AppendNext
<1> QED
  BY <1>1, RowsCorrect, PTL DEF Spec, AppendSpec
=============================================================================
