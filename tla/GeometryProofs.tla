--------------------------- MODULE GeometryProofs ---------------------------
(***************************************************************************)
(* While a geometry is recorded, its nodes point into the memory that its  *)
(* coordinates are in, however often that memory moves.  The invariant     *)
(* says besides what the builder's variables can be and that an open       *)
(* geometry has a node; feat_end, which folds the nodes from the right,    *)
(* only sets sizes.                                                        *)
(***************************************************************************)
EXTENDS Geometries, DataProofs

-----------------------------------------------------------------------------
(* What a pointer, a node and the builder's state can be. *)
Pointer == [allocation : Int, offset : Int]
BuiltNode == [type : Int, dims : Int, level : 0 .. MaxNesting, size : Int,
              start : Pointer]

(* The builder's state, and the part of it that says where its memory is.  *)
BuilderTypeOK ==
  /\ root \in Seq(BuiltNode)
  /\ ordinates \in Seq(Range(ordinates))
  /\ capacity \in Nat /\ allocation \in Nat
  /\ currentLevel \in 0 .. MaxNesting

PointersInv ==
  /\ BuilderTypeOK
  /\ Len(ordinates) <= capacity
  /\ InGeometry => root # << >>
  /\ PointersCurrent

-----------------------------------------------------------------------------
(* A sequence of anything is a sequence of its own elements. *)
LEMMA OwnElements ==
  ASSUME NEW S, NEW s \in Seq(S)
  PROVE  s \in Seq(Range(s))
<1>1. DOMAIN s = 1 .. Len(s) /\ Len(s) \in Nat
  OBVIOUS
<1>2. \A i \in 1 .. Len(s) : s[i] \in Range(s)
  BY <1>1 DEF Range
<1>3. s = [i \in 1 .. Len(s) |-> s[i]]
  OBVIOUS
<1>4. s \in [1 .. Len(s) -> Range(s)]
  BY <1>2, <1>3
<1> QED
  BY <1>1, <1>4

(* Ordinates written behind the others: elements of their own and a length. *)
LEMMA MoreElements ==
  ASSUME NEW S, NEW s \in Seq(S), NEW n \in Nat, NEW f, f = [k \in 1 .. n |-> f[k]]
  PROVE  s \o f \in Seq(Range(s \o f)) /\ Len(s \o f) = Len(s) + n
<1> DEFINE T == {f[k] : k \in 1 .. n}
<1>1. f \in [1 .. n -> T]
  <2>1. \A k \in 1 .. n : f[k] \in T
    OBVIOUS
  <2> HIDE DEF T
  <2> QED
    BY <2>1
<1> HIDE DEF T
<1>2. f \in Seq(T) /\ Len(f) = n
  BY <1>1
<1>3. f \in Seq(S \cup T) /\ s \in Seq(S \cup T)
  BY <1>2
<1>4. s \o f \in Seq(S \cup T) /\ Len(s \o f) = Len(s) + Len(f)
  BY <1>3, ConcatProperties
<1> QED
  BY <1>2, <1>4, OwnElements

(* A coordinate has at least one ordinate. *)
LEMMA WidthType ==
  ASSUME NEW dims
  PROVE  NumDimensions(dims) \in Nat \ {0}
BY DEF NumDimensions

-----------------------------------------------------------------------------
(* Memory: reserving moves every pointer or none of them.                  *)
LEMMA ReserveKeeps ==
  ASSUME BuilderTypeOK, Len(ordinates) <= capacity, NEW n \in Nat, Reserve(n)
  PROVE  /\ capacity' \in Nat /\ allocation' \in Nat
         /\ Len(ordinates) + n <= capacity'
         /\ IF Moves(n) THEN allocation' = allocation + 1
                        ELSE allocation' = allocation
<1>1. Len(ordinates) \in Nat /\ capacity \in Nat /\ allocation \in Nat
  BY DEF BuilderTypeOK
<1>2. CASE Moves(n)
  <2>1. capacity' = Larger(Len(ordinates) + n, 2 * Len(ordinates))
        /\ allocation' = allocation + 1
    BY <1>2 DEF Reserve
  <2> QED
    BY <1>1, <1>2, <2>1 DEF Larger
<1>3. CASE ~Moves(n)
  <2>1. capacity' = capacity /\ allocation' = allocation
    BY <1>3 DEF Reserve
  <2> QED
    BY <1>1, <1>3, <2>1 DEF Moves
<1> QED
  BY <1>2, <1>3

(* Pointers that were current, after memory for n ordinates was reserved.  *)
Current(ns, a, len) ==
  \A i \in 1 .. Len(ns) :
    ns[i].start # EmptyPointCoords =>
      ns[i].start.allocation = a /\ ns[i].start.offset <= len

(* Reserving leaves every pointer current and moves no node. *)
LEMMA NodesMoved ==
  ASSUME NEW ns \in Seq(BuiltNode), NEW n \in Nat, NEW a \in Nat, NEW len,
         Current(ns, allocation, len), allocation \in Nat,
         IF Moves(n) THEN a = allocation + 1 ELSE a = allocation
  PROVE  /\ NodesAfter(ns, n) \in Seq(BuiltNode)
         /\ Len(NodesAfter(ns, n)) = Len(ns)
         /\ Current(NodesAfter(ns, n), a, len)
         /\ \A i \in 1 .. Len(ns) : NodesAfter(ns, n)[i].dims = ns[i].dims
<1>1. CASE ~Moves(n)
  BY <1>1 DEF NodesAfter
<1>2. CASE Moves(n)
  <2>1. PICK b : b = allocation + 1
    OBVIOUS
  <2> DEFINE st(i) == IF ns[i].start = EmptyPointCoords THEN ns[i].start
                      ELSE [ns[i].start EXCEPT !.allocation = b]
             moved(i) == [ns[i] EXCEPT !.start = st(i)]
  <2>2. Len(ns) \in Nat /\ DOMAIN ns = 1 .. Len(ns)
        /\ \A i \in 1 .. Len(ns) : ns[i] \in BuiltNode
    OBVIOUS
  <2>3. NodesAfter(ns, n) = [i \in 1 .. Len(ns) |-> moved(i)]
    BY <1>2, <2>1, <2>2 DEF NodesAfter, Rebased
  <2>4. ASSUME NEW i \in 1 .. Len(ns)
        PROVE  /\ moved(i) \in BuiltNode /\ moved(i).dims = ns[i].dims
               /\ moved(i).start # EmptyPointCoords =>
                    moved(i).start.allocation = a /\ moved(i).start.offset <= len
    <3>1. ns[i] \in BuiltNode /\ ns[i].start \in Pointer /\ b \in Int /\ b = a
      BY <1>2, <2>1, <2>2 DEF BuiltNode
    <3>2. st(i) \in Pointer
      BY <3>1 DEF Pointer
    <3>3. st(i) # EmptyPointCoords =>
            st(i).allocation = a /\ st(i).offset <= len
      <4>1. CASE ns[i].start = EmptyPointCoords
        BY <4>1
      <4>2. CASE ns[i].start # EmptyPointCoords
        <5>1. st(i) = [ns[i].start EXCEPT !.allocation = b]
          BY <4>2
        <5>2. st(i).allocation = b /\ st(i).offset = ns[i].start.offset
          BY <3>1, <5>1 DEF Pointer
        <5>3. ns[i].start.offset <= len
          BY <4>2 DEF Current
        <5> HIDE DEF st
        <5> QED
          BY <3>1, <5>2, <5>3
      <4> QED
        BY <4>1, <4>2
    <3> HIDE DEF st
    <3>4. moved(i) \in BuiltNode /\ moved(i).start = st(i) /\ moved(i).dims = ns[i].dims
      BY <3>1, <3>2 DEF BuiltNode
    <3> HIDE DEF moved
    <3> QED
      BY <3>3, <3>4
  <2> HIDE DEF moved
  <2>5. PICK r : r = NodesAfter(ns, n)
    OBVIOUS
  <2>6. r \in [1 .. Len(ns) -> BuiltNode] /\ \A i \in 1 .. Len(ns) : r[i] = moved(i)
    BY <2>3, <2>4, <2>5
  <2>7. r \in Seq(BuiltNode) /\ Len(r) = Len(ns)
    BY <2>2, <2>6
  <2>8. Current(r, a, len)
    BY <2>4, <2>6, <2>7 DEF Current
  <2> QED
    BY <2>4, <2>5, <2>6, <2>7, <2>8
<1> QED
  BY <1>1, <1>2

(* geom_start and ring_start: the new node points into the current memory. *)
LEMMA StartNodeKeeps ==
  ASSUME BuilderTypeOK, Len(ordinates) <= capacity,
         Current(root, allocation, Len(ordinates)),
         NEW type \in Int, NEW dims \in Int, StartNode(type, dims)
  PROVE  /\ root' \in Seq(BuiltNode) /\ root' # << >>
         /\ capacity' \in Nat /\ allocation' \in Nat
         /\ Len(ordinates) <= capacity'
         /\ Current(root', allocation', Len(ordinates))
<1>1. /\ root \in Seq(BuiltNode) /\ Len(root) \in Nat /\ Len(ordinates) \in Nat
      /\ capacity \in Nat /\ allocation \in Nat /\ currentLevel \in 0 .. MaxNesting
  BY DEF BuilderTypeOK
<1>2. PICK node : node = [NewNode EXCEPT !.type = type, !.dims = dims,
                                         !.level = currentLevel]
  OBVIOUS
<1>3. /\ node \in BuiltNode /\ node.start = EmptyPointCoords
  <2>1. /\ NewNode \in BuiltNode /\ NewNode.start = EmptyPointCoords
    BY NestingAssumption DEF NewNode, BuiltNode, Pointer, EmptyPointCoords, RING
  <2> QED
    BY <1>1, <1>2, <2>1 DEF BuiltNode
<1>4. PICK more : more = Append(root, node)
  OBVIOUS
<1>5. /\ more \in Seq(BuiltNode) /\ Len(more) = Len(root) + 1
      /\ \A i \in 1 .. Len(root) : more[i] = root[i]
      /\ more[Len(root) + 1] = node
  BY <1>1, <1>3, <1>4, AppendProperties
<1>6. Current(more, allocation, Len(ordinates))
  <2>1. ASSUME NEW i \in 1 .. Len(root) + 1, more[i].start # EmptyPointCoords
        PROVE  /\ more[i].start.allocation = allocation
               /\ more[i].start.offset <= Len(ordinates)
    <3>1. i \in 1 .. Len(root)
      BY <1>1, <1>3, <1>5, <2>1
    <3> QED
      BY <1>5, <2>1, <3>1 DEF Current
  <2> QED
    BY <1>5, <2>1 DEF Current
<1>7. CASE ~(type \in {POINT, LINESTRING})
  <2>1. root' = more /\ capacity' = capacity /\ allocation' = allocation
    BY <1>2, <1>4, <1>7 DEF StartNode
  <2>2. more # << >>
    BY <1>1, <1>5
  <2> QED
    BY <1>1, <1>5, <1>6, <2>1, <2>2
<1>8. CASE type \in {POINT, LINESTRING}
  <2>1. PICK w : w = NumDimensions(dims)
    OBVIOUS
  <2>2. w \in Nat
    BY <2>1, WidthType
  <2>3. PICK new : new = [allocation |-> allocation', offset |-> Len(ordinates)]
    OBVIOUS
  <2>4. Reserve(w) /\ root' = [NodesAfter(more, w) EXCEPT ![Len(root) + 1].start = new]
    BY <1>2, <1>4, <1>8, <2>1, <2>3 DEF StartNode
  <2>5. /\ capacity' \in Nat /\ allocation' \in Nat
        /\ Len(ordinates) + w <= capacity'
        /\ IF Moves(w) THEN allocation' = allocation + 1
                       ELSE allocation' = allocation
    BY <2>2, <2>4, ReserveKeeps
  <2>6. PICK moved, a : moved = NodesAfter(more, w) /\ a = allocation'
    OBVIOUS
  <2>7. /\ moved \in Seq(BuiltNode) /\ Len(moved) = Len(more)
        /\ Current(moved, a, Len(ordinates))
    <3>1. a \in Nat /\ (IF Moves(w) THEN a = allocation + 1 ELSE a = allocation)
      BY <2>5, <2>6
    <3> QED
      BY <1>1, <1>5, <1>6, <2>2, <2>6, <3>1, NodesMoved
  <2>8. Len(root) + 1 \in 1 .. Len(moved)
    BY <1>1, <1>5, <2>7
  <2>9. PICK last : last = [moved[Len(root) + 1] EXCEPT !.start = new]
    OBVIOUS
  <2>10. last \in BuiltNode /\ last.start = new
    <3>1. moved[Len(root) + 1] \in BuiltNode
      BY <2>7, <2>8
    <3>2. new \in Pointer
      BY <1>1, <2>3, <2>5 DEF Pointer
    <3> QED
      BY <2>9, <3>1, <3>2 DEF BuiltNode
  <2>11. root' = [moved EXCEPT ![Len(root) + 1] = last]
    BY <2>4, <2>6, <2>9
  <2>12. /\ root' \in Seq(BuiltNode) /\ Len(root') = Len(moved)
         /\ \A i \in 1 .. Len(moved) :
              root'[i] = IF i = Len(root) + 1 THEN last ELSE moved[i]
    BY <2>7, <2>8, <2>10, <2>11, ExceptSeq
  <2>13. Current(root', a, Len(ordinates))
    <3>1. new.allocation = a /\ new.offset <= Len(ordinates)
      BY <1>1, <2>3, <2>6
    <3>2. ASSUME NEW i \in 1 .. Len(moved), root'[i].start # EmptyPointCoords
          PROVE  root'[i].start.allocation = a /\ root'[i].start.offset <= Len(ordinates)
      <4>1. CASE i = Len(root) + 1
        BY <2>10, <2>12, <3>1, <4>1
      <4>2. CASE i # Len(root) + 1
        BY <2>7, <2>12, <3>2, <4>2 DEF Current
      <4> QED
        BY <4>1, <4>2
    <3> QED
      BY <2>12, <3>2 DEF Current
  <2>14. root' # << >>
    BY <2>8, <2>12
  <2>15. Len(ordinates) <= capacity'
    BY <1>1, <2>2, <2>5
  <2> QED
    BY <2>5, <2>6, <2>12, <2>13, <2>14, <2>15
<1> QED
  BY <1>7, <1>8

-----------------------------------------------------------------------------
(* feat_end sets sizes and nothing else. *)
SizeState == [sizes : [0 .. MaxNesting + 1 -> Int], end : Int, nodes : Seq(BuiltNode)]

(* One step of feat_end's fold: a size, in front of the nodes behind it. *)
LEMMA SetSizeType ==
  ASSUME NEW node \in BuiltNode, NEW acc \in SizeState
  PROVE  /\ SetSize(node, acc) \in SizeState
         /\ \E size \in Int :
              SetSize(node, acc).nodes = << [node EXCEPT !.size = size] >> \o acc.nodes
<1>1. /\ node.level \in 0 .. MaxNesting /\ node.level + 1 \in 0 .. MaxNesting + 1
      /\ node.start.offset \in Int /\ node.size \in Int
      /\ node = [node EXCEPT !.size = node.size]
  BY NestingAssumption DEF BuiltNode, Pointer
<1>2. acc.sizes \in [0 .. MaxNesting + 1 -> Int] /\ acc.end \in Int
      /\ acc.nodes \in Seq(BuiltNode)
  BY DEF SizeState
<1>3. PICK sizes : sizes = [acc.sizes EXCEPT ![node.level] = @ + 1]
  OBVIOUS
<1>4. sizes \in [0 .. MaxNesting + 1 -> Int] /\ sizes[node.level + 1] \in Int
  <2>1. sizes \in [0 .. MaxNesting + 1 -> Int]
    <3>1. PICK f, l : f = acc.sizes /\ l = node.level
      OBVIOUS
    <3>2. f \in [0 .. MaxNesting + 1 -> Int] /\ f[l] + 1 \in Int
      <4>1. l \in 0 .. MaxNesting + 1
        BY <1>1, <3>1, NestingAssumption
      <4>2. f[l] \in Int
        BY <1>2, <3>1, <4>1
      <4> QED
        BY <1>2, <3>1, <4>2
    <3>3. [f EXCEPT ![l] = f[l] + 1] \in [0 .. MaxNesting + 1 -> Int]
      BY <3>2
    <3> QED
      BY <1>3, <3>1, <3>3
  <2> QED
    BY <1>1, <2>1
<1>5. SizesTaken(sizes, node.level) \in [0 .. MaxNesting + 1 -> Int]
  BY <1>4, 0 \in Int DEF SizesTaken
<1>6. (acc.end - node.start.offset) \div NumDimensions(node.dims) \in Int
  <2>1. PICK x, w : x = acc.end - node.start.offset /\ w = NumDimensions(node.dims)
    OBVIOUS
  <2>2. x \in Int /\ w \in Nat /\ w > 0
    BY <1>1, <1>2, <2>1, WidthType
  <2>3. x \div w \in Int
    BY <2>2
  <2> QED
    BY <2>1, <2>3
<1>7. ASSUME NEW z \in [0 .. MaxNesting + 1 -> Int], NEW e \in Int, NEW n \in Int,
             SetSize(node, acc) =
               [sizes |-> z, end |-> e,
                nodes |-> << [node EXCEPT !.size = n] >> \o acc.nodes]
      PROVE  /\ SetSize(node, acc) \in SizeState
             /\ \E size \in Int :
                  SetSize(node, acc).nodes = << [node EXCEPT !.size = size] >> \o acc.nodes
  <2>1. PICK sized : sized = [node EXCEPT !.size = n]
    OBVIOUS
  <2>2. sized \in BuiltNode
    BY <2>1 DEF BuiltNode
  <2>3. << sized >> \in Seq(BuiltNode)
    BY <2>2
  <2>4. << sized >> \o acc.nodes \in Seq(BuiltNode)
    BY <1>2, <2>3, ConcatProperties
  <2>5. SetSize(node, acc) = [sizes |-> z, end |-> e, nodes |-> << sized >> \o acc.nodes]
    BY <1>7, <2>1
  <2>6. SetSize(node, acc).nodes = << sized >> \o acc.nodes
    BY <2>5
  <2>7. SetSize(node, acc) \in SizeState
    BY <2>4, <2>5 DEF SizeState
  <2> QED
    BY <2>1, <2>6, <2>7
<1>8. CASE node.type \in {POINT, LINESTRING}
  <2>1. node.type \notin Containers \cup {POLYGON}
    BY <1>8 DEF Containers, POINT, LINESTRING, POLYGON, MULTIPOINT, MULTILINESTRING,
                MULTIPOLYGON, GEOMETRYCOLLECTION
  <2>2. SetSize(node, acc) =
          [sizes |-> sizes, end |-> node.start.offset,
           nodes |-> << [node EXCEPT !.size =
                           (acc.end - node.start.offset) \div NumDimensions(node.dims)] >>
                     \o acc.nodes]
    BY <1>3, <1>8, <2>1, Zenon DEF SetSize
  <2> QED
    BY <1>1, <1>4, <1>6, <1>7, <2>2
<1>9. CASE node.type \in Containers \cup {POLYGON}
  <2>1. node.type \notin {POINT, LINESTRING}
    BY <1>9 DEF Containers, POINT, LINESTRING, POLYGON, MULTIPOINT, MULTILINESTRING,
                MULTIPOLYGON, GEOMETRYCOLLECTION
  <2>2. SetSize(node, acc) =
          [sizes |-> SizesTaken(sizes, node.level), end |-> acc.end,
           nodes |-> << [node EXCEPT !.size = sizes[node.level + 1]] >> \o acc.nodes]
    BY <1>3, <1>9, <2>1, Zenon DEF SetSize
  <2> QED
    BY <1>2, <1>4, <1>5, <1>7, <2>2
<1>10. CASE node.type \notin {POINT, LINESTRING} /\ node.type \notin Containers \cup {POLYGON}
  <2>1. SetSize(node, acc) =
          [sizes |-> sizes, end |-> acc.end, nodes |-> << node >> \o acc.nodes]
    BY <1>3, <1>10, Zenon DEF SetSize
  <2>2. SetSize(node, acc) =
          [sizes |-> sizes, end |-> acc.end,
           nodes |-> << [node EXCEPT !.size = node.size] >> \o acc.nodes]
    BY <1>1, <2>1, Zenon
  <2> QED
    BY <1>1, <1>2, <1>4, <1>7, <2>2
<1> QED
  BY <1>8, <1>9, <1>10

(* The fold, step by step from the last node to the first. *)
LEMMA SizedSteps ==
  ASSUME BuilderTypeOK
  PROVE  \E h : /\ h[Len(root)].nodes = << >>
                /\ \A i \in 0 .. Len(root) : h[i] \in SizeState
                /\ \A i \in 1 .. Len(root) : h[i - 1] = SetSize(root[i], h[i])
                /\ Sized = h[0].nodes
<1> DEFINE n == Len(root)
           base == [sizes |-> [l \in 0 .. MaxNesting + 1 |-> 0],
                    end |-> Len(ordinates), nodes |-> << >>]
           g == [p \in SizeState \X (1 .. n) |-> SetSize(root[p[2]], p[1])]
           next(f, s) == IF s = {} THEN base
                         ELSE SetSize(root[Min(s)], f[s \ {Min(s)}])
           iter == CHOOSE f : f = [s \in SUBSET (1 .. n) |-> next(f, s)]
<1>1. n \in Nat /\ DOMAIN root = 1 .. n /\ \A i \in 1 .. n : root[i] \in BuiltNode
  BY DEF BuilderTypeOK
<1>2. base \in SizeState /\ base.nodes = << >>
  <2>1. Len(ordinates) \in Int /\ << >> \in Seq(BuiltNode)
    BY DEF BuilderTypeOK
  <2>2. [l \in 0 .. MaxNesting + 1 |-> 0] \in [0 .. MaxNesting + 1 -> Int]
    OBVIOUS
  <2> QED
    BY <2>1, <2>2 DEF SizeState
<1>3. g \in [SizeState \X (1 .. n) -> SizeState]
  <2>1. ASSUME NEW p \in SizeState \X (1 .. n)
        PROVE  SetSize(root[p[2]], p[1]) \in SizeState
    <3>1. root[p[2]] \in BuiltNode /\ p[1] \in SizeState
      BY <1>1
    <3> QED
      BY <3>1, SetSizeType
  <2> QED
    BY <2>1
<1>4. Sized = iter[1 .. n].nodes
  <2>1. Sized = (LET f[s \in SUBSET DOMAIN root] == next(f, s)
                 IN f[DOMAIN root]).nodes
    BY DEF Sized, FoldRight, MapThenFoldSet
  <2> QED
    BY <1>1, <2>1
<1>5. \E f : f = [s \in SUBSET (1 .. n) |-> next(f, s)]
  <2>1. PICK f \in [SUBSET (1 .. n) -> SizeState] : RightIterates(f, n, base, g)
    <3> HIDE DEF base, g, n
    <3>1. n \in Nat /\ base \in SizeState /\ g \in [SizeState \X (1 .. n) -> SizeState]
      BY <1>1, <1>2, <1>3
    <3> QED
      BY <3>1, RightFoldExists, ZenonT(40)
  <2>2. ASSUME NEW s \in SUBSET (1 .. n)
        PROVE  f[s] = next(f, s)
    <3>1. CASE s # {}
      <4>1. Min(s) \in 1 .. n /\ s \ {Min(s)} \in SUBSET (1 .. n)
        BY <1>1, <3>1, MinOf
      <4>2. << f[s \ {Min(s)}], Min(s) >> \in SizeState \X (1 .. n)
        BY <4>1
      <4>3. g[f[s \ {Min(s)}], Min(s)] = SetSize(root[Min(s)], f[s \ {Min(s)}])
        BY <4>2
      <4> HIDE DEF g, base
      <4> QED
        BY <2>1, <3>1, <4>3 DEF RightIterates
    <3>2. CASE s = {}
      <4> HIDE DEF g, base
      <4> QED
        BY <2>1, <3>2 DEF RightIterates
    <3> QED
      BY <3>1, <3>2
  <2> HIDE DEF next
  <2>3. f = [s \in SUBSET (1 .. n) |-> next(f, s)]
    BY <2>1, <2>2
  <2> QED
    BY <2>3
<1>6. \A s \in SUBSET (1 .. n) : iter[s] = next(iter, s)
  <2> HIDE DEF next
  <2>1. iter = [s \in SUBSET (1 .. n) |-> next(iter, s)]
    BY <1>5
  <2> HIDE DEF iter
  <2> QED
    BY <2>1
<1> HIDE DEF iter
<1> DEFINE h == [i \in 0 .. n |-> iter[i + 1 .. n]]
<1>7. h[n] = base /\ h[0] = iter[1 .. n]
  <2>1. n + 1 .. n = {} /\ {} \in SUBSET (1 .. n) /\ 0 \in 0 .. n /\ n \in 0 .. n
        /\ 0 + 1 = 1
    BY <1>1
  <2>2. iter[{}] = base
    BY <1>6, <2>1
  <2> QED
    BY <2>1, <2>2
<1>8. ASSUME NEW i \in 1 .. n
      PROVE  h[i - 1] = SetSize(root[i], h[i])
  <2>1. /\ Min(i .. n) = i /\ (i .. n) \ {i} = i + 1 .. n /\ i .. n # {}
        /\ i .. n \in SUBSET (1 .. n)
    BY <1>1, SuffixSteps
  <2>2. iter[i .. n] = SetSize(root[i], iter[i + 1 .. n])
    <3> HIDE DEF base
    <3> QED
      BY <1>6, <2>1
  <2>3. i \in 0 .. n /\ i - 1 \in 0 .. n /\ (i - 1) + 1 = i
    BY <1>1
  <2> QED
    BY <2>2, <2>3
<1> HIDE DEF h
<1>9. ASSUME NEW i \in 0 .. n
      PROVE  h[i] \in SizeState
  <2> DEFINE T == {k \in 0 .. n : h[n - k] \in SizeState}
  <2>1. 0 \in T
    BY <1>1, <1>2, <1>7
  <2>2. ASSUME NEW k \in 0 .. n - 1, k \in T
        PROVE  k + 1 \in T
    <3>1. n - k \in 1 .. n /\ n - (k + 1) = (n - k) - 1 /\ k + 1 \in 0 .. n
      BY <1>1
    <3>2. h[n - k] \in SizeState /\ root[n - k] \in BuiltNode
      BY <1>1, <2>2, <3>1
    <3>3. h[n - (k + 1)] = SetSize(root[n - k], h[n - k])
      BY <1>8, <3>1
    <3>4. h[n - (k + 1)] \in SizeState
      BY <3>2, <3>3, SetSizeType
    <3> QED
      BY <3>1, <3>4
  <2> HIDE DEF T
  <2>3. \A k \in 0 .. n : k \in T
    BY <1>1, <2>1, <2>2, IntervalInduction
  <2>4. n - i \in 0 .. n /\ n - (n - i) = i
    BY <1>1
  <2>5. n - i \in T
    BY <2>3, <2>4
  <2> QED
    BY <2>4, <2>5 DEF T
<1>10. /\ h[Len(root)].nodes = << >>
       /\ \A i \in 0 .. Len(root) : h[i] \in SizeState
       /\ \A i \in 1 .. Len(root) : h[i - 1] = SetSize(root[i], h[i])
       /\ Sized = h[0].nodes
  BY <1>2, <1>4, <1>7, <1>8, <1>9
<1> QED
  BY <1>10

(* The sized nodes are the nodes with other sizes. *)
LEMMA SizedKeeps ==
  ASSUME BuilderTypeOK
  PROVE  /\ Sized \in Seq(BuiltNode) /\ Len(Sized) = Len(root)
         /\ \A i \in 1 .. Len(root) :
              \E size \in Int : Sized[i] = [root[i] EXCEPT !.size = size]
<1>1. PICK h : /\ h[Len(root)].nodes = << >>
               /\ \A i \in 0 .. Len(root) : h[i] \in SizeState
               /\ \A i \in 1 .. Len(root) : h[i - 1] = SetSize(root[i], h[i])
               /\ Sized = h[0].nodes
  BY SizedSteps
<1> DEFINE n == Len(root)
           Done(i) == /\ h[i].nodes \in Seq(BuiltNode) /\ Len(h[i].nodes) = n - i
                      /\ \A j \in 1 .. n - i :
                           \E size \in Int :
                             h[i].nodes[j] = [root[i + j] EXCEPT !.size = size]
           T == {k \in 0 .. n : Done(n - k)}
<1>2. n \in Nat /\ \A i \in 1 .. n : root[i] \in BuiltNode
  BY DEF BuilderTypeOK
<1>3. 0 \in T
  <2>1. /\ n - 0 = n /\ n - n = 0 /\ 0 \in 0 .. n /\ h[n].nodes = << >>
    BY <1>1, <1>2
  <2>2. << >> \in Seq(BuiltNode) /\ Len(<< >>) = 0 /\ \A j \in 1 .. 0 : FALSE
    OBVIOUS
  <2>3. Done(n)
    BY <2>1, <2>2
  <2> QED
    BY <2>1, <2>3
<1>4. ASSUME NEW k \in 0 .. n - 1, k \in T
      PROVE  k + 1 \in T
  <2>1. PICK i : i = n - k
    OBVIOUS
  <2>2. /\ i \in 1 .. n /\ i \in 0 .. n /\ n - (k + 1) = i - 1 /\ k + 1 \in 0 .. n
        /\ i - 1 \in 0 .. n /\ n - i \in Nat
    BY <1>2, <2>1
  <2>3. Done(i)
    BY <1>4, <2>1
  <2>4. /\ h[i] \in SizeState /\ root[i] \in BuiltNode
        /\ h[i - 1] = SetSize(root[i], h[i]) /\ h[i - 1] \in SizeState
    BY <1>1, <1>2, <2>2
  <2>5. PICK size \in Int :
          h[i - 1].nodes = << [root[i] EXCEPT !.size = size] >> \o h[i].nodes
    BY <2>4, SetSizeType
  <2>6. PICK head, old, new : /\ head = [root[i] EXCEPT !.size = size]
                              /\ old = h[i].nodes /\ new = h[i - 1].nodes
    OBVIOUS
  <2>7. head \in BuiltNode
    BY <2>4, <2>6 DEF BuiltNode
  <2>8. << head >> \in Seq(BuiltNode) /\ Len(<< head >>) = 1 /\ << head >>[1] = head
    BY <2>7
  <2>9. old \in Seq(BuiltNode) /\ Len(old) = n - i
    BY <2>3, <2>6
  <2>10. /\ new \in Seq(BuiltNode) /\ Len(new) = 1 + (n - i)
         /\ \A j \in 1 .. 1 + (n - i) :
              new[j] = IF j <= 1 THEN << head >>[j] ELSE old[j - 1]
    BY <2>5, <2>6, <2>8, <2>9, ConcatProperties
  <2>11. ASSUME NEW j \in 1 .. n - (i - 1)
         PROVE  \E z \in Int : new[j] = [root[(i - 1) + j] EXCEPT !.size = z]
    <3>1. j \in 1 .. 1 + (n - i)
      BY <1>2, <2>2
    <3>2. CASE j = 1
      <4>1. new[j] = head /\ (i - 1) + j = i
        BY <2>2, <2>8, <2>10, <3>1, <3>2
      <4> QED
        BY <2>6, <4>1
    <3>3. CASE j # 1
      <4>1. j - 1 \in 1 .. n - i /\ i + (j - 1) = (i - 1) + j /\ ~(j <= 1)
        BY <2>2, <3>1, <3>3
      <4>2. new[j] = old[j - 1]
        BY <2>10, <3>1, <4>1
      <4>3. PICK z \in Int : old[j - 1] = [root[i + (j - 1)] EXCEPT !.size = z]
        BY <2>3, <2>6, <4>1
      <4> QED
        BY <4>1, <4>2, <4>3
    <3> QED
      BY <3>2, <3>3
  <2>12. Len(new) = n - (i - 1)
    BY <1>2, <2>2, <2>10
  <2>13. Done(i - 1)
    BY <2>6, <2>10, <2>11, <2>12
  <2> HIDE DEF Done
  <2> QED
    BY <2>2, <2>13
<1> HIDE DEF T
<1>5. \A k \in 0 .. n : k \in T
  BY <1>2, <1>3, <1>4, IntervalInduction
<1>6. Done(0)
  <2>1. n \in T /\ n - n = 0
    BY <1>2, <1>5
  <2> HIDE DEF Done
  <2> QED
    BY <2>1 DEF T
<1>7. n - 0 = n /\ \A j \in 1 .. n : 0 + j = j
  BY <1>2
<1> QED
  BY <1>1, <1>6, <1>7

-----------------------------------------------------------------------------
(* PointersCurrent, with the pointers of the nodes apart. *)
LEMMA PointersAre ==
  ASSUME root \in Seq(BuiltNode), Len(ordinates) <= capacity
  PROVE  PointersCurrent <=> Current(root, allocation, Len(ordinates))
<1>1. DOMAIN root = 1 .. Len(root)
  OBVIOUS
<1> QED
  BY <1>1 DEF PointersCurrent, Current

(* ... and the invariant from its parts. *)
LEMMA PointersKept ==
  ASSUME BuilderTypeOK', (Len(ordinates) <= capacity)',
         Current(root', allocation', Len(ordinates')), InGeometry' => root' # << >>
  PROVE  PointersInv'
<1>1. DOMAIN root' = 1 .. Len(root')
  BY DEF BuilderTypeOK
<1>2. PointersCurrent'
  BY <1>1 DEF PointersCurrent, Current
<1> QED
  BY <1>2 DEF PointersInv

(* A node that was started, whether its parent may hold it or not. *)
LEMMA StartKeeps ==
  ASSUME PointersInv, NEW type \in Int, NEW dims \in Int, StartNode(type, dims),
         UNCHANGED ordinates, currentLevel' \in 0 .. MaxNesting
  PROVE  PointersInv'
<1>1. /\ BuilderTypeOK /\ Len(ordinates) <= capacity
      /\ Current(root, allocation, Len(ordinates))
  BY PointersAre DEF PointersInv, BuilderTypeOK
<1>2. /\ root' \in Seq(BuiltNode) /\ root' # << >>
      /\ capacity' \in Nat /\ allocation' \in Nat
      /\ Len(ordinates) <= capacity'
      /\ Current(root', allocation', Len(ordinates))
  BY <1>1, StartNodeKeeps
<1>3. BuilderTypeOK'
  BY <1>1, <1>2 DEF BuilderTypeOK
<1> QED
  BY <1>2, <1>3, PointersKept

(* Every call keeps the pointers of all nodes current. *)
LEMMA BuildKeeps ==
  ASSUME ProtocolAssumption, PointersInv, BuilderNext
  PROVE  PointersInv'
<1>1. /\ BuilderTypeOK /\ Len(ordinates) <= capacity
      /\ Current(root, allocation, Len(ordinates))
      /\ InGeometry => root # << >>
  BY PointersAre DEF PointersInv, BuilderTypeOK
<1>2. /\ root \in Seq(BuiltNode) /\ Len(root) \in Nat
      /\ ordinates \in Seq(Range(ordinates)) /\ Len(ordinates) \in Nat
      /\ capacity \in Nat /\ allocation \in Nat /\ currentLevel \in 0 .. MaxNesting
  BY <1>1 DEF BuilderTypeOK
<1>3. CASE BuildFeatStart
  <2>1. /\ open' = << Frame(FEATURE) >> /\ root' = << >> /\ ordinates' = << >>
        /\ currentLevel' = 0 /\ capacity' = capacity /\ allocation' = allocation
    BY <1>3 DEF BuildFeatStart, ReadFeatStart
  <2>2. ~InGeometry'
    BY <2>1 DEF InGeometry
  <2>3. BuilderTypeOK'
    <3>1. << >> \in Seq(BuiltNode) /\ << >> \in Seq(Range(<< >>)) /\ 0 \in 0 .. MaxNesting
      BY NestingAssumption
    <3> QED
      BY <1>2, <2>1, <3>1 DEF BuilderTypeOK
  <2>4. Current(root', allocation', Len(ordinates')) /\ Len(ordinates') <= capacity'
    BY <1>2, <2>1 DEF Current
  <2> QED
    BY <2>2, <2>3, <2>4, PointersKept
<1>4. CASE BuildNullFeat
  <2>1. /\ open' = << Frame(NULLFEATURE) >> /\ root' = Append(root, NewNode)
        /\ ordinates' = ordinates /\ currentLevel' = currentLevel
        /\ capacity' = capacity /\ allocation' = allocation
    BY <1>4 DEF BuildNullFeat, ReadNullFeat, bufferVars
  <2>2. ~InGeometry'
    BY <2>1 DEF InGeometry
  <2>3. NewNode \in BuiltNode /\ NewNode.start = EmptyPointCoords
    BY NestingAssumption DEF NewNode, BuiltNode, Pointer, EmptyPointCoords, RING
  <2>4. /\ root' \in Seq(BuiltNode) /\ Len(root') = Len(root) + 1
        /\ \A i \in 1 .. Len(root) : root'[i] = root[i]
        /\ root'[Len(root) + 1] = NewNode
    BY <1>2, <2>1, <2>3, AppendProperties
  <2>5. ASSUME NEW i \in 1 .. Len(root'), root'[i].start # EmptyPointCoords
        PROVE  /\ root'[i].start.allocation = allocation
               /\ root'[i].start.offset <= Len(ordinates)
    <3>1. i \in 1 .. Len(root)
      BY <1>2, <2>3, <2>4, <2>5
    <3> QED
      BY <1>1, <2>4, <2>5, <3>1 DEF Current
  <2>6. Current(root', allocation', Len(ordinates'))
    BY <2>1, <2>5 DEF Current
  <2>7. BuilderTypeOK' /\ Len(ordinates') <= capacity'
    BY <1>1, <1>2, <2>1, <2>4 DEF BuilderTypeOK
  <2> QED
    BY <2>2, <2>6, <2>7, PointersKept
<1>5. ASSUME NEW type \in GeomTypes, NEW dims \in Dims, BuildGeomStart(type, dims)
      PROVE  PointersInv'
  <2>1. type \in Int /\ dims \in Int
    BY DEF ProtocolAssumption
  <2>2. StartNode(type, dims) /\ ordinates' = ordinates
        /\ currentLevel' = currentLevel + 1 /\ currentLevel # MaxNesting
    BY <1>5 DEF BuildGeomStart, NestsTooDeep
  <2>3. currentLevel' \in 0 .. MaxNesting
    BY <1>2, <2>2, NestingAssumption
  <2> QED
    BY <2>1, <2>2, <2>3, StartKeeps
<1>6. CASE BuildRingStart
  <2>1. PICK dims : dims = root[Len(root)].dims
    OBVIOUS
  <2>2. StartNode(LINESTRING, dims) /\ ordinates' = ordinates /\ InGeometry
        /\ currentLevel' = currentLevel + 1 /\ currentLevel # MaxNesting
    BY <1>6, <2>1 DEF BuildRingStart, NestsTooDeep, ReadRingStart
  <2>3. root[Len(root)] \in BuiltNode
    <3>1. root # << >>
      BY <1>1, <2>2
    <3>2. Len(root) \in 1 .. Len(root)
      BY <1>2, <3>1, EmptySeq
    <3> QED
      BY <1>2, <3>2
  <2>4. dims \in Int /\ LINESTRING \in Int
    BY <2>1, <2>3 DEF BuiltNode, LINESTRING
  <2>5. currentLevel' \in 0 .. MaxNesting
    BY <1>2, <2>2, NestingAssumption
  <2> QED
    BY <2>2, <2>4, <2>5, StartKeeps
<1>7. CASE TooDeep
  <2>1. PICK type \in GeomTypes, dims \in Dims : StartNode(type, dims)
    BY <1>7 DEF TooDeep
  <2>2. type \in Int /\ dims \in Int /\ ordinates' = ordinates
        /\ currentLevel' = currentLevel
    BY <1>7 DEF ProtocolAssumption, TooDeep
  <2> QED
    BY <1>2, <2>1, <2>2, StartKeeps
<1>8. ASSUME NEW n \in 0 .. MaxChunk, BuildCoords(n)
      PROVE  PointersInv'
  <2>1. PICK w, m : w = NumDimensions(nodes[Len(nodes)].dims) /\ m = n * w
    OBVIOUS
  <2>2. n \in Nat /\ w \in Nat /\ m \in Nat
    <3>1. n \in Nat /\ w \in Nat
      BY <2>1, WidthType DEF ProtocolAssumption
    <3>2. w = 2 \/ w = 3 \/ w = 4
      BY <2>1 DEF NumDimensions
    <3> QED
      BY <2>1, <3>1, <3>2
  <2>3. PICK f : f = [k \in 1 .. m |-> CoordsBefore + (k - 1) \div w]
    OBVIOUS
  <2>4. /\ InGeometry /\ Reserve(m) /\ root' = NodesAfter(root, m)
        /\ ordinates' = ordinates \o f /\ currentLevel' = currentLevel
    BY <1>8, <2>1, <2>3 DEF BuildCoords, ReadCoords
  <2>5. /\ capacity' \in Nat /\ allocation' \in Nat
        /\ Len(ordinates) + m <= capacity'
        /\ IF Moves(m) THEN allocation' = allocation + 1
                       ELSE allocation' = allocation
    BY <1>1, <2>2, <2>4, ReserveKeeps
  <2>6. f = [k \in 1 .. m |-> f[k]]
    BY <2>3
  <2>7. /\ ordinates' \in Seq(Range(ordinates'))
        /\ Len(ordinates') = Len(ordinates) + m
    BY <1>2, <2>2, <2>4, <2>6, MoreElements
  <2>8. PICK a : a = allocation'
    OBVIOUS
  <2>9. /\ NodesAfter(root, m) \in Seq(BuiltNode)
        /\ Len(NodesAfter(root, m)) = Len(root)
        /\ Current(NodesAfter(root, m), a, Len(ordinates))
    <3>1. a \in Nat /\ (IF Moves(m) THEN a = allocation + 1 ELSE a = allocation)
      BY <2>5, <2>8
    <3> QED
      BY <1>1, <1>2, <2>2, <3>1, NodesMoved
  <2>10. Current(root', allocation', Len(ordinates'))
    <3>1. ASSUME NEW i \in 1 .. Len(root'), root'[i].start # EmptyPointCoords
          PROVE  /\ root'[i].start.allocation = a
                 /\ root'[i].start.offset <= Len(ordinates')
      <4>1. root'[i].start.allocation = a /\ root'[i].start.offset <= Len(ordinates)
        BY <2>4, <2>9, <3>1 DEF Current
      <4>2. root'[i] \in BuiltNode
        BY <2>4, <2>9
      <4>3. root'[i].start.offset \in Int
        BY <4>2 DEF BuiltNode, Pointer
      <4> QED
        BY <1>2, <2>2, <2>7, <4>1, <4>3
    <3> QED
      BY <2>8, <3>1 DEF Current
  <2>11. root' # << >>
    <3>1. root # << >> /\ Len(root) # 0
      BY <1>1, <1>2, <2>4, EmptySeq
    <3> QED
      BY <1>2, <2>4, <2>9, <3>1
  <2>12. BuilderTypeOK' /\ Len(ordinates') <= capacity'
    BY <1>2, <2>4, <2>5, <2>7, <2>9 DEF BuilderTypeOK
  <2> QED
    BY <2>10, <2>11, <2>12, PointersKept
<1>9. CASE BuildPartEnd
  <2>1. /\ InGeometry /\ root' = root /\ ordinates' = ordinates
        /\ capacity' = capacity /\ allocation' = allocation
        /\ currentLevel' = currentLevel - 1 /\ currentLevel > 0
    BY <1>9 DEF BuildPartEnd, ReadRingEnd, ReadGeomEnd, bufferVars
  <2>2. BuilderTypeOK'
    <3>1. currentLevel' \in 0 .. MaxNesting
      BY <1>2, <2>1, NestingAssumption
    <3> QED
      BY <1>2, <2>1, <3>1 DEF BuilderTypeOK
  <2> QED
    BY <1>1, <2>1, <2>2, PointersKept
<1>10. CASE BuildFeatEnd
  <2>1. /\ open' = << >> /\ ordinates' = ordinates /\ capacity' = capacity
        /\ allocation' = allocation /\ currentLevel' = currentLevel
        /\ root' = root \/ root' = Sized
    BY <1>10 DEF BuildFeatEnd, ReadFeatEnd, bufferVars
  <2>2. ~InGeometry'
    BY <2>1 DEF InGeometry
  <2>3. root' \in Seq(BuiltNode) /\ Current(root', allocation, Len(ordinates))
    <3>1. CASE root' = root
      BY <1>1, <1>2, <3>1
    <3>2. CASE root' = Sized
      <4>1. /\ Sized \in Seq(BuiltNode) /\ Len(Sized) = Len(root)
            /\ \A i \in 1 .. Len(root) :
                 \E size \in Int : Sized[i] = [root[i] EXCEPT !.size = size]
        BY <1>1, SizedKeeps
      <4>2. ASSUME NEW i \in 1 .. Len(root)
            PROVE  Sized[i].start = root[i].start
        <5>1. PICK size \in Int : Sized[i] = [root[i] EXCEPT !.size = size]
          BY <4>1
        <5>2. root[i] \in BuiltNode
          BY <1>2
        <5> QED
          BY <5>1, <5>2 DEF BuiltNode
      <4>3. Current(Sized, allocation, Len(ordinates))
        BY <1>1, <4>1, <4>2 DEF Current
      <4> QED
        BY <3>2, <4>1, <4>3
    <3> QED
      BY <2>1, <3>1, <3>2
  <2>4. BuilderTypeOK' /\ Len(ordinates') <= capacity'
        /\ Current(root', allocation', Len(ordinates'))
    BY <1>1, <1>2, <2>1, <2>3 DEF BuilderTypeOK
  <2> QED
    BY <2>2, <2>4, PointersKept
<1>11. CASE BuildReaderFails
  <2>1. open' = << >> /\ UNCHANGED builderVars
    BY <1>11 DEF BuildReaderFails, Abandon
  <2>2. /\ root' = root /\ ordinates' = ordinates /\ capacity' = capacity
        /\ allocation' = allocation /\ currentLevel' = currentLevel /\ ~InGeometry'
    BY <2>1 DEF builderVars, bufferVars, InGeometry
  <2>3. BuilderTypeOK'
    BY <1>2, <2>2 DEF BuilderTypeOK
  <2> QED
    BY <1>1, <2>2, <2>3, PointersKept
<1> QED
  BY <1>3, <1>4, <1>5, <1>6, <1>7, <1>8, <1>9, <1>10, <1>11 DEF BuilderNext

-----------------------------------------------------------------------------
(* No node of a geometry ever points into memory that was released, at any *)
(* moment while a feature is recorded, abandoned, finished, copied or      *)
(* visited, and every sequence starts inside the buffer: reserving moves   *)
(* the pointers of all nodes, those of closed parts included               *)
(* (geometry.c:174-186).                                                   *)
THEOREM PointersCorrect == Spec => []PointersCurrent
<1>1. Init => PointersInv
  <2> SUFFICES ASSUME Init
               PROVE  PointersInv
    OBVIOUS
  <2>1. /\ root = << >> /\ ordinates = << >> /\ capacity = 0 /\ allocation = 0
        /\ currentLevel = 0 /\ open = << >>
    BY DEF Init, BuilderInit, ProtocolInit
  <2>2. << >> \in Seq(BuiltNode) /\ << >> \in Seq(Range(<< >>)) /\ 0 \in 0 .. MaxNesting
    BY NestingAssumption
  <2>3. BuilderTypeOK
    BY <2>1, <2>2 DEF BuilderTypeOK
  <2> QED
    BY <2>1, <2>3 DEF PointersInv, PointersCurrent, InGeometry
<1>2. PointersInv /\ [Next]_allVars => PointersInv'
  <2> SUFFICES ASSUME PointersInv, [Next]_allVars
               PROVE  PointersInv'
    OBVIOUS
  <2>1. CASE Build
    BY <2>1, BuildKeeps, ProtocolAssumption DEF Build
  <2>2. CASE UNCHANGED << protocolVars, builderVars >>
    BY <2>2 DEF PointersInv, PointersCurrent, BuilderTypeOK, InGeometry,
                protocolVars, builderVars, bufferVars
  <2>3. Build \/ UNCHANGED << protocolVars, builderVars >>
    BY DEF Next, allVars, VisitBuilt, ReadRow, CopyBuilt, CopyRead, VisitCopy,
           Proceed, VisitReturns, Forget
  <2> QED
    BY <2>1, <2>2, <2>3
<1>3. PointersInv => PointersCurrent
  BY DEF PointersInv
<1> QED
  BY <1>1, <1>2, <1>3, PTL DEF Spec
=============================================================================
