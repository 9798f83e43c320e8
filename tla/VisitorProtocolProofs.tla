----------------------- MODULE VisitorProtocolProofs -----------------------
(***************************************************************************)
(* What the proofs of every writer rely on, whatever the visitor does with *)
(* the calls: the reader's stack and history are well typed and properly   *)
(* nested, and the frames of the stack count the parts of the nodes        *)
(* visited so far, stated for one step so that each writer's proof can     *)
(* cite it.                                                                *)
(***************************************************************************)
EXTENDS VisitorProtocol, SequenceTheorems, FiniteSetTheorems, TLAPS

(* Chunks of coordinates extend a node and leave its header alone. *)
LEMMA LabelType ==
  ASSUME ProtocolTypeOK
  PROVE  Label \in Nat
BY DEF ProtocolTypeOK, Label

LEMMA CountedType ==
  ASSUME ProtocolTypeOK, open # << >>, NEW n \in Nat
  PROVE  /\ Counted(n) \in Seq(FrameSet)
         /\ Len(Counted(n)) = Len(open)
         /\ \A i \in 1 .. Len(open) :
              /\ Counted(n)[i].type = open[i].type
              /\ Counted(n)[i].n = IF i = Len(open) THEN open[i].n + n
                                                    ELSE open[i].n
<1>1. open \in Seq(FrameSet) /\ Len(open) \in 1 .. Len(open)
  BY EmptySeq DEF ProtocolTypeOK
<1>2. open[Len(open)] \in FrameSet
  BY <1>1
<1>3. [open[Len(open)] EXCEPT !.n = @ + n] \in FrameSet
  BY <1>2 DEF FrameSet
<1> QED
  BY <1>1, <1>2, <1>3, ExceptSeq DEF Counted, FrameSet

(* How each kind of call changes the stack, frame by frame. *)
LEMMA StackPushed ==
  ASSUME ProtocolTypeOK, open # << >>,
         NEW type \in RING .. GEOMETRYCOLLECTION, NEW dims,
         ReadPartStart(type, dims)
  PROVE  /\ open' \in Seq(FrameSet) /\ Len(open') = Len(open) + 1
         /\ open'[Len(open) + 1] = Frame(type)
         /\ \A i \in 1 .. Len(open) :
              /\ open'[i].type = open[i].type
              /\ open'[i].n = IF i = Len(open) THEN open[i].n + 1
                                               ELSE open[i].n
<1>1. Frame(type) \in FrameSet
  BY DEF Frame, FrameSet, RING, GEOMETRYCOLLECTION, NULLFEATURE
<1>2. /\ Counted(1) \in Seq(FrameSet) /\ Len(Counted(1)) = Len(open)
      /\ \A i \in 1 .. Len(open) :
           /\ Counted(1)[i].type = open[i].type
           /\ Counted(1)[i].n = IF i = Len(open) THEN open[i].n + 1
                                                 ELSE open[i].n
  BY CountedType
<1>3. open' = Append(Counted(1), Frame(type)) /\ Len(open) \in Nat
  BY DEF ReadPartStart, ProtocolTypeOK
<1> QED
  BY <1>1, <1>2, <1>3

LEMMA StackPopped ==
  ASSUME ProtocolTypeOK, InGeometry, ReadPartEnd
  PROVE  /\ open' \in Seq(FrameSet) /\ Len(open') = Len(open) - 1
         /\ \A i \in 1 .. Len(open) - 1 : open'[i] = open[i]
BY DEF InGeometry, ReadPartEnd, Pop, ProtocolTypeOK

(* Until it ends or is abandoned, a feature stays open. *)
LEMMA VisitGoesOn ==
  ASSUME ProtocolAssumption, ProtocolTypeOK,
         \/ ReadNullFeat \/ ReadRingStart \/ ReadRingEnd \/ ReadGeomEnd
         \/ \E type \in GeomTypes, dims \in Dims : ReadGeomStart(type, dims)
         \/ \E n \in 0 .. MaxChunk : ReadCoords(n)
  PROVE  open # << >> /\ open' # << >> /\ UNCHANGED << rows, failed >>
<1>1. CASE ReadNullFeat
  BY <1>1, Len(<< Frame(FEATURE) >>) = 1, Len(<< Frame(NULLFEATURE) >>) = 1,
     EmptySeq DEF ReadNullFeat
<1>2. ASSUME NEW type \in RING .. GEOMETRYCOLLECTION, NEW dims,
             ReadPartStart(type, dims), open # << >>
      PROVE  open' # << >> /\ UNCHANGED << rows, failed >>
  <2>1. Len(open') = Len(open) + 1 /\ Len(open) \in Nat
    BY <1>2, StackPushed DEF ProtocolTypeOK
  <2> QED
    BY <1>2, <2>1, EmptySeq DEF ReadPartStart
<1>3. ASSUME NEW type \in GeomTypes, NEW dims \in Dims,
             ReadGeomStart(type, dims)
      PROVE  open # << >> /\ open' # << >> /\ UNCHANGED << rows, failed >>
  <2>1. type \in RING .. GEOMETRYCOLLECTION
    BY DEF ProtocolAssumption, RING, GEOMETRYCOLLECTION
  <2> QED
    BY <1>2, <1>3, <2>1 DEF ReadGeomStart, Idle
<1>4. CASE ReadRingStart
  <2>1. open # << >> /\ RING \in RING .. GEOMETRYCOLLECTION
    BY <1>4, EmptySeq
    DEF ReadRingStart, InGeometry, RING, GEOMETRYCOLLECTION
  <2> QED
    BY <1>2, <1>4, <2>1 DEF ReadRingStart
<1>5. CASE ReadRingEnd \/ ReadGeomEnd
  <2>1. InGeometry /\ ReadPartEnd
    BY <1>5 DEF ReadRingEnd, ReadGeomEnd
  <2>2. Len(open') = Len(open) - 1 /\ Len(open) > 1
    BY <2>1, StackPopped DEF InGeometry
  <2> QED
    BY <2>1, <2>2, EmptySeq DEF ReadPartEnd
<1>6. ASSUME NEW n \in 0 .. MaxChunk, ReadCoords(n)
      PROVE  open # << >> /\ open' # << >> /\ UNCHANGED << rows, failed >>
  <2>1. open # << >> /\ n \in Nat
    BY <1>6, EmptySeq DEF ReadCoords, InGeometry, ProtocolAssumption
  <2>2. Len(open') = Len(open) /\ Len(open) # 0
    BY <1>6, <2>1, CountedType, EmptySeq DEF ReadCoords, ProtocolTypeOK
  <2> QED
    BY <1>6, <2>1, <2>2, EmptySeq DEF ReadCoords
<1> QED
  BY <1>1, <1>3, <1>4, <1>5, <1>6

(* A step of the reader keeps its stack and history well typed and nested. *)
THEOREM ProtocolPreserved ==
  ASSUME ProtocolAssumption, ProtocolTypeOK, Nesting,
         [ProtocolNext]_protocolVars
  PROVE  ProtocolTypeOK' /\ Nesting'
<1> USE DEF RING, GEOMETRYCOLLECTION, FEATURE, NULLFEATURE
<1>1. CASE ReadFeatStart
  BY <1>1 DEF ReadFeatStart, ProtocolTypeOK, Nesting, Idle, Frame, FrameSet,
              InGeometry
<1>2. CASE ReadNullFeat
  BY <1>2 DEF ReadNullFeat, ProtocolTypeOK, Nesting, Frame, FrameSet, InGeometry
<1>3. ASSUME NEW type \in RING .. GEOMETRYCOLLECTION, NEW dims \in 1 .. 4,
             ReadPartStart(type, dims), ~Idle, Top.type # NULLFEATURE
      PROVE  ProtocolTypeOK' /\ Nesting'
  <2>3. open # << >> /\ Len(open) \in Nat \ {0} /\ Depth \in Nat
    BY <1>3, EmptySeq DEF Idle, ProtocolTypeOK, Depth
  <2>4. Node(type, dims, Depth) \in NodeSet
    BY <2>3 DEF Node, NodeSet
  <2>5. /\ open' \in Seq(FrameSet) /\ Len(open') = Len(open) + 1
        /\ \A i \in 1 .. Len(open) : open'[i].type = open[i].type
        /\ open'[Len(open) + 1].type = type
    <3>1. /\ open' \in Seq(FrameSet) /\ Len(open') = Len(open) + 1
          /\ open'[Len(open) + 1] = Frame(type)
          /\ \A i \in 1 .. Len(open) :
               /\ open'[i].type = open[i].type
               /\ open'[i].n = IF i = Len(open) THEN open[i].n + 1
                                                ELSE open[i].n
      BY <1>3, <2>3, StackPushed, Zenon
    <3> QED
      BY <3>1 DEF Frame
  <2>6. nodes' \in Seq(NodeSet) /\ nodes' # << >>
    <3>1. nodes \in Seq(NodeSet) /\ nodes' = Append(nodes, Node(type, dims, Depth))
      BY <1>3 DEF ReadPartStart, ProtocolTypeOK
    <3> HIDE DEF NodeSet
    <3>2. nodes' \in Seq(NodeSet) /\ Len(nodes') = Len(nodes) + 1
          /\ Len(nodes) \in Nat
      BY <2>4, <3>1
    <3> QED
      BY <3>2, EmptySeq
  <2>7. ProtocolTypeOK'
    BY <1>3, <2>5, <2>6 DEF ReadPartStart, ProtocolTypeOK
  <2>8. open[1].type = FEATURE
    BY <1>3, <2>3 DEF Nesting, InGeometry, Top
  <2>9. /\ open'[1].type = FEATURE
        /\ \A i \in 2 .. Len(open') :
             open'[i].type \in RING .. GEOMETRYCOLLECTION
    <3>1. ASSUME NEW i \in 2 .. Len(open')
          PROVE  open'[i].type \in RING .. GEOMETRYCOLLECTION
      <4>1. CASE i = Len(open) + 1
        BY <1>3, <2>5, <4>1
      <4>2. CASE i # Len(open) + 1
        BY <2>3, <2>5, <4>2 DEF Nesting
      <4> QED
        BY <4>1, <4>2
    <3> QED
      BY <2>3, <2>5, <2>8, <3>1
  <2>10. Nesting'
    BY <2>6, <2>9 DEF Nesting, InGeometry
  <2> QED
    BY <2>7, <2>10
<1>4. ASSUME NEW type \in GeomTypes, NEW dims \in Dims,
             ReadGeomStart(type, dims)
      PROVE  ProtocolTypeOK' /\ Nesting'
  BY <1>3, <1>4 DEF ReadGeomStart, ProtocolAssumption, MayContain, Containers,
     MULTIPOINT, MULTILINESTRING, MULTIPOLYGON
<1>5. CASE ReadRingStart
  <2>1. nodes \in Seq(NodeSet) /\ nodes # << >>
    BY <1>5 DEF ReadRingStart, Nesting, ProtocolTypeOK
  <2>2. nodes[Len(nodes)] \in NodeSet
    BY <2>1, EmptySeq
  <2>3. nodes[Len(nodes)].dims \in 1 .. 4
    BY <2>2 DEF NodeSet
  <2>4. ~Idle /\ Top.type # NULLFEATURE
    BY <1>5 DEF ReadRingStart, InGeometry, Idle, POLYGON
  <2> QED
    BY <1>3, <1>5, <2>3, <2>4 DEF ReadRingStart
<1>6. ASSUME NEW n \in 0 .. MaxChunk, ReadCoords(n)
      PROVE  ProtocolTypeOK' /\ Nesting'
  <2>1. n \in Nat /\ open # << >> /\ nodes # << >>
    BY <1>6 DEF ProtocolAssumption, ReadCoords, InGeometry, Nesting
  <2>2. /\ open' \in Seq(FrameSet) /\ Len(open') = Len(open)
        /\ \A i \in 1 .. Len(open) : open'[i].type = open[i].type
    BY <1>6, <2>1, CountedType DEF ReadCoords
  <2>3. [i \in 1 .. n |-> Label] \in Seq(Nat)
    BY <2>1, LabelType
  <2>4. Len(nodes) \in 1 .. Len(nodes) /\ nodes[Len(nodes)] \in NodeSet
    BY <2>1, EmptySeq DEF ProtocolTypeOK
  <2>5. nodes[Len(nodes)].xs \o [i \in 1 .. n |-> Label] \in Seq(Nat)
    BY <2>3, <2>4 DEF NodeSet
  <2>6. [nodes[Len(nodes)] EXCEPT
           !.xs = @ \o [i \in 1 .. n |-> Label]] \in NodeSet
    BY <2>4, <2>5 DEF NodeSet
  <2>7. nodes' \in Seq(NodeSet) /\ Len(nodes') = Len(nodes)
    BY <1>6, <2>4, <2>6, ExceptSeq DEF ReadCoords, ProtocolTypeOK
  <2>8. nodes' # << >>
    BY <1>6, <2>1, <2>4 DEF ReadCoords, ProtocolTypeOK
  <2>9. UNCHANGED << rows, failed >> /\ Len(open) > 1
    BY <1>6 DEF ReadCoords, InGeometry
  <2>10. ProtocolTypeOK'
    BY <2>2, <2>7, <2>9 DEF ProtocolTypeOK
  <2>11. Len(open) \in Nat
    BY DEF ProtocolTypeOK
  <2>12. Nesting'
    BY <2>2, <2>8, <2>9, <2>11 DEF Nesting, InGeometry
  <2> QED
    BY <2>10, <2>12
<1>7. ASSUME InGeometry, ReadPartEnd
      PROVE  ProtocolTypeOK' /\ Nesting'
  <2>1. /\ open' \in Seq(FrameSet) /\ Len(open') = Len(open) - 1
        /\ \A i \in 1 .. Len(open) - 1 : open'[i] = open[i]
    BY <1>7, StackPopped
  <2> QED
    BY <1>7, <2>1 DEF ProtocolTypeOK, Nesting, InGeometry, ReadPartEnd
<1>8. CASE ReadRingEnd \/ ReadGeomEnd
  BY <1>7, <1>8 DEF ReadRingEnd, ReadGeomEnd
<1>9. CASE ReadFeatEnd
  <2>1. [null |-> Top.type = NULLFEATURE, nodes |-> nodes] \in FeatureSet
    BY DEF FeatureSet, ProtocolTypeOK
  <2> QED
    BY <1>9, <2>1 DEF ReadFeatEnd, ProtocolTypeOK, Nesting, InGeometry
<1>10. CASE Abandon
  BY <1>10 DEF Abandon, ProtocolTypeOK, Nesting, InGeometry
<1>11. CASE BatchDone
  BY <1>11 DEF BatchDone, ProtocolTypeOK, Nesting, InGeometry
<1>12. CASE UNCHANGED protocolVars
  BY <1>12 DEF protocolVars, ProtocolTypeOK, Nesting, InGeometry
<1> QED
  BY <1>1, <1>2, <1>4, <1>5, <1>6, <1>8, <1>9, <1>10, <1>11, <1>12
  DEF ProtocolNext

-----------------------------------------------------------------------------
(* Which nodes the open geometries and rings are. *)

(* A node has finitely many parts, all behind it. *)
LEMMA PartsCount ==
  ASSUME NEW ns \in Seq(NodeSet), NEW i \in 1 .. Len(ns)
  PROVE  /\ Parts(ns, i) \subseteq i + 1 .. Len(ns)
         /\ IsFiniteSet(Parts(ns, i)) /\ Cardinality(Parts(ns, i)) \in Nat
<1>1. Parts(ns, i) \in SUBSET (i + 1 .. Len(ns)) /\ i + 1 \in Int /\ Len(ns) \in Int
  BY DEF Parts
<1>2. IsFiniteSet(i + 1 .. Len(ns))
  BY <1>1, FS_Interval
<1>3. IsFiniteSet(Parts(ns, i))
  BY <1>1, <1>2, FS_Subset
<1> QED
  BY <1>1, <1>3, FS_CardinalityType

(* Parts or coordinates of a node that were visited so far. *)
PartsSeen(ns, i) ==
  IF HoldsCoords(ns[i].type) THEN Len(ns[i].xs) ELSE Cardinality(Parts(ns, i))

(* at tells which node each open geometry or ring is: the last one of its  *)
(* level, with as many parts as its frame has counted.                     *)
Tracks(at) ==
  /\ at \in [1 .. Depth -> 1 .. Len(nodes)]
  /\ \A l \in 1 .. Depth :
       /\ nodes[at[l]].level = l - 1
       /\ nodes[at[l]].type = open[l + 1].type
       /\ open[l + 1].n = PartsSeen(nodes, at[l])
       /\ \A i \in at[l] + 1 .. Len(nodes) : nodes[i].level >= l
       /\ HoldsCoords(open[l + 1].type) => at[l] = Len(nodes)

(* A feature without a part has no nodes, and a null one has no part. *)
NoParts ==
  open # << >> =>
    /\ open[1].n = 0 => nodes = << >>
    /\ open[1].type = NULLFEATURE => nodes = << >>

(* What the following proofs need of the types. *)
LEMMA TracksTypes ==
  ASSUME ProtocolTypeOK, Nesting, open # << >>, NEW at, Tracks(at)
  PROVE  /\ Depth \in Nat /\ Len(open) = Depth + 1 /\ Len(open) \in Nat
         /\ Len(nodes) \in Nat /\ nodes \in Seq(NodeSet)
         /\ \A i \in 1 .. Len(nodes) :
              /\ nodes[i].level \in Nat /\ nodes[i].xs \in Seq(Nat)
              /\ nodes[i].type \in RING .. GEOMETRYCOLLECTION
              /\ nodes[i].dims \in 1 .. 4
         /\ \A l \in 1 .. Depth : at[l] \in 1 .. Len(nodes) /\ l + 1 \in 2 .. Len(open)
<1>1. /\ Len(open) \in Nat \ {0} /\ nodes \in Seq(NodeSet) /\ Len(nodes) \in Nat
  BY EmptySeq DEF ProtocolTypeOK
<1>2. \A i \in 1 .. Len(nodes) : nodes[i] \in NodeSet
  BY <1>1
<1>3. ASSUME NEW i \in 1 .. Len(nodes)
      PROVE  /\ nodes[i].level \in Nat /\ nodes[i].xs \in Seq(Nat)
             /\ nodes[i].type \in RING .. GEOMETRYCOLLECTION
             /\ nodes[i].dims \in 1 .. 4
  BY <1>2 DEF NodeSet
<1>4. Depth \in Nat /\ Len(open) = Depth + 1
  BY <1>1 DEF Depth
<1>5. \A l \in 1 .. Depth : at[l] \in 1 .. Len(nodes) /\ l + 1 \in 2 .. Len(open)
  BY <1>4 DEF Tracks
<1> QED
  BY <1>1, <1>3, <1>4, <1>5

(* The open nodes lie behind one another, and only the innermost can have  *)
(* coordinates.                                                            *)
LEMMA OpenNodesAscend ==
  ASSUME ProtocolTypeOK, Nesting, open # << >>, NEW at, Tracks(at),
         NEW l \in 1 .. Depth, NEW m \in 1 .. Depth, l < m
  PROVE  at[l] < at[m] /\ ~HoldsCoords(open[l + 1].type)
<1>1. /\ Depth \in Nat /\ Len(nodes) \in Nat
      /\ at[l] \in 1 .. Len(nodes) /\ at[m] \in 1 .. Len(nodes)
      /\ nodes[at[l]].level = l - 1 /\ nodes[at[m]].level = m - 1
  BY TracksTypes DEF Tracks
<1>2. \A i \in at[m] + 1 .. Len(nodes) : nodes[i].level >= m
  BY DEF Tracks
<1>3. ~(at[l] > at[m])
  <2>1. SUFFICES ASSUME at[l] > at[m]
                 PROVE  FALSE
    OBVIOUS
  <2>2. nodes[at[l]].level >= m
    BY <1>1, <1>2, <2>1
  <2> QED
    BY <1>1, <2>2
<1>4. at[l] # at[m]
  BY <1>1
<1>5. at[l] < at[m]
  BY <1>1, <1>3, <1>4
<1>6. HoldsCoords(open[l + 1].type) => at[l] = Len(nodes)
  BY DEF Tracks
<1> QED
  BY <1>1, <1>5, <1>6

(* A node that is appended is a part of the innermost open one, and of no  *)
(* other.                                                                  *)
LEMMA PartsAppended ==
  ASSUME ProtocolTypeOK, Nesting, open # << >>, NEW at, Tracks(at),
         NEW node, node.level = Depth, NEW ns, ns = Append(nodes, node),
         NEW i \in 1 .. Len(nodes)
  PROVE  Parts(ns, i) = IF Depth > 0 /\ i = at[Depth]
                        THEN Parts(nodes, i) \cup {Len(nodes) + 1}
                        ELSE Parts(nodes, i)
<1> DEFINE n == Len(nodes)
<1>1. /\ Depth \in Nat /\ n \in Nat /\ nodes \in Seq(NodeSet)
      /\ \A k \in 1 .. n : nodes[k].level \in Nat
      /\ Depth > 0 => /\ at[Depth] \in 1 .. n
                      /\ nodes[at[Depth]].level = Depth - 1
                      /\ \A k \in at[Depth] + 1 .. n : nodes[k].level >= Depth
  <2>1. Depth > 0 => Depth \in 1 .. Depth
    BY TracksTypes
  <2> QED
    BY <2>1, TracksTypes DEF Tracks
<1>2. /\ Len(ns) = n + 1 /\ ns[n + 1] = node
      /\ \A k \in 1 .. n : ns[k] = nodes[k]
  BY <1>1
<1> DEFINE level(k) == nodes[k].level
           Part(j) == level(j) = level(i) + 1 /\ \A k \in i + 1 .. j : level(k) > level(i)
           NewPart == Depth = level(i) + 1 /\ \A k \in i + 1 .. n : level(k) > level(i)
<1>3. Parts(nodes, i) = {j \in i + 1 .. n : Part(j)}
  BY DEF Parts
<1>4. \A k \in 1 .. n + 1 : ns[k].level = IF k = n + 1 THEN Depth ELSE level(k)
  BY <1>1, <1>2
<1>5. Parts(ns, i) = {j \in i + 1 .. n : Part(j)} \cup (IF NewPart THEN {n + 1} ELSE {})
  <2>1. Parts(ns, i) = {j \in i + 1 .. n + 1 : ns[j].level = ns[i].level + 1
                                    /\ \A k \in i + 1 .. j : ns[k].level > ns[i].level}
    BY <1>2 DEF Parts
  <2> HIDE DEF level
  <2>2. ASSUME NEW j \in i + 1 .. n
        PROVE  j \in Parts(ns, i) <=> Part(j)
    <3>1. ns[j].level = level(j) /\ ns[i].level = level(i) /\ j \in i + 1 .. n + 1
      BY <1>1, <1>4
    <3>2. \A k \in i + 1 .. j : ns[k].level = level(k)
      BY <1>1, <1>4
    <3> QED
      BY <2>1, <3>1, <3>2
  <2>3. n + 1 \in Parts(ns, i) <=> NewPart
    <3>1. ns[i].level = level(i) /\ ns[n + 1].level = Depth /\ n + 1 \in i + 1 .. n + 1
      BY <1>1, <1>4
    <3>2. n + 1 \in Parts(ns, i) => NewPart
      <4>1. \A k \in i + 1 .. n : k \in i + 1 .. n + 1 /\ ns[k].level = level(k)
        BY <1>1, <1>4
      <4> QED
        BY <2>1, <3>1, <4>1
    <3>3. NewPart => n + 1 \in Parts(ns, i)
      <4>1. level(i) \in Nat
        BY <1>1 DEF level
      <4>2. \A k \in i + 1 .. n + 1 : k = n + 1 \/ k \in i + 1 .. n
        BY <1>1
      <4>3. \A k \in i + 1 .. n : ns[k].level = level(k)
        BY <1>1, <1>4
      <4>4. NewPart => \A k \in i + 1 .. n + 1 : ns[k].level > ns[i].level
        BY <1>1, <3>1, <4>1, <4>2, <4>3
      <4> QED
        BY <2>1, <3>1, <4>4
    <3> QED
      BY <3>2, <3>3
  <2>4. Parts(ns, i) \subseteq i + 1 .. n + 1
    BY <2>1
  <2> HIDE DEF Part, NewPart
  <2> QED
    BY <1>1, <2>2, <2>3, <2>4
<1>6. NewPart <=> Depth > 0 /\ i = at[Depth]
  <2>1. ASSUME NewPart
        PROVE  Depth > 0 /\ i = at[Depth]
    <3>1. Depth > 0 /\ level(i) = Depth - 1
      BY <1>1, <2>1
    <3>2. ~(i > at[Depth])
      BY <1>1, <3>1
    <3>3. ~(i < at[Depth])
      BY <1>1, <2>1, <3>1
    <3> QED
      BY <1>1, <3>1, <3>2, <3>3
  <2>2. ASSUME Depth > 0, i = at[Depth]
        PROVE  NewPart
    BY <1>1, <2>2
  <2> QED
    BY <2>1, <2>2
<1> HIDE DEF NewPart, Part
<1> QED
  BY <1>3, <1>5, <1>6

(* A geometry or ring starts: it is the last node, and a part of the one   *)
(* that was innermost.                                                     *)
LEMMA TracksStart ==
  ASSUME ProtocolTypeOK, Nesting, open # << >>, NEW at, Tracks(at),
         NEW type \in RING .. GEOMETRYCOLLECTION, NEW dims,
         ReadPartStart(type, dims), ~HoldsCoords(Top.type),
         NEW deeper, deeper = [l \in 1 .. Depth + 1 |->
                                 IF l = Depth + 1 THEN Len(nodes) + 1 ELSE at[l]]
  PROVE  /\ Tracks(deeper)' /\ Depth' = Depth + 1
         /\ \A l \in 1 .. Depth : ~HoldsCoords(open[l + 1].type)
         /\ \A i \in 1 .. Len(nodes) : ~(\E l \in 1 .. Depth : at[l] = i) =>
              Parts(nodes', i) = Parts(nodes, i)
<1> DEFINE n == Len(nodes)
           d == Depth
           node == Node(type, dims, d)
<1>1. /\ d \in Nat /\ n \in Nat /\ nodes \in Seq(NodeSet) /\ Len(open) = d + 1
      /\ \A i \in 1 .. n : nodes[i].level \in Nat
      /\ \A l \in 1 .. d : at[l] \in 1 .. n
  BY TracksTypes
<1>2. /\ Len(open') = Len(open) + 1 /\ Depth' = d + 1
      /\ open'[d + 2] = Frame(type)
      /\ \A l \in 1 .. d :
           /\ open'[l + 1].type = open[l + 1].type
           /\ open'[l + 1].n = IF l = d THEN open[l + 1].n + 1 ELSE open[l + 1].n
  <2>1. /\ Len(open') = Len(open) + 1
        /\ open'[Len(open) + 1] = Frame(type)
        /\ \A i \in 1 .. Len(open) :
             /\ open'[i].type = open[i].type
             /\ open'[i].n = IF i = Len(open) THEN open[i].n + 1 ELSE open[i].n
    BY StackPushed
  <2>2. \A l \in 1 .. d : l + 1 \in 1 .. Len(open) /\ (l + 1 = Len(open) <=> l = d)
    BY <1>1
  <2>3. Depth' = Len(open') - 1
    BY DEF Depth
  <2> HIDE DEF d
  <2>4. Depth' = d + 1 /\ Len(open) + 1 = d + 2
    BY <1>1, <2>1, <2>3
  <2>5. open'[d + 2] = Frame(type)
    BY <2>1, <2>4
  <2> QED
    BY <2>1, <2>2, <2>4, <2>5
<1>3. /\ nodes' = Append(nodes, node) /\ Len(nodes') = n + 1
      /\ nodes'[n + 1] = node /\ \A i \in 1 .. n : nodes'[i] = nodes[i]
  BY <1>1 DEF ReadPartStart
<1>4. node.level = d /\ node.type = type /\ node.xs = << >>
  BY DEF Node
<1>5. \A l \in 1 .. d : ~HoldsCoords(open[l + 1].type)
  <2>1. ASSUME NEW l \in 1 .. d
        PROVE  ~HoldsCoords(open[l + 1].type)
    <3>1. CASE l = d
      BY <1>1, <3>1 DEF Top
    <3>2. CASE l # d
      <4>1. d \in 1 .. d /\ l < d
        BY <1>1, <3>2
      <4> QED
        BY <4>1, OpenNodesAscend
    <3> QED
      BY <3>1, <3>2
  <2> QED
    BY <2>1
<1>6. \A i \in 1 .. n : Parts(nodes', i) = IF d > 0 /\ i = at[d]
                                           THEN Parts(nodes, i) \cup {n + 1}
                                           ELSE Parts(nodes, i)
  <2> HIDE DEF node
  <2>1. node.level = Depth /\ nodes' = Append(nodes, node)
    BY <1>3, <1>4
  <2> QED
    BY <2>1, PartsAppended
<1>7. ASSUME NEW l \in 1 .. d
      PROVE  /\ nodes'[deeper[l]].level = l - 1
             /\ nodes'[deeper[l]].type = open'[l + 1].type
             /\ open'[l + 1].n = PartsSeen(nodes', deeper[l])
             /\ \A i \in deeper[l] + 1 .. n + 1 : nodes'[i].level >= l
             /\ ~HoldsCoords(open'[l + 1].type)
  <2>1. /\ deeper[l] = at[l] /\ at[l] \in 1 .. n
        /\ nodes'[at[l]] = nodes[at[l]] /\ l \in Nat /\ l <= d
    BY <1>1, <1>3
  <2>2. /\ nodes[at[l]].level = l - 1
        /\ nodes[at[l]].type = open[l + 1].type
        /\ open[l + 1].n = PartsSeen(nodes, at[l])
        /\ \A i \in at[l] + 1 .. n : nodes[i].level >= l
    BY DEF Tracks
  <2>3. ~HoldsCoords(nodes[at[l]].type)
    BY <1>5, <2>2
  <2>4. PartsSeen(nodes', at[l]) = IF l = d THEN PartsSeen(nodes, at[l]) + 1
                                   ELSE PartsSeen(nodes, at[l])
    <3> DEFINE P == Parts(nodes, at[l])
    <3>1. P \subseteq at[l] + 1 .. n /\ IsFiniteSet(P)
      BY <1>1, <2>1, PartsCount
    <3>2. n + 1 \notin P
      BY <1>1, <3>1
    <3>3. PartsSeen(nodes, at[l]) = Cardinality(P)
          /\ PartsSeen(nodes', at[l]) = Cardinality(Parts(nodes', at[l]))
      BY <2>1, <2>3 DEF PartsSeen
    <3>4. CASE l = d
      <4>1. Parts(nodes', at[l]) = P \cup {n + 1}
        BY <1>1, <1>6, <2>1, <3>4
      <4>2. Cardinality(P \cup {n + 1}) = Cardinality(P) + 1
        BY <3>1, <3>2, FS_AddElement
      <4> QED
        BY <3>3, <3>4, <4>1, <4>2
    <3>5. CASE l # d
      <4>1. l < d /\ d \in 1 .. d
        BY <1>1, <3>5
      <4>2. at[l] < at[d]
        BY <4>1, OpenNodesAscend
      <4>3. at[l] # at[d]
        BY <1>1, <2>1, <4>1, <4>2
      <4>4. Parts(nodes', at[l]) = P
        BY <1>6, <2>1, <4>3
      <4> QED
        BY <3>3, <3>5, <4>4
    <3> QED
      BY <3>4, <3>5
  <2>5. ASSUME NEW i \in at[l] + 1 .. n + 1
        PROVE  nodes'[i].level >= l
    <3>1. CASE i = n + 1
      BY <1>1, <1>3, <1>4, <2>1, <3>1
    <3>2. CASE i # n + 1
      <4>1. i \in at[l] + 1 .. n /\ i \in 1 .. n
        BY <1>1, <2>1, <3>2
      <4> QED
        BY <1>3, <2>2, <4>1
    <3> QED
      BY <3>1, <3>2
  <2>6. open'[l + 1].n = PartsSeen(nodes', at[l])
    BY <1>2, <2>2, <2>4
  <2>7. ~HoldsCoords(open'[l + 1].type) /\ nodes'[at[l]].type = open'[l + 1].type
    BY <1>2, <1>5, <2>1, <2>2
  <2> QED
    BY <2>1, <2>2, <2>5, <2>6, <2>7
<1>8. /\ deeper[d + 1] = n + 1 /\ nodes'[n + 1].level = (d + 1) - 1
      /\ nodes'[n + 1].type = open'[(d + 1) + 1].type
      /\ open'[(d + 1) + 1].n = PartsSeen(nodes', n + 1)
      /\ (n + 1) + 1 .. n + 1 = {}
  <2>1. deeper[d + 1] = n + 1 /\ (d + 1) + 1 = d + 2 /\ (d + 1) - 1 = d
        /\ (n + 1) + 1 .. n + 1 = {}
    BY <1>1
  <2>2. Parts(nodes', n + 1) = {}
    BY <1>3, <2>1 DEF Parts
  <2>3. PartsSeen(nodes', n + 1) = 0
    <3>1. Len(<< >>) = 0 /\ Cardinality({}) = 0
      BY FS_EmptySet
    <3> QED
      BY <1>3, <1>4, <2>2, <3>1 DEF PartsSeen
  <2> QED
    BY <1>2, <1>3, <1>4, <2>1, <2>3 DEF Frame
<1>9. deeper \in [1 .. d + 1 -> 1 .. n + 1]
  <2>1. \A l \in 1 .. d + 1 : deeper[l] \in 1 .. n + 1
    BY <1>1
  <2> QED
    BY <2>1
<1>10. ASSUME NEW l \in 1 .. d + 1
       PROVE  /\ nodes'[deeper[l]].level = l - 1
              /\ nodes'[deeper[l]].type = open'[l + 1].type
              /\ open'[l + 1].n = PartsSeen(nodes', deeper[l])
              /\ \A i \in deeper[l] + 1 .. n + 1 : nodes'[i].level >= l
              /\ HoldsCoords(open'[l + 1].type) => deeper[l] = n + 1
  <2>1. CASE l = d + 1
    BY <1>8, <2>1
  <2>2. CASE l # d + 1
    <3>1. l \in 1 .. d
      BY <1>1, <2>2
    <3> QED
      BY <1>7, <3>1
  <2> QED
    BY <2>1, <2>2
<1>11. Tracks(deeper)'
  <2>1. \A ns, i : PartsSeen(ns, i)' = PartsSeen(ns, i)
    BY DEF PartsSeen, Parts
  <2> HIDE DEF d, n
  <2> QED
    BY <1>2, <1>3, <1>9, <1>10 DEF Tracks
<1>12. \A i \in 1 .. n : ~(\E l \in 1 .. d : at[l] = i) =>
         Parts(nodes', i) = Parts(nodes, i)
  <2>1. d > 0 => d \in 1 .. d
    BY <1>1
  <2> HIDE DEF n, d
  <2> QED
    BY <1>6, <2>1
<1> QED
  BY <1>2, <1>5, <1>11, <1>12

(* Coordinates go to the last node, which is the innermost open one.       *)
LEMMA TracksCoords ==
  ASSUME ProtocolTypeOK, Nesting, NEW at, Tracks(at), NEW n \in Nat, ReadCoords(n)
  PROVE  /\ Tracks(at)' /\ Depth' = Depth /\ Depth \in Nat \ {0}
         /\ at[Depth] = Len(nodes) /\ Len(nodes') = Len(nodes)
         /\ \A i \in 1 .. Len(nodes) - 1 : nodes'[i] = nodes[i]
         /\ LET last == nodes[Len(nodes)]
            IN nodes'[Len(nodes)] =
                 [last EXCEPT !.xs = @ \o [k \in 1 .. n |-> Label]]
         /\ \A l \in 1 .. Depth - 1 : at[l] \in 1 .. Len(nodes) - 1
         /\ \A i \in 1 .. Len(nodes) : Parts(nodes', i) = Parts(nodes, i)
<1> DEFINE d == Depth
           m == Len(nodes)
           last == nodes[m]
           more == [k \in 1 .. n |-> Label]
<1>1. open # << >>
  BY EmptySeq DEF ReadCoords, InGeometry
<1>2. /\ d \in Nat /\ m \in Nat /\ nodes \in Seq(NodeSet) /\ Len(open) = d + 1
      /\ \A i \in 1 .. m : nodes[i].level \in Nat /\ nodes[i].xs \in Seq(Nat)
      /\ \A l \in 1 .. d : at[l] \in 1 .. m /\ l + 1 \in 1 .. Len(open)
  BY <1>1, TracksTypes
<1>3. d \in Nat \ {0} /\ d \in 1 .. d /\ m \in 1 .. m
  BY <1>2 DEF ReadCoords, InGeometry
<1>4. HoldsCoords(open[d + 1].type) /\ at[d] = m
  <2>1. HoldsCoords(open[d + 1].type)
    BY <1>2 DEF ReadCoords, Top
  <2> QED
    BY <1>3, <2>1 DEF Tracks
<1>5. /\ Len(nodes') = m /\ nodes'[m] = [last EXCEPT !.xs = @ \o more]
      /\ \A i \in 1 .. m - 1 : nodes'[i] = nodes[i]
  <2>1. nodes' = [nodes EXCEPT ![m].xs = @ \o more]
    BY DEF ReadCoords
  <2> DEFINE new == [last EXCEPT !.xs = @ \o more]
  <2>2. nodes' = [nodes EXCEPT ![m] = new]
    BY <2>1
  <2> HIDE DEF new
  <2>3. /\ Len(nodes') = m /\ nodes'[m] = new
        /\ \A i \in 1 .. m - 1 : nodes'[i] = nodes[i]
    BY <1>2, <1>3, <2>2
  <2> QED
    BY <2>3 DEF new
<1>6. /\ Len(open') = Len(open)
      /\ \A l \in 1 .. d : /\ open'[l + 1].type = open[l + 1].type
                           /\ open'[l + 1].n = IF l = d THEN open[l + 1].n + n
                                               ELSE open[l + 1].n
  <2>1. open' = Counted(n)
    BY DEF ReadCoords
  <2>2. /\ Len(open') = Len(open)
        /\ \A i \in 1 .. Len(open) :
             /\ open'[i].type = open[i].type
             /\ open'[i].n = IF i = Len(open) THEN open[i].n + n ELSE open[i].n
    BY <1>1, <2>1, CountedType
  <2>3. \A l \in 1 .. d : l + 1 = Len(open) <=> l = d
    BY <1>2
  <2> HIDE DEF d
  <2> QED
    BY <1>2, <2>2, <2>3
<1>7. Depth' = d
  <2>1. Depth' = Len(open') - 1
    BY DEF Depth
  <2> HIDE DEF d
  <2> QED
    BY <1>2, <1>6, <2>1
<1>8. /\ last.xs \in Seq(Nat) /\ last \in NodeSet /\ Len(last.xs) \in Nat
      /\ nodes'[m].type = last.type /\ nodes'[m].level = last.level
      /\ nodes'[m].xs = last.xs \o more
      /\ Len(last.xs \o more) = Len(last.xs) + n
  <2>1. last \in NodeSet
    BY <1>2, <1>3
  <2>2. last.xs \in Seq(Nat) /\ Len(last.xs) \in Nat
    BY <2>1 DEF NodeSet
  <2>3. more \in Seq({Label}) /\ Len(more) = n
    <3> DEFINE x == Label
    <3> HIDE DEF x
    <3>1. [k \in 1 .. n |-> x] \in Seq({x}) /\ Len([k \in 1 .. n |-> x]) = n
      OBVIOUS
    <3> QED
      BY <3>1 DEF x
  <2>4. /\ nodes'[m].type = last.type /\ nodes'[m].level = last.level
        /\ nodes'[m].xs = last.xs \o more
    <3> HIDE DEF more
    <3> QED
      BY <1>5, <2>1 DEF NodeSet
  <2>5. Len(last.xs \o more) = Len(last.xs) + n
    <3> DEFINE xs == last.xs
    <3>1. xs \in Seq(Nat \cup {Label}) /\ more \in Seq(Nat \cup {Label})
      BY <2>2, <2>3
    <3> HIDE DEF xs, more
    <3>2. Len(xs \o more) = Len(xs) + Len(more)
      BY <3>1
    <3> QED
      BY <2>3, <3>2 DEF xs
  <2> QED
    BY <2>1, <2>2, <2>4, <2>5
<1>9. \A i \in 1 .. m : /\ nodes'[i].level = nodes[i].level
                        /\ nodes'[i].type = nodes[i].type
  <2>1. \A i \in 1 .. m : i = m \/ i \in 1 .. m - 1
    BY <1>2
  <2> QED
    BY <1>5, <1>8, <2>1
<1>10. ASSUME NEW i \in 1 .. m
       PROVE  Parts(nodes', i) = Parts(nodes, i)
  <2>1. \A k \in i + 1 .. m : nodes'[k].level = nodes[k].level
    BY <1>2, <1>9
  <2>2. \A j \in i + 1 .. m : \A k \in i + 1 .. j : k \in i + 1 .. m
    BY <1>2
  <2> QED
    BY <1>5, <1>9, <2>1, <2>2 DEF Parts
<1>11. ASSUME NEW l \in 1 .. d - 1
       PROVE  at[l] \in 1 .. m - 1 /\ nodes'[at[l]] = nodes[at[l]] /\ l \in 1 .. d
              /\ l # d
  <2>1. l \in 1 .. d /\ l < d
    BY <1>2
  <2>2. at[l] < at[d]
    BY <1>1, <1>3, <2>1, OpenNodesAscend
  <2>3. at[l] \in 1 .. m - 1
    BY <1>2, <1>4, <2>1, <2>2
  <2> QED
    BY <1>5, <2>1, <2>3
<1>12. ASSUME NEW l \in 1 .. d
       PROVE  /\ nodes'[at[l]].level = l - 1
              /\ nodes'[at[l]].type = open'[l + 1].type
              /\ open'[l + 1].n = PartsSeen(nodes', at[l])
              /\ \A i \in at[l] + 1 .. m : nodes'[i].level >= l
              /\ HoldsCoords(open'[l + 1].type) => at[l] = m
  <2>1. /\ nodes[at[l]].level = l - 1
        /\ nodes[at[l]].type = open[l + 1].type
        /\ open[l + 1].n = PartsSeen(nodes, at[l])
        /\ \A i \in at[l] + 1 .. m : nodes[i].level >= l
        /\ HoldsCoords(open[l + 1].type) => at[l] = m
        /\ at[l] \in 1 .. m
    BY <1>2 DEF Tracks
  <2>2. \A i \in at[l] + 1 .. m : nodes'[i].level >= l
    <3>1. \A i \in at[l] + 1 .. m : i \in 1 .. m
      BY <1>2, <2>1
    <3> QED
      BY <1>9, <2>1, <3>1
  <2>3. open'[l + 1].n = PartsSeen(nodes', at[l])
    <3>1. CASE l = d
      <4>1. /\ HoldsCoords(last.type) /\ PartsSeen(nodes, m) = Len(last.xs)
            /\ PartsSeen(nodes', m) = Len(last.xs \o more)
        <5> HIDE DEF more
        <5> QED
          BY <1>4, <1>8, <2>1, <3>1 DEF PartsSeen
      <4> QED
        BY <1>4, <1>6, <1>8, <2>1, <3>1, <4>1
    <3>2. CASE l # d
      <4>1. l \in 1 .. d - 1
        BY <1>2, <3>2
      <4>2. PartsSeen(nodes', at[l]) = PartsSeen(nodes, at[l])
        BY <1>10, <1>11, <2>1, <4>1 DEF PartsSeen
      <4> QED
        BY <1>6, <2>1, <3>2, <4>2
    <3> QED
      BY <3>1, <3>2
  <2> QED
    BY <1>6, <1>9, <2>1, <2>2, <2>3
<1>13. Tracks(at)'
  <2>1. at \in [1 .. d -> 1 .. m]
    BY DEF Tracks
  <2>2. \A ns, i : PartsSeen(ns, i)' = PartsSeen(ns, i)
    BY DEF PartsSeen, Parts
  <2> HIDE DEF d, m, more
  <2> QED
    BY <1>5, <1>7, <1>12, <2>1 DEF Tracks
<1> HIDE DEF more, d, m
<1> QED
  BY <1>3, <1>4, <1>5, <1>7, <1>10, <1>11, <1>13 DEF more, d, m

(* The innermost geometry or ring ends.                                    *)
LEMMA TracksEnd ==
  ASSUME ProtocolTypeOK, Nesting, InGeometry, NEW at, Tracks(at), ReadPartEnd,
         NEW outer, outer = [l \in 1 .. Depth - 1 |-> at[l]]
  PROVE  /\ Tracks(outer)' /\ Depth' = Depth - 1 /\ Depth \in Nat \ {0}
<1> DEFINE d == Depth
           m == Len(nodes)
<1>1. open # << >>
  BY EmptySeq DEF InGeometry
<1>2. /\ d \in Nat /\ m \in Nat /\ Len(open) = d + 1
      /\ \A l \in 1 .. d : at[l] \in 1 .. m /\ l + 1 \in 2 .. Len(open)
  BY <1>1, TracksTypes
<1>3. d \in Nat \ {0}
  BY <1>2 DEF InGeometry
<1>4. /\ Len(open') = Len(open) - 1
      /\ \A i \in 1 .. Len(open) - 1 : open'[i] = open[i]
      /\ nodes' = nodes
  BY StackPopped DEF ReadPartEnd
<1>5. Depth' = d - 1
  <2>1. Depth' = Len(open') - 1
    BY DEF Depth
  <2> HIDE DEF d
  <2> QED
    BY <1>2, <1>4, <2>1
<1>6. \A l \in 1 .. d - 1 : l \in 1 .. d /\ open'[l + 1] = open[l + 1]
                            /\ outer[l] = at[l] /\ outer[l] \in 1 .. m
  <2> HIDE DEF d, m
  <2>1. \A l \in 1 .. d - 1 : l \in 1 .. d /\ l + 1 \in 1 .. Len(open) - 1
    BY <1>2
  <2> QED
    BY <1>2, <1>4, <2>1 DEF d
<1>7. outer \in [1 .. d - 1 -> 1 .. m]
  <2> HIDE DEF m
  <2> QED
    BY <1>6
<1>8. Tracks(outer)'
  <2>1. \A l \in 1 .. d :
         /\ nodes[at[l]].level = l - 1
         /\ nodes[at[l]].type = open[l + 1].type
         /\ open[l + 1].n = PartsSeen(nodes, at[l])
         /\ \A i \in at[l] + 1 .. m : nodes[i].level >= l
         /\ HoldsCoords(open[l + 1].type) => at[l] = m
    BY DEF Tracks
  <2>2. \A l \in 1 .. d - 1 :
         /\ nodes'[outer[l]].level = l - 1
         /\ nodes'[outer[l]].type = open'[l + 1].type
         /\ open'[l + 1].n = PartsSeen(nodes', outer[l])
         /\ \A i \in outer[l] + 1 .. Len(nodes') : nodes'[i].level >= l
         /\ HoldsCoords(open'[l + 1].type) => outer[l] = Len(nodes')
    <3> HIDE DEF d
    <3> QED
      BY <1>4, <1>6, <2>1
  <2>3. \A ns, i : PartsSeen(ns, i)' = PartsSeen(ns, i)
    BY DEF PartsSeen, Parts
  <2>4. outer \in [1 .. Depth' -> 1 .. Len(nodes')]
    BY <1>4, <1>5, <1>7
  <2> HIDE DEF d
  <2> QED
    BY <1>5, <2>2, <2>4 DEF Tracks
<1> QED
  BY <1>3, <1>5, <1>8

(* Whatever the reader calls next, NoParts stays true.                     *)
LEMMA NoPartsPreserved ==
  ASSUME ProtocolAssumption, ProtocolTypeOK, Nesting, NoParts,
         [ProtocolNext]_protocolVars
  PROVE  NoParts'
<1>1. open \in Seq(FrameSet) /\ Len(open) \in Nat /\ nodes \in Seq(NodeSet)
      /\ (open # << >> => Len(open) # 0)
  BY EmptySeq DEF ProtocolTypeOK
<1>2. open # << >> => open[1].n \in Nat /\ open[1].type \in {FEATURE, NULLFEATURE}
  <2>1. open # << >> => open[1] \in FrameSet
    BY <1>1
  <2> QED
    BY <2>1 DEF Nesting, FrameSet
<1>3. InGeometry => open # << >> /\ nodes # << >> /\ open[1].type = FEATURE
                    /\ open[1].n # 0
  <2>1. InGeometry => open # << >>
    BY EmptySeq DEF InGeometry
  <2> QED
    BY <2>1 DEF Nesting, NoParts
<1>4. ASSUME NEW type \in RING .. GEOMETRYCOLLECTION, NEW dims,
             ReadPartStart(type, dims), ~Idle, Top.type # NULLFEATURE
      PROVE  NoParts'
  <2>1. /\ open # << >>
        /\ \A i \in 1 .. Len(open) :
             /\ open'[i].type = open[i].type
             /\ open'[i].n = IF i = Len(open) THEN open[i].n + 1 ELSE open[i].n
    BY <1>4, StackPushed DEF Idle
  <2>2. /\ open'[1].n = IF 1 = Len(open) THEN open[1].n + 1 ELSE open[1].n
        /\ open'[1].type = open[1].type
    <3>1. 1 \in 1 .. Len(open)
      BY <1>1, <2>1
    <3> QED
      BY <2>1, <3>1
  <2>3. CASE Len(open) = 1
    BY <1>2, <1>4, <2>1, <2>2, <2>3 DEF NoParts, Top, FEATURE, NULLFEATURE
  <2>4. CASE Len(open) # 1
    <3>1. InGeometry
      <4>1. Len(open) \in Nat /\ Len(open) # 0
        BY <1>1, <2>1
      <4> QED
        BY <2>4, <4>1 DEF InGeometry
    <3>2. open'[1].n = open[1].n /\ open[1].n # 0 /\ open[1].type = FEATURE
      BY <1>3, <2>2, <2>4, <3>1
    <3> QED
      BY <2>2, <3>2 DEF NoParts, FEATURE, NULLFEATURE
  <2> QED
    BY <2>3, <2>4
<1>5. ASSUME NEW type \in GeomTypes, NEW dims \in Dims, ReadGeomStart(type, dims)
      PROVE  NoParts'
  BY <1>4, <1>5 DEF ReadGeomStart, ProtocolAssumption, MayContain, Containers,
     MULTIPOINT, MULTILINESTRING, MULTIPOLYGON, GEOMETRYCOLLECTION, NULLFEATURE,
     FEATURE, RING
<1>6. CASE ReadRingStart
  <2>1. RING \in RING .. GEOMETRYCOLLECTION /\ ~Idle /\ Top.type # NULLFEATURE
        /\ ReadPartStart(RING, nodes[Len(nodes)].dims)
    BY <1>3, <1>6 DEF ReadRingStart, Idle, RING, GEOMETRYCOLLECTION, POLYGON, NULLFEATURE
  <2> QED
    BY <1>4, <2>1
<1>7. ASSUME NEW n \in 0 .. MaxChunk, ReadCoords(n)
      PROVE  NoParts'
  <2>1. /\ InGeometry /\ open' = Counted(n) /\ n \in Nat
    BY <1>7 DEF ReadCoords, ProtocolAssumption
  <2>2. open'[1].type = open[1].type /\ open'[1].n = open[1].n
    <3>1. Len(open) \in Nat /\ Len(open) > 1
      BY <1>1, <2>1 DEF InGeometry
    <3>2. 1 \in 1 .. Len(open) /\ 1 # Len(open)
      BY <3>1
    <3> QED
      BY <1>3, <2>1, <3>2, CountedType
  <2> QED
    BY <1>3, <2>1, <2>2 DEF NoParts, FEATURE, NULLFEATURE
<1>8. CASE ReadRingEnd \/ ReadGeomEnd
  <2>1. InGeometry /\ ReadPartEnd
    BY <1>8 DEF ReadRingEnd, ReadGeomEnd
  <2>2. open'[1] = open[1]
    <3>1. 1 \in 1 .. Len(open) - 1
      BY <1>1, <2>1 DEF InGeometry
    <3> QED
      BY <2>1, <3>1, StackPopped
  <2> QED
    BY <1>3, <2>1, <2>2 DEF NoParts, FEATURE, NULLFEATURE
<1>9. CASE ReadNullFeat
  BY <1>9 DEF ReadNullFeat, NoParts, Frame
<1>10. CASE ReadFeatStart
  BY <1>10 DEF ReadFeatStart, NoParts
<1>11. CASE ReadFeatEnd \/ Abandon \/ BatchDone \/ UNCHANGED protocolVars
  BY <1>11 DEF ReadFeatEnd, Abandon, BatchDone, protocolVars, NoParts, Idle
<1> QED
  BY <1>5, <1>6, <1>7, <1>8, <1>9, <1>10, <1>11 DEF ProtocolNext
=============================================================================
