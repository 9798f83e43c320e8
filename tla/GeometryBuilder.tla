-------------------------- MODULE GeometryBuilder --------------------------
(***************************************************************************)
(* geometry.c as a visitor: a feature is recorded as a list of nodes over  *)
(* one buffer of ordinates.  Nodes point into the buffer from geom_start   *)
(* on, although the buffer moves whenever it grows; sizes are only known   *)
(* at feat_end, from the distances between pointers and from the levels.   *)
(*                                                                         *)
(* A pointer is an allocation of the buffer and an offset in ordinates.    *)
(* The coordinates of a feature are numbered from 1, and every ordinate is *)
(* the number of its coordinate.  MaxNesting is 31 in the source.          *)
(***************************************************************************)
EXTENDS VisitorProtocol, SequencesExt

CONSTANT MaxNesting   (* GEOARROW_GEOMETRY_VISITOR_MAX_NESTING *)
ASSUME NestingAssumption == MaxNesting \in Nat

VARIABLES
  root,          (* the nodes                                              *)
  ordinates,     (* contents of the coordinate buffer                      *)
  capacity,      (* ordinates it has memory for                            *)
  allocation,    (* number of its current memory, 0 before there is any    *)
  currentLevel,
  built          (* history: feat_end succeeded since the last feat_start  *)

bufferVars  == << ordinates, capacity, allocation >>
builderVars == << root, bufferVars, currentLevel, built >>

EmptyPointCoords == [allocation |-> -1, offset |-> 0]   (* a constant array *)

(* GeoArrowGeometryAppendNodeInline: zeroes, and pointers to the constant. *)
NewNode == [type |-> RING, dims |-> 0, level |-> 0, size |-> 0,
            start |-> EmptyPointCoords]

BuilderInit ==
  /\ root = << >> /\ ordinates = << >> /\ capacity = 0 /\ allocation = 0
  /\ currentLevel = 0 /\ built = FALSE

-----------------------------------------------------------------------------
(* GeoArrowGeometryReserveCoords and ...ReallocCoords. *)
Larger(m, n) == IF m > n THEN m ELSE n
Moves(additional) == Len(ordinates) + additional > capacity

(* Mutant: only pointers to what is being written are moved. *)
Rebased_LastOnly(ns) ==
  [ns EXCEPT ![Len(ns)].start =
     IF @ = EmptyPointCoords THEN @ ELSE [@ EXCEPT !.allocation = allocation + 1]]
Rebased(ns) ==
  [i \in DOMAIN ns |->
     [ns[i] EXCEPT !.start =
        IF @ = EmptyPointCoords THEN @ ELSE [@ EXCEPT !.allocation = allocation + 1]]]

Reserve(additional) ==
  IF Moves(additional)
  THEN /\ capacity' = Larger(Len(ordinates) + additional, 2 * Len(ordinates))
       /\ allocation' = allocation + 1
  ELSE UNCHANGED << capacity, allocation >>
NodesAfter(ns, additional) == IF Moves(additional) THEN Rebased(ns) ELSE ns

-----------------------------------------------------------------------------
BuildFeatStart ==
  /\ ReadFeatStart
  /\ root' = << >> /\ ordinates' = << >> /\ currentLevel' = 0
  /\ built' = FALSE
  /\ UNCHANGED << capacity, allocation >>

BuildNullFeat ==
  /\ ReadNullFeat
  /\ root' = Append(root, NewNode)
  /\ UNCHANGED << bufferVars, currentLevel, built >>

(* geom_start and ring_start, a ring being a LINESTRING.  The pointers of  *)
(* a sequence are set before it has a coordinate.                          *)
StartNode(type, dims) ==
  LET node  == [NewNode EXCEPT !.type = type, !.dims = dims, !.level = currentLevel]
      w     == NumDimensions(dims)
      nodes1 == NodesAfter(Append(root, node), w)
  IN IF type \in {POINT, LINESTRING}
     THEN /\ Reserve(w)
          /\ root' = [nodes1 EXCEPT ![Len(root) + 1].start =
                        [allocation |-> allocation', offset |-> Len(ordinates)]]
     ELSE root' = Append(root, node) /\ UNCHANGED << capacity, allocation >>

NestsTooDeep == currentLevel = MaxNesting

BuildGeomStart(type, dims) ==
  /\ ReadGeomStart(type, dims)
  /\ ~NestsTooDeep
  /\ StartNode(type, dims)
  /\ currentLevel' = currentLevel + 1
  /\ UNCHANGED << ordinates, built >>

BuildRingStart ==
  /\ ReadRingStart
  /\ ~NestsTooDeep
  /\ StartNode(LINESTRING, root[Len(root)].dims)
  /\ currentLevel' = currentLevel + 1
  /\ UNCHANGED << ordinates, built >>

(* EINVAL, once the node is in the list. *)
TooDeep ==
  /\ InGeometry /\ NestsTooDeep
  /\ Abandon
  /\ \E type \in GeomTypes, dims \in Dims : StartNode(type, dims)
  /\ UNCHANGED << ordinates, currentLevel, built >>

(* The number of the first coordinate of the call. *)
CoordsBefore == FoldSeq(LAMBDA node, n : n + Len(node.xs), 1, nodes)

BuildCoords(n) ==
  LET w == NumDimensions(nodes[Len(nodes)].dims)
  IN /\ ReadCoords(n)
     /\ Reserve(n * w)
     /\ root' = NodesAfter(root, n * w)
     /\ ordinates' = ordinates \o
          [k \in 1 .. n * w |-> CoordsBefore + (k - 1) \div w]
     /\ UNCHANGED << currentLevel, built >>

BuildPartEnd ==
  /\ ReadRingEnd \/ ReadGeomEnd
  /\ currentLevel > 0
  /\ currentLevel' = currentLevel - 1
  /\ UNCHANGED << root, bufferVars, built >>

-----------------------------------------------------------------------------
(* feat_end: from the last node to the first, end is where the sequence    *)
(* that follows starts, and sizes[l] counts the nodes of level l that      *)
(* follow within the same parent.                                          *)
SizesTaken(sizes, level) == [sizes EXCEPT ![level + 1] = 0]

SetSize(node, acc) ==
  LET sizes == [acc.sizes EXCEPT ![node.level] = @ + 1]
      sized(n) == << [node EXCEPT !.size = n] >> \o acc.nodes
  IN CASE node.type \in {POINT, LINESTRING} ->
            [sizes |-> sizes, end |-> node.start.offset,
             nodes |-> sized((acc.end - node.start.offset)
                               \div NumDimensions(node.dims))]
       [] node.type \in Containers \cup {POLYGON} ->
            [sizes |-> SizesTaken(sizes, node.level), end |-> acc.end,
             nodes |-> sized(sizes[node.level + 1])]
       [] OTHER ->
            [sizes |-> sizes, end |-> acc.end, nodes |-> << node >> \o acc.nodes]

Sized ==
  FoldRight(SetSize, root,
    [sizes |-> [l \in 0 .. MaxNesting + 1 |-> 0],
     end |-> Len(ordinates), nodes |-> << >>]).nodes

(* Without a single coordinate, no size is computed. *)
BuildFeatEnd ==
  /\ ReadFeatEnd
  /\ root # << >>
  /\ root' = IF ordinates = << >> THEN root ELSE Sized
  /\ built' = TRUE
  /\ UNCHANGED << bufferVars, currentLevel >>

BuildReaderFails ==
  /\ ~Idle
  /\ Abandon
  /\ UNCHANGED builderVars

BuilderNext ==
  \/ BuildFeatStart \/ BuildNullFeat
  \/ \E type \in GeomTypes, dims \in Dims : BuildGeomStart(type, dims)
  \/ BuildRingStart \/ TooDeep
  \/ \E n \in 0 .. MaxChunk : BuildCoords(n)
  \/ BuildPartEnd \/ BuildFeatEnd \/ BuildReaderFails
=============================================================================
