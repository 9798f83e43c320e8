---------------------------- MODULE GeometryView ----------------------------
(***************************************************************************)
(* struct GeoArrowGeometryView and its visit (geometry.c:382-527).  A      *)
(* geometry is a list of nodes in the order they are visited; a node knows *)
(* its level and how many parts, rings or coordinates it has, and where    *)
(* they are follows from that.  A ring is a LINESTRING node.               *)
(*                                                                         *)
(* The coordinates a node points to are words of memory, a byte order and  *)
(* a value.  Reading one in the wrong order gives Garbage.                 *)
(***************************************************************************)
EXTENDS Visiting, SequencesExt

CONSTANT CacheElements   (* COORD_CACHE_SIZE_ELEMENTS, 384 in the source *)
ASSUME ElementsAssumption == CacheElements \in Nat /\ CacheElements >= 4

VARIABLES
  view,        (* the nodes of the geometry                                *)
  unvisited    (* n_nodes, the number of nodes not yet visited             *)
viewVars == << view, unvisited >>

NativeEndian == 1
Garbage      == -1

EmptyNode == GeometryNode(RING, 0, 0, 0, << >>)

(* GeoArrowGeometryNodeWriteSequence, for coordinates from .. to of a node. *)
WriteSequence(node, from, to) ==
  [i \in 1 .. to - from + 1 |->
     LET x == node.xs[from + i - 1]
     IN IF node.swap = (x.order # NativeEndian) THEN x.v ELSE Garbage]

(* Full chunks while more than one chunk is left, and then the rest, which *)
(* is passed on even when there is nothing in it.                          *)
VisitSequence(node) ==
  LET chunk == CacheElements \div NumDimensions(node.dims)
      full  == IF node.size = 0 THEN 0 ELSE (node.size - 1) \div chunk
  IN [k \in 1 .. full + 1 |->
        CallCoords(WriteSequence(node, (k - 1) * chunk + 1,
                     IF k > full THEN node.size ELSE k * chunk))]

VisitRing(i) ==
  << CallRingStart >> \o VisitSequence(view[i]) \o << CallRingEnd >>

(* That no node is left is only noted in the message (geometry.c:453-455); *)
(* the visit goes on behind the list, which no geometry here leads to.     *)
VisitNode ==
  /\ At("VisitNode")
  /\ LET i    == Now[2]
         node == view[i]
         left == unvisited - 1
         geometry(parts) ==
           << CallGeomStart(node.type, node.dims) >> \o parts \o
           << CallGeomEnd >>
     IN CASE node.type \in {POINT, LINESTRING} ->
               /\ unvisited' = left
               /\ Continue(geometry(VisitSequence(node)))
          [] node.type = POLYGON /\ left >= node.size ->
               /\ unvisited' = left - node.size
               /\ Continue(geometry(FlattenSeq(
                    [k \in 1 .. node.size |-> VisitRing(i + k)])))
          [] node.type \in Containers ->
               /\ unvisited' = left
               /\ Continue(geometry(<< << "VisitChildren", i + 1, node.size >> >>))
          [] OTHER ->    (* after geom_start *)
               /\ unvisited' = left
               /\ Continue(<< CallGeomStart(node.type, node.dims),
                              Step("VisitFails") >>)
  /\ UNCHANGED view

(* The loop over n children, the next one being node i.  A child is        *)
(* followed by as many nodes as its visit took off n_nodes.                *)
VisitChildren ==
  /\ At("VisitChildren")
  /\ LET i == Now[2]
         n == Now[3]
     IN Continue(IF n = 0 THEN << >>
                 ELSE << << "VisitNode", i >>,
                         << "VisitSibling", i, n - 1, unvisited >> >>)
  /\ UNCHANGED viewVars

(* Mutant: the next child is taken to be the next node. *)
NodesConsumed_One(before) == 1
NodesConsumed(before) == before - unvisited

VisitSibling ==
  /\ At("VisitSibling")
  /\ Continue(<< << "VisitChildren", Now[2] + NodesConsumed(Now[4]), Now[3] >> >>)
  /\ UNCHANGED viewVars

GeometryViewVisit ==
  /\ At("GeometryViewVisit")
  /\ unvisited' = Len(view)
  /\ Continue(<< CallFeatStart, << "VisitNode", 1 >>, Step("AssertVisited"),
                 CallFeatEnd >>)
  /\ UNCHANGED view

AssertVisited ==
  /\ At("AssertVisited")
  /\ IF unvisited = 0 THEN Continue(<< >>) /\ UNCHANGED viewVars
     ELSE Fail(viewVars)

VisitFails == At("VisitFails") /\ Fail(viewVars)

GeometryViewInit == view = << >> /\ unvisited = 0

GeometryViewNext ==
  \/ GeometryViewVisit \/ VisitNode \/ VisitChildren \/ VisitSibling
  \/ AssertVisited \/ VisitFails
=============================================================================
