---------------------------- MODULE GeometriesMC ----------------------------
(* Small features of all types, and rows of well-known binary. *)
EXTENDS Geometries

(* MULTIPOINT, MULTILINESTRING and MULTIPOLYGON are treated as a           *)
(* GEOMETRYCOLLECTION is, in all of the functions modelled.                *)
SomeTypes == {POINT, LINESTRING, POLYGON, GEOMETRYCOLLECTION}
TwoWidths == {1, 2}

(* Bounds: geometries, rings and coordinates of the first feature and of   *)
(* those after it, each of one width; a feature is abandoned first.        *)
MaxWeight  == 5
NextWeight == 2
Weight(ns) == FoldSeq(LAMBDA node, n : n + 1 + Len(node.xs), 0, ns)
SmallFeatures ==
  /\ Weight(nodes) <= IF rows = << >> THEN MaxWeight ELSE NextWeight
  /\ \A i \in DOMAIN nodes : nodes[i].dims = nodes[1].dims
  /\ failed > 0 => rows = << >> /\ Weight(nodes) <= NextWeight

(* Bound: a row is read, and its geometry copied, while nothing is built.  *)
OneSource ==
  (bytes # << >> \/ \E r \in Rows : r.row \in {meant, copied}) => rows = << >> /\ Idle

Field(kind, order, v) == [kind |-> kind, order |-> order, v |-> v, dims |-> 1, bits |-> {}]

(* GEOMETRYCOLLECTION (LINESTRING (1, 2), POINT (3)) in a byte order. *)
CollectionRow(order) ==
  [bytes |->
     << Field("order", order, 0), Field("type", order, 7), Field("number", order, 2),
        Field("order", order, 0), Field("type", order, 2), Field("number", order, 2),
        Field("coord", order, 1), Field("coord", order, 2),
        Field("order", order, 0), Field("type", order, 1), Field("coord", order, 3) >>,
   row |-> [null |-> FALSE, nodes |->
     << Node(GEOMETRYCOLLECTION, 1, 0),
        [Node(LINESTRING, 1, 1) EXCEPT !.xs = << 1, 2 >>],
        [Node(POINT, 1, 1) EXCEPT !.xs = << 3 >>] >>]]

NativeRows  == {CollectionRow(NativeEndian)}
SwappedRows == {CollectionRow(1 - NativeEndian)}
=============================================================================
