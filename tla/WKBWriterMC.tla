---------------------------- MODULE WKBWriterMC ----------------------------
(* Model-checking instances of the well-known binary writer: the geometry  *)
(* types and dimensions each run visits, the features it appends, and the  *)
(* bounds, as values for the constants.                                    *)
EXTENDS WKBAppend

XY           == {1}
TwoWidths    == {2, 4}   (* XYZ and XYZM: three and four ordinates *)

AllTypes     == 1 .. 7
Nestable     == {POINT, LINESTRING, POLYGON, GEOMETRYCOLLECTION}
OnlyLines    == {LINESTRING}
LineTypes    == {LINESTRING, GEOMETRYCOLLECTION}

(* Bounds: geometries and rings of a batch of one row, of one of several,  *)
(* of one in which a feature was abandoned, and of the batch after the     *)
(* first, which has to be a small one.  Of the kinds of multi geometry,    *)
(* whose code is that of a collection, only small ones; one width of       *)
(* coordinates in a batch.                                                 *)
Visited == FoldLeft(LAMBDA ns, row : ns \o row.nodes, nodes, rows)
Common  == Nestable \cup {RING}
MaxTotal ==
  CASE batches > 0                       -> 1
    [] failed > 0                        -> 1
    [] Len(rows) > 1 \/ (rows # << >> /\ ~Idle) -> 2
    [] OTHER                             -> 5
SmallBatches ==
  /\ Len(Visited) <= MaxTotal
  /\ batches > 0 => Len(array.values) <= 3 /\ Len(rows) <= 2 /\ failed = 0
  /\ Len(Visited) > 2 => \A i \in DOMAIN Visited : Visited[i].type \in Common
  /\ \A i \in DOMAIN Visited : Visited[i].dims = Visited[1].dims
  /\ failed > 0 =>
       /\ Len(values) <= 4 /\ Len(rows) <= 1
       /\ \A l \in Level : geomType[l] \in LineTypes \cup {RING} /\ dimensions[l] <= 2

-----------------------------------------------------------------------------
With(type, depth, xs) == [Node(type, 1, depth) EXCEPT !.xs = xs]

(* Features of every kind to append, between features that are visited:    *)
(* POINT EMPTY, POINT (1), and                                             *)
(* GEOMETRYCOLLECTION (POLYGON ((1)), LINESTRING EMPTY).                   *)
SomeGeometries ==
  { << Node(POINT, 4, 0) >>,
    << With(POINT, 0, << 1 >>) >>,
    << Node(GEOMETRYCOLLECTION, 1, 0), Node(POLYGON, 1, 1),
       With(RING, 2, << 1 >>), Node(LINESTRING, 1, 1) >> }

(* Bound: one array, values a little longer than the largest offset.       *)
OneArray == batches = 0 /\ Len(values) <= MaxOffset + 3
=============================================================================
