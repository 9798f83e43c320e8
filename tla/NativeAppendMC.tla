--------------------------- MODULE NativeAppendMC ---------------------------
(* Batches that are visited, and batches of geometries of every type.      *)
EXTENDS NativeAppend

XY         == {1}
FlatTypes  == {POINT, LINESTRING}
AllDepths  == 0 .. 3

Holding(type, depthOf, xs) == [Node(type, 1, depthOf) EXCEPT !.xs = xs]
Line(xs)  == Holding(LINESTRING, 0, xs)
Ring(xs)  == Holding(RING, 1, xs)
Ring2(xs) == Holding(RING, 2, xs)

SomeGeometries ==
  { << Node(POINT, 1, 0) >>,
    << Holding(POINT, 0, << 1 >>) >>,
    << Line(<< 1, 2 >>) >>,
    << Node(POLYGON, 1, 0), Ring(<< 1 >>), Ring(<< >>), Ring(<< 2, 3 >>) >>,
    << Node(MULTIPOINT, 1, 0), Holding(POINT, 1, << 1 >>), Node(POINT, 1, 1) >>,
    << Node(MULTILINESTRING, 1, 0), Holding(LINESTRING, 1, << 1, 2 >>) >>,
    << Node(MULTILINESTRING, 1, 0), Node(LINESTRING, 1, 1),
       Holding(LINESTRING, 1, << 1 >>) >>,
    << Node(MULTIPOLYGON, 1, 0), Node(POLYGON, 1, 1), Ring2(<< 1 >>), Ring2(<< 2 >>),
       Node(POLYGON, 1, 1), Node(POLYGON, 1, 1), Ring2(<< 3 >>) >>,
    << Node(MULTIPOLYGON, 1, 0), Node(POLYGON, 1, 1), Ring2(<< 1 >>), Ring2(<< 2 >>) >> }

(* Bound: rows of an array that is appended to, and of the one after it;   *)
(* the visitor does the same for both types of a depth.                    *)
SmallBatches ==
  IF appends THEN Len(rows) <= IF batches = 0 THEN 3 ELSE 1
  ELSE arrayType \notin {MULTIPOINT, MULTILINESTRING}
=============================================================================
