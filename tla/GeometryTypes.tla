--------------------------- MODULE GeometryTypes ---------------------------
(***************************************************************************)
(* Geometry types, dimensions, and the records in which the modules of     *)
(* this project remember what a visitor was told.                          *)
(***************************************************************************)
EXTENDS Integers, Sequences, FiniteSets

(* enum GeoArrowGeometryType; a ring has no type of its own and borrows the *)
(* value 0 (GEOMETRY), as the writers do.  The two feature frames are ours. *)
RING               == 0
POINT              == 1
LINESTRING         == 2
POLYGON            == 3
MULTIPOINT         == 4
MULTILINESTRING    == 5
MULTIPOLYGON       == 6
GEOMETRYCOLLECTION == 7
FEATURE            == -1
NULLFEATURE        == -2

Containers == {MULTIPOINT, MULTILINESTRING, MULTIPOLYGON, GEOMETRYCOLLECTION}

HoldsCoords(type) == type \in {POINT, LINESTRING, RING}

(* enum GeoArrowDimensions is XY = 1, XYZ = 2, XYM = 3, XYZM = 4. *)
NumDimensions(dims) == CASE dims = 1 -> 2 [] dims \in {2, 3} -> 3 [] OTHER -> 4

Frame(type) == [type |-> type, n |-> 0]
Node(type, dims, level) ==
  [type |-> type, dims |-> dims, level |-> level, xs |-> << >>]

-----------------------------------------------------------------------------
(* The parts of ns[i] are the nodes one level deeper that follow it before *)
(* any node of its own or an outer level.                                  *)
Parts(ns, i) ==
  {j \in i + 1 .. Len(ns) :
     /\ ns[j].level = ns[i].level + 1
     /\ \A k \in i + 1 .. j : ns[k].level > ns[i].level}

(* struct GeoArrowGeometryNode, its coordinates given by xs.  A ring is a  *)
(* LINESTRING node; the size is the number of coordinates or parts.        *)
GeometryNode(type, dims, level, size, xs) ==
  [type |-> type, dims |-> dims, level |-> level, size |-> size, xs |-> xs,
   swap |-> FALSE]

(* The list of nodes that stands for what a visitor was told. *)
GeometryOf(ns) ==
  [i \in DOMAIN ns |->
     GeometryNode(IF ns[i].type = RING THEN LINESTRING ELSE ns[i].type,
                  ns[i].dims, ns[i].level,
                  IF HoldsCoords(ns[i].type) THEN Len(ns[i].xs)
                  ELSE Cardinality(Parts(ns, i)), ns[i].xs)]
=============================================================================
