--------------------------- MODULE NativeWriterMC ---------------------------
(* Model-checking instances of the native writer: the geometry types each  *)
(* run visits and the arrays it writes, as values for the constants.       *)
EXTENDS NativeReference

XY          == {1}

AllTypes    == 1 .. 7
MixedTypes  == {POINT, LINESTRING, GEOMETRYCOLLECTION}

AllDepths   == 0 .. 3
LineDepth   == {1}

(* Bounds: geometries and rings of a batch of one row, and of any other;   *)
(* of those only kinds that make one list each.                            *)
ShortTypes  == {RING, POINT, LINESTRING, POLYGON, MULTIPOINT}
Visited     == FoldLeft(LAMBDA ns, row : ns \o row.nodes, nodes, rows)
FirstRow    == failed = 0 /\ batches = 0 /\ (rows = << >> \/ (Idle /\ Len(rows) = 1))
SmallBatches ==
  ~FirstRow =>
    /\ Len(Visited) <= 2 /\ Len(rows) + failed <= 2 /\ Len(coords) <= 3
    /\ \A i \in DOMAIN Visited : Visited[i].type \in ShortTypes
    /\ batches > 0 => Len(array.coords) <= 1
=============================================================================
