-------------------------- MODULE NativeReference --------------------------
(***************************************************************************)
(* What a row of a native array ought to hold, stated from the visited     *)
(* feature alone, and the abstract promise of every array writer, RowSink, *)
(* with the mapping under which the native writer keeps it.                *)
(***************************************************************************)
EXTENDS NativeWriter, SequencesExt

(* A list cut into the lists between its offsets. *)
Cut(list, offs) ==
  [i \in 1 .. Len(offs) - 1 |-> SubSeq(list, offs[i] + 1, offs[i + 1])]

(* The value of nested lists: the coordinates cut by the offsets of every  *)
(* level from the last to the first.                                       *)
Nested(d, cs, offs) ==
  CASE d = 0 -> cs
    [] d = 1 -> Cut(cs, offs[0])
    [] d = 2 -> Cut(Cut(cs, offs[1]), offs[0])
    [] d = 3 -> Cut(Cut(Cut(cs, offs[2]), offs[1]), offs[0])

(* The first n rows.  An array of points has a row per coordinate. *)
Rows(n) ==
  LET all == Nested(depth, coords, offsets)
  IN SubSeq(all, 1, IF n < Len(all) THEN n ELSE Len(all))

-----------------------------------------------------------------------------
Sequences(ns) == [i \in DOMAIN ns |-> ns[i].xs]

AllCoords(ns) == FlattenSeq(Sequences(ns))

(* The lists that are not empty, in order. *)
Kept(list) == IF list = << >> THEN << >> ELSE << list >>
NonEmpty(lists) == FlattenSeq([i \in DOMAIN lists |-> Kept(lists[i])])

(* The rings of the polygon ns[i] follow it: nothing else is in between. *)
IsRingOf(ns, i, k) == i < k /\ \A j \in i + 1 .. k : ns[j].type = RING
Rings(ns, i) ==
  NonEmpty([k \in DOMAIN ns |-> IF IsRingOf(ns, i, k) THEN ns[k].xs ELSE << >>])

PolygonRings(ns) ==
  [i \in DOMAIN ns |-> IF ns[i].type = POLYGON THEN Rings(ns, i) ELSE << >>]

(* The row of a feature: sequences without coordinates and polygons of no  *)
(* such sequence are dropped, an empty point is a coordinate of NaNs.      *)
Shape(ns) ==
  CASE depth = 0 -> IF AllCoords(ns) = << >> THEN NaN ELSE AllCoords(ns)[1]
    [] depth = 1 -> AllCoords(ns)
    [] depth = 2 -> NonEmpty(Sequences(ns))
    [] depth = 3 -> NonEmpty(PolygonRings(ns))

(* The features a family of callbacks was written for. *)
OnlyTypes(ns, types) == \A i \in DOMAIN ns : ns[i].type \in types
NoneOf(ns, types) == \A i \in DOMAIN ns : ns[i].type \notin types

Regular(ns) ==
  CASE depth = 0 -> TRUE
    [] depth = 1 -> \/ OnlyTypes(ns, {POINT, LINESTRING, MULTIPOINT})
                    \/ NoneOf(ns, {POINT, MULTIPOINT})
    [] depth = 2 -> NoneOf(ns, {POINT, MULTIPOINT})
    [] depth = 3 -> NoneOf(ns, {POINT, LINESTRING, MULTIPOINT, MULTILINESTRING})

(* As long as no feature of the batch was abandoned, the row of a feature  *)
(* of a fitting type, or of a collection of such, has the lists of the     *)
(* feature, coordinate by coordinate, and nothing of another feature.      *)
RowsAreShapes ==
  failed = 0 /\ (\A i \in DOMAIN rows : Regular(rows[i].nodes)) =>
    Rows(Len(rows)) = [i \in DOMAIN rows |-> Shape(rows[i].nodes)]

(* A feature of one linestring or multipoint, however its points are       *)
(* nested, is never refused by an array of such: the end of a point inside *)
(* a multipoint is not counted as the end of a sequence                    *)
(* (native_writer.c:622).                                                  *)
FittingFeatureAccepted ==
  FeatureComplete /\ depth = 1
    /\ OnlyTypes(nodes, {POINT, LINESTRING, MULTIPOINT}) => size[0] <= 1

(* All coordinates of a row, without the lists. *)
FlatRow(row) ==
  CASE depth = 1 -> row
    [] depth = 2 -> FlattenSeq(row)
    [] depth = 3 -> FlattenSeq(FlattenSeq(row))

RowsHoldFeatures ==
  \A i \in DOMAIN rows :
    FlatRow(Rows(Len(rows))[i]) = AllCoords(rows[i].nodes)

(* Whatever the types of its parts, a feature that was ended without an    *)
(* error has all its coordinates, in order, in its own row, if the array   *)
(* is one of polygons, multilinestrings or multipolygons.                  *)
CoordinatesKept == failed = 0 /\ depth >= 2 => RowsHoldFeatures

(* The same of an array of linestrings or multipoints, whose feat_end      *)
(* rejects a feature of more than one sequence with EINVAL as feat_end of  *)
(* points does, where "if there was >1 coords, we also need to error or    *)
(* we'll get misaligned output" (native_writer.c:500).                     *)
NoMisalignedOutput == failed = 0 /\ depth = 1 => RowsHoldFeatures

-----------------------------------------------------------------------------
Decoded ==
  [i \in 1 .. Len(rows) |-> [valid |-> IsValid(validity, i),
                             value |-> Rows(Len(rows))[i]]]

DecodedArray ==
  LET values == Nested(array.depth, array.coords, array.offsets)
  IN [i \in DOMAIN values |-> [valid |-> IsValid(array.validity, i),
                               value |-> values[i]]]

Sink == INSTANCE RowSink WITH
  pending  <- IF failed = 0 THEN Decoded ELSE << >>,
  finished <- IF array.exact THEN DecodedArray ELSE << >>,
  spoiled  <- failed > 0

(* The writer is an append-only sink of rows: completing a feature appends *)
(* one row and leaves the others alone, visiting one changes none, Finish  *)
(* hands over exactly the pending rows, and a feature that was abandoned   *)
(* spoils no batch after its own.                                          *)
SinkSpec == Sink!Spec
=============================================================================
