---------------------------- MODULE NativeArrays ----------------------------
(***************************************************************************)
(* The arrays of native types and the pointers into them (array_view.c,    *)
(* geoarrow_type.h).  An array is given by its levels, outermost first:    *)
(* lists with an offset, a length and an offsets buffer, and last the      *)
(* coordinates with the buffers of their ordinates.  C indices start at 0. *)
(***************************************************************************)
EXTENDS GeometryTypes, SequencesExt

BOX == 990

(* The ordinate of a coordinate that has no such ordinate. *)
NaN == -1

(* The lists above the coordinates. *)
NumOffsets(type) ==
  CASE type \in {BOX, POINT}                   -> 0
    [] type \in {POLYGON, MULTILINESTRING}     -> 2
    [] type = MULTIPOLYGON                     -> 3
    [] OTHER                                   -> 1

NumValues(type, dims) ==
  IF type = BOX THEN 2 * NumDimensions(dims) ELSE NumDimensions(dims)

(* GeoArrowArrayViewSetArrayInternal and ...Box for the coordinates: a     *)
(* pointer to the first value of every ordinate, and a stride.  The        *)
(* offset of a child is applied here, the offset of the level later.       *)
Pointer(buffer, start) == [buffer |-> buffer, start |-> start]
CoordPointers(coords, interleaved, n) ==
  IF interleaved
  THEN [j \in 1 .. n |-> Pointer(coords.children[1].values,
                                 coords.children[1].offset + j)]
  ELSE [j \in 1 .. n |-> Pointer(coords.children[j].values,
                                 coords.children[j].offset + 1)]

(* An empty list has the one offset 0, whatever its buffers are. *)
LevelOffsets(list) ==
  IF list.length > 0 THEN list.offsets ELSE << 0 >>

SetArray(array) ==
  LET n == NumOffsets(array.type)
      v == NumValues(array.type, array.dims)
  IN [type    |-> array.type,
      dims    |-> array.dims,
      offset  |-> [l \in 1 .. n + 1 |-> array.levels[l].offset],
      offsets |-> [l \in 1 .. n |-> LevelOffsets(array.levels[l])],
      values  |-> CoordPointers(array.levels[n + 1], array.interleaved, v),
      stride  |-> IF array.interleaved THEN v ELSE 1,
      bitmap  |-> array.bitmap]

(* GEOARROW_COORD_VIEW_VALUE for ordinate j of coordinate i (from 0). *)
Value(av, i, j) == av.values[j].buffer[av.values[j].start + i * av.stride]
=============================================================================
