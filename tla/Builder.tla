------------------------------ MODULE Builder ------------------------------
(***************************************************************************)
(* builder.c and the builder's part of geoarrow_type_inline.h: an array is *)
(* built buffer by buffer.  Every buffer is known twice: src[i] is the one *)
(* of the array that owns the memory, view[i] is the builder's cached copy *)
(* of its size, capacity and address; coords caches what the coordinate    *)
(* appender needs of the last buffers once more.  Sizes count elements.    *)
(*                                                                         *)
(* A reallocation always makes a buffer larger, so an address is given by  *)
(* the capacity the buffer had there, 0 for NULL.  What is written to an   *)
(* address that is not the buffer's any more, or behind its end, is lost.  *)
(***************************************************************************)
EXTENDS Schemas

(* What is in memory that nobody wrote to. *)
Garbage == -2

(* nanoarrow's arrays: the buffers an array of this format has. *)
BuffersOfFormat(format) ==
  CASE format \in {"+s", "+w"} -> 1
    [] format \in {"+l", "g"}  -> 2
    [] OTHER                   -> 3

(* _GeoArrowArrayFindBuffer: all the buffers it finds, in order.  Children *)
(* do not count their validity buffer.                                     *)
RECURSIVE FindBuffers(_, _, _)
FindBuffers(schema, path, skip) ==
  [i \in 1 .. BuffersOfFormat(schema.format) - skip |->
     [path |-> path, i |-> i - 1 + skip]] \o
  FlattenSeq([c \in DOMAIN schema.children |->
                FindBuffers(schema.children[c], Append(path, c), 1)])

Lists(type) ==
  IF type \in Serialized THEN 1 ELSE NumOffsets(GeometryTypeFromType(type))
Values(type) ==
  IF type \in Serialized THEN 1
  ELSE NumValues(GeometryTypeFromType(type), DimensionsFromType(type))
IsInterleaved(type) == CoordTypeFromType(type) = INTERLEAVED

NumBuffers(type) ==
  1 + Lists(type) + (IF CoordTypeFromType(type) = SEPARATE THEN Values(type) ELSE 1)
CoordBuffers(type) == Lists(type) + 2 .. NumBuffers(type)

CanBuild(type) ==
  /\ type \notin {WKB_VIEW, WKT_VIEW}
  /\ SchemaViewInitFromType(type).ok /\ type # UNINITIALIZED

NoCoords(type) ==
  [size |-> 0, capacity |-> 0, values |-> [j \in 1 .. Values(type) |-> 0]]

(* GeoArrowBuilderInitArrayAndCachePointers: an empty array again. *)
InitArrayAndCachePointers_CoordsKept(b) ==
  [b EXCEPT !.src  = [i \in DOMAIN @ |-> [cells |-> << >>, size |-> 0]],
            !.view = [i \in DOMAIN @ |-> [size |-> 0, capacity |-> 0]]]
InitArrayAndCachePointers(b) ==
  [b EXCEPT !.src    = [i \in DOMAIN @ |-> [cells |-> << >>, size |-> 0]],
            !.view   = [i \in DOMAIN @ |-> [size |-> 0, capacity |-> 0]],
            !.coords = NoCoords(b.type)]

BuilderInitFromType(type) ==
  InitArrayAndCachePointers(
    [type   |-> type,
     src    |-> [i \in 1 .. NumBuffers(type) |-> 0],
     view   |-> [i \in 1 .. NumBuffers(type) |-> 0],
     coords |-> NoCoords(type)])

-----------------------------------------------------------------------------
(* GeoArrowBuilderReserveBuffer: nanoarrow's reserve at least doubles.     *)
Larger(m, n) == IF m > n THEN m ELSE n
Reallocated(cells, n) ==
  cells \o [k \in 1 .. Larger(2 * Len(cells), n) - Len(cells) |-> Garbage]

ReserveBuffer(b, i, n) ==
  LET src   == b.src[i]
      need  == b.view[i].size + n
      cells == IF need <= Len(src.cells) THEN src.cells
               ELSE Reallocated(src.cells, need)
  IN [b EXCEPT !.src[i] = [cells |-> cells, size |-> b.view[i].size],
               !.view[i].capacity = Len(cells)]

(* Write value k of n to cell Cell(k) of buffer i through an address. *)
Store(b, i, address, n, Cell(_), Val(_)) ==
  IF address # Len(b.src[i].cells) THEN b
  ELSE [b EXCEPT !.src[i].cells =
          [c \in DOMAIN @ |->
             IF \E k \in 1 .. n : Cell(k) = c
             THEN Val(CHOOSE k \in 1 .. n : Cell(k) = c) ELSE @[c]]]

AppendBufferUnsafe(b, i, values) ==
  LET at == b.view[i].size
  IN [Store(b, i, b.view[i].capacity, Len(values),
            LAMBDA k : at + k, LAMBDA k : values[k])
      EXCEPT !.view[i].size = at + Len(values)]

BufferCheck(b, i, n) == b.view[i].capacity >= b.view[i].size + n

AppendBuffer(b, i, values) ==
  AppendBufferUnsafe(
    IF BufferCheck(b, i, Len(values)) THEN b ELSE ReserveBuffer(b, i, Len(values)),
    i, values)

(* List l, from 1, has its offsets in the buffer behind the validity. *)
OffsetReserve(b, l, n) ==
  IF BufferCheck(b, l + 1, n) THEN b ELSE ReserveBuffer(b, l + 1, n)
OffsetAppend(b, l, values) ==
  AppendBufferUnsafe(OffsetReserve(b, l, Len(values)), l + 1, values)

SetOwnedBuffer(b, i, values) ==
  IF i \notin DOMAIN b.src THEN b
  ELSE [b EXCEPT !.src[i]  = [cells |-> values, size |-> Len(values)],
                 !.view[i] = [size |-> Len(values), capacity |-> Len(values)]]

-----------------------------------------------------------------------------
(* The coordinate appender.  Ordinate j of coordinate k is in buffer       *)
(* CoordBuffer(b, j), in cell CoordCell(b, j, k).                          *)
Scale(b) == IF IsInterleaved(b.type) THEN Values(b.type) ELSE 1
CoordBuffer(b, j) ==
  Lists(b.type) + 1 + (IF IsInterleaved(b.type) THEN 1 ELSE j)
CoordCell(b, j, k) ==
  IF IsInterleaved(b.type) THEN (k - 1) * Values(b.type) + j ELSE k

CoordsCheck(b, n) == b.coords.capacity >= b.coords.size + n

(* The capacity is the one of the last buffer: all have the same history. *)
ReserveCoordBuffer(b, i, n) ==
  ReserveBuffer([b EXCEPT !.view[i].size = b.coords.size * Scale(b)],
                i, n * Scale(b))
ReserveCoordBuffers(b, n) ==
  LET grown[i \in CoordBuffers(b.type) \cup {Lists(b.type) + 1}] ==
        IF i \in CoordBuffers(b.type) THEN ReserveCoordBuffer(grown[i - 1], i, n)
        ELSE b
  IN grown[NumBuffers(b.type)]

CoordsReserve(b, n) ==
  IF CoordsCheck(b, n) THEN b
  ELSE LET grown == ReserveCoordBuffers(b, n)
       IN [grown EXCEPT
             !.coords.capacity =
                grown.view[NumBuffers(b.type)].capacity \div Scale(b),
             !.coords.values = [j \in DOMAIN @ |->
                grown.view[CoordBuffer(b, j)].capacity]]

(* GeoArrowCoordViewCopy: ordinates the source does not have become NaN.   *)
(* xs is a sequence of coordinates of dimensions dims.                     *)
CoordsAppendUnsafe(b, xs, dims) ==
  LET from == MapDimensions(dims, DimensionsFromType(b.type))
      Ordinate(j, k) == IF from[j] = 0 THEN NaN ELSE xs[k][from[j]]
      written[j \in 0 .. Values(b.type)] ==
        IF j = 0 THEN b
        ELSE Store(written[j - 1], CoordBuffer(b, j), b.coords.values[j], Len(xs),
                   LAMBDA k : CoordCell(b, j, b.coords.size + k),
                   LAMBDA k : Ordinate(j, k))
  IN [written[Values(b.type)] EXCEPT !.coords.size = @ + Len(xs)]

CoordsAppend(b, xs, dims) ==
  CoordsAppendUnsafe(CoordsReserve(b, Len(xs)), xs, dims)

-----------------------------------------------------------------------------
(* GeoArrowBuilderFinish.  The coordinate appender never touched the sizes *)
(* of the buffers; all sizes go back to the array's own buffers.           *)
SyncSizes(b) ==
  LET Size(i) == IF i \in CoordBuffers(b.type) /\ b.type \notin Serialized
                 THEN Larger(b.view[i].size, b.coords.size * Scale(b))
                 ELSE b.view[i].size
  IN [b EXCEPT !.view = [i \in DOMAIN @ |-> [@[i] EXCEPT !.size = Size(i)]],
               !.src  = [i \in DOMAIN @ |-> [@[i] EXCEPT !.size = Size(i)]]]

(* GeoArrowSetArrayLengthFromBufferLength: buffer 1 of an array has its    *)
(* offsets, one more than lists, or its values.                            *)
LengthFromBuffer(type, found, size) ==
  IF size > 0 /\ Len(found.path) < Lists(type) THEN size - 1 ELSE size

(* The length of every array, by the path to it, and of the container of   *)
(* the coordinates from its first child's.                                 *)
ArrayLengths(b) ==
  LET found == FindBuffers(SchemaInit(b.type), << >>, 0)
      first == {i \in DOMAIN found : found[i].i = 1}
      container == [l \in 1 .. Lists(b.type) |-> 1]
      own == [p \in {found[i].path : i \in first} |->
                LET i == CHOOSE i \in first : found[i].path = p
                IN LengthFromBuffer(b.type, found[i], b.src[i].size)]
  IN IF b.type \in Serialized THEN own
     ELSE (container :> own[Append(container, 1)] \div Scale(b)) @@ own

(* What nanoarrow checks of the result: every offset is inside the child,  *)
(* and all children are as long as their parent says.                      *)
Filled(b, i) == SubSeq(b.src[i].cells, 1, b.src[i].size)
ValidArray(b, lengths) ==
  LET list(l) == [k \in 1 .. l - 1 |-> 1]
      within(l) ==
        IF b.type \in Serialized THEN b.src[3].size
        ELSE lengths[Append(list(l), 1)]
  IN /\ \A l \in 1 .. Lists(b.type) : b.src[l + 1].size > 0 =>
          Filled(b, l + 1)[lengths[list(l)] + 1] <= within(l)
     /\ \A p \in DOMAIN lengths, c \in 1 .. 8 :
          /\ Len(p) = Lists(b.type) /\ b.type \notin Serialized
          /\ Append(p, c) \in DOMAIN lengths
          => lengths[Append(p, c)] >= lengths[p] * Scale(b)

(* The finished array, in the terms of the array view. *)
FinishedArray(b, lengths) ==
  LET n == Lists(b.type)
      list(l) == [k \in 1 .. l - 1 |-> 1]
  IN [type        |-> GeometryTypeFromType(b.type),
      dims        |-> DimensionsFromType(b.type),
      interleaved |-> IsInterleaved(b.type),
      bitmap      |-> FlattenSeq(Filled(b, 1)),
      levels      |->
        [l \in 1 .. n |-> [offset |-> 0, length |-> lengths[list(l)],
                           offsets |-> Filled(b, l + 1)]] \o
        << [offset |-> 0,
            length |-> IF b.type \in Serialized THEN b.src[n + 2].size
                       ELSE lengths[list(n + 1)],
            children |-> [j \in 1 .. NumBuffers(b.type) - n - 1 |->
                            [offset |-> 0, values |-> Filled(b, n + 1 + j)]]] >>]

(* Before that it gives every buffer without memory one byte of it, which  *)
(* is an element of a buffer of bytes only.                                *)
FinalizeBuffers(b) ==
  IF b.type \in Serialized /\ b.src[3].cells = << >>
  THEN [b EXCEPT !.src[3].cells = << Garbage >>] ELSE b

Refused == [refused |-> TRUE]
Finish(b) ==
  LET synced  == FinalizeBuffers(SyncSizes(b))
      lengths == ArrayLengths(synced)
  IN IF ValidArray(synced, lengths)
     THEN [builder |-> InitArrayAndCachePointers(synced),
           array   |-> FinishedArray(synced, lengths) @@ [refused |-> FALSE]]
     ELSE [builder |-> synced, array |-> Refused]
=============================================================================
