---------------------------- MODULE NativeWriter ----------------------------
(***************************************************************************)
(* native_writer.c as a visitor: features become nested Arrow lists over   *)
(* one buffer of coordinates.  One of four sets of callbacks is installed, *)
(* by the depth of the lists: 0 for POINT, 1 for LINESTRING and            *)
(* MULTIPOINT, 2 for POLYGON and MULTILINESTRING, 3 for MULTIPOLYGON.      *)
(*                                                                         *)
(* coords holds coordinates as the labels the protocol gives them; the     *)
(* conversion to the array's dimensions is left out.  offsets[0] ends the  *)
(* rows, offsets[depth - 1] the coordinate sequences.  size[l] counts what *)
(* was put into the open list of level l, which is how the callbacks tell  *)
(* an empty list from one that needs an offset.                            *)
(* MaxOffset is 2^31 - 1 in the source.                                    *)
(***************************************************************************)
EXTENDS VisitorProtocol, LazyValidity

CONSTANTS
  ListDepths, (* depths of the types the writer may be created for         *)
  MaxOffset,  (* largest int32 offset                                      *)
  MaxBatches  (* bound: arrays finished                                    *)

ASSUME NativeAssumption ==
  ListDepths \subseteq 0 .. 3 /\ MaxOffset \in Nat /\ MaxBatches \in Nat

VARIABLES
  depth,      (* of the lists, from the type given to Init                 *)
  coords,     (* coordinate buffer                                         *)
  offsets,    (* per level: offsets buffer                                 *)
  size,       (* per level: elements of the open list                      *)
  level,      (* nesting of the geometries that may become a list          *)
  nestingMultipoint, (* 0, 1 in a multipoint, 2 in a point of one          *)
  featIsNull,
  nullCount,
  validity,
  array,      (* the array of the last successful Finish                   *)
  batches     (* arrays finished so far                                    *)

shapeVars  == << size, level, nestingMultipoint >>
bitVars    == << validity, nullCount >>
listVars   == << coords, offsets >>
outVars    == << array, batches >>
writerVars == << depth, shapeVars, bitVars, listVars, featIsNull, outVars >>
vars       == << protocolVars, writerVars >>

-----------------------------------------------------------------------------
Lvl == 0 .. 2

NaN == 0   (* all ordinates of an appended empty point are NaN *)

(* Mutant: the offsets buffers start empty. *)
FreshOffsets_NoZero(d) == [l \in Lvl |-> << >>]

(* Every offsets buffer starts with a 0; the levels past depth have none. *)
FreshOffsets(d) == [l \in Lvl |-> IF l < d THEN << 0 >> ELSE << >>]

NoArray == [depth |-> 0, coords |-> << >>, offsets |-> FreshOffsets(0),
            nullCount |-> 0, validity |-> NoBitmap, exact |-> TRUE]

(* Number of elements the lists of level l of offs are cut from. *)
Elements(offs, l) ==
  IF l = depth - 1 THEN Len(coords) ELSE Len(offs[l + 1]) - 1

(* The open list of level l ends here.                                     *)
(* Mutant: a list of lists ends at the coordinate instead of the list.     *)
Close_AtCoordinate(offs, l) == [offs EXCEPT ![l] = Append(@, Len(coords))]

Close(offs, l) == [offs EXCEPT ![l] = Append(@, Elements(offs, l))]

(* Mutant: coordinates past the last offset are not noticed. *)
Fits_Unchecked == TRUE

Fits == Len(coords) <= MaxOffset

(* Sequences are closed by the end of a ring or geometry only if they have *)
(* coordinates; they then count as one more element of the list outside.   *)
(* Mutant: the sequence is closed, but its size is kept.                   *)
SequenceCounted_KeepsSize == [size EXCEPT ![depth - 2] = @ + 1]

SequenceCounted == [size EXCEPT ![depth - 2] = @ + 1, ![depth - 1] = 0]

SequencePending == depth >= 2 /\ size[depth - 1] > 0

(* The geometries that may become a list when they end. *)
EntersLevel(type) ==
  \/ depth >= 1 /\ type \in {LINESTRING, MULTIPOINT}
  \/ depth = 3 /\ type \in {POLYGON, MULTILINESTRING}

Init ==
  /\ ProtocolInit
  /\ depth \in ListDepths
  /\ coords = << >>
  /\ offsets = FreshOffsets(depth)
  /\ size = [l \in Lvl |-> 0]
  /\ level = 0 /\ nestingMultipoint = 0
  /\ featIsNull = FALSE /\ nullCount = 0
  /\ validity = NoBitmap
  /\ array = NoArray /\ batches = 0

-----------------------------------------------------------------------------
(* The level whose size counts coordinates: the last one the family uses. *)
CoordLevel == IF depth <= 1 THEN depth ELSE depth - 1

(* Each family resets the sizes it uses. *)
SizeAtFeature == [l \in Lvl |-> IF l <= CoordLevel THEN 0 ELSE size[l]]

FeatStart ==
  /\ ReadFeatStart
  /\ level' = 0
  /\ size' = SizeAtFeature
  /\ featIsNull' = FALSE
  /\ nestingMultipoint' = IF depth = 1 THEN 0 ELSE nestingMultipoint
  /\ UNCHANGED << depth, bitVars, listVars, outVars >>

NullFeat ==
  /\ ReadNullFeat
  /\ featIsNull' = TRUE
  /\ UNCHANGED << depth, shapeVars, bitVars, listVars, outVars >>

GeomStart(type, dims) ==
  /\ ReadGeomStart(type, dims)
  /\ level' = IF EntersLevel(type) THEN level + 1 ELSE level
  /\ nestingMultipoint' =
       IF depth # 1 THEN nestingMultipoint
       ELSE IF type = MULTIPOINT THEN 1
       ELSE IF type = POINT /\ nestingMultipoint > 0 THEN nestingMultipoint + 1
       ELSE nestingMultipoint
  /\ UNCHANGED << depth, size, bitVars, listVars, featIsNull, outVars >>

RingStart ==
  /\ ReadRingStart
  /\ level' = IF depth = 0 THEN level ELSE level + 1
  /\ UNCHANGED << depth, size, nestingMultipoint, bitVars, listVars, featIsNull,
                  outVars >>

Coords(n) ==
  /\ ReadCoords(n)
  /\ coords' = coords \o [i \in 1 .. n |-> Label]
  /\ size' = [size EXCEPT ![CoordLevel] = @ + n]
  /\ UNCHANGED << depth, offsets, level, nestingMultipoint, bitVars, featIsNull,
                  outVars >>

(* ring_end of the four families *)
RingEnd ==
  /\ ReadRingEnd
  /\ level' = IF depth = 0 THEN level ELSE level - 1
  /\ \/ /\ depth = 1 /\ Fits
        /\ size' = [size EXCEPT ![0] = @ + 1]
        /\ offsets' = Close(offsets, 0)
     \/ /\ SequencePending /\ Fits
        /\ size' = SequenceCounted
        /\ offsets' = Close(offsets, depth - 1)
     \/ /\ depth # 1 /\ ~SequencePending
        /\ UNCHANGED << size, offsets >>
  /\ UNCHANGED << depth, coords, nestingMultipoint, bitVars, featIsNull, outVars >>

-----------------------------------------------------------------------------
(* geom_end: what it does depends on the level it is called at. *)

(* Mutant: the end of a point of a multipoint ends the list, too. *)
EndsSequence_InPoint  == level = (IF depth = 3 THEN 2 ELSE 1)

(* Not the geom_end of a point of a multipoint, at the sequences' level. *)
EndsSequence ==
  /\ level = (IF depth = 3 THEN 2 ELSE 1)
  /\ ~(depth = 1 /\ nestingMultipoint = 2)

EndsPolygon == depth = 3 /\ level = 1

(* geom_end of the four families, level 1 of depth 3 excepted *)
GeomEnd ==
  /\ ReadGeomEnd
  /\ ~EndsPolygon
  /\ level' = IF depth > 0 /\ EndsSequence THEN level - 1 ELSE level
  /\ nestingMultipoint' = IF depth = 1 /\ nestingMultipoint = 2 THEN 1
                          ELSE nestingMultipoint
  /\ \/ /\ depth = 1 /\ EndsSequence /\ Fits
        /\ size' = [size EXCEPT ![0] = @ + 1]
        /\ offsets' = Close(offsets, 0)
     \/ /\ EndsSequence /\ SequencePending /\ Fits
        /\ size' = SequenceCounted
        /\ offsets' = Close(offsets, depth - 1)
     \/ /\ depth = 0 \/ ~EndsSequence \/ (depth # 1 /\ ~SequencePending)
        /\ UNCHANGED << size, offsets >>
  /\ UNCHANGED << depth, coords, bitVars, featIsNull, outVars >>

(* A list of sequences ends, if it has any. *)
PolygonEnd ==
  /\ ReadGeomEnd
  /\ EndsPolygon
  /\ level' = level - 1
  /\ IF size[1] > 0
     THEN /\ offsets' = Close(offsets, 1)
          /\ size' = [size EXCEPT ![0] = @ + 1, ![1] = 0]
     ELSE UNCHANGED << offsets, size >>
  /\ UNCHANGED << depth, coords, nestingMultipoint, bitVars, featIsNull, outVars >>

-----------------------------------------------------------------------------
(* feat_end closes what was left open, inside out, then the row.           *)
(* Mutant: lists that were left open are not closed.                       *)
LeftOver_Ignored(l) == FALSE

LeftOver(l) == \E k \in l .. depth - 1 : size[k] > 0

SequencesClosed == IF depth = 3 /\ LeftOver(2) THEN Close(offsets, 2) ELSE offsets
ListsClosed     == IF LeftOver(1) THEN Close(SequencesClosed, 1)
                   ELSE SequencesClosed
RowClosed       == Close(ListsClosed, 0)

(* Mutant: offsets are counted instead of the rows between them. *)
RowCount_Offsets(d, cs, offs) == IF d = 0 THEN Len(cs) ELSE Len(offs[0])

(* Rows of an array, from the size of its outermost buffer. *)
RowCount(d, cs, offs) == IF d = 0 THEN Len(cs) ELSE Len(offs[0]) - 1

(* feat_end once the row is in place *)
MarkRow(length) ==
  IF featIsNull
  THEN validity' = MarkNull(validity, length) /\ nullCount' = nullCount + 1
  ELSE validity' = MarkValid(validity) /\ UNCHANGED nullCount

(* An EMPTY or null point is a row of NaNs.                                *)
(* Mutant: only a null one is.                                             *)
PointEnd_NullOnly ==
  /\ depth = 0 /\ size[0] <= 1
  /\ coords' = IF featIsNull THEN Append(coords, NaN) ELSE coords
  /\ size' = [size EXCEPT ![0] = 1]
  /\ UNCHANGED offsets
PointEnd ==
  /\ depth = 0 /\ size[0] <= 1
  /\ coords' = IF size[0] = 0 THEN Append(coords, NaN) ELSE coords
  /\ size' = [size EXCEPT ![0] = 1]
  /\ UNCHANGED offsets

(* An EMPTY or null row, or one of points, has not been closed yet. *)
LinestringEnd ==
  /\ depth = 1 /\ size[0] <= 1
  /\ size[0] = 0 => Fits
  /\ offsets' = IF size[0] = 0 THEN Close(offsets, 0) ELSE offsets
  /\ UNCHANGED << coords, size >>

ListsEnd ==
  /\ depth >= 2
  /\ SequencePending => Fits
  /\ offsets' = RowClosed
  /\ size' = IF depth = 3 /\ LeftOver(2) THEN [size EXCEPT ![1] = @ + 1] ELSE size
  /\ UNCHANGED coords

FeatEnd ==
  /\ ReadFeatEnd
  /\ PointEnd \/ LinestringEnd \/ ListsEnd
  /\ MarkRow(RowCount(depth, coords', offsets'))
  /\ UNCHANGED << depth, level, nestingMultipoint, featIsNull, outVars >>

(* EINVAL: more than one coordinate for a POINT, or more than one sequence *)
(* for a LINESTRING.  What was written for the feature stays.              *)
FeatRejected ==
  /\ FeatureComplete
  /\ depth <= 1 /\ size[0] > 1
  /\ Abandon
  /\ UNCHANGED writerVars

(* EOVERFLOW, from whichever callback is about to write an offset: what    *)
(* ring_end and geom_end did to level and size before it stays.            *)
Overflow ==
  /\ ~Fits
  /\ Abandon
  /\ \/ /\ InGeometry
        /\ Top.type = RING \/ EndsSequence
        /\ depth = 1 \/ SequencePending
        /\ level' = level - 1
        /\ size' = IF depth = 1 THEN [size EXCEPT ![0] = @ + 1] ELSE size
     \/ /\ FeatureComplete
        /\ (depth = 1 /\ size[0] = 0) \/ SequencePending
        /\ UNCHANGED << level, size >>
  /\ UNCHANGED << depth, nestingMultipoint, bitVars, listVars, featIsNull, outVars >>

(* The reader met an error in its source. *)
ReaderFails ==
  /\ ~Idle
  /\ Abandon
  /\ UNCHANGED writerVars

(* GeoArrowNativeWriterEnsureOutputInitialized.  The bitmap is emptied but *)
(* keeps its memory: once a batch had a null, every later one has bits.    *)
(* Mutant: the null count is kept.                                         *)
Restart_KeepsNulls ==
  /\ coords' = << >> /\ offsets' = FreshOffsets(depth)
  /\ UNCHANGED nullCount /\ validity' = Emptied(validity)

Restart ==
  /\ coords' = << >> /\ offsets' = FreshOffsets(depth)
  /\ nullCount' = 0 /\ validity' = Emptied(validity)

(* The array of the batch.  A bitmap without bits is not handed over, and  *)
(* exact is history: no feature was abandoned.                             *)
(* Mutants: the null count is not set; nor is the bitmap.                  *)
HandedOver_NoNullCount ==
  [depth |-> depth, coords |-> coords, offsets |-> offsets, nullCount |-> 0,
   exact |-> failed = 0, validity |-> validity]
HandedOver_NoNulls == [HandedOver_NoNullCount EXCEPT !.validity = NoBitmap]
HandedOver ==
  [depth |-> depth, coords |-> coords, offsets |-> offsets,
   nullCount |-> nullCount, exact |-> failed = 0,
   validity |-> IF validity.bits = << >> THEN NoBitmap ELSE validity]

(* GeoArrowNativeWriterFinish.  The outcome that the array is refused,     *)
(* because features were abandoned and the bitmap is short of their rows,  *)
(* is not modelled.                                                        *)
Finish ==
  /\ batches < MaxBatches
  /\ BatchDone
  /\ array' = HandedOver
  /\ batches' = batches + 1
  /\ Restart
  /\ UNCHANGED << depth, shapeVars, featIsNull >>

Next ==
  \/ FeatStart
  \/ NullFeat
  \/ \E type \in GeomTypes, dims \in Dims : GeomStart(type, dims)
  \/ RingStart
  \/ \E n \in 0 .. MaxChunk : Coords(n)
  \/ RingEnd
  \/ GeomEnd
  \/ PolygonEnd
  \/ FeatEnd
  \/ FeatRejected
  \/ Overflow
  \/ ReaderFails
  \/ Finish

Spec == Init /\ [][Next]_vars

-----------------------------------------------------------------------------
(* The invariant of the writer, as a conjunction of named parts.           *)

WriterTypeOK ==
  /\ depth \in 0 .. 3
  /\ coords \in Seq(Nat) /\ offsets \in [Lvl -> Seq(Nat)]
  /\ size \in [Lvl -> Nat] /\ level \in Int /\ nestingMultipoint \in Nat
  /\ featIsNull \in BOOLEAN /\ nullCount \in Nat
  /\ validity \in Bitmap
  /\ array \in [depth : 0 .. 3, coords : Seq(Nat), offsets : [Lvl -> Seq(Nat)],
                nullCount : Nat, validity : Bitmap, exact : BOOLEAN]
  /\ batches \in Nat
TypeOK == ProtocolTypeOK /\ WriterTypeOK

(* At every moment, abandoned features or not, the lists nest: the offsets *)
(* of a level start at 0, ascend, and never point past the last element of *)
(* the level below, of which only the lists of rows may be empty.          *)
LevelNests(l) ==
  /\ Len(offsets[l]) >= 1 /\ offsets[l][1] = 0
  /\ \A i \in 1 .. Len(offsets[l]) - 1 :
       IF l = 0 THEN offsets[l][i] <= offsets[l][i + 1]
       ELSE offsets[l][i] < offsets[l][i + 1]
  /\ offsets[l][Len(offsets[l])] <= Elements(offsets, l)
ListsNest == \A l \in 0 .. depth - 1 : LevelNests(l)

(* Every offset fits an int32, the numbers of sequences too, although the  *)
(* code casts those without a check (native_writer.c:819 and 949): lists   *)
(* that are closed are not empty, so there are no more of them than of the *)
(* coordinates, whose number is checked.                                   *)
OffsetsFit ==
  \A l \in 0 .. depth - 1 :
    \A i \in 1 .. Len(offsets[l]) : offsets[l][i] <= MaxOffset

(* During a feature size[l] never counts more than is there for the open   *)
(* list of level l: an offset that is appended because of it ascends.  The *)
(* open list may have more, the elements of an abandoned feature.          *)
SizesBacked ==
  open # << >> => \A l \in 1 .. depth - 1 :
    size[l] <= Elements(offsets, l) - offsets[l][Len(offsets[l])]

(* The null count is the number of 0 bits, abandoned features or not. *)
NullsCounted ==
  /\ ~validity.data => validity.bits = << >>
  /\ nullCount = NullCount(validity)

(* Once the bitmap exists, in this batch or an earlier one, every feature  *)
(* that was ended has a bit; and, unless a feature was abandoned, a row.   *)
Aligned ==
  failed = 0 =>
    /\ validity.data => Len(validity.bits) = Len(rows)
    /\ Idle => RowCount(depth, coords, offsets) = Len(rows)

(* The array of a batch in which no feature was abandoned is a valid Arrow *)
(* array: each level's offsets end at most at the last element below, the  *)
(* last coordinate of a nested list array belongs to its last row, and     *)
(* there are as many bits as rows or none, of which nullCount are 0.       *)
ArrayElements(l) ==
  IF l = array.depth - 1 THEN Len(array.coords) ELSE Len(array.offsets[l + 1]) - 1
ArrayWellFormed ==
  array.exact =>
    /\ \A l \in 0 .. array.depth - 1 :
         LET offs == array.offsets[l]
         IN /\ offs[1] = 0
            /\ offs[Len(offs)] <= ArrayElements(l)
            /\ array.depth > 1 => offs[Len(offs)] = ArrayElements(l)
    /\ array.validity.data =>
         Len(array.validity.bits) = RowCount(array.depth, array.coords, array.offsets)
    /\ array.nullCount = NullCount(array.validity)
=============================================================================
