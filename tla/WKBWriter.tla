----------------------------- MODULE WKBWriter -----------------------------
(***************************************************************************)
(* wkb_writer.c as a visitor: well-known binary is written while the       *)
(* geometry is visited, so the number of parts of a geometry is not known  *)
(* when its header is.  geom_start and ring_start reserve a count of 0 and *)
(* remember where it is; geom_end and ring_end go back and fill it in.     *)
(*                                                                         *)
(* values is a sequence of words, one per field of the encoding: a header  *)
(* (byte order mark and type code), a 32-bit count, or one coordinate of w *)
(* ordinates.  Sizes and positions are counted in words instead of bytes.  *)
(* MaxLevel is 30, MaxOffset 2^31 - 1 and CountMod 2^32 in the source.     *)
(***************************************************************************)
EXTENDS VisitorProtocol, LazyValidity

CONSTANTS
  MaxLevel,   (* last level WKBWriterCheckLevel accepts                    *)
  MaxOffset,  (* largest size that has an int32 offset                     *)
  CountMod,   (* counts are kept modulo 2^32                               *)
  MaxBatches  (* bound: arrays finished                                    *)

ASSUME WKBAssumption ==
  /\ MaxLevel \in Nat /\ MaxOffset \in Nat /\ MaxBatches \in Nat
  /\ CountMod \in Nat /\ MaxOffset < CountMod

VARIABLES
  values,      (* sequence of words                                        *)
  offsets,     (* start of every feature in values                         *)
  sizePos,     (* per level: where the reserved count is (1-based)         *)
  size,        (* per level: parts or coordinates seen so far              *)
  geomType,    (* per level: type of the open geometry, RING for a ring    *)
  dimensions,  (* per level: dimensions of the open geometry               *)
  level,       (* levels in use                                            *)
  length,      (* features started since the last Finish                   *)
  nullCount,
  featIsNull,
  validity,
  array,       (* the array of the last successful Finish                  *)
  batches      (* arrays finished so far                                   *)

stackVars  == << sizePos, size, geomType, dimensions, level >>
bufferVars == << values, offsets, length, nullCount, validity >>
outVars    == << array, batches >>
writerVars == << stackVars, bufferVars, featIsNull, outVars >>
vars       == << protocolVars, writerVars >>

-----------------------------------------------------------------------------
Level == 0 .. MaxLevel + 1

NaN == 0

Word == [kind : {"head", "count", "coord"}, v : Int, w : Nat]
HeadWord(type, dims) ==
  [kind |-> "head", v |-> type + (dims - 1) * 1000, w |-> 0]
CountWord(n)         == [kind |-> "count", v |-> n, w |-> 0]
CoordWord(x, dims)   == [kind |-> "coord", v |-> x, w |-> NumDimensions(dims)]

(* Mutant: an empty point always gets the two NaNs of the XY constant. *)
EmptyPoint_AlwaysXY(dims) == CoordWord(NaN, 1)

(* The quiet NaNs of kWKBWriterEmptyPointCoords2, 3 and 4. *)
EmptyPoint(dims) == CoordWord(NaN, dims)

NoArray == [length |-> 0, nullCount |-> 0, offsets |-> << 0 >>,
            values |-> << >>, validity |-> NoBitmap, exact |-> TRUE]

(* Mutant: one level too many is accepted. *)
CheckLevel_OffByOne == level \in 0 .. MaxLevel + 1

CheckLevel == level \in 0 .. MaxLevel

(* Mutant: a size of any number of bytes is taken for an offset. *)
Fits_Unchecked == TRUE

Fits == Len(values) <= MaxOffset

HasData == values # << >>

(* size[] after a part is started in the innermost level, and where the    *)
(* new level has its count.                                                *)
(* Mutant: the new level's position is not set.                            *)
Reserved_Forgotten(position) == sizePos

SizeAtStart ==
  [size EXCEPT ![level] = (@ + 1) % CountMod, ![level + 1] = 0]
Reserved(position) == [sizePos EXCEPT ![level + 1] = position]

(* size[] after n more coordinates of the innermost sequence.              *)
(* Mutant: only the last chunk is counted.                                 *)
SizeAfter_LastChunk(n) == [size EXCEPT ![level] = n % CountMod]

SizeAfter(n) == [size EXCEPT ![level] = (@ + n) % CountMod]

(* memcpy of size[level] over the count reserved at size_pos[level]        *)
(* Mutant: over the word before it.                                        *)
Backpatched_TooEarly == [values EXCEPT ![sizePos[level] - 1] = CountWord(size[level])]
Backpatched == [values EXCEPT ![sizePos[level]] = CountWord(size[level])]

(* What geom_end leaves: a count, or the NaNs of an empty point.           *)

AfterGeom ==
  IF geomType[level] # POINT THEN Backpatched
  ELSE IF size[level] = 0 THEN Append(values, EmptyPoint(dimensions[level]))
  ELSE values

Init ==
  /\ ProtocolInit
  /\ values = << >> /\ offsets = << >>
  /\ sizePos = [l \in Level |-> 0]
  /\ size = [l \in Level |-> 0]
  /\ geomType = [l \in Level |-> RING]
  /\ dimensions = [l \in Level |-> 1]
  /\ level = 0 /\ length = 0 /\ nullCount = 0
  /\ featIsNull = FALSE
  /\ validity = NoBitmap
  /\ array = NoArray /\ batches = 0

-----------------------------------------------------------------------------
(* The part of feat_start that precedes its overflow check. *)
StartFeature(firstLevel, isNull) ==
  /\ level' = firstLevel
  /\ size' = [size EXCEPT ![firstLevel] = 0]
  /\ length' = length + 1
  /\ featIsNull' = isNull
  /\ UNCHANGED << sizePos, geomType, dimensions, values, nullCount, validity,
                  outVars >>

feat_start_wkb == StartFeature(0, FALSE)

FeatStart ==
  /\ ReadFeatStart
  /\ feat_start_wkb
  /\ Fits
  /\ offsets' = Append(offsets, Len(values))

(* EOVERFLOW: the feature has been counted, but has no offset. *)
FeatStartOverflow ==
  /\ Idle
  /\ Abandon
  /\ feat_start_wkb
  /\ ~Fits
  /\ UNCHANGED offsets

NullFeat ==
  /\ ReadNullFeat
  /\ featIsNull' = TRUE
  /\ UNCHANGED << stackVars, bufferVars, outVars >>

GeomStart(type, dims) ==
  /\ ReadGeomStart(type, dims)
  /\ CheckLevel
  /\ size' = SizeAtStart
  /\ level' = level + 1
  /\ geomType' = [geomType EXCEPT ![level + 1] = type]
  /\ dimensions' = [dimensions EXCEPT ![level + 1] = dims]
  /\ IF type = POINT
     THEN /\ values' = Append(values, HeadWord(type, dims))
          /\ UNCHANGED sizePos
     ELSE /\ values' = values \o << HeadWord(type, dims), CountWord(0) >>
          /\ sizePos' = Reserved(Len(values) + 2)
  /\ UNCHANGED << offsets, length, nullCount, validity, featIsNull, outVars >>

RingStart ==
  /\ ReadRingStart
  /\ CheckLevel
  /\ size' = SizeAtStart
  /\ level' = level + 1
  /\ geomType' = [geomType EXCEPT ![level + 1] = RING]
  /\ sizePos' = Reserved(Len(values) + 1)
  /\ values' = Append(values, CountWord(0))
  /\ UNCHANGED << dimensions, offsets, length, nullCount, validity, featIsNull,
                  outVars >>

Coords(n) ==
  /\ ReadCoords(n)
  /\ CheckLevel
  /\ size' = SizeAfter(n)
  /\ values' = values \o
       [i \in 1 .. n |-> CoordWord(Label, nodes[Len(nodes)].dims)]
  /\ UNCHANGED << sizePos, geomType, dimensions, level, offsets, length,
                  nullCount, validity, featIsNull, outVars >>

RingEnd ==
  /\ ReadRingEnd
  /\ CheckLevel
  /\ HasData
  /\ values' = Backpatched
  /\ level' = level - 1
  /\ UNCHANGED << sizePos, size, geomType, dimensions, offsets, length,
                  nullCount, validity, featIsNull, outVars >>

GeomEnd ==
  /\ ReadGeomEnd
  /\ CheckLevel
  /\ HasData
  /\ values' = AfterGeom
  /\ level' = level - 1
  /\ UNCHANGED << sizePos, size, geomType, dimensions, offsets, length,
                  nullCount, validity, featIsNull, outVars >>

FeatEnd ==
  /\ ReadFeatEnd
  /\ IF featIsNull
     THEN /\ validity' = MarkNull(validity, length)
          /\ nullCount' = nullCount + 1
     ELSE /\ validity' = MarkValid(validity)
          /\ UNCHANGED nullCount
  /\ UNCHANGED << stackVars, values, offsets, length, featIsNull, outVars >>

(* The reader met an error in its source, or a callback returned EINVAL    *)
(* because of CheckLevel, which every callback does before it writes.      *)
ReaderFails ==
  /\ ~Idle
  /\ Abandon
  /\ UNCHANGED writerVars

(* The buffers are moved into the array and the counters start again.      *)
(* Mutants: the offsets are copied, or the null count is kept.             *)
MoveBuffers_KeepsOffsets ==
  values' = << >> /\ validity' = NoBitmap /\ UNCHANGED offsets
EmptyCounters_KeepsNulls == length' = 0 /\ UNCHANGED nullCount

MoveBuffers   == values' = << >> /\ offsets' = << >> /\ validity' = NoBitmap
EmptyCounters == length' = 0 /\ nullCount' = 0

(* The array of the batch.  exact is history: no feature was abandoned.    *)
(* Mutants: the last offset is missing; bitmap and null count are not set. *)
HandedOver_NoEnd ==
  [length |-> length, nullCount |-> nullCount, offsets |-> offsets,
   values |-> values, validity |-> validity, exact |-> failed = 0]
HandedOver_NoNulls ==
  [length |-> length, nullCount |-> 0, offsets |-> Append(offsets, Len(values)),
   values |-> values, validity |-> NoBitmap, exact |-> failed = 0]
HandedOver ==
  [length |-> length, nullCount |-> nullCount, offsets |-> Append(offsets, Len(values)),
   values |-> values, validity |-> validity, exact |-> failed = 0]

(* GeoArrowWKBWriterFinish.  When the values do not fit it returns         *)
(* EOVERFLOW and leaves the writer as it is.                               *)
(* nanoarrow may refuse to build the array of a batch in which one was     *)
(* (too few offsets for its length); that outcome is not modelled, and     *)
(* nothing is claimed of the length or the rows of such an array.          *)
Finish ==
  /\ batches < MaxBatches
  /\ Fits
  /\ BatchDone
  /\ array' = HandedOver
  /\ batches' = batches + 1
  /\ MoveBuffers
  /\ EmptyCounters
  /\ UNCHANGED << stackVars, featIsNull >>

Next ==
  \/ FeatStart
  \/ FeatStartOverflow
  \/ NullFeat
  \/ \E type \in GeomTypes, dims \in Dims : GeomStart(type, dims)
  \/ RingStart
  \/ \E n \in 0 .. MaxChunk : Coords(n)
  \/ RingEnd
  \/ GeomEnd
  \/ FeatEnd
  \/ ReaderFails
  \/ Finish

Spec == Init /\ [][Next]_vars

-----------------------------------------------------------------------------
(* The invariant of the writer, as a conjunction of named parts.           *)

WriterTypeOK ==
  /\ values \in Seq(Word) /\ offsets \in Seq(Nat)
  /\ sizePos \in [Level -> Nat] /\ size \in [Level -> Nat]
  /\ geomType \in [Level -> RING .. GEOMETRYCOLLECTION]
  /\ dimensions \in [Level -> 1 .. 4]
  /\ level \in Level /\ length \in Nat /\ nullCount \in Nat
  /\ featIsNull \in BOOLEAN
  /\ validity \in Bitmap
  /\ array \in [length : Nat, nullCount : Nat, offsets : Seq(Nat),
                values : Seq(Word), validity : Bitmap, exact : BOOLEAN]
  /\ batches \in Nat
TypeOK == ProtocolTypeOK /\ WriterTypeOK

(* The levels of the writer follow the geometries and rings the reader has *)
(* open, and size[] counts what was visited in each of them (mod 2^32).    *)
LevelsTrackVisit ==
  open # << >> =>
    /\ level = Depth
    /\ Top.type = NULLFEATURE <=> featIsNull
    /\ \A i \in 1 .. Len(open) : size[i - 1] = open[i].n % CountMod
    /\ \A i \in 2 .. Len(open) : geomType[i - 1] = open[i].type

(* The offsets ascend from 0 and never point past the values, and an open  *)
(* feature is counted and has one; the visitor leaves no more of them than *)
(* there are features.                                                     *)
OffsetsAscend ==
  /\ open # << >> => offsets # << >> /\ length > 0
  /\ IF offsets = << >> THEN values = << >> ELSE offsets[1] = 0
  /\ \A i \in 1 .. Len(offsets) : offsets[i] <= Len(values)
  /\ \A i \in 1 .. Len(offsets) - 1 : offsets[i] <= offsets[i + 1]
OffsetsInValues == OffsetsAscend /\ Len(offsets) <= length

(* Every open level with a count owns one reserved count word that is      *)
(* still 0, inside the current feature; inner levels own later words.      *)
CountedLevel(l) == open[l + 1].type # POINT
ReservedCounts ==
  InGeometry =>
    \A l \in 1 .. Depth : CountedLevel(l) =>
      /\ sizePos[l] \in offsets[Len(offsets)] + 1 .. Len(values)
      /\ values[sizePos[l]] = CountWord(0)
      /\ \A k \in 1 .. l - 1 : CountedLevel(k) => sizePos[k] < sizePos[l]

(* A batch in which every feature was ended is aligned: as many offsets as *)
(* features, and, once the bitmap exists, a bit for every ended feature.   *)
Unended == IF Idle THEN 0 ELSE 1
Aligned ==
  failed = 0 =>
    /\ length = Len(rows) + Unended
    /\ Len(offsets) = length
    /\ validity.data => Len(validity.bits) = Len(rows)

(* The null count is the number of 0 bits, abandoned features or not. *)
NullsCounted ==
  /\ ~validity.data => validity.bits = << >>
  /\ nullCount = NullCount(validity)

(* The array of a batch in which no feature was abandoned is a valid Arrow *)
(* binary array (wkb_writer.c:217-238): length + 1 monotone offsets that   *)
(* span the values, a bit per element whenever there is a bitmap, and a    *)
(* null count that agrees with it.                                         *)
ArrayWellFormed ==
  array.exact =>
    /\ Len(array.offsets) = array.length + 1
    /\ array.offsets[1] = 0
    /\ array.offsets[array.length + 1] = Len(array.values)
    /\ \A i \in 1 .. array.length : array.offsets[i] <= array.offsets[i + 1]
    /\ array.validity.data => Len(array.validity.bits) = array.length
    /\ array.nullCount = NullCount(array.validity)

(* An array is never produced with more values than an int32 offset can    *)
(* address, and every offset of it lies inside the values, whatever went   *)
(* wrong in its batch (the checks at wkb_writer.c:50 and 222).             *)
OffsetsAddressable ==
  /\ Len(array.values) <= MaxOffset
  /\ \A i \in 1 .. Len(array.offsets) : array.offsets[i] <= Len(array.values)

(* Between two Finish calls no word that was written is lost or changed,   *)
(* except that a reserved count of 0 is filled in with a number of parts   *)
(* (wkb_writer.c:122 and 137).                                             *)
WordsKept ==
  /\ Len(values) <= Len(values')
  /\ \A i \in 1 .. Len(values) :
       \/ values'[i] = values[i]
       \/ /\ values[i] = CountWord(0)
          /\ \E n \in 0 .. CountMod - 1 : values'[i] = CountWord(n)
OnlyReservedCountsChange == [][batches' = batches => WordsKept]_vars
=============================================================================
