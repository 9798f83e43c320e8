-------------------------- MODULE WKBWriterProofs --------------------------
(***************************************************************************)
(* Proofs about the well-known binary writer for any geometry types,       *)
(* dimensions, bounds, offset limit and count width.  Inv is inductive:    *)
(* filling in a count is only safe because the level of the writer is the  *)
(* depth of the visit (LevelsTrackVisit), because that level owns a count  *)
(* inside the current feature (ReservedCounts), and because the current    *)
(* feature starts after every finished one (OffsetsAscend).  With what     *)
(* BatchInv adds to it, the writer implements RowSink.                     *)
(***************************************************************************)
EXTENDS WKBReference, VisitorProtocolProofs, DataProofs

Inv ==
  TypeOK /\ Nesting /\ LevelsTrackVisit /\ OffsetsAscend /\ ReservedCounts

-----------------------------------------------------------------------------
(* Arithmetic: a counter that wraps still counts modulo its width. *)
LEMMA ModUnique ==
  ASSUME NEW m \in Nat \ {0}, NEW q \in Int, NEW r \in 0 .. m - 1
  PROVE  (m * q + r) % m = r
<1> DEFINE x == m * q + r
           k == x \div m
           s == x % m
<1>1. ASSUME NEW d \in Nat \ {0}
      PROVE  m * d >= m
  OBVIOUS
<1>2. x \in Int /\ k \in Int /\ s \in 0 .. m - 1 /\ x = m * k + s
  BY Z3
<1>3. m * (q - k) = s - r /\ m * (k - q) = r - s
  BY <1>2
<1>4. ~(q - k \in Nat \ {0}) /\ ~(k - q \in Nat \ {0})
  BY <1>1, <1>2, <1>3
<1> QED
  BY <1>2, <1>3, <1>4

LEMMA ModAdd ==
  ASSUME NEW m \in Nat \ {0}, NEW a \in Nat, NEW n \in Nat
  PROVE  ((a % m) + n) % m = (a + n) % m
<1> DEFINE r == a % m
           p == a \div m
           b == r + n
           s == b % m
           q == b \div m
<1>1. r \in 0 .. m - 1 /\ p \in Int /\ a = m * p + r
  OBVIOUS
<1>2. b \in Nat /\ s \in 0 .. m - 1 /\ q \in Int /\ b = m * q + s
  BY <1>1
<1>3. a + n = m * (p + q) + s
  BY <1>1, <1>2
<1>4. (m * (p + q) + s) % m = s
  <2>1. p + q \in Int /\ s \in 0 .. m - 1
    BY <1>1, <1>2
  <2> HIDE DEF s, p, q
  <2> QED
    BY <2>1, ModUnique
<1>5. (a + n) % m = s
  BY <1>3, <1>4, Zenon
<1> QED
  BY <1>5

LEMMA ModZero ==
  ASSUME NEW m \in Nat \ {0}
  PROVE  0 % m = 0
<1>1. (m * 0 + 0) % m = 0
  BY ModUnique
<1> QED
  BY <1>1

-----------------------------------------------------------------------------
LEMMA CountWordType ==
  ASSUME NEW n \in Nat
  PROVE  CountWord(n) \in Word
BY DEF CountWord, Word

LEMMA WordTypes ==
  ASSUME NEW type \in Int, NEW dims \in Int, NEW any
  PROVE  /\ HeadWord(type, dims) \in Word
         /\ EmptyPoint(any) \in Word
         /\ \A n \in Nat : CoordWord(n, any) \in Word
BY DEF HeadWord, CoordWord, EmptyPoint, Word, NaN, NumDimensions

(* Every step of the writer is one call of the reader's, or none. *)
LEMMA StepIsCall ==
  ASSUME [Next]_vars
  PROVE  [ProtocolNext]_protocolVars
BY DEF Next, vars, ProtocolNext, FeatStart, FeatStartOverflow, NullFeat,
       GeomStart, RingStart, Coords, RingEnd, GeomEnd, FeatEnd, ReaderFails,
       Finish

-----------------------------------------------------------------------------
(* The level in use during a feature, and the count it owns. *)
LEMMA VisitLevel ==
  ASSUME ProtocolAssumption, WKBAssumption, Inv, open # << >>
  PROVE  /\ level = Depth /\ level \in 0 .. MaxLevel + 1
         /\ open \in Seq(FrameSet)
         /\ Len(open) \in Nat /\ Len(open) = level + 1
         /\ Top.n \in Nat /\ Top.n = open[Len(open)].n
         /\ size[level] = Top.n % CountMod
         /\ size[level] \in 0 .. CountMod - 1
<1>1. open \in Seq(FrameSet) /\ level \in Level /\ Len(open) \in Nat \ {0}
  BY EmptySeq DEF Inv, TypeOK, ProtocolTypeOK, WriterTypeOK
<1>2. open[Len(open)] \in FrameSet
  BY <1>1
<1>3. open[Len(open)].n \in Nat
  BY <1>2 DEF FrameSet
<1>4. /\ level = Depth
      /\ \A i \in 1 .. Len(open) : size[i - 1] = open[i].n % CountMod
  BY DEF Inv, LevelsTrackVisit
<1>5. level \in 0 .. MaxLevel + 1 /\ Len(open) = level + 1
  BY <1>1, <1>4 DEF Depth, Level, WKBAssumption
<1>6. size[Len(open) - 1] = open[Len(open)].n % CountMod
  BY <1>1, <1>4
<1>7. Len(open) - 1 = level
  BY <1>1, <1>5 DEF WKBAssumption
<1>8. open[Len(open)].n % CountMod \in 0 .. CountMod - 1
  <2>1. CountMod \in Nat \ {0}
    BY DEF WKBAssumption
  <2>2. ASSUME NEW a \in Nat
        PROVE  a % CountMod \in 0 .. CountMod - 1
    BY <2>1
  <2> QED
    BY <1>3, <2>2
<1> QED
  BY <1>1, <1>3, <1>4, <1>5, <1>6, <1>7, <1>8 DEF Top

LEMMA OpenLevel ==
  ASSUME ProtocolAssumption, WKBAssumption, Inv, InGeometry
  PROVE  /\ open # << >> /\ level \in 1 .. MaxLevel + 1
         /\ geomType[level] = Top.type
         /\ ~featIsNull
<1>1. open # << >>
  BY EmptySeq DEF Inv, TypeOK, ProtocolTypeOK, InGeometry
<1>2. /\ Len(open) \in Nat /\ Len(open) = level + 1 /\ Len(open) > 1
      /\ level \in 0 .. MaxLevel + 1
  BY <1>1, VisitLevel DEF InGeometry
<1>3. /\ Top.type = NULLFEATURE <=> featIsNull
      /\ \A i \in 2 .. Len(open) : geomType[i - 1] = open[i].type
  BY <1>1 DEF Inv, LevelsTrackVisit
<1>4. geomType[Len(open) - 1] = open[Len(open)].type
  BY <1>2, <1>3
<1>5. level \in 1 .. MaxLevel + 1 /\ Len(open) - 1 = level
  BY <1>2 DEF WKBAssumption
<1>6. Top.type # NULLFEATURE
  BY <1>2 DEF Inv, Nesting, Top, NULLFEATURE, RING, GEOMETRYCOLLECTION
<1> QED
  BY <1>1, <1>3, <1>4, <1>5, <1>6 DEF Top

LEMMA OwnCount ==
  ASSUME ProtocolAssumption, WKBAssumption, Inv, InGeometry, Top.type # POINT
  PROVE  /\ sizePos[level] \in offsets[Len(offsets)] + 1 .. Len(values)
         /\ sizePos[level] \in 1 .. Len(values)
         /\ values[sizePos[level]] = CountWord(0)
         /\ Backpatched \in Seq(Word) /\ Len(Backpatched) = Len(values)
         /\ \A i \in 1 .. Len(values) :
              Backpatched[i] = IF i = sizePos[level]
                               THEN CountWord(size[level]) ELSE values[i]
<1>1. CountedLevel(level) /\ level \in 1 .. Depth
  <2>1. level = Depth /\ level \in 1 .. MaxLevel + 1 /\ Len(open) = level + 1
    BY OpenLevel, VisitLevel
  <2> QED
    BY <2>1 DEF CountedLevel, Top, WKBAssumption
<1>2. /\ sizePos[level] \in offsets[Len(offsets)] + 1 .. Len(values)
      /\ values[sizePos[level]] = CountWord(0)
  BY <1>1 DEF Inv, ReservedCounts
<1>3. values \in Seq(Word) /\ offsets \in Seq(Nat) /\ size[level] \in Nat
  BY OpenLevel, VisitLevel DEF Inv, TypeOK, WriterTypeOK, WKBAssumption
<1>4. offsets # << >>
  BY DEF Inv, OffsetsAscend, InGeometry, TypeOK, ProtocolTypeOK
<1>5. offsets[Len(offsets)] \in Nat
  BY <1>3, <1>4, EmptySeq
<1>6. CountWord(size[level]) \in Word
  BY <1>3, CountWordType
<1>7. sizePos[level] \in 1 .. Len(values)
  BY <1>2, <1>5, <1>3
<1> QED
  BY <1>2, <1>3, <1>6, <1>7, ExceptSeq DEF Backpatched

-----------------------------------------------------------------------------
(* Every step keeps the state of the writer well typed. *)
LEMMA TypePreserved ==
  ASSUME ProtocolAssumption, WKBAssumption, Inv, [Next]_vars
  PROVE  WriterTypeOK'
<1> USE DEF RING, GEOMETRYCOLLECTION
<1>1. /\ values \in Seq(Word) /\ offsets \in Seq(Nat)
      /\ sizePos \in [Level -> Nat] /\ size \in [Level -> Nat]
      /\ geomType \in [Level -> RING .. GEOMETRYCOLLECTION]
      /\ dimensions \in [Level -> 1 .. 4]
      /\ level \in Level /\ length \in Nat /\ nullCount \in Nat
      /\ featIsNull \in BOOLEAN
      /\ validity \in Bitmap
      /\ array \in [length : Nat, nullCount : Nat, offsets : Seq(Nat),
                    values : Seq(Word), validity : Bitmap, exact : BOOLEAN]
      /\ batches \in Nat
  BY DEF Inv, TypeOK, WriterTypeOK
<1>2. /\ Level = 0 .. MaxLevel + 1 /\ MaxLevel \in Nat
      /\ CountMod \in Nat \ {0}
  BY DEF Level, WKBAssumption
<1>3. ASSUME NEW a \in Nat
      PROVE  a % CountMod \in Nat
  BY <1>2
<1>4. Len(values) \in Nat /\ Len(offsets) \in Nat
  BY <1>1
<1>5. CASE FeatStart \/ FeatStartOverflow
  <2>1. /\ level' = 0 /\ size' = [size EXCEPT ![0] = 0]
        /\ length' = length + 1 /\ featIsNull' = FALSE
        /\ UNCHANGED << sizePos, geomType, dimensions, values, nullCount,
                       validity, array, batches >>
        /\ offsets' = Append(offsets, Len(values)) \/ offsets' = offsets
    BY <1>5 DEF FeatStart, FeatStartOverflow, feat_start_wkb, StartFeature,
       outVars
  <2>2. Append(offsets, Len(values)) \in Seq(Nat)
    BY <1>1, <1>4
  <2>3. 0 \in Level /\ size' \in [Level -> Nat] /\ length' \in Nat
    BY <1>1, <1>2, <2>1
  <2>4. offsets' \in Seq(Nat)
    BY <1>1, <2>1, <2>2
  <2> QED
    BY <1>1, <2>1, <2>3, <2>4 DEF WriterTypeOK, Level
<1>6. CASE NullFeat
  BY <1>1, <1>6
  DEF NullFeat, stackVars, bufferVars, outVars, WriterTypeOK, Level
<1>7. ASSUME NEW type \in GeomTypes, NEW dims \in Dims, GeomStart(type, dims)
      PROVE  WriterTypeOK'
  <2>1. type \in RING .. GEOMETRYCOLLECTION /\ dims \in 1 .. 4
    BY DEF ProtocolAssumption
  <2>2. level \in 0 .. MaxLevel /\ level + 1 \in Level
    BY <1>2, <1>7 DEF GeomStart, CheckLevel
  <2>3. HeadWord(type, dims) \in Word /\ CountWord(0) \in Word
    BY <2>1, WordTypes, CountWordType
  <2>4. Append(values, HeadWord(type, dims)) \in Seq(Word)
    BY <1>1, <2>3
  <2>5. << HeadWord(type, dims), CountWord(0) >> \in Seq(Word)
    BY <2>3
  <2>6. values \o << HeadWord(type, dims), CountWord(0) >> \in Seq(Word)
    BY <1>1, <2>5
  <2>7. values' \in Seq(Word)
    BY <1>7, <2>4, <2>6 DEF GeomStart
  <2>8. sizePos' \in [Level -> Nat]
    <3>1. \/ sizePos' = sizePos
          \/ sizePos' = [sizePos EXCEPT ![level + 1] = Len(values) + 2]
      BY <1>7 DEF GeomStart, Reserved
    <3>2. Len(values) + 2 \in Nat
      BY <1>4
    <3>3. [sizePos EXCEPT ![level + 1] = Len(values) + 2] \in [Level -> Nat]
      BY <1>1, <3>2
    <3> QED
      BY <1>1, <3>1, <3>3
  <2>9. size' \in [Level -> Nat]
    <3>1. size[level] + 1 \in Nat
      BY <1>1
    <3>2. (size[level] + 1) % CountMod \in Nat
      BY <1>3, <3>1
    <3>3. size' = [size EXCEPT ![level] = (size[level] + 1) % CountMod,
                               ![level + 1] = 0]
      BY <1>7 DEF GeomStart, SizeAtStart
    <3> QED
      BY <1>1, <2>2, <3>2, <3>3
  <2>10. /\ level' \in Level
         /\ geomType' \in [Level -> RING .. GEOMETRYCOLLECTION]
         /\ dimensions' \in [Level -> 1 .. 4]
    BY <1>1, <1>7, <2>1, <2>2 DEF GeomStart
  <2> QED
    BY <1>1, <1>7, <2>7, <2>8, <2>9, <2>10
    DEF GeomStart, outVars, WriterTypeOK, Level
<1>8. CASE RingStart
  <2>2. level \in 0 .. MaxLevel /\ level + 1 \in Level
    BY <1>2, <1>8 DEF RingStart, CheckLevel
  <2>3. values' \in Seq(Word)
    BY <1>1, <1>8, CountWordType DEF RingStart
  <2>4. sizePos' \in [Level -> Nat]
    BY <1>1, <1>4, <1>8, <2>2 DEF RingStart, Reserved
  <2>5. size' \in [Level -> Nat]
    <3>1. size[level] + 1 \in Nat
      BY <1>1
    <3>2. (size[level] + 1) % CountMod \in Nat
      BY <1>3, <3>1
    <3>3. size' = [size EXCEPT ![level] = (size[level] + 1) % CountMod,
                               ![level + 1] = 0]
      BY <1>8 DEF RingStart, SizeAtStart
    <3> QED
      BY <1>1, <2>2, <3>2, <3>3
  <2>6. level' \in Level /\ geomType' \in [Level -> RING .. GEOMETRYCOLLECTION]
    BY <1>1, <1>8, <2>2 DEF RingStart
  <2> QED
    BY <1>1, <1>8, <2>3, <2>4, <2>5, <2>6
    DEF RingStart, outVars, WriterTypeOK, Level
<1>9. ASSUME NEW n \in 0 .. MaxChunk, Coords(n)
      PROVE  WriterTypeOK'
  <2> DEFINE dims == nodes[Len(nodes)].dims
  <2>1. n \in Nat /\ Label \in Nat
    BY LabelType DEF ProtocolAssumption, Inv, TypeOK
  <2>2. [i \in 1 .. n |-> CoordWord(Label, dims)] \in Seq(Word)
    <3>1. CoordWord(Label, dims) \in Word
      <4> HIDE DEF dims
      <4> QED
        BY <2>1, WordTypes
    <3> HIDE DEF dims
    <3> QED
      BY <2>1, <3>1
  <2>3. values' \in Seq(Word)
    <3>1. values' = values \o [i \in 1 .. n |-> CoordWord(Label, dims)]
      BY <1>9 DEF Coords
    <3> HIDE DEF dims
    <3> QED
      BY <1>1, <2>2, <3>1
  <2>4. size' \in [Level -> Nat]
    <3>1. size[level] + n \in Nat
      BY <1>1, <2>1
    <3>2. (size[level] + n) % CountMod \in Nat
      BY <1>3, <3>1
    <3>3. size' = [size EXCEPT ![level] = (size[level] + n) % CountMod]
      BY <1>9 DEF Coords, SizeAfter
    <3> QED
      BY <1>1, <3>2, <3>3
  <2>5. UNCHANGED << sizePos, geomType, dimensions, level, offsets, length,
                     nullCount, validity, featIsNull, array, batches >>
    BY <1>9 DEF Coords, outVars
  <2> HIDE DEF dims
  <2> QED
    BY <1>1, <2>3, <2>4, <2>5 DEF WriterTypeOK, Level
<1>10. CASE RingEnd \/ GeomEnd
  <2>1. InGeometry /\ level' = level - 1
    BY <1>10 DEF RingEnd, GeomEnd, ReadRingEnd, ReadGeomEnd
  <2>2. level \in 1 .. MaxLevel + 1 /\ geomType[level] = Top.type
    BY <2>1, OpenLevel
  <2>3. values' \in Seq(Word)
    <3>1. EmptyPoint(dimensions[level]) \in Word
      BY WordTypes
    <3>2. Append(values, EmptyPoint(dimensions[level])) \in Seq(Word)
      BY <1>1, <3>1
    <3>3. CASE Top.type # POINT
      <4>1. values' = Backpatched
        BY <1>10, <2>2, <3>3 DEF RingEnd, GeomEnd, AfterGeom
      <4> QED
        BY <2>1, <3>3, <4>1, OwnCount
    <3>4. CASE Top.type = POINT
      <4>1. \/ values' = Append(values, EmptyPoint(dimensions[level]))
            \/ values' = values
        BY <1>10, <2>2, <3>4 DEF RingEnd, GeomEnd, ReadRingEnd, POINT, AfterGeom
      <4> QED
        BY <1>1, <3>2, <4>1
    <3> QED
      BY <3>3, <3>4
  <2>4. level' \in Level
    BY <1>2, <2>1, <2>2
  <2>5. UNCHANGED << sizePos, size, geomType, dimensions, offsets, length,
                     nullCount, validity, featIsNull, array, batches >>
    BY <1>10 DEF RingEnd, GeomEnd, outVars
  <2> QED
    BY <1>1, <2>3, <2>4, <2>5 DEF WriterTypeOK, Level
<1>11. CASE FeatEnd
  <2>1. validity' \in Bitmap /\ nullCount' \in Nat
    <3>1. /\ MarkNull(validity, length) \in Bitmap
          /\ MarkValid(validity) \in Bitmap
      BY <1>1, BitmapTypes
    <3> QED
      BY <1>1, <1>11, <3>1 DEF FeatEnd
  <2> QED
    BY <1>1, <1>11, <2>1 DEF FeatEnd, stackVars, outVars, WriterTypeOK, Level
<1>12. CASE ReaderFails \/ UNCHANGED vars
  BY <1>1, <1>12 DEF ReaderFails, vars, writerVars, stackVars, bufferVars,
     outVars, WriterTypeOK, Level
<1>13. CASE Finish
  <2>1. << >> \in Seq(Word) /\ << >> \in Seq(Nat) /\ NoBitmap \in Bitmap
    BY EmptySeq, NoBitmapType
  <2>2. Append(offsets, Len(values)) \in Seq(Nat)
    BY <1>1, <1>4
  <2>3. array' \in [length : Nat, nullCount : Nat, offsets : Seq(Nat),
                   values : Seq(Word), validity : Bitmap, exact : BOOLEAN]
    BY <1>1, <1>13, <2>2 DEF MoveBuffers, EmptyCounters, Finish, HandedOver
  <2>4. /\ values' = << >> /\ offsets' = << >> /\ validity' = NoBitmap
        /\ length' = 0 /\ nullCount' = 0 /\ batches' = batches + 1
        /\ UNCHANGED << sizePos, size, geomType, dimensions, level,
                       featIsNull >>
    BY <1>13 DEF MoveBuffers, EmptyCounters, Finish, stackVars
  <2>5. /\ values' \in Seq(Word) /\ offsets' \in Seq(Nat)
        /\ validity' \in Bitmap /\ length' \in Nat /\ nullCount' \in Nat
        /\ batches' \in Nat
    BY <1>1, <2>1, <2>4
  <2> QED
    BY <1>1, <2>3, <2>4, <2>5 DEF WriterTypeOK, Level
<1> QED
  BY <1>5, <1>6, <1>7, <1>8, <1>9, <1>10, <1>11, <1>12, <1>13 DEF Next

-----------------------------------------------------------------------------
(* Every step keeps the levels of the writer and the visit in agreement. *)
LEMMA LevelsPreserved ==
  ASSUME ProtocolAssumption, WKBAssumption, Inv, [Next]_vars
  PROVE  LevelsTrackVisit'
<1>1. /\ size \in [Level -> Nat] /\ level \in Level
      /\ geomType \in [Level -> RING .. GEOMETRYCOLLECTION]
      /\ ProtocolTypeOK
  BY DEF Inv, TypeOK, WriterTypeOK
<1>2. /\ Level = 0 .. MaxLevel + 1 /\ MaxLevel \in Nat
      /\ CountMod \in Nat \ {0} /\ 0 % CountMod = 0
  BY ModZero DEF Level, WKBAssumption
<1>3. CASE FeatStart
  <2>1. /\ open' = << Frame(FEATURE) >> /\ level' = 0 /\ featIsNull' = FALSE
        /\ size' = [size EXCEPT ![0] = 0]
    BY <1>3 DEF FeatStart, ReadFeatStart, feat_start_wkb, StartFeature
  <2> QED
    BY <1>1, <1>2, <2>1
    DEF LevelsTrackVisit, Depth, Top, Frame, FEATURE, NULLFEATURE
<1>4. CASE NullFeat
  <2>1. /\ open = << Frame(FEATURE) >> /\ open' = << Frame(NULLFEATURE) >>
        /\ featIsNull' = TRUE /\ UNCHANGED << size, level >>
    BY <1>4 DEF NullFeat, ReadNullFeat, stackVars
  <2>2. level = 0 /\ size[0] = 0
    <3>1. open # << >> /\ Len(open) = 1 /\ open[1].n = 0
      BY <2>1 DEF Frame
    <3> QED
      BY <1>2, <3>1 DEF Inv, LevelsTrackVisit, Depth
  <2> QED
    BY <1>2, <2>1, <2>2 DEF LevelsTrackVisit, Depth, Top, Frame, NULLFEATURE
<1>5. ASSUME NEW type \in RING .. GEOMETRYCOLLECTION, NEW dims,
             ReadPartStart(type, dims), open # << >>, Top.type # NULLFEATURE,
             level' = level + 1, CheckLevel,
             size' = [size EXCEPT ![level] = (@ + 1) % CountMod,
                                  ![level + 1] = 0],
             geomType' = [geomType EXCEPT ![level + 1] = type],
             featIsNull' = featIsNull
      PROVE  LevelsTrackVisit'
  <2>1. /\ level = Depth /\ level \in 0 .. MaxLevel /\ Len(open) = level + 1
        /\ Top.n \in Nat /\ size[level] = Top.n % CountMod
        /\ Len(open) \in Nat /\ Top.n = open[Len(open)].n
    BY <1>5, VisitLevel DEF CheckLevel
  <2>2. /\ Len(open') = Len(open) + 1 /\ open'[Len(open) + 1] = Frame(type)
        /\ \A i \in 1 .. Len(open) :
             /\ open'[i].type = open[i].type
             /\ open'[i].n = IF i = Len(open) THEN open[i].n + 1
                                              ELSE open[i].n
    BY <1>1, <1>5, StackPushed
  <2>3. level' = Depth' /\ (Top.type = NULLFEATURE <=> featIsNull)'
    <3>1. ~featIsNull
      BY <1>5 DEF Inv, LevelsTrackVisit
    <3>2. open'[Len(open')].type # NULLFEATURE
      BY <2>1, <2>2 DEF Frame, NULLFEATURE, RING, GEOMETRYCOLLECTION
    <3> QED
      BY <1>5, <2>1, <2>2, <3>1, <3>2 DEF Depth, Top
  <2>4. ASSUME NEW i \in 1 .. Len(open')
        PROVE  size'[i - 1] = open'[i].n % CountMod
    <3>1. CASE i = Len(open) + 1
      <4>1. size'[level + 1] = 0
        BY <1>1, <1>2, <1>5, <2>1
      <4>2. i - 1 = level + 1 /\ open'[i].n = 0
        BY <2>1, <2>2, <3>1 DEF Frame
      <4> QED
        BY <1>2, <4>1, <4>2
    <3>2. CASE i = Len(open)
      <4>1. size'[level] = (size[level] + 1) % CountMod
        BY <1>1, <1>2, <1>5, <2>1
      <4>2. ((Top.n % CountMod) + 1) % CountMod = (Top.n + 1) % CountMod
        <5>1. Top.n \in Nat /\ 1 \in Nat /\ CountMod \in Nat \ {0}
          BY <1>2, <2>1
        <5> QED
          BY <5>1, ModAdd, Zenon
      <4>3. i - 1 = level /\ open'[i].n = Top.n + 1
        BY <2>1, <2>2, <3>2
      <4> QED
        BY <2>1, <4>1, <4>2, <4>3
    <3>3. CASE i < Len(open)
      <4>1. i \in 1 .. Len(open) /\ i - 1 \in 0 .. level - 1
        BY <2>1, <3>3
      <4>2. size'[i - 1] = size[i - 1]
        BY <1>1, <1>2, <1>5, <2>1, <4>1
      <4>3. size[i - 1] = open[i].n % CountMod
        BY <1>5, <4>1 DEF Inv, LevelsTrackVisit
      <4>4. open'[i].n = open[i].n
        BY <2>2, <3>3, <4>1
      <4> QED
        BY <4>2, <4>3, <4>4
    <3> QED
      BY <2>1, <2>2, <3>1, <3>2, <3>3
  <2>5. ASSUME NEW i \in 2 .. Len(open')
        PROVE  geomType'[i - 1] = open'[i].type
    <3>1. CASE i = Len(open) + 1
      <4>1. geomType'[level + 1] = type
        BY <1>1, <1>2, <1>5, <2>1
      <4>2. i - 1 = level + 1 /\ open'[i].type = type
        BY <2>1, <2>2, <3>1 DEF Frame
      <4> QED
        BY <4>1, <4>2
    <3>2. CASE i < Len(open) + 1
      <4>1. i \in 2 .. Len(open) /\ i - 1 \in 1 .. level
        BY <2>1, <3>2
      <4>2. geomType'[i - 1] = geomType[i - 1]
        BY <1>1, <1>2, <1>5, <2>1, <4>1
      <4>3. geomType[i - 1] = open[i].type
        BY <1>5, <4>1 DEF Inv, LevelsTrackVisit
      <4>4. open'[i].type = open[i].type
        BY <2>1, <2>2, <4>1
      <4> QED
        BY <4>2, <4>3, <4>4
    <3> QED
      BY <2>1, <2>2, <3>1, <3>2
  <2> QED
    BY <2>3, <2>4, <2>5 DEF LevelsTrackVisit
<1>6. ASSUME NEW type \in GeomTypes, NEW dims \in Dims, GeomStart(type, dims)
      PROVE  LevelsTrackVisit'
  <2>1. type \in RING .. GEOMETRYCOLLECTION
    BY DEF ProtocolAssumption, RING, GEOMETRYCOLLECTION
  <2>2. open # << >> /\ type \in MayContain(Top.type)
    BY <1>6 DEF GeomStart, ReadGeomStart, Idle
  <2>3. Top.type # NULLFEATURE
    BY <2>2 DEF MayContain, Containers, NULLFEATURE, MULTIPOINT, MULTILINESTRING,
       MULTIPOLYGON, GEOMETRYCOLLECTION, FEATURE
  <2> QED
    BY <1>5, <1>6, <2>1, <2>2, <2>3 DEF GeomStart, ReadGeomStart, SizeAtStart
<1>7. CASE RingStart
  <2>1. /\ RING \in RING .. GEOMETRYCOLLECTION /\ open # << >>
        /\ Top.type # NULLFEATURE
    BY <1>7, OpenLevel DEF RingStart, ReadRingStart, POLYGON, NULLFEATURE,
       RING, GEOMETRYCOLLECTION
  <2> QED
    BY <1>5, <1>7, <2>1 DEF RingStart, ReadRingStart, SizeAtStart
<1>8. ASSUME NEW n \in 0 .. MaxChunk, Coords(n)
      PROVE  LevelsTrackVisit'
  <2>1. /\ open # << >> /\ n \in Nat /\ open' = Counted(n)
        /\ size' = [size EXCEPT ![level] = (size[level] + n) % CountMod]
        /\ UNCHANGED << level, geomType, featIsNull >>
    <3>1. n \in Nat
      BY DEF ProtocolAssumption
    <3>2. InGeometry /\ open' = Counted(n)
      BY <1>8 DEF Coords, ReadCoords
    <3>3. /\ size' = [size EXCEPT ![level] = (size[level] + n) % CountMod]
          /\ UNCHANGED << level, geomType, featIsNull >>
      BY <1>8 DEF Coords, SizeAfter
    <3> QED
      BY <3>1, <3>2, <3>3, OpenLevel
  <2>2. /\ level = Depth /\ level \in 0 .. MaxLevel + 1
        /\ Len(open) = level + 1 /\ Len(open) \in Nat
        /\ Top.n \in Nat /\ size[level] = Top.n % CountMod
        /\ Top.n = open[Len(open)].n
    BY <2>1, VisitLevel
  <2>3. /\ Len(open') = Len(open)
        /\ \A i \in 1 .. Len(open) :
             /\ open'[i].type = open[i].type
             /\ open'[i].n = IF i = Len(open) THEN open[i].n + n
                                              ELSE open[i].n
    BY <1>1, <2>1, CountedType
  <2>4. /\ level = Depth
        /\ Top.type = NULLFEATURE <=> featIsNull
        /\ \A i \in 1 .. Len(open) : size[i - 1] = open[i].n % CountMod
        /\ \A i \in 2 .. Len(open) : geomType[i - 1] = open[i].type
    BY <2>1 DEF Inv, LevelsTrackVisit
  <2>5. ASSUME NEW i \in 1 .. Len(open')
        PROVE  size'[i - 1] = open'[i].n % CountMod
    <3>1. CASE i = Len(open)
      <4>1. size'[level] = (size[level] + n) % CountMod
        BY <1>1, <1>2, <2>1, <2>2
      <4>2. ((Top.n % CountMod) + n) % CountMod = (Top.n + n) % CountMod
        BY <1>2, <2>1, <2>2, ModAdd
      <4>3. i - 1 = level /\ open'[i].n = Top.n + n
        BY <2>2, <2>3, <3>1
      <4> QED
        BY <2>2, <4>1, <4>2, <4>3
    <3>2. CASE i < Len(open)
      <4>1. i \in 1 .. Len(open) /\ i - 1 \in 0 .. level - 1
        BY <2>2, <3>2
      <4>2. size'[i - 1] = size[i - 1]
        BY <1>1, <1>2, <2>1, <2>2, <4>1
      <4> QED
        BY <2>3, <2>4, <3>2, <4>1, <4>2
    <3> QED
      BY <2>2, <2>3, <3>1, <3>2
  <2>6. Depth' = Depth /\ Top'.type = Top.type
    BY <2>2, <2>3 DEF Depth, Top
  <2>7. \A i \in 2 .. Len(open') : geomType'[i - 1] = open'[i].type
    BY <2>1, <2>2, <2>3, <2>4
  <2> QED
    BY <2>1, <2>4, <2>5, <2>6, <2>7 DEF LevelsTrackVisit
<1>9. CASE RingEnd \/ GeomEnd
  <2>1. /\ InGeometry /\ level' = level - 1 /\ ReadPartEnd
        /\ UNCHANGED << size, geomType, featIsNull >>
    BY <1>9 DEF RingEnd, GeomEnd, ReadRingEnd, ReadGeomEnd
  <2>2. open # << >> /\ level \in 1 .. MaxLevel + 1 /\ ~featIsNull
    BY <2>1, OpenLevel
  <2>3. level = Depth /\ Len(open) = level + 1
    BY <2>2, VisitLevel
  <2>4. /\ Len(open') = Len(open) - 1
        /\ \A i \in 1 .. Len(open) - 1 : open'[i] = open[i]
    BY <1>1, <2>1, StackPopped
  <2>5. /\ \A i \in 1 .. Len(open) : size[i - 1] = open[i].n % CountMod
        /\ \A i \in 2 .. Len(open) : geomType[i - 1] = open[i].type
    BY <2>2 DEF Inv, LevelsTrackVisit
  <2>6. level' = Depth'
    BY <1>2, <2>1, <2>2, <2>3, <2>4 DEF Depth
  <2>7. Top'.type # NULLFEATURE
    BY <1>2, <2>1, <2>2, <2>3, <2>4
    DEF Top, Inv, Nesting, NULLFEATURE, FEATURE, RING, GEOMETRYCOLLECTION
  <2>8. /\ \A i \in 1 .. Len(open') : size'[i - 1] = open'[i].n % CountMod
        /\ \A i \in 2 .. Len(open') : geomType'[i - 1] = open'[i].type
    BY <1>2, <2>1, <2>2, <2>3, <2>4, <2>5
  <2> QED
    BY <2>1, <2>2, <2>6, <2>7, <2>8 DEF LevelsTrackVisit
<1>10. CASE FeatEnd \/ FeatStartOverflow \/ ReaderFails
  BY <1>10 DEF FeatEnd, ReadFeatEnd, FeatStartOverflow, ReaderFails, Abandon,
     LevelsTrackVisit
<1>11. CASE Finish
  BY <1>11 DEF Finish, BatchDone, Idle, LevelsTrackVisit
<1>12. CASE UNCHANGED vars
  BY <1>12 DEF Inv, LevelsTrackVisit, Top, Depth, vars, protocolVars,
     writerVars, stackVars
<1> QED
  BY <1>3, <1>4, <1>6, <1>7, <1>8, <1>9, <1>10, <1>11, <1>12 DEF Next

-----------------------------------------------------------------------------
(* A call leaves every word alone, but for the one count it fills in. *)
LEMMA WordsKeptByCalls ==
  ASSUME ProtocolAssumption, WKBAssumption, Inv, [Next]_vars, ~Finish
  PROVE  WordsKept
<1>1. /\ values \in Seq(Word) /\ Len(values) \in Nat
  BY DEF Inv, TypeOK, WriterTypeOK
<1>2. CASE UNCHANGED values
  BY <1>1, <1>2 DEF WordsKept
<1>3. ASSUME NEW tail \in Seq(Word), values' = values \o tail
      PROVE  WordsKept
  BY <1>1, <1>3 DEF WordsKept
<1>4. ASSUME NEW word \in Word, values' = Append(values, word)
      PROVE  WordsKept
  BY <1>1, <1>4 DEF WordsKept
<1>5. ASSUME NEW type \in GeomTypes, NEW dims \in Dims, GeomStart(type, dims)
      PROVE  WordsKept
  <2>1. HeadWord(type, dims) \in Word /\ CountWord(0) \in Word
    BY WordTypes, CountWordType DEF ProtocolAssumption
  <2>2. << HeadWord(type, dims), CountWord(0) >> \in Seq(Word)
    BY <2>1
  <2>3. \/ values' = Append(values, HeadWord(type, dims))
        \/ values' = values \o << HeadWord(type, dims), CountWord(0) >>
    BY <1>5 DEF GeomStart
  <2> QED
    BY <1>3, <1>4, <2>1, <2>2, <2>3
<1>6. CASE RingStart
  BY <1>4, <1>6, CountWordType DEF RingStart
<1>7. ASSUME NEW n \in 0 .. MaxChunk, Coords(n)
      PROVE  WordsKept
  <2> DEFINE dims == nodes[Len(nodes)].dims
  <2>1. n \in Nat /\ Label \in Nat
    BY LabelType DEF ProtocolAssumption, Inv, TypeOK
  <2>2. CoordWord(Label, dims) \in Word
    <3> HIDE DEF dims
    <3> QED
      BY <2>1, WordTypes
  <2>3. values' = values \o [i \in 1 .. n |-> CoordWord(Label, dims)]
    BY <1>7 DEF Coords
  <2> HIDE DEF dims
  <2>4. [i \in 1 .. n |-> CoordWord(Label, dims)] \in Seq(Word)
    BY <2>1, <2>2
  <2> QED
    BY <1>3, <2>3, <2>4
<1>8. CASE RingEnd \/ GeomEnd
  <2>1. InGeometry
    BY <1>8 DEF RingEnd, GeomEnd, ReadRingEnd, ReadGeomEnd
  <2>2. /\ open # << >> /\ geomType[level] = Top.type
        /\ size[level] \in 0 .. CountMod - 1
    BY <2>1, OpenLevel, VisitLevel
  <2>3. CASE Top.type # POINT
    <3>1. values' = Backpatched
      BY <1>8, <2>2, <2>3 DEF RingEnd, GeomEnd, AfterGeom
    <3> QED
      BY <1>1, <2>1, <2>2, <2>3, <3>1, OwnCount DEF WordsKept
  <2>4. CASE Top.type = POINT
    <3>1. \/ values' = Append(values, EmptyPoint(dimensions[level]))
          \/ values' = values
      BY <1>8, <2>2, <2>4
      DEF RingEnd, GeomEnd, ReadRingEnd, POINT, RING, AfterGeom
    <3>2. EmptyPoint(dimensions[level]) \in Word
      BY WordTypes
    <3> QED
      BY <1>2, <1>4, <3>1, <3>2
  <2> QED
    BY <2>3, <2>4
<1>9. CASE FeatStart \/ FeatStartOverflow \/ NullFeat \/ FeatEnd
           \/ ReaderFails \/ UNCHANGED vars
  BY <1>2, <1>9 DEF FeatStart, FeatStartOverflow, feat_start_wkb, StartFeature,
     NullFeat,
     FeatEnd, ReaderFails, vars, writerVars, bufferVars
<1> QED
  BY <1>5, <1>6, <1>7, <1>8, <1>9 DEF Next

(* A call counts one feature more or none. *)
LEMMA LengthGrows ==
  ASSUME [Next]_vars, ~FeatStart, ~Finish
  PROVE  length' = length \/ length' = length + 1
<1>1. CASE FeatStartOverflow
  BY <1>1 DEF FeatStartOverflow, feat_start_wkb, StartFeature
<1>2. CASE ReaderFails \/ UNCHANGED vars
  BY <1>2 DEF ReaderFails, vars, writerVars, bufferVars
<1> QED
  BY <1>1, <1>2
  DEF Next, NullFeat, GeomStart, RingStart, Coords, RingEnd, GeomEnd,
      FeatEnd, bufferVars

(* Every step keeps the offsets ascending and inside the values. *)
LEMMA OffsetsPreserved ==
  ASSUME ProtocolAssumption, WKBAssumption, Inv, [Next]_vars
  PROVE  OffsetsAscend'
<1>1. /\ values \in Seq(Word) /\ Len(values) \in Nat
      /\ offsets \in Seq(Nat) /\ Len(offsets) \in Nat
      /\ OffsetsAscend
  BY DEF Inv, TypeOK, WriterTypeOK
<1>2. CASE FeatStart
  <2>1. offsets' = Append(offsets, Len(values)) /\ values' = values
    BY <1>2 DEF FeatStart, feat_start_wkb, StartFeature
  <2>2. /\ Len(offsets') = Len(offsets) + 1 /\ offsets' \in Seq(Nat)
        /\ offsets'[Len(offsets) + 1] = Len(values)
        /\ \A i \in 1 .. Len(offsets) : offsets'[i] = offsets[i]
    BY <1>1, <2>1
  <2>3. offsets' # << >>
    BY <1>1, <2>2
  <2>4. offsets'[1] = 0
    <3>1. CASE offsets = << >>
      <4>1. Len(values) = 0 /\ Len(offsets) = 0
        BY <1>1, <3>1, EmptySeq DEF OffsetsAscend
      <4> QED
        BY <2>2, <4>1
    <3>2. CASE offsets # << >>
      <4>1. Len(offsets) \in Nat \ {0} /\ offsets[1] = 0
        BY <1>1, <3>2, EmptySeq DEF OffsetsAscend
      <4> QED
        BY <2>2, <4>1
    <3> QED
      BY <3>1, <3>2
  <2>5. ASSUME NEW i \in 1 .. Len(offsets') - 1
        PROVE  offsets'[i] <= offsets'[i + 1]
    <3>1. CASE i < Len(offsets)
      <4>1. i \in 1 .. Len(offsets) - 1 /\ i + 1 \in 1 .. Len(offsets)
        BY <1>1, <2>2, <3>1
      <4>2. offsets[i] <= offsets[i + 1]
        BY <1>1, <4>1 DEF OffsetsAscend
      <4> QED
        BY <2>2, <4>1, <4>2
    <3>2. CASE i = Len(offsets)
      <4>1. offsets # << >> /\ offsets[Len(offsets)] <= Len(values)
        BY <1>1, <2>5, <3>2, EmptySeq DEF OffsetsAscend
      <4> QED
        BY <1>1, <2>2, <3>2, <4>1
    <3> QED
      BY <1>1, <2>2, <3>1, <3>2
  <2>6. \A i \in 1 .. Len(offsets') : offsets'[i] <= Len(values')
    <3>1. \A i \in 1 .. Len(offsets) : offsets[i] <= Len(values)
      BY <1>1 DEF OffsetsAscend
    <3> QED
      BY <1>1, <2>1, <2>2, <3>1
  <2>7. length' > 0
    BY <1>2 DEF FeatStart, feat_start_wkb, StartFeature, Inv, TypeOK, WriterTypeOK
  <2> QED
    BY <2>3, <2>4, <2>5, <2>6, <2>7 DEF OffsetsAscend
<1>3. CASE Finish
  <2>1. /\ values' = << >> /\ offsets' = << >> /\ open' = << >>
        /\ length' = 0 /\ Len(offsets') = 0
    BY <1>3, EmptySeq
    DEF MoveBuffers, EmptyCounters, Finish, BatchDone, Idle
  <2> QED
    BY <2>1 DEF OffsetsAscend
<1>4. CASE ~FeatStart /\ ~Finish
  <2>1. offsets' = offsets /\ (open' # << >> => open # << >>)
    <3>1. ASSUME NEW n, ReadCoords(n)
          PROVE  open # << >>
      BY <3>1, OpenLevel DEF ReadCoords
    <3>2. CASE FeatStartOverflow \/ NullFeat \/ FeatEnd \/ ReaderFails
               \/ UNCHANGED vars
      BY <1>4, <3>2
      DEF FeatStartOverflow, NullFeat, ReadNullFeat, FeatEnd, ReadFeatEnd,
          ReaderFails, Abandon, vars, protocolVars, writerVars, bufferVars,
          Frame
    <3>3. CASE RingStart \/ RingEnd \/ GeomEnd
      BY <3>3, OpenLevel
      DEF RingStart, ReadRingStart, RingEnd, GeomEnd, ReadRingEnd, ReadGeomEnd
    <3>4. ASSUME NEW type, NEW dims, GeomStart(type, dims)
          PROVE  offsets' = offsets /\ open # << >>
      BY <3>4 DEF GeomStart, ReadGeomStart, Idle
    <3>5. ASSUME NEW n, Coords(n)
          PROVE  offsets' = offsets /\ open # << >>
      BY <3>1, <3>5 DEF Coords
    <3> QED
      BY <1>4, <3>2, <3>3, <3>4, <3>5 DEF Next
  <2>2. Len(values) <= Len(values') /\ Len(values') \in Nat
    BY <1>4, WordsKeptByCalls, TypePreserved DEF WordsKept, WriterTypeOK
  <2>3. open' # << >> => length' > 0
    <3>1. length \in Nat /\ (open # << >> => length > 0)
      BY <1>1 DEF OffsetsAscend, Inv, TypeOK, WriterTypeOK
    <3>2. length' = length \/ length' = length + 1
      BY <1>4, LengthGrows
    <3> QED
      BY <2>1, <3>1, <3>2
  <2>4. CASE offsets = << >>
    <3>1. open = << >> /\ values = << >>
      BY <1>1, <2>4 DEF OffsetsAscend
    <3>2. values' = values
      BY <1>4, <3>1
      DEF Next, FeatStartOverflow, feat_start_wkb, StartFeature, NullFeat,
          ReadNullFeat,
          GeomStart, ReadGeomStart, Idle, RingStart, ReadRingStart, Coords,
          ReadCoords, RingEnd, GeomEnd, ReadRingEnd, ReadGeomEnd, FeatEnd,
          ReaderFails, InGeometry, vars, writerVars, bufferVars
    <3> QED
      BY <1>1, <2>1, <2>3, <2>4, <3>1, <3>2 DEF OffsetsAscend
  <2>5. CASE offsets # << >>
    <3>1. \A i \in 1 .. Len(offsets) : offsets[i] <= Len(values')
      <4>1. \A i \in 1 .. Len(offsets) :
              offsets[i] \in Nat /\ offsets[i] <= Len(values)
        BY <1>1 DEF OffsetsAscend
      <4> QED
        BY <1>1, <2>2, <4>1
    <3> QED
      BY <1>1, <2>1, <2>3, <2>5, <3>1 DEF OffsetsAscend
  <2> QED
    BY <2>4, <2>5
<1> QED
  BY <1>2, <1>3, <1>4

-----------------------------------------------------------------------------
(* What ReservedCounts says of one level, for a given state of its count. *)
LEMMA ReservedLevel ==
  ASSUME ProtocolAssumption, WKBAssumption, Inv, InGeometry,
         NEW l \in 1 .. Depth, CountedLevel(l)
  PROVE  /\ offsets # << >> /\ offsets[Len(offsets)] \in Nat
         /\ sizePos[l] \in Int
         /\ sizePos[l] \in offsets[Len(offsets)] + 1 .. Len(values)
         /\ sizePos[l] \in 1 .. Len(values)
         /\ values[sizePos[l]] = CountWord(0)
         /\ \A k \in 1 .. l - 1 : CountedLevel(k) => sizePos[k] < sizePos[l]
<1>1. open # << >> /\ offsets \in Seq(Nat) /\ values \in Seq(Word)
  BY OpenLevel DEF Inv, TypeOK, WriterTypeOK
<1>2. offsets # << >> /\ offsets[Len(offsets)] \in Nat
  BY <1>1, EmptySeq DEF Inv, OffsetsAscend
<1>3. /\ sizePos[l] \in offsets[Len(offsets)] + 1 .. Len(values)
      /\ values[sizePos[l]] = CountWord(0)
      /\ \A k \in 1 .. l - 1 : CountedLevel(k) => sizePos[k] < sizePos[l]
  BY DEF Inv, ReservedCounts
<1>4. sizePos[l] \in 1 .. Len(values) /\ Len(values) \in Nat
  BY <1>1, <1>2, <1>3
<1> QED
  BY <1>2, <1>3, <1>4

(* Every step keeps the reserved counts of the open levels. *)
LEMMA ReservedPreserved ==
  ASSUME ProtocolAssumption, WKBAssumption, Inv, [Next]_vars
  PROVE  ReservedCounts'
<1> USE DEF CountedLevel
<1>1. /\ values \in Seq(Word) /\ Len(values) \in Nat
      /\ sizePos \in [Level -> Nat] /\ Level = 0 .. MaxLevel + 1
      /\ MaxLevel \in Nat /\ ProtocolTypeOK
      /\ values' \in Seq(Word) /\ Len(values') \in Nat
  <2>1. WriterTypeOK /\ WriterTypeOK'
    BY TypePreserved DEF Inv, TypeOK
  <2>2. values' \in Seq(Word) /\ Len(values') \in Nat
    BY <2>1 DEF WriterTypeOK
  <2>3. values \in Seq(Word) /\ sizePos \in [Level -> Nat]
    BY <2>1 DEF WriterTypeOK
  <2>4. Level = 0 .. MaxLevel + 1 /\ MaxLevel \in Nat /\ ProtocolTypeOK
    BY DEF Inv, TypeOK, Level, WKBAssumption
  <2> QED
    BY <2>2, <2>3, <2>4
(* A geometry or ring is started: what was reserved stays, and the new     *)
(* level, if it has a count, reserves the last word.                       *)
<1>2. ASSUME NEW type \in RING .. GEOMETRYCOLLECTION, NEW dims,
             ReadPartStart(type, dims), open # << >>, CheckLevel,
             UNCHANGED offsets, Len(values) < Len(values'),
             \A i \in 1 .. Len(values) : values'[i] = values[i],
             type # POINT =>
               /\ sizePos' = [sizePos EXCEPT ![level + 1] = Len(values')]
               /\ values'[Len(values')] = CountWord(0),
             type = POINT => sizePos' = sizePos
      PROVE  ReservedCounts'
  <2>1. /\ level = Depth /\ level \in 0 .. MaxLevel /\ Len(open) = level + 1
        /\ Len(open) \in Nat
    BY <1>2, VisitLevel DEF CheckLevel
  <2>2. /\ Len(open') = Len(open) + 1 /\ open'[Len(open) + 1].type = type
        /\ \A i \in 1 .. Len(open) : open'[i].type = open[i].type
    <3>1. Frame(type).type = type
      BY DEF Frame
    <3> QED
      BY <1>1, <1>2, <3>1, StackPushed
  <2>3. ASSUME NEW l \in 1 .. Depth, CountedLevel(l)'
        PROVE  /\ CountedLevel(l) /\ InGeometry /\ sizePos'[l] = sizePos[l]
               /\ sizePos'[l] \in offsets'[Len(offsets')] + 1 .. Len(values)
               /\ values'[sizePos'[l]] = CountWord(0)
               /\ \A k \in 1 .. l - 1 :
                    CountedLevel(k)' => sizePos'[k] < sizePos'[l]
    <3>1. /\ l + 1 \in 1 .. Len(open) /\ l # level + 1 /\ l \in Level
          /\ l \in Nat /\ InGeometry
      BY <1>1, <2>1, <2>3 DEF InGeometry
    <3>2. CountedLevel(l) /\ sizePos'[l] = sizePos[l]
      BY <1>1, <1>2, <2>2, <2>3, <3>1
    <3>3. ASSUME NEW k \in 1 .. l - 1, CountedLevel(k)'
          PROVE  sizePos'[k] < sizePos'[l]
      <4>1. k + 1 \in 1 .. Len(open) /\ k # level + 1 /\ k \in Level
        BY <1>1, <2>1, <3>1
      <4>2. CountedLevel(k) /\ sizePos'[k] = sizePos[k]
        BY <1>1, <1>2, <2>2, <3>3, <4>1
      <4> QED
        BY <3>1, <3>2, <4>2, ReservedLevel
    <3>4. /\ sizePos[l] \in offsets[Len(offsets)] + 1 .. Len(values)
          /\ sizePos[l] \in 1 .. Len(values)
          /\ values[sizePos[l]] = CountWord(0)
      BY <3>1, <3>2, ReservedLevel
    <3> QED
      BY <1>2, <3>1, <3>2, <3>3, <3>4
  <2>4. ASSUME type # POINT
        PROVE  /\ sizePos'[level + 1] = Len(values')
               /\ offsets[Len(offsets)] + 1 <= Len(values')
               /\ offsets[Len(offsets)] \in Nat
    <3>1. offsets # << >> /\ offsets \in Seq(Nat)
      BY <1>2 DEF Inv, OffsetsAscend, TypeOK, WriterTypeOK
    <3>2. offsets[Len(offsets)] \in Nat /\ Len(offsets) \in 1 .. Len(offsets)
      BY <3>1, EmptySeq
    <3>3. offsets[Len(offsets)] <= Len(values)
      BY <3>2 DEF Inv, OffsetsAscend
    <3> QED
      BY <1>1, <1>2, <2>1, <2>4, <3>2, <3>3
  <2>5. ASSUME NEW l \in 1 .. Depth', CountedLevel(l)'
        PROVE  /\ sizePos'[l] \in offsets'[Len(offsets')] + 1 .. Len(values')
               /\ values'[sizePos'[l]] = CountWord(0)
               /\ \A k \in 1 .. l - 1 :
                    CountedLevel(k)' => sizePos'[k] < sizePos'[l]
    <3>1. Depth' = Depth + 1 /\ Depth \in Nat
      BY <2>1, <2>2 DEF Depth
    <3>2. CASE l \in 1 .. Depth
      <4>1. /\ sizePos'[l] \in offsets'[Len(offsets')] + 1 .. Len(values)
            /\ values'[sizePos'[l]] = CountWord(0)
            /\ \A k \in 1 .. l - 1 :
                    CountedLevel(k)' => sizePos'[k] < sizePos'[l]
        BY <2>3, <2>5, <3>2
      <4>2. offsets'[Len(offsets')] = offsets[Len(offsets)] /\ InGeometry
        BY <1>2, <2>3, <2>5, <3>2
      <4>3. offsets[Len(offsets)] \in Nat
        BY <2>3, <2>5, <3>2, <4>2, ReservedLevel
      <4> QED
        BY <1>1, <1>2, <4>1, <4>2, <4>3
    <3>3. CASE l = Depth + 1
      <4>1. type # POINT /\ l = level + 1
        BY <2>1, <2>2, <2>5, <3>3
      <4>2. sizePos'[l] = Len(values') /\ values'[sizePos'[l]] = CountWord(0)
        BY <1>2, <2>4, <4>1
      <4>3. ASSUME NEW k \in 1 .. l - 1, CountedLevel(k)'
            PROVE  sizePos'[k] < sizePos'[l]
        <5>1. k \in 1 .. Depth
          BY <3>1, <3>3
        <5>2. /\ CountedLevel(k) /\ InGeometry
              /\ sizePos'[k] = sizePos[k]
          BY <2>3, <4>3, <5>1
        <5>3. sizePos[k] \in 1 .. Len(values)
          BY <5>1, <5>2, ReservedLevel
        <5>4. sizePos'[k] \in 1 .. Len(values) /\ Len(values) < Len(values')
          BY <1>2, <5>2, <5>3
        <5> QED
          BY <1>1, <4>2, <5>4
      <4>4. sizePos'[l] \in offsets'[Len(offsets')] + 1 .. Len(values')
        BY <1>1, <1>2, <2>4, <4>1, <4>2
      <4> QED
        BY <4>2, <4>3, <4>4
    <3> QED
      BY <3>1, <3>2, <3>3
  <2> QED
    BY <2>5 DEF ReservedCounts
<1>3. ASSUME NEW type \in GeomTypes, NEW dims \in Dims, GeomStart(type, dims)
      PROVE  ReservedCounts'
  <2>1. type \in RING .. GEOMETRYCOLLECTION
    BY DEF ProtocolAssumption, RING, GEOMETRYCOLLECTION
  <2>2. /\ open # << >> /\ ReadPartStart(type, dims) /\ CheckLevel
        /\ UNCHANGED offsets
    BY <1>3 DEF GeomStart, ReadGeomStart, Idle
  <2>3. HeadWord(type, dims) \in Word /\ CountWord(0) \in Word
    BY WordTypes, CountWordType DEF ProtocolAssumption
  <2>4. CASE type = POINT
    <3>1. values' = Append(values, HeadWord(type, dims)) /\ sizePos' = sizePos
      BY <1>3, <2>4 DEF GeomStart
    <3> QED
      BY <1>1, <1>2, <2>1, <2>2, <2>3, <2>4, <3>1
  <2>5. CASE type # POINT
    <3>1. /\ values' = values \o << HeadWord(type, dims), CountWord(0) >>
          /\ sizePos' = [sizePos EXCEPT ![level + 1] = Len(values) + 2]
      BY <1>3, <2>5 DEF GeomStart, Reserved
    <3>2. << HeadWord(type, dims), CountWord(0) >> \in Seq(Word)
      BY <2>3
    <3>3. /\ Len(values') = Len(values) + 2
          /\ values'[Len(values) + 2] = CountWord(0)
          /\ \A i \in 1 .. Len(values) : values'[i] = values[i]
      BY <1>1, <3>1, <3>2
    <3> QED
      BY <1>1, <1>2, <2>1, <2>2, <2>5, <3>1, <3>3
  <2> QED
    BY <2>4, <2>5
<1>4. CASE RingStart
  <2>1. RING \in RING .. GEOMETRYCOLLECTION /\ RING # POINT
    BY DEF RING, GEOMETRYCOLLECTION, POINT
  <2>2. /\ open # << >> /\ ReadPartStart(RING, nodes[Len(nodes)].dims)
        /\ CheckLevel /\ UNCHANGED offsets
        /\ values' = Append(values, CountWord(0))
        /\ sizePos' = [sizePos EXCEPT ![level + 1] = Len(values) + 1]
    BY <1>4, OpenLevel DEF RingStart, ReadRingStart, Reserved
  <2>3. /\ Len(values') = Len(values) + 1
        /\ values'[Len(values) + 1] = CountWord(0)
        /\ \A i \in 1 .. Len(values) : values'[i] = values[i]
    BY <1>1, <2>2, CountWordType
  <2> QED
    BY <1>1, <1>2, <2>1, <2>2, <2>3
(* Words are appended, or the count of the level that ends is filled in.   *)
<1>5. ASSUME InGeometry, UNCHANGED << sizePos, offsets >>,
             NEW d \in 0 .. Depth, Depth' = d,
             \A l \in 1 .. d : CountedLevel(l)' <=> CountedLevel(l),
             Len(values) <= Len(values'),
             \A l \in 1 .. d :
               CountedLevel(l) => values'[sizePos[l]] = values[sizePos[l]]
      PROVE  ReservedCounts'
  <2>1. Depth \in Nat
    BY <1>5, OpenLevel, VisitLevel
  <2>2. ASSUME NEW l \in 1 .. Depth', CountedLevel(l)'
        PROVE  /\ sizePos'[l] \in offsets'[Len(offsets')] + 1 .. Len(values')
               /\ values'[sizePos'[l]] = CountWord(0)
               /\ \A k \in 1 .. l - 1 :
                    CountedLevel(k)' => sizePos'[k] < sizePos'[l]
    <3>1. l \in 1 .. d /\ l \in 1 .. Depth /\ CountedLevel(l)
      BY <1>5, <2>1, <2>2
    <3>2. \A k \in 1 .. l - 1 : k \in 1 .. d
      BY <1>5, <2>1, <3>1
    <3>3. /\ offsets[Len(offsets)] \in Nat
          /\ sizePos[l] \in offsets[Len(offsets)] + 1 .. Len(values)
          /\ values[sizePos[l]] = CountWord(0)
          /\ \A k \in 1 .. l - 1 : CountedLevel(k) => sizePos[k] < sizePos[l]
      BY <1>5, <3>1, ReservedLevel
    <3>4. sizePos'[l] = sizePos[l] /\ offsets' = offsets
      BY <1>5
    <3>5. ASSUME NEW k \in 1 .. l - 1, CountedLevel(k)'
          PROVE  sizePos'[k] < sizePos'[l]
      BY <1>5, <3>2, <3>3, <3>4, <3>5
    <3>6. sizePos'[l] \in offsets'[Len(offsets')] + 1 .. Len(values')
      BY <1>1, <1>5, <3>3, <3>4
    <3> QED
      BY <1>5, <3>1, <3>3, <3>4, <3>5, <3>6
  <2> QED
    BY <2>2 DEF ReservedCounts
<1>6. ASSUME NEW n \in 0 .. MaxChunk, Coords(n)
      PROVE  ReservedCounts'
  <2> DEFINE words ==
        [i \in 1 .. n |-> CoordWord(Label, nodes[Len(nodes)].dims)]
  <2>1. /\ InGeometry /\ n \in Nat /\ open' = Counted(n)
        /\ UNCHANGED << sizePos, offsets >>
    BY <1>6 DEF Coords, ReadCoords, ProtocolAssumption
  <2>2. /\ open # << >> /\ Depth \in Nat /\ Len(open) = Depth + 1
    BY <2>1, OpenLevel, VisitLevel
  <2>3. /\ Len(open') = Len(open)
        /\ \A i \in 1 .. Len(open) : open'[i].type = open[i].type
    BY <1>1, <2>1, <2>2, CountedType
  <2>4. /\ Depth' = Depth
        /\ \A l \in 1 .. Depth : CountedLevel(l)' <=> CountedLevel(l)
    BY <2>2, <2>3 DEF Depth
  <2>5. /\ Len(values) <= Len(values')
        /\ \A i \in 1 .. Len(values) : values'[i] = values[i]
    <3>1. words \in Seq(Word)
      <4>1. CoordWord(Label, nodes[Len(nodes)].dims) \in Word
        BY LabelType, WordTypes DEF Inv, TypeOK
      <4> QED
        BY <2>1, <4>1
    <3>2. values' = values \o words
      BY <1>6 DEF Coords
    <3> HIDE DEF words
    <3> QED
      BY <1>1, <3>1, <3>2
  <2>6. \A l \in 1 .. Depth : CountedLevel(l) => sizePos[l] \in 1 .. Len(values)
    BY <2>1, ReservedLevel
  <2>7. Depth \in 0 .. Depth
    BY <2>2
  <2> HIDE DEF words
  <2> QED
    BY <1>5, <2>1, <2>4, <2>5, <2>6, <2>7
<1>7. CASE RingEnd \/ GeomEnd
  <2>1. /\ InGeometry /\ ReadPartEnd /\ UNCHANGED << sizePos, offsets >>
    BY <1>7 DEF RingEnd, GeomEnd, ReadRingEnd, ReadGeomEnd
  <2>2. /\ open # << >> /\ level = Depth /\ level \in 1 .. MaxLevel + 1
        /\ Len(open) = level + 1 /\ geomType[level] = Top.type
    BY <2>1, OpenLevel, VisitLevel
  <2>3. /\ Len(open') = Len(open) - 1
        /\ \A i \in 1 .. Len(open) - 1 : open'[i] = open[i]
    BY <1>1, <2>1, StackPopped
  <2>4. /\ Depth' = Depth - 1 /\ Depth - 1 \in 0 .. Depth
        /\ \A l \in 1 .. Depth - 1 : CountedLevel(l)' <=> CountedLevel(l)
    <3>1. Depth' = Depth - 1 /\ Depth = level /\ level \in Nat \ {0}
      <4>1. level \in Nat \ {0}
        BY <1>1, <2>2
      <4>2. Len(open) = level + 1 /\ Len(open') = level
        BY <2>2, <2>3, <4>1
      <4>3. Depth = Len(open) - 1 /\ Depth' = Len(open') - 1
        BY DEF Depth
      <4> QED
        BY <4>1, <4>2, <4>3
    <3>2. \A l \in 1 .. level - 1 :
            l + 1 \in 1 .. Len(open) - 1 /\ open'[l + 1] = open[l + 1]
      BY <2>2, <2>3, <3>1
    <3>3. \A l \in 1 .. level - 1 : CountedLevel(l)' <=> CountedLevel(l)
      BY <3>2
    <3> QED
      BY <3>1, <3>3
  <2>5. ASSUME NEW l \in 1 .. Depth - 1, CountedLevel(l)
        PROVE  /\ sizePos[l] \in 1 .. Len(values)
               /\ Top.type # POINT => sizePos[l] # sizePos[level]
    <3>1. l \in 1 .. Depth /\ level \in 1 .. Depth /\ l \in 1 .. level - 1
      BY <1>1, <2>2
    <3>2. sizePos[l] \in 1 .. Len(values)
      BY <2>1, <2>5, <3>1, ReservedLevel
    <3>3. ASSUME Top.type # POINT
          PROVE  sizePos[l] # sizePos[level]
      <4>1. CountedLevel(level)
        BY <2>2, <3>3 DEF Top
      <4>2. sizePos[l] < sizePos[level] /\ sizePos[level] \in Int
        BY <2>1, <2>5, <3>1, <4>1, ReservedLevel
      <4> QED
        BY <1>1, <3>2, <4>2
    <3> QED
      BY <3>2, <3>3
  <2>6. CASE Top.type # POINT
    <3>1. values' = Backpatched
      BY <1>7, <2>2, <2>6 DEF RingEnd, GeomEnd, AfterGeom
    <3>2. /\ Len(values') = Len(values)
          /\ \A i \in 1 .. Len(values) :
               i # sizePos[level] => values'[i] = values[i]
      BY <2>1, <2>6, <3>1, OwnCount
    <3>3. \A l \in 1 .. Depth - 1 :
            CountedLevel(l) => values'[sizePos[l]] = values[sizePos[l]]
      BY <2>5, <2>6, <3>2
    <3>4. Len(values) <= Len(values')
      BY <1>1, <3>2
    <3> QED
      BY <1>5, <2>1, <2>4, <3>3, <3>4
  <2>7. CASE Top.type = POINT
    <3>1. \/ values' = Append(values, EmptyPoint(dimensions[level]))
          \/ values' = values
      BY <1>7, <2>2, <2>7
      DEF RingEnd, GeomEnd, ReadRingEnd, POINT, RING, AfterGeom
    <3>2. EmptyPoint(dimensions[level]) \in Word
      BY WordTypes
    <3>3. /\ Len(values) <= Len(values')
          /\ \A i \in 1 .. Len(values) : values'[i] = values[i]
      <4>1. CASE values' = values
        BY <1>1, <4>1
      <4>2. CASE values' = Append(values, EmptyPoint(dimensions[level]))
        BY <1>1, <3>2, <4>2
      <4> QED
        BY <3>1, <4>1, <4>2
    <3> QED
      BY <1>5, <2>1, <2>4, <2>5, <3>3
  <2> QED
    BY <2>6, <2>7
<1>8. CASE FeatStart \/ NullFeat
  <2>1. open' = << Frame(FEATURE) >> \/ open' = << Frame(NULLFEATURE) >>
    BY <1>8 DEF FeatStart, ReadFeatStart, NullFeat, ReadNullFeat
  <2>2. Len(open') = 1
    BY <2>1
  <2> QED
    BY <2>2 DEF ReservedCounts, InGeometry
<1>9. CASE FeatEnd \/ FeatStartOverflow \/ ReaderFails \/ Finish
  BY <1>9 DEF FeatEnd, ReadFeatEnd, FeatStartOverflow, ReaderFails, Abandon,
     Finish, BatchDone, Idle, ReservedCounts, InGeometry
<1>10. CASE UNCHANGED vars
  BY <1>10 DEF Inv, ReservedCounts, InGeometry, Depth, vars, protocolVars,
     writerVars, stackVars, bufferVars
<1> QED
  BY <1>3, <1>4, <1>6, <1>7, <1>8, <1>9, <1>10 DEF Next

-----------------------------------------------------------------------------
LEMMA InitInv ==
  ASSUME ProtocolAssumption, WKBAssumption, Init
  PROVE  Inv
<1> USE DEF RING, GEOMETRYCOLLECTION
<1>1. open = << >> /\ values = << >> /\ offsets = << >> /\ Len(open) = 0
  BY EmptySeq DEF Init, ProtocolInit
<1>2. ProtocolTypeOK
  BY EmptySeq DEF Init, ProtocolInit, ProtocolTypeOK
<1>3. 0 \in Level /\ NoBitmap \in Bitmap
  BY NoBitmapType DEF Level, WKBAssumption
<1>4. array \in [length : Nat, nullCount : Nat, offsets : Seq(Nat),
                values : Seq(Word), validity : Bitmap, exact : BOOLEAN]
  <2>1. << >> \in Seq(Word) /\ << 0 >> \in Seq(Nat)
    BY EmptySeq
  <2> QED
    BY <1>3, <2>1 DEF Init, NoArray
<1>5. WriterTypeOK
  <2>1. values \in Seq(Word) /\ offsets \in Seq(Nat)
    BY <1>1, EmptySeq
  <2>2. sizePos \in [Level -> Nat] /\ size \in [Level -> Nat]
    BY DEF Init
  <2>3. /\ geomType \in [Level -> RING .. GEOMETRYCOLLECTION]
        /\ dimensions \in [Level -> 1 .. 4]
    BY DEF Init
  <2> QED
    BY <1>3, <1>4, <2>1, <2>2, <2>3 DEF Init, WriterTypeOK
<1>6. OffsetsAscend
  <2>1. Len(offsets) = 0 /\ length = 0
    BY <1>1, EmptySeq DEF Init
  <2> QED
    BY <1>1, <2>1 DEF OffsetsAscend
<1> QED
  BY <1>1, <1>2, <1>5, <1>6 DEF Inv, TypeOK, Nesting, InGeometry,
     LevelsTrackVisit, ReservedCounts

LEMMA StepInv ==
  ASSUME ProtocolAssumption, WKBAssumption, Inv, [Next]_vars
  PROVE  Inv'
<1>1. ProtocolTypeOK' /\ Nesting'
  BY StepIsCall, ProtocolPreserved DEF Inv, TypeOK
<1> QED
  BY <1>1, TypePreserved, LevelsPreserved, OffsetsPreserved, ReservedPreserved
  DEF Inv, TypeOK

THEOREM InvCorrect == Spec => []Inv
BY InitInv, StepInv, ProtocolAssumption, WKBAssumption, PTL DEF Spec

(* Every variable of the writer and of its caller keeps its type, for any  *)
(* sequence of visits: in particular the levels in use stay inside the     *)
(* fixed arrays of 32, and no counter goes below 0.                        *)
THEOREM TypeCorrect == Spec => []TypeOK
BY InvCorrect, PTL DEF Inv

(* feat_start, geom_start, ring_start and coords count in the right level: *)
(* while a feature is visited the writer's level is the number of open     *)
(* geometries and rings, after any number of abandoned features.           *)
THEOREM LevelsCorrect == Spec => []LevelsTrackVisit
BY InvCorrect, PTL DEF Inv

(* feat_start appends an offset that is never below the last one nor past  *)
(* the values, and fails only before it does, after any failures.          *)
THEOREM OffsetsCorrect == Spec => []OffsetsInValues
<1>1. Init => OffsetsInValues
  <2>1. ASSUME Init
        PROVE  OffsetsInValues
    <3>1. OffsetsAscend /\ Len(offsets) = 0 /\ length = 0
      BY <2>1, InitInv, ProtocolAssumption, WKBAssumption, EmptySeq DEF Inv, Init
    <3> QED
      BY <3>1 DEF OffsetsInValues
  <2> QED
    BY <2>1
<1>2. ASSUME Inv, OffsetsInValues, [Next]_vars
      PROVE  OffsetsInValues'
  <2>1. Inv'
    BY <1>2, StepInv, ProtocolAssumption, WKBAssumption
  <2>2. /\ offsets \in Seq(Nat) /\ Len(offsets) \in Nat /\ length \in Nat
        /\ Len(values) \in Nat /\ Len(offsets) <= length
    BY <1>2 DEF Inv, TypeOK, WriterTypeOK, OffsetsInValues
  <2>3. CASE FeatStart
    <3>1. offsets' = Append(offsets, Len(values)) /\ length' = length + 1
      BY <2>3 DEF FeatStart, feat_start_wkb, StartFeature
    <3> QED
      BY <2>1, <2>2, <3>1 DEF Inv, OffsetsInValues
  <2>4. CASE Finish
    <3>1. Len(offsets') = 0 /\ length' = 0
      BY <2>4, EmptySeq DEF Finish, MoveBuffers, EmptyCounters
    <3> QED
      BY <2>1, <3>1 DEF Inv, OffsetsInValues
  <2>5. CASE ~FeatStart /\ ~Finish
    <3>1. length' = length \/ length' = length + 1
      BY <1>2, <2>5, LengthGrows
    <3>2. offsets' = offsets
      BY <1>2, <2>5 DEF Next, FeatStartOverflow, NullFeat, GeomStart, RingStart,
         Coords, RingEnd, GeomEnd, FeatEnd, ReaderFails, vars, writerVars,
         bufferVars
    <3> QED
      BY <2>1, <2>2, <3>1, <3>2 DEF Inv, OffsetsInValues
  <2> QED
    BY <2>3, <2>4, <2>5
<1> QED
  BY <1>1, <1>2, InvCorrect, PTL DEF Spec

(* The counts that geom_end and ring_end will fill in are inside the       *)
(* values, inside the current feature, still 0, and one per open level.    *)
THEOREM ReservedCorrect == Spec => []ReservedCounts
BY InvCorrect, PTL DEF Inv

(* No word of any row is overwritten, but for the reserved counts.         *)
THEOREM WordsCorrect == Spec => OnlyReservedCountsChange
<1>1. ASSUME Inv, [Next]_vars
      PROVE  [batches' = batches => WordsKept]_vars
  <2>1. CASE Finish
    BY <2>1 DEF Finish, Inv, TypeOK, WriterTypeOK
  <2>2. CASE ~Finish
    BY <1>1, <2>2, WordsKeptByCalls, ProtocolAssumption, WKBAssumption
  <2> QED
    BY <2>1, <2>2
<1> QED
  BY <1>1, InvCorrect, PTL DEF Spec, OnlyReservedCountsChange

-----------------------------------------------------------------------------
(* The arrays the writer hands over.  Inv places the offsets; BatchInv     *)
(* adds what relates the offsets, the bitmap and the null count of a       *)
(* batch, and what that makes of the array of a Finish.                    *)
BatchInv ==
  Inv /\ Aligned /\ NullsCounted /\ ArrayWellFormed /\ OffsetsAddressable

-----------------------------------------------------------------------------
(* The feature that is open has been counted in length. *)
LEMMA OpenFeatureCounted ==
  ASSUME ProtocolAssumption, WKBAssumption, Inv, open # << >>
  PROVE  length \in Nat \ {0}
BY DEF Inv, TypeOK, WriterTypeOK, OffsetsAscend

(* Every step keeps the null count and the bits of the bitmap together. *)
LEMMA NullsPreserved ==
  ASSUME ProtocolAssumption, WKBAssumption, Inv, NullsCounted, [Next]_vars
  PROVE  NullsCounted'
<1>1. validity \in Bitmap
  BY DEF Inv, TypeOK, WriterTypeOK
<1>2. CASE FeatEnd
  <2>1. open # << >>
    BY <1>2, EmptySeq DEF FeatEnd, ReadFeatEnd, FeatureComplete
  <2>2. length \in Nat \ {0}
    BY <2>1, OpenFeatureCounted
  <2>3. CASE featIsNull
    BY <1>1, <1>2, <2>2, <2>3, MarkNullCounts DEF FeatEnd, NullsCounted
  <2>4. CASE ~featIsNull
    BY <1>1, <1>2, <2>4, MarkValidCounts DEF FeatEnd, NullsCounted
  <2> QED
    BY <2>3, <2>4
<1>3. CASE Finish
  <2>1. nullCount' = 0 /\ validity' = NoBitmap
    BY <1>3 DEF MoveBuffers, EmptyCounters, Finish
  <2>2. NullCount(NoBitmap) = 0
    BY NoBitsNoNulls DEF NoBitmap
  <2> QED
    BY <2>1, <2>2 DEF NullsCounted, NoBitmap
<1>4. CASE ~FeatEnd /\ ~Finish
  <2>1. validity' = validity /\ nullCount' = nullCount
    BY <1>4 DEF Next, FeatStart, FeatStartOverflow, feat_start_wkb,
       StartFeature, NullFeat, GeomStart, RingStart, Coords, RingEnd, GeomEnd,
       ReaderFails, vars, writerVars, bufferVars
  <2> QED
    BY <2>1 DEF NullsCounted
<1> QED
  BY <1>2, <1>3, <1>4

(* Every step keeps offsets, features and bits aligned. *)
LEMMA AlignedPreserved ==
  ASSUME ProtocolAssumption, WKBAssumption, Inv, NullsCounted, Aligned,
         [Next]_vars
  PROVE  Aligned'
<1>1. /\ validity \in Bitmap /\ failed \in Nat /\ length \in Nat
      /\ rows \in Seq(FeatureSet) /\ open \in Seq(FrameSet)
      /\ offsets \in Seq(Nat) /\ values \in Seq(Word)
  BY DEF Inv, TypeOK, WriterTypeOK, ProtocolTypeOK
<1>2. Len(rows) \in Nat /\ Len(offsets) \in Nat /\ Len(values) \in Nat
  BY <1>1
<1>3. CASE FeatStart
  <2>1. /\ open = << >> /\ open' # << >> /\ length' = length + 1
        /\ offsets' = Append(offsets, Len(values))
        /\ rows' = rows /\ failed' = failed /\ validity' = validity
    <3>1. open = << >> /\ open' = << Frame(FEATURE) >>
      BY <1>3 DEF FeatStart, ReadFeatStart, Idle
    <3>2. open' # << >>
      BY <3>1, Len(<< Frame(FEATURE) >>) = 1, EmptySeq
    <3> QED
      BY <1>3, <3>1, <3>2
      DEF FeatStart, ReadFeatStart, feat_start_wkb, StartFeature
  <2>2. Len(offsets') = Len(offsets) + 1
    BY <1>1, <1>2, <2>1
  <2> QED
    BY <1>1, <1>2, <2>1, <2>2 DEF Aligned, Unended, Idle
<1>4. CASE FeatEnd
  <2>1. /\ open # << >> /\ open' = << >>
        /\ length' = length /\ offsets' = offsets /\ failed' = failed
        /\ Len(rows') = Len(rows) + 1
    <3>1. open # << >>
      BY <1>4, EmptySeq DEF FeatEnd, ReadFeatEnd, FeatureComplete
    <3>2. Len(rows') = Len(rows) + 1
      BY <1>1, <1>4 DEF FeatEnd, ReadFeatEnd
    <3> QED
      BY <1>4, <3>1, <3>2 DEF FeatEnd, ReadFeatEnd
  <2>2. length \in Nat \ {0}
    BY <2>1, OpenFeatureCounted
  <2>3. ASSUME failed = 0
        PROVE  validity'.data => Len(validity'.bits) = Len(rows')
    <3>1. /\ length = Len(rows) + 1
          /\ validity.data => Len(validity.bits) = Len(rows)
      BY <2>1, <2>3 DEF Aligned, Unended, Idle
    <3>2. CASE featIsNull
      BY <1>1, <1>4, <2>1, <2>2, <3>1, <3>2, MarkNullCounts
      DEF FeatEnd, NullsCounted
    <3>3. CASE ~featIsNull
      BY <1>1, <1>4, <2>1, <3>1, <3>3, MarkValidCounts DEF FeatEnd
    <3> QED
      BY <3>2, <3>3
  <2> QED
    BY <1>1, <1>2, <2>1, <2>3 DEF Aligned, Unended, Idle
<1>5. CASE Finish
  BY <1>5, EmptySeq
  DEF MoveBuffers, EmptyCounters, Finish, BatchDone, Aligned, Unended, Idle,
      NoBitmap
<1>6. CASE FeatStartOverflow \/ ReaderFails
  BY <1>1, <1>6 DEF FeatStartOverflow, ReaderFails, Abandon, Aligned
<1>7. CASE \/ NullFeat \/ RingStart \/ RingEnd \/ GeomEnd
           \/ \E type \in GeomTypes, dims \in Dims : GeomStart(type, dims)
           \/ \E n \in 0 .. MaxChunk : Coords(n)
           \/ UNCHANGED vars
  <2>1. /\ UNCHANGED << rows, failed, length, offsets, validity >>
        /\ Idle' <=> Idle
    <3>1. CASE NullFeat
      <4>1. open # << >> /\ open' # << >>
        BY <3>1, Len(<< Frame(FEATURE) >>) = 1, EmptySeq,
           Len(<< Frame(NULLFEATURE) >>) = 1 DEF NullFeat, ReadNullFeat
      <4> QED
        BY <3>1, <4>1 DEF NullFeat, ReadNullFeat, bufferVars, Idle
    <3>2. ASSUME NEW type \in RING .. GEOMETRYCOLLECTION, NEW dims,
                 ReadPartStart(type, dims), open # << >>
          PROVE  open' # << >> /\ UNCHANGED << rows, failed >>
      <4>1. Len(open') = Len(open) + 1 /\ Len(open) \in Nat
        BY <1>1, <3>2, StackPushed DEF Inv, TypeOK
      <4> QED
        BY <3>2, <4>1, EmptySeq DEF ReadPartStart
    <3>3. ASSUME NEW type \in GeomTypes, NEW dims \in Dims,
                 GeomStart(type, dims)
          PROVE  /\ UNCHANGED << rows, failed, length, offsets, validity >>
                 /\ Idle' <=> Idle
      <4>1. type \in RING .. GEOMETRYCOLLECTION
        BY DEF ProtocolAssumption, RING, GEOMETRYCOLLECTION
      <4> QED
        BY <3>2, <3>3, <4>1 DEF GeomStart, ReadGeomStart, Idle
    <3>4. CASE RingStart
      <4>1. open # << >> /\ RING \in RING .. GEOMETRYCOLLECTION
        BY <3>4, EmptySeq
        DEF RingStart, ReadRingStart, InGeometry, RING, GEOMETRYCOLLECTION
      <4> QED
        BY <3>2, <3>4, <4>1 DEF RingStart, ReadRingStart, Idle
    <3>5. CASE RingEnd \/ GeomEnd
      <4>1. InGeometry /\ open' = Pop
        BY <3>5
        DEF RingEnd, GeomEnd, ReadRingEnd, ReadGeomEnd, ReadPartEnd
      <4>2. Len(open') = Len(open) - 1 /\ Len(open) > 1
        BY <1>1, <3>5, <4>1, StackPopped
        DEF RingEnd, GeomEnd, ReadRingEnd, ReadGeomEnd, InGeometry, Inv, TypeOK
      <4>3. open # << >> /\ open' # << >>
        BY <4>2, EmptySeq
      <4> QED
        BY <3>5, <4>3
        DEF RingEnd, GeomEnd, ReadRingEnd, ReadGeomEnd, ReadPartEnd, Idle
    <3>6. ASSUME NEW n \in 0 .. MaxChunk, Coords(n)
          PROVE  /\ UNCHANGED << rows, failed, length, offsets, validity >>
                 /\ Idle' <=> Idle
      <4>1. open # << >> /\ open' = Counted(n)
        BY <3>6, EmptySeq DEF Coords, ReadCoords, InGeometry
      <4>2. Len(open') = Len(open) /\ Len(open) # 0
        BY <1>1, <4>1, EmptySeq DEF Counted
      <4>3. open' # << >>
        BY <4>2, EmptySeq
      <4> QED
        BY <3>6, <4>1, <4>3 DEF Coords, ReadCoords, Idle
    <3>7. CASE UNCHANGED vars
      BY <3>7 DEF vars, protocolVars, writerVars, bufferVars, Idle
    <3> QED
      BY <1>7, <3>1, <3>3, <3>4, <3>5, <3>6, <3>7
  <2> QED
    BY <2>1 DEF Aligned, Unended
<1> QED
  BY <1>3, <1>4, <1>5, <1>6, <1>7 DEF Next

-----------------------------------------------------------------------------
(* The array of a Finish: what its batch satisfied just before it. *)
LEMMA FinishedArray ==
  ASSUME ProtocolAssumption, WKBAssumption, BatchInv, Finish
  PROVE  ArrayWellFormed' /\ OffsetsAddressable'
<1>1. /\ offsets \in Seq(Nat) /\ Len(offsets) \in Nat /\ Len(values) \in Nat
      /\ length \in Nat
  BY DEF BatchInv, Inv, TypeOK, WriterTypeOK
<1>2. /\ array'.exact = (failed = 0) /\ array'.length = length
      /\ array'.offsets = Append(offsets, Len(values))
      /\ array'.values = values /\ array'.validity = validity
      /\ array'.nullCount = nullCount /\ Len(values) <= MaxOffset
  BY DEF Finish, Fits, HandedOver
<1>3. /\ Len(array'.offsets) = Len(offsets) + 1
      /\ array'.offsets[Len(offsets) + 1] = Len(values)
      /\ \A i \in 1 .. Len(offsets) : array'.offsets[i] = offsets[i]
  BY <1>1, <1>2
<1>4. /\ IF offsets = << >> THEN values = << >> ELSE offsets[1] = 0
      /\ \A i \in 1 .. Len(offsets) : offsets[i] <= Len(values)
      /\ \A i \in 1 .. Len(offsets) - 1 : offsets[i] <= offsets[i + 1]
  BY DEF BatchInv, Inv, OffsetsAscend
<1>5. array'.offsets[1] = 0
  <2>1. CASE offsets = << >>
    BY <1>3, <1>4, <2>1, EmptySeq
  <2>2. CASE offsets # << >>
    BY <1>1, <1>3, <1>4, <2>2, EmptySeq
  <2> QED
    BY <2>1, <2>2
<1>6. \A i \in 1 .. Len(offsets) : array'.offsets[i] <= array'.offsets[i + 1]
  <2>1. ASSUME NEW i \in 1 .. Len(offsets)
        PROVE  array'.offsets[i] <= array'.offsets[i + 1]
    <3>1. CASE i = Len(offsets)
      BY <1>3, <1>4, <3>1
    <3>2. CASE i # Len(offsets)
      <4>1. i \in 1 .. Len(offsets) - 1 /\ i + 1 \in 1 .. Len(offsets)
        BY <1>1, <3>2
      <4> QED
        BY <1>3, <1>4, <4>1
    <3> QED
      BY <3>1, <3>2
  <2> QED
    BY <2>1
<1>7. failed = 0 =>
        /\ Len(offsets) = length
        /\ validity.data => Len(validity.bits) = length
  BY <1>1
  DEF BatchInv, Aligned, Unended, Finish, BatchDone, Idle, Inv, TypeOK,
      ProtocolTypeOK
<1>8. nullCount = NullCount(validity)
  BY DEF BatchInv, NullsCounted
<1>9. ArrayWellFormed'
  <2>1. \A bitmap : NullCount(bitmap)' = NullCount(bitmap)
    BY DEF NullCount, ZeroBits
  <2> QED
    BY <1>1, <1>2, <1>3, <1>5, <1>6, <1>7, <1>8 DEF ArrayWellFormed
<1>10. OffsetsAddressable'
  <2>1. \A i \in 1 .. Len(array'.offsets) : array'.offsets[i] <= Len(values)
    BY <1>1, <1>3, <1>4
  <2> QED
    BY <1>2, <2>1 DEF OffsetsAddressable
<1> QED
  BY <1>9, <1>10

LEMMA InitBatchInv ==
  ASSUME ProtocolAssumption, WKBAssumption, Init
  PROVE  BatchInv
<1>1. /\ open = << >> /\ rows = << >> /\ length = 0 /\ nullCount = 0
      /\ offsets = << >> /\ validity = NoBitmap /\ array = NoArray
      /\ Len(<< >>) = 0
  BY EmptySeq DEF Init, ProtocolInit
<1>2. NullCount(NoBitmap) = 0
  <2>1. ZeroBits(<< >>) = {} /\ NoBitmap.bits = << >>
    BY DEF ZeroBits, NoBitmap
  <2> QED
    BY <2>1, FS_EmptySet DEF NullCount
<1>3. Aligned
  BY <1>1 DEF Aligned, Unended, Idle, NoBitmap
<1>4. NullsCounted
  BY <1>1, <1>2 DEF NullsCounted, NoBitmap
<1>5. /\ array.length = 0 /\ array.nullCount = 0 /\ array.offsets = << 0 >>
      /\ array.values = << >> /\ array.validity = NoBitmap
      /\ Len(<< 0 >>) = 1 /\ << 0 >>[1] = 0
  BY <1>1 DEF NoArray
<1>6. ArrayWellFormed
  BY <1>1, <1>2, <1>5 DEF ArrayWellFormed, NoBitmap
<1>7. OffsetsAddressable
  BY <1>1, <1>5 DEF OffsetsAddressable, WKBAssumption
<1> QED
  BY InitInv, <1>3, <1>4, <1>6, <1>7 DEF BatchInv

LEMMA StepBatchInv ==
  ASSUME ProtocolAssumption, WKBAssumption, BatchInv, [Next]_vars
  PROVE  BatchInv'
<1>1. Inv' /\ NullsCounted' /\ Aligned'
  BY StepInv, NullsPreserved, AlignedPreserved DEF BatchInv
<1>2. CASE Finish
  BY <1>1, <1>2, FinishedArray DEF BatchInv
<1>3. CASE ~Finish
  <2>1. array' = array
    BY <1>3 DEF Next, FeatStart, FeatStartOverflow, feat_start_wkb,
       StartFeature, NullFeat, GeomStart, RingStart, Coords, RingEnd, GeomEnd,
       FeatEnd, ReaderFails, vars, writerVars, outVars
  <2>2. ArrayWellFormed' /\ OffsetsAddressable'
    BY <2>1
    DEF BatchInv, ArrayWellFormed, OffsetsAddressable, NullCount, ZeroBits
  <2> QED
    BY <1>1, <2>2 DEF BatchInv
<1> QED
  BY <1>2, <1>3

THEOREM BatchInvCorrect == Spec => []BatchInv
BY InitBatchInv, StepBatchInv, ProtocolAssumption, WKBAssumption, PTL DEF Spec

(* feat_start and feat_end keep a batch aligned: as long as no feature was *)
(* abandoned there is one offset per feature and, from the first null on,  *)
(* one bit per ended feature.                                              *)
THEOREM AlignedCorrect == Spec => []Aligned
BY BatchInvCorrect, PTL DEF BatchInv

(* feat_end counts a null exactly when it appends a 0 bit, the bits it     *)
(* fills in for earlier features are all 1, and Finish resets both.        *)
THEOREM NullsCorrect == Spec => []NullsCounted
BY BatchInvCorrect, PTL DEF BatchInv

(* GeoArrowWKBWriterFinish hands over valid Arrow binary arrays, for any   *)
(* number and any shape of features, nulls among them, that were ended.    *)
THEOREM ArrayCorrect == Spec => []ArrayWellFormed
BY BatchInvCorrect, PTL DEF BatchInv

(* The EOVERFLOW checks of feat_start and Finish are enough: whatever went *)
(* wrong in a batch, no array has more values than MaxOffset, and each of  *)
(* its offsets points into them.                                           *)
THEOREM AddressableCorrect == Spec => []OffsetsAddressable
BY BatchInvCorrect, PTL DEF BatchInv

-----------------------------------------------------------------------------
(* The rows of a batch and of an array, as RowSink knows them. *)
Pending  == IF failed = 0 THEN Decoded ELSE << >>
Finished == IF array.exact THEN DecodedArray ELSE << >>

LEMMA SinkTypes ==
  ASSUME ProtocolAssumption, WKBAssumption, BatchInv
  PROVE  /\ values \in Seq(Word) /\ Len(values) \in Nat
         /\ offsets \in Seq(Nat) /\ Len(offsets) \in Nat
         /\ length \in Nat /\ validity \in Bitmap /\ failed \in Nat
         /\ validity.bits \in Seq(Bit) /\ Len(validity.bits) \in Nat
         /\ validity.data \in BOOLEAN
         /\ rows \in Seq(FeatureSet) /\ Len(rows) \in Nat
         /\ ProtocolTypeOK /\ WriterTypeOK /\ Inv
<1>1. ProtocolTypeOK /\ WriterTypeOK /\ Inv
  BY DEF BatchInv, Inv, TypeOK
<1>2. validity \in Bitmap
  BY <1>1 DEF WriterTypeOK
<1>3. /\ validity.bits \in Seq(Bit) /\ Len(validity.bits) \in Nat
      /\ validity.data \in BOOLEAN
  BY <1>2 DEF Bitmap
<1> QED
  BY <1>1, <1>2, <1>3 DEF WriterTypeOK, ProtocolTypeOK

(* While a feature is visited, the words before it stay. *)
LEMMA WordsBefore ==
  ASSUME ProtocolAssumption, WKBAssumption, Inv, open # << >>,
         [Next]_vars, ~Finish
  PROVE  /\ values' \in Seq(Word) /\ Len(values) <= Len(values')
         /\ \A i \in 1 .. offsets[Len(offsets)] : values'[i] = values[i]
<1>1. /\ values \in Seq(Word) /\ values' \in Seq(Word)
      /\ offsets \in Seq(Nat) /\ Len(values) \in Nat /\ Len(values') \in Nat
  BY TypePreserved DEF Inv, TypeOK, WriterTypeOK
<1>2. Len(values) <= Len(values')
  BY WordsKeptByCalls DEF WordsKept
<1> SUFFICES \A i \in 1 .. offsets[Len(offsets)] : values'[i] = values[i]
  BY <1>1, <1>2
<1>3. /\ offsets[Len(offsets)] \in Nat /\ offsets[Len(offsets)] <= Len(values)
      /\ 1 .. offsets[Len(offsets)] \subseteq 1 .. Len(values)
  <2>1. offsets # << >> /\ \A i \in 1 .. Len(offsets) : offsets[i] <= Len(values)
    BY DEF Inv, OffsetsAscend
  <2>2. Len(offsets) \in 1 .. Len(offsets)
    BY <1>1, <2>1, EmptySeq
  <2>3. offsets[Len(offsets)] \in Nat /\ offsets[Len(offsets)] <= Len(values)
    BY <1>1, <2>1, <2>2
  <2> QED
    BY <1>1, <2>3
<1>4. ASSUME values' = values
      PROVE  \A i \in 1 .. offsets[Len(offsets)] : values'[i] = values[i]
  BY <1>4
<1>5. ASSUME NEW words \in Seq(Word), values' = values \o words
      PROVE  \A i \in 1 .. offsets[Len(offsets)] : values'[i] = values[i]
  BY <1>1, <1>3, <1>5
<1>6. ASSUME InGeometry, Top.type # POINT, values' = Backpatched
      PROVE  \A i \in 1 .. offsets[Len(offsets)] : values'[i] = values[i]
  <2>1. /\ sizePos[level] \in offsets[Len(offsets)] + 1 .. Len(values)
        /\ \A i \in 1 .. Len(values) :
             Backpatched[i] = IF i = sizePos[level]
                              THEN CountWord(size[level]) ELSE values[i]
    BY <1>6, OwnCount
  <2>2. ASSUME NEW i \in 1 .. offsets[Len(offsets)]
        PROVE  i # sizePos[level] /\ i \in 1 .. Len(values)
    BY <1>3, <2>1
  <2> QED
    BY <1>6, <2>1, <2>2
<1>7. ASSUME NEW w \in Word, values' = Append(values, w)
      PROVE  \A i \in 1 .. offsets[Len(offsets)] : values'[i] = values[i]
  BY <1>1, <1>3, <1>7
<1>8. CASE FeatStart \/ FeatStartOverflow
  BY <1>8 DEF FeatStart, FeatStartOverflow, ReadFeatStart, Idle
<1>9. CASE NullFeat \/ FeatEnd \/ ReaderFails \/ UNCHANGED vars
  BY <1>4, <1>9 DEF NullFeat, FeatEnd, ReaderFails, vars, writerVars, bufferVars
<1>10. ASSUME NEW type \in GeomTypes, NEW dims \in Dims, GeomStart(type, dims)
       PROVE  \A i \in 1 .. offsets[Len(offsets)] : values'[i] = values[i]
  <2>1. HeadWord(type, dims) \in Word /\ CountWord(0) \in Word
    BY WordTypes, CountWordType DEF ProtocolAssumption
  <2>2. << HeadWord(type, dims), CountWord(0) >> \in Seq(Word)
    BY <2>1
  <2> QED
    BY <1>5, <1>7, <1>10, <2>1, <2>2 DEF GeomStart
<1>11. CASE RingStart
  <2>1. CountWord(0) \in Word
    BY CountWordType
  <2>2. values' = Append(values, CountWord(0))
    BY <1>11 DEF RingStart
  <2> QED
    BY <1>7, <2>1, <2>2
<1>12. ASSUME NEW n \in 0 .. MaxChunk, Coords(n)
       PROVE  \A i \in 1 .. offsets[Len(offsets)] : values'[i] = values[i]
  <2>1. n \in Nat /\ Label \in Nat
    BY LabelType DEF ProtocolAssumption, Inv, TypeOK
  <2>2. CoordWord(Label, nodes[Len(nodes)].dims) \in Word
    BY <2>1 DEF CoordWord, Word, NumDimensions
  <2>3. [i \in 1 .. n |-> CoordWord(Label, nodes[Len(nodes)].dims)] \in Seq(Word)
    BY <2>1, <2>2
  <2> QED
    BY <1>5, <1>12, <2>3 DEF Coords
<1>13. CASE RingEnd
  <2>1. InGeometry /\ Top.type # POINT /\ values' = Backpatched
    BY <1>13 DEF RingEnd, ReadRingEnd, RING, POINT
  <2> QED
    BY <1>6, <2>1
<1>14. CASE GeomEnd
  <2>1. InGeometry /\ geomType[level] = Top.type
    BY <1>14, OpenLevel DEF GeomEnd, ReadGeomEnd
  <2>2. \/ Top.type # POINT /\ values' = Backpatched
        \/ values' = Append(values, EmptyPoint(dimensions[level]))
        \/ values' = values
    BY <1>14, <2>1 DEF GeomEnd, AfterGeom
  <2>3. EmptyPoint(dimensions[level]) \in Word
    BY WordTypes
  <2>4. CASE values' = values
    BY <1>4, <2>4
  <2>5. CASE values' = Append(values, EmptyPoint(dimensions[level]))
    BY <1>7, <2>3, <2>5
  <2>6. CASE Top.type # POINT /\ values' = Backpatched
    BY <1>6, <2>1, <2>6
  <2> QED
    BY <2>2, <2>4, <2>5, <2>6
<1> QED
  BY <1>8, <1>9, <1>10, <1>11, <1>12, <1>13, <1>14 DEF Next

(* A row that is complete keeps its words while the next one is visited.   *)
LEMMA RowWordsKept ==
  ASSUME ProtocolAssumption, WKBAssumption, BatchInv, open # << >>, failed = 0,
         [Next]_vars, ~Finish, offsets' = offsets,
         NEW i \in 1 .. length - 1
  PROVE  RowWords(i)' = RowWords(i)
<1>1. /\ values \in Seq(Word) /\ Len(values) \in Nat
      /\ offsets \in Seq(Nat) /\ Len(offsets) \in Nat
      /\ length \in Nat /\ Inv /\ Len(rows) \in Nat
  BY SinkTypes
<1>2. Len(offsets) = length
  BY DEF BatchInv, Aligned
<1>3. /\ offsets[i] \in Nat /\ offsets[i + 1] \in Nat
      /\ offsets[Len(offsets)] \in Nat
      /\ offsets[i + 1] <= offsets[Len(offsets)]
      /\ offsets[Len(offsets)] <= Len(values)
      /\ i < Len(offsets)
  <2>1. i + 1 \in 1 .. Len(offsets) /\ i \in 1 .. Len(offsets)
        /\ Len(offsets) \in 1 .. Len(offsets)
    BY <1>1, <1>2
  <2>2. /\ \A k \in 1 .. Len(offsets) : offsets[k] <= Len(values)
        /\ \A k \in 1 .. Len(offsets) - 1 : offsets[k] <= offsets[k + 1]
    BY <1>1 DEF Inv, OffsetsAscend
  <2>3. offsets \in Seq(Int)
    BY <1>1
  <2>4. \A j, k \in 1 .. Len(offsets) : j <= k => offsets[j] <= offsets[k]
    BY <2>2, <2>3, AscendsFar
  <2> QED
    BY <1>1, <1>2, <2>1, <2>2, <2>4
<1>4. /\ values' \in Seq(Word) /\ Len(values) <= Len(values')
      /\ \A k \in 1 .. offsets[Len(offsets)] : values'[k] = values[k]
  BY <1>1, WordsBefore
<1>5. SubSeq(values', offsets[i] + 1, offsets[i + 1])
        = SubSeq(values, offsets[i] + 1, offsets[i + 1])
  <2>1. offsets[i + 1] <= Len(values) /\ offsets[i + 1] <= Len(values')
    BY <1>1, <1>3, <1>4
  <2>2. \A k \in 1 .. offsets[i + 1] : values'[k] = values[k]
    BY <1>3, <1>4
  <2> DEFINE a == offsets[i]
             b == offsets[i + 1]
             new == values'
  <2>3. a \in Nat /\ b \in Nat /\ new \in Seq(Word)
    BY <1>3, <1>4
  <2>4. b <= Len(values) /\ b <= Len(new) /\ \A k \in 1 .. b : new[k] = values[k]
    BY <2>1, <2>2
  <2> HIDE DEF a, b, new
  <2>5. SubSeq(new, a + 1, b) = SubSeq(values, a + 1, b)
    BY <1>1, <2>3, <2>4, SameSubSeq
  <2> QED
    BY <2>5 DEF a, b, new
<1> QED
  BY <1>3, <1>5 DEF RowWords

(* The rows of a batch, up to the offset that ends the last of them. *)
LEMMA RowWordsEnded ==
  ASSUME ProtocolAssumption, WKBAssumption, BatchInv, Idle, failed = 0,
         NEW i \in 1 .. length
  PROVE  LET ended == Append(offsets, Len(values))
         IN /\ RowWords(i) = SubSeq(values, ended[i] + 1, ended[i + 1])
            /\ i < Len(ended) /\ Len(ended) = Len(offsets) + 1
<1>1. /\ offsets \in Seq(Nat) /\ Len(offsets) \in Nat /\ length \in Nat
      /\ Len(values) \in Nat /\ Len(rows) \in Nat
  BY SinkTypes
<1>2. Len(offsets) = length
  BY DEF BatchInv, Aligned
<1> DEFINE ended == Append(offsets, Len(values))
<1>3. /\ Len(ended) = Len(offsets) + 1 /\ ended[Len(offsets) + 1] = Len(values)
      /\ \A k \in 1 .. Len(offsets) : ended[k] = offsets[k]
  BY <1>1
<1> HIDE DEF ended
<1>4. CASE i < Len(offsets)
  <2>1. ended[i] = offsets[i] /\ ended[i + 1] = offsets[i + 1]
    <3>1. i \in 1 .. Len(offsets) /\ i + 1 \in 1 .. Len(offsets)
      BY <1>1, <1>4
    <3> QED
      BY <1>3, <3>1
  <2>2. RowWords(i) = SubSeq(values, offsets[i] + 1, offsets[i + 1])
    BY <1>4 DEF RowWords
  <2>3. i < Len(ended)
    BY <1>1, <1>3, <1>4
  <2> QED
    BY <1>3, <2>1, <2>2, <2>3 DEF ended
<1>5. CASE ~(i < Len(offsets))
  <2>1. i = Len(offsets) /\ ended[i] = offsets[i] /\ ended[i + 1] = Len(values)
    BY <1>1, <1>2, <1>3, <1>5
  <2>2. RowWords(i) = SubSeq(values, offsets[i] + 1, Len(values))
    BY <1>5 DEF RowWords
  <2>3. i < Len(ended)
    BY <1>1, <1>3, <2>1
  <2> QED
    BY <1>3, <2>1, <2>2, <2>3 DEF ended
<1> QED
  BY <1>4, <1>5

(* Nothing completes: the pending rows are those from before the step. *)
LEMMA SamePending ==
  ASSUME failed' = failed,
         failed = 0 =>
           /\ CompleteRows' = CompleteRows
           /\ \A i \in 1 .. CompleteRows :
                /\ IsValid(validity, i)' = IsValid(validity, i)
                /\ RowWords(i)' = RowWords(i)
  PROVE  Pending' = Pending
<1>1. CASE failed = 0
  <2> DEFINE row(i) == [valid |-> IsValid(validity, i), words |-> RowWords(i)]
  <2>1. \A i \in 1 .. CompleteRows : row(i)' = row(i)
    BY <1>1
  <2>2. Decoded = [i \in 1 .. CompleteRows |-> row(i)]
    BY DEF Decoded
  <2>3. Decoded' = [i \in 1 .. CompleteRows' |-> row(i)']
    BY DEF Decoded
  <2> HIDE DEF row
  <2>4. Decoded' = Decoded
    BY <1>1, <2>1, <2>2, <2>3
  <2> QED
    BY <1>1, <2>4 DEF Pending
<1>2. CASE failed # 0
  BY <1>2 DEF Pending
<1> QED
  BY <1>1, <1>2

(* feat_start, geom_start and the others complete no row and change none.  *)
LEMMA VisitIsStutter ==
  ASSUME ProtocolAssumption, WKBAssumption, BatchInv, [Next]_vars,
         ~FeatStartOverflow, ~FeatEnd, ~ReaderFails, ~Finish
  PROVE  Pending' = Pending /\ failed' = failed
<1>1. /\ length \in Nat /\ Len(rows) \in Nat /\ failed \in Nat
      /\ ProtocolTypeOK /\ Len(offsets) \in Nat /\ Inv
  BY SinkTypes
<1>2. CASE FeatStart
  <2>1. /\ Idle /\ ~Idle' /\ failed' = failed /\ length' = length + 1
        /\ values' = values /\ validity' = validity
        /\ offsets' = Append(offsets, Len(values))
    <3>1. open' = << Frame(FEATURE) >> /\ Len(<< Frame(FEATURE) >>) = 1
      BY <1>2 DEF FeatStart, ReadFeatStart
    <3>2. ~Idle'
      BY <3>1, EmptySeq DEF Idle
    <3> QED
      BY <1>2, <3>2 DEF FeatStart, ReadFeatStart, feat_start_wkb, StartFeature
  <2>2. CompleteRows' = length /\ CompleteRows = length
    BY <1>1, <2>1 DEF CompleteRows
  <2>3. ASSUME failed = 0, NEW i \in 1 .. length
        PROVE  RowWords(i)' = RowWords(i)
    <3> DEFINE ended == Append(offsets, Len(values))
    <3>1. /\ RowWords(i) = SubSeq(values, ended[i] + 1, ended[i + 1])
          /\ i < Len(ended)
      BY <2>1, <2>3, RowWordsEnded
    <3>2. offsets' = ended
      BY <2>1
    <3> HIDE DEF ended
    <3>3. RowWords(i)' = SubSeq(values, ended[i] + 1, ended[i + 1])
      BY <2>1, <3>1, <3>2 DEF RowWords
    <3> QED
      BY <3>1, <3>3
  <2>4. \A i : IsValid(validity, i)' = IsValid(validity, i)
    BY <2>1 DEF IsValid
  <2> QED
    BY <2>1, <2>2, <2>3, <2>4, SamePending
<1>3. CASE ~FeatStart
  <2>1. \/ UNCHANGED vars
        \/ /\ open # << >> /\ open' # << >>
           /\ failed' = failed /\ UNCHANGED << length, offsets, validity >>
    <3>1. CASE \/ NullFeat \/ RingStart \/ RingEnd \/ GeomEnd
               \/ \E type \in GeomTypes, dims \in Dims : GeomStart(type, dims)
               \/ \E n \in 0 .. MaxChunk : Coords(n)
      <4>1. open # << >> /\ open' # << >> /\ failed' = failed
        BY <1>1, <3>1, VisitGoesOn
        DEF NullFeat, RingStart, RingEnd, GeomEnd, GeomStart, Coords
      <4>2. UNCHANGED << length, offsets, validity >>
        BY <3>1
        DEF NullFeat, RingStart, RingEnd, GeomEnd, GeomStart, Coords, bufferVars
      <4> QED
        BY <4>1, <4>2
    <3> QED
      BY <1>3, <3>1 DEF Next
  <2>2. CASE UNCHANGED vars
    <3>1. /\ values' = values /\ offsets' = offsets /\ validity' = validity
          /\ length' = length /\ open' = open /\ failed' = failed
      BY <2>2 DEF vars, protocolVars, writerVars, bufferVars
    <3>2. Decoded' = Decoded
      BY <3>1 DEF Decoded, CompleteRows, Idle, RowWords, IsValid
    <3> QED
      BY <3>1, <3>2 DEF Pending
  <2>3. CASE /\ open # << >> /\ open' # << >>
             /\ failed' = failed /\ UNCHANGED << length, offsets, validity >>
    <3>1. CompleteRows' = CompleteRows /\ CompleteRows = length - 1
      BY <2>3 DEF CompleteRows, Idle
    <3>2. ASSUME failed = 0, NEW i \in 1 .. CompleteRows
          PROVE  RowWords(i)' = RowWords(i)
      BY <2>3, <3>1, <3>2, RowWordsKept
    <3>3. \A i : IsValid(validity, i)' = IsValid(validity, i)
      BY <2>3 DEF IsValid
    <3> QED
      BY <2>3, <3>1, <3>2, <3>3, SamePending
  <2> QED
    BY <2>1, <2>2, <2>3
<1> QED
  BY <1>2, <1>3

(* feat_end completes a row and alters no other one. *)
LEMMA FeatEndCompletes ==
  ASSUME ProtocolAssumption, WKBAssumption, BatchInv, FeatEnd, failed = 0
  PROVE  /\ failed' = 0
         /\ Len(Pending') = Len(Pending) + 1
         /\ SubSeq(Pending', 1, Len(Pending)) = Pending
<1>1. /\ length \in Nat /\ Len(rows) \in Nat /\ validity \in Bitmap
      /\ ProtocolTypeOK /\ Inv /\ Len(validity.bits) \in Nat
  BY SinkTypes
<1>2. /\ open # << >> /\ open' = << >> /\ failed' = 0
      /\ UNCHANGED << values, length, offsets >>
  <2>1. Len(open) = 1 /\ open' = << >> /\ failed' = failed
        /\ UNCHANGED << values, length, offsets >>
    BY DEF FeatEnd, ReadFeatEnd, FeatureComplete
  <2> QED
    BY <2>1, EmptySeq
<1>3. length \in Nat \ {0} /\ length - 1 \in Nat
  BY <1>1, <1>2, OpenFeatureCounted
<1>4. CompleteRows = length - 1 /\ CompleteRows' = (length - 1) + 1
  BY <1>1, <1>2 DEF CompleteRows, Idle
<1>5. ASSUME NEW i \in 1 .. length - 1
      PROVE  IsValid(validity, i)' = IsValid(validity, i)
  <2>1. length = Len(rows) + 1 /\ (validity.data => Len(validity.bits) = length - 1)
    BY <1>1, <1>2 DEF BatchInv, Aligned, Unended, Idle
  <2>2. ~validity.data => validity.bits = << >>
    BY DEF BatchInv, NullsCounted
  <2>3. /\ IsValid(MarkNull(validity, length), i) = IsValid(validity, i)
        /\ IsValid(MarkValid(validity), i) = IsValid(validity, i)
    BY <1>1, <1>3, <2>1, <2>2, ValidityKept
  <2>4. validity' = MarkNull(validity, length) \/ validity' = MarkValid(validity)
    BY DEF FeatEnd
  <2>5. IsValid(validity, i)' = IsValid(validity', i)
    BY DEF IsValid
  <2> QED
    BY <2>3, <2>4, <2>5
<1>6. ASSUME NEW i \in 1 .. length - 1
      PROVE  RowWords(i)' = RowWords(i)
  BY <1>2 DEF RowWords
<1> DEFINE row(i) == [valid |-> IsValid(validity, i), words |-> RowWords(i)]
           before == [i \in 1 .. length - 1 |-> row(i)]
           after  == [i \in 1 .. (length - 1) + 1 |-> row(i)']
<1>7. Pending = before /\ Pending' = after
  BY <1>2, <1>4 DEF Pending, Decoded
<1>8. /\ before = [i \in 1 .. length - 1 |-> before[i]]
      /\ after = [i \in 1 .. (length - 1) + 1 |-> after[i]]
      /\ \A i \in 1 .. length - 1 : after[i] = before[i]
  <2>1. \A i \in 1 .. length - 1 : row(i)' = row(i)
    BY <1>5, <1>6
  <2>2. \A i \in 1 .. length - 1 : i \in 1 .. (length - 1) + 1
    BY <1>3
  <2> HIDE DEF row
  <2> QED
    BY <2>1, <2>2
<1> HIDE DEF before, after
<1>9. Len(after) = Len(before) + 1 /\ SubSeq(after, 1, Len(before)) = before
  BY <1>3, <1>8, OneMoreElement
<1> QED
  BY <1>2, <1>7, <1>9

(* Finish hands over the pending rows and keeps none. *)
LEMMA FinishHandsOver ==
  ASSUME ProtocolAssumption, WKBAssumption, BatchInv, Finish
  PROVE  Finished' = Pending /\ Pending' = << >> /\ failed' = 0
<1>1. /\ length \in Nat /\ Len(rows) \in Nat /\ failed \in Nat
      /\ Len(offsets) \in Nat
  BY SinkTypes
<1>2. /\ Idle /\ Idle' /\ length' = 0 /\ failed' = 0
      /\ array'.exact = (failed = 0) /\ array'.length = length
      /\ array'.offsets = Append(offsets, Len(values))
      /\ array'.values = values /\ array'.validity = validity
  BY DEF Finish, BatchDone, Idle, EmptyCounters, HandedOver
<1>3. Pending' = << >>
  <2>1. CompleteRows' = 0
    BY <1>2 DEF CompleteRows
  <2> QED
    BY <1>2, <2>1 DEF Pending, Decoded
<1>4. CASE failed = 0
  <2>1. CompleteRows = length
    BY <1>2 DEF CompleteRows
  <2> DEFINE ended == Append(offsets, Len(values))
             handed(i) == [valid |-> IsValid(validity, i),
                           words |-> SubSeq(values, ended[i] + 1, ended[i + 1])]
  <2>2. DecodedArray' = [i \in 1 .. length |-> handed(i)]
    BY <1>2 DEF DecodedArray, IsValid
  <2>3. Decoded = [i \in 1 .. length |->
                     [valid |-> IsValid(validity, i), words |-> RowWords(i)]]
    BY <2>1 DEF Decoded
  <2>4. \A i \in 1 .. length :
          RowWords(i) = SubSeq(values, ended[i] + 1, ended[i + 1])
    BY <1>2, <1>4, RowWordsEnded
  <2> HIDE DEF ended
  <2>5. DecodedArray' = Decoded
    BY <2>2, <2>3, <2>4
  <2> QED
    BY <1>2, <1>3, <1>4, <2>5 DEF Pending, Finished
<1>5. CASE failed # 0
  BY <1>2, <1>3, <1>5 DEF Pending, Finished
<1> QED
  BY <1>4, <1>5

LEMMA SinkInit ==
  ASSUME Init
  PROVE  Sink!Init
<1>1. /\ CompleteRows = 0 /\ failed = 0 /\ array.length = 0 /\ array.exact
  BY DEF Init, ProtocolInit, CompleteRows, Idle, NoArray
<1>2. Decoded = << >> /\ DecodedArray = << >>
  BY <1>1 DEF Decoded, DecodedArray
<1> QED
  BY <1>1, <1>2 DEF Sink!Init

LEMMA SinkStep ==
  ASSUME ProtocolAssumption, WKBAssumption, BatchInv, [Next]_vars
  PROVE  [Sink!Next]_<< Pending, Finished, failed > 0 >>
<1>1. failed \in Nat
  BY SinkTypes
<1>2. ~Finish => Finished' = Finished
  <2>1. ~Finish => array' = array
    BY DEF Next, FeatStart, FeatStartOverflow, feat_start_wkb,
       StartFeature, NullFeat, GeomStart, RingStart, Coords, RingEnd, GeomEnd,
       FeatEnd, ReaderFails, vars, writerVars, outVars
  <2> QED
    BY <2>1 DEF Finished, DecodedArray, IsValid
<1>3. CASE ~FeatStartOverflow /\ ~FeatEnd /\ ~ReaderFails /\ ~Finish
  BY <1>2, <1>3, VisitIsStutter
<1>4. CASE FeatStartOverflow \/ ReaderFails
  <2>1. failed' > 0 /\ failed' # 0
    BY <1>1, <1>4 DEF FeatStartOverflow, ReaderFails, Abandon
  <2>2. ~Finish
    BY <1>1, <2>1 DEF Finish, BatchDone
  <2>3. Pending' = << >>
    BY <2>1 DEF Pending
  <2>4. Sink!AbandonRow
    BY <1>2, <2>1, <2>2, <2>3 DEF Sink!AbandonRow, Pending, Finished
  <2> QED
    BY <2>4 DEF Sink!Next
<1>5. CASE FeatEnd
  <2>1. ~Finish
    BY <1>5, EmptySeq
    DEF Finish, BatchDone, Idle, FeatEnd, ReadFeatEnd, FeatureComplete
  <2>2. CASE failed = 0
    <3>1. /\ failed' = 0
          /\ Len(Pending') = Len(Pending) + 1
          /\ SubSeq(Pending', 1, Len(Pending)) = Pending
      BY <1>5, <2>2, FeatEndCompletes
    <3>2. Sink!CompleteRow
      BY <1>2, <2>1, <2>2, <3>1 DEF Sink!CompleteRow, Pending, Finished
    <3> QED
      BY <3>2 DEF Sink!Next
  <2>3. CASE failed # 0
    <3>1. failed' = failed
      BY <1>5 DEF FeatEnd, ReadFeatEnd
    <3> QED
      BY <1>2, <2>1, <2>3, <3>1 DEF Pending
  <2> QED
    BY <2>2, <2>3
<1>6. CASE Finish
  <2>1. Sink!FinishBatch
    BY <1>6, FinishHandsOver DEF Sink!FinishBatch, Pending, Finished
  <2> QED
    BY <2>1 DEF Sink!Next
<1> QED
  BY <1>3, <1>4, <1>5, <1>6

(* The writer refines RowSink, for features of any shape and number: every *)
(* call of a visit is a stutter of it; feat_end completes one row and      *)
(* leaves the others as they are, although it may build the whole bitmap;  *)
(* an abandoned feature gives up the batch; and Finish hands over exactly  *)
(* the pending rows.                                                       *)
THEOREM SinkRefined == Spec => SinkSpec
<1>1. Init => Sink!Init
  BY SinkInit
<1>2. ProtocolAssumption /\ WKBAssumption /\ BatchInv /\ [Next]_vars
        => [Sink!Next]_<< Pending, Finished, failed > 0 >>
  BY SinkStep
<1> QED
  BY <1>1, <1>2, BatchInvCorrect, ProtocolAssumption, WKBAssumption, PTL
  DEF Spec, SinkSpec, Sink!Spec, Pending, Finished
=============================================================================
