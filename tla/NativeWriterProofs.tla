------------------------- MODULE NativeWriterProofs -------------------------
(***************************************************************************)
(* Proofs about the native writer for any geometry types, bounds and       *)
(* offset limit, and lists of every depth.  Inv is inductive: an offset    *)
(* ascends because a list is closed only when its size says that it has    *)
(* elements, which the open list backs (SizesBacked); and it fits because  *)
(* lists that are closed are not empty, so that the i-th offset of a level *)
(* below the rows is at least i - 1, and no level has more lists than      *)
(* there are coordinates under the last offset.                            *)
(***************************************************************************)
EXTENDS NativeReference, VisitorProtocolProofs, DataProofs

LastOf(s) == s[Len(s)]

(* ListsNest and OffsetsFit of any offsets, not only of the writer's. *)
Nests(offs, l) ==
  /\ Len(offs[l]) >= 1 /\ offs[l][1] = 0
  /\ \A i \in 1 .. Len(offs[l]) - 1 :
       IF l = 0 THEN offs[l][i] <= offs[l][i + 1]
       ELSE offs[l][i] < offs[l][i + 1]
  /\ LastOf(offs[l]) <= Elements(offs, l)

Bounded(offs, l) ==
  \A i \in 1 .. Len(offs[l]) :
    offs[l][i] <= MaxOffset /\ (l >= 1 => i - 1 <= offs[l][i])

WellNested(offs) ==
  /\ offs \in [Lvl -> Seq(Nat)]
  /\ \A l \in 0 .. depth - 1 : Nests(offs, l) /\ Bounded(offs, l)

(* A feature of which feat_end will find that its row is there already. *)
RowStarted ==
  open # << >> /\ size[0] > 0 =>
    /\ depth = 0 => Len(coords) >= 1
    /\ depth = 1 => Len(offsets[0]) >= 2

Inv ==
  /\ TypeOK /\ Nesting
  /\ WellNested(offsets) /\ SizesBacked /\ RowStarted /\ NullsCounted

-----------------------------------------------------------------------------
(* Every step of the writer is one call of the reader's, or none. *)
LEMMA StepIsCall ==
  ASSUME [Next]_vars
  PROVE  [ProtocolNext]_protocolVars
BY DEF Next, vars, ProtocolNext, FeatStart, NullFeat, GeomStart, RingStart,
       Coords, RingEnd, GeomEnd, PolygonEnd, FeatEnd, FeatRejected, Overflow,
       ReaderFails, Finish

(* Closed lists have elements, so there are no more of them than their     *)
(* last offset says, which fits.                                           *)
LEMMA ElementsFit ==
  ASSUME NEW offs, WellNested(offs), depth \in 0 .. 3, coords \in Seq(Nat),
         NEW l \in 0 .. depth - 1
  PROVE  /\ Elements(offs, l) \in Nat
         /\ l < depth - 1 => Elements(offs, l) <= MaxOffset
         /\ l \in Lvl /\ offs[l] \in Seq(Nat) /\ Len(offs[l]) >= 1
         /\ LastOf(offs[l]) \in Nat /\ LastOf(offs[l]) <= Elements(offs, l)
<1>1. l \in Lvl /\ offs[l] \in Seq(Nat) /\ Len(offs[l]) >= 1
  BY DEF WellNested, Lvl, Nests
<1>2. LastOf(offs[l]) \in Nat /\ LastOf(offs[l]) <= Elements(offs, l)
  BY <1>1 DEF WellNested, Nests, LastOf
<1>3. CASE l = depth - 1
  BY <1>1, <1>2, <1>3 DEF Elements
<1>4. CASE l # depth - 1
  <2>1. l + 1 \in 1 .. depth - 1 /\ l + 1 \in Lvl
    BY <1>4 DEF Lvl
  <2>2. offs[l + 1] \in Seq(Nat) /\ Nests(offs, l + 1) /\ Bounded(offs, l + 1)
    BY <2>1 DEF WellNested
  <2>3. Len(offs[l + 1]) \in 1 .. Len(offs[l + 1])
    BY <2>2 DEF Nests
  <2>4. offs[l + 1][Len(offs[l + 1])] \in Nat
    BY <2>2, <2>3
  <2>5. Len(offs[l + 1]) - 1 <= offs[l + 1][Len(offs[l + 1])]
        /\ offs[l + 1][Len(offs[l + 1])] <= MaxOffset
    BY <2>1, <2>2, <2>3 DEF Bounded
  <2>6. Elements(offs, l) = Len(offs[l + 1]) - 1
    BY <1>4 DEF Elements
  <2> QED
    BY <1>1, <1>2, <1>4, <2>3, <2>4, <2>5, <2>6, NativeAssumption
       DEF NativeAssumption
<1> QED
  BY <1>3, <1>4

(* One offset more: where the open list of level l ends. *)
LEMMA OffsetAppended ==
  ASSUME NEW l \in Nat, NEW s \in Seq(Nat), NEW e \in Nat,
         Len(s) >= 1, e <= MaxOffset,
         IF l = 0 THEN LastOf(s) <= e ELSE LastOf(s) < e,
         \A i \in 1 .. Len(s) - 1 :
           IF l = 0 THEN s[i] <= s[i + 1] ELSE s[i] < s[i + 1],
         \A i \in 1 .. Len(s) : s[i] <= MaxOffset /\ (l >= 1 => i - 1 <= s[i])
  PROVE  LET t == Append(s, e)
         IN /\ t \in Seq(Nat) /\ Len(t) = Len(s) + 1
            /\ LastOf(t) = e /\ t[1] = s[1]
            /\ \A i \in 1 .. Len(t) - 1 :
                 IF l = 0 THEN t[i] <= t[i + 1] ELSE t[i] < t[i + 1]
            /\ \A i \in 1 .. Len(t) :
                 t[i] <= MaxOffset /\ (l >= 1 => i - 1 <= t[i])
<1> DEFINE t == Append(s, e)
<1>1. /\ t \in Seq(Nat) /\ Len(t) = Len(s) + 1 /\ Len(s) \in Nat
      /\ t[Len(s) + 1] = e /\ \A i \in 1 .. Len(s) : t[i] = s[i]
  OBVIOUS
<1>2. LastOf(t) = e /\ t[1] = s[1]
  BY <1>1 DEF LastOf
<1>3. /\ LastOf(s) = s[Len(s)] /\ MaxOffset \in Nat
      /\ \A i \in 1 .. Len(s) : s[i] \in Nat
  BY NativeAssumption DEF NativeAssumption, LastOf
<1> HIDE DEF t
<1>4. ASSUME NEW i \in 1 .. Len(t) - 1
      PROVE  IF l = 0 THEN t[i] <= t[i + 1] ELSE t[i] < t[i + 1]
  <2>1. CASE i = Len(s)
    BY <1>1, <1>3, <2>1
  <2>2. CASE i # Len(s)
    <3>1. i \in 1 .. Len(s) - 1 /\ i + 1 \in 1 .. Len(s)
      BY <1>1, <2>2
    <3>2. t[i] = s[i] /\ t[i + 1] = s[i + 1]
      BY <1>1, <3>1
    <3> QED
      BY <3>1, <3>2
  <2> QED
    BY <2>1, <2>2
<1>5. ASSUME NEW i \in 1 .. Len(t)
      PROVE  t[i] <= MaxOffset /\ (l >= 1 => i - 1 <= t[i])
  <2>1. CASE i = Len(s) + 1
    <3>1. l >= 1 => Len(s) - 1 <= s[Len(s)]
      BY <1>1
    <3> QED
      BY <1>1, <1>3, <2>1, <3>1
  <2>2. CASE i # Len(s) + 1
    <3>1. i \in 1 .. Len(s)
      BY <1>1, <2>2
    <3>2. t[i] = s[i]
      BY <1>1, <3>1
    <3> QED
      BY <3>1, <3>2
  <2> QED
    BY <2>1, <2>2
<1> QED
  BY <1>1, <1>2, <1>4, <1>5 DEF t

(* Closing a list keeps the lists nested, provided that the offset fits    *)
(* and, below the rows, that the list has elements.                        *)
LEMMA CloseWellNested ==
  ASSUME NEW offs, WellNested(offs), depth \in 0 .. 3, coords \in Seq(Nat),
         NEW l \in 0 .. depth - 1,
         Elements(offs, l) <= MaxOffset,
         l >= 1 => LastOf(offs[l]) < Elements(offs, l)
  PROVE  /\ WellNested(Close(offs, l))
         /\ Len(Close(offs, l)[l]) = Len(offs[l]) + 1
         /\ LastOf(Close(offs, l)[l]) = Elements(offs, l)
         /\ Elements(Close(offs, l), l) = Elements(offs, l)
         /\ \A k \in Lvl : k # l => Close(offs, l)[k] = offs[k]
<1> DEFINE closed == Close(offs, l)
<1>1. /\ Elements(offs, l) \in Nat /\ l \in Lvl /\ offs[l] \in Seq(Nat)
      /\ Len(offs[l]) >= 1 /\ LastOf(offs[l]) <= Elements(offs, l)
  BY ElementsFit
<1>2. /\ closed \in [Lvl -> Seq(Nat)]
      /\ closed[l] = Append(offs[l], Elements(offs, l))
      /\ \A k \in Lvl : k # l => closed[k] = offs[k]
  BY <1>1 DEF Close, WellNested
<1> HIDE DEF closed
<1>3. /\ closed[l] \in Seq(Nat) /\ Len(closed[l]) = Len(offs[l]) + 1
      /\ LastOf(closed[l]) = Elements(offs, l) /\ closed[l][1] = 0
      /\ \A i \in 1 .. Len(closed[l]) - 1 :
           IF l = 0 THEN closed[l][i] <= closed[l][i + 1]
           ELSE closed[l][i] < closed[l][i + 1]
      /\ Bounded(closed, l)
  <2>1. Nests(offs, l) /\ Bounded(offs, l) /\ l \in Nat
    BY DEF WellNested
  <2>2. IF l = 0 THEN LastOf(offs[l]) <= Elements(offs, l)
        ELSE LastOf(offs[l]) < Elements(offs, l)
    BY <1>1, <2>1
  <2>3. \A i \in 1 .. Len(offs[l]) - 1 :
          IF l = 0 THEN offs[l][i] <= offs[l][i + 1]
          ELSE offs[l][i] < offs[l][i + 1]
    BY <2>1 DEF Nests
  <2>4. \A i \in 1 .. Len(offs[l]) :
          offs[l][i] <= MaxOffset /\ (l >= 1 => i - 1 <= offs[l][i])
    BY <2>1 DEF Bounded
  <2>5. offs[l][1] = 0
    BY <2>1 DEF Nests
  <2> HIDE DEF Nests, Bounded
  <2>6. LET t == Append(offs[l], Elements(offs, l))
        IN /\ t \in Seq(Nat) /\ Len(t) = Len(offs[l]) + 1
           /\ LastOf(t) = Elements(offs, l) /\ t[1] = offs[l][1]
           /\ \A i \in 1 .. Len(t) - 1 :
                IF l = 0 THEN t[i] <= t[i + 1] ELSE t[i] < t[i + 1]
           /\ \A i \in 1 .. Len(t) :
                t[i] <= MaxOffset /\ (l >= 1 => i - 1 <= t[i])
    BY <1>1, <2>1, <2>2, <2>3, <2>4, OffsetAppended, Zenon
  <2> QED
    BY <1>2, <2>5, <2>6 DEF Bounded
<1>4. Elements(closed, l) = Elements(offs, l)
  <2>1. CASE l = depth - 1
    BY <2>1 DEF Elements
  <2>2. CASE l # depth - 1
    <3>1. l + 1 \in Lvl /\ l + 1 # l
      BY <2>2 DEF Lvl
    <3>2. closed[l + 1] = offs[l + 1]
      BY <1>2, <3>1
    <3> QED
      BY <2>2, <3>2 DEF Elements
  <2> QED
    BY <2>1, <2>2
<1>5. Nests(closed, l)
  BY <1>1, <1>3, <1>4 DEF Nests
<1>6. ASSUME NEW k \in 0 .. depth - 1, k # l
      PROVE  Nests(closed, k) /\ Bounded(closed, k)
  <2>1. k \in Lvl /\ closed[k] = offs[k] /\ Nests(offs, k) /\ Bounded(offs, k)
    BY <1>2, <1>6 DEF Lvl, WellNested
  <2>2. /\ LastOf(offs[k]) \in Nat /\ Elements(offs, k) \in Nat
        /\ LastOf(offs[k]) <= Elements(offs, k)
    BY ElementsFit
  <2>3. CASE k = depth - 1
    BY <2>1, <2>3 DEF Nests, Bounded, Elements
  <2>4. CASE k # depth - 1
    <3>0. k + 1 \in Lvl
      BY <1>6, <2>4 DEF Lvl
    <3>1. k + 1 \in Lvl /\ closed[k + 1] \in Seq(Nat)
      BY <1>2, <3>0
    <3>2. Len(offs[k + 1]) <= Len(closed[k + 1]) /\ Len(offs[k + 1]) \in Nat
      <4>1. CASE k + 1 = l
        <5>1. Len(offs[l]) \in Nat /\ Len(closed[l]) = Len(offs[l]) + 1
          BY <1>1, <1>3
        <5>2. Len(offs[l]) <= Len(closed[l])
          BY <5>1
        <5> QED
          BY <4>1, <5>1, <5>2
      <4>2. CASE k + 1 # l
        <5>1. closed[k + 1] = offs[k + 1]
          BY <1>2, <3>0, <4>2
        <5> QED
          BY <3>1, <5>1
      <4> QED
        BY <4>1, <4>2
    <3>3. Elements(offs, k) <= Elements(closed, k) /\ Elements(closed, k) \in Int
      BY <2>4, <3>1, <3>2 DEF Elements
    <3> QED
      BY <2>1, <2>2, <3>3 DEF Nests, Bounded
  <2> QED
    BY <2>3, <2>4
<1>7. WellNested(closed)
  <2>1. ASSUME NEW k \in 0 .. depth - 1
        PROVE  Nests(closed, k) /\ Bounded(closed, k)
    <3>1. CASE k = l
      BY <1>3, <1>5, <3>1
    <3>2. CASE k # l
      BY <1>6, <3>2
    <3> QED
      BY <3>1, <3>2
  <2> QED
    BY <1>2, <2>1 DEF WellNested
<1> QED
  BY <1>2, <1>3, <1>4, <1>7 DEF closed

(* Lists that nest in the state the step leads to. *)
LEMMA NestedAfter ==
  ASSUME NEW offs, WellNested(offs), offsets' = offs,
         depth' = depth, coords' = coords
  PROVE  WellNested(offsets)'
BY DEF WellNested, Nests, Bounded, Elements

(* More coordinates leave the lists nested: the open ones grow. *)
LEMMA NestedMoreCoords ==
  ASSUME WellNested(offsets), offsets' = offsets, depth' = depth,
         depth \in 0 .. 3, coords \in Seq(Nat), coords' \in Seq(Nat),
         Len(coords) <= Len(coords')
  PROVE  WellNested(offsets)'
<1>1. ASSUME NEW l \in 0 .. depth - 1
      PROVE  Nests(offsets, l)' /\ Bounded(offsets, l)'
  <2>1. /\ LastOf(offsets[l]) \in Nat /\ Elements(offsets, l) \in Nat
        /\ LastOf(offsets[l]) <= Elements(offsets, l)
    BY ElementsFit
  <2>2. Elements(offsets, l) <= Elements(offsets, l)'
    BY <2>1 DEF Elements
  <2>3. Elements(offsets, l)' \in Int
    BY <2>1 DEF Elements
  <2>4. Nests(offsets, l) /\ Bounded(offsets, l)
    BY DEF WellNested
  <2> QED
    BY <2>1, <2>2, <2>3, <2>4 DEF Nests, Bounded, LastOf
<1> QED
  BY <1>1 DEF WellNested

LEMMA FreshNested ==
  depth \in 0 .. 3 /\ coords = << >> /\ offsets = FreshOffsets(depth)
    => WellNested(offsets)
<1> SUFFICES ASSUME depth \in 0 .. 3, coords = << >>,
                    offsets = FreshOffsets(depth)
             PROVE  WellNested(FreshOffsets(depth))
  OBVIOUS
<1>1. ASSUME NEW l \in Lvl
      PROVE  (IF l < depth THEN << 0 >> ELSE << >>) \in Seq(Nat)
  BY EmptySeq
<1>2. FreshOffsets(depth) \in [Lvl -> Seq(Nat)]
  BY <1>1 DEF FreshOffsets
<1>3. ASSUME NEW l \in 0 .. depth - 1
      PROVE  FreshOffsets(depth)[l] = << 0 >> /\ Elements(FreshOffsets(depth), l) = 0
  <2>1. l \in Lvl /\ FreshOffsets(depth)[l] = << 0 >>
    BY DEF FreshOffsets, Lvl
  <2>2. CASE l = depth - 1
    BY <2>1, <2>2, EmptySeq DEF Elements
  <2>3. CASE l # depth - 1
    <3>1. l + 1 \in Lvl /\ l + 1 < depth
      BY <2>3 DEF Lvl
    <3>2. FreshOffsets(depth)[l + 1] = << 0 >>
      BY <3>1 DEF FreshOffsets
    <3> QED
      BY <2>1, <2>3, <3>2 DEF Elements
  <2> QED
    BY <2>2, <2>3
<1>4. ASSUME NEW l \in 0 .. depth - 1
      PROVE  Nests(FreshOffsets(depth), l) /\ Bounded(FreshOffsets(depth), l)
  <2> DEFINE fresh == FreshOffsets(depth)
  <2>0. Len(<< 0 >>) = 1 /\ << 0 >>[1] = 0
    OBVIOUS
  <2>1. Elements(fresh, l) = 0 /\ Len(fresh[l]) = 1 /\ fresh[l][1] = 0
    BY <1>3, <2>0, Zenon
  <2> HIDE DEF fresh
  <2>2. Nests(fresh, l)
    BY <2>1 DEF Nests, LastOf
  <2>3. \A i \in 1 .. Len(fresh[l]) : fresh[l][i] = 0 /\ i = 1
    BY <2>1
  <2>4. Bounded(fresh, l)
    BY <2>3, NativeAssumption DEF Bounded, NativeAssumption
  <2> QED
    BY <2>2, <2>4 DEF fresh
<1> QED
  BY <1>2, <1>4 DEF WellNested

-----------------------------------------------------------------------------
(* Arithmetic of a list that gets one more element. *)
LEMMA OneMoreBacked ==
  ASSUME NEW s \in Nat, NEW e \in Int, NEW last \in Nat, s <= e - last,
         NEW s2, s2 = s + 1, NEW e2, e2 = e + 1, NEW last2, last2 = last
  PROVE  s2 <= e2 - last2
OBVIOUS

(* The end of a sequence that has coordinates can be written. *)
LEMMA SequenceClosed ==
  ASSUME Inv, open # << >>, SequencePending, Fits
  PROVE  /\ WellNested(Close(offsets, depth - 1))
         /\ Len(Close(offsets, depth - 1)[depth - 1])
              = Len(offsets[depth - 1]) + 1
         /\ LastOf(Close(offsets, depth - 1)[depth - 1]) = Len(coords)
         /\ \A k \in Lvl : k # depth - 1 =>
              Close(offsets, depth - 1)[k] = offsets[k]
<1>1. /\ depth \in 2 .. 3 /\ coords \in Seq(Nat) /\ size \in [Lvl -> Nat]
      /\ WellNested(offsets)
  BY DEF Inv, TypeOK, WriterTypeOK, SequencePending
<1>2. Elements(offsets, depth - 1) = Len(coords)
  BY DEF Elements
<1>3. LastOf(offsets[depth - 1]) < Len(coords)
  <2>1. LastOf(offsets[depth - 1]) \in Nat /\ depth - 1 \in Lvl
    BY <1>1, ElementsFit
  <2>2. size[depth - 1] <= Len(coords) - LastOf(offsets[depth - 1])
    BY <1>1, <1>2 DEF Inv, SizesBacked, LastOf
  <2> QED
    BY <1>1, <2>1, <2>2 DEF SequencePending
<1> QED
  BY <1>1, <1>2, <1>3, CloseWellNested DEF Fits

(* The lists that feat_end finds open are closed, inside out.              *)
LEMMA RowWellNested ==
  ASSUME Inv, open # << >>, depth >= 2, SequencePending => Fits
  PROVE  /\ WellNested(RowClosed)
         /\ Len(RowClosed[0]) >= 2
<1>1. /\ depth \in 2 .. 3 /\ coords \in Seq(Nat) /\ size \in [Lvl -> Nat]
      /\ WellNested(offsets)
  BY DEF Inv, TypeOK, WriterTypeOK
<1>2. /\ WellNested(ListsClosed)
  <2>1. CASE ~LeftOver(1)
    <3>1. ~LeftOver(2)
      BY <1>1, <2>1 DEF LeftOver
    <3> QED
      BY <1>1, <2>1, <3>1 DEF ListsClosed, SequencesClosed
  <2>2. CASE depth = 2 /\ LeftOver(1)
    <3>1. SequencePending
      BY <1>1, <2>2 DEF LeftOver, SequencePending
    <3>2. ListsClosed = Close(offsets, depth - 1)
      BY <2>2 DEF ListsClosed, SequencesClosed
    <3> QED
      BY <3>1, <3>2, SequenceClosed
  <2>3. CASE depth = 3 /\ LeftOver(1) /\ ~(size[2] > 0)
    <3>1. ~LeftOver(2) /\ size[1] > 0
      BY <1>1, <2>3 DEF LeftOver
    <3>2. ListsClosed = Close(offsets, 1)
      BY <2>3, <3>1 DEF ListsClosed, SequencesClosed
    <3>3. /\ Elements(offsets, 1) \in Nat /\ Elements(offsets, 1) <= MaxOffset
          /\ LastOf(offsets[1]) \in Nat
      BY <1>1, <2>3, ElementsFit
    <3>4. size[1] <= Elements(offsets, 1) - LastOf(offsets[1])
      BY <2>3 DEF Inv, SizesBacked, LastOf
    <3>5. LastOf(offsets[1]) < Elements(offsets, 1)
      BY <1>1, <3>1, <3>3, <3>4 DEF Lvl
    <3> QED
      BY <1>1, <2>3, <3>2, <3>3, <3>5, CloseWellNested
  <2>4. CASE depth = 3 /\ size[2] > 0
    <3> DEFINE closed == Close(offsets, 2)
    <3>1. SequencePending /\ LeftOver(2) /\ LeftOver(1)
      BY <2>4 DEF SequencePending, LeftOver
    <3>2. ListsClosed = Close(closed, 1)
      BY <2>4, <3>1 DEF ListsClosed, SequencesClosed
    <3>3. WellNested(closed) /\ Len(closed[2]) = Len(offsets[2]) + 1
          /\ closed[1] = offsets[1]
      BY <2>4, <3>1, SequenceClosed DEF Lvl
    <3> HIDE DEF closed
    <3>4. /\ Elements(closed, 1) \in Nat /\ Elements(closed, 1) <= MaxOffset
      BY <1>1, <2>4, <3>3, ElementsFit
    <3>5. /\ Elements(offsets, 1) \in Nat /\ LastOf(offsets[1]) \in Nat
          /\ LastOf(offsets[1]) <= Elements(offsets, 1)
      BY <1>1, <2>4, ElementsFit
    <3>6. Elements(closed, 1) = Elements(offsets, 1) + 1
      <4>1. /\ Elements(closed, 1) = Len(closed[2]) - 1
            /\ Elements(offsets, 1) = Len(offsets[2]) - 1
        BY <2>4 DEF Elements
      <4>2. Len(offsets[2]) \in Nat
        BY <1>1 DEF WellNested, Lvl
      <4> QED
        BY <3>3, <4>1, <4>2
    <3>7. LastOf(closed[1]) < Elements(closed, 1)
      BY <3>3, <3>5, <3>6
    <3> QED
      BY <1>1, <2>4, <3>2, <3>3, <3>4, <3>7, CloseWellNested
  <2> QED
    BY <1>1, <2>1, <2>2, <2>3, <2>4
<1>3. /\ Elements(ListsClosed, 0) <= MaxOffset
      /\ Len(ListsClosed[0]) \in Nat \ {0}
  <2>1. depth \in 0 .. 3 /\ 0 \in 0 .. depth - 1 /\ 0 < depth - 1
    BY <1>1
  <2>2. /\ Elements(ListsClosed, 0) <= MaxOffset
        /\ ListsClosed[0] \in Seq(Nat) /\ Len(ListsClosed[0]) >= 1
    BY <1>1, <1>2, <2>1, ElementsFit, Zenon
  <2> QED
    BY <2>2
<1> QED
  BY <1>1, <1>2, <1>3, CloseWellNested DEF RowClosed

(* ring_end and geom_end, where they end a sequence or nothing.            *)
LEMMA SequenceEnds ==
  ASSUME Inv, open # << >>, depth' = depth, coords' = coords,
         \/ /\ depth = 1 /\ Fits
            /\ size' = [size EXCEPT ![0] = @ + 1]
            /\ offsets' = Close(offsets, 0)
         \/ /\ SequencePending /\ Fits
            /\ size' = SequenceCounted
            /\ offsets' = Close(offsets, depth - 1)
         \/ UNCHANGED << size, offsets >>
  PROVE  WellNested(offsets)' /\ SizesBacked' /\ RowStarted'
<1>1. /\ depth \in 0 .. 3 /\ coords \in Seq(Nat) /\ size \in [Lvl -> Nat]
      /\ offsets \in [Lvl -> Seq(Nat)]
      /\ WellNested(offsets) /\ SizesBacked /\ RowStarted
      /\ \A l \in 0 .. 2 : l \in Lvl
  BY DEF Inv, TypeOK, WriterTypeOK, Lvl
<1>2. CASE depth = 1 /\ Fits /\ offsets' = Close(offsets, 0)
  <2>1. Elements(offsets, 0) <= MaxOffset
    BY <1>2 DEF Elements, Fits
  <2>2. /\ WellNested(Close(offsets, 0))
        /\ Len(Close(offsets, 0)[0]) = Len(offsets[0]) + 1
    BY <1>1, <1>2, <2>1, CloseWellNested
  <2>3. WellNested(offsets)'
    BY <1>2, <2>2, NestedAfter
  <2>4. Len(offsets[0]) >= 1 /\ Len(offsets[0]) \in Nat
    BY <1>1, <1>2, ElementsFit
  <2> QED
    BY <1>2, <2>2, <2>3, <2>4 DEF SizesBacked, RowStarted
<1>3. CASE /\ SequencePending /\ Fits
           /\ size' = SequenceCounted
           /\ offsets' = Close(offsets, depth - 1)
  <2> DEFINE closed == Close(offsets, depth - 1)
  <2>1. /\ WellNested(closed)
        /\ Len(closed[depth - 1]) = Len(offsets[depth - 1]) + 1
        /\ LastOf(closed[depth - 1]) = Len(coords)
        /\ \A k \in Lvl : k # depth - 1 => closed[k] = offsets[k]
    BY <1>3, SequenceClosed
  <2> HIDE DEF closed
  <2>2. offsets' = closed /\ depth \in 2 .. 3
    BY <1>1, <1>3 DEF SequencePending, closed
  <2>3. WellNested(offsets)'
    BY <2>1, <2>2, NestedAfter
  <2>4. /\ depth - 1 \in Lvl /\ depth - 2 \in Lvl /\ depth - 1 # depth - 2
        /\ size'[depth - 1] = 0 /\ size'[depth - 2] = size[depth - 2] + 1
    BY <1>1, <1>3, <2>2 DEF SequenceCounted, Lvl
  <2>5. ASSUME NEW l \in 1 .. depth - 1
        PROVE  size'[l] <= Elements(closed, l) - LastOf(closed[l])
    <3>1. CASE l = depth - 1
      <4>1. Elements(closed, l) = Len(coords)
        BY <3>1 DEF Elements
      <4>2. Len(coords) \in Nat
        BY <1>1
      <4> QED
        BY <2>1, <2>4, <3>1, <4>1, <4>2
    <3>2. CASE l # depth - 1
      <4>1. l = 1 /\ depth = 3
        BY <2>2, <3>2
      <4>2. size'[1] = size[1] + 1 /\ closed[1] = offsets[1]
        BY <1>1, <2>1, <2>4, <4>1
      <4>3. /\ Elements(closed, 1) = Len(closed[2]) - 1
            /\ Elements(offsets, 1) = Len(offsets[2]) - 1
            /\ Len(offsets[2]) \in Nat
        BY <1>1, <4>1 DEF Elements
      <4>4. size[1] <= Elements(offsets, 1) - LastOf(offsets[1])
        BY <1>1, <4>1 DEF Inv, SizesBacked, LastOf
      <4>5. size[1] \in Nat /\ LastOf(offsets[1]) \in Nat
        BY <1>1, <4>1, ElementsFit
      <4>6. Len(closed[2]) = Len(offsets[2]) + 1
        BY <2>1, <4>1
      <4>7. Elements(closed, 1) = Elements(offsets, 1) + 1
        BY <4>3, <4>6
      <4>8. LastOf(closed[1]) = LastOf(offsets[1])
        BY <4>2 DEF LastOf
      <4>9. Elements(offsets, 1) \in Int
        BY <4>3
      <4>10. size'[1] = size[1] + 1
        BY <4>2
      <4>11. size'[1] <= Elements(closed, 1) - LastOf(closed[1])
        BY <4>4, <4>5, <4>7, <4>8, <4>9, <4>10, OneMoreBacked, Zenon
      <4>12. l = 1
        BY <4>1
      <4> QED
        BY <4>11, <4>12, Zenon
    <3> QED
      BY <3>1, <3>2
  <2>6. SizesBacked'
    BY <2>2, <2>5 DEF SizesBacked, Elements, LastOf
  <2> QED
    BY <2>2, <2>3, <2>6 DEF RowStarted
<1>4. CASE UNCHANGED << size, offsets >>
  <2>1. WellNested(offsets)'
    BY <1>1, <1>4, NestedAfter
  <2> QED
    BY <1>1, <1>4, <2>1 DEF SizesBacked, RowStarted, Elements
<1> QED
  BY <1>2, <1>3, <1>4

-----------------------------------------------------------------------------
(* Every step keeps the lists nested, their offsets small, and the open    *)
(* lists backed by their sizes.                                            *)
LEMMA NestedPreserved ==
  ASSUME ProtocolAssumption, Inv, [Next]_vars
  PROVE  WellNested(offsets)' /\ SizesBacked' /\ RowStarted'
<1>1. /\ depth \in 0 .. 3 /\ coords \in Seq(Nat) /\ size \in [Lvl -> Nat]
      /\ offsets \in [Lvl -> Seq(Nat)]
      /\ WellNested(offsets) /\ SizesBacked /\ RowStarted
      /\ \A l \in 0 .. 2 : l \in Lvl
  BY DEF Inv, TypeOK, WriterTypeOK, Lvl
<1>2. CASE FeatStart
  <2>1. /\ depth' = depth /\ coords' = coords /\ offsets' = offsets
        /\ size' = SizeAtFeature
    BY <1>2 DEF FeatStart, listVars
  <2>2. WellNested(offsets)'
    BY <1>1, <2>1, NestedAfter
  <2>3. size'[0] = 0 /\ \A l \in 1 .. depth - 1 : size'[l] = 0
    BY <1>1, <2>1 DEF SizeAtFeature, CoordLevel, Lvl
  <2>4. SizesBacked'
    <3>1. ASSUME NEW l \in 1 .. depth - 1
          PROVE  size'[l] <= Elements(offsets, l) - LastOf(offsets[l])
      <4>1. /\ Elements(offsets, l) \in Nat /\ LastOf(offsets[l]) \in Nat
            /\ LastOf(offsets[l]) <= Elements(offsets, l)
        <5>1. l \in 0 .. depth - 1
          BY <1>1
        <5> QED
          BY <1>1, <5>1, ElementsFit, Zenon
      <4>2. size'[l] = 0
        BY <2>3
      <4>3. 0 <= Elements(offsets, l) - LastOf(offsets[l])
        BY <4>1
      <4> QED
        BY <4>2, <4>3
    <3> QED
      BY <2>1, <3>1 DEF SizesBacked, Elements, LastOf
  <2> QED
    BY <2>2, <2>3, <2>4 DEF RowStarted
<1>3. CASE NullFeat \/ (\E type \in GeomTypes, dims \in Dims : GeomStart(type, dims))
             \/ RingStart
  <2>1. /\ depth' = depth /\ coords' = coords /\ offsets' = offsets
        /\ size' = size
    BY <1>3 DEF NullFeat, GeomStart, RingStart, listVars, shapeVars
  <2>2. open # << >>
    BY <1>3, EmptySeq DEF NullFeat, ReadNullFeat, GeomStart, ReadGeomStart,
       RingStart, ReadRingStart, InGeometry, Idle
  <2>3. WellNested(offsets)'
    BY <1>1, <2>1, NestedAfter
  <2> QED
    BY <1>1, <2>1, <2>2, <2>3 DEF SizesBacked, RowStarted, Elements
<1>4. ASSUME NEW n \in 0 .. MaxChunk, Coords(n)
      PROVE  WellNested(offsets)' /\ SizesBacked' /\ RowStarted'
  <2>1. /\ depth' = depth /\ offsets' = offsets /\ n \in Nat
        /\ coords' = coords \o [i \in 1 .. n |-> Label]
        /\ size' = [size EXCEPT ![CoordLevel] = @ + n]
        /\ open # << >>
    BY <1>4, EmptySeq DEF Coords, ReadCoords, InGeometry, ProtocolAssumption
  <2>2. [i \in 1 .. n |-> Label] \in Seq(Nat) /\ Len([i \in 1 .. n |-> Label]) = n
    BY <2>1, LabelType DEF Inv, TypeOK
  <2>3. coords' \in Seq(Nat) /\ Len(coords') = Len(coords) + n
        /\ Len(coords) \in Nat
    BY <1>1, <2>1, <2>2
  <2>4. WellNested(offsets)'
    BY <1>1, <2>1, <2>3, NestedMoreCoords
  <2>5. CoordLevel \in Lvl /\ (depth >= 2 => CoordLevel = depth - 1)
        /\ (depth < 2 => CoordLevel = depth)
    BY <1>1 DEF CoordLevel, Lvl
  <2>6. SizesBacked'
    <3>1. ASSUME NEW l \in 1 .. depth - 1
          PROVE  size'[l] <= Elements(offsets, l)' - LastOf(offsets[l])
      <4>0. l \in Lvl
        BY <1>1 DEF Lvl
      <4>1. /\ Elements(offsets, l) \in Nat /\ LastOf(offsets[l]) \in Nat
            /\ size[l] \in Nat /\ l \in Lvl
        BY <1>1, <4>0, ElementsFit
      <4>2. size[l] <= Elements(offsets, l) - LastOf(offsets[l])
        BY <1>1, <2>1 DEF SizesBacked, LastOf
      <4>3. CASE l = depth - 1
        <5>1. Elements(offsets, l)' = Elements(offsets, l) + n
          BY <2>1, <2>3, <4>3 DEF Elements
        <5>2. size'[l] = size[l] + n
          BY <1>1, <2>1, <2>5, <4>1, <4>3
        <5> QED
          BY <2>1, <4>1, <4>2, <5>1, <5>2
      <4>4. CASE l # depth - 1
        <5>1. Elements(offsets, l)' = Elements(offsets, l)
          BY <2>1, <4>4 DEF Elements
        <5>2. size'[l] = size[l]
          BY <1>1, <2>1, <2>5, <4>1, <4>4
        <5> QED
          BY <4>1, <4>2, <5>1, <5>2
      <4> QED
        BY <4>3, <4>4
    <3> QED
      BY <2>1, <3>1 DEF SizesBacked, LastOf
  <2>7. RowStarted'
    <3>1. CASE depth = 0
      <4>1. size'[0] = size[0] + n
        BY <1>1, <2>1, <2>5, <3>1 DEF Lvl
      <4>2. size[0] \in Nat
        BY <1>1
      <4> QED
        BY <1>1, <2>1, <2>3, <3>1, <4>1, <4>2 DEF RowStarted
    <3>2. CASE depth = 1
      <4>1. size'[0] = size[0]
        BY <1>1, <2>1, <2>5, <3>2 DEF Lvl
      <4> QED
        BY <1>1, <2>1, <3>2, <4>1 DEF RowStarted
    <3> QED
      BY <2>1, <3>1, <3>2 DEF RowStarted
  <2> QED
    BY <2>4, <2>6, <2>7
<1>5. CASE RingEnd
  <2>1. open # << >>
    BY <1>5, EmptySeq DEF RingEnd, ReadRingEnd, InGeometry
  <2> QED
    BY <1>5, <2>1, SequenceEnds DEF RingEnd
<1>6. CASE GeomEnd
  <2>1. open # << >>
    BY <1>6, EmptySeq DEF GeomEnd, ReadGeomEnd, InGeometry
  <2> QED
    BY <1>6, <2>1, SequenceEnds DEF GeomEnd
<1>7. CASE PolygonEnd
  <2>1. /\ open # << >> /\ depth = 3 /\ depth' = depth /\ coords' = coords
    BY <1>7, EmptySeq DEF PolygonEnd, ReadGeomEnd, InGeometry, EndsPolygon
  <2>2. CASE ~(size[1] > 0)
    BY <1>7, <2>1, <2>2, SequenceEnds DEF PolygonEnd
  <2>3. CASE size[1] > 0
    <3> DEFINE closed == Close(offsets, 1)
    <3>1. /\ offsets' = closed /\ size' = [size EXCEPT ![0] = @ + 1, ![1] = 0]
      BY <1>7, <2>3 DEF PolygonEnd
    <3>2. /\ Elements(offsets, 1) \in Nat /\ Elements(offsets, 1) <= MaxOffset
          /\ LastOf(offsets[1]) \in Nat
      BY <1>1, <2>1, ElementsFit
    <3>3. size[1] <= Elements(offsets, 1) - LastOf(offsets[1]) /\ size[1] \in Nat
      BY <1>1, <2>1 DEF SizesBacked, LastOf
    <3>4. LastOf(offsets[1]) < Elements(offsets, 1)
      BY <2>3, <3>2, <3>3
    <3>5. /\ WellNested(closed) /\ LastOf(closed[1]) = Elements(offsets, 1)
          /\ Elements(closed, 1) = Elements(offsets, 1)
          /\ closed[2] = offsets[2]
      <4>1. 1 \in 0 .. depth - 1 /\ 2 \in Lvl /\ 2 # 1
        BY <1>1, <2>1
      <4>2. /\ WellNested(closed) /\ LastOf(closed[1]) = Elements(offsets, 1)
            /\ Elements(closed, 1) = Elements(offsets, 1)
            /\ \A k \in Lvl : k # 1 => closed[k] = offsets[k]
        BY <1>1, <3>2, <3>4, <4>1, CloseWellNested
      <4> QED
        BY <4>1, <4>2
    <3> HIDE DEF closed
    <3>6. WellNested(offsets)'
      BY <2>1, <3>1, <3>5, NestedAfter
    <3>7. size'[1] = 0 /\ size'[2] = size[2] /\ size[2] \in Nat
      BY <1>1, <3>1
    <3>8. size'[1] <= Elements(closed, 1) - LastOf(closed[1])
      BY <3>2, <3>5, <3>7
    <3>9. size'[2] <= Elements(closed, 2) - LastOf(closed[2])
      <4>1. size[2] <= Elements(offsets, 2) - LastOf(offsets[2])
        BY <1>1, <2>1 DEF SizesBacked, LastOf
      <4>2. Elements(offsets, 2) = Elements(closed, 2)
        BY <2>1 DEF Elements
      <4> QED
        BY <3>5, <3>7, <4>1, <4>2
    <3>10. SizesBacked'
      <4>1. ASSUME NEW l \in 1 .. depth - 1
            PROVE  size'[l] <= Elements(closed, l) - LastOf(closed[l])
        <5>1. l = 1 \/ l = 2
          BY <2>1
        <5> QED
          BY <3>8, <3>9, <5>1
      <4> QED
        BY <2>1, <3>1, <4>1 DEF SizesBacked, Elements, LastOf
    <3> QED
      BY <2>1, <3>6, <3>10 DEF RowStarted
  <2> QED
    BY <2>2, <2>3
<1>8. CASE FeatEnd
  <2>1. /\ depth' = depth /\ open # << >> /\ open' = << >>
    BY <1>8, EmptySeq DEF FeatEnd, ReadFeatEnd, FeatureComplete
  <2>2. CASE PointEnd
    <3>1. coords' \in Seq(Nat) /\ Len(coords) <= Len(coords')
      BY <1>1, <2>2 DEF PointEnd, NaN
    <3> QED
      BY <1>1, <2>1, <2>2, <3>1, NestedMoreCoords
      DEF PointEnd, SizesBacked, RowStarted
  <2>3. CASE LinestringEnd
    <3>1. coords' = coords /\ depth = 1
      BY <2>3 DEF LinestringEnd
    <3>2. CASE size[0] = 0
      <4>1. offsets' = Close(offsets, 0) /\ Elements(offsets, 0) <= MaxOffset
        BY <2>3, <3>1, <3>2 DEF LinestringEnd, Elements, Fits
      <4>2. WellNested(Close(offsets, 0))
        BY <1>1, <3>1, <4>1, CloseWellNested
      <4>3. WellNested(offsets)'
        BY <2>1, <3>1, <4>1, <4>2, NestedAfter
      <4> QED
        BY <2>1, <4>3 DEF SizesBacked, RowStarted
    <3>3. CASE size[0] # 0
      <4>1. WellNested(offsets)'
        BY <1>1, <2>1, <2>3, <3>1, <3>3, NestedAfter DEF LinestringEnd
      <4> QED
        BY <2>1, <4>1 DEF SizesBacked, RowStarted
    <3> QED
      BY <3>2, <3>3
  <2>4. CASE ListsEnd
    <3>1. /\ depth >= 2 /\ offsets' = RowClosed /\ coords' = coords
          /\ SequencePending => Fits
      BY <2>4 DEF ListsEnd
    <3>2. WellNested(offsets)'
      BY <2>1, <3>1, RowWellNested, NestedAfter
    <3> QED
      BY <2>1, <3>2 DEF SizesBacked, RowStarted
  <2> QED
    BY <1>8, <2>2, <2>3, <2>4 DEF FeatEnd
<1>9. CASE FeatRejected \/ Overflow \/ ReaderFails
  <2>1. depth' = depth /\ coords' = coords /\ offsets' = offsets /\ open' = << >>
    BY <1>9 DEF FeatRejected, Overflow, ReaderFails, Abandon, writerVars, listVars
  <2>2. WellNested(offsets)'
    BY <1>1, <2>1, NestedAfter
  <2> QED
    BY <2>1, <2>2 DEF SizesBacked, RowStarted
<1>10. CASE Finish
  <2>1. /\ depth' = depth /\ coords' = << >> /\ offsets' = FreshOffsets(depth)
        /\ open' = << >>
    BY <1>10 DEF Finish, Restart, BatchDone, Idle
  <2>2. WellNested(offsets)'
    <3>1. (depth \in 0 .. 3 /\ coords = << >> /\ offsets = FreshOffsets(depth)
             => WellNested(offsets))'
      BY FreshNested, PTL
    <3>2. FreshOffsets(depth)' = FreshOffsets(depth)
      BY <2>1 DEF FreshOffsets
    <3> QED
      BY <1>1, <2>1, <3>1, <3>2
  <2> QED
    BY <2>1, <2>2 DEF SizesBacked, RowStarted
<1>11. CASE UNCHANGED vars
  <2>1. /\ depth' = depth /\ coords' = coords /\ offsets' = offsets
        /\ open' = open /\ size' = size
    BY <1>11 DEF vars, protocolVars, writerVars, listVars, shapeVars
  <2>2. WellNested(offsets)'
    BY <1>1, <2>1, NestedAfter
  <2> QED
    BY <1>1, <2>1, <2>2 DEF SizesBacked, RowStarted, Elements
<1> QED
  BY <1>2, <1>3, <1>4, <1>5, <1>6, <1>7, <1>8, <1>9, <1>10, <1>11 DEF Next

-----------------------------------------------------------------------------
(* Facts about sizes and sequences, apart from the writer's state. *)
LEMMA SizeAdded ==
  ASSUME NEW f \in [Lvl -> Nat], NEW l, NEW n \in Nat
  PROVE  [f EXCEPT ![l] = @ + n] \in [Lvl -> Nat]
<1>1. CASE l \in Lvl
  <2>1. f[l] + n \in Nat
    BY <1>1
  <2> QED
    BY <2>1
<1>2. CASE l \notin Lvl
  BY <1>2
<1> QED
  BY <1>1, <1>2

LEMMA SizeCarried ==
  ASSUME NEW f \in [Lvl -> Nat], NEW l, NEW k
  PROVE  [f EXCEPT ![l] = @ + 1, ![k] = 0] \in [Lvl -> Nat]
<1> DEFINE g == [f EXCEPT ![l] = @ + 1]
<1>1. g \in [Lvl -> Nat]
  BY SizeAdded
<1>2. [g EXCEPT ![k] = 0] \in [Lvl -> Nat]
  <2> HIDE DEF g
  <2> QED
    BY <1>1
<1> QED
  BY <1>2

LEMMA CoordAppended ==
  ASSUME NEW s \in Seq(Nat)
  PROVE  Append(s, NaN) \in Seq(Nat)
BY DEF NaN

LEMMA OneLess ==
  ASSUME NEW n \in Nat, n >= 2
  PROVE  n - 1 \in Nat \ {0}
OBVIOUS

(* A feature that was ended has a row, the one its bit is for. *)
LEMMA EndedFeatureHasRow ==
  ASSUME Inv, FeatEnd
  PROVE  RowCount(depth, coords', offsets') \in Nat \ {0}
<1>1. /\ depth \in 0 .. 3 /\ coords \in Seq(Nat) /\ size \in [Lvl -> Nat]
      /\ offsets \in [Lvl -> Seq(Nat)] /\ WellNested(offsets) /\ RowStarted
      /\ 0 \in Lvl
  BY DEF Inv, TypeOK, WriterTypeOK, Lvl
<1>2. open # << >>
  <2>1. Len(open) = 1
    BY DEF FeatEnd, ReadFeatEnd, FeatureComplete
  <2> QED
    BY <2>1, EmptySeq
<1>3. CASE PointEnd
  <2>1. depth = 0 /\ Len(coords) \in Nat /\ size[0] \in Nat
    BY <1>1, <1>3 DEF PointEnd
  <2>2. Len(coords') \in Nat \ {0}
    <3>1. CASE size[0] = 0
      BY <1>1, <1>3, <3>1 DEF PointEnd, NaN
    <3>2. CASE size[0] # 0
      BY <1>1, <1>2, <1>3, <2>1, <3>2 DEF PointEnd, RowStarted
    <3> QED
      BY <3>1, <3>2
  <2> QED
    BY <2>1, <2>2 DEF RowCount
<1>4. CASE LinestringEnd
  <2>1. depth = 1 /\ Len(offsets[0]) \in Nat /\ Len(offsets[0]) >= 1
        /\ size[0] \in Nat
    <3>1. depth = 1
      BY <1>4 DEF LinestringEnd
    <3> QED
      BY <1>1, <3>1, ElementsFit
  <2>2. Len(offsets'[0]) >= 2 /\ Len(offsets'[0]) \in Nat
    <3>1. CASE size[0] = 0
      <4>1. offsets' = Close(offsets, 0) /\ Elements(offsets, 0) <= MaxOffset
        BY <1>4, <2>1, <3>1 DEF LinestringEnd, Elements, Fits
      <4>2. Len(Close(offsets, 0)[0]) = Len(offsets[0]) + 1
        <5>1. 0 \in 0 .. depth - 1
          BY <2>1
        <5> QED
          BY <1>1, <4>1, <5>1, CloseWellNested
      <4> QED
        BY <2>1, <4>1, <4>2
    <3>2. CASE size[0] # 0
      BY <1>1, <1>2, <1>4, <2>1, <3>2 DEF LinestringEnd, RowStarted
    <3> QED
      BY <3>1, <3>2
  <2>3. depth # 0
    BY <2>1
  <2>4. RowCount(depth, coords', offsets') = Len(offsets'[0]) - 1
    BY <2>3, Zenon DEF RowCount
  <2>5. Len(offsets'[0]) - 1 \in Nat \ {0}
    BY <2>2, OneLess, Zenon
  <2> QED
    BY <2>4, <2>5, Zenon
<1>5. CASE ListsEnd
  <2>1. depth >= 2 /\ offsets' = RowClosed /\ (SequencePending => Fits)
    BY <1>5 DEF ListsEnd
  <2>2. WellNested(RowClosed) /\ Len(RowClosed[0]) >= 2
    BY <1>2, <2>1, RowWellNested
  <2>3. Len(RowClosed[0]) \in Nat
    BY <1>1, <2>2 DEF WellNested
  <2>4. RowCount(depth, coords', offsets') = Len(RowClosed[0]) - 1
    BY <1>1, <2>1 DEF RowCount
  <2>5. Len(RowClosed[0]) - 1 \in Nat \ {0}
    BY <2>2, <2>3, OneLess, Zenon
  <2> QED
    BY <2>4, <2>5, Zenon
<1> QED
  BY <1>3, <1>4, <1>5 DEF FeatEnd

(* Every step keeps the null count and the bits of the bitmap together. *)
LEMMA NullsPreserved ==
  ASSUME Inv, [Next]_vars
  PROVE  NullsCounted' /\ validity' \in Bitmap /\ nullCount' \in Nat
<1>1. validity \in Bitmap /\ nullCount \in Nat /\ NullsCounted
  BY DEF Inv, TypeOK, WriterTypeOK
<1>2. CASE FeatEnd
  <2>1. RowCount(depth, coords', offsets') \in Nat \ {0}
    BY <1>2, EndedFeatureHasRow
  <2>2. CASE featIsNull
    <3> DEFINE length == RowCount(depth, coords', offsets')
    <3>1. validity' = MarkNull(validity, length) /\ nullCount' = nullCount + 1
      BY <1>2, <2>2 DEF FeatEnd, MarkRow
    <3> HIDE DEF length
    <3>2. length \in Nat \ {0} /\ length \in Nat
      BY <2>1 DEF length
    <3>3. /\ MarkNull(validity, length) \in Bitmap
          /\ MarkNull(validity, length).data
          /\ NullCount(MarkNull(validity, length)) = NullCount(validity) + 1
      BY <1>1, <3>2, MarkNullCounts, BitmapTypes, Zenon DEF NullsCounted
    <3> QED
      BY <1>1, <3>1, <3>3 DEF NullsCounted
  <2>3. CASE ~featIsNull
    BY <1>1, <1>2, <2>1, <2>3, MarkValidCounts, BitmapTypes
    DEF FeatEnd, MarkRow, NullsCounted
  <2> QED
    BY <2>2, <2>3
<1>3. CASE Finish
  <2>1. nullCount' = 0 /\ validity' = Emptied(validity)
    BY <1>3 DEF Finish, Restart
  <2>2. Emptied(validity) \in Bitmap /\ Emptied(validity).bits = << >>
    BY <1>1, EmptySeq DEF Emptied, Bitmap
  <2>3. NullCount(Emptied(validity)) = 0
    BY <2>2, NoBitsNoNulls
  <2> QED
    BY <2>1, <2>2, <2>3 DEF NullsCounted
<1>4. CASE ~FeatEnd /\ ~Finish
  <2>1. validity' = validity /\ nullCount' = nullCount
    BY <1>4 DEF Next, FeatStart, NullFeat, GeomStart, RingStart, Coords, RingEnd,
       GeomEnd, PolygonEnd, FeatRejected, Overflow, ReaderFails, vars,
       writerVars, bitVars
  <2> QED
    BY <1>1, <2>1 DEF NullsCounted
<1> QED
  BY <1>2, <1>3, <1>4

LEMMA TypePreserved ==
  ASSUME ProtocolAssumption, Inv, [Next]_vars
  PROVE  WriterTypeOK'
<1>1. WriterTypeOK /\ depth \in 0 .. 3
  BY DEF Inv, TypeOK, WriterTypeOK
<1>2. /\ offsets' \in [Lvl -> Seq(Nat)]
      /\ validity' \in Bitmap /\ nullCount' \in Nat
  BY NestedPreserved, NullsPreserved DEF WellNested
<1>3. depth' = depth
  BY DEF Next, FeatStart, NullFeat, GeomStart, RingStart, Coords, RingEnd,
     GeomEnd, PolygonEnd, FeatEnd, FeatRejected, Overflow, ReaderFails, Finish,
     vars, writerVars
<1>4. coords' \in Seq(Nat)
  <2>1. ASSUME NEW n \in 0 .. MaxChunk, Coords(n)
        PROVE  coords' \in Seq(Nat)
    <3>1. [i \in 1 .. n |-> Label] \in Seq(Nat)
      BY LabelType DEF Inv, TypeOK, ProtocolAssumption
    <3> QED
      BY <1>1, <2>1, <3>1 DEF Coords, WriterTypeOK
  <2>2. CASE FeatEnd
    <3>1. coords' = coords \/ coords' = Append(coords, NaN)
      BY <2>2 DEF FeatEnd, PointEnd, LinestringEnd, ListsEnd
    <3>2. coords \in Seq(Nat)
      BY <1>1 DEF WriterTypeOK
    <3> QED
      BY <3>1, <3>2, CoordAppended, Zenon
  <2>3. CASE Finish
    BY <2>3, EmptySeq DEF Finish, Restart
  <2>4. CASE ~(\E n \in 0 .. MaxChunk : Coords(n)) /\ ~FeatEnd /\ ~Finish
    <3>1. coords' = coords
      BY <2>4 DEF Next, FeatStart, NullFeat, GeomStart, RingStart, RingEnd,
         GeomEnd, PolygonEnd, FeatRejected, Overflow, ReaderFails, vars,
         writerVars, listVars
    <3> QED
      BY <1>1, <3>1 DEF WriterTypeOK
  <2> QED
    BY <2>1, <2>2, <2>3, <2>4
<1>5. size' \in [Lvl -> Nat]
  <2>1. size \in [Lvl -> Nat]
    BY <1>1 DEF WriterTypeOK
  <2>2. CASE FeatStart
    BY <2>1, <2>2 DEF FeatStart, SizeAtFeature
  <2>3. ASSUME NEW n \in 0 .. MaxChunk, Coords(n)
        PROVE  size' \in [Lvl -> Nat]
    <3>1. n \in Nat
      BY DEF ProtocolAssumption
    <3>2. size' = [size EXCEPT ![CoordLevel] = @ + n]
      BY <2>3 DEF Coords
    <3>3. [size EXCEPT ![CoordLevel] = @ + n] \in [Lvl -> Nat]
      BY <2>1, <3>1, SizeAdded, Zenon
    <3> QED
      BY <3>2, <3>3, Zenon
  <2>4. CASE RingEnd \/ GeomEnd \/ PolygonEnd \/ Overflow
    <3>1. \/ size' = size
          \/ size' = SequenceCounted
          \/ size' = [size EXCEPT ![0] = @ + 1]
          \/ size' = [size EXCEPT ![0] = @ + 1, ![1] = 0]
      BY <2>4 DEF RingEnd, GeomEnd, PolygonEnd, Overflow
    <3>2. [size EXCEPT ![0] = @ + 1] \in [Lvl -> Nat]
      BY <2>1, SizeAdded
    <3>3. [size EXCEPT ![0] = @ + 1, ![1] = 0] \in [Lvl -> Nat]
      BY <2>1, SizeCarried, Zenon
    <3>4. SequenceCounted \in [Lvl -> Nat]
      BY <2>1, SizeCarried, Zenon DEF SequenceCounted
    <3> QED
      BY <2>1, <3>1, <3>2, <3>3, <3>4, Zenon
  <2>5. CASE FeatEnd
    BY <2>1, <2>5 DEF FeatEnd, PointEnd, LinestringEnd, ListsEnd
  <2>6. CASE /\ ~FeatStart /\ ~(\E n \in 0 .. MaxChunk : Coords(n))
             /\ ~RingEnd /\ ~GeomEnd /\ ~PolygonEnd /\ ~Overflow /\ ~FeatEnd
    <3>1. size' = size
      BY <2>6 DEF Next, NullFeat, GeomStart, RingStart, FeatRejected,
         ReaderFails, Finish, vars, writerVars, shapeVars
    <3> QED
      BY <2>1, <3>1
  <2> QED
    BY <2>2, <2>3, <2>4, <2>5, <2>6
<1>6. level' \in Int /\ nestingMultipoint' \in Nat
  <2>1. level \in Int /\ nestingMultipoint \in Nat
    BY <1>1 DEF WriterTypeOK
  <2>2. CASE FeatStart \/ RingStart \/ RingEnd \/ GeomEnd \/ PolygonEnd \/ Overflow
    BY <2>1, <2>2 DEF FeatStart, RingStart, RingEnd, GeomEnd, PolygonEnd, Overflow
  <2>3. ASSUME NEW type \in GeomTypes, NEW dims \in Dims, GeomStart(type, dims)
        PROVE  level' \in Int /\ nestingMultipoint' \in Nat
    BY <2>1, <2>3 DEF GeomStart
  <2>4. CASE ~FeatStart /\ ~RingStart /\ ~RingEnd /\ ~GeomEnd /\ ~PolygonEnd
             /\ ~Overflow
             /\ ~(\E type \in GeomTypes, dims \in Dims : GeomStart(type, dims))
    <3>1. level' = level /\ nestingMultipoint' = nestingMultipoint
      BY <2>4 DEF Next, NullFeat, Coords, FeatEnd, FeatRejected, ReaderFails,
         Finish, vars, writerVars, shapeVars
    <3> QED
      BY <2>1, <3>1
  <2> QED
    BY <2>2, <2>3, <2>4
<1>7. featIsNull' \in BOOLEAN
  <2>1. featIsNull' = featIsNull \/ featIsNull' = TRUE \/ featIsNull' = FALSE
    BY DEF Next, FeatStart, NullFeat, GeomStart, RingStart, Coords, RingEnd,
       GeomEnd, PolygonEnd, FeatEnd, FeatRejected, Overflow, ReaderFails, Finish,
       vars, writerVars
  <2> QED
    BY <1>1, <2>1 DEF WriterTypeOK
<1>8. /\ array' \in [depth : 0 .. 3, coords : Seq(Nat),
                     offsets : [Lvl -> Seq(Nat)], nullCount : Nat,
                     validity : Bitmap, exact : BOOLEAN]
      /\ batches' \in Nat
  <2>1. CASE Finish
    <3>1. (IF validity.bits = << >> THEN NoBitmap ELSE validity) \in Bitmap
      BY <1>1, NoBitmapType DEF WriterTypeOK
    <3> QED
      BY <1>1, <2>1, <3>1 DEF Finish, HandedOver, WriterTypeOK
  <2>2. CASE ~Finish
    <3>1. array' = array /\ batches' = batches
      BY <2>2 DEF Next, FeatStart, NullFeat, GeomStart, RingStart, Coords,
         RingEnd, GeomEnd, PolygonEnd, FeatEnd, FeatRejected, Overflow,
         ReaderFails, vars, writerVars, outVars
    <3> QED
      BY <1>1, <3>1 DEF WriterTypeOK
  <2> QED
    BY <2>1, <2>2
<1> QED
  BY <1>1, <1>2, <1>3, <1>4, <1>5, <1>6, <1>7, <1>8 DEF WriterTypeOK

-----------------------------------------------------------------------------
LEMMA InitInv ==
  ASSUME ProtocolAssumption, NativeAssumption, Init
  PROVE  Inv
<1>1. ProtocolTypeOK /\ Nesting
  BY EmptySeq DEF Init, ProtocolInit, ProtocolTypeOK, Nesting, InGeometry
<1>2. depth \in 0 .. 3 /\ coords = << >> /\ offsets = FreshOffsets(depth)
  BY DEF Init, NativeAssumption
<1>3. WellNested(offsets)
  BY <1>2, FreshNested
<1>4. array \in [depth : 0 .. 3, coords : Seq(Nat),
                offsets : [Lvl -> Seq(Nat)], nullCount : Nat,
                validity : Bitmap, exact : BOOLEAN]
  <2>1. FreshOffsets(0) \in [Lvl -> Seq(Nat)]
    <3>1. ASSUME NEW l \in Lvl
          PROVE  (IF l < 0 THEN << 0 >> ELSE << >>) \in Seq(Nat)
      BY EmptySeq
    <3> QED
      BY <3>1 DEF FreshOffsets
  <2> QED
    BY <2>1, NoBitmapType, EmptySeq DEF Init, NoArray
<1>5. WriterTypeOK
  <2>1. coords \in Seq(Nat) /\ offsets \in [Lvl -> Seq(Nat)]
    BY <1>2, <1>3, EmptySeq DEF WellNested
  <2> QED
    <3>1. size \in [Lvl -> Nat]
      BY DEF Init
    <3>2. /\ level = 0 /\ nestingMultipoint = 0 /\ nullCount = 0
          /\ batches = 0
      BY DEF Init
    <3>3. /\ level \in Int /\ nestingMultipoint \in Nat /\ nullCount \in Nat
          /\ batches \in Nat
      BY <3>2
    <3>4. featIsNull \in BOOLEAN /\ validity \in Bitmap
      <4>1. featIsNull = FALSE /\ validity = NoBitmap
        BY DEF Init
      <4> QED
        BY <4>1, NoBitmapType, Zenon
    <3> QED
      BY <1>2, <1>4, <2>1, <3>1, <3>3, <3>4, Zenon DEF WriterTypeOK
<1>6. NullsCounted
  <2>1. NoBitmap.bits = << >>
    BY DEF NoBitmap
  <2>2. NullCount(NoBitmap) = 0
    BY <2>1, NoBitsNoNulls
  <2> QED
    BY <2>1, <2>2 DEF Init, NullsCounted
<1> QED
  BY <1>1, <1>3, <1>5, <1>6 DEF Inv, TypeOK, SizesBacked, RowStarted, Init,
     ProtocolInit

LEMMA StepInv ==
  ASSUME ProtocolAssumption, NativeAssumption, Inv, [Next]_vars
  PROVE  Inv'
<1>1. ProtocolTypeOK' /\ Nesting'
  BY StepIsCall, ProtocolPreserved DEF Inv, TypeOK
<1> QED
  BY <1>1, TypePreserved, NestedPreserved, NullsPreserved DEF Inv, TypeOK

THEOREM InvCorrect == Spec => []Inv
BY InitInv, StepInv, ProtocolAssumption, NativeAssumption, PTL DEF Spec

(* Every variable of the writer and of its caller keeps its type, for any  *)
(* sequence of visits: in particular no offset that is computed from the   *)
(* size of a buffer is ever negative.                                      *)
THEOREM TypeCorrect == Spec => []TypeOK
BY InvCorrect, PTL DEF Inv

(* The lists of the four families of callbacks nest at every moment, for   *)
(* features of any shape, rejected and abandoned ones included.            *)
THEOREM ListsCorrect == Spec => []ListsNest
<1>1. Inv => ListsNest
  <2>1. ASSUME Inv, NEW l \in 0 .. depth - 1
        PROVE  LevelNests(l)
    BY <2>1 DEF Inv, WellNested, Nests, LevelNests, LastOf
  <2> QED
    BY <2>1 DEF ListsNest
<1> QED
  BY <1>1, InvCorrect, PTL

(* The checks of the number of coordinates are enough for the offsets of   *)
(* every level, also where the number of sequences is cast without one.    *)
THEOREM OffsetsCorrect == Spec => []OffsetsFit
<1>1. Inv => OffsetsFit
  BY DEF Inv, WellNested, Bounded, OffsetsFit
<1> QED
  BY <1>1, InvCorrect, PTL

(* What the callbacks count in size[] is there, so that a list that is     *)
(* closed because of it has elements.                                      *)
THEOREM SizesCorrect == Spec => []SizesBacked
BY InvCorrect, PTL DEF Inv

(* feat_end counts a null exactly when it appends a 0 bit, and Finish      *)
(* resets both, although it keeps the memory of the bitmap.                *)
THEOREM NullsCorrect == Spec => []NullsCounted
BY InvCorrect, PTL DEF Inv

-----------------------------------------------------------------------------
(* Batches.  BatchInv says, while no feature of the batch was abandoned,   *)
(* where the rows, the elements of the open lists and the bits are at      *)
(* every moment of a feature, and with it what Finish hands over.          *)

(* Where the row of the current feature is, as long as none was abandoned: *)
(* points and sequences are rows at once, as many as size[0] says; lists   *)
(* of lists become a row at feat_end.                                      *)
RowsInPlace ==
  failed = 0 =>
    RowCount(depth, coords, offsets)
      = Len(rows) + (IF Idle \/ depth >= 2 THEN 0 ELSE size[0])

(* Lists of lists: what is past the last offset is what was counted in the *)
(* current feature, and nothing is between two of them.                    *)
AllCounted ==
  failed = 0 /\ depth >= 2 =>
    \A l \in 0 .. depth - 1 :
      Elements(offsets, l) - LastOf(offsets[l]) = IF Idle THEN 0 ELSE size[l]

BitsInPlace ==
  failed = 0 => (validity.data => Len(validity.bits) = Len(rows))

BatchInv ==
  Inv /\ RowsInPlace /\ AllCounted /\ BitsInPlace /\ ArrayWellFormed

-----------------------------------------------------------------------------
(* What the invariant says of the types of the state. *)
LEMMA BatchTypes ==
  ASSUME Inv
  PROVE  /\ depth \in 0 .. 3 /\ coords \in Seq(Nat) /\ Len(coords) \in Nat
         /\ size \in [Lvl -> Nat] /\ offsets \in [Lvl -> Seq(Nat)]
         /\ \A l \in Lvl : Len(offsets[l]) \in Nat
         /\ WellNested(offsets)
         /\ rows \in Seq(FeatureSet) /\ Len(rows) \in Nat /\ failed \in Nat
         /\ validity \in Bitmap /\ ProtocolTypeOK
         /\ 0 \in Lvl /\ 1 \in Lvl /\ 2 \in Lvl
BY DEF Inv, TypeOK, WriterTypeOK, ProtocolTypeOK, Lvl

(* Closing a list leaves nothing open in it and one more element outside,  *)
(* if there is an outside.                                                 *)
LEMMA ClosedCounts ==
  ASSUME NEW offs \in [Lvl -> Seq(Nat)], depth \in 2 .. 3,
         coords \in Seq(Nat),
         NEW l \in 0 .. depth - 1, Elements(offs, l) \in Nat
  PROVE  LET closed == Close(offs, l)
         IN /\ closed \in [Lvl -> Seq(Nat)]
            /\ Len(closed[l]) = Len(offs[l]) + 1
            /\ Elements(closed, l) = LastOf(closed[l])
            /\ LastOf(closed[l]) = Elements(offs, l)
            /\ \A k \in 0 .. depth - 1 : k # l =>
                 /\ LastOf(closed[k]) = LastOf(offs[k])
                 /\ Elements(closed, k)
                      = Elements(offs, k) + (IF k = l - 1 THEN 1 ELSE 0)
<1> DEFINE closed == Close(offs, l)
<1>1. /\ l \in Lvl /\ offs[l] \in Seq(Nat)
      /\ closed \in [Lvl -> Seq(Nat)]
      /\ closed[l] = Append(offs[l], Elements(offs, l))
      /\ \A k \in Lvl : k # l => closed[k] = offs[k]
  BY DEF Close, Lvl
<1> HIDE DEF closed
<1>2. /\ Len(closed[l]) = Len(offs[l]) + 1 /\ Len(offs[l]) \in Nat
      /\ LastOf(closed[l]) = Elements(offs, l)
  BY <1>1 DEF LastOf
<1>3. Elements(closed, l) = Elements(offs, l)
  <2>1. l # depth - 1 => l + 1 \in Lvl /\ l + 1 # l
    BY DEF Lvl
  <2> QED
    BY <1>1, <2>1 DEF Elements
<1>4. ASSUME NEW k \in 0 .. depth - 1, k # l
      PROVE  /\ LastOf(closed[k]) = LastOf(offs[k])
             /\ Elements(closed, k)
                  = Elements(offs, k) + (IF k = l - 1 THEN 1 ELSE 0)
  <2>1. k \in Lvl /\ closed[k] = offs[k]
    BY <1>1, <1>4 DEF Lvl
  <2>2. CASE k = depth - 1
    BY <2>1, <2>2 DEF Elements, LastOf
  <2>3. CASE k # depth - 1
    <3>1. k + 1 \in Lvl
      BY <1>4, <2>3 DEF Lvl
    <3>2. Elements(closed, k) = Len(closed[k + 1]) - 1
          /\ Elements(offs, k) = Len(offs[k + 1]) - 1
          /\ Len(offs[k + 1]) \in Nat
      BY <2>3, <3>1 DEF Elements
    <3>3. CASE k + 1 = l
      <4>1. Len(closed[k + 1]) = Len(offs[k + 1]) + 1 /\ k = l - 1
        BY <1>2, <3>3
      <4> QED
        BY <2>1, <3>2, <4>1 DEF LastOf
    <3>4. CASE k + 1 # l
      <4>1. closed[k + 1] = offs[k + 1] /\ k # l - 1
        BY <1>1, <3>1, <3>4
      <4> QED
        BY <2>1, <3>2, <4>1 DEF LastOf
    <3> QED
      BY <3>3, <3>4
  <2> QED
    BY <2>2, <2>3
<1> QED
  BY <1>1, <1>2, <1>3, <1>4 DEF closed

(* A list inside a row ends, and counts as one more element outside.       *)
LEMMA ListEnds ==
  ASSUME Inv, RowsInPlace, AllCounted, ~Idle, depth >= 2,
         NEW l \in 1 .. depth - 1,
         offsets' = Close(offsets, l),
         size' = [size EXCEPT ![l - 1] = @ + 1, ![l] = 0],
         depth' = depth, coords' = coords, rows' = rows, failed' = failed,
         open' # << >>
  PROVE  RowsInPlace' /\ AllCounted'
<1> DEFINE closed == Close(offsets, l)
<1>1. /\ depth \in 2 .. 3 /\ coords \in Seq(Nat) /\ size \in [Lvl -> Nat]
      /\ offsets \in [Lvl -> Seq(Nat)] /\ WellNested(offsets)
      /\ l \in 0 .. depth - 1
  BY BatchTypes
<1>2. /\ Elements(offsets, l) \in Nat
      /\ \A k \in 0 .. depth - 1 :
           Elements(offsets, k) \in Nat /\ LastOf(offsets[k]) \in Nat
  BY <1>1, ElementsFit
<1>3. /\ closed \in [Lvl -> Seq(Nat)]
      /\ Elements(closed, l) = LastOf(closed[l])
      /\ LastOf(closed[l]) = Elements(offsets, l)
      /\ \A k \in 0 .. depth - 1 : k # l =>
           /\ LastOf(closed[k]) = LastOf(offsets[k])
           /\ Elements(closed, k)
                = Elements(offsets, k) + (IF k = l - 1 THEN 1 ELSE 0)
  BY <1>1, <1>2, ClosedCounts
<1>4. closed[0] = offsets[0]
  BY <1>1 DEF Close, Lvl
<1> HIDE DEF closed
<1>5. offsets' = closed
  BY DEF closed
<1>6. RowsInPlace'
  BY <1>1, <1>4, <1>5 DEF RowsInPlace, RowCount, Idle
<1>7. AllCounted'
  <2>1. ASSUME failed = 0, NEW k \in 0 .. depth - 1
        PROVE  Elements(closed, k) - LastOf(closed[k]) = size'[k]
    <3>1. /\ k \in Lvl /\ l \in Lvl /\ l - 1 \in Lvl /\ size[k] \in Nat
          /\ Elements(offsets, k) - LastOf(offsets[k]) = size[k]
      BY <1>1, <2>1 DEF AllCounted, Lvl
    <3>2. CASE k = l
      <4>1. size'[k] = 0
        BY <1>1, <3>1, <3>2
      <4> QED
        BY <1>2, <1>3, <3>2, <4>1
    <3>3. CASE k = l - 1
      <4>1. size'[k] = size[k] + 1
        BY <1>1, <3>1, <3>3
      <4>2. Elements(closed, k) = Elements(offsets, k) + 1
            /\ LastOf(closed[k]) = LastOf(offsets[k])
        BY <1>3, <3>3
      <4>3. Elements(offsets, k) \in Nat /\ LastOf(offsets[k]) \in Nat
        BY <1>2
      <4> QED
        BY <3>1, <4>1, <4>2, <4>3
    <3>4. CASE k # l /\ k # l - 1
      <4>1. size'[k] = size[k]
        BY <1>1, <3>1, <3>4
      <4>2. Elements(closed, k) = Elements(offsets, k)
            /\ LastOf(closed[k]) = LastOf(offsets[k])
        BY <1>2, <1>3, <3>4
      <4> QED
        BY <3>1, <4>1, <4>2
    <3> QED
      BY <3>2, <3>3, <3>4
  <2> QED
    BY <1>5, <2>1 DEF AllCounted, Idle, Elements, LastOf
<1> QED
  BY <1>6, <1>7

(* ring_end and geom_end keep what was counted.                            *)
LEMMA SequenceCounts ==
  ASSUME Inv, RowsInPlace, AllCounted, ~Idle,
         depth' = depth, coords' = coords, rows' = rows, failed' = failed,
         open' # << >>,
         \/ /\ depth = 1
            /\ size' = [size EXCEPT ![0] = @ + 1]
            /\ offsets' = Close(offsets, 0)
         \/ /\ SequencePending
            /\ size' = SequenceCounted
            /\ offsets' = Close(offsets, depth - 1)
         \/ UNCHANGED << size, offsets >>
  PROVE  RowsInPlace' /\ AllCounted'
<1>1. /\ depth \in 0 .. 3 /\ size \in [Lvl -> Nat] /\ 0 \in Lvl
      /\ offsets \in [Lvl -> Seq(Nat)] /\ Len(rows) \in Nat
  BY BatchTypes
<1>2. CASE /\ depth = 1
           /\ size' = [size EXCEPT ![0] = @ + 1]
           /\ offsets' = Close(offsets, 0)
  <2>1. Len(offsets'[0]) = Len(offsets[0]) + 1 /\ Len(offsets[0]) \in Nat
    BY <1>1, <1>2 DEF Close
  <2>2. size'[0] = size[0] + 1 /\ size[0] \in Nat
    BY <1>1, <1>2
  <2>3. AllCounted'
    BY <1>2 DEF AllCounted
  <2>4. RowCount(depth, coords, offsets)' = RowCount(depth, coords, offsets) + 1
        /\ RowCount(depth, coords, offsets) \in Int
    BY <1>2, <2>1 DEF RowCount
  <2>5. RowsInPlace'
    BY <1>1, <1>2, <2>2, <2>4 DEF RowsInPlace, Idle
  <2> QED
    BY <2>3, <2>5
<1>3. CASE /\ SequencePending
           /\ size' = SequenceCounted
           /\ offsets' = Close(offsets, depth - 1)
  <2> DEFINE l == depth - 1
  <2>1. depth >= 2 /\ l \in 1 .. depth - 1 /\ l - 1 = depth - 2
    BY <1>1, <1>3 DEF SequencePending
  <2>2. offsets' = Close(offsets, l)
        /\ size' = [size EXCEPT ![l - 1] = @ + 1, ![l] = 0]
    BY <1>3, <2>1 DEF SequenceCounted
  <2> HIDE DEF l
  <2> QED
    BY <2>1, <2>2, ListEnds
<1>4. CASE UNCHANGED << size, offsets >>
  BY <1>4 DEF RowsInPlace, AllCounted, RowCount, Elements, Idle
<1> QED
  BY <1>2, <1>3, <1>4

(* The lists of level l and inside of it have no open elements. *)
Settled(offs, l) ==
  \A k \in l .. depth - 1 : Elements(offs, k) = LastOf(offs[k])

LEMMA SettledOutside ==
  ASSUME NEW offs \in [Lvl -> Seq(Nat)], depth \in 2 .. 3,
         coords \in Seq(Nat), NEW l \in 0 .. depth - 1,
         Elements(offs, l) \in Nat, NEW inside, inside = l + 1,
         Settled(offs, inside)
  PROVE  /\ Settled(Close(offs, l), l)
         /\ Close(offs, l) \in [Lvl -> Seq(Nat)]
         /\ Len(Close(offs, l)[l]) = Len(offs[l]) + 1
<1> DEFINE closed == Close(offs, l)
<1>1. /\ closed \in [Lvl -> Seq(Nat)]
      /\ Len(closed[l]) = Len(offs[l]) + 1
      /\ Elements(closed, l) = LastOf(closed[l])
      /\ \A k \in 0 .. depth - 1 : k # l =>
           /\ LastOf(closed[k]) = LastOf(offs[k])
           /\ Elements(closed, k)
                = Elements(offs, k) + (IF k = l - 1 THEN 1 ELSE 0)
  BY ClosedCounts
<1> HIDE DEF closed
<1>2. ASSUME NEW k \in l .. depth - 1, k # l
      PROVE  Elements(closed, k) = LastOf(closed[k])
  <2>1. k \in l + 1 .. depth - 1 /\ k \in 0 .. depth - 1 /\ k # l - 1
    BY <1>2
  <2>2. Elements(offs, k) = LastOf(offs[k])
    BY <2>1 DEF Settled
  <2>3. Elements(offs, k) \in Int
    <3>1. k + 1 \in Lvl \/ k = depth - 1
      BY <2>1 DEF Lvl
    <3> QED
      BY <3>1 DEF Elements
  <2> QED
    BY <1>1, <1>2, <2>1, <2>2, <2>3
<1> QED
  BY <1>1, <1>2 DEF Settled, closed

(* What feat_end leaves behind of a list of lists: no open elements, and   *)
(* one more row.                                                           *)
LEMMA RowCloses ==
  ASSUME Inv, AllCounted, failed = 0, ~Idle, depth >= 2, SequencePending => Fits
  PROVE  /\ Settled(RowClosed, 0)
         /\ Len(RowClosed[0]) = Len(offsets[0]) + 1
<1>1. /\ depth \in 2 .. 3 /\ coords \in Seq(Nat) /\ size \in [Lvl -> Nat]
      /\ offsets \in [Lvl -> Seq(Nat)] /\ WellNested(offsets)
      /\ 0 \in Lvl /\ 1 \in Lvl /\ 2 \in Lvl
  BY BatchTypes
<1>2. \A k \in 0 .. depth - 1 :
         /\ Elements(offsets, k) \in Nat /\ LastOf(offsets[k]) \in Nat
         /\ Elements(offsets, k) - LastOf(offsets[k]) = size[k]
  BY <1>1, ElementsFit DEF AllCounted
<1>3. ASSUME NEW k \in 0 .. depth - 1, size[k] = 0
      PROVE  Elements(offsets, k) = LastOf(offsets[k])
  BY <1>2, <1>3
<1>4. ASSUME NEW offs \in [Lvl -> Seq(Nat)], Settled(offs, 1),
             Elements(offs, 0) \in Nat, offs[0] = offsets[0]
      PROVE  /\ Settled(Close(offs, 0), 0)
             /\ Len(Close(offs, 0)[0]) = Len(offsets[0]) + 1
  <2>1. 1 = 0 + 1 /\ 0 \in 0 .. depth - 1
    BY <1>1
  <2> QED
    BY <1>1, <1>4, <2>1, SettledOutside
<1>5. /\ ListsClosed \in [Lvl -> Seq(Nat)] /\ Settled(ListsClosed, 1)
      /\ ListsClosed[0] = offsets[0] /\ Len(ListsClosed[1]) >= 1
  <2>1. CASE ~LeftOver(1)
    <3>1. ListsClosed = offsets /\ \A k \in 1 .. depth - 1 : size[k] = 0
      BY <1>1, <2>1 DEF ListsClosed, SequencesClosed, LeftOver, Lvl
    <3>2. Len(offsets[1]) >= 1
      BY <1>1, ElementsFit
    <3> QED
      BY <1>1, <1>3, <3>1, <3>2 DEF Settled
  <2>2. CASE LeftOver(1) /\ depth = 2
    <3>1. ListsClosed = Close(offsets, 1)
      BY <2>2 DEF ListsClosed, SequencesClosed
    <3>2. Settled(offsets, 2)
      BY <2>2 DEF Settled
    <3>3. Settled(Close(offsets, 1), 1) /\ Close(offsets, 1) \in [Lvl -> Seq(Nat)]
          /\ Len(Close(offsets, 1)[1]) = Len(offsets[1]) + 1
      <4>1. 2 = 1 + 1 /\ 1 \in 0 .. depth - 1
        BY <2>2
      <4> QED
        BY <1>1, <1>2, <3>2, <4>1, SettledOutside
    <3>4. Close(offsets, 1)[0] = offsets[0] /\ Len(offsets[1]) \in Nat
      BY <1>1 DEF Close
    <3> QED
      BY <3>1, <3>3, <3>4
  <2>3. CASE LeftOver(1) /\ depth = 3
    <3> DEFINE inner == SequencesClosed
    <3>1. ListsClosed = Close(inner, 1)
      BY <2>3 DEF ListsClosed
    <3>2. /\ inner \in [Lvl -> Seq(Nat)] /\ Settled(inner, 2)
          /\ inner[0] = offsets[0] /\ Elements(inner, 1) \in Nat
      <4>1. CASE size[2] > 0
        <5>1. inner = Close(offsets, 2)
          BY <2>3, <4>1 DEF SequencesClosed, LeftOver
        <5>2. Settled(offsets, 3)
          BY <2>3 DEF Settled
        <5>3. /\ Settled(Close(offsets, 2), 2)
              /\ Close(offsets, 2) \in [Lvl -> Seq(Nat)]
              /\ Len(Close(offsets, 2)[2]) = Len(offsets[2]) + 1
          <6>1. 3 = 2 + 1 /\ 2 \in 0 .. depth - 1
            BY <2>3
          <6> QED
            BY <1>1, <1>2, <5>2, <6>1, SettledOutside
        <5>4. Close(offsets, 2)[0] = offsets[0]
          BY <1>1 DEF Close
        <5> HIDE DEF inner
        <5>5. Elements(inner, 1) \in Nat
          BY <1>1, <2>3, <5>1, <5>3 DEF Elements
        <5> QED
          BY <5>1, <5>3, <5>4, <5>5
      <4>2. CASE ~(size[2] > 0)
        <5>1. inner = offsets
          BY <2>3, <4>2 DEF SequencesClosed, LeftOver
        <5>2. size[2] = 0
          BY <1>1, <4>2
        <5>3. Settled(offsets, 2)
          BY <1>3, <2>3, <5>2 DEF Settled
        <5> QED
          BY <1>1, <1>2, <2>3, <5>1, <5>3
      <4> QED
        BY <4>1, <4>2
    <3> HIDE DEF inner
    <3>3. Settled(Close(inner, 1), 1) /\ Close(inner, 1) \in [Lvl -> Seq(Nat)]
          /\ Len(Close(inner, 1)[1]) = Len(inner[1]) + 1
      <4>1. 2 = 1 + 1 /\ 1 \in 0 .. depth - 1
        BY <2>3
      <4> QED
        BY <1>1, <3>2, <4>1, SettledOutside
    <3>4. Close(inner, 1)[0] = inner[0]
      BY <1>1, <3>2 DEF Close
    <3>5. Len(inner[1]) \in Nat
      BY <1>1, <3>2
    <3> QED
      BY <3>1, <3>2, <3>3, <3>4, <3>5
  <2> QED
    BY <1>1, <2>1, <2>2, <2>3
<1>6. Elements(ListsClosed, 0) \in Nat
  <2>1. Elements(ListsClosed, 0) = Len(ListsClosed[1]) - 1
    BY <1>1 DEF Elements
  <2>2. Len(ListsClosed[1]) \in Nat
    BY <1>1, <1>5
  <2> QED
    BY <1>5, <2>1, <2>2
<1> QED
  BY <1>4, <1>5, <1>6 DEF RowClosed

(* feat_end leaves a row and, if there are bits, a bit for the feature. *)
LEMMA FeatureEnds ==
  ASSUME BatchInv, FeatEnd
  PROVE  RowsInPlace' /\ AllCounted' /\ BitsInPlace'
<1>1. /\ depth \in 0 .. 3 /\ coords \in Seq(Nat) /\ Len(coords) \in Nat
      /\ size \in [Lvl -> Nat] /\ offsets \in [Lvl -> Seq(Nat)]
      /\ \A l \in Lvl : Len(offsets[l]) \in Nat
      /\ WellNested(offsets) /\ 0 \in Lvl
      /\ rows \in Seq(FeatureSet) /\ Len(rows) \in Nat /\ failed \in Nat
      /\ validity \in Bitmap /\ size[0] \in Nat
  BY BatchTypes DEF BatchInv
<1>2. Inv /\ RowsInPlace /\ AllCounted /\ BitsInPlace /\ NullsCounted
  BY DEF BatchInv, Inv
<1>3. /\ ~Idle /\ Idle' /\ failed' = failed /\ depth' = depth
      /\ Len(rows') = Len(rows) + 1
  <2>1. open # << >> /\ open' = << >> /\ failed' = failed /\ depth' = depth
    <3>1. Len(open) = 1 /\ open' = << >> /\ failed' = failed /\ depth' = depth
      BY DEF FeatEnd, ReadFeatEnd, FeatureComplete
    <3> QED
      BY <3>1, EmptySeq
  <2>2. PICK r : rows' = Append(rows, r)
    BY DEF FeatEnd, ReadFeatEnd
  <2>3. Len(rows') = Len(rows) + 1
    BY <1>1, <2>2
  <2> QED
    BY <2>1, <2>3 DEF Idle
<1>4. failed = 0 => RowCount(depth, coords', offsets') = Len(rows) + 1
  <2>1. CASE PointEnd
    <3>1. depth = 0 /\ size[0] <= 1
          /\ coords' = IF size[0] = 0 THEN Append(coords, NaN) ELSE coords
      BY <2>1 DEF PointEnd
    <3>2. failed = 0 => Len(coords) = Len(rows) + size[0]
      BY <1>2, <1>3, <3>1 DEF RowsInPlace, RowCount
    <3>3. Len(Append(coords, NaN)) = Len(coords) + 1
      BY <1>1
    <3>4. size[0] = 0 \/ size[0] = 1
      <4>1. size[0] \in Nat /\ size[0] <= 1
        BY <1>1, <3>1
      <4> QED
        BY <4>1
    <3>5. failed = 0 => Len(coords') = Len(rows) + 1
      BY <1>1, <3>1, <3>2, <3>3, <3>4
    <3> QED
      BY <3>1, <3>5 DEF RowCount
  <2>2. CASE LinestringEnd
    <3>1. depth = 1 /\ size[0] <= 1
          /\ offsets' = IF size[0] = 0 THEN Close(offsets, 0) ELSE offsets
      BY <2>2 DEF LinestringEnd
    <3>2. failed = 0 => Len(offsets[0]) - 1 = Len(rows) + size[0]
      BY <1>2, <1>3, <3>1 DEF RowsInPlace, RowCount
    <3>3. Len(Close(offsets, 0)[0]) = Len(offsets[0]) + 1
      BY <1>1 DEF Close
    <3>4. size[0] = 0 \/ size[0] = 1
      <4>1. size[0] \in Nat /\ size[0] <= 1
        BY <1>1, <3>1
      <4> QED
        BY <4>1
    <3>5. failed = 0 => Len(offsets'[0]) - 1 = Len(rows) + 1
      BY <1>1, <3>1, <3>2, <3>3, <3>4
    <3> QED
      BY <3>1, <3>5 DEF RowCount
  <2>3. CASE ListsEnd
    <3>1. depth >= 2 /\ offsets' = RowClosed /\ (SequencePending => Fits)
      BY <2>3 DEF ListsEnd
    <3>2. failed = 0 => Len(RowClosed[0]) = Len(offsets[0]) + 1
      BY <1>2, <1>3, <3>1, RowCloses
    <3>3. failed = 0 => Len(offsets[0]) - 1 = Len(rows)
      BY <1>1, <1>2, <1>3, <3>1 DEF RowsInPlace, RowCount
    <3>4. RowCount(depth, coords', offsets') = Len(RowClosed[0]) - 1
      BY <3>1 DEF RowCount
    <3>5. Len(offsets[0]) \in Nat
      BY <1>1
    <3> QED
      BY <1>1, <3>2, <3>3, <3>4, <3>5
  <2> QED
    BY <2>1, <2>2, <2>3 DEF FeatEnd
<1>5. RowsInPlace'
  BY <1>1, <1>3, <1>4 DEF RowsInPlace
<1>6. AllCounted'
  <2>1. ASSUME failed = 0, depth >= 2, NEW l \in 0 .. depth - 1
        PROVE  Elements(RowClosed, l) - LastOf(RowClosed[l]) = 0
    <3>1. SequencePending => Fits
      BY <2>1 DEF FeatEnd, PointEnd, LinestringEnd, ListsEnd
    <3>2. Elements(RowClosed, l) = LastOf(RowClosed[l])
      BY <1>2, <1>3, <2>1, <3>1, RowCloses DEF Settled
    <3>3. WellNested(RowClosed)
      BY <1>2, <1>3, <2>1, <3>1, RowWellNested DEF Idle
    <3>4. Elements(RowClosed, l) \in Nat
      BY <1>1, <3>3, ElementsFit
    <3> QED
      BY <3>2, <3>4
  <2>2. depth >= 2 => offsets' = RowClosed /\ coords' = coords
    BY DEF FeatEnd, PointEnd, LinestringEnd, ListsEnd
  <2> HIDE DEF RowClosed
  <2> QED
    BY <1>3, <2>1, <2>2 DEF AllCounted, Elements, LastOf
<1>7. BitsInPlace'
  <2> DEFINE length == RowCount(depth, coords', offsets')
  <2>1. length \in Nat \ {0}
    BY <1>2, EndedFeatureHasRow
  <2>2. failed = 0 => length = Len(rows')
    BY <1>3, <1>4
  <2>3. \/ validity' = MarkNull(validity, length)
        \/ validity' = MarkValid(validity)
    BY DEF FeatEnd, MarkRow
  <2> HIDE DEF length
  <2>4. ~validity.data => validity.bits = << >>
    BY <1>2 DEF NullsCounted
  <2>5. failed = 0 => (validity.data => Len(validity.bits) = Len(rows))
    BY <1>2 DEF BitsInPlace
  <2>6. Len(validity.bits) \in Nat /\ validity.data \in BOOLEAN
    BY <1>1 DEF Bitmap
  <2>7. CASE validity' = MarkNull(validity, length)
    <3>1. Len(MarkNull(validity, length).bits)
            = IF validity.data THEN Len(validity.bits) + 1 ELSE length
      BY <1>1, <2>1, <2>4, MarkNullCounts
    <3> QED
      BY <1>3, <2>2, <2>5, <2>7, <3>1 DEF BitsInPlace
  <2>8. CASE validity' = MarkValid(validity)
    <3>1. /\ MarkValid(validity).data = validity.data
          /\ validity.data => Len(MarkValid(validity).bits) = Len(validity.bits) + 1
      BY <1>1, MarkValidCounts
    <3> QED
      BY <1>3, <2>5, <2>8, <3>1 DEF BitsInPlace
  <2> QED
    BY <2>3, <2>7, <2>8
<1> QED
  BY <1>5, <1>6, <1>7

(* Every step keeps rows, open elements and bits where they belong. *)
LEMMA CountsPreserved ==
  ASSUME ProtocolAssumption, BatchInv, [Next]_vars
  PROVE  RowsInPlace' /\ AllCounted' /\ BitsInPlace'
<1>1. /\ depth \in 0 .. 3 /\ coords \in Seq(Nat) /\ Len(coords) \in Nat
      /\ size \in [Lvl -> Nat] /\ offsets \in [Lvl -> Seq(Nat)]
      /\ \A l \in Lvl : Len(offsets[l]) \in Nat
      /\ WellNested(offsets) /\ 0 \in Lvl /\ 1 \in Lvl /\ 2 \in Lvl
      /\ Len(rows) \in Nat /\ failed \in Nat /\ ProtocolTypeOK
  BY BatchTypes DEF BatchInv
<1>2. Inv /\ RowsInPlace /\ AllCounted /\ BitsInPlace
  BY DEF BatchInv
<1>3. CASE FeatStart
  <2>1. /\ Idle /\ ~Idle' /\ rows' = rows /\ failed' = failed /\ depth' = depth
        /\ coords' = coords /\ offsets' = offsets /\ validity' = validity
    <3>1. open' = << Frame(FEATURE) >> /\ Len(<< Frame(FEATURE) >>) = 1
      BY <1>3 DEF FeatStart, ReadFeatStart
    <3>2. ~Idle'
      BY <3>1, EmptySeq DEF Idle
    <3> QED
      BY <1>3, <3>2 DEF FeatStart, ReadFeatStart, listVars, bitVars
  <2>2. size'[0] = 0 /\ \A l \in 0 .. depth - 1 : size'[l] = 0
    BY <1>1, <1>3 DEF FeatStart, SizeAtFeature, CoordLevel, Lvl
  <2>3. RowsInPlace'
    BY <1>1, <1>2, <2>1, <2>2 DEF RowsInPlace, RowCount
  <2>4. AllCounted'
    BY <1>2, <2>1, <2>2 DEF AllCounted, Elements
  <2> QED
    BY <1>2, <2>1, <2>3, <2>4 DEF BitsInPlace
<1>4. CASE \/ NullFeat \/ RingStart
           \/ \E type \in GeomTypes, dims \in Dims : GeomStart(type, dims)
  <2>1. ~Idle /\ ~Idle' /\ rows' = rows /\ failed' = failed
    BY <1>1, <1>4, VisitGoesOn DEF NullFeat, RingStart, GeomStart, Idle
  <2>2. /\ depth' = depth /\ coords' = coords /\ offsets' = offsets
        /\ size' = size /\ validity' = validity
    BY <1>4 DEF NullFeat, RingStart, GeomStart, listVars, shapeVars, bitVars
  <2> QED
    BY <1>2, <2>1, <2>2
    DEF RowsInPlace, AllCounted, BitsInPlace, RowCount, Elements
<1>5. ASSUME NEW n \in 0 .. MaxChunk, Coords(n)
      PROVE  RowsInPlace' /\ AllCounted' /\ BitsInPlace'
  <2>1. ~Idle /\ ~Idle' /\ rows' = rows /\ failed' = failed
    BY <1>1, <1>5, VisitGoesOn DEF Coords, Idle
  <2>2. /\ depth' = depth /\ offsets' = offsets /\ n \in Nat
        /\ coords' = coords \o [i \in 1 .. n |-> Label]
        /\ size' = [size EXCEPT ![CoordLevel] = @ + n] /\ validity' = validity
    BY <1>5 DEF Coords, bitVars, ProtocolAssumption
  <2>3. Len(coords') = Len(coords) + n
    <3>1. [i \in 1 .. n |-> Label] \in Seq(Nat) /\ Len([i \in 1 .. n |-> Label]) = n
      BY <1>1, <2>2, LabelType
    <3> QED
      BY <1>1, <2>2, <3>1
  <2>4. /\ CoordLevel \in Lvl
        /\ size'[CoordLevel] = size[CoordLevel] + n /\ size[CoordLevel] \in Nat
        /\ \A l \in Lvl : l # CoordLevel => size'[l] = size[l]
    BY <1>1, <2>2 DEF CoordLevel, Lvl
  <2>5. RowsInPlace'
    <3>1. CASE depth = 0
      <4>1. CoordLevel = 0
        BY <3>1 DEF CoordLevel
      <4>2. RowCount(depth, coords, offsets)' = Len(coords) + n
            /\ RowCount(depth, coords, offsets) = Len(coords)
        BY <2>2, <2>3, <3>1 DEF RowCount
      <4>3. size'[0] = size[0] + n /\ size[0] \in Nat
        BY <2>4, <4>1
      <4>4. failed = 0 => Len(coords) = Len(rows) + size[0]
        BY <1>2, <2>1, <3>1, <4>2 DEF RowsInPlace
      <4>5. failed = 0 => Len(coords) + n = Len(rows) + size'[0]
        <5>1. n \in Nat /\ Len(coords) \in Nat /\ Len(rows) \in Nat
          BY <1>1, <2>2
        <5> QED
          BY <4>3, <4>4, <5>1
      <4>6. depth' = 0
        BY <2>2, <3>1
      <4> QED
        BY <2>1, <4>2, <4>5, <4>6 DEF RowsInPlace
    <3>2. CASE depth # 0
      <4>1. RowCount(depth, coords, offsets)' = RowCount(depth, coords, offsets)
        BY <2>2, <3>2 DEF RowCount
      <4>2. CoordLevel # 0
        BY <1>1, <3>2 DEF CoordLevel
      <4> QED
        BY <1>1, <1>2, <2>1, <2>2, <2>4, <3>2, <4>1, <4>2 DEF RowsInPlace
    <3> QED
      BY <3>1, <3>2
  <2>6. AllCounted'
    <3>1. ASSUME failed = 0, depth >= 2, NEW l \in 0 .. depth - 1
          PROVE  Elements(offsets, l)' - LastOf(offsets[l]) = size'[l]
      <4>1. /\ l \in Lvl /\ Elements(offsets, l) \in Nat
            /\ LastOf(offsets[l]) \in Nat /\ CoordLevel = depth - 1
            /\ Elements(offsets, l) - LastOf(offsets[l]) = size[l]
        <5>1. l \in Lvl /\ CoordLevel = depth - 1
          BY <1>1, <3>1 DEF CoordLevel, Lvl
        <5>2. Elements(offsets, l) \in Nat /\ LastOf(offsets[l]) \in Nat
          BY <1>1, ElementsFit
        <5>3. Elements(offsets, l) - LastOf(offsets[l]) = size[l]
          BY <1>2, <2>1, <3>1 DEF AllCounted
        <5> QED
          BY <5>1, <5>2, <5>3
      <4>2. CASE l = depth - 1
        <5>1. Elements(offsets, l)' = Elements(offsets, l) + n
          BY <1>1, <2>2, <2>3, <4>2 DEF Elements
        <5> QED
          BY <2>2, <2>4, <4>1, <4>2, <5>1
      <4>3. CASE l # depth - 1
        <5>1. Elements(offsets, l)' = Elements(offsets, l)
          BY <2>2, <4>3 DEF Elements
        <5> QED
          BY <2>4, <4>1, <4>3, <5>1
      <4> QED
        BY <4>2, <4>3
    <3> QED
      BY <2>1, <2>2, <3>1 DEF AllCounted, LastOf
  <2> QED
    BY <1>2, <2>1, <2>2, <2>5, <2>6 DEF BitsInPlace
<1>6. CASE RingEnd \/ GeomEnd
  <2>1. ~Idle /\ open' # << >> /\ rows' = rows /\ failed' = failed
    BY <1>1, <1>6, VisitGoesOn DEF RingEnd, GeomEnd, Idle
  <2>2. depth' = depth /\ coords' = coords /\ validity' = validity
    BY <1>6 DEF RingEnd, GeomEnd, bitVars
  <2>3. \/ /\ depth = 1
           /\ size' = [size EXCEPT ![0] = @ + 1]
           /\ offsets' = Close(offsets, 0)
        \/ /\ SequencePending
           /\ size' = SequenceCounted
           /\ offsets' = Close(offsets, depth - 1)
        \/ UNCHANGED << size, offsets >>
    BY <1>6 DEF RingEnd, GeomEnd
  <2>4. RowsInPlace' /\ AllCounted'
    BY <1>2, <2>1, <2>2, <2>3, SequenceCounts
  <2> QED
    BY <1>2, <2>1, <2>2, <2>4 DEF BitsInPlace
<1>7. CASE PolygonEnd
  <2>1. ~Idle /\ open' # << >> /\ rows' = rows /\ failed' = failed
    BY <1>1, <1>7, VisitGoesOn DEF PolygonEnd, Idle
  <2>2. depth' = depth /\ coords' = coords /\ validity' = validity /\ depth = 3
    BY <1>7 DEF PolygonEnd, EndsPolygon, bitVars
  <2>3. RowsInPlace' /\ AllCounted'
    <3>1. CASE size[1] > 0
      <4>1. 1 \in 1 .. depth - 1 /\ 1 - 1 = 0 /\ depth >= 2
        BY <2>2
      <4>2. offsets' = Close(offsets, 1)
            /\ size' = [size EXCEPT ![1 - 1] = @ + 1, ![1] = 0]
        BY <1>7, <3>1, <4>1 DEF PolygonEnd
      <4> QED
        BY <1>2, <2>1, <2>2, <4>1, <4>2, ListEnds
    <3>2. CASE ~(size[1] > 0)
      <4>1. UNCHANGED << size, offsets >>
        BY <1>7, <3>2 DEF PolygonEnd
      <4> QED
        BY <1>2, <2>1, <2>2, <4>1, SequenceCounts
    <3> QED
      BY <3>1, <3>2
  <2> QED
    BY <1>2, <2>1, <2>2, <2>3 DEF BitsInPlace
<1>8. CASE FeatEnd
  BY <1>8, FeatureEnds
<1>9. CASE FeatRejected \/ Overflow \/ ReaderFails
  <2>1. failed' # 0
    BY <1>1, <1>9 DEF FeatRejected, Overflow, ReaderFails, Abandon
  <2> QED
    BY <2>1 DEF RowsInPlace, AllCounted, BitsInPlace
<1>10. CASE Finish
  <2>1. /\ Idle' /\ rows' = << >> /\ failed' = 0 /\ depth' = depth
        /\ coords' = << >> /\ offsets' = FreshOffsets(depth)
        /\ validity' = Emptied(validity) /\ Len(<< >>) = 0
    BY <1>10, EmptySeq DEF Finish, BatchDone, Restart, Idle
  <2>2. \A l \in 0 .. depth - 1 : l \in Lvl /\ FreshOffsets(depth)[l] = << 0 >>
    BY <1>1 DEF FreshOffsets, Lvl
  <2>3. Len(<< 0 >>) = 1 /\ << 0 >>[1] = 0
    OBVIOUS
  <2>4. RowsInPlace'
    <3>1. CASE depth = 0
      BY <2>1, <3>1 DEF RowsInPlace, RowCount
    <3>2. CASE depth # 0
      <4>1. FreshOffsets(depth)[0] = << 0 >>
        BY <1>1, <2>2, <3>2
      <4>2. Len(FreshOffsets(depth)[0]) = 1
        BY <2>3, <4>1, Zenon
      <4> QED
        BY <2>1, <3>2, <4>2 DEF RowsInPlace, RowCount
    <3> QED
      BY <3>1, <3>2
  <2>5. AllCounted'
    <3>1. ASSUME NEW l \in 0 .. depth - 1
          PROVE  Elements(offsets, l)' = 0 /\ LastOf(offsets[l])' = 0
      <4>1. FreshOffsets(depth)[l] = << 0 >>
        BY <2>2
      <4>2. LastOf(offsets[l])' = 0
        BY <2>1, <2>3, <4>1, Zenon DEF LastOf
      <4>3. CASE l = depth - 1
        BY <2>1, <4>2, <4>3 DEF Elements
      <4>4. CASE l # depth - 1
        <5>1. FreshOffsets(depth)[l + 1] = << 0 >>
          BY <1>1, <2>2, <4>4
        <5>2. Len(FreshOffsets(depth)[l + 1]) = 1
          BY <2>3, <5>1, Zenon
        <5> QED
          BY <2>1, <4>2, <4>4, <5>2 DEF Elements
      <4> QED
        BY <4>3, <4>4
    <3> QED
      BY <2>1, <3>1 DEF AllCounted, LastOf
  <2>6. BitsInPlace'
    BY <2>1 DEF BitsInPlace, Emptied
  <2> QED
    BY <2>4, <2>5, <2>6
<1>11. CASE UNCHANGED vars
  BY <1>2, <1>11 DEF vars, protocolVars, writerVars, listVars, shapeVars, bitVars,
     RowsInPlace, AllCounted, BitsInPlace, RowCount, Elements, Idle
<1> QED
  BY <1>3, <1>4, <1>5, <1>6, <1>7, <1>8, <1>9, <1>10, <1>11 DEF Next

(* Finish hands over what the batch left in place. *)
LEMMA ArrayHandedOver ==
  ASSUME BatchInv, [Next]_vars
  PROVE  ArrayWellFormed'
<1>1. /\ depth \in 0 .. 3 /\ coords \in Seq(Nat) /\ WellNested(offsets)
      /\ validity \in Bitmap
  BY BatchTypes DEF BatchInv
<1>2. /\ Inv /\ RowsInPlace /\ AllCounted /\ BitsInPlace /\ NullsCounted
      /\ ArrayWellFormed
  BY DEF BatchInv, Inv
<1>3. CASE ~Finish
  <2>1. array' = array
    BY <1>3 DEF Next, FeatStart, NullFeat, GeomStart, RingStart, Coords,
       RingEnd, GeomEnd, PolygonEnd, FeatEnd, FeatRejected, Overflow,
       ReaderFails, vars, writerVars, outVars
  <2> QED
    BY <1>2, <2>1 DEF ArrayWellFormed, ArrayElements, RowCount
<1>4. CASE Finish
  <2>1. Idle /\ array' = HandedOver
    BY <1>4 DEF Finish, BatchDone
  <2>2. /\ array'.depth = depth /\ array'.coords = coords
        /\ array'.offsets = offsets /\ array'.nullCount = nullCount
        /\ array'.exact = (failed = 0)
        /\ array'.validity = IF validity.bits = << >> THEN NoBitmap ELSE validity
    BY <2>1 DEF HandedOver
  <2>3. ASSUME failed = 0, NEW l \in 0 .. depth - 1
        PROVE  /\ offsets[l][1] = 0
               /\ LastOf(offsets[l]) <= Elements(offsets, l)
               /\ depth > 1 => LastOf(offsets[l]) = Elements(offsets, l)
    <3>1. /\ Elements(offsets, l) \in Nat /\ LastOf(offsets[l]) \in Nat
          /\ LastOf(offsets[l]) <= Elements(offsets, l)
      BY <1>1, ElementsFit
    <3>2. offsets[l][1] = 0
      BY <1>1 DEF WellNested, Nests
    <3>3. depth > 1 => Elements(offsets, l) - LastOf(offsets[l]) = 0
      BY <1>1, <1>2, <2>1, <2>3 DEF AllCounted
    <3> QED
      BY <3>1, <3>2, <3>3
  <2>4. \A l : ArrayElements(l)' = Elements(offsets, l)
    BY <2>2 DEF ArrayElements, Elements
  <2>5. failed = 0 /\ array'.validity.data =>
          Len(array'.validity.bits) = RowCount(depth, coords, offsets)
    <3>1. failed = 0 => RowCount(depth, coords, offsets) = Len(rows) + 0
      BY <1>2, <2>1 DEF RowsInPlace
    <3>2. Len(rows) \in Nat
      BY <1>2, BatchTypes
    <3> QED
      BY <1>2, <2>2, <3>1, <3>2 DEF BitsInPlace, NoBitmap
  <2>6. array'.nullCount = NullCount(array'.validity)
    <3>1. NoBitmap.bits = << >>
      BY DEF NoBitmap
    <3>2. validity.bits = << >> => NullCount(NoBitmap) = NullCount(validity)
      BY <3>1, NoBitsNoNulls
    <3> QED
      BY <1>2, <2>2, <3>2 DEF NullsCounted
  <2> QED
    BY <2>2, <2>3, <2>4, <2>5, <2>6 DEF ArrayWellFormed, LastOf, RowCount
<1> QED
  BY <1>3, <1>4

-----------------------------------------------------------------------------
LEMMA InitBatchInv ==
  ASSUME ProtocolAssumption, NativeAssumption, Init
  PROVE  BatchInv
<1>1. Inv /\ depth \in 0 .. 3
  BY InitInv DEF Init, NativeAssumption
<1>2. /\ Idle /\ failed = 0 /\ rows = << >> /\ coords = << >>
      /\ offsets = FreshOffsets(depth) /\ validity = NoBitmap
      /\ array = NoArray /\ Len(<< >>) = 0
  BY EmptySeq DEF Init, ProtocolInit, Idle
<1>3. \A l \in 0 .. depth - 1 :
        l \in Lvl /\ offsets[l] = << 0 >> /\ Len(offsets[l]) = 1
  <2>1. \A l \in 0 .. depth - 1 : l \in Lvl /\ offsets[l] = << 0 >>
    BY <1>1, <1>2 DEF FreshOffsets, Lvl
  <2>2. Len(<< 0 >>) = 1
    OBVIOUS
  <2> QED
    BY <2>1, <2>2
<1>4. RowsInPlace
  BY <1>1, <1>2, <1>3 DEF RowsInPlace, RowCount
<1>5. AllCounted
  <2>1. ASSUME NEW l \in 0 .. depth - 1
        PROVE  Elements(offsets, l) = 0 /\ LastOf(offsets[l]) = 0
    <3>1. << 0 >>[1] = 0
      OBVIOUS
    <3>2. LastOf(offsets[l]) = 0
      BY <1>3, <3>1, Zenon DEF LastOf
    <3>3. CASE l = depth - 1
      BY <1>2, <3>2, <3>3 DEF Elements
    <3>4. CASE l # depth - 1
      <4>1. l + 1 \in 0 .. depth - 1
        BY <1>1, <3>4
      <4>2. Len(offsets[l + 1]) = 1
        BY <1>3, <4>1
      <4> QED
        BY <3>2, <3>4, <4>2 DEF Elements
    <3> QED
      BY <3>3, <3>4
  <2> QED
    BY <1>2, <2>1 DEF AllCounted
<1>6. BitsInPlace
  BY <1>2 DEF BitsInPlace, NoBitmap
<1>7. ArrayWellFormed
  <2>1. NullCount(NoBitmap) = 0
    <3>1. NoBitmap.bits = << >>
      BY DEF NoBitmap
    <3> QED
      BY <3>1, NoBitsNoNulls
  <2>2. array.depth = 0 /\ array.validity = NoBitmap /\ array.nullCount = 0
    BY <1>2 DEF NoArray
  <2>3. ~array.validity.data
    BY <2>2 DEF NoBitmap
  <2> QED
    BY <2>1, <2>2, <2>3 DEF ArrayWellFormed
<1> QED
  BY <1>1, <1>4, <1>5, <1>6, <1>7 DEF BatchInv

LEMMA StepBatchInv ==
  ASSUME ProtocolAssumption, NativeAssumption, BatchInv, [Next]_vars
  PROVE  BatchInv'
BY StepInv, CountsPreserved, ArrayHandedOver DEF BatchInv

THEOREM BatchInvCorrect == Spec => []BatchInv
BY InitBatchInv, StepBatchInv, ProtocolAssumption, NativeAssumption, PTL DEF Spec

(* As long as no feature of the batch was abandoned, every completed       *)
(* feature has its row and, once the bitmap exists, its bit, at every      *)
(* depth of lists and also for a row that ring_end or geom_end closed      *)
(* before feat_end was called.                                             *)
THEOREM AlignedCorrect == Spec => []Aligned
<1>1. BatchInv => Aligned
  <2>1. ASSUME BatchInv, Idle, failed = 0
        PROVE  RowCount(depth, coords, offsets) = Len(rows)
    <3>1. RowCount(depth, coords, offsets) = Len(rows) + 0
      BY <2>1 DEF BatchInv, RowsInPlace
    <3>2. Len(rows) \in Nat
      BY <2>1, BatchTypes DEF BatchInv
    <3> QED
      BY <3>1, <3>2
  <2> QED
    BY <2>1 DEF BatchInv, BitsInPlace, Aligned
<1> QED
  BY <1>1, BatchInvCorrect, PTL

(* The array of a batch without abandoned features is a valid Arrow array: *)
(* in particular feat_end closes every list that was left open, so that    *)
(* the offsets of each level end at the last element of the level below.   *)
THEOREM ArrayCorrect == Spec => []ArrayWellFormed
BY BatchInvCorrect, PTL DEF BatchInv

-----------------------------------------------------------------------------
(* A feature of linestrings and points: which list is open where.          *)

Flat == {POINT, LINESTRING, MULTIPOINT}

(* Only multipoints have parts, and the feature has been given one.        *)
PointsInMultipoints ==
  /\ open[1].n # 0
  /\ \A i \in 2 .. Len(open) - 1 : open[i].type = MULTIPOINT
  /\ Top.type \in Flat

(* The level counts the open linestrings and multipoints, but never goes   *)
(* back to 1 once it was 2; a point of a multipoint is known by            *)
(* nestingMultipoint.                                                      *)
LevelOfPart ==
  /\ level \in Nat
  /\ Top.type = POINT /\ Depth = 1 => level = 0 /\ nestingMultipoint = 0
  /\ Top.type = LINESTRING /\ Depth = 1 => nestingMultipoint = 0
  /\ Top.type = MULTIPOINT => level >= 1 /\ nestingMultipoint = 1
  /\ Top.type = POINT /\ Depth > 1 => level >= 1 /\ nestingMultipoint = 2
  /\ Top.type = LINESTRING /\ Depth > 1 => nestingMultipoint = 1
  /\ Depth > 2 \/ (Depth = 2 /\ Top.type # POINT) => level >= 2

OneSequence ==
  depth = 1 /\ ~Idle /\ OnlyTypes(nodes, Flat) =>
    IF InGeometry
    THEN size[0] = 0 /\ PointsInMultipoints /\ LevelOfPart
    ELSE /\ size[0] <= 1
         /\ open[1].n = 0 => size[0] = 0 /\ level = 0 /\ nestingMultipoint = 0

LEMMA OneSequenceStart ==
  ASSUME ProtocolAssumption, Inv, OneSequence, NEW type \in GeomTypes,
         NEW dims \in Dims, GeomStart(type, dims), depth = 1,
         OnlyTypes(nodes, Flat)', ~Idle'
  PROVE  InGeometry' /\ size'[0] = 0 /\ PointsInMultipoints' /\ LevelOfPart'
<1>1. /\ open # << >> /\ open \in Seq(FrameSet) /\ Depth \in Nat
      /\ Len(open) = Depth + 1 /\ nodes \in Seq(NodeSet) /\ type \in 1 .. 7 /\ level \in Int
      /\ nestingMultipoint \in Nat
  <2>1. open # << >> /\ open \in Seq(FrameSet)
    BY DEF Inv, TypeOK, ProtocolTypeOK, GeomStart, ReadGeomStart, Idle
  <2>2. Len(open) \in Nat /\ Len(open) # 0
    BY <2>1
  <2>3. Depth \in Nat /\ Len(open) = Depth + 1
    BY <2>2 DEF Depth
  <2> QED
    BY <2>1, <2>3 DEF Inv, TypeOK, ProtocolTypeOK, WriterTypeOK, ProtocolAssumption
<1>2. /\ open' = Append(Counted(1), Frame(type)) /\ nodes' = Append(nodes, Node(type, dims, Depth))
      /\ type \in MayContain(Top.type) /\ Top.n < Capacity(Top.type)
      /\ size' = size
      /\ level' = IF EntersLevel(type) THEN level + 1 ELSE level
      /\ nestingMultipoint' = IF type = MULTIPOINT THEN 1
           ELSE IF type = POINT /\ nestingMultipoint > 0 THEN nestingMultipoint + 1
           ELSE nestingMultipoint
  BY DEF GeomStart, ReadGeomStart, ReadPartStart
<1>3. OnlyTypes(nodes, Flat) /\ type \in Flat
  <2>1. /\ Len(nodes') = Len(nodes) + 1 /\ nodes'[Len(nodes) + 1] = Node(type, dims, Depth)
        /\ \A i \in DOMAIN nodes : i \in DOMAIN nodes' /\ nodes'[i] = nodes[i]
        /\ Len(nodes) + 1 \in DOMAIN nodes'
    BY <1>1, <1>2
  <2> QED
    BY <2>1 DEF OnlyTypes, Node
<1>4. /\ Len(open') = Len(open) + 1
      /\ open'[Len(open) + 1] = Frame(type)
      /\ \A i \in 1 .. Len(open) :
           /\ open'[i].type = open[i].type
           /\ open'[i].n = IF i = Len(open) THEN open[i].n + 1 ELSE open[i].n
  <2>1. ReadPartStart(type, dims) /\ ProtocolTypeOK
    BY DEF GeomStart, ReadGeomStart, Inv, TypeOK
  <2>2. type \in RING .. GEOMETRYCOLLECTION
    BY <1>1 DEF RING, GEOMETRYCOLLECTION
  <2> QED
    BY <1>1, <2>1, <2>2, StackPushed
<1>5. Top' = Frame(type) /\ Top'.type = type
  BY <1>1, <1>4 DEF Top, Frame
<1>6. InGeometry' /\ Depth' = Depth + 1
  BY <1>1, <1>4 DEF InGeometry, Depth
<1>7. level' = IF type \in {LINESTRING, MULTIPOINT} THEN level + 1 ELSE level
  BY <1>2 DEF EntersLevel
<1>8. CASE ~InGeometry
  <2>1. Depth = 0 /\ 1 \in 1 .. Len(open) /\ Len(open) = Depth + 1
    BY <1>1, <1>8 DEF InGeometry
  <2>9. Top = open[1] /\ open[1].n \in Nat
    <3>1. open[1] \in FrameSet
      BY <1>1, <2>1
    <3> QED
      BY <2>1, <3>1 DEF Top, FrameSet
  <2>2. open[1].type \in {FEATURE, NULLFEATURE}
    BY <1>1 DEF Inv, Nesting
  <2>3. Top.type = FEATURE
    BY <1>2, <2>9, <2>2 DEF MayContain, FEATURE, NULLFEATURE, Containers, MULTIPOINT,
       MULTILINESTRING, MULTIPOLYGON, GEOMETRYCOLLECTION
  <2>4. open[1].n = 0
    BY <1>2, <2>9, <2>3 DEF Capacity
  <2>5. size[0] = 0 /\ level = 0 /\ nestingMultipoint = 0
    BY <1>1, <1>3, <1>8, <2>4 DEF OneSequence, Idle
  <2>6. PointsInMultipoints'
    BY <1>3, <1>4, <1>5, <2>1, <2>4 DEF PointsInMultipoints
  <2>7. LevelOfPart'
    BY <1>2, <1>3, <1>5, <1>6, <1>7, <2>1, <2>5 DEF LevelOfPart, Flat, POINT, LINESTRING, MULTIPOINT
  <2> QED
    BY <1>2, <1>6, <2>5, <2>6, <2>7
<1>9. CASE InGeometry
  <2>1. size[0] = 0 /\ PointsInMultipoints /\ LevelOfPart
    BY <1>1, <1>3, <1>9 DEF OneSequence, Idle
  <2>2. Depth > 0 /\ Len(open) > 1
    BY <1>1, <1>9 DEF InGeometry
  <2>3. Top.type = MULTIPOINT
    BY <1>2, <2>1 DEF PointsInMultipoints, Flat, MayContain, Containers, FEATURE, POINT, LINESTRING,
       MULTIPOINT, MULTILINESTRING, MULTIPOLYGON, GEOMETRYCOLLECTION
  <2>4. PointsInMultipoints'
    <3>1. open'[1].n = open[1].n
      BY <1>4, <2>2
    <3>2. \A i \in 2 .. Len(open') - 1 : open'[i].type = MULTIPOINT
      BY <1>1, <1>4, <2>1, <2>3 DEF PointsInMultipoints, Top
    <3> QED
      BY <1>3, <1>5, <2>1, <3>1, <3>2 DEF PointsInMultipoints
  <2>5. level \in Nat /\ level >= 1 /\ nestingMultipoint = 1 /\ (Depth > 1 => level >= 2)
    BY <1>1, <2>1, <2>3 DEF LevelOfPart, MULTIPOINT, POINT
  <2>6. LevelOfPart'
    BY <1>1, <1>2, <1>3, <1>5, <1>6, <1>7, <2>2, <2>5 DEF LevelOfPart, Flat, POINT, LINESTRING, MULTIPOINT
  <2> QED
    BY <1>2, <1>6, <2>1, <2>4, <2>6
<1> QED
  BY <1>8, <1>9

LEMMA OneSequenceEnd ==
  ASSUME ProtocolAssumption, Inv, OneSequence, GeomEnd, depth = 1,
         OnlyTypes(nodes, Flat)', ~Idle'
  PROVE  IF InGeometry'
         THEN size'[0] = 0 /\ PointsInMultipoints' /\ LevelOfPart'
         ELSE size'[0] <= 1 /\ open'[1].n # 0
<1>1. /\ open \in Seq(FrameSet) /\ InGeometry /\ Depth \in Nat /\ Depth > 0
      /\ Len(open) = Depth + 1 /\ nodes' = nodes /\ size \in [Lvl -> Nat] /\ 0 \in Lvl
  <2>1. open \in Seq(FrameSet) /\ Len(open) \in Nat /\ Len(open) > 1
    BY DEF Inv, TypeOK, ProtocolTypeOK, GeomEnd, ReadGeomEnd, InGeometry
  <2>2. Depth \in Nat /\ Depth > 0 /\ Len(open) = Depth + 1
    BY <2>1 DEF Depth
  <2> QED
    BY <2>1, <2>2 DEF Inv, TypeOK, WriterTypeOK, GeomEnd, ReadGeomEnd, ReadPartEnd, Lvl
<1>2. size[0] = 0 /\ PointsInMultipoints /\ LevelOfPart
  <2>1. ~Idle
    BY <1>1, EmptySeq DEF Idle
  <2> QED
    BY <1>1, <2>1 DEF OneSequence, OnlyTypes
<1>3. /\ Len(open') = Depth /\ Depth' = Depth - 1
      /\ \A i \in 1 .. Depth : open'[i] = open[i]
  <2>1. /\ Len(open') = Len(open) - 1
        /\ \A i \in 1 .. Len(open) - 1 : open'[i] = open[i]
    BY <1>1, StackPopped DEF GeomEnd, ReadGeomEnd, Inv, TypeOK
  <2> QED
    BY <1>1, <2>1 DEF Depth
<1>4. /\ level' = IF EndsSequence THEN level - 1 ELSE level
      /\ nestingMultipoint' = IF nestingMultipoint = 2 THEN 1 ELSE nestingMultipoint
  BY DEF GeomEnd
<1>5. size'[0] = IF EndsSequence THEN 1 ELSE 0
  BY <1>1, <1>2 DEF GeomEnd, SequencePending
<1>6. /\ level = 1 /\ nestingMultipoint # 2 => EndsSequence
      /\ EndsSequence => level = 1 /\ nestingMultipoint # 2
  BY DEF EndsSequence
<1>7. open'[1].n # 0
  BY <1>1, <1>2, <1>3 DEF PointsInMultipoints
<1>8. CASE Depth = 1
  BY <1>1, <1>3, <1>5, <1>7, <1>8 DEF InGeometry
<1>9. CASE Depth > 1
  <2>1. InGeometry'
    BY <1>1, <1>3, <1>9 DEF InGeometry
  <2>2. Top' = open[Depth] /\ Top'.type = MULTIPOINT
    BY <1>1, <1>2, <1>3, <1>9 DEF Top, PointsInMultipoints
  <2>3. PointsInMultipoints'
    BY <1>1, <1>2, <1>3, <1>7, <2>2 DEF PointsInMultipoints, Flat
  <2>4. /\ Top.type = POINT \/ Top.type = LINESTRING \/ Top.type = MULTIPOINT
        /\ Depth > 2 \/ Depth = 2
        /\ level \in Nat
    BY <1>1, <1>2, <1>9 DEF PointsInMultipoints, Flat, LevelOfPart
  <2>10. ~EndsSequence
    BY <1>2, <1>6, <2>4 DEF LevelOfPart, POINT, LINESTRING, MULTIPOINT
  <2>5. nestingMultipoint' = 1 /\ level' = level
    BY <1>2, <1>4, <1>9, <2>4, <2>10 DEF LevelOfPart, POINT, LINESTRING, MULTIPOINT
  <2>6. level \in Nat /\ level >= 1 /\ (Depth > 2 => level >= 2)
    BY <1>2, <1>9, <2>4 DEF LevelOfPart, POINT, LINESTRING, MULTIPOINT
  <2>7. LevelOfPart'
    BY <1>1, <1>3, <1>9, <2>2, <2>5, <2>6 DEF LevelOfPart, POINT, LINESTRING, MULTIPOINT
  <2> QED
    BY <1>5, <2>1, <2>3, <2>7, <2>10
<1> QED
  BY <1>1, <1>8, <1>9

LEMMA OneSequencePreserved ==
  ASSUME ProtocolAssumption, NativeAssumption, Inv, OneSequence, [Next]_vars
  PROVE  OneSequence'
<1> SUFFICES ASSUME depth' = 1, ~Idle', OnlyTypes(nodes, Flat)'
             PROVE  IF InGeometry'
                    THEN size'[0] = 0 /\ PointsInMultipoints' /\ LevelOfPart'
                    ELSE /\ size'[0] <= 1
                         /\ open'[1].n = 0 =>
                              size'[0] = 0 /\ level' = 0 /\ nestingMultipoint' = 0
  BY DEF OneSequence
<1>1. depth = 1 /\ 0 \in Lvl /\ 1 \in Lvl /\ size \in [Lvl -> Nat] /\ open \in Seq(FrameSet)
  <2>1. depth' = depth
    BY DEF Next, vars, writerVars, FeatStart, NullFeat, GeomStart, RingStart,
       Coords, RingEnd, GeomEnd, PolygonEnd, FeatEnd, FeatRejected, Overflow,
       ReaderFails, Finish
  <2> QED
    BY <2>1 DEF Inv, TypeOK, WriterTypeOK, ProtocolTypeOK, Lvl
<1>2. CASE FeatStart
  <2>1. open' = << Frame(FEATURE) >> /\ level' = 0 /\ size' = SizeAtFeature /\ nestingMultipoint' = 0
    BY <1>1, <1>2 DEF FeatStart, ReadFeatStart
  <2>2. ~InGeometry' /\ size'[0] = 0
    BY <1>1, <2>1 DEF InGeometry, SizeAtFeature, CoordLevel
  <2> QED
    BY <2>1, <2>2
<1>3. CASE NullFeat
  <2>1. /\ open = << Frame(FEATURE) >> /\ open' = << Frame(NULLFEATURE) >> /\ nodes' = nodes
        /\ size' = size /\ level' = level /\ nestingMultipoint' = nestingMultipoint
    BY <1>3 DEF NullFeat, ReadNullFeat, shapeVars
  <2>2. ~InGeometry /\ ~InGeometry' /\ open[1].n = 0 /\ open # << >>
    BY <2>1 DEF InGeometry, Frame
  <2>3. OnlyTypes(nodes, Flat)
    BY <2>1 DEF OnlyTypes
  <2>4. size[0] = 0 /\ level = 0 /\ nestingMultipoint = 0
    BY <1>1, <2>2, <2>3 DEF OneSequence, Idle
  <2> QED
    BY <2>1, <2>2, <2>4
<1>4. ASSUME NEW type \in GeomTypes, NEW dims \in Dims, GeomStart(type, dims)
      PROVE  InGeometry' /\ size'[0] = 0 /\ PointsInMultipoints' /\ LevelOfPart'
  BY <1>1, <1>4, OneSequenceStart
<1>5. CASE \E type \in GeomTypes, dims \in Dims : GeomStart(type, dims)
  BY <1>4, <1>5
<1>6. CASE RingStart
  <2>1. /\ InGeometry /\ Top.type = POLYGON /\ open # << >> /\ nodes' = Append(nodes, Node(RING, nodes[Len(nodes)].dims, Depth))
    BY <1>6, EmptySeq DEF RingStart, ReadRingStart, ReadPartStart, InGeometry
  <2>2. OnlyTypes(nodes, Flat)
    <3>1. nodes \in Seq(NodeSet)
      BY DEF Inv, TypeOK, ProtocolTypeOK
    <3>2. \A i \in DOMAIN nodes : i \in DOMAIN nodes' /\ nodes'[i] = nodes[i]
      BY <2>1, <3>1
    <3> QED
      BY <3>2 DEF OnlyTypes
  <2>3. Top.type \in Flat
    BY <1>1, <2>1, <2>2 DEF OneSequence, PointsInMultipoints, Idle
  <2> QED
    BY <2>1, <2>3 DEF Flat, POLYGON, POINT, LINESTRING, MULTIPOINT
<1>7. CASE \E n \in 0 .. MaxChunk : Coords(n)
  <2>1. PICK n \in 0 .. MaxChunk : Coords(n)
    BY <1>7
  <2>2. /\ InGeometry /\ open # << >> /\ Len(open) \in Nat /\ Len(open) > 1 /\ n \in Nat
        /\ open' = Counted(n) /\ HoldsCoords(Top.type)
        /\ level' = level /\ nestingMultipoint' = nestingMultipoint
        /\ size' = [size EXCEPT ![CoordLevel] = @ + n]
        /\ nodes' = [nodes EXCEPT ![Len(nodes)].xs = @ \o [i \in 1 .. n |-> Label]]
    BY <1>1, <2>1, EmptySeq DEF Coords, ReadCoords, InGeometry, ProtocolAssumption
  <2>11. Len(open) \in Nat /\ Len(open) > 1
    BY <2>2
  <2>3. size'[0] = size[0]
    BY <1>1, <2>2 DEF CoordLevel
  <2>4. OnlyTypes(nodes, Flat)
    <3>1. nodes \in Seq(NodeSet)
      BY DEF Inv, TypeOK, ProtocolTypeOK
    <3>2. \A i \in DOMAIN nodes : i \in DOMAIN nodes' /\ nodes'[i].type = nodes[i].type
      <4>1. \A i \in DOMAIN nodes : nodes[i] \in NodeSet
        BY <3>1
      <4> QED
        BY <2>2, <3>1, <4>1 DEF NodeSet
    <3> QED
      BY <3>2 DEF OnlyTypes
  <2>5. size[0] = 0 /\ PointsInMultipoints /\ LevelOfPart
    BY <1>1, <2>2, <2>4 DEF OneSequence, Idle
  <2>6. /\ open' \in Seq(FrameSet) /\ Len(open') = Len(open)
        /\ \A i \in 1 .. Len(open) : open'[i].type = open[i].type
        /\ open'[1].n = open[1].n /\ Len(open) \in 1 .. Len(open)
    <3>1. /\ Counted(n) \in Seq(FrameSet) /\ Len(Counted(n)) = Len(open)
          /\ \A i \in 1 .. Len(open) :
               /\ Counted(n)[i].type = open[i].type
               /\ Counted(n)[i].n = IF i = Len(open) THEN open[i].n + n ELSE open[i].n
      BY <2>2, CountedType DEF Inv, TypeOK
    <3>2. Len(open) \in 1 .. Len(open) /\ 1 \in 1 .. Len(open) - 1
      BY <2>11
    <3>3. \A i \in 1 .. Len(open) - 1 : i # Len(open) /\ i \in 1 .. Len(open)
      BY <2>11
    <3> HIDE DEF Counted
    <3>4. \A i \in 1 .. Len(open) - 1 : Counted(n)[i].n = open[i].n
      BY <3>1, <3>3
    <3> QED
      BY <2>2, <3>1, <3>2, <3>4
  <2>8. Top'.type = Top.type /\ InGeometry' /\ Depth' = Depth
    BY <2>11, <2>6 DEF Top, InGeometry, Depth
  <2>9. PointsInMultipoints'
    BY <2>5, <2>6, <2>8, <2>11 DEF PointsInMultipoints
  <2>10. LevelOfPart'
    BY <2>2, <2>5, <2>8 DEF LevelOfPart
  <2> QED
    BY <2>3, <2>5, <2>8, <2>9, <2>10
<1>8. CASE RingEnd
  <2>1. InGeometry /\ open # << >> /\ nodes' = nodes /\ Top.type = RING
    BY <1>8, EmptySeq DEF RingEnd, ReadRingEnd, ReadPartEnd, InGeometry
  <2>2. Top.type \in Flat
    BY <1>1, <2>1 DEF OneSequence, PointsInMultipoints, OnlyTypes, Idle
  <2> QED
    BY <2>1, <2>2 DEF Flat, RING, POINT, LINESTRING, MULTIPOINT
<1>9. CASE GeomEnd
  BY <1>1, <1>9, OneSequenceEnd
<1>10. CASE PolygonEnd
  BY <1>1, <1>10 DEF PolygonEnd, EndsPolygon
<1>11. CASE FeatEnd \/ FeatRejected \/ Overflow \/ ReaderFails \/ Finish
  BY <1>11 DEF FeatEnd, ReadFeatEnd, FeatRejected, Overflow, ReaderFails, Abandon, Finish,
     BatchDone, Idle
<1>12. CASE UNCHANGED vars
  <2>1. UNCHANGED << open, nodes, size, level, nestingMultipoint >>
    BY <1>12 DEF vars, protocolVars, writerVars, shapeVars
  <2> QED
    BY <1>1, <2>1 DEF OneSequence, InGeometry, Idle, PointsInMultipoints, LevelOfPart, Depth, Top,
       OnlyTypes
<1> QED
  BY <1>2, <1>3, <1>5, <1>6, <1>7, <1>8, <1>9, <1>10, <1>11, <1>12 DEF Next

(* A feature of a linestring or multipoint is never refused by an array of *)
(* such.                                                                   *)
THEOREM FittingCorrect == Spec => []FittingFeatureAccepted
<1>1. Init => OneSequence
  BY DEF Init, ProtocolInit, OneSequence, Idle
<1>2. Inv /\ OneSequence => FittingFeatureAccepted
  <2>1. ASSUME Inv, OneSequence, FeatureComplete, depth = 1, OnlyTypes(nodes, Flat)
        PROVE  size[0] <= 1
    <3>1. open # << >> /\ ~InGeometry
      BY <2>1, EmptySeq DEF FeatureComplete, InGeometry
    <3> QED
      BY <2>1, <3>1 DEF OneSequence, Idle
  <2> QED
    BY <2>1 DEF FittingFeatureAccepted, Flat
<1>3. Inv /\ OneSequence /\ [Next]_vars => OneSequence'
  BY OneSequencePreserved, ProtocolAssumption, NativeAssumption
<1> QED
  BY <1>1, <1>2, <1>3, InvCorrect, PTL DEF Spec

-----------------------------------------------------------------------------
(* The rows as RowSink knows them.  What a visit adds to the coordinates   *)
(* and to the offsets comes after them, so that the lists that are closed  *)
(* keep their values.                                                      *)
Begins(s, t) == Len(s) <= Len(t) /\ \A i \in 1 .. Len(s) : t[i] = s[i]

(* Offsets that cut cs into d levels of lists. *)
CutsInto(d, cs, os) ==
  \A l \in 0 .. d - 1 :
    /\ os[l] \in Seq(Nat) /\ Len(os[l]) >= 1
    /\ \A i \in 1 .. Len(os[l]) - 1 : os[l][i] <= os[l][i + 1]
    /\ LastOf(os[l]) <= IF l = d - 1 THEN Len(cs) ELSE Len(os[l + 1]) - 1

LEMMA CutInside ==
  ASSUME NEW o \in Seq(Nat), NEW n \in Nat, LastOf(o) <= n,
         \A i \in 1 .. Len(o) - 1 : o[i] <= o[i + 1],
         NEW i \in 1 .. Len(o) - 1
  PROVE  o[i] \in Nat /\ o[i + 1] \in Nat /\ o[i] <= o[i + 1] /\ o[i + 1] <= n
<1>1. o \in Seq(Int) /\ Len(o) \in Nat
  OBVIOUS
<1>2. i \in 1 .. Len(o) /\ i + 1 \in 1 .. Len(o) /\ Len(o) \in 1 .. Len(o) /\ i + 1 <= Len(o)
  BY <1>1
<1>3. o[i + 1] <= o[Len(o)]
  BY <1>1, <1>2, AscendsFar
<1>4. o[i] \in Nat /\ o[i + 1] \in Nat /\ o[Len(o)] \in Nat /\ o[i] <= o[i + 1]
  BY <1>2
<1> QED
  BY <1>3, <1>4 DEF LastOf

LEMMA CutType ==
  ASSUME NEW S, NEW s \in Seq(S), NEW o \in Seq(Nat), Len(o) >= 1,
         LastOf(o) <= Len(s), \A i \in 1 .. Len(o) - 1 : o[i] <= o[i + 1]
  PROVE  Cut(s, o) \in Seq(Seq(S)) /\ Len(Cut(s, o)) = Len(o) - 1
<1>1. Len(s) \in Nat /\ Len(o) \in Nat /\ Len(o) - 1 \in Nat
  OBVIOUS
<1>2. ASSUME NEW i \in 1 .. Len(o) - 1
      PROVE  SubSeq(s, o[i] + 1, o[i + 1]) \in Seq(S)
  <2>1. o[i] \in Nat /\ o[i + 1] \in Nat /\ o[i] <= o[i + 1] /\ o[i + 1] <= Len(s)
    BY <1>1, CutInside
  <2>2. PICK a, b : a = o[i] + 1 /\ b = o[i + 1]
    OBVIOUS
  <2>3. a \in Nat /\ a >= 1 /\ b \in Nat /\ b <= Len(s)
    BY <2>1, <2>2
  <2>4. \A k \in a .. b : k \in 1 .. Len(s)
    BY <1>1, <2>3
  <2>5. SubSeq(s, a, b) \in Seq(S)
    BY <2>3, <2>4, SubSeqProperties
  <2> QED
    BY <2>2, <2>5
<1> DEFINE n == Len(o) - 1
           e(i) == SubSeq(s, o[i] + 1, o[i + 1])
<1>3. Cut(s, o) = [i \in 1 .. n |-> e(i)]
  BY DEF Cut
<1>4. n \in Nat /\ \A i \in 1 .. n : e(i) \in Seq(S)
  BY <1>1, <1>2
<1> HIDE DEF n, e
<1>5. [i \in 1 .. n |-> e(i)] \in Seq(Seq(S)) /\ Len([i \in 1 .. n |-> e(i)]) = n
  BY <1>4
<1> QED
  BY <1>3, <1>5 DEF n

LEMMA CutBegins ==
  ASSUME NEW S, NEW s \in Seq(S), NEW t \in Seq(S), Begins(s, t),
         NEW o \in Seq(Nat), NEW p \in Seq(Nat), Begins(o, p), Len(o) >= 1,
         LastOf(o) <= Len(s), \A i \in 1 .. Len(o) - 1 : o[i] <= o[i + 1],
         LastOf(p) <= Len(t), \A i \in 1 .. Len(p) - 1 : p[i] <= p[i + 1]
  PROVE  Begins(Cut(s, o), Cut(t, p))
<1>1. /\ Len(s) \in Nat /\ Len(t) \in Nat /\ Len(o) \in Nat /\ Len(p) \in Nat
      /\ Len(s) <= Len(t) /\ Len(o) <= Len(p)
      /\ \A i \in 1 .. Len(s) : t[i] = s[i]
      /\ \A i \in 1 .. Len(o) : p[i] = o[i]
  BY DEF Begins
<1>a. Len(o) >= 1 /\ Len(p) >= 1
  BY <1>1
<1>b. Cut(s, o) \in Seq(Seq(S)) /\ Len(Cut(s, o)) = Len(o) - 1
  BY <1>a, CutType
<1>c. Cut(t, p) \in Seq(Seq(S)) /\ Len(Cut(t, p)) = Len(p) - 1
  BY <1>a, CutType
<1>2. Len(Cut(s, o)) = Len(o) - 1 /\ Len(Cut(t, p)) = Len(p) - 1
  BY <1>b, <1>c
<1>3. ASSUME NEW i \in 1 .. Len(o) - 1
      PROVE  Cut(t, p)[i] = Cut(s, o)[i]
  <2>1. o[i] \in Nat /\ o[i + 1] \in Nat /\ o[i + 1] <= Len(s) /\ o[i] <= o[i + 1]
    BY <1>1, CutInside
  <2>2. i \in 1 .. Len(p) - 1 /\ i \in 1 .. Len(o) /\ i + 1 \in 1 .. Len(o)
    BY <1>1
  <2>3. p[i] = o[i] /\ p[i + 1] = o[i + 1]
    BY <1>1, <2>2
  <2>4. PICK a, b : a = o[i] /\ b = o[i + 1]
    OBVIOUS
  <2>5. a \in Nat /\ b \in Nat /\ b <= Len(s) /\ b <= Len(t)
    BY <1>1, <2>1, <2>4
  <2>9. \A k \in 1 .. b : k \in 1 .. Len(s)
    BY <1>1, <2>5
  <2>10. \A k \in 1 .. b : s[k] = t[k]
    BY <1>1, <2>9
  <2>6. SubSeq(s, a + 1, b) = SubSeq(t, a + 1, b)
    BY <2>5, <2>10, SameSubSeq
  <2>7. Cut(s, o)[i] = SubSeq(s, o[i] + 1, o[i + 1])
    BY DEF Cut
  <2>8. Cut(t, p)[i] = SubSeq(t, p[i] + 1, p[i + 1])
    BY <2>2 DEF Cut
  <2> QED
    BY <2>3, <2>4, <2>6, <2>7, <2>8
<1> QED
  BY <1>1, <1>2, <1>3 DEF Begins

(* One level of lists: offsets that cut n elements. *)
Cuts(o, n) ==
  /\ o \in Seq(Nat) /\ Len(o) >= 1 /\ LastOf(o) <= n
  /\ \A i \in 1 .. Len(o) - 1 : o[i] <= o[i + 1]

LEMMA LevelsCut ==
  ASSUME NEW d \in 0 .. 3, NEW cs, NEW os, CutsInto(d, cs, os), NEW l \in 0 .. d - 1
  PROVE  Cuts(os[l], IF l = d - 1 THEN Len(cs) ELSE Len(os[l + 1]) - 1)
BY DEF CutsInto, Cuts

LEMMA CutTyped ==
  ASSUME NEW S, NEW s \in Seq(S), NEW o, Cuts(o, Len(s))
  PROVE  Cut(s, o) \in Seq(Seq(S)) /\ Len(Cut(s, o)) = Len(o) - 1
BY CutType DEF Cuts

Alike(s, t) == \E S : s \in Seq(S) /\ t \in Seq(S)

LEMMA CutExtends ==
  ASSUME NEW s, NEW t, Alike(s, t), Begins(s, t),
         NEW o, NEW p, Begins(o, p), Cuts(o, Len(s)), Cuts(p, Len(t))
  PROVE  /\ Len(Cut(s, o)) = Len(o) - 1 /\ Len(Cut(t, p)) = Len(p) - 1
         /\ Alike(Cut(s, o), Cut(t, p)) /\ Begins(Cut(s, o), Cut(t, p))
<1>1. PICK S : s \in Seq(S) /\ t \in Seq(S)
  BY DEF Alike
<1>2. Begins(Cut(s, o), Cut(t, p))
  BY <1>1, CutBegins DEF Cuts
<1>3. Cut(s, o) \in Seq(Seq(S)) /\ Len(Cut(s, o)) = Len(o) - 1
  BY <1>1, CutTyped
<1>4. Cut(t, p) \in Seq(Seq(S)) /\ Len(Cut(t, p)) = Len(p) - 1
  BY <1>1, CutTyped
<1>5. PICK U : U = Seq(S)
  OBVIOUS
<1>6. Alike(Cut(s, o), Cut(t, p))
  BY <1>3, <1>4, <1>5 DEF Alike
<1> QED
  BY <1>2, <1>3, <1>4, <1>6

(* Nested lists are a sequence of as many rows as there are offsets for,   *)
(* and those of offsets and coordinates that others begin with are the     *)
(* first of those of the others.                                           *)
LEMMA NestedBegins ==
  ASSUME NEW d \in 0 .. 3, NEW cs \in Seq(Nat), NEW ct \in Seq(Nat), Begins(cs, ct),
         NEW os, NEW ot, CutsInto(d, cs, os), CutsInto(d, ct, ot),
         \A l \in Lvl : Begins(os[l], ot[l])
  PROVE  /\ Alike(Nested(d, cs, os), Nested(d, ct, ot))
         /\ Len(Nested(d, cs, os)) = RowCount(d, cs, os)
         /\ Begins(Nested(d, cs, os), Nested(d, ct, ot))
<1>0. Begins(os[0], ot[0]) /\ Begins(os[1], ot[1]) /\ Begins(os[2], ot[2])
  BY DEF Lvl
<1>a. Alike(cs, ct)
  BY DEF Alike
<1>1. CASE d = 0
  BY <1>1, <1>a DEF Nested, RowCount
<1>2. CASE d = 1
  <2>1. Cuts(os[0], Len(cs)) /\ Cuts(ot[0], Len(ct))
    BY <1>2, LevelsCut
  <2>2. PICK s1 : s1 = Cut(cs, os[0])
    OBVIOUS
  <2>3. PICK t1 : t1 = Cut(ct, ot[0])
    OBVIOUS
  <2>4. /\ Len(s1) = Len(os[0]) - 1
        /\ Alike(s1, t1) /\ Begins(s1, t1)
    BY <1>0, <1>a, <2>1, <2>2, <2>3, CutExtends
  <2>5. Nested(d, cs, os) = s1 /\ Nested(d, ct, ot) = t1
    BY <1>2, <2>2, <2>3 DEF Nested
  <2>6. RowCount(d, cs, os) = Len(os[0]) - 1
    BY <1>2 DEF RowCount
  <2> QED
    BY <2>4, <2>5, <2>6
<1>3. CASE d = 2
  <2>1. Cuts(os[1], Len(cs)) /\ Cuts(ot[1], Len(ct))
    BY <1>3, LevelsCut
  <2>2. PICK s1 : s1 = Cut(cs, os[1])
    OBVIOUS
  <2>3. PICK t1 : t1 = Cut(ct, ot[1])
    OBVIOUS
  <2>4. /\ Len(s1) = Len(os[1]) - 1
        /\ Alike(s1, t1) /\ Len(t1) = Len(ot[1]) - 1 /\ Begins(s1, t1)
    BY <1>0, <1>a, <2>1, <2>2, <2>3, CutExtends
  <2>5. Cuts(os[0], Len(os[1]) - 1) /\ Cuts(ot[0], Len(ot[1]) - 1)
    BY <1>3, LevelsCut
  <2>6. Cuts(os[0], Len(s1)) /\ Cuts(ot[0], Len(t1))
    BY <2>4, <2>5
  <2>7. PICK s2 : s2 = Cut(s1, os[0])
    OBVIOUS
  <2>8. PICK t2 : t2 = Cut(t1, ot[0])
    OBVIOUS
  <2>4a. Alike(s1, t1) /\ Begins(s1, t1)
    BY <2>4
  <2>9. /\ Len(s2) = Len(os[0]) - 1
        /\ Alike(s2, t2) /\ Begins(s2, t2)
    BY <1>0, <2>4a, <2>6, <2>7, <2>8, CutExtends
  <2>10. Nested(d, cs, os) = s2 /\ Nested(d, ct, ot) = t2
    BY <1>3, <2>2, <2>3, <2>7, <2>8 DEF Nested
  <2>11. RowCount(d, cs, os) = Len(os[0]) - 1
    BY <1>3 DEF RowCount
  <2> QED
    BY <2>9, <2>10, <2>11
<1>4. CASE d = 3
  <2>1. Cuts(os[2], Len(cs)) /\ Cuts(ot[2], Len(ct))
    BY <1>4, LevelsCut
  <2>2. PICK s1 : s1 = Cut(cs, os[2])
    OBVIOUS
  <2>3. PICK t1 : t1 = Cut(ct, ot[2])
    OBVIOUS
  <2>4. /\ Len(s1) = Len(os[2]) - 1
        /\ Alike(s1, t1) /\ Len(t1) = Len(ot[2]) - 1 /\ Begins(s1, t1)
    BY <1>0, <1>a, <2>1, <2>2, <2>3, CutExtends
  <2>5. Cuts(os[1], Len(os[2]) - 1) /\ Cuts(ot[1], Len(ot[2]) - 1)
    BY <1>4, LevelsCut
  <2>6. Cuts(os[1], Len(s1)) /\ Cuts(ot[1], Len(t1))
    BY <2>4, <2>5
  <2>7. PICK s2 : s2 = Cut(s1, os[1])
    OBVIOUS
  <2>8. PICK t2 : t2 = Cut(t1, ot[1])
    OBVIOUS
  <2>4a. Alike(s1, t1) /\ Begins(s1, t1)
    BY <2>4
  <2>9. /\ Len(s2) = Len(os[1]) - 1
        /\ Alike(s2, t2) /\ Len(t2) = Len(ot[1]) - 1 /\ Begins(s2, t2)
    BY <1>0, <2>4a, <2>6, <2>7, <2>8, CutExtends
  <2>10. Cuts(os[0], Len(os[1]) - 1) /\ Cuts(ot[0], Len(ot[1]) - 1)
    BY <1>4, LevelsCut
  <2>11. Cuts(os[0], Len(s2)) /\ Cuts(ot[0], Len(t2))
    BY <2>9, <2>10
  <2>12. PICK s3 : s3 = Cut(s2, os[0])
    OBVIOUS
  <2>13. PICK t3 : t3 = Cut(t2, ot[0])
    OBVIOUS
  <2>9a. Alike(s2, t2) /\ Begins(s2, t2)
    BY <2>9
  <2>14. /\ Len(s3) = Len(os[0]) - 1
         /\ Alike(s3, t3) /\ Begins(s3, t3)
    BY <1>0, <2>9a, <2>11, <2>12, <2>13, CutExtends
  <2>15. Nested(d, cs, os) = s3 /\ Nested(d, ct, ot) = t3
    BY <1>4, <2>2, <2>3, <2>7, <2>8, <2>12, <2>13 DEF Nested
  <2>16. RowCount(d, cs, os) = Len(os[0]) - 1
    BY <1>4 DEF RowCount
  <2> QED
    BY <2>14, <2>15, <2>16
<1> QED
  BY <1>1, <1>2, <1>3, <1>4

-----------------------------------------------------------------------------
LEMMA BeginsSame ==
  ASSUME NEW S, NEW s \in Seq(S)
  PROVE  Begins(s, s)
BY DEF Begins

LEMMA BeginsAppend ==
  ASSUME NEW S, NEW s \in Seq(S), NEW x \in S
  PROVE  Begins(s, Append(s, x))
BY DEF Begins

LEMMA BeginsConcat ==
  ASSUME NEW S, NEW s \in Seq(S), NEW t \in Seq(S)
  PROVE  Begins(s, s \o t)
BY DEF Begins

LEMMA BeginsThrough ==
  ASSUME NEW S, NEW s \in Seq(S), NEW t \in Seq(S), NEW u \in Seq(S),
         Begins(s, t), Begins(t, u)
  PROVE  Begins(s, u)
<1>1. Len(s) \in Nat /\ Len(t) \in Nat /\ Len(u) \in Nat
  OBVIOUS
<1>2. Len(s) <= Len(t) /\ Len(t) <= Len(u)
  BY DEF Begins
<1>3. ASSUME NEW i \in 1 .. Len(s)
      PROVE  u[i] = s[i]
  <2>1. i \in 1 .. Len(t)
    BY <1>1, <1>2
  <2> QED
    BY <2>1 DEF Begins
<1> QED
  BY <1>1, <1>2, <1>3 DEF Begins

(* Offsets whose lists begin with those of others. *)
Extended(os, ot) ==
  /\ ot \in [Lvl -> Seq(Int)]
  /\ \A l \in Lvl : Begins(os[l], ot[l])

LEMMA CloseExtends ==
  ASSUME depth \in 0 .. 3, coords \in Seq(Nat), NEW offs \in [Lvl -> Seq(Int)],
         NEW l \in 0 .. depth - 1
  PROVE  Extended(offs, Close(offs, l))
<1>1. l \in Lvl
  BY DEF Lvl
<1>2. Elements(offs, l) \in Int
  <2>1. CASE l = depth - 1
    BY <2>1 DEF Elements
  <2>2. CASE l # depth - 1
    <3>1. l + 1 \in Lvl
      BY <2>2 DEF Lvl
    <3>2. Len(offs[l + 1]) \in Nat
      BY <3>1
    <3> QED
      BY <2>2, <3>2 DEF Elements
  <2> QED
    BY <2>1, <2>2
<1>3. PICK x : x = Elements(offs, l)
  OBVIOUS
<1>4. Close(offs, l) = [offs EXCEPT ![l] = Append(offs[l], x)]
  BY <1>3 DEF Close
<1>5. offs[l] \in Seq(Int) /\ Append(offs[l], x) \in Seq(Int)
  BY <1>1, <1>2, <1>3
<1>6. Begins(offs[l], Append(offs[l], x))
  BY <1>2, <1>3, <1>5, BeginsAppend
<1>7. ASSUME NEW k \in Lvl
      PROVE  Close(offs, l)[k] \in Seq(Int) /\ Begins(offs[k], Close(offs, l)[k])
  <2>1. CASE k = l
    BY <1>1, <1>4, <1>5, <1>6, <2>1
  <2>2. CASE k # l
    <3>1. Close(offs, l)[k] = offs[k] /\ offs[k] \in Seq(Int)
      BY <1>1, <1>4, <2>2
    <3> QED
      BY <3>1, BeginsSame
  <2> QED
    BY <2>1, <2>2
<1> QED
  BY <1>4, <1>7 DEF Extended

LEMMA ExtendedThrough ==
  ASSUME NEW os \in [Lvl -> Seq(Int)], NEW ot, NEW ou,
         Extended(os, ot), Extended(ot, ou)
  PROVE  Extended(os, ou)
<1>1. ASSUME NEW l \in Lvl
      PROVE  Begins(os[l], ou[l])
  <2>1. os[l] \in Seq(Int) /\ ot[l] \in Seq(Int) /\ ou[l] \in Seq(Int)
    BY DEF Extended
  <2>2. Begins(os[l], ot[l]) /\ Begins(ot[l], ou[l])
    BY DEF Extended
  <2> QED
    BY <2>1, <2>2, BeginsThrough
<1> QED
  BY <1>1 DEF Extended

LEMMA ExtendedSame ==
  ASSUME NEW os \in [Lvl -> Seq(Int)]
  PROVE  Extended(os, os)
<1>1. \A l \in Lvl : os[l] \in Seq(Int)
  OBVIOUS
<1> QED
  BY <1>1, BeginsSame DEF Extended

LEMMA RowExtends ==
  ASSUME depth \in 2 .. 3, coords \in Seq(Nat), offsets \in [Lvl -> Seq(Int)]
  PROVE  Extended(offsets, RowClosed)
<1>1. depth \in 0 .. 3
  OBVIOUS
<1>2. Extended(offsets, SequencesClosed)
  <2>1. CASE depth = 3 /\ LeftOver(2)
    <3>1. 2 \in 0 .. depth - 1
      BY <2>1
    <3> QED
      BY <1>1, <2>1, <3>1, CloseExtends DEF SequencesClosed
  <2>2. CASE ~(depth = 3 /\ LeftOver(2))
    BY <2>2, ExtendedSame DEF SequencesClosed
  <2> QED
    BY <2>1, <2>2
<1>3. PICK ot : ot = SequencesClosed
  OBVIOUS
<1>4. Extended(offsets, ot) /\ ot \in [Lvl -> Seq(Int)]
  BY <1>2, <1>3 DEF Extended
<1>5. Extended(ot, ListsClosed)
  <2>1. CASE LeftOver(1)
    <3>1. 1 \in 0 .. depth - 1
      OBVIOUS
    <3>2. Extended(ot, Close(ot, 1))
      BY <1>1, <1>4, <3>1, CloseExtends
    <3> QED
      BY <1>3, <2>1, <3>2 DEF ListsClosed
  <2>2. CASE ~LeftOver(1)
    BY <1>3, <1>4, <2>2, ExtendedSame DEF ListsClosed
  <2> QED
    BY <2>1, <2>2
<1>6. PICK ou : ou = ListsClosed
  OBVIOUS
<1>7. Extended(ot, ou) /\ ou \in [Lvl -> Seq(Int)]
  BY <1>5, <1>6 DEF Extended
<1>8. Extended(ou, Close(ou, 0))
  <2>1. 0 \in 0 .. depth - 1
    OBVIOUS
  <2> QED
    BY <1>1, <1>7, <2>1, CloseExtends
<1>9. Extended(offsets, Close(ou, 0))
  BY <1>4, <1>7, <1>8, ExtendedThrough
<1> QED
  BY <1>6, <1>9 DEF RowClosed

(* What a visit of a feature does to the buffers: it adds to their ends.   *)
LEMMA BatchGrows ==
  ASSUME Inv, [Next]_vars, ~Finish
  PROVE  /\ depth' = depth /\ array' = array
         /\ Begins(coords, coords') /\ Extended(offsets, offsets')
<1>1. /\ depth \in 0 .. 3 /\ coords \in Seq(Nat) /\ 0 \in Lvl
      /\ offsets \in [Lvl -> Seq(Nat)] /\ size \in [Lvl -> Nat]
  BY BatchTypes
<1>2. offsets \in [Lvl -> Seq(Int)] /\ Seq(Nat) \subseteq Seq(Int)
  BY <1>1
<1>3. Begins(coords, coords) /\ Extended(offsets, offsets)
  BY <1>1, <1>2, BeginsSame, ExtendedSame
<1>4. ASSUME NEW l \in 0 .. depth - 1
      PROVE  Extended(offsets, Close(offsets, l))
  BY <1>1, <1>2, CloseExtends
<1>5. CASE UNCHANGED vars
  BY <1>3, <1>5 DEF vars, writerVars, listVars, outVars
<1>6. CASE \/ FeatStart \/ NullFeat \/ RingStart \/ FeatRejected \/ Overflow
           \/ ReaderFails
           \/ \E type \in GeomTypes, dims \in Dims : GeomStart(type, dims)
  BY <1>3, <1>6 DEF FeatStart, NullFeat, RingStart, FeatRejected, Overflow,
     ReaderFails, GeomStart, writerVars, listVars, outVars
<1>7. CASE \E n \in 0 .. MaxChunk : Coords(n)
  <2>1. PICK n \in 0 .. MaxChunk : Coords(n)
    BY <1>7
  <2>2. /\ coords' = coords \o [i \in 1 .. n |-> Label]
        /\ depth' = depth /\ offsets' = offsets /\ array' = array
    BY <2>1 DEF Coords, outVars
  <2>3. [i \in 1 .. n |-> Label] \in Seq(Nat)
    <3>1. Label \in Nat /\ n \in Nat
      BY LabelType DEF Inv, TypeOK
    <3> HIDE DEF Label
    <3> QED
      BY <3>1
  <2> QED
    BY <1>1, <1>3, <2>2, <2>3, BeginsConcat
<1>8. CASE RingEnd \/ GeomEnd \/ PolygonEnd
  <2>1. /\ depth' = depth /\ coords' = coords /\ array' = array
        /\ offsets' = offsets \/ \E l \in 0 .. depth - 1 : offsets' = Close(offsets, l)
    <3>1. CASE RingEnd
      <4>1. SequencePending => depth - 1 \in 0 .. depth - 1
        BY <1>1 DEF SequencePending
      <4>2. depth = 1 => 0 \in 0 .. depth - 1
        OBVIOUS
      <4> QED
        BY <3>1, <4>1, <4>2 DEF RingEnd, outVars
    <3>2. CASE GeomEnd
      <4>1. SequencePending => depth - 1 \in 0 .. depth - 1
        BY <1>1 DEF SequencePending
      <4>2. depth = 1 => 0 \in 0 .. depth - 1
        OBVIOUS
      <4> QED
        BY <3>2, <4>1, <4>2 DEF GeomEnd, outVars
    <3>3. CASE PolygonEnd
      <4>1. EndsPolygon => 1 \in 0 .. depth - 1
        BY DEF EndsPolygon
      <4> QED
        BY <3>3, <4>1 DEF PolygonEnd, outVars
    <3> QED
      BY <1>8, <3>1, <3>2, <3>3
  <2> QED
    BY <1>3, <1>4, <2>1
<1>9. CASE FeatEnd
  <2>1. depth' = depth /\ array' = array /\ (PointEnd \/ LinestringEnd \/ ListsEnd)
    BY <1>9 DEF FeatEnd, outVars
  <2>2. CASE PointEnd
    <3>1. /\ offsets' = offsets
          /\ coords' = Append(coords, NaN) \/ coords' = coords
      BY <2>2 DEF PointEnd
    <3>2. NaN \in Nat
      BY DEF NaN
    <3>3. Begins(coords, Append(coords, NaN))
      BY <1>1, <3>2, BeginsAppend
    <3> QED
      BY <1>3, <2>1, <3>1, <3>3
  <2>3. CASE LinestringEnd
    <3>1. /\ coords' = coords /\ depth = 1
          /\ offsets' = Close(offsets, 0) \/ offsets' = offsets
      BY <2>3 DEF LinestringEnd
    <3>2. 0 \in 0 .. depth - 1
      BY <3>1
    <3> QED
      BY <1>3, <1>4, <2>1, <3>1, <3>2
  <2>4. CASE ListsEnd
    <3>1. coords' = coords /\ depth \in 2 .. 3 /\ offsets' = RowClosed
      BY <1>1, <2>4 DEF ListsEnd
    <3> QED
      BY <1>1, <1>2, <1>3, <2>1, <3>1, RowExtends
  <2> QED
    BY <2>1, <2>2, <2>3, <2>4
<1> QED
  BY <1>5, <1>6, <1>7, <1>8, <1>9 DEF Next
-----------------------------------------------------------------------------
(* The rows of a batch and of an array, as RowSink knows them. *)
Pending  == IF failed = 0 THEN Decoded ELSE << >>
Finished == IF array.exact THEN DecodedArray ELSE << >>

(* The offsets of the state cut its coordinates. *)
LEMMA NestsCut ==
  ASSUME NEW d \in 0 .. 3, NEW cs \in Seq(Nat), NEW os \in [Lvl -> Seq(Nat)],
         \A l \in 0 .. d - 1 :
           /\ Len(os[l]) >= 1
           /\ \A i \in 1 .. Len(os[l]) - 1 :
                IF l = 0 THEN os[l][i] <= os[l][i + 1] ELSE os[l][i] < os[l][i + 1]
           /\ LastOf(os[l]) <= IF l = d - 1 THEN Len(cs) ELSE Len(os[l + 1]) - 1
  PROVE  CutsInto(d, cs, os)
<1>1. ASSUME NEW l \in 0 .. d - 1
      PROVE  /\ os[l] \in Seq(Nat) /\ Len(os[l]) >= 1
             /\ \A i \in 1 .. Len(os[l]) - 1 : os[l][i] <= os[l][i + 1]
  <2>0. l \in Lvl
    BY DEF Lvl
  <2>1. os[l] \in Seq(Nat)
    BY <2>0
  <2>2. ASSUME NEW i \in 1 .. Len(os[l]) - 1
        PROVE  os[l][i] <= os[l][i + 1]
    <3>1. os[l][i] \in Nat /\ os[l][i + 1] \in Nat
      BY <2>1
    <3> QED
      BY <3>1
  <2> QED
    BY <2>1, <2>2
<1> QED
  BY <1>1 DEF CutsInto

LEMMA StateCuts ==
  ASSUME Inv
  PROVE  CutsInto(depth, coords, offsets)
BY BatchTypes, NestsCut DEF WellNested, Nests, Elements

LEMMA StateCutsNext ==
  ASSUME Inv'
  PROVE  CutsInto(depth', coords', offsets')
<1>1. depth' \in 0 .. 3 /\ coords' \in Seq(Nat) /\ offsets' \in [Lvl -> Seq(Nat)]
  BY DEF Inv, TypeOK, WriterTypeOK
<1>2. \A l \in 0 .. depth' - 1 :
           /\ Len(offsets'[l]) >= 1
           /\ \A i \in 1 .. Len(offsets'[l]) - 1 :
                IF l = 0 THEN offsets'[l][i] <= offsets'[l][i + 1]
                ELSE offsets'[l][i] < offsets'[l][i + 1]
           /\ LastOf(offsets'[l]) <= IF l = depth' - 1 THEN Len(coords')
                                     ELSE Len(offsets'[l + 1]) - 1
  BY DEF Inv, WellNested, Nests, Elements
<1> QED
  BY <1>1, <1>2, NestsCut

(* The nested lists of the state, and what a visit leaves of them.         *)
Lists == Nested(depth, coords, offsets)

LEMMA ListsGrow ==
  ASSUME Inv, Inv', [Next]_vars, ~Finish
  PROVE  Begins(Lists, Lists')
<1>1. /\ depth' = depth /\ Begins(coords, coords')
      /\ \A l \in Lvl : Begins(offsets[l], offsets'[l])
  BY BatchGrows DEF Extended
<1>2. CutsInto(depth, coords, offsets) /\ CutsInto(depth, coords', offsets')
  BY <1>1, StateCuts, StateCutsNext
<1>3. depth \in 0 .. 3 /\ coords \in Seq(Nat) /\ coords' \in Seq(Nat)
  BY DEF Inv, TypeOK, WriterTypeOK
<1>4. Begins(Nested(depth, coords, offsets), Nested(depth, coords', offsets'))
  BY <1>1, <1>2, <1>3, NestedBegins
<1> QED
  BY <1>1, <1>4 DEF Lists

LEMMA NestedSized ==
  ASSUME NEW d \in 0 .. 3, NEW cs \in Seq(Nat), NEW os \in [Lvl -> Seq(Nat)],
         CutsInto(d, cs, os)
  PROVE  /\ \E S : Nested(d, cs, os) \in Seq(S)
         /\ Len(Nested(d, cs, os)) = RowCount(d, cs, os)
<1>1. Begins(cs, cs)
  BY BeginsSame
<1>2. \A l \in Lvl : os[l] \in Seq(Nat)
  OBVIOUS
<1>3. \A l \in Lvl : Begins(os[l], os[l])
  BY <1>2, BeginsSame
<1>4. /\ Alike(Nested(d, cs, os), Nested(d, cs, os))
      /\ Len(Nested(d, cs, os)) = RowCount(d, cs, os)
  BY <1>1, <1>3, NestedBegins
<1> QED
  BY <1>4 DEF Alike

LEMMA FirstOf ==
  ASSUME NEW S, NEW s \in Seq(S), NEW n \in Nat, n <= Len(s), NEW i \in 1 .. n
  PROVE  SubSeq(s, 1, IF n < Len(s) THEN n ELSE Len(s))[i] = s[i]
<1>1. (IF n < Len(s) THEN n ELSE Len(s)) = n
  OBVIOUS
<1>2. SubSeq(s, 1, n)[i] = s[i]
  OBVIOUS
<1> QED
  BY <1>1, <1>2

(* A completed row is one of the nested lists. *)
LEMMA RowsAreLists ==
  ASSUME Inv
  PROVE  /\ Len(Lists) = RowCount(depth, coords, offsets) /\ Len(Lists) \in Nat
         /\ Lists = [i \in 1 .. Len(Lists) |-> Lists[i]]
         /\ \A n \in Nat : n <= Len(Lists) =>
              \A i \in 1 .. n : Rows(n)[i] = Lists[i]
<1>1. PICK S : Lists \in Seq(S)
  BY BatchTypes, StateCuts, NestedSized DEF Lists
<1>2. Len(Lists) = RowCount(depth, coords, offsets)
  BY BatchTypes, StateCuts, NestedSized DEF Lists
<1>3. \A n : Rows(n) = SubSeq(Lists, 1, IF n < Len(Lists) THEN n ELSE Len(Lists))
  BY DEF Rows, Lists
<1>4. Lists = [i \in 1 .. Len(Lists) |-> Lists[i]] /\ Len(Lists) \in Nat
  BY <1>1
<1> HIDE DEF Lists
<1> QED
  BY <1>1, <1>2, <1>3, <1>4, FirstOf

LEMMA RowsAreListsNext ==
  ASSUME Inv'
  PROVE  /\ Len(Lists') = RowCount(depth', coords', offsets') /\ Len(Lists') \in Nat
         /\ \A n \in Nat : n <= Len(Lists') =>
              \A i \in 1 .. n : Rows(n)'[i] = Lists'[i]
<1>1. depth' \in 0 .. 3 /\ coords' \in Seq(Nat) /\ offsets' \in [Lvl -> Seq(Nat)]
  BY DEF Inv, TypeOK, WriterTypeOK
<1>2. Lists' = Nested(depth', coords', offsets')
  BY DEF Lists
<1>3. PICK S : Lists' \in Seq(S)
  BY <1>1, <1>2, StateCutsNext, NestedSized
<1>4. Len(Lists') = RowCount(depth', coords', offsets')
  BY <1>1, <1>2, StateCutsNext, NestedSized
<1>5. \A n : Rows(n)' = SubSeq(Lists', 1, IF n < Len(Lists') THEN n ELSE Len(Lists'))
  BY <1>2 DEF Rows
<1> HIDE DEF Lists
<1> QED
  BY <1>3, <1>4, <1>5, FirstOf

(* Nothing completes: the pending rows are those from before the step. *)
LEMMA VisitIsStutter ==
  ASSUME ProtocolAssumption, NativeAssumption, BatchInv, [Next]_vars,
         rows' = rows, failed' = failed, validity' = validity, ~Finish
  PROVE  Pending' = Pending
<1>1. /\ Inv /\ Inv' /\ Len(rows) \in Nat /\ size[0] \in Nat /\ failed \in Nat
      /\ RowsInPlace
  BY StepInv, BatchTypes DEF BatchInv
<1>2. CASE failed # 0
  BY <1>2 DEF Pending
<1>3. CASE failed = 0
  <2>1. Len(rows) <= Len(Lists) /\ Begins(Lists, Lists') /\ Len(Lists) \in Nat
    BY <1>1, <1>3, RowsAreLists, ListsGrow DEF RowsInPlace
  <2>2. Len(rows) <= Len(Lists') /\ Len(Lists') \in Nat
    BY <1>1, <2>1, RowsAreListsNext DEF Begins
  <2>3. ASSUME NEW i \in 1 .. Len(rows)
        PROVE  Rows(Len(rows))'[i] = Rows(Len(rows))[i]
    <3>1. Rows(Len(rows))[i] = Lists[i]
      BY <1>1, <2>1, RowsAreLists
    <3>2. \A n \in Nat : n <= Len(Lists') => \A k \in 1 .. n : Rows(n)'[k] = Lists'[k]
      BY <1>1, RowsAreListsNext
    <3>3. Rows(Len(rows))'[i] = Lists'[i]
      BY <1>1, <2>2, <3>2 DEF Rows
    <3>4. i \in 1 .. Len(Lists)
      BY <1>1, <2>1
    <3> QED
      BY <2>1, <3>1, <3>3, <3>4 DEF Begins
  <2>4. \A i : IsValid(validity, i)' = IsValid(validity, i)
    BY DEF IsValid
  <2> DEFINE row(i) == [valid |-> IsValid(validity, i), value |-> Rows(Len(rows))[i]]
  <2>5. \A i \in 1 .. Len(rows) : row(i)' = row(i)
    BY <2>3, <2>4
  <2>6. Decoded = [i \in 1 .. Len(rows) |-> row(i)]
    BY DEF Decoded
  <2>7. Decoded' = [i \in 1 .. Len(rows') |-> row(i)']
    BY DEF Decoded
  <2> HIDE DEF row
  <2>8. Decoded' = Decoded
    BY <2>5, <2>6, <2>7
  <2> QED
    BY <1>3, <2>8 DEF Pending
<1> QED
  BY <1>2, <1>3

(* feat_end completes a row and alters no other one. *)
LEMMA FeatEndCompletes ==
  ASSUME ProtocolAssumption, NativeAssumption, BatchInv, FeatEnd, failed = 0
  PROVE  /\ failed' = 0
         /\ Len(Pending') = Len(Pending) + 1
         /\ SubSeq(Pending', 1, Len(Pending)) = Pending
<1>0. [Next]_vars /\ ~Finish
  <2>1. Len(open) = 1
    BY DEF FeatEnd, ReadFeatEnd, FeatureComplete
  <2>2. ~Idle
    BY <2>1, EmptySeq DEF Idle
  <2> QED
    BY <2>2 DEF Next, Finish, BatchDone
<1>1. /\ Inv /\ Inv' /\ BatchInv' /\ Len(rows) \in Nat /\ size[0] \in Nat
      /\ validity \in Bitmap /\ RowsInPlace
  BY <1>0, StepBatchInv, StepInv, BatchTypes DEF BatchInv
<1>2. /\ failed' = 0 /\ Idle' /\ depth' = depth /\ Len(rows') = Len(rows) + 1
  <2>1. open' = << >> /\ failed' = failed /\ depth' = depth
    BY DEF FeatEnd, ReadFeatEnd
  <2>2. PICK r : rows' = Append(rows, r)
    BY DEF FeatEnd, ReadFeatEnd
  <2>3. rows \in Seq(FeatureSet)
    BY <1>1, BatchTypes
  <2>4. Len(rows') = Len(rows) + 1
    BY <2>2, <2>3
  <2> QED
    BY <2>1, <2>4 DEF Idle
<1>3. RowCount(depth, coords', offsets') = Len(rows) + 1
  <2>1. RowCount(depth', coords', offsets') = Len(rows') + 0
    BY <1>1, <1>2 DEF BatchInv, RowsInPlace
  <2> QED
    BY <1>1, <1>2, <2>1
<1>4. /\ Len(rows) <= Len(Lists) /\ Begins(Lists, Lists') /\ Len(Lists) \in Nat
      /\ Len(Lists') = Len(rows) + 1
  <2>1. Len(rows) <= Len(Lists) /\ Len(Lists) \in Nat
    BY <1>1, RowsAreLists DEF RowsInPlace
  <2>2. Begins(Lists, Lists')
    BY <1>0, <1>1, ListsGrow
  <2>3. Len(Lists') = Len(rows) + 1
    BY <1>1, <1>2, <1>3, RowsAreListsNext
  <2> QED
    BY <2>1, <2>2, <2>3
<1>5. ASSUME NEW i \in 1 .. Len(rows)
      PROVE  Rows(Len(rows))'[i] = Rows(Len(rows))[i]
  <2>1. Rows(Len(rows))[i] = Lists[i]
    BY <1>1, <1>4, RowsAreLists
  <2>2. \A n \in Nat : n <= Len(Lists') => \A k \in 1 .. n : Rows(n)'[k] = Lists'[k]
    BY <1>1, RowsAreListsNext
  <2>3. i \in 1 .. Len(rows') /\ Len(rows') \in Nat /\ Len(rows') <= Len(Lists')
    BY <1>1, <1>2, <1>4
  <2>4. Rows(Len(rows))'[i] = Lists'[i]
    BY <2>2, <2>3 DEF Rows
  <2>5. i \in 1 .. Len(Lists)
    BY <1>1, <1>4
  <2> QED
    BY <1>4, <2>1, <2>4, <2>5 DEF Begins
<1>6. ASSUME NEW i \in 1 .. Len(rows)
      PROVE  IsValid(validity, i)' = IsValid(validity, i)
  <2> DEFINE n == Len(rows) + 1
  <2>1. n \in Nat \ {0} /\ i \in 1 .. n - 1 /\ n - 1 = Len(rows)
    BY <1>1
  <2>2. validity.data => Len(validity.bits) = n - 1
    BY <2>1 DEF BatchInv, BitsInPlace
  <2>3. ~validity.data => validity.bits = << >>
    BY <1>1 DEF Inv, NullsCounted
  <2>4. validity' = MarkNull(validity, n) \/ validity' = MarkValid(validity)
    BY <1>3 DEF FeatEnd, MarkRow
  <2> HIDE DEF n
  <2>5. /\ IsValid(MarkNull(validity, n), i) = IsValid(validity, i)
        /\ IsValid(MarkValid(validity), i) = IsValid(validity, i)
    BY <1>1, <2>1, <2>2, <2>3, ValidityKept
  <2>6. IsValid(validity, i)' = IsValid(validity', i)
    BY DEF IsValid
  <2> QED
    BY <2>4, <2>5, <2>6
<1> DEFINE row(i) == [valid |-> IsValid(validity, i), value |-> Rows(Len(rows))[i]]
           n == Len(rows)
           before == [i \in 1 .. n |-> row(i)]
           after  == [i \in 1 .. n + 1 |-> row(i)']
<1>7. Pending = before /\ Pending' = after
  BY <1>2 DEF Pending, Decoded
<1>8. n \in Nat /\ \A i \in 1 .. n : row(i)' = row(i)
  BY <1>1, <1>5, <1>6
<1> HIDE DEF row, n
<1>9. /\ before = [i \in 1 .. n |-> before[i]]
      /\ after = [i \in 1 .. n + 1 |-> after[i]]
      /\ \A i \in 1 .. n : after[i] = before[i]
  <2>1. \A i \in 1 .. n : i \in 1 .. n + 1
    BY <1>8
  <2> QED
    BY <1>8, <2>1
<1> HIDE DEF before, after
<1>10. Len(after) = Len(before) + 1 /\ SubSeq(after, 1, Len(before)) = before
  BY <1>8, <1>9, OneMoreElement
<1> QED
  BY <1>2, <1>7, <1>10

(* Finish hands over the pending rows and keeps none. *)
LEMMA FinishHandsOver ==
  ASSUME BatchInv, Finish
  PROVE  Finished' = Pending /\ Pending' = << >> /\ failed' = 0
<1>1. /\ Inv /\ Len(rows) \in Nat /\ failed \in Nat /\ RowsInPlace
  BY BatchTypes DEF BatchInv
<1>2. /\ Idle /\ rows' = << >> /\ failed' = 0
      /\ array'.exact = (failed = 0) /\ array'.depth = depth
      /\ array'.coords = coords /\ array'.offsets = offsets
      /\ array'.validity = IF validity.bits = << >> THEN NoBitmap ELSE validity
  BY DEF Finish, BatchDone, HandedOver
<1>3. Pending' = << >>
  <2>1. Len(rows') = 0
    BY <1>2
  <2>2. Decoded' = << >>
    BY <2>1 DEF Decoded
  <2> QED
    BY <1>2, <2>2 DEF Pending
<1>4. CASE failed = 0
  <2>1. Len(Lists) = Len(rows) /\ Lists = [i \in 1 .. Len(rows) |-> Lists[i]]
    <3>1. RowCount(depth, coords, offsets) = Len(rows) + 0
      BY <1>1, <1>2, <1>4 DEF RowsInPlace
    <3>2. Len(Lists) = Len(rows)
      BY <1>1, <3>1, RowsAreLists
    <3> QED
      BY <1>1, <3>2, RowsAreLists
  <2>2. DOMAIN Lists = 1 .. Len(rows)
    BY <2>1
  <2>3. \A i \in 1 .. Len(rows) : Rows(Len(rows))[i] = Lists[i]
    BY <1>1, <2>1, RowsAreLists
  <2>4. \A i : IsValid(array'.validity, i) = IsValid(validity, i)
    <3>1. NoBitmap.bits = << >>
      BY DEF NoBitmap
    <3> QED
      BY <1>2, <3>1 DEF IsValid
  <2>5. Nested(array.depth, array.coords, array.offsets)' = Lists
    BY <1>2 DEF Lists
  <2>6. DecodedArray' = [i \in DOMAIN Lists |-> [valid |-> IsValid(array'.validity, i),
                                                 value |-> Lists[i]]]
    <3>1. \A i : IsValid(array.validity, i)' = IsValid(array'.validity, i)
      BY DEF IsValid
    <3> QED
      BY <2>5, <3>1 DEF DecodedArray
  <2>7. Decoded = [i \in 1 .. Len(rows) |-> [valid |-> IsValid(validity, i),
                                             value |-> Rows(Len(rows))[i]]]
    BY DEF Decoded
  <2> HIDE DEF Lists, Rows
  <2>8. DecodedArray' = Decoded
    BY <2>2, <2>3, <2>4, <2>6, <2>7
  <2> QED
    BY <1>2, <1>3, <1>4, <2>8 DEF Pending, Finished
<1>5. CASE failed # 0
  BY <1>2, <1>3, <1>5 DEF Pending, Finished
<1> QED
  BY <1>4, <1>5

LEMMA SinkInit ==
  ASSUME Init
  PROVE  Sink!Init
<1>1. /\ rows = << >> /\ failed = 0 /\ Len(<< >>) = 0 /\ array = NoArray
  BY DEF Init, ProtocolInit
<1>2. Decoded = << >>
  BY <1>1 DEF Decoded
<1>3. array.depth = 0 /\ array.coords = << >> /\ array.exact = TRUE
  BY <1>1 DEF NoArray
<1>4. Nested(array.depth, array.coords, array.offsets) = << >>
  BY <1>3 DEF Nested
<1>5. DecodedArray = << >>
  BY <1>4 DEF DecodedArray
<1> QED
  BY <1>1, <1>2, <1>3, <1>5 DEF Sink!Init

LEMMA SinkStep ==
  ASSUME ProtocolAssumption, NativeAssumption, BatchInv, [Next]_vars
  PROVE  [Sink!Next]_<< Pending, Finished, failed > 0 >>
<1>1. failed \in Nat /\ Inv
  BY BatchTypes DEF BatchInv
<1>2. ~Finish => Finished' = Finished
  <2>1. ~Finish => array' = array
    BY <1>1, BatchGrows
  <2> QED
    BY <2>1 DEF Finished, DecodedArray, IsValid
<1>3. CASE \/ FeatStart \/ NullFeat \/ RingStart \/ RingEnd \/ GeomEnd \/ PolygonEnd
           \/ \E type \in GeomTypes, dims \in Dims : GeomStart(type, dims)
           \/ \E n \in 0 .. MaxChunk : Coords(n)
           \/ UNCHANGED vars
  <2>1. rows' = rows /\ failed' = failed /\ validity' = validity /\ array' = array
    BY <1>3
    DEF FeatStart, ReadFeatStart, NullFeat, ReadNullFeat, RingStart, ReadRingStart,
        RingEnd, ReadRingEnd, GeomEnd, ReadGeomEnd, PolygonEnd, GeomStart,
        ReadGeomStart, Coords, ReadCoords, ReadPartStart, ReadPartEnd, bitVars,
        outVars, vars, protocolVars, writerVars
  <2>2. CASE ~Finish
    <3>1. Pending' = Pending
      BY <2>1, <2>2, VisitIsStutter
    <3> QED
      BY <1>2, <2>1, <2>2, <3>1
  <2>3. CASE Finish
    <3>1. Sink!FinishBatch
      BY <2>3, FinishHandsOver DEF Sink!FinishBatch, Pending, Finished
    <3> QED
      BY <3>1 DEF Sink!Next
  <2> QED
    BY <2>2, <2>3
<1>4. CASE FeatRejected \/ Overflow \/ ReaderFails
  <2>1. failed' > 0 /\ failed' # 0
    BY <1>1, <1>4 DEF FeatRejected, Overflow, ReaderFails, Abandon
  <2>2. ~Finish
    BY <1>1, <2>1 DEF Finish, BatchDone
  <2>3. Pending' = << >>
    BY <2>1 DEF Pending
  <2>4. Sink!AbandonRow
    BY <1>2, <2>1, <2>2, <2>3 DEF Sink!AbandonRow, Pending, Finished
  <2> QED
    BY <2>4 DEF Sink!Next
<1>5. CASE FeatEnd
  <2>1. ~Finish
    <3>1. Len(open) = 1
      BY <1>5 DEF FeatEnd, ReadFeatEnd, FeatureComplete
    <3> QED
      BY <3>1, EmptySeq DEF Finish, BatchDone, Idle
  <2>2. CASE failed = 0
    <3>1. /\ failed' = 0
          /\ Len(Pending') = Len(Pending) + 1
          /\ SubSeq(Pending', 1, Len(Pending)) = Pending
      BY <1>5, <2>2, FeatEndCompletes
    <3>2. Sink!CompleteRow
      BY <1>2, <2>1, <2>2, <3>1 DEF Sink!CompleteRow, Pending, Finished
    <3> QED
      BY <3>2 DEF Sink!Next
  <2>3. CASE failed # 0
    <3>1. failed' = failed
      BY <1>5 DEF FeatEnd, ReadFeatEnd
    <3> QED
      BY <1>2, <2>1, <2>3, <3>1 DEF Pending
  <2> QED
    BY <2>2, <2>3
<1>6. CASE Finish
  <2>1. Sink!FinishBatch
    BY <1>6, FinishHandsOver DEF Sink!FinishBatch, Pending, Finished
  <2> QED
    BY <2>1 DEF Sink!Next
<1> QED
  BY <1>3, <1>4, <1>5, <1>6 DEF Next

(* The writer refines RowSink, for features of any shape and number and    *)
(* lists of any depth: every call of a visit is a stutter of it, although  *)
(* it closes lists and grows the buffers; feat_end completes one row and   *)
(* leaves the values and the bits of the others as they are, although it   *)
(* may build the whole bitmap; a feature that is rejected, overflows or    *)
(* is given up by the reader gives up the batch; and Finish hands over     *)
(* exactly the pending rows.                                               *)
THEOREM SinkRefined == Spec => SinkSpec
<1>1. Init => Sink!Init
  BY SinkInit
<1>2. ProtocolAssumption /\ NativeAssumption /\ BatchInv /\ [Next]_vars
        => [Sink!Next]_<< Pending, Finished, failed > 0 >>
  BY SinkStep
<1> QED
  BY <1>1, <1>2, BatchInvCorrect, ProtocolAssumption, NativeAssumption, PTL
  DEF Spec, SinkSpec, Sink!Spec, Pending, Finished

-----------------------------------------------------------------------------
(* What flattening does to lists that were cut. *)
LEMMA FlattenEmpty == FlattenSeq(<< >>) = << >>
<1> DEFINE h == [i \in {0} |-> << >>]
<1>1. << >> \in Seq(Seq({})) /\ Len(<< >>) = 0 /\ h[0] = << >>
  OBVIOUS
<1>2. \A i \in 1 .. Len(<< >>) : h[i] = h[i - 1] \o << >>[i]
  BY <1>1
<1> HIDE DEF h
<1> QED
  BY <1>1, <1>2, FlattenUnique

LEMMA RangesJoin ==
  ASSUME NEW S, NEW s \in Seq(S), NEW x \in Nat, NEW y \in Nat, NEW z \in Nat,
         x <= y, y <= z, z <= Len(s)
  PROVE  SubSeq(s, x + 1, y) \o SubSeq(s, y + 1, z) = SubSeq(s, x + 1, z)
<1>1. Len(s) \in Nat /\ x + 1 \in 1 .. Len(s) + 1
  OBVIOUS
<1>2. y \in (x + 1) - 1 .. Len(s) /\ z \in y .. Len(s)
  BY <1>1
<1> QED
  BY <1>1, <1>2, ConcatAdjacentSubSeq

LEMMA CutFlat ==
  ASSUME NEW S, NEW s \in Seq(S), NEW o, Cuts(o, Len(s)),
         NEW a \in Nat, NEW b \in Nat, a <= b, b <= Len(o) - 1
  PROVE  /\ FlattenSeq(SubSeq(Cut(s, o), a + 1, b)) = SubSeq(s, o[a + 1] + 1, o[b + 1])
         /\ o[a + 1] \in Nat /\ o[b + 1] \in Nat
         /\ o[a + 1] <= o[b + 1] /\ o[b + 1] <= Len(s)
<1>1. /\ o \in Seq(Nat) /\ o \in Seq(Int) /\ Len(o) \in Nat /\ Len(s) \in Nat
      /\ Len(o) \in 1 .. Len(o)
  BY DEF Cuts
<1>2. \A i, j \in 1 .. Len(o) : i <= j => o[i] <= o[j]
  BY <1>1, AscendsFar DEF Cuts
<1>3. ASSUME NEW i \in 1 .. Len(o)
      PROVE  o[i] \in Nat /\ o[i] <= Len(s)
  <2>1. o[i] \in Nat /\ o[Len(o)] \in Nat /\ i <= Len(o)
    BY <1>1
  <2>2. o[i] <= o[Len(o)] /\ o[Len(o)] <= Len(s)
    BY <1>1, <1>2, <2>1 DEF Cuts, LastOf
  <2> QED
    BY <1>1, <2>1, <2>2
<1> DEFINE c == Cut(s, o)
<1>4. c \in Seq(Seq(S)) /\ Len(c) = Len(o) - 1
  BY CutTyped
<1>5. \A i \in 1 .. Len(o) - 1 : c[i] = SubSeq(s, o[i] + 1, o[i + 1])
  BY DEF Cut
<1> HIDE DEF c
<1> DEFINE T == {d \in Nat : a + d <= Len(o) - 1 =>
                   FlattenSeq(SubSeq(c, a + 1, a + d))
                     = SubSeq(s, o[a + 1] + 1, o[a + d + 1])}
<1>6. 0 \in T
  <2>1. SubSeq(c, a + 1, a + 0) = << >>
    BY <1>4
  <2>2. a + 1 \in 1 .. Len(o) /\ a + 0 + 1 = a + 1
    BY <1>1
  <2>3. o[a + 1] \in Nat
    BY <1>3, <2>2
  <2>4. SubSeq(s, o[a + 1] + 1, o[a + 1]) = << >>
    BY <2>3
  <2> QED
    BY <2>1, <2>2, <2>4, FlattenEmpty
<1>7. ASSUME NEW d \in T
      PROVE  d + 1 \in T
  <2>1. d \in Nat
    OBVIOUS
  <2>2. SUFFICES ASSUME a + (d + 1) <= Len(o) - 1
                 PROVE  FlattenSeq(SubSeq(c, a + 1, a + (d + 1)))
                          = SubSeq(s, o[a + 1] + 1, o[a + (d + 1) + 1])
    BY <2>1
  <2> DEFINE m == a + d
             so == SubSeq(c, a + 1, m)
             x == o[a + 1]
             y == o[m + 1]
             z == o[m + 2]
  <2>3. m \in Nat /\ m + 1 <= Len(o) - 1 /\ a <= m /\ a + (d + 1) = m + 1
        /\ m + 1 + 1 = m + 2
    BY <1>1, <2>1, <2>2
  <2>4. a + 1 \in 1 .. Len(o) /\ m + 1 \in 1 .. Len(o) /\ m + 2 \in 1 .. Len(o)
        /\ m + 1 \in 1 .. Len(o) - 1 /\ m + 1 \in 1 .. Len(c)
    BY <1>1, <1>4, <2>3
  <2>5. x \in Nat /\ y \in Nat /\ z \in Nat /\ x <= y /\ y <= z /\ z <= Len(s)
    BY <1>2, <1>3, <2>3, <2>4
  <2>6. FlattenSeq(so) = SubSeq(s, x + 1, y)
    BY <1>7, <2>1, <2>2, <2>3, <1>1
  <2>7. c[m + 1] = SubSeq(s, y + 1, z) /\ c[m + 1] \in Seq(S)
    <3>1. c[m + 1] = SubSeq(s, o[m + 1] + 1, o[m + 1 + 1])
      BY <1>5, <2>4
    <3>2. c[m + 1] \in Seq(S)
      BY <1>4, <2>4
    <3> QED
      BY <2>3, <3>1, <3>2
  <2> HIDE DEF m
  <2>8. so \in Seq(Seq(S)) /\ SubSeq(c, a + 1, m + 1) = Append(so, c[m + 1])
    <3>1. \A i \in a + 1 .. m : i \in 1 .. Len(c)
      BY <1>4, <2>3, <2>4
    <3>2. so \in Seq(Seq(S))
      BY <1>4, <2>3, <3>1, SubSeqProperties
    <3>3. a + 1 \in 1 .. Len(c) /\ m + 1 \in a + 1 .. Len(c) /\ m + 1 - 1 = m
      BY <1>1, <1>4, <2>3, <2>4
    <3>a. PICK U, e, k : U = Seq(S) /\ e = c[m + 1] /\ k = m + 1
      OBVIOUS
    <3>e. c \in Seq(U)
      BY <1>4, <3>a
    <3>b. a + 1 \in 1 .. Len(c) /\ k \in a + 1 .. Len(c) /\ k - 1 = m
      BY <2>3, <3>3, <3>a
    <3>c. SubSeq(c, a + 1, k) = SubSeq(c, a + 1, k - 1) \o << c[k] >>
      BY <3>b, <3>e, SubSeqRecursiveSecond
    <3>4. SubSeq(c, a + 1, m + 1) = so \o << e >>
      BY <3>a, <3>b, <3>c
    <3>5. c[m + 1] \in Seq(S)
      BY <1>4, <2>4
    <3> HIDE DEF so
    <3>d. so \in Seq(U) /\ e \in U
      BY <3>2, <3>5, <3>a
    <3>6. Append(so, e) = so \o << e >>
      BY <3>d, AppendIsConcat
    <3> QED
      BY <3>2, <3>4, <3>6, <3>a
  <2> HIDE DEF so, x, y, z
  <2>9. FlattenSeq(Append(so, c[m + 1])) = FlattenSeq(so) \o c[m + 1]
    BY <2>7, <2>8, FlattenAppend
  <2>10. SubSeq(s, x + 1, y) \o SubSeq(s, y + 1, z) = SubSeq(s, x + 1, z)
    BY <2>5, RangesJoin
  <2>11. FlattenSeq(SubSeq(c, a + 1, m + 1)) = SubSeq(s, x + 1, z)
    BY <2>6, <2>7, <2>8, <2>9, <2>10
  <2> QED
    BY <2>3, <2>11 DEF x, z
<1>8. T = Nat
  <2> HIDE DEF T
  <2>1. T \in SUBSET Nat
    BY DEF T
  <2> QED
    BY <1>6, <1>7, <2>1, SetInduction
<1>9. b - a \in Nat /\ a + (b - a) = b
  OBVIOUS
<1>10. FlattenSeq(SubSeq(c, a + 1, b)) = SubSeq(s, o[a + 1] + 1, o[b + 1])
  BY <1>8, <1>9
<1>11. a + 1 \in 1 .. Len(o) /\ b + 1 \in 1 .. Len(o) /\ a + 1 <= b + 1
  BY <1>1
<1> QED
  BY <1>2, <1>3, <1>10, <1>11 DEF c

(* Where the row k - 1 of lists of lists ends and the row k starts. *)
Reach(d, os, k) == IF d = 2 THEN os[1][os[0][k] + 1]
                ELSE os[2][os[1][os[0][k] + 1] + 1]

LEMMA RowIsRange ==
  ASSUME depth \in 2 .. 3, NEW cs \in Seq(Nat), NEW os, CutsInto(depth, cs, os),
         NEW k \in 1 .. Len(os[0]) - 1
  PROVE  /\ FlatRow(Nested(depth, cs, os)[k])
              = SubSeq(cs, Reach(depth, os, k) + 1, Reach(depth, os, k + 1))
         /\ Reach(depth, os, k) \in Nat /\ Reach(depth, os, k + 1) \in Nat
         /\ Reach(depth, os, k) <= Reach(depth, os, k + 1) /\ Reach(depth, os, k + 1) <= Len(cs)
<1>1. CASE depth = 2
  <2>1. Cuts(os[1], Len(cs)) /\ Cuts(os[0], Len(os[1]) - 1)
    BY <1>1, LevelsCut
  <2>2. PICK s1 : s1 = Cut(cs, os[1])
    OBVIOUS
  <2>3. s1 \in Seq(Seq(Nat)) /\ Len(s1) = Len(os[1]) - 1
    BY <2>1, <2>2, CutTyped
  <2>4. PICK a, b : a = os[0][k] /\ b = os[0][k + 1]
    OBVIOUS
  <2>5. a \in Nat /\ b \in Nat /\ a <= b /\ b <= Len(os[1]) - 1
    <3>1. Len(os[1]) - 1 \in Nat
      BY <2>1 DEF Cuts
    <3> QED
      BY <2>1, <2>4, <3>1, CutInside DEF Cuts
  <2>6. Nested(depth, cs, os) = Cut(s1, os[0])
    BY <1>1, <2>2 DEF Nested
  <2>7. Cut(s1, os[0])[k] = SubSeq(s1, a + 1, b)
    BY <2>4 DEF Cut
  <2>8. /\ FlattenSeq(SubSeq(s1, a + 1, b)) = SubSeq(cs, os[1][a + 1] + 1, os[1][b + 1])
        /\ os[1][a + 1] \in Nat /\ os[1][b + 1] \in Nat
        /\ os[1][a + 1] <= os[1][b + 1] /\ os[1][b + 1] <= Len(cs)
    <3>1. a \in Nat /\ b \in Nat /\ a <= b /\ b <= Len(os[1]) - 1
      BY <2>5
    <3>2. cs \in Seq(Nat) /\ Cuts(os[1], Len(cs))
      BY <2>1
    <3>3. /\ FlattenSeq(SubSeq(Cut(cs, os[1]), a + 1, b))
              = SubSeq(cs, os[1][a + 1] + 1, os[1][b + 1])
          /\ os[1][a + 1] \in Nat /\ os[1][b + 1] \in Nat
          /\ os[1][a + 1] <= os[1][b + 1] /\ os[1][b + 1] <= Len(cs)
      BY <3>1, <3>2, CutFlat, Zenon
    <3> QED
      BY <2>2, <3>3, Zenon
  <2>9. Reach(depth, os, k) = os[1][a + 1] /\ Reach(depth, os, k + 1) = os[1][b + 1]
    BY <1>1, <2>4 DEF Reach
  <2>10. FlatRow(SubSeq(s1, a + 1, b)) = FlattenSeq(SubSeq(s1, a + 1, b))
    BY <1>1 DEF FlatRow
  <2> QED
    BY <2>6, <2>7, <2>8, <2>9, <2>10
<1>2. CASE depth = 3
  <2>1. /\ Cuts(os[2], Len(cs)) /\ Cuts(os[1], Len(os[2]) - 1)
        /\ Cuts(os[0], Len(os[1]) - 1)
    BY <1>2, LevelsCut
  <2>2. PICK s1 : s1 = Cut(cs, os[2])
    OBVIOUS
  <2>3. s1 \in Seq(Seq(Nat)) /\ Len(s1) = Len(os[2]) - 1
    BY <2>1, <2>2, CutTyped
  <2>4. PICK U : U = Seq(Nat)
    OBVIOUS
  <2>5. s1 \in Seq(U) /\ Cuts(os[1], Len(s1))
    BY <2>1, <2>3, <2>4
  <2>6. PICK s2 : s2 = Cut(s1, os[1])
    OBVIOUS
  <2>7. PICK a, b : a = os[0][k] /\ b = os[0][k + 1]
    OBVIOUS
  <2>8. a \in Nat /\ b \in Nat /\ a <= b /\ b <= Len(os[1]) - 1
    <3>1. Len(os[1]) - 1 \in Nat
      BY <2>1 DEF Cuts
    <3> QED
      BY <2>1, <2>7, <3>1, CutInside DEF Cuts
  <2>9. Nested(depth, cs, os) = Cut(s2, os[0])
    BY <1>2, <2>2, <2>6 DEF Nested
  <2>10. Cut(s2, os[0])[k] = SubSeq(s2, a + 1, b)
    BY <2>7 DEF Cut
  <2>11. PICK x, y : x = os[1][a + 1] /\ y = os[1][b + 1]
    OBVIOUS
  <2>12. /\ FlattenSeq(SubSeq(s2, a + 1, b)) = SubSeq(s1, x + 1, y)
         /\ x \in Nat /\ y \in Nat /\ x <= y /\ y <= Len(s1)
    BY <2>5, <2>6, <2>8, <2>11, CutFlat
  <2>13. y <= Len(os[2]) - 1
    BY <2>3, <2>12
  <2>14. /\ FlattenSeq(SubSeq(s1, x + 1, y)) = SubSeq(cs, os[2][x + 1] + 1, os[2][y + 1])
         /\ os[2][x + 1] \in Nat /\ os[2][y + 1] \in Nat
         /\ os[2][x + 1] <= os[2][y + 1] /\ os[2][y + 1] <= Len(cs)
    <3>1. x \in Nat /\ y \in Nat /\ x <= y
      BY <2>12
    <3>2. cs \in Seq(Nat) /\ Cuts(os[2], Len(cs))
      BY <2>1
    <3>3. /\ FlattenSeq(SubSeq(Cut(cs, os[2]), x + 1, y))
              = SubSeq(cs, os[2][x + 1] + 1, os[2][y + 1])
          /\ os[2][x + 1] \in Nat /\ os[2][y + 1] \in Nat
          /\ os[2][x + 1] <= os[2][y + 1] /\ os[2][y + 1] <= Len(cs)
      BY <2>13, <3>1, <3>2, CutFlat, Zenon
    <3> QED
      BY <2>2, <3>3, Zenon
  <2>15. Reach(depth, os, k) = os[2][x + 1] /\ Reach(depth, os, k + 1) = os[2][y + 1]
    BY <1>2, <2>7, <2>11 DEF Reach
  <2>16. FlatRow(SubSeq(s2, a + 1, b)) = FlattenSeq(SubSeq(s1, x + 1, y))
    <3>1. PICK r : r = SubSeq(s2, a + 1, b)
      OBVIOUS
    <3>2. FlatRow(r) = FlattenSeq(FlattenSeq(r))
      BY <1>2 DEF FlatRow
    <3>3. FlattenSeq(r) = SubSeq(s1, x + 1, y)
      BY <2>12, <3>1
    <3> QED
      BY <3>1, <3>2, <3>3
  <2> QED
    BY <2>9, <2>10, <2>14, <2>15, <2>16
<1> QED
  BY <1>1, <1>2

(* Where a row starts does not change when lists are closed after it. *)
LEMMA ReachKept ==
  ASSUME depth \in 2 .. 3, NEW cs \in Seq(Nat), NEW os, CutsInto(depth, cs, os),
         NEW ot, \A l \in Lvl : Begins(os[l], ot[l]), NEW k \in 1 .. Len(os[0])
  PROVE  /\ Reach(depth, ot, k) = Reach(depth, os, k)
         /\ Reach(depth, os, k) \in Nat /\ Reach(depth, os, k) <= Len(cs)
<1>0. Begins(os[0], ot[0]) /\ Begins(os[1], ot[1]) /\ Begins(os[2], ot[2])
  BY DEF Lvl
<1>1. ASSUME NEW o, NEW p, Begins(o, p), NEW n \in Nat, Cuts(o, n), NEW i \in 1 .. Len(o)
      PROVE  p[i] = o[i] /\ o[i] \in Nat /\ o[i] <= n
  <2>1. o \in Seq(Nat) /\ o \in Seq(Int) /\ Len(o) \in Nat /\ Len(o) \in 1 .. Len(o)
    BY <1>1 DEF Cuts
  <2>2. \A u, v \in 1 .. Len(o) : u <= v => o[u] <= o[v]
    BY <1>1, <2>1, AscendsFar DEF Cuts
  <2>3. o[i] <= o[Len(o)] /\ o[i] \in Nat /\ o[Len(o)] \in Nat
    BY <2>1, <2>2
  <2>4. o[Len(o)] <= n /\ p[i] = o[i]
    BY <1>1 DEF Cuts, LastOf, Begins
  <2> QED
    BY <2>3, <2>4
<1>2. CASE depth = 2
  <2>1. Cuts(os[1], Len(cs)) /\ Cuts(os[0], Len(os[1]) - 1)
    BY <1>2, LevelsCut
  <2>2. Len(os[1]) - 1 \in Nat /\ Len(cs) \in Nat
    BY <2>1 DEF Cuts
  <2>3. ot[0][k] = os[0][k] /\ os[0][k] \in Nat /\ os[0][k] <= Len(os[1]) - 1
    BY <1>0, <1>1, <2>1, <2>2
  <2>4. os[0][k] + 1 \in 1 .. Len(os[1])
    BY <2>2, <2>3
  <2>5. /\ ot[1][os[0][k] + 1] = os[1][os[0][k] + 1]
        /\ os[1][os[0][k] + 1] \in Nat /\ os[1][os[0][k] + 1] <= Len(cs)
    BY <1>0, <1>1, <2>1, <2>2, <2>4
  <2> QED
    BY <1>2, <2>3, <2>5 DEF Reach
<1>3. CASE depth = 3
  <2>1. /\ Cuts(os[2], Len(cs)) /\ Cuts(os[1], Len(os[2]) - 1)
        /\ Cuts(os[0], Len(os[1]) - 1)
    BY <1>3, LevelsCut
  <2>2. Len(os[1]) - 1 \in Nat /\ Len(os[2]) - 1 \in Nat /\ Len(cs) \in Nat
    BY <2>1 DEF Cuts
  <2>3. ot[0][k] = os[0][k] /\ os[0][k] \in Nat /\ os[0][k] <= Len(os[1]) - 1
    BY <1>0, <1>1, <2>1, <2>2
  <2>4. PICK i : i = os[0][k] + 1
    OBVIOUS
  <2>5. i \in 1 .. Len(os[1])
    BY <2>2, <2>3, <2>4
  <2>6. ot[1][i] = os[1][i] /\ os[1][i] \in Nat /\ os[1][i] <= Len(os[2]) - 1
    BY <1>0, <1>1, <2>1, <2>2, <2>5
  <2>7. PICK j : j = os[1][i] + 1
    OBVIOUS
  <2>8. j \in 1 .. Len(os[2])
    BY <2>2, <2>6, <2>7
  <2>9. ot[2][j] = os[2][j] /\ os[2][j] \in Nat /\ os[2][j] <= Len(cs)
    BY <1>0, <1>1, <2>1, <2>2, <2>8
  <2>10. Reach(depth, os, k) = os[2][j] /\ Reach(depth, ot, k) = ot[2][j]
    BY <1>3, <2>3, <2>4, <2>6, <2>7 DEF Reach
  <2> QED
    BY <2>9, <2>10
<1> QED
  BY <1>2, <1>3

-----------------------------------------------------------------------------
(* What a visit adds to the coordinates of a feature. *)
LEMMA SequencesType ==
  ASSUME NEW ns \in Seq(NodeSet)
  PROVE  /\ Sequences(ns) \in Seq(Seq(Nat)) /\ Len(Sequences(ns)) = Len(ns)
         /\ \A i \in 1 .. Len(ns) : Sequences(ns)[i] = ns[i].xs
<1>1. \A i \in 1 .. Len(ns) : ns[i].xs \in Seq(Nat)
  <2>1. \A i \in 1 .. Len(ns) : ns[i] \in NodeSet
    OBVIOUS
  <2> QED
    BY <2>1 DEF NodeSet
<1>2. Sequences(ns) = [i \in 1 .. Len(ns) |-> ns[i].xs] /\ Len(ns) \in Nat
  BY DEF Sequences
<1>3. Sequences(ns) \in [1 .. Len(ns) -> Seq(Nat)]
  BY <1>1, <1>2
<1> QED
  BY <1>2, <1>3

LEMMA CoordsOfMore ==
  ASSUME NEW ns \in Seq(NodeSet), NEW node \in NodeSet
  PROVE  /\ AllCoords(Append(ns, node)) = AllCoords(ns) \o node.xs
         /\ AllCoords(ns) \in Seq(Nat)
<1> DEFINE more == Append(ns, node)
<1>1. node.xs \in Seq(Nat)
  BY DEF NodeSet
<1>2. /\ more \in Seq(NodeSet) /\ Len(more) = Len(ns) + 1 /\ Len(ns) \in Nat
      /\ more[Len(ns) + 1] = node
      /\ \A i \in 1 .. Len(ns) : more[i] = ns[i]
  OBVIOUS
<1> HIDE DEF more
<1>3. /\ Sequences(ns) \in Seq(Seq(Nat)) /\ Len(Sequences(ns)) = Len(ns)
      /\ \A i \in 1 .. Len(ns) : Sequences(ns)[i] = ns[i].xs
  BY SequencesType
<1>4. /\ Sequences(more) \in Seq(Seq(Nat)) /\ Len(Sequences(more)) = Len(more)
      /\ \A i \in 1 .. Len(more) : Sequences(more)[i] = more[i].xs
  BY <1>2, SequencesType
<1>5. PICK u, v, x, W : /\ u = Sequences(ns) /\ v = Sequences(more) /\ x = node.xs
                        /\ W = Seq(Nat)
  OBVIOUS
<1>6. /\ u \in Seq(W) /\ x \in W /\ v \in Seq(W) /\ Len(u) = Len(ns)
      /\ Len(v) = Len(ns) + 1 /\ v[Len(ns) + 1] = x
      /\ \A i \in 1 .. Len(ns) : v[i] = u[i]
  <2>1. Len(ns) + 1 \in 1 .. Len(more) /\ \A i \in 1 .. Len(ns) : i \in 1 .. Len(more)
    BY <1>2
  <2> QED
    BY <1>1, <1>2, <1>3, <1>4, <1>5, <2>1
<1>7. v = Append(u, x)
  <2>1. /\ Append(u, x) \in Seq(W) /\ Len(Append(u, x)) = Len(u) + 1
        /\ \A i \in 1 .. Len(u) : Append(u, x)[i] = u[i]
        /\ Append(u, x)[Len(u) + 1] = x
    BY <1>6, AppendProperties
  <2>2. \A i \in 1 .. Len(v) : v[i] = Append(u, x)[i]
    BY <1>2, <1>6, <2>1
  <2> QED
    BY <1>6, <2>1, <2>2, SeqEqual
<1>8. FlattenSeq(Append(u, x)) = FlattenSeq(u) \o x /\ FlattenSeq(u) \in Seq(Nat)
  BY <1>1, <1>3, <1>5, FlattenAppend
<1> QED
  BY <1>5, <1>7, <1>8 DEF AllCoords, more

\* Joining three sequences: the order of the two joins does not matter.
LEMMA JoinsAssociate ==
  ASSUME NEW u \in Seq(Nat), NEW v \in Seq(Nat), NEW w \in Seq(Nat)
  PROVE  (u \o v) \o w = u \o (v \o w)
<1>1. PICK uv, vw : uv = u \o v /\ vw = v \o w
  OBVIOUS
<1>2. PICK l, r : l = uv \o w /\ r = u \o vw
  OBVIOUS
<1>3. PICK a, b, c : a = Len(u) /\ b = Len(v) /\ c = Len(w)
  OBVIOUS
<1>4. a \in Nat /\ b \in Nat /\ c \in Nat
  BY <1>3, LenProperties
<1>5. /\ uv \in Seq(Nat) /\ Len(uv) = a + b
      /\ \A i \in 1 .. a + b : uv[i] = IF i <= a THEN u[i] ELSE v[i - a]
  BY <1>1, <1>3, ConcatProperties
<1>6. /\ vw \in Seq(Nat) /\ Len(vw) = b + c
      /\ \A i \in 1 .. b + c : vw[i] = IF i <= b THEN v[i] ELSE w[i - b]
  BY <1>1, <1>3, ConcatProperties
<1>7. /\ l \in Seq(Nat) /\ Len(l) = (a + b) + c
      /\ \A i \in 1 .. (a + b) + c :
           l[i] = IF i <= a + b THEN uv[i] ELSE w[i - (a + b)]
  <2>1. /\ uv \o w \in Seq(Nat) /\ Len(uv \o w) = Len(uv) + Len(w)
        /\ \A i \in 1 .. Len(uv) + Len(w) : (uv \o w)[i] =
             IF i <= Len(uv) THEN uv[i] ELSE w[i - Len(uv)]
    BY <1>5, ConcatProperties
  <2> QED
    BY <1>2, <1>3, <1>5, <2>1, Zenon
<1>8. /\ r \in Seq(Nat) /\ Len(r) = a + (b + c)
      /\ \A i \in 1 .. a + (b + c) :
           r[i] = IF i <= a THEN u[i] ELSE vw[i - a]
  <2>1. /\ u \o vw \in Seq(Nat) /\ Len(u \o vw) = Len(u) + Len(vw)
        /\ \A i \in 1 .. Len(u) + Len(vw) : (u \o vw)[i] =
             IF i <= Len(u) THEN u[i] ELSE vw[i - Len(u)]
    BY <1>6, ConcatProperties
  <2> QED
    BY <1>2, <1>3, <1>6, <2>1, Zenon
<1>9. ASSUME NEW i \in 1 .. (a + b) + c
      PROVE  l[i] = r[i]
  <2>1. i \in Nat /\ 1 <= i /\ i <= (a + b) + c /\ i \in 1 .. a + (b + c)
    BY <1>4
  <2>2. CASE i <= a
    <3>1. i \in 1 .. a + b /\ i <= a + b
      BY <1>4, <2>1, <2>2
    <3>2. l[i] = uv[i]
      BY <1>7, <3>1
    <3>3. uv[i] = u[i]
      BY <1>5, <2>2, <3>1
    <3>4. r[i] = u[i]
      BY <1>8, <2>1, <2>2
    <3> QED
      BY <3>2, <3>3, <3>4
  <2>3. CASE a < i /\ i <= a + b
    <3>1. i - a \in 1 .. b + c /\ i - a <= b /\ ~(i <= a) /\ i \in 1 .. a + b
      BY <1>4, <2>1, <2>3
    <3> QED
      BY <1>5, <1>6, <1>7, <1>8, <2>1, <2>3, <3>1
  <2>4. CASE a + b < i
    <3>1. /\ i - a \in 1 .. b + c /\ ~(i - a <= b) /\ ~(i <= a)
          /\ ~(i <= a + b) /\ (i - a) - b = i - (a + b)
      BY <1>4, <2>1, <2>4
    <3> QED
      BY <1>6, <1>7, <1>8, <2>1, <3>1
  <2> QED
    BY <1>4, <2>1, <2>2, <2>3, <2>4
<1>10. Len(l) = Len(r)
  BY <1>4, <1>7, <1>8
<1>11. l = r
  BY <1>7, <1>8, <1>9, <1>10, SeqEqual
<1> QED
  BY <1>1, <1>2, <1>11

LEMMA CoordsOfLonger ==
  ASSUME NEW ns \in Seq(NodeSet), ns # << >>, NEW more \in Seq(Nat)
  PROVE  AllCoords([ns EXCEPT ![Len(ns)].xs = @ \o more]) = AllCoords(ns) \o more
<1>1. Len(ns) \in Nat \ {0} /\ Len(ns) \in 1 .. Len(ns)
  BY EmptySeq
<1>2. PICK m, front, last : /\ m = Len(ns) - 1 /\ front = SubSeq(ns, 1, m)
                            /\ last = ns[Len(ns)]
  OBVIOUS
<1>3. m \in Nat /\ Len(ns) = m + 1
  BY <1>1, <1>2
<1>4. /\ front \in Seq(NodeSet) /\ Len(front) = m
      /\ \A i \in 1 .. m : front[i] = ns[i]
  BY <1>1, <1>2, <1>3
<1>5. last \in NodeSet /\ last.xs \in Seq(Nat)
  <2>1. last \in NodeSet
    BY <1>1, <1>2
  <2> QED
    BY <2>1 DEF NodeSet
<1>6. PICK long : long = [last EXCEPT !.xs = @ \o more]
  OBVIOUS
<1>7. long \in NodeSet /\ long.xs = last.xs \o more
  <2>1. last.xs \o more \in Seq(Nat)
    BY <1>5
  <2> QED
    BY <1>5, <1>6, <2>1 DEF NodeSet
<1>8. ns = Append(front, last)
  <2>1. Append(front, last) \in Seq(NodeSet) /\ Len(Append(front, last)) = m + 1
        /\ \A i \in 1 .. m : Append(front, last)[i] = front[i]
        /\ Append(front, last)[m + 1] = last
    BY <1>3, <1>4, <1>5, AppendProperties
  <2>2. \A i \in 1 .. Len(ns) : ns[i] = Append(front, last)[i]
    BY <1>2, <1>3, <1>4, <2>1
  <2> QED
    BY <1>3, <2>1, <2>2, SeqEqual
<1>9. [ns EXCEPT ![Len(ns)].xs = @ \o more] = Append(front, long)
  <2>1. [ns EXCEPT ![Len(ns)].xs = @ \o more] = [ns EXCEPT ![Len(ns)] = long]
    BY <1>2, <1>6
  <2>2. /\ [ns EXCEPT ![Len(ns)] = long] \in Seq(NodeSet)
        /\ Len([ns EXCEPT ![Len(ns)] = long]) = Len(ns)
        /\ \A j \in 1 .. Len(ns) :
             [ns EXCEPT ![Len(ns)] = long][j] = IF j = Len(ns) THEN long ELSE ns[j]
    BY <1>1, <1>7, ExceptSeq
  <2>3. PICK new : new = [ns EXCEPT ![Len(ns)] = long]
    OBVIOUS
  <2>4. Append(front, long) \in Seq(NodeSet) /\ Len(Append(front, long)) = m + 1
        /\ \A i \in 1 .. m : Append(front, long)[i] = front[i]
        /\ Append(front, long)[m + 1] = long
    BY <1>4, <1>7, AppendProperties
  <2>5. \A j \in 1 .. Len(ns) : new[j] = Append(front, long)[j]
    BY <1>3, <1>4, <2>2, <2>3, <2>4
  <2>6. new = Append(front, long)
    BY <1>3, <2>2, <2>3, <2>4, <2>5, SeqEqual
  <2> QED
    BY <2>1, <2>3, <2>6
<1>10. /\ AllCoords(Append(front, last)) = AllCoords(front) \o last.xs
       /\ AllCoords(Append(front, long)) = AllCoords(front) \o long.xs
       /\ AllCoords(front) \in Seq(Nat)
  BY <1>4, <1>5, <1>7, CoordsOfMore
<1>11. PICK f, x : f = AllCoords(front) /\ x = last.xs
  OBVIOUS
<1>12. (f \o x) \o more = f \o (x \o more)
  <2>1. f \in Seq(Nat) /\ x \in Seq(Nat)
    BY <1>5, <1>10, <1>11
  <2> QED
    BY <2>1, JoinsAssociate
<1> QED
  BY <1>7, <1>8, <1>9, <1>10, <1>11, <1>12

LEMMA NoCoords == AllCoords(<< >>) = << >>
<1>1. Sequences(<< >>) = << >>
  BY DEF Sequences
<1> QED
  BY <1>1, FlattenEmpty DEF AllCoords

(* The end of a longer sequence. *)
LEMMA TailOfLonger ==
  ASSUME NEW S, NEW s \in Seq(S), NEW t \in Seq(S), NEW a \in Nat, a <= Len(s)
  PROVE  SubSeq(s \o t, a + 1, Len(s \o t)) = SubSeq(s, a + 1, Len(s)) \o t
<1>1. PICK u, n, m : u = s \o t /\ n = Len(s) /\ m = Len(s \o t)
  OBVIOUS
<1>2. /\ u \in Seq(S) /\ Len(u) = m /\ m = n + Len(t) /\ n \in Nat /\ Len(t) \in Nat
      /\ \A i \in 1 .. n : u[i] = s[i]
      /\ \A i \in 1 .. Len(t) : u[n + i] = t[i]
  BY <1>1
<1>3. SubSeq(u, a + 1, n) \o SubSeq(u, n + 1, m) = SubSeq(u, a + 1, m)
  <2>1. a <= n /\ n <= m /\ m <= Len(u) /\ m \in Nat
    BY <1>1, <1>2
  <2> QED
    BY <1>2, <2>1, RangesJoin
<1>4. SubSeq(u, a + 1, n) = SubSeq(s, a + 1, n)
  BY <1>1, <1>2, SameSubSeq
<1>5. SubSeq(u, n + 1, m) = t
  <2>1. \A i \in n + 1 .. m : u[i] \in S
    BY <1>2
  <2>2. /\ SubSeq(u, n + 1, m) \in Seq(S)
        /\ Len(SubSeq(u, n + 1, m)) = IF n + 1 <= m THEN m - (n + 1) + 1 ELSE 0
        /\ \A i \in 1 .. m - (n + 1) + 1 : SubSeq(u, n + 1, m)[i] = u[n + 1 + i - 1]
    BY <1>2, <2>1, SubSeqProperties
  <2>3. PICK w : w = SubSeq(u, n + 1, m)
    OBVIOUS
  <2>4. Len(w) = Len(t)
    BY <1>2, <2>2, <2>3
  <2>5. \A i \in 1 .. Len(t) : w[i] = t[i]
    BY <1>2, <2>2, <2>3
  <2> QED
    BY <2>2, <2>3, <2>4, <2>5, SeqEqual
<1> QED
  BY <1>1, <1>3, <1>4, <1>5

-----------------------------------------------------------------------------
(* The rows have the coordinates of their features, and those after the    *)
(* last row are the ones of the current feature.                           *)
CoordsInPlace ==
  failed = 0 /\ depth >= 2 =>
    /\ \A i \in 1 .. Len(rows) :
         SubSeq(coords, Reach(depth, offsets, i) + 1, Reach(depth, offsets, i + 1))
           = AllCoords(rows[i].nodes)
    /\ ~Idle => SubSeq(coords, Reach(depth, offsets, Len(rows) + 1) + 1, Len(coords))
                  = AllCoords(nodes)

(* The last entry of a list of offsets. *)
LEMMA LastIsNat ==
  ASSUME NEW s \in Seq(Nat), Len(s) >= 1
  PROVE  LastOf(s) \in Nat
<1>1. Len(s) \in 1 .. Len(s)
  OBVIOUS
<1>2. s[Len(s)] \in Nat
  BY <1>1
<1> QED
  BY <1>2 DEF LastOf

(* Between features the last row ends with the last coordinate. *)
LEMMA LastReach ==
  ASSUME NEW d \in 2 .. 3, NEW cs \in Seq(Nat), NEW os \in [Lvl -> Seq(Nat)],
         \A l \in 0 .. d - 1 :
           /\ Len(os[l]) >= 1
           /\ (IF l = d - 1 THEN Len(cs) ELSE Len(os[l + 1]) - 1) - LastOf(os[l]) = 0
  PROVE  Reach(d, os, Len(os[0])) = Len(cs)
<1>1. 0 \in Lvl /\ 1 \in Lvl /\ 2 \in Lvl
  BY DEF Lvl
<1>2. /\ os[0] \in Seq(Nat) /\ os[1] \in Seq(Nat) /\ os[2] \in Seq(Nat)
      /\ Len(os[0]) \in Nat /\ Len(os[1]) \in Nat /\ Len(os[2]) \in Nat
  BY <1>1
<1>3. /\ Len(os[0]) >= 1 /\ (Len(os[1]) - 1) - LastOf(os[0]) = 0 /\ Len(os[1]) >= 1
  <2>1. 0 \in 0 .. d - 1 /\ 1 \in 0 .. d - 1 /\ 0 # d - 1 /\ 0 + 1 = 1
    OBVIOUS
  <2> QED
    BY <2>1
<1>4. LastOf(os[0]) \in Nat /\ LastOf(os[0]) + 1 = Len(os[1])
  <2>1. os[0] \in Seq(Nat) /\ Len(os[0]) >= 1
    BY <1>2, <1>3
  <2>2. LastOf(os[0]) \in Nat
    BY <2>1, LastIsNat
  <2> QED
    BY <1>2, <1>3, <2>2
<1>5. LastOf(os[1]) \in Nat
  <2>1. os[1] \in Seq(Nat) /\ Len(os[1]) >= 1
    BY <1>2, <1>3
  <2> QED
    BY <2>1, LastIsNat
<1>6. CASE d = 2
  <2>1. Len(cs) - LastOf(os[1]) = 0
    <3>1. 1 \in 0 .. d - 1 /\ 1 = d - 1
      BY <1>6
    <3> QED
      BY <3>1
  <2>2. LastOf(os[1]) = Len(cs)
    BY <1>5, <2>1, Len(cs) \in Nat
  <2> QED
    BY <1>4, <1>6, <2>2 DEF Reach, LastOf
<1>7. CASE d = 3
  <2>1. (Len(os[2]) - 1) - LastOf(os[1]) = 0 /\ Len(cs) - LastOf(os[2]) = 0
        /\ Len(os[2]) >= 1
    <3>1. 1 \in 0 .. d - 1 /\ 1 # d - 1 /\ 1 + 1 = 2 /\ 2 \in 0 .. d - 1 /\ 2 = d - 1
      BY <1>7
    <3> QED
      BY <3>1
  <2>2. LastOf(os[2]) \in Nat
    <3>1. os[2] \in Seq(Nat) /\ Len(os[2]) >= 1
      BY <1>2, <2>1
    <3> QED
      BY <3>1, LastIsNat
  <2>3. LastOf(os[2]) = Len(cs) /\ LastOf(os[1]) + 1 = Len(os[2])
    BY <1>2, <1>5, <2>1, <2>2, Len(cs) \in Nat
  <2>4. Reach(d, os, Len(os[0])) = os[2][os[1][LastOf(os[0]) + 1] + 1]
    BY <1>7 DEF Reach, LastOf
  <2>5. os[1][LastOf(os[0]) + 1] = LastOf(os[1])
    BY <1>4 DEF LastOf
  <2> QED
    BY <2>3, <2>4, <2>5 DEF LastOf
<1> QED
  BY <1>6, <1>7

(* What BatchInv says of where the rows end. *)
LEMMA RowsReach ==
  ASSUME BatchInv, failed = 0, depth >= 2
  PROVE  /\ depth \in 2 .. 3 /\ Len(offsets[0]) = Len(rows) + 1 /\ Len(rows) \in Nat
         /\ \A k \in 1 .. Len(rows) + 1 :
              Reach(depth, offsets, k) \in Nat /\ Reach(depth, offsets, k) <= Len(coords)
         /\ Idle => Reach(depth, offsets, Len(rows) + 1) = Len(coords)
<1>1. /\ depth \in 2 .. 3 /\ Len(rows) \in Nat /\ coords \in Seq(Nat)
      /\ offsets \in [Lvl -> Seq(Nat)] /\ Inv /\ Len(offsets[0]) \in Nat
  BY BatchTypes DEF BatchInv
<1>2. RowCount(depth, coords, offsets) = Len(rows) + 0
  BY <1>1 DEF BatchInv, RowsInPlace
<1>3. Len(offsets[0]) = Len(rows) + 1
  BY <1>1, <1>2 DEF RowCount
<1>4. CutsInto(depth, coords, offsets)
  BY <1>1, StateCuts
<1>5. \A l \in Lvl : Begins(offsets[l], offsets[l])
  <2>1. \A l \in Lvl : offsets[l] \in Seq(Nat)
    BY <1>1
  <2> QED
    BY <2>1, BeginsSame
<1>6. ASSUME NEW k \in 1 .. Len(rows) + 1
      PROVE  Reach(depth, offsets, k) \in Nat /\ Reach(depth, offsets, k) <= Len(coords)
  BY <1>1, <1>3, <1>4, <1>5, ReachKept
<1>7. ASSUME Idle
      PROVE  Reach(depth, offsets, Len(rows) + 1) = Len(coords)
  <2>1. \A l \in 0 .. depth - 1 :
          (IF l = depth - 1 THEN Len(coords) ELSE Len(offsets[l + 1]) - 1)
            - LastOf(offsets[l]) = 0
    BY <1>1, <1>7 DEF BatchInv, AllCounted, Elements
  <2>2. \A l \in 0 .. depth - 1 : Len(offsets[l]) >= 1
    BY <1>1 DEF Inv, WellNested, Nests
  <2>3. Reach(depth, offsets, Len(offsets[0])) = Len(coords)
    BY <1>1, <2>1, <2>2, LastReach
  <2> QED
    BY <1>3, <2>3
<1> QED
  BY <1>1, <1>3, <1>6, <1>7

LEMMA RowsReachNext ==
  ASSUME BatchInv', failed' = 0, depth' \in 2 .. 3, depth' = depth, Idle'
  PROVE  Reach(depth', offsets', Len(rows') + 1) = Len(coords')
<1>1. /\ Len(rows') \in Nat /\ coords' \in Seq(Nat)
      /\ offsets' \in [Lvl -> Seq(Nat)] /\ Len(offsets'[0]) \in Nat
  <2>1. /\ Len(rows') \in Nat /\ coords' \in Seq(Nat)
        /\ offsets' \in [Lvl -> Seq(Nat)]
    BY DEF BatchInv, Inv, TypeOK, WriterTypeOK, ProtocolTypeOK
  <2> QED
    BY <2>1 DEF Lvl
<1>2. RowCount(depth', coords', offsets') = Len(rows') + 0
  BY DEF BatchInv, RowsInPlace
<1>3. Len(offsets'[0]) = Len(rows') + 1
  BY <1>1, <1>2 DEF RowCount
<1>4. \A l \in 0 .. depth' - 1 :
        (IF l = depth' - 1 THEN Len(coords') ELSE Len(offsets'[l + 1]) - 1)
          - LastOf(offsets'[l]) = 0
  BY DEF BatchInv, AllCounted, Elements, LastOf
<1>5. \A l \in 0 .. depth' - 1 : Len(offsets'[l]) >= 1
  BY DEF BatchInv, Inv, WellNested, Nests
<1>6. Reach(depth', offsets', Len(offsets'[0])) = Len(coords')
  BY <1>1, <1>4, <1>5, LastReach
<1> QED
  BY <1>3, <1>6

KeptInv == BatchInv /\ CoordsInPlace

(* A step that leaves the batch open. *)
LEMMA RowsStay ==
  ASSUME ProtocolAssumption, NativeAssumption, KeptInv, [Next]_vars, ~Finish,
         failed = 0, depth >= 2
  PROVE  /\ depth' = depth /\ Begins(coords, coords')
         /\ coords \in Seq(Nat) /\ coords' \in Seq(Nat)
         /\ \A k \in 1 .. Len(rows) + 1 :
              Reach(depth', offsets', k) = Reach(depth, offsets, k)
         /\ \A i \in 1 .. Len(rows) :
              SubSeq(coords', Reach(depth', offsets', i) + 1,
                     Reach(depth', offsets', i + 1))
                = AllCoords(rows[i].nodes)
<1>1. BatchInv /\ Inv /\ Inv'
  BY StepInv DEF KeptInv, BatchInv
<1>2. /\ depth' = depth /\ Begins(coords, coords')
      /\ \A l \in Lvl : Begins(offsets[l], offsets'[l])
  BY <1>1, BatchGrows DEF Extended
<1>3. coords \in Seq(Nat) /\ coords' \in Seq(Nat)
  BY <1>1 DEF Inv, TypeOK, WriterTypeOK
<1>4. /\ depth \in 2 .. 3 /\ Len(offsets[0]) = Len(rows) + 1 /\ Len(rows) \in Nat
      /\ \A k \in 1 .. Len(rows) + 1 :
           /\ Reach(depth, offsets, k) \in Nat
           /\ Reach(depth, offsets, k) <= Len(coords)
  BY <1>1, RowsReach
<1>5. ASSUME NEW k \in 1 .. Len(rows) + 1
      PROVE  Reach(depth, offsets', k) = Reach(depth, offsets, k)
  <2>1. CutsInto(depth, coords, offsets)
    BY <1>1, StateCuts
  <2>2. k \in 1 .. Len(offsets[0])
    BY <1>4
  <2> QED
    BY <1>2, <1>3, <1>4, <2>1, <2>2, ReachKept
<1>6. ASSUME NEW i \in 1 .. Len(rows)
      PROVE  SubSeq(coords', Reach(depth, offsets', i) + 1, Reach(depth, offsets', i + 1))
               = AllCoords(rows[i].nodes)
  <2>1. i \in 1 .. Len(rows) + 1 /\ i + 1 \in 1 .. Len(rows) + 1
    BY <1>4
  <2>2. PICK a, b : a = Reach(depth, offsets, i) /\ b = Reach(depth, offsets, i + 1)
    OBVIOUS
  <2>3. a \in Nat /\ b \in Nat /\ b <= Len(coords)
    BY <1>4, <2>1, <2>2
  <2>4. b <= Len(coords') /\ \A k \in 1 .. b : coords[k] = coords'[k]
    <3>1. Len(coords) <= Len(coords') /\ Len(coords) \in Nat /\ Len(coords') \in Nat
      BY <1>2, <1>3 DEF Begins
    <3>2. \A k \in 1 .. b : k \in 1 .. Len(coords)
      BY <2>3, <3>1
    <3> QED
      BY <1>2, <2>3, <3>1, <3>2 DEF Begins
  <2>5. SubSeq(coords, a + 1, b) = SubSeq(coords', a + 1, b)
    BY <1>3, <2>3, <2>4, SameSubSeq
  <2>6. SubSeq(coords, a + 1, b) = AllCoords(rows[i].nodes)
    BY <2>2 DEF KeptInv, CoordsInPlace
  <2>7. Reach(depth, offsets', i) = a /\ Reach(depth, offsets', i + 1) = b
    BY <1>5, <2>1, <2>2
  <2> QED
    BY <2>5, <2>6, <2>7
<1> QED
  BY <1>2, <1>3, <1>5, <1>6

(* A call during a feature that leaves what is after the last row as it    *)
(* should be.                                                              *)
LEMMA KeptByVisit ==
  ASSUME ProtocolAssumption, NativeAssumption, KeptInv, [Next]_vars, ~Finish,
         rows' = rows, failed' = failed,
         failed = 0 /\ depth >= 2 /\ ~Idle' =>
           SubSeq(coords', Reach(depth, offsets, Len(rows) + 1) + 1, Len(coords'))
             = AllCoords(nodes')
  PROVE  CoordsInPlace'
<1>1. CASE failed = 0 /\ depth >= 2
  <2>1. /\ depth' = depth
        /\ \A k \in 1 .. Len(rows) + 1 :
             Reach(depth', offsets', k) = Reach(depth, offsets, k)
        /\ \A i \in 1 .. Len(rows) :
             SubSeq(coords', Reach(depth', offsets', i) + 1,
                    Reach(depth', offsets', i + 1))
               = AllCoords(rows[i].nodes)
    BY <1>1, RowsStay
  <2>2. Len(rows) + 1 \in 1 .. Len(rows) + 1
    BY BatchTypes DEF KeptInv, BatchInv
  <2>3. Reach(depth', offsets', Len(rows) + 1) = Reach(depth, offsets, Len(rows) + 1)
    BY <2>1, <2>2
  <2> QED
    BY <1>1, <2>1, <2>3 DEF CoordsInPlace
<1>2. CASE ~(failed = 0 /\ depth >= 2)
  <2>1. depth' = depth
    BY BatchGrows DEF KeptInv, BatchInv
  <2> QED
    BY <1>2, <2>1 DEF CoordsInPlace
<1> QED
  BY <1>1, <1>2

LEMMA KeptByCoords ==
  ASSUME ProtocolAssumption, NativeAssumption, KeptInv,
         NEW n \in 0 .. MaxChunk, Coords(n)
  PROVE  CoordsInPlace'
<1>1. [Next]_vars /\ n \in Nat
  BY DEF Next, ProtocolAssumption
<1>2. /\ ReadCoords(n) /\ coords' = coords \o [i \in 1 .. n |-> Label]
      /\ rows' = rows /\ failed' = failed /\ open # << >>
      /\ nodes' = [nodes EXCEPT ![Len(nodes)].xs = @ \o [i \in 1 .. n |-> Label]]
  BY EmptySeq DEF Coords, ReadCoords, InGeometry
<1>3. ~Finish
  BY <1>2 DEF Finish, BatchDone, Idle
<1>4. coords \in Seq(Nat) /\ nodes \in Seq(NodeSet) /\ nodes # << >> /\ Label \in Nat
  BY <1>2, LabelType
  DEF ReadCoords, KeptInv, BatchInv, Inv, TypeOK, WriterTypeOK, ProtocolTypeOK, Nesting
<1>5. PICK more : more = [i \in 1 .. n |-> Label]
  OBVIOUS
<1>6. more \in Seq(Nat)
  <2> HIDE DEF Label
  <2> QED
    BY <1>1, <1>4, <1>5
<1>7. AllCoords(nodes') = AllCoords(nodes) \o more
  <2>1. nodes' = [nodes EXCEPT ![Len(nodes)].xs = @ \o more]
    BY <1>2, <1>5
  <2> QED
    BY <1>4, <1>6, <2>1, CoordsOfLonger
<1>8. ASSUME failed = 0, depth >= 2
      PROVE  SubSeq(coords', Reach(depth, offsets, Len(rows) + 1) + 1, Len(coords'))
               = AllCoords(nodes')
  <2>1. PICK a : a = Reach(depth, offsets, Len(rows) + 1)
    OBVIOUS
  <2>2. a \in Nat /\ a <= Len(coords)
    <3>1. Len(rows) + 1 \in 1 .. Len(rows) + 1
      BY BatchTypes DEF KeptInv, BatchInv
    <3> QED
      BY <1>8, <2>1, <3>1, RowsReach DEF KeptInv
  <2>3. SubSeq(coords, a + 1, Len(coords)) = AllCoords(nodes)
    BY <1>2, <1>8, <2>1 DEF KeptInv, CoordsInPlace, Idle
  <2>4. coords' = coords \o more
    BY <1>2, <1>5
  <2>5. SubSeq(coords \o more, a + 1, Len(coords \o more))
          = SubSeq(coords, a + 1, Len(coords)) \o more
    BY <1>4, <1>6, <2>2, TailOfLonger
  <2> QED
    BY <1>7, <2>1, <2>3, <2>4, <2>5
<1> QED
  BY <1>1, <1>2, <1>3, <1>8, KeptByVisit

(* The feature becomes the last row, with all that is after the one before. *)
LEMMA KeptByFeatEnd ==
  ASSUME ProtocolAssumption, NativeAssumption, KeptInv, FeatEnd
  PROVE  CoordsInPlace'
<1>1. [Next]_vars
  BY DEF Next
<1>2. Len(open) = 1 /\ open' = << >> /\ failed' = failed
  BY DEF FeatEnd, ReadFeatEnd, FeatureComplete
<1>3. ~Finish /\ ~Idle /\ Idle'
  BY <1>2, EmptySeq DEF Finish, BatchDone, Idle
<1>4. PICK r : rows' = Append(rows, r) /\ r.nodes = nodes
  BY DEF FeatEnd, ReadFeatEnd
<1>5. CASE ~(failed = 0 /\ depth >= 2)
  <2>1. depth' = depth
    BY <1>1, <1>3, BatchGrows DEF KeptInv, BatchInv
  <2> QED
    BY <1>2, <1>5, <2>1 DEF CoordsInPlace
<1>6. CASE failed = 0 /\ depth >= 2
  <2>1. /\ depth' = depth /\ coords \in Seq(Nat) /\ coords' \in Seq(Nat)
        /\ \A k \in 1 .. Len(rows) + 1 :
             Reach(depth', offsets', k) = Reach(depth, offsets, k)
        /\ \A i \in 1 .. Len(rows) :
             SubSeq(coords', Reach(depth', offsets', i) + 1,
                    Reach(depth', offsets', i + 1))
               = AllCoords(rows[i].nodes)
    BY <1>1, <1>3, <1>6, RowsStay
  <2>2. coords' = coords
    BY <1>6 DEF FeatEnd, PointEnd, LinestringEnd, ListsEnd
  <2>3. rows \in Seq(FeatureSet) /\ Len(rows) \in Nat /\ depth \in 2 .. 3
    BY <1>6, BatchTypes, RowsReach DEF KeptInv, BatchInv
  <2>4. /\ Len(rows') = Len(rows) + 1 /\ rows'[Len(rows) + 1] = r
        /\ \A i \in 1 .. Len(rows) : rows'[i] = rows[i]
    BY <1>4, <2>3
  <2>5. BatchInv'
    BY <1>1, StepBatchInv DEF KeptInv
  <2>6. Reach(depth', offsets', Len(rows') + 1) = Len(coords')
    BY <1>2, <1>3, <1>6, <2>1, <2>3, <2>5, RowsReachNext
  <2>7. SubSeq(coords, Reach(depth, offsets, Len(rows) + 1) + 1, Len(coords))
          = AllCoords(nodes)
    BY <1>3, <1>6 DEF KeptInv, CoordsInPlace
  <2>8. Reach(depth', offsets', Len(rows) + 1) = Reach(depth, offsets, Len(rows) + 1)
    <3>1. Len(rows) + 1 \in 1 .. Len(rows) + 1
      BY <2>3
    <3> QED
      BY <2>1, <3>1
  <2>9. ASSUME NEW i \in 1 .. Len(rows')
        PROVE  SubSeq(coords', Reach(depth', offsets', i) + 1,
                      Reach(depth', offsets', i + 1))
                 = AllCoords(rows'[i].nodes)
    <3>1. CASE i = Len(rows) + 1
      BY <1>4, <2>2, <2>4, <2>6, <2>7, <2>8, <3>1
    <3>2. CASE i # Len(rows) + 1
      <4>1. i \in 1 .. Len(rows)
        BY <2>3, <2>4, <3>2
      <4> QED
        BY <2>1, <2>4, <4>1
    <3> QED
      BY <3>1, <3>2
  <2> QED
    BY <1>3, <2>9 DEF CoordsInPlace
<1> QED
  BY <1>5, <1>6

LEMMA StepKeptInv ==
  ASSUME ProtocolAssumption, NativeAssumption, KeptInv, [Next]_vars
  PROVE  KeptInv'
<1>1. BatchInv' /\ BatchInv /\ Inv /\ failed \in Nat
  BY StepBatchInv, BatchTypes DEF KeptInv, BatchInv
<1>2. coords \in Seq(Nat) /\ nodes \in Seq(NodeSet)
  BY <1>1 DEF Inv, TypeOK, WriterTypeOK, ProtocolTypeOK
<1>3. CASE UNCHANGED vars
  <2>1. /\ coords' = coords /\ offsets' = offsets /\ depth' = depth /\ rows' = rows
        /\ failed' = failed /\ nodes' = nodes /\ open' = open
    BY <1>3 DEF vars, protocolVars, writerVars, listVars
  <2> QED
    BY <1>1, <2>1 DEF KeptInv, CoordsInPlace, Idle
<1>4. CASE FeatStart
  <2>1. /\ Idle /\ nodes' = << >> /\ rows' = rows /\ failed' = failed
        /\ coords' = coords /\ offsets' = offsets /\ ~Finish
    <3>1. Len(<< Frame(FEATURE) >>) = 1
      OBVIOUS
    <3>2. << Frame(FEATURE) >> # << >>
      BY <3>1, EmptySeq
    <3>3. open' = << Frame(FEATURE) >> /\ Idle /\ nodes' = << >> /\ rows' = rows
          /\ failed' = failed /\ coords' = coords /\ offsets' = offsets
      BY <1>4 DEF FeatStart, ReadFeatStart, listVars
    <3>4. Finish => open' = << >>
      BY DEF Finish, BatchDone, Idle
    <3> QED
      BY <3>2, <3>3, <3>4
  <2>2. ASSUME failed = 0, depth >= 2
        PROVE  SubSeq(coords', Reach(depth, offsets, Len(rows) + 1) + 1, Len(coords'))
                 = AllCoords(nodes')
    <3>1. Reach(depth, offsets, Len(rows) + 1) = Len(coords) /\ Len(coords) \in Nat
      BY <1>1, <1>2, <2>1, <2>2, RowsReach
    <3>2. SubSeq(coords, Len(coords) + 1, Len(coords)) = << >>
      BY <1>2, <3>1
    <3> QED
      BY <2>1, <3>1, <3>2, NoCoords
  <2> QED
    BY <1>1, <2>1, <2>2, KeptByVisit DEF KeptInv
<1>5. CASE \/ NullFeat \/ RingEnd \/ GeomEnd \/ PolygonEnd
  <2>1. /\ open # << >> /\ nodes' = nodes /\ rows' = rows /\ failed' = failed
        /\ coords' = coords
    <3>1. Len(<< Frame(FEATURE) >>) = 1
      OBVIOUS
    <3> QED
      BY <1>5, <3>1, EmptySeq
      DEF NullFeat, ReadNullFeat, RingEnd, ReadRingEnd, GeomEnd, ReadGeomEnd,
          PolygonEnd, ReadPartEnd, InGeometry, listVars
  <2>2. ~Finish
    BY <2>1 DEF Finish, BatchDone, Idle
  <2>3. failed = 0 /\ depth >= 2 =>
          SubSeq(coords', Reach(depth, offsets, Len(rows) + 1) + 1, Len(coords'))
            = AllCoords(nodes')
    BY <2>1 DEF KeptInv, CoordsInPlace, Idle
  <2> QED
    BY <1>1, <2>1, <2>2, <2>3, KeptByVisit DEF KeptInv
<1>6. ASSUME NEW type \in RING .. GEOMETRYCOLLECTION, NEW dims \in 1 .. 4,
             ReadPartStart(type, dims), open # << >>, coords' = coords
      PROVE  CoordsInPlace'
  <2>1. /\ nodes' = Append(nodes, Node(type, dims, Depth)) /\ rows' = rows
        /\ failed' = failed
    BY <1>6 DEF ReadPartStart
  <2>2. ~Finish
    BY <1>6 DEF Finish, BatchDone, Idle
  <2>3. PICK node : node = Node(type, dims, Depth)
    OBVIOUS
  <2>4. node \in NodeSet /\ node.xs = << >>
    <3>1. Depth \in Nat
      <4>1. open \in Seq(FrameSet)
        BY <1>1 DEF Inv, TypeOK, ProtocolTypeOK
      <4>2. Len(open) \in Nat \ {0}
        BY <1>6, <4>1, EmptySeq
      <4> QED
        BY <4>2 DEF Depth
    <3> QED
      BY <2>3, <3>1 DEF Node, NodeSet
  <2>5. AllCoords(nodes') = AllCoords(nodes)
    <3>1. /\ AllCoords(Append(nodes, node)) = AllCoords(nodes) \o << >>
          /\ AllCoords(nodes) \in Seq(Nat)
      BY <1>2, <2>4, CoordsOfMore
    <3>2. \A s \in Seq(Nat) : s \o << >> = s
      BY ConcatEmptySeq
    <3> QED
      BY <2>1, <2>3, <3>1, <3>2
  <2>6. failed = 0 /\ depth >= 2 =>
          SubSeq(coords', Reach(depth, offsets, Len(rows) + 1) + 1, Len(coords'))
            = AllCoords(nodes')
    BY <1>6, <2>5 DEF KeptInv, CoordsInPlace, Idle
  <2> QED
    BY <2>1, <2>2, <2>6, KeptByVisit
<1>7. CASE RingStart \/ \E type \in GeomTypes, dims \in Dims : GeomStart(type, dims)
  <2>1. CASE RingStart
    <3>1. /\ ReadPartStart(RING, nodes[Len(nodes)].dims) /\ open # << >>
          /\ coords' = coords /\ nodes # << >>
      BY <1>1, <2>1, EmptySeq
      DEF RingStart, ReadRingStart, InGeometry, listVars, Inv, Nesting
    <3>2. nodes[Len(nodes)] \in NodeSet
      BY <1>2, <3>1, EmptySeq
    <3>3. nodes[Len(nodes)].dims \in 1 .. 4 /\ RING \in RING .. GEOMETRYCOLLECTION
      BY <3>2 DEF NodeSet, RING, GEOMETRYCOLLECTION
    <3> QED
      BY <1>1, <1>6, <3>1, <3>3 DEF KeptInv
  <2>2. CASE \E type \in GeomTypes, dims \in Dims : GeomStart(type, dims)
    <3>1. PICK type \in GeomTypes, dims \in Dims : GeomStart(type, dims)
      BY <2>2
    <3>2. /\ ReadPartStart(type, dims) /\ open # << >> /\ coords' = coords
      BY <3>1 DEF GeomStart, ReadGeomStart, Idle, listVars
    <3>3. type \in RING .. GEOMETRYCOLLECTION /\ dims \in 1 .. 4
      BY DEF ProtocolAssumption, RING, GEOMETRYCOLLECTION
    <3> QED
      BY <1>1, <1>6, <3>2, <3>3 DEF KeptInv
  <2> QED
    BY <1>7, <2>1, <2>2
<1>8. CASE \E n \in 0 .. MaxChunk : Coords(n)
  BY <1>1, <1>8, KeptByCoords DEF KeptInv
<1>9. CASE FeatEnd
  BY <1>1, <1>9, KeptByFeatEnd DEF KeptInv
<1>10. CASE FeatRejected \/ Overflow \/ ReaderFails
  <2>1. failed' # 0
    BY <1>1, <1>10 DEF FeatRejected, Overflow, ReaderFails, Abandon
  <2> QED
    BY <1>1, <2>1 DEF KeptInv, CoordsInPlace
<1>11. CASE Finish
  <2>1. rows' = << >> /\ Idle' /\ Len(<< >>) = 0
    BY <1>11 DEF Finish, BatchDone, Idle
  <2> QED
    BY <1>1, <2>1 DEF KeptInv, CoordsInPlace
<1> QED
  BY <1>1, <1>3, <1>4, <1>5, <1>7, <1>8, <1>9, <1>10, <1>11 DEF Next, KeptInv

(* Whatever the types of its parts, and however they arrived, a feature    *)
(* that was ended without an error has all its coordinates, in order, in   *)
(* its own row of an array of lists of lists: the three levels of offsets  *)
(* that the callbacks close one by one cut the coordinates between the     *)
(* features and nowhere else.                                              *)
THEOREM CoordinatesCorrect == Spec => []CoordinatesKept
<1>1. ProtocolAssumption /\ NativeAssumption /\ Init => KeptInv
  <2>1. Init => rows = << >> /\ Idle /\ Len(<< >>) = 0
    BY DEF Init, ProtocolInit, Idle
  <2> QED
    BY <2>1, InitBatchInv DEF KeptInv, CoordsInPlace
<1>2. KeptInv => CoordinatesKept
  <2> SUFFICES ASSUME KeptInv, failed = 0, depth >= 2, NEW i \in DOMAIN rows
               PROVE  FlatRow(Rows(Len(rows))[i]) = AllCoords(rows[i].nodes)
    BY DEF CoordinatesKept, RowsHoldFeatures
  <2>1. /\ depth \in 2 .. 3 /\ Len(offsets[0]) = Len(rows) + 1 /\ Len(rows) \in Nat
        /\ Inv /\ rows \in Seq(FeatureSet) /\ coords \in Seq(Nat)
    BY RowsReach, BatchTypes DEF KeptInv, BatchInv
  <2>2. i \in 1 .. Len(rows) /\ i \in 1 .. Len(offsets[0]) - 1
    BY <2>1
  <2>3. Len(Lists) = Len(rows)
    <3>1. RowCount(depth, coords, offsets) = Len(offsets[0]) - 1
      BY <2>1 DEF RowCount
    <3> QED
      BY <2>1, <3>1, RowsAreLists
  <2>4. Rows(Len(rows))[i] = Lists[i]
    BY <2>1, <2>2, <2>3, RowsAreLists
  <2>5. FlatRow(Nested(depth, coords, offsets)[i])
          = SubSeq(coords, Reach(depth, offsets, i) + 1, Reach(depth, offsets, i + 1))
    BY <2>1, <2>2, StateCuts, RowIsRange
  <2>6. SubSeq(coords, Reach(depth, offsets, i) + 1, Reach(depth, offsets, i + 1))
          = AllCoords(rows[i].nodes)
    BY <2>2 DEF KeptInv, CoordsInPlace
  <2> QED
    BY <2>4, <2>5, <2>6 DEF Lists
<1>3. ProtocolAssumption /\ NativeAssumption /\ KeptInv /\ [Next]_vars => KeptInv'
  BY StepKeptInv
<1> QED
  BY <1>1, <1>2, <1>3, ProtocolAssumption, NativeAssumption, PTL DEF Spec

=============================================================================
