---------------------------- MODULE NativeAppend ----------------------------
(***************************************************************************)
(* The other way into the native writer: a whole geometry is appended, its *)
(* offsets first, if its type fits the array, and its coordinates after    *)
(* them.  Offsets are sums of sizes that lastOffset keeps per level; the   *)
(* visitor does not keep them, so a writer is driven in one way or the     *)
(* other.  A geometry has fewer than 2^31 parts or coordinates; a batch of *)
(* geometries may have more, and Append does not notice.                   *)
(***************************************************************************)
EXTENDS NativeReference

CONSTANT Geometries   (* features to append, as what a visitor is told     *)

(* What the parts of a geometry of some type are.  A collection has parts  *)
(* of any type.                                                            *)
PartTypes(type) ==
  CASE type = POLYGON            -> {RING}
    [] type = MULTIPOINT         -> {POINT}
    [] type = MULTILINESTRING    -> {LINESTRING}
    [] type = MULTIPOLYGON       -> {POLYGON}
    [] type = GEOMETRYCOLLECTION -> POINT .. GEOMETRYCOLLECTION
    [] HoldsCoords(type)         -> {}

(* A node is followed by its parts, depth first (geoarrow_type.h:456), and *)
(* only sequences have coordinates.                                        *)
WellFormed(ns) ==
  /\ \A i \in DOMAIN ns : HoldsCoords(ns[i].type) \/ ns[i].xs = << >>
  /\ \A i \in 2 .. Len(ns) :
       \E p \in 1 .. i - 1 : i \in Parts(ns, p) /\ ns[i].type \in PartTypes(ns[p].type)

ASSUME GeometriesAssumption ==
  /\ Geometries \subseteq Seq(NodeSet)
  /\ \A ns \in Geometries :
       /\ ns # << >> /\ ns[1].type # RING /\ WellFormed(ns)
       /\ Len(ns) <= MaxOffset /\ Len(AllCoords(ns)) <= MaxOffset

VARIABLES
  appends,      (* the writer is appended to, not visited                  *)
  arrayType,    (* geometry type of the array                              *)
  lastOffset,   (* per level: the last offset that was appended            *)
  currentLength
appendVars == << appends, arrayType, lastOffset, currentLength >>

TypesOfDepth(d) ==
  CASE d = 0 -> {POINT} [] d = 1 -> {LINESTRING, MULTIPOINT}
    [] d = 2 -> {POLYGON, MULTILINESTRING} [] d = 3 -> {MULTIPOLYGON}

NoOffsets == [l \in Lvl |-> 0]

AppendInit ==
  /\ Init
  /\ appends \in BOOLEAN
  /\ arrayType \in TypesOfDepth(depth)
  /\ lastOffset = NoOffsets /\ currentLength = 0

-----------------------------------------------------------------------------
(* An int32_t to which an uint32_t is added. *)
Int32(n) == IF n > MaxOffset THEN n - 2 * (MaxOffset + 1) ELSE n

(* GeoArrowNativeWriterAppendSize, on st, the offsets and the last ones:   *)
(* the size is checked, the sum is not.                                    *)
AppendSize(st, l, n) ==
  LET last == Int32(st.last[l] + n)
  IN [offsets |-> [st.offsets EXCEPT ![l] = Append(@, last)],
      last    |-> [st.last EXCEPT ![l] = last]]

Written == [offsets |-> offsets, last |-> lastOffset]

(* The node at i is followed by as many sequences as its size. *)
Sequel(geom, i) == SubSeq(geom, i + 1, i + geom[i].size)

(* A loop over the nodes, one size each. *)
AppendLinestringOffsets(st, ns, l) ==
  LET after[k \in 0 .. Len(ns)] ==
        IF k = 0 THEN st ELSE AppendSize(after[k - 1], l, ns[k].size)
  IN after[Len(ns)]

AppendPolygonOffsets(st, geom, i, l) ==
  AppendLinestringOffsets(AppendSize(st, l, geom[i].size), Sequel(geom, i), l + 1)

(* Mutant: the next polygon is looked for among the rings of the last.     *)
PolygonAfter_Ring(geom, i) == i + 1
PolygonAfter(geom, i) == i + geom[i].size + 1

(* A loop over the polygons, at the node at. *)
AppendMultiPolygonOffsets(st, geom) ==
  LET after[k \in 0 .. geom[1].size] ==
        IF k = 0 THEN [st |-> AppendSize(st, 0, geom[1].size), at |-> 2]
        ELSE LET before == after[k - 1]
             IN [st |-> AppendPolygonOffsets(before.st, geom, before.at, 1),
                 at |-> PolygonAfter(geom, before.at)]
  IN after[geom[1].size].st

(* The array and geometry types that go together, with coordinates.        *)
Accepts(geom) ==
  LET type == geom[1].type
  IN CASE arrayType = POINT      -> Len(AllCoords(geom)) = 1
       [] arrayType = LINESTRING -> \/ type = LINESTRING
                                    \/ type = MULTILINESTRING /\ geom[1].size <= 1
       [] arrayType = POLYGON    -> \/ type = POLYGON
                                    \/ type = MULTIPOLYGON /\ geom[1].size <= 1
       [] arrayType = MULTIPOINT -> type \in {POINT, MULTIPOINT}
       [] arrayType = MULTILINESTRING -> type \in {LINESTRING, MULTILINESTRING}
       [] arrayType = MULTIPOLYGON    -> type \in {POLYGON, MULTIPOLYGON}

OffsetsOf(geom) ==
  LET type == geom[1].type
      alone == AppendSize(Written, 0, 1)
  IN CASE arrayType = POINT -> Written
       [] arrayType = LINESTRING -> AppendLinestringOffsets(Written,
            << geom[IF type = LINESTRING THEN 1 ELSE 2] >>, 0)
       [] arrayType = POLYGON -> AppendPolygonOffsets(Written, geom,
            IF type = POLYGON THEN 1 ELSE 2, 0)
       [] arrayType = MULTIPOINT -> AppendSize(Written, 0, Len(AllCoords(geom)))
       [] arrayType = MULTILINESTRING ->
            IF type = LINESTRING THEN AppendLinestringOffsets(alone, << geom[1] >>, 1)
            ELSE AppendPolygonOffsets(Written, geom, 1, 0)
       [] arrayType = MULTIPOLYGON ->
            IF type = POLYGON THEN AppendPolygonOffsets(alone, geom, 1, 1)
            ELSE AppendMultiPolygonOffsets(Written, geom)

(* GeoArrowNativeWriterAppendEmpty *)
AppendEmpty ==
  /\ coords' = IF depth = 0 THEN Append(coords, NaN) ELSE coords
  /\ LET st == IF depth = 0 THEN Written ELSE AppendSize(Written, 0, 0)
     IN offsets' = st.offsets /\ lastOffset' = st.last

AppendValidity(isValid) ==
  /\ currentLength' = currentLength + 1
  /\ IF isValid
     THEN validity' = MarkValid(validity) /\ UNCHANGED nullCount
     ELSE validity' = MarkNull(validity, currentLength + 1) /\ nullCount' = nullCount + 1

-----------------------------------------------------------------------------
Appended(isNull, ns) ==
  /\ appends /\ Len(rows) < MaxFeatures
  /\ rows' = Append(rows, [null |-> isNull, nodes |-> ns])
  /\ AppendValidity(~isNull)
  /\ UNCHANGED << open, nodes, failed, depth, shapeVars, featIsNull, outVars,
                  appends, arrayType >>

AppendNull == Appended(TRUE, << >>) /\ AppendEmpty

AppendWithoutCoords(ns) == AllCoords(ns) = << >> /\ Appended(FALSE, ns) /\ AppendEmpty

AppendGeometry(ns) ==
  LET geom == GeometryOf(ns)
  IN /\ AllCoords(ns) # << >>
     /\ Accepts(geom)
     /\ Appended(FALSE, ns)
     /\ offsets' = OffsetsOf(geom).offsets
     /\ lastOffset' = OffsetsOf(geom).last
     /\ coords' = coords \o AllCoords(geom)

(* EINVAL, before anything is written. *)
AppendRefused(ns) ==
  /\ appends /\ AllCoords(ns) # << >> /\ ~Accepts(GeometryOf(ns))
  /\ UNCHANGED << vars, appendVars >>

(* With the rest of GeoArrowNativeWriterEnsureOutputInitialized.           *)
AppendFinish ==
  /\ Finish
  /\ lastOffset' = NoOffsets /\ currentLength' = 0
  /\ UNCHANGED << appends, arrayType >>

AppendNext ==
  \/ ~appends /\ Next /\ UNCHANGED appendVars
  \/ appends /\ AppendFinish
  \/ \E ns \in Geometries :
       AppendWithoutCoords(ns) \/ AppendGeometry(ns) \/ AppendRefused(ns)
  \/ AppendNull

AppendSpec == AppendInit /\ [][AppendNext]_<< vars, appendVars >>

-----------------------------------------------------------------------------
(* The row of an appended feature: its sequences are kept even if they     *)
(* have no coordinate, unless the whole feature has none.                  *)
SequencesOf(ns) ==
  FlattenSeq([i \in DOMAIN ns |->
    IF ns[i].type \in {RING, LINESTRING} THEN << ns[i].xs >> ELSE << >>])

RingsOf(ns, i) == Sequences(SubSeq(ns, i + 1, i + Cardinality(Parts(ns, i))))
PolygonsOf(ns) ==
  FlattenSeq([i \in DOMAIN ns |->
    IF ns[i].type = POLYGON THEN << RingsOf(ns, i) >> ELSE << >>])

AppendedShape(ns) ==
  CASE depth = 0 -> IF AllCoords(ns) = << >> THEN NaN ELSE AllCoords(ns)[1]
    [] depth > 0 /\ AllCoords(ns) = << >> -> << >>
    [] depth = 1 /\ AllCoords(ns) # << >> -> AllCoords(ns)
    [] depth = 2 /\ AllCoords(ns) # << >> -> SequencesOf(ns)
    [] depth = 3 /\ AllCoords(ns) # << >> -> PolygonsOf(ns)

(* No level of the batch has more elements than an offset can count. *)
ElementsCountable == \A l \in 0 .. depth - 1 : Elements(offsets, l) <= MaxOffset

(* Every appended geometry is a row of its own, with its parts and         *)
(* coordinates in order, null exactly when a null was appended, whatever   *)
(* was refused before it and whatever batches came before.                 *)
AppendedRowsAreShapes ==
  appends /\ ElementsCountable =>
    Decoded = [i \in DOMAIN rows |->
                 [valid |-> ~rows[i].null, value |-> AppendedShape(rows[i].nodes)]]
=============================================================================
