----------------------------- MODULE WKBAppend -----------------------------
(***************************************************************************)
(* The other way into the well-known binary writer: whole geometries are   *)
(* appended to the buffers the visitor writes into, and the two may be     *)
(* mixed in one batch.  Counts are known here, so nothing is reserved, but *)
(* the size of the values is cast to an offset without a check.            *)
(***************************************************************************)
EXTENDS WKBReference

CONSTANT Geometries   (* features to append, as what a visitor is told     *)

(* Rings are the parts of a polygon and follow it, and nothing else does.  *)
RingsFollow(ns) ==
  \A i \in DOMAIN ns :
    ns[i].type = RING <=>
      \E p \in DOMAIN ns : /\ ns[p].type = POLYGON
                           /\ i \in p + 1 .. p + Cardinality(Parts(ns, p))

ASSUME GeometriesAssumption ==
  /\ Geometries \subseteq Seq(NodeSet)
  /\ \A ns \in Geometries : RingsFollow(ns)

(* The cast to int32_t. *)
Int32(n) == IF n > MaxOffset THEN n - CountMod ELSE n

(* GeoArrowWKBWriterAppendSequence *)
AppendSequence(node) == [k \in 1 .. node.size |-> CoordWord(node.xs[k], node.dims)]

(* The words of one node; after a polygon come its rings, without a header.*)
(* Mutant: the rings are told from linestrings by nothing.                 *)
RemainingRings_Forgotten(rings, node) == 0
RemainingRings(rings, node) ==
  IF rings > 0 THEN rings - 1
  ELSE IF node.type = POLYGON THEN node.size ELSE 0

AppendNode(acc, node) ==
  LET counted == << CountWord(node.size) >> \o AppendSequence(node)
      body    ==
        CASE node.type = POINT /\ node.size = 0 -> << EmptyPoint(node.dims) >>
          [] node.type = POINT /\ node.size > 0 -> AppendSequence(node)
          [] node.type = LINESTRING             -> counted
          [] OTHER                              -> << CountWord(node.size) >>
      words   == IF acc.rings > 0 THEN counted
                 ELSE << HeadWord(node.type, node.dims) >> \o body
  IN [values |-> acc.values \o words, rings |-> RemainingRings(acc.rings, node)]

AppendBuffer(geom) ==
  FoldLeft(AppendNode, [values |-> values, rings |-> 0], geom).values

AppendOffset == offsets' = Append(offsets, Int32(Len(values)))

(* GeoArrowWKBWriterAppendValidity *)
AppendValidity(isValid) ==
  /\ length' = length + 1
  /\ IF isValid
     THEN validity' = MarkValid(validity) /\ UNCHANGED nullCount
     ELSE validity' = MarkNull(validity, length + 1) /\ nullCount' = nullCount + 1

-----------------------------------------------------------------------------
Appended(isNull, ns) ==
  /\ Idle /\ Len(rows) < MaxFeatures
  /\ rows' = Append(rows, [null |-> isNull, nodes |-> ns])
  /\ UNCHANGED << open, nodes, failed, stackVars, featIsNull, outVars >>

AppendGeometry(ns) ==
  /\ Appended(FALSE, ns)
  /\ AppendOffset
  /\ values' = AppendBuffer(GeometryOf(ns))
  /\ AppendValidity(TRUE)

AppendNull ==
  /\ Appended(TRUE, << >>)
  /\ AppendOffset
  /\ AppendValidity(FALSE)
  /\ UNCHANGED values

(* EINVAL: a node has no type, as the one of a null feature.  The offset   *)
(* stays, although the feature is not counted, and so do the words of the  *)
(* nodes before that one (n of them with what was there), which has the    *)
(* place of a node with a header.                                          *)
AppendFails ==
  /\ Idle
  /\ Abandon
  /\ AppendOffset
  /\ \E ns \in Geometries :
       LET words == AppendBuffer(GeometryOf(ns))
       IN \E n \in Len(values) .. Len(words) - 1 :
            /\ words[n + 1].kind = "head"
            /\ values' = SubSeq(words, 1, n)
  /\ UNCHANGED << length, nullCount, validity, stackVars, featIsNull, outVars >>

AppendNext ==
  \/ Next
  \/ \E ns \in Geometries : AppendGeometry(ns)
  \/ AppendNull \/ AppendFails

AppendSpec == Init /\ [][AppendNext]_vars

-----------------------------------------------------------------------------
(* However features were visited and appended, and although Append casts   *)
(* sizes without a check, no array is ever handed over with an offset that *)
(* wrapped, descends, or leaves the values (wkb_writer.c:222).             *)
OffsetsNeverWrap ==
  \A i \in DOMAIN array.offsets :
    /\ array.offsets[i] \in 0 .. Len(array.values)
    /\ i > 1 => array.offsets[i - 1] <= array.offsets[i]
=============================================================================
