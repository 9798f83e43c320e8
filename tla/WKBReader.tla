----------------------------- MODULE WKBReader -----------------------------
(***************************************************************************)
(* wkb_reader.c: a row of well-known binary is read into a list of nodes,  *)
(* and the list is visited.  A row is a sequence of words: a byte order, a *)
(* type code (v is its low half, bits its extended flags), a 32-bit number *)
(* or a coordinate.  bytes is what is left of the row, remaining the       *)
(* number of bytes (size_bytes) that reads are checked against.  Counts    *)
(* that overflow 32 bits when they are multiplied are not modelled.        *)
(***************************************************************************)
EXTENDS GeometryView

VARIABLES
  bytes, remaining, needSwapping,
  overran   (* history: the reader has read past the end of its row *)
cursorVars == << bytes, remaining, needSwapping, overran >>
wkbVars    == << cursorVars, viewVars >>

MaxNodeLevel == 255

WordBytes(w) == CASE w.kind = "order" -> 1
                  [] w.kind = "coord" -> 8 * NumDimensions(w.dims)
                  [] OTHER            -> 4
RowBytes(row) == FoldSeq(LAMBDA w, n : n + WordBytes(w), 0, row)

(* A number as the reader reads it, its bytes swapped or not. *)
Read(w, swapping) == IF swapping = (w.order # NativeEndian) THEN w.v ELSE Garbage

(* remaining may be more than is left of the row (see ReadNodeCoordinates): *)
(* then a read that is allowed goes on with whatever follows the row in     *)
(* memory.  Beyond is a bound: words of the reader's own byte order that    *)
(* mean an end, a POINT or one, a LINESTRING or two.  The read takes one    *)
(* word more and is tried again.                                            *)
Beyond == [kind : {"beyond"}, order : {NativeEndian}, v : 0 .. 2,
           dims : {1}, bits : {{}}]
RunsPast ==
  /\ \E w \in Beyond : bytes' = Append(bytes, w)
  /\ overran' = TRUE
  /\ UNCHANGED << todo, seen, outcome, remaining, needSwapping, viewVars >>

(* A read of n words and size bytes, and what is done once it succeeded. *)
Reading(n, size, done) ==
  CASE remaining < size -> Fail(wkbVars)
    [] remaining >= size /\ Len(bytes) < n -> RunsPast
    [] OTHER -> done

Advance(n, size) ==
  /\ bytes' = SubSeq(bytes, n + 1, Len(bytes))
  /\ remaining' = remaining - size
  /\ UNCHANGED overran

AppendNode(node) == view' = Append(view, node) /\ UNCHANGED unvisited

-----------------------------------------------------------------------------
(* Type and dimensions of a type code: extended flags, ISO thousands. *)
IsoPart(code) == IF code >= 3000 THEN 3 ELSE code \div 1000
BaseType(code) == code - 1000 * IsoPart(code)
CodeDims(code, bits) ==
  LET hasZ == "Z" \in bits \/ IsoPart(code) \in {1, 3}
      hasM == "M" \in bits \/ IsoPart(code) \in {2, 3}
  IN CASE hasZ /\ hasM -> 4 [] hasZ /\ ~hasM -> 2
       [] ~hasZ /\ hasM -> 3 [] OTHER -> 1

(* What is read after the header of node i. *)
ReadBody(i, type, level, size) ==
  CASE type \in {POINT, LINESTRING} ->
         Continue(<< << "ReadNodeCoordinates", i >> >>)
    [] type = POLYGON /\ level < MaxNodeLevel ->
         Continue(<< << "ReadRings", i, size >> >>)
    [] type \in Containers /\ level < MaxNodeLevel ->
         Continue(<< << "ReadChildren", level + 1, size >> >>)
    [] OTHER -> GiveUp    (* unknown type, or too deep *)

(* The header after the byte order and the type code: an identifier of the *)
(* coordinate system, which is ignored, and a count.                       *)
ReadHeader(i) ==
  LET swaps == bytes[1].order # NativeEndian
      code  == Read(bytes[2], swaps)
      type  == BaseType(code)
      srid  == IF "SRID" \in bytes[2].bits THEN 1 ELSE 0
      count == IF type = POINT THEN 0 ELSE 1
      n     == 2 + srid + count
      size  == IF count = 1 THEN Read(bytes[n], swaps) ELSE 1
  IN Reading(n, 1 + 4 * (n - 1),
       /\ Advance(n, 1 + 4 * (n - 1))
       /\ needSwapping' = swaps
       /\ view' = [view EXCEPT
            ![i].type = type, ![i].dims = CodeDims(code, bytes[2].bits),
            ![i].size = size, ![i].swap = swaps]
       /\ UNCHANGED unvisited
       /\ ReadBody(i, type, view[i].level, size))

ReadNodeGeometry ==
  /\ At("ReadNodeGeometry")
  /\ Reading(2, 5, ReadHeader(Now[2]))

(* The cursor moves past the coordinates; remaining stays what it was. *)
ReadNodeCoordinates ==
  /\ At("ReadNodeCoordinates")
  /\ LET i    == Now[2]
         n    == view[i].size
         size == n * 8 * NumDimensions(view[i].dims)
     IN Reading(n, size,
          /\ view' = [view EXCEPT ![i].xs = SubSeq(bytes, 1, n)]
          /\ bytes' = SubSeq(bytes, n + 1, Len(bytes))
          /\ Continue(<< >>)
          /\ UNCHANGED << remaining, needSwapping, overran, unvisited >>)

(* The loop over the n rings still to read of the polygon at node i. *)
RingNode(polygon, size) ==
  [polygon EXCEPT !.type = LINESTRING, !.level = @ + 1, !.size = size]

ReadRings ==
  /\ At("ReadRings")
  /\ IF Now[3] = 0 THEN Continue(<< >>) /\ UNCHANGED wkbVars
     ELSE Reading(1, 4,
            /\ Advance(1, 4)
            /\ AppendNode(RingNode(view[Now[2]], Read(bytes[1], needSwapping)))
            /\ Continue(<< << "ReadNodeCoordinates", Len(view) + 1 >>,
                           << "ReadRings", Now[2], Now[3] - 1 >> >>)
            /\ UNCHANGED needSwapping)

ReadChildren ==
  /\ At("ReadChildren")
  /\ IF Now[3] = 0 THEN Continue(<< >>) /\ UNCHANGED wkbVars
     ELSE /\ AppendNode([EmptyNode EXCEPT !.level = Now[2]])
          /\ Continue(<< << "ReadNodeGeometry", Len(view) + 1 >>,
                         << "ReadChildren", Now[2], Now[3] - 1 >> >>)
          /\ UNCHANGED cursorVars

WKBReaderRead ==
  /\ At("WKBReaderRead")
  /\ bytes' = Now[2]
  /\ remaining' = RowBytes(Now[2])
  /\ view' = << EmptyNode >>
  /\ Continue(<< << "ReadNodeGeometry", 1 >> >>)
  /\ UNCHANGED << needSwapping, overran, unvisited >>

WKBReaderVisit ==
  /\ At("WKBReaderVisit")
  /\ Continue(<< << "WKBReaderRead", Now[2] >>, Step("GeometryViewVisit") >>)
  /\ UNCHANGED wkbVars

WKBReaderInit ==
  /\ bytes = << >> /\ remaining = 0
  /\ needSwapping = FALSE /\ overran = FALSE
  /\ GeometryViewInit

WKBReaderNext ==
  \/ WKBReaderVisit \/ WKBReaderRead \/ ReadNodeGeometry
  \/ ReadNodeCoordinates \/ ReadRings \/ ReadChildren
  \/ GeometryViewNext /\ UNCHANGED cursorVars
=============================================================================
