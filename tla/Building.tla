------------------------------ MODULE Building ------------------------------
(***************************************************************************)
(* A caller at work with a builder (hpp/array_writer.hpp, builder.c): it   *)
(* has rows of features, sends the buffers that hold them piece by piece   *)
(* in any order, finishes whenever it likes, goes on after a refusal, uses *)
(* the builder again for the next batch, and looks at what it got through  *)
(* C++ views and slices of them.                                           *)
(*                                                                         *)
(* A row is nested as deep as its type has lists; a coordinate is a number *)
(* c with the ordinates 10 c for x, 10 c + 1 for y, + 2 for z, + 3 for m.  *)
(***************************************************************************)
EXTENDS Builder, SequenceViews

CONSTANTS
  Work,      (* the jobs: type, rows, bitmap, style, dims of the source     *)
  Batches    (* how many arrays a builder is used for                      *)

VARIABLES
  builder,   (* the builder, or NoBuilder                                   *)
  job,       (* the member of Work in progress                              *)
  sent,      (* of every buffer, how many elements the caller has sent      *)
  batch,     (* how many arrays were finished                               *)
  product,   (* what Finish returned, or NoProduct                          *)
  view       (* a C++ view of rows from, from + 1, ... of it, or NoSight    *)

buildVars == << builder, job, sent, batch, product, view >>

NoBuilder == [type |-> UNINITIALIZED]
NoProduct == [refused |-> FALSE]
NoSight   == [from |-> 0, length |-> 0]

Idle     == builder = NoBuilder
Building == ~Idle /\ product \in {NoProduct, Refused}
Finished == product \notin {NoProduct, Refused}

BuildInit ==
  /\ builder = NoBuilder /\ job = NoBuilder
  /\ sent = << >> /\ batch = 0 /\ product = NoProduct /\ view = NoSight

-----------------------------------------------------------------------------
(* What the buffers have to hold.  Within(rows, l): the lists l levels in. *)
RECURSIVE Within(_, _)
Within(rows, l) == IF l = 0 THEN rows ELSE Within(FlattenSeq(rows), l - 1)

Starts(lists) ==
  [k \in 1 .. Len(lists) + 1 |-> Len(FlattenSeq(SubSeq(lists, 1, k - 1)))]

Position == [x |-> 0, y |-> 1, z |-> 2, m |-> 3]
OrdinateOf(c, name, dims) ==
  IF name \in ToSet(Ordinates(dims)) THEN 10 * c + Position[name] ELSE NaN

(* Coordinate c as the caller has it, and as an array of the job has it. *)
CoordinateIn(c, dims) ==
  [j \in DOMAIN Ordinates(dims) |-> OrdinateOf(c, Ordinates(dims)[j], dims)]
CoordinateSent(w, c, dst) ==
  [j \in DOMAIN Ordinates(dst) |->
     IF Ordinates(dst)[j] \in ToSet(Ordinates(DimensionsFromType(w.type)))
     THEN OrdinateOf(c, Ordinates(dst)[j], w.dims) ELSE NaN]

(* The values of one entry of the innermost sequence: for a box those of   *)
(* its two bounds, one after the other.                                    *)
ValuesOf(w, item) ==
  LET dims == DimensionsFromType(w.type)
  IN CASE w.type \in Serialized -> << item >>
       [] GeometryTypeFromType(w.type) = BOX ->
            CoordinateIn(item[1], dims) \o CoordinateIn(item[2], dims)
       [] OTHER -> CoordinateSent(w, item, dims)

Content(w, i) ==
  LET n      == Lists(w.type)
      values == [k \in DOMAIN Within(w.rows, n) |->
                   ValuesOf(w, Within(w.rows, n)[k])]
  IN CASE i = 1          -> w.bitmap
       [] i \in 2 .. n + 1 -> Starts(Within(w.rows, i - 2))
       [] i > n + 1 /\ CoordTypeFromType(w.type) = SEPARATE ->
            [k \in DOMAIN values |-> values[k][i - n - 1]]
       [] OTHER -> FlattenSeq(values)

Unsent(i) == SubSeq(Content(job, i), sent[i] + 1, Len(Content(job, i)))
ByAppender(i) == job.style = "coords" /\ i \in CoordBuffers(job.type)

-----------------------------------------------------------------------------
(* The caller has the rows of w and was told to build the type. *)
StartJob(w, type) ==
  /\ Idle
  /\ CanBuild(type)
  /\ builder' = BuilderInitFromType(type)
  /\ job' = w
  /\ sent' = [i \in 1 .. NumBuffers(w.type) |-> 0]
  /\ batch' = 0
  /\ UNCHANGED << product, view >>

(* Pieces of one element, or all there is left. *)
Pieces(n) == {1, n} \cap 1 .. n

SendTo(i, n, b) ==
  /\ builder' = b
  /\ sent' = [sent EXCEPT ![i] = @ + n]
  /\ product' = NoProduct
  /\ UNCHANGED << job, batch, view >>

AppendToBuffer ==
  /\ Building /\ job.style # "owned"
  /\ \E i \in DOMAIN sent : \E n \in Pieces(Len(Unsent(i))) :
       LET values == SubSeq(Unsent(i), 1, n)
       IN /\ i \notin 2 .. Lists(job.type) + 1 \/ job.type \in Serialized
          /\ ~ByAppender(i)
          /\ SendTo(i, n, AppendBuffer(builder, i, values))

AppendToOffsetBuffer ==
  /\ Building /\ job.style # "owned" /\ job.type \notin Serialized
  /\ \E l \in 1 .. Lists(job.type) : \E n \in Pieces(Len(Unsent(l + 1))) :
       SendTo(l + 1, n, OffsetAppend(builder, l, SubSeq(Unsent(l + 1), 1, n)))

SetBuffer ==
  /\ Building /\ job.style = "owned"
  /\ \E i \in DOMAIN sent :
       /\ Unsent(i) # << >>
       /\ SendTo(i, Len(Unsent(i)), SetOwnedBuffer(builder, i, Unsent(i)))

(* Coordinates sent so far, and those that are left. *)
SentCoords == sent[NumBuffers(job.type)] \div Scale(builder)
AllCoords  == Within(job.rows, Lists(job.type))
CoordsLeft == Len(AllCoords) - SentCoords

AppendCoords ==
  /\ Building /\ job.style = "coords"
  /\ \E n \in Pieces(CoordsLeft) :
       /\ builder' = CoordsAppend(builder,
            [k \in 1 .. n |-> CoordinateIn(AllCoords[SentCoords + k], job.dims)],
            job.dims)
       /\ sent' = [i \in DOMAIN sent |->
                     IF i \in CoordBuffers(job.type)
                     THEN sent[i] + n * Scale(builder) ELSE sent[i]]
       /\ product' = NoProduct
       /\ UNCHANGED << job, batch, view >>

(* Room for everything that is left; the caller may know it in advance. *)
Reserve ==
  /\ Building /\ job.style # "owned"
  /\ \E i \in DOMAIN sent :
       /\ ~ByAppender(i) /\ Unsent(i) # << >>
       /\ builder' = IF i \in 2 .. Lists(job.type) + 1 /\ job.type \notin Serialized
                     THEN OffsetReserve(builder, i - 1, Len(Unsent(i)))
                     ELSE ReserveBuffer(builder, i, Len(Unsent(i)))
  /\ UNCHANGED << job, sent, batch, product, view >>

ReserveCoords ==
  /\ Building /\ job.style = "coords" /\ CoordsLeft > 0
  /\ builder' = CoordsReserve(builder, CoordsLeft)
  /\ UNCHANGED << job, sent, batch, product, view >>

FinishArray ==
  /\ Building
  /\ builder' = Finish(builder).builder
  /\ product' = Finish(builder).array
  /\ UNCHANGED << job, sent, batch, view >>

(* The array is passed on.  After the last one the builder is reset. *)
NextBatch ==
  /\ Finished
  /\ product' = NoProduct /\ view' = NoSight
  /\ batch' = IF batch + 1 < Batches THEN batch + 1 ELSE 0
  /\ IF batch + 1 < Batches
     THEN /\ sent' = [i \in DOMAIN sent |-> 0]
          /\ UNCHANGED << builder, job >>
     ELSE sent' = << >> /\ builder' = NoBuilder /\ job' = NoBuilder

-----------------------------------------------------------------------------
(* The array, or a part of it that starts at an offset, seen by C++. *)
Lengths(array) == [l \in DOMAIN array.levels |-> array.levels[l].length]
PartOf(array, offset, length) ==
  [array EXCEPT !.levels[1].offset = offset, !.levels[1].length = length]

Seen(array) ==
  IF job.type \in Serialized
  THEN [offset  |-> array.levels[1].offset,  length |-> array.levels[1].length,
        offsets |-> array.levels[1].offsets,
        data    |-> array.levels[2].children[1].values]
  ELSE ArrayInit(SetArray(array), Lengths(array))

(* Other programs copy arrays and leave n elements of something else before *)
(* those of every child.                                                   *)
Padding(n) == [k \in 1 .. n |-> Garbage]
PadCoords(level, n) ==
  [level EXCEPT !.offset = n,
                !.children = [c \in DOMAIN @ |->
                   [@[c] EXCEPT !.values = Padding(n * Scale(builder)) \o @]]]
PadList(level, n) ==
  [level EXCEPT !.offset = n, !.offsets = Padding(n) \o @]
Padded(array, n) ==
  [array EXCEPT !.levels = [l \in DOMAIN @ |->
     IF l = 1 THEN @[l] ELSE IF l = Len(@) THEN PadCoords(@[l], n)
                             ELSE PadList(@[l], n)]]

Look ==
  /\ Finished /\ view = NoSight
  /\ \E o \in 0 .. product.levels[1].length :
     \E n \in 0 .. product.levels[1].length - o :
     \E pad \in IF job.type \in Serialized THEN {0} ELSE 0 .. 1 :
       view' = [from |-> o, length |-> n,
                array |-> Seen(PartOf(Padded(product, pad), o, n))]
  /\ UNCHANGED << builder, job, sent, batch, product >>

SliceView ==
  /\ view # NoSight /\ job.type \notin Serialized
  /\ \E o \in 0 .. view.length : \E n \in 0 .. view.length - o :
       view' = [from |-> view.from + o, length |-> n,
                array |-> SliceArray(view.array, o, n)]
  /\ UNCHANGED << builder, job, sent, batch, product >>

BuildNext ==
  \/ AppendToBuffer \/ AppendToOffsetBuffer \/ SetBuffer \/ AppendCoords
  \/ Reserve \/ ReserveCoords \/ FinishArray \/ NextBatch \/ Look \/ SliceView
-----------------------------------------------------------------------------
(* What the builder has cached of its buffers is true of them: their       *)
(* capacities, their addresses, and sizes that fit, in the views of the    *)
(* buffers and once more in the coordinate appender, however the two kinds *)
(* of appending, reserving and finishing alternate (builder.c:133).        *)
CachesCurrent ==
  ~Idle =>
    LET Address(i, a) == a \in {0, Len(builder.src[i].cells)}
    IN /\ \A i \in DOMAIN builder.view :
            /\ Address(i, builder.view[i].capacity)
            /\ builder.view[i].size <= builder.view[i].capacity
       /\ \A j \in DOMAIN builder.coords.values :
            /\ Address(CoordBuffer(builder, j), builder.coords.values[j])
            /\ builder.coords.capacity * Scale(builder)
               <= builder.view[CoordBuffer(builder, j)].capacity
       /\ builder.coords.size <= builder.coords.capacity

(* Rows 1 .. k need so much of buffer i. *)
Needed(i, k) == Len(Content([job EXCEPT !.rows = SubSeq(@, 1, k)], i))
WholeRows ==
  LET whole == {k \in 0 .. Len(job.rows) :
                  k = 0 \/ \A i \in 2 .. Len(sent) : sent[i] >= Needed(i, k)}
  IN CHOOSE k \in whole : \A l \in whole : l <= k

(* A finished array has all rows that were sent as a whole, no more, in    *)
(* buffers that hold exactly what was sent, also when an earlier attempt   *)
(* to finish was refused; none is refused after everything was sent        *)
(* (GeoArrowBuilderFinish).                                                *)
BuiltAsAppended ==
  /\ product = Refused => \E i \in DOMAIN sent : sent[i] < Len(Content(job, i))
  /\ Finished =>
       LET n == Lists(job.type)
           Sent(i) == SubSeq(Content(job, i), 1, sent[i])
       IN /\ product.levels[1].length = WholeRows
          /\ product.bitmap = FlattenSeq(Sent(1))
          /\ \A l \in 1 .. n : product.levels[l].offsets = Sent(l + 1)
          /\ \A j \in DOMAIN product.levels[n + 1].children :
               product.levels[n + 1].children[j].values = Sent(n + 1 + j)

(* Rows i + 1, the coordinates of a row, and the pairs of neighbours in    *)
(* the innermost lists of it.                                              *)
IsNull(k) == product.bitmap # << >> /\ product.bitmap[k] = 0
RowsIn(from, length) ==
  SelectSeq([k \in 1 .. length |-> from + k], LAMBDA k : ~IsNull(k))
RowCoords(k) ==
  IF Lists(job.type) = 0 THEN << job.rows[k] >>
  ELSE Within(job.rows[k], Lists(job.type) - 1)
Neighbours(line) ==
  [e \in 1 .. Len(line) - 1 |-> << line[e], line[e + 1] >>]
RowEdges(k) ==
  CASE product.type \in {POINT, MULTIPOINT} ->
         [e \in DOMAIN RowCoords(k) |-> << RowCoords(k)[e], RowCoords(k)[e] >>]
    [] product.type \notin {POINT, MULTIPOINT} /\ Lists(job.type) = 1 ->
         Neighbours(job.rows[k])
    [] OTHER ->
         LET lines == Within(job.rows[k], Lists(job.type) - 2)
         IN FlattenSeq([l \in DOMAIN lines |-> Neighbours(lines[l])])

PerRow(rows, Op(_)) == FlattenSeq([r \in DOMAIN rows |-> Op(rows[r])])
Each(items, Op(_)) == [c \in DOMAIN items |-> Op(items[c])]

(* A coordinate as a visitor that wants dimensions dst gets it. *)
Cast(c, dst) ==
  [j \in DOMAIN Ordinates(dst) |->
     IF Ordinates(dst)[j] \in ToSet(Ordinates(product.dims))
     THEN CoordinateSent(job, c, dst)[j] ELSE NaN]

BoxSeen(a, rows) ==
  \A dst \in 1 .. 4 :
    /\ VisitVertices(LowerBound(a), dst) = Each(rows, LAMBDA k : Cast(job.rows[k][1], dst))
    /\ VisitVertices(UpperBound(a), dst) = Each(rows, LAMBDA k : Cast(job.rows[k][2], dst))

(* What C++ sees of an array, in parts of the array and slices of slices   *)
(* of the view: the elements that are valid, the vertices of those in the  *)
(* dimensions that are asked for, and the edges inside of every line       *)
(* (hpp/array_util.hpp).                                                   *)
ViewsAgree ==
  view # NoSight =>
    LET a    == view.array
        rows == RowsIn(view.from, view.length)
    IN IF job.type \in Serialized
       THEN \A i \in 1 .. view.length : Blob(a, i - 1) = job.rows[view.from + i]
       ELSE /\ \A i \in 1 .. view.length : IsValid(a, i - 1) = ~IsNull(view.from + i)
            /\ IF a.type = BOX THEN BoxSeen(a, rows)
               ELSE /\ \A dst \in 1 .. 4 :
                        VisitVertices(a, dst) =
                        Each(PerRow(rows, RowCoords), LAMBDA c : Cast(c, dst))
                    /\ VisitEdges(a) =
                       Each(PerRow(rows, RowEdges),
                            LAMBDA e : Each(e, LAMBDA c : Cast(c, product.dims)))
=============================================================================
