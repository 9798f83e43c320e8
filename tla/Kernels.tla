------------------------------ MODULE Kernels ------------------------------
(***************************************************************************)
(* kernel.c: a kernel is started, is given batches, and is finished.  The  *)
(* kernels that visit own an array reader and a visitor; this module has   *)
(* the visitors of format_wkt and as_geoarrow (the writer of well-known    *)
(* text), of unique_geometry_types_agg, and of box and box_agg.            *)
(*                                                                         *)
(* A row of a batch is what the reader makes of it: the calls of a feature *)
(* and, if the row is not readable, an error after them (ArrayReader says  *)
(* which calls those may be).  One step visits one feature.                *)
(***************************************************************************)
EXTENDS WKTWriter

CONSTANTS
  Names,        (* the kernels                                             *)
  Options,      (* what start may be told: limit, type and edges           *)
  Rows,         (* what a reader may make of a row                         *)
  Batches,      (* sequences of rows                                       *)
  MaxBatches    (* bound: batches pushed                                   *)

-----------------------------------------------------------------------------
(* The calls of a row are those of one feature, or as many of them as the  *)
(* reader made before it gave up.                                          *)
Ops == {"feat_start", "null_feat", "geom_start", "ring_start", "coords",
        "ring_end", "geom_end", "feat_end"}
Calls == [op : Ops, type : 0 .. 7, dims : 1 .. 4, xs : Seq(0 .. 9)]

Has(calls, op) == \E i \in DOMAIN calls : calls[i].op = op

IsCallOf(row, i) ==
  LET c == row.calls[i]
  IN /\ c.op = "feat_start" <=> i = 1
     /\ c.op = "feat_end" => i = Len(row.calls)
     /\ c.op = "geom_start" => c.type \in 1 .. 7
     /\ c.op = "null_feat" => row.null
     /\ row.null => c.op \in {"feat_start", "null_feat", "feat_end"}
     /\ c.xs # << >> => c.op = "coords" /\ Has(SubSeq(row.calls, 1, i), "geom_start")

IsRow(row) ==
  /\ row.null \in BOOLEAN /\ row.readable \in BOOLEAN /\ row.calls \in Seq(Calls)
  /\ \A i \in DOMAIN row.calls : IsCallOf(row, i)
  /\ row.null /\ Has(row.calls, "feat_end") => Has(row.calls, "null_feat")

ASSUME KernelAssumption ==
  /\ MaxBatches \in Nat
  /\ \A options \in Options : options.limit \in Nat \cup {Unlimited}
  /\ \A row \in Rows : IsRow(row)
  /\ \A batch \in Batches : batch \in Seq(Rows)

VARIABLES
  kernel,    (* its name, and whether it was not yet "started"             *)
  visitor,   (* private data of its visitor                                *)
  rest,      (* rows of the batch still to visit                           *)
  phase,     (* "idle", "visiting", or "unusable" if start failed          *)
  out,       (* the last array handed to the caller                        *)
  pushed,    (* history: the batches so far                                *)
  visited,   (* history: the rows visited so far, with the one that failed,*)
             (* and whether the visitor came to the end of the feature     *)
  due        (* history: how many of them out and the arrays before it had *)

vars == << kernel, visitor, rest, phase, out, pushed, visited, due >>

NoArray == [kind |-> "none"]
(* An array, and how many of the rows visited are in arrays before it. *)
Handed(kind, array) == [kind |-> kind, start |-> due, array |-> array]

-----------------------------------------------------------------------------
(* unique_geometry_types_agg: the first geometry of a feature is recorded  *)
(* when the first coordinate is visited, and nothing after it is.          *)
GeometryTypesInit == [type |-> 0, dims |-> 0, mask |-> {}]

feat_start_geometry_types(w) == Done([w EXCEPT !.type = 0, !.dims = 0])

(* Mutant: the last geometry that starts is recorded. *)
geom_start_geometry_types_Last(w, type, dims) ==
  Done([w EXCEPT !.type = type, !.dims = dims])
geom_start_geometry_types(w, type, dims) ==
  Done(IF w.type = 0 THEN [w EXCEPT !.type = type, !.dims = dims] ELSE w)

coords_geometry_types(w, xs) ==
  IF xs = << >> THEN Done(w)
  ELSE Result("EAGAIN", [w EXCEPT !.mask = @ \cup {w.dims * 8 + w.type}])

HandleGeometryTypes(w, c) ==
  CASE c.op = "feat_start" -> feat_start_geometry_types(w)
    [] c.op = "geom_start" -> geom_start_geometry_types(w, c.type, c.dims)
    [] c.op = "coords"     -> coords_geometry_types(w, c.xs)
    [] OTHER               -> Done(w)

(* kGeoArrowGeometryTypeWkbValues, in the order of the bits. *)
WkbValue(bit) == (bit \div 8 - 1) * 1000 + (bit % 8)
UniqueGeometryTypes(w) ==
  LET values == FlattenSeq([i \in 1 .. 40 |->
                  IF i - 1 \in w.mask THEN << WkbValue(i - 1) >> ELSE << >>])
  IN [length |-> Len(values), values |-> values]

-----------------------------------------------------------------------------
(* box and box_agg *)
Infinite == 100
EmptyBounds == [min |-> << Infinite, Infinite >>, max |-> << -Infinite, -Infinite >>]
BoxInit == [bounds |-> EmptyBounds, isNull |-> FALSE, bitmap |-> NoBitmap,
            values |-> << >>, nulls |-> 0]

(* Mutant: a feature starts with the bounds of the one before it. *)
feat_start_box_BoundsKept(w) == Done([w EXCEPT !.isNull = FALSE])
feat_start_box(w) == Done([w EXCEPT !.bounds = EmptyBounds, !.isNull = FALSE])
null_feat_box(w)  == Done([w EXCEPT !.isNull = TRUE])

Lower(a, b) == IF b < a THEN b ELSE a
Higher(a, b) == IF b > a THEN b ELSE a
Widened(b, x) ==
  [min |-> [j \in 1 .. 2 |-> Lower(b.min[j], Ordinate(x, j))],
   max |-> [j \in 1 .. 2 |-> Higher(b.max[j], Ordinate(x, j))]]
WidenedBy(b, xs) == FoldLeft(Widened, b, xs)
coords_box(w, xs) == Done([w EXCEPT !.bounds = WidenedBy(@, xs)])

box_flush(w) == [w EXCEPT !.values = Append(@, w.bounds)]

feat_end_box(w) ==
  Done(box_flush(
    IF w.isNull
    THEN [w EXCEPT !.bitmap = MarkNull(@, Len(w.values) + 1), !.nulls = @ + 1]
    ELSE [w EXCEPT !.bitmap = MarkValid(@)]))

(* box_finish: the array, and the buffers left without what it took. *)
box_finish(w) ==
  [length |-> Len(w.values), values |-> w.values,
   bitmap |-> IF w.nulls > 0 THEN w.bitmap ELSE NoBitmap, nulls |-> w.nulls]
box_finished(w) == [w EXCEPT !.values = << >>, !.bitmap = NoBitmap, !.nulls = 0]

HandleBox(w, c) ==
  CASE c.op = "feat_start" -> feat_start_box(w)
    [] c.op = "null_feat"  -> null_feat_box(w)
    [] c.op = "coords"     -> coords_box(w, c.xs)
    [] c.op = "feat_end"   -> feat_end_box(w)
    [] OTHER               -> Done(w)
HandleBoxAgg(w, c) == IF c.op = "coords" THEN coords_box(w, c.xs) ELSE Done(w)

-----------------------------------------------------------------------------
WritesText == kernel.name \in {"format_wkt", "as_geoarrow"}
Scalar     == kernel.name \in {"void", "format_wkt", "as_geoarrow", "box"}
Visits     == kernel.name \notin {"void", "void_agg"}
ByFeature  == kernel.name \in {"format_wkt", "unique_geometry_types_agg"}

(* The visitor the finish_start functions set up. *)
Handle(w, c) ==
  CASE WritesText -> HandleWKT(w, c)
    [] kernel.name = "unique_geometry_types_agg" -> HandleGeometryTypes(w, c)
    [] kernel.name = "box"     -> HandleBox(w, c)
    [] kernel.name = "box_agg" -> HandleBoxAgg(w, c)
    [] OTHER -> Done(w)

(* GeoArrowArrayWriterInitFromType: which of its writers writes a type. *)
WriterOf(type) ==
  CASE type \in {"LARGE_WKT", "LARGE_WKB", "WKT_VIEW", "WKB_VIEW"} -> "none"
    [] type = "WKT" -> "wkt"
    [] type = "WKB" -> "wkb"
    [] OTHER        -> "native"

(* finish_start: as_geoarrow wants a type it can write, the boxes planar   *)
(* edges.  (A second start(as_geoarrow) is refused, and no caller starts   *)
(* another kernel twice.)                                                  *)
StartCode(options) ==
  CASE kernel.name = "as_geoarrow" /\ options.type = "missing"        -> "EINVAL"
    [] kernel.name = "as_geoarrow" /\ WriterOf(options.type) = "none" -> "ENOTSUP"
    [] kernel.name \in {"box", "box_agg"} /\ options.edges # "planar" -> "EINVAL"
    [] OTHER -> "ok"
PrivateData(options) ==
  CASE kernel.name = "format_wkt"  -> WKTWriterInit(TRUE, options.limit)
    [] kernel.name = "as_geoarrow" -> WKTWriterInit(TRUE, Unlimited)
    [] kernel.name = "unique_geometry_types_agg" -> GeometryTypesInit
    [] OTHER -> BoxInit

Init ==
  /\ kernel \in [name : Names, started : {FALSE}]
  /\ visitor = BoxInit
  /\ rest = << >> /\ phase = "idle" /\ out = NoArray
  /\ pushed = << >> /\ visited = << >> /\ due = 0

Start(options) ==
  /\ ~kernel.started /\ phase = "idle"
  /\ IF StartCode(options) = "ok"
     THEN kernel' = [kernel EXCEPT !.started = TRUE] /\ phase' = "idle"
     ELSE phase' = "unusable" /\ UNCHANGED kernel
  /\ visitor' = PrivateData(options)
  /\ UNCHANGED << rest, out, pushed, visited, due >>

-----------------------------------------------------------------------------
(* kernel_push_batch_void, kernel_push_batch_void_agg, and the beginning   *)
(* of kernel_push_batch and kernel_push_batch_by_feature.                  *)
PushBatch(batch) ==
  /\ kernel.started /\ phase = "idle" /\ Len(pushed) < MaxBatches
  /\ pushed' = Append(pushed, batch)
  /\ IF Visits THEN phase' = "visiting" /\ rest' = batch ELSE UNCHANGED << phase, rest >>
  /\ out' = IF kernel.name = "void"
            THEN Handed("void", [length |-> Len(batch), nulls |-> Len(batch)])
            ELSE NoArray
  /\ UNCHANGED << kernel, visitor, visited, due >>

(* The calls of a row, as far as the visitor returns no error. *)
Hear(r, c) == IF r.code = "ok" THEN Handle(r.w, c) ELSE r
Visited(w, calls) == FoldLeft(Hear, Done(w), calls)

FeatEnd == [op |-> "feat_end", type |-> RING, dims |-> 1, xs |-> << >>]

(* EAGAIN: the visitor has heard enough of the feature, and it is ended.   *)
Enough(r) == Handle(r.w, FeatEnd)

Fails(r, row) == r.code # "ok" \/ ~row.readable

VisitFeature ==
  /\ phase = "visiting" /\ rest # << >>
  /\ LET row == Head(rest)
         v   == Visited(visitor, row.calls)
         enough == ByFeature /\ v.code = "EAGAIN"
         r   == IF enough THEN Enough(v) ELSE v
     IN /\ visitor' = r.w
        /\ visited' = Append(visited,
             [row |-> row, ended |-> enough \/ (v.code = "ok" /\ Has(row.calls, "feat_end"))])
        /\ IF IF enough THEN r.code # "ok" ELSE Fails(r, row)
           THEN phase' = "idle" /\ rest' = << >>
           ELSE rest' = Tail(rest) /\ UNCHANGED phase
  /\ UNCHANGED << kernel, out, pushed, due >>

(* finish_push_batch *)
FinishPush ==
  /\ phase = "visiting" /\ rest = << >>
  /\ phase' = "idle"
  /\ CASE WritesText /\ CanFinish(visitor) ->
            /\ out' = Handed("text", WKTWriterFinish(visitor))
            /\ visitor' = WKTWriterFinished(visitor)
            /\ due' = Len(visited)
       [] kernel.name = "box" ->
            /\ out' = Handed("boxes", box_finish(visitor))
            /\ visitor' = box_finished(visitor)
            /\ due' = Len(visited)
       [] OTHER -> UNCHANGED << out, visitor, due >>
  /\ UNCHANGED << kernel, rest, pushed, visited >>

(* The finish functions of the kernels. *)
Finish ==
  /\ kernel.started /\ phase = "idle"
  /\ CASE Scalar -> out' = NoArray /\ UNCHANGED visitor
       [] kernel.name = "unique_geometry_types_agg" ->
            out' = Handed("types", UniqueGeometryTypes(visitor)) /\ UNCHANGED visitor
       [] kernel.name = "box_agg" ->
            /\ out' = Handed("boxes", box_finish(box_flush(visitor)))
            /\ visitor' = box_finished(box_flush(visitor))
       [] OTHER -> out' = Handed("void", [length |-> 1, nulls |-> 1]) /\ UNCHANGED visitor
  /\ UNCHANGED << kernel, rest, phase, pushed, visited, due >>

Next ==
  \/ \E options \in Options : Start(options)
  \/ \E batch \in Batches : PushBatch(batch)
  \/ VisitFeature
  \/ FinishPush
  \/ Finish

Spec == Init /\ [][Next]_vars

-----------------------------------------------------------------------------
(* The rows of the array that was handed over last, and those among them   *)
(* that were visited to their end.                                         *)
Delivered == SubSeq(visited, out.start + 1, due)
EndedOf(vs) ==
  FlattenSeq([i \in DOMAIN vs |-> IF vs[i].ended THEN << vs[i] >> ELSE << >>])
AllEnded(vs) == \A i \in DOMAIN vs : vs[i].ended

NullsAmong(vs) == {i \in DOMAIN vs : vs[i].row.null}
FlagsMatch(array, vs) ==
  /\ array.nulls = Cardinality(NullsAmong(vs))
  /\ \A i \in DOMAIN vs : IsValid(array.bitmap, i) = ~vs[i].row.null

(* Nulls are where they were in the input, for a box even after a batch    *)
(* that failed; text is only sure of it if no feature was left unended.    *)
NullsOfRows ==
  /\ out.kind = "text" /\ AllEnded(Delivered) => FlagsMatch(out.array, Delivered)
  /\ out.kind = "boxes" /\ kernel.name = "box" =>
       FlagsMatch(out.array, EndedOf(Delivered))

(* The coordinates the visitor was told of, feature by feature. *)
CoordsOf(row) == UNION {ToSet(row.calls[i].xs) : i \in DOMAIN row.calls}
Bounds(xs, b) ==
  IF xs = {} THEN b = EmptyBounds
  ELSE \A j \in 1 .. 2 :
         LET vs == {Ordinate(x, j) : x \in xs}
         IN b.min[j] = Min(vs) /\ b.max[j] = Max(vs)

(* box gives every completed feature its own bounds, untouched by features *)
(* that failed before it; box_agg bounds everything it was ever told of,   *)
(* through all the batches, and gives one box even if that is nothing.     *)
BoxesBound ==
  out.kind = "boxes" =>
    IF kernel.name = "box_agg"
    THEN /\ out.array.length = 1
         /\ Bounds(UNION {CoordsOf(visited[i].row) : i \in DOMAIN visited},
                   out.array.values[1])
    ELSE LET vs == EndedOf(Delivered)
         IN /\ out.array.length = Len(vs)
            /\ \A i \in DOMAIN vs : Bounds(CoordsOf(vs[i].row), out.array.values[i])

(* unique_geometry_types_agg gives, in order and each once, the codes of   *)
(* the outermost geometries of the features with coordinates, though it    *)
(* leaves every feature at its first coordinate and failed batches count.  *)
Outermost(row) ==
  row.calls[Min({i \in DOMAIN row.calls : row.calls[i].op = "geom_start"})]
RowsWithCoords == {row \in {visited[i].row : i \in DOMAIN visited} : CoordsOf(row) # {}}
TypesCollected ==
  out.kind = "types" =>
    /\ ToSet(out.array.values) =
         {(Outermost(row).dims - 1) * 1000 + Outermost(row).type : row \in RowsWithCoords}
    /\ \A i, j \in DOMAIN out.array.values :
         i < j => out.array.values[i] < out.array.values[j]

(* geoarrow.h:241-242 says: "Scalar kernels always output an `ArrowArray`  *)
(* of the same length as the input from `push_batch()`".                   *)
LengthOfInput ==
  out.kind \in {"text", "boxes", "void"} /\ Scalar =>
    out.array.length = Len(pushed[Len(pushed)])
=============================================================================
