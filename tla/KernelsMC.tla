----------------------------- MODULE KernelsMC -----------------------------
(***************************************************************************)
(* The rows a kernel is given: geometries of every kind, whole and as far  *)
(* as a reader came before an error, with the coordinates in one chunk or  *)
(* in several; and the text that stands for them, which is defined by      *)
(* recursion over the geometry in WKTReference.                            *)
(***************************************************************************)
EXTENDS Kernels, WKTReference

Call(op, type, dims, xs) == [op |-> op, type |-> type, dims |-> dims, xs |-> xs]
Plain(op) == Call(op, RING, 1, << >>)

(* The coordinates of a sequence, size at a time. *)
RECURSIVE Chunks(_, _, _)
Chunks(xs, dims, size) ==
  IF xs = << >> THEN << >>
  ELSE LET n == IF Len(xs) < size THEN Len(xs) ELSE size
       IN << Call("coords", RING, dims, SubSeq(xs, 1, n)) >> \o
          Chunks(SubSeq(xs, n + 1, Len(xs)), dims, size)

RECURSIVE CallsOf(_, _)
CallsOf(g, size) ==
  << Call("geom_start", g.type, g.dims, << >>) >> \o
  Chunks(g.xs, g.dims, size) \o
  PerPart(g, LAMBDA p :
    IF g.type = POLYGON
    THEN << Plain("ring_start") >> \o Chunks(p.xs, p.dims, size) \o << Plain("ring_end") >>
    ELSE CallsOf(p, size)) \o
  << Plain("geom_end") >>

FeatureCalls(g, size) ==
  << Plain("feat_start") >> \o CallsOf(g, size) \o << Plain("feat_end") >>

RowOf(g, calls, readable) ==
  [geometry |-> g, null |-> FALSE, calls |-> calls, readable |-> readable]
Nothing == [geometry |-> Pt(1, << >>), null |-> TRUE, readable |-> TRUE,
            calls |-> << Plain("feat_start"), Plain("null_feat"), Plain("feat_end") >>]

Shapes ==
  {Pt(2, << >>), Pt(4, << 7 >>), Line(1, << 1, 2, 3 >>),
   Of(POLYGON, 1, << Line(1, << 1, 2, 3 >>), Line(1, << >>), Line(1, << 4 >>) >>),
   Of(MULTIPOINT, 1, << Pt(1, << 5 >>), Pt(1, << >>), Pt(1, << 6 >>) >>),
   Of(MULTILINESTRING, 3, << Line(3, << >>), Line(3, << 8, 2 >>) >>),
   Of(MULTIPOLYGON, 1, << Of(POLYGON, 1, << Line(1, << 1 >>) >>), Of(POLYGON, 1, << >>) >>),
   Of(GEOMETRYCOLLECTION, 1,
      << Pt(2, << >>), Of(GEOMETRYCOLLECTION, 1, << Pt(4, << 3 >>) >>),
         Line(1, << 4, 2 >>) >>)}
(* Deeper than the writer of text has levels. *)
TooDeep ==
  Of(GEOMETRYCOLLECTION, 1, << Of(GEOMETRYCOLLECTION, 1,
    << Of(GEOMETRYCOLLECTION, 1, << Pt(1, << 2 >>), Of(GEOMETRYCOLLECTION, 1,
       << Pt(1, << 1 >>) >>) >>) >>) >>)

Wholes == {RowOf(g, FeatureCalls(g, size), TRUE) : g \in Shapes, size \in {1, 5}}
Cut(g) == LET calls == FeatureCalls(g, 2)
          IN {RowOf(g, SubSeq(calls, 1, k), FALSE) : k \in DOMAIN calls}
Partial == UNION {Cut(g) : g \in {Line(1, << 1, 2, 3 >>),
  Of(MULTIPOLYGON, 1, << Of(POLYGON, 1, << Line(1, << 1 >>) >>), Of(POLYGON, 1, << >>) >>)}}
Common == {Nothing,
  RowOf(Line(1, << 4, 5, 6 >>), FeatureCalls(Line(1, << 4, 5, 6 >>), 2), TRUE)}

SmallBatches ==
  {<< >>, << RowOf(TooDeep, Front(FeatureCalls(TooDeep, 1)), FALSE) >>}
  \cup {<< r >> : r \in Wholes \cup Partial}
  \cup {<< r, s >> : r \in Common, s \in Wholes \cup Partial \cup Common}
  \cup {<< r, s, t >> : r \in Common, s \in Common, t \in Common}

SomeRows == UNION {{batch[i] : i \in DOMAIN batch} : batch \in SmallBatches}

NoLimit == -1
AllNames == {"void", "void_agg", "visit_void_agg", "format_wkt", "as_geoarrow",
             "unique_geometry_types_agg", "box", "box_agg"}
AllOptions ==
  {o \in [limit : {NoLimit, 0, 6}, type : {"missing", "LARGE_WKT", "WKT"},
          edges : {"planar", "spherical"}] :
     Cardinality({f \in DOMAIN o : o[f] # [limit |-> NoLimit, type |-> "WKT",
                                          edges |-> "planar"][f]}) <= 1}

-----------------------------------------------------------------------------
Written == [spaced |-> "written", flat |-> TRUE]
WholeText(row) == IF row.null THEN << >> ELSE TaggedText(Written, row.geometry)

(* What the limit of an element leaves of its text. *)
HasLimit == visitor.limit # Unlimited
Limited(text) ==
  IF HasLimit /\ Len(text) > visitor.limit THEN SubSeq(text, 1, visitor.limit) ELSE text

(* Element i comes after a null of its array: it gets a bit and is not cut *)
(* (wkt_writer.c:259), so it has whatever was written before EAGAIN.       *)
AfterNull(i) == \E j \in 1 .. i - 1 : Delivered[j].row.null /\ Delivered[j].ended
ElementMatches(text, i) ==
  LET whole == WholeText(Delivered[i].row)
  IN /\ IsPrefix(text, whole)
     /\ Delivered[i].ended =>
          IF AfterNull(i) THEN text = whole \/ (HasLimit /\ Len(text) >= visitor.limit)
          ELSE text = Limited(whole)

(* format_wkt and as_geoarrow hand over one element for every feature they *)
(* began since the last array, those of failed batches included, in order, *)
(* however the coordinates came in chunks, and whatever feature was given  *)
(* up before it by the reader or for its size (kernel.c:205-227).  The     *)
(* element of a feature that ended is the text of its geometry cut at the  *)
(* limit (geoarrow.h:458-464), except after a null; that of a feature that *)
(* did not end is the beginning of its text.                               *)
ElementsAreText ==
  out.kind = "text" =>
    /\ out.array.length = Len(Delivered)
    /\ Len(out.array.offsets) = out.array.length + 1
    /\ \A i \in DOMAIN Delivered :
         ElementMatches(TextOfRow(out.array, i), i)
=============================================================================
