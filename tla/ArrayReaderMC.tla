--------------------------- MODULE ArrayReaderMC ---------------------------
(***************************************************************************)
(* What the array reader is given: small geometries of every type, written *)
(* as text, as well-known binary and as native arrays by the reference     *)
(* definitions below, whole and damaged.                                   *)
(***************************************************************************)
EXTENDS ArrayReader, WKTReference

UpTo2(S) == {<< >>} \cup {<< s >> : s \in S} \cup {<< s, t >> : s, t \in S}

CoordLists == {<< >>, << 1 >>, << 1, 2 >>, << 1, 2, 3 >>, << 1, 2, 3, 4, 5 >>}
PointSet(d)   == {Pt(d, << >>), Pt(d, << 7 >>)}
LineSet(d)    == {Line(d, xs) : xs \in CoordLists}
ShortLines(d) == {Line(d, << >>), Line(d, << 1, 2, 3 >>)}
PolygonSet(d) == {Of(POLYGON, d, ps) : ps \in UpTo2(ShortLines(d))}
MultiSet(d)   ==
  {Of(MULTIPOINT, d, ps) : ps \in UpTo2(PointSet(d))}
  \cup {Of(MULTILINESTRING, d, ps) : ps \in UpTo2(ShortLines(d))}
  \cup {Of(MULTIPOLYGON, d, ps) :
          ps \in UpTo2({Of(POLYGON, d, << >>),
                        Of(POLYGON, d, << Line(d, << 1 >>), Line(d, << >>) >>)})}
Simple(d) == PointSet(d) \cup LineSet(d) \cup PolygonSet(d) \cup MultiSet(d)

Inner == Of(GEOMETRYCOLLECTION, 1,
            << Of(MULTILINESTRING, 1, << Line(1, << 1 >>) >>), Pt(1, << 2 >>) >>)
Collections ==
  {Of(GEOMETRYCOLLECTION, 1, ps) :
     ps \in UpTo2({Pt(4, << 8 >>), Line(2, << 1, 2, 3 >>), Inner,
                   Of(POLYGON, 1, << Line(1, << 4 >>) >>)})}
Geometries == Simple(1) \cup Collections \cup LineSet(2) \cup PointSet(3)
              \cup PolygonSet(4)

-----------------------------------------------------------------------------
(* Well-known binary.  A style says in which byte order the geometry is,   *)
(* whether its parts alternate, and how dimensions are encoded.            *)
(* An empty point has one coordinate of NaNs there, 0 in this model.       *)
B(kind, order, v, dims, bits) ==
  [kind |-> kind, order |-> order, v |-> v, dims |-> dims, bits |-> bits]
TypeWord(st, g) ==
  LET bits == CASE g.dims = 1 -> {} [] g.dims = 2 -> {"Z"}
                [] g.dims = 3 -> {"M"} [] OTHER -> {"Z", "M"}
  IN CASE st.form = "iso"  -> B("type", st.order, g.type + (g.dims - 1) * 1000, 1, {})
       [] st.form = "ewkb" -> B("type", st.order, g.type, 1, bits)
       [] OTHER -> B("type", st.order, g.type, 1, bits \cup {"SRID"})
Number(st, n)   == B("number", st.order, n, 1, {})
CoordWords(st, d, xs) ==
  [i \in DOMAIN xs |-> B("coord", st.order, xs[i], d, {})]
NonEmpty(xs) == IF xs = << >> THEN << 0 >> ELSE xs

RECURSIVE Words(_, _)
Words(st, g) ==
  LET inner == IF st.mixed THEN [st EXCEPT !.order = 1 - @] ELSE st
  IN << B("order", st.order, 0, 1, {}), TypeWord(st, g) >> \o
     (IF st.form = "srid" THEN << Number(st, 9) >> ELSE << >>) \o
     (CASE g.type = POINT -> CoordWords(st, g.dims, NonEmpty(g.xs))
        [] g.type = LINESTRING ->
             << Number(st, Len(g.xs)) >> \o CoordWords(st, g.dims, g.xs)
        [] g.type = POLYGON ->
             << Number(st, Len(g.parts)) >> \o
             PerPart(g, LAMBDA r :
               << Number(st, Len(r.xs)) >> \o CoordWords(st, g.dims, r.xs))
        [] OTHER -> << Number(st, Len(g.parts)) >> \o
             PerPart(g, LAMBDA p : Words(inner, p)))

ByteStyles == [order : {0, 1}, mixed : BOOLEAN, form : {"iso", "ewkb", "srid"}]
WithNaN(row) == [row EXCEPT !.nodes = [i \in DOMAIN @ |->
  IF @[i].type = POINT THEN [@[i] EXCEPT !.xs = NonEmpty(@)] ELSE @[i]]]

-----------------------------------------------------------------------------
(* Serialized arrays: pad rows of something else before the rows. *)
Cumulative(items) == [k \in 1 .. Len(items) + 1 |->
  Len(FlattenSeq(SubSeq(items, 1, k - 1)))]
Serialized(type, pad, items, bitmap) ==
  LET all == [k \in 1 .. pad |-> << "junk" >>] \o items
  IN [offset |-> pad, offsets |-> Cumulative(all), data |-> FlattenSeq(all),
      rows |-> all,
      bitmap |-> IF bitmap = << >> THEN << >> ELSE [k \in 1 .. pad |-> 0] \o bitmap]

Source(type, array, offset, rows, readable, whole) ==
  [type |-> type, array |-> array, offset |-> offset, length |-> Len(rows),
   rows |-> rows, readable |-> readable, whole |-> whole]

OneRow(type, item, row) ==
  Source(type, Serialized(type, 0, << item >>, << >>), 0, << row >>, 1, TRUE)
(* Two rows, the second of which is damaged. *)
Damaged(type, good, item, row, readable) ==
  Source(type, Serialized(type, 0, << good, item >>, << >>), 0, << row, row >>,
         readable, FALSE)

WholeText ==
  {OneRow("wkt", TaggedText(sg[1], sg[2]), Row(sg[2])) :
     sg \in {p \in Styles \X Geometries : Readable(p[1], p[2])}}
WholeBytes == {OneRow("wkb", Words(st, g), WithNaN(Row(g))) :
                 g \in Geometries, st \in ByteStyles}

Samples == {Pt(1, << 7 >>), Line(2, << 1, 2, 3 >>), Inner,
            Of(MULTIPOINT, 1, << Pt(1, << 1 >>), Pt(1, << >>) >>),
            Of(MULTIPOLYGON, 1, << Of(POLYGON, 1, << Line(1, << 1, 2 >>) >>) >>)}
(* A token dropped that cannot be missed, the text cut, or more after it. *)
Needed == {")", ","}
DamagedText ==
  UNION {LET t == TaggedText(Compact, g)
         IN {Damaged("wkt", t, SubSeq(t, 1, k - 1), Row(g), 1) : k \in DOMAIN t}
            \cup {Damaged("wkt", t, RemoveAt(t, k), Row(g), 1) :
                    k \in {j \in DOMAIN t : t[j] \in Needed /\ j < Len(t)}}
            \cup {Damaged("wkt", t, t \o << " ", ")" >>, Row(g), 2)}
         : g \in Samples}
(* A row that is cut, or has an unknown type. *)
NativeIso == [order |-> 1, mixed |-> FALSE, form |-> "srid"]
DamagedBytes ==
  UNION {LET b == Words(NativeIso, g)
         IN {Damaged("wkb", b, SubSeq(b, 1, k - 1), WithNaN(Row(g)), 1) : k \in DOMAIN b}
            \cup {Damaged("wkb", b, [b EXCEPT ![2].v = v], WithNaN(Row(g)), 1) :
                    v \in {0, 8, 4001}}
         : g \in Samples}

(* Slices of arrays of three rows, one of them null. *)
Three == << Inner, Pt(1, << 1 >>), Of(MULTIPOINT, 1, << Pt(1, << 2 >>) >>) >>
ThreeRows(null) == [k \in 1 .. 3 |-> IF k = null THEN NullRow ELSE Row(Three[k])]
Bits(null) == IF null = 0 THEN << >> ELSE [k \in 1 .. 3 |-> IF k = null THEN 0 ELSE 1]
Slices ==
  {LET items == [k \in 1 .. 3 |->
         IF k = null THEN << >>
         ELSE IF type \in {"wkt", "wkt_arrow"} THEN TaggedText(Compact, Three[k])
         ELSE Words(NativeIso, Three[k])]
   IN Source(type, Serialized(type, pad, items, Bits(null)), from,
             SubSeq(ThreeRows(null), from + 1, 3 - less), 3 - less - from, TRUE)
   : type \in {"wkt", "wkb", "wkt_arrow", "wkb_arrow"}, pad \in 0 .. 1,
     null \in 0 .. 3, from \in 0 .. 1, less \in 0 .. 1}

-----------------------------------------------------------------------------
(* Native arrays, from rows nested as the type is.  Every level has pad    *)
(* elements before its own and its child pad elements before those.        *)
Junk == 9
ListLevel(rows, pad) ==
  [offset |-> pad, length |-> Len(rows),
   offsets |-> [k \in 1 .. pad |-> 0] \o
     [k \in 1 .. Len(rows) + 1 |-> pad + Len(FlattenSeq(SubSeq(rows, 1, k - 1)))]]
Below(rows, pad, junk) == [k \in 1 .. pad |-> junk] \o FlattenSeq(rows)

ValueAt(x, j) == 10 * x + j - 1
CoordLevel(xs, pad, dims, interleaved) ==
  LET all == [k \in 1 .. pad |-> Junk] \o xs
      n   == NumDimensions(dims)
  IN [offset |-> pad, length |-> Len(xs),
      children |->
        IF interleaved
        THEN << [offset |-> 0, values |-> [m \in 1 .. n * Len(all) |->
                   ValueAt(all[(m - 1) \div n + 1], ((m - 1) % n) + 1)]] >>
        ELSE [j \in 1 .. n |->
                [offset |-> pad, values |-> [k \in 1 .. pad |-> Junk] \o
                   [k \in DOMAIN all |-> ValueAt(all[k], j)]]]]

NativeArray(type, dims, interleaved, pad, rows, bitmap) ==
  LET rings == IF NumOffsets(type) >= 2 THEN Below(rows, pad, << >>) ELSE << >>
      parts == IF NumOffsets(type) >= 3 THEN Below(rings, pad, << >>) ELSE << >>
      lists == CASE NumOffsets(type) = 0 -> << >>
                 [] NumOffsets(type) = 1 -> << rows >>
                 [] NumOffsets(type) = 2 -> << rows, rings >>
                 [] OTHER                -> << rows, rings, parts >>
      xs    == IF lists = << >> THEN rows
               ELSE Below(lists[Len(lists)], pad, Junk)
  IN [type |-> type, dims |-> dims, interleaved |-> interleaved,
      levels |-> [l \in DOMAIN lists |-> ListLevel(lists[l], pad)] \o
                 << CoordLevel(xs, pad, dims, interleaved) >>,
      bitmap |-> IF bitmap = << >> THEN << >> ELSE [k \in 1 .. pad |-> 0] \o bitmap]

(* The nested row of a native array as a geometry. *)
Native(type, d, r) ==
  CASE type = POINT -> Pt(d, << r >>)
    [] type = LINESTRING -> Line(d, r)
    [] type = MULTIPOINT -> Of(type, d, [i \in DOMAIN r |-> Pt(d, << r[i] >>)])
    [] type \in {POLYGON, MULTILINESTRING} ->
         Of(type, d, [i \in DOMAIN r |-> Line(d, r[i])])
    [] OTHER -> Of(type, d, [i \in DOMAIN r |->
         Of(POLYGON, d, [j \in DOMAIN r[i] |-> Line(d, r[i][j])])])

NativeRows(type) ==
  CASE type = POINT -> << 1, 2, 3 >>
    [] NumOffsets(type) = 1 -> << << 1, 2 >>, << >>, << 3 >> >>
    [] NumOffsets(type) = 2 -> << << << 1, 2 >>, << >> >>, << << 3 >> >>, << >> >>
    [] OTHER -> << << << << 1, 2 >>, << 3 >> >>, << >> >>, << << << 4 >> >> >>, << >> >>

NativeSources ==
  {LET rows == NativeRows(type)
       geom == [k \in 1 .. 3 |-> IF k = null THEN NullRow
                                 ELSE Row(Native(type, dims, rows[k]))]
   IN Source("native", NativeArray(type, dims, interleaved, pad, rows, Bits(null)),
             from, SubSeq(geom, from + 1, 3 - less), 3 - less - from, TRUE)
   : type \in POINT .. MULTIPOLYGON, dims \in {1, 4}, interleaved \in BOOLEAN,
     pad \in 0 .. 1, null \in {0, 2}, from \in 0 .. 1, less \in 0 .. 1}

(* Boxes: the corners are coordinates 10 x + y.  An empty one, a null one. *)
BoxChildren == << << 1, 5, 1 >>, << 2, 2, 2 >>, << 3, 3, 3 >>, << 4, 4, 4 >> >>
BoxRow == [null |-> FALSE, nodes |->
  << Node(POLYGON, 1, 0),
     [Node(RING, 1, 1) EXCEPT !.xs = << 12, 32, 34, 14, 12 >>] >>]
EmptyBoxRow == [null |-> FALSE, nodes |-> << Node(POLYGON, 1, 0) >>]
BoxArray(dims) ==
  [type |-> BOX, dims |-> dims, interleaved |-> FALSE,
   levels |-> << [offset |-> 0, length |-> 3, children |->
     [j \in 1 .. NumValues(BOX, dims) |->
        [offset |-> 0, values |-> BoxChildren[((j - 1) % 4) + 1]]]] >>,
   bitmap |-> << 1, 1, 0 >>]
Boxes ==
  {Source("native", BoxArray(1), 0, << BoxRow, EmptyBoxRow, NullRow >>, 3, TRUE),
   Source("native", BoxArray(2), 0, << BoxRow, EmptyBoxRow, NullRow >>, 0, FALSE)}

-----------------------------------------------------------------------------
(* Readers are used again after and for these, damaged ones among them. *)
Again ==
  LET long == TaggedText(Compact, Line(1, << 1, 2, 3, 4, 5 >>))
      many == Words(NativeIso, Inner)
  IN {OneRow("wkt", long, Row(Line(1, << 1, 2, 3, 4, 5 >>))),
      Damaged("wkt", long, SubSeq(long, 1, 8), Row(Line(1, << 1, 2, 3, 4, 5 >>)), 1),
      OneRow("wkb", many, Row(Inner)),
      Damaged("wkb", many, SubSeq(many, 1, 3), Row(Inner), 1)}

AllSources ==
  Again \cup WholeText \cup WholeBytes \cup DamagedText \cup DamagedBytes
  \cup Slices \cup NativeSources \cup Boxes
=============================================================================
