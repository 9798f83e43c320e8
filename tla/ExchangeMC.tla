----------------------------- MODULE ExchangeMC -----------------------------
(***************************************************************************)
(* Which descriptions are exchanged, what other producers make of them,    *)
(* and what is built.                                                      *)
(***************************************************************************)
EXTENDS Exchange

CONSTANT OddCrsTypes   \* types of a crs that no version of the code knows

SomeLayouts ==
  {Layout(g, d, c) : g \in NativeGeometries, d \in {1, 2, 3}, c \in {SEPARATE, INTERLEAVED}}
  \cup {Layout(POLYGON, 4, SEPARATE), Layout(BOX, 4, SEPARATE),
        Layout(GEOMETRY, 1, SEPARATE), Layout(GEOMETRYCOLLECTION, 1, SEPARATE),
        Layout(POINT, UNKNOWN, SEPARATE), Layout(POINT, 1, UNKNOWN)}
  \cup {SerializedLayout(t) : t \in Serialized \cup {UNINITIALIZED}}

-----------------------------------------------------------------------------
(* Metadata: the values of keys as text, whether they may be there, and    *)
(* what they mean.                                                         *)
V(text, ok, means) == [text |-> text, ok |-> ok, means |-> means]
Null == << "null" >>
Nested == << "{", Quote, "crs", Quote, ":", "[", "7", ",", "{", Quote, "}", Quote,
             ":", "7", "}", "]", "}" >>
EdgeValues == {V(Quoted("spherical"), TRUE, "spherical"), V(Null, TRUE, "planar"),
               V(Quoted("flat"), FALSE, "")}
CrsValues ==
  {V(Nested, TRUE, Nested), V(Null, TRUE, << >>), V(<< "7" >>, FALSE, << >>),
   V(<< Quote, "a", Escape, Quote, "}", Escape, Escape, Quote >>, TRUE,
     << "a", Quote, "}", Escape >>),
   V(<< "[", "{", "}", "]" >>, FALSE, << >>)}
CrsTypeValues ==
  {V(Quoted(t), TRUE, t) : t \in CrsTypes} \cup
  {V(Quoted(t), TRUE, "unknown") : t \in OddCrsTypes} \cup {V(Null, FALSE, "")}
OtherValues == {V(<< "[", Quote, "]", Quote, ",", "[", "]", "]" >>, TRUE, << >>),
                V(<< "7" >>, FALSE, << >>), V(<< "true" >>, FALSE, << >>)}

ValuesFor == [edges |-> EdgeValues, crs |-> CrsValues, crs_type |-> CrsTypeValues,
              other |-> OtherValues]
Keys == DOMAIN ValuesFor
Orders == {ks \in UNION {[1 .. n -> Keys] : n \in 0 .. 3} :
             \A i, j \in DOMAIN ks : ks[i] = ks[j] => i = j}
RECURSIVE Documents(_)
Documents(ks) ==
  IF ks = << >> THEN {<< >>}
  ELSE {<< [key |-> Head(ks), value |-> v] >> \o d :
          v \in ValuesFor[Head(ks)], d \in Documents(Tail(ks))}

(* Where the text may have whitespace there is some, or none anywhere.     *)
(* after follows every value, and last the last of them.                   *)
TextWith(doc, gap, after, last) ==
  gap \o << "{" >> \o gap \o
  FlattenSeq([i \in DOMAIN doc |->
    (IF i > 1 THEN << "," >> \o gap ELSE << >>) \o
    Quoted(doc[i].key) \o gap \o << ":" >> \o gap \o doc[i].value.text \o after])
  \o last \o << "}" >> \o gap
Text(doc, gap) == TextWith(doc, gap, gap, << >>)

ValueOf(doc, key, default) ==
  IF \E i \in DOMAIN doc : doc[i].key = key
  THEN doc[CHOOSE i \in DOMAIN doc : doc[i].key = key].value.means ELSE default
DocMeaning(layout, doc) ==
  LET crs == ValueOf(doc, "crs", << >>)
  IN IF \E i \in DOMAIN doc : ~doc[i].value.ok THEN NotMeant
     ELSE Meaning(layout, ValueOf(doc, "edges", "planar"),
                  IF crs = << >> THEN "none" ELSE ValueOf(doc, "crs_type", "unknown"),
                  crs)

PointField(text) == Field(SchemaInit(POINT), GeometryName(POINT), text)
PointLayout == Layout(POINT, 1, SEPARATE)
WithMetadata ==
  {[field |-> PointField(Text(doc, gap)), meaning |-> DocMeaning(PointLayout, doc)] :
     doc \in UNION {Documents(ks) : ks \in Orders}, gap \in {<< >>, << " " >>}}

ShortDocuments == UNION {Documents(ks) : ks \in {o \in Orders : Len(o) \in {1, 2}}}

(* Texts that no JSON parser accepts and this one does: with something     *)
(* after the values, and with a comma too many, unless a space follows it. *)
Sloppy ==
  {[field |-> PointField(TextWith(doc, << >>, << "7" >>, << >>)),
    meaning |-> DocMeaning(PointLayout, doc)] : doc \in ShortDocuments} \cup
  {[field |-> PointField(TextWith(doc, << >>, << >>, << "," >>)),
    meaning |-> DocMeaning(PointLayout, doc)] : doc \in ShortDocuments} \cup
  {[field |-> PointField(TextWith(doc, << >>, << >>, << ",", " " >>)),
    meaning |-> NotMeant] : doc \in ShortDocuments}

(* A text that lost its end, or has more behind it, is no metadata. *)
BadlyCopied ==
  {[field |-> PointField(text), meaning |-> NotMeant] :
     text \in UNION {{SubSeq(Text(doc, << >>), 1, n) : n \in 1 .. Len(Text(doc, << >>)) - 1}
                     \cup {Text(doc, << >>) \o << more >> : more \in {"}", ",", "7"}} :
                       doc \in ShortDocuments}}

-----------------------------------------------------------------------------
(* Schemas with one thing changed. *)
SomeNames == {<< >>, << "x" >>, << "y" >>, << "z" >>, << "m" >>, << "x", "y" >>,
              << "x", "y", "z" >>, << "x", "y", "m" >>, << "x", "min" >>,
              << "y", "max" >>, << "other" >>}
Without(s, c) == SubSeq(s, 1, c - 1) \o SubSeq(s, c + 1, Len(s))
RECURSIVE Edits(_)
Edits(s) ==
  {[s EXCEPT !.format = f] : f \in {"+s", "+w", "+l", "g", "f", "z", "U"}}
  \cup {[s EXCEPT !.size = n] : n \in IF s.format = "+w" THEN 2 .. 5 ELSE {}}
  \cup {[s EXCEPT !.name = n] : n \in SomeNames}
  \cup UNION {{[s EXCEPT !.children = Without(@, c)],
               [s EXCEPT !.children = Append(@, @[c])],
               [s EXCEPT !.children = << @[c] >> \o Without(@, c)]}
              \cup {[s EXCEPT !.children[c] = e] : e \in Edits(s.children[c])} :
                c \in DOMAIN s.children}

Known ==
  Serialized \cup
  {t \in {MakeType(l.geometry, l.dims, l.coord) :
            l \in {k \in SomeLayouts : IsNative(k)}} :
     t # UNINITIALIZED /\ CanInitSchema(t)}
Renamed ==
  {Field(SchemaInit(t), name, << >>) : t \in Known,
     name \in {"geoarrow.wkb.v2", "geoarrow.wkt2", "geoarrow", "arrow.json"}
              \cup {GeometryName(g) : g \in NativeGeometries}}
Damaged ==
  {[field |-> f, meaning |-> Unknown] : f \in Renamed \cup
     UNION {{Field(e, ExtensionNameFromType(t), << >>) : e \in Edits(SchemaInit(t))} :
              t \in Known}}

SomeForeignFields == WithMetadata \cup Sloppy \cup BadlyCopied \cup Damaged

SomeEdges == {"planar", "karney"}
SomeCrs ==
  {[crs |-> << "EPSG:4326" >>, crs_type |-> "authority_code"],
   [crs |-> << "a", Quote, "b", Quote >>, crs_type |-> "unknown"],
   [crs |-> << >>, crs_type |-> "none"]}

-----------------------------------------------------------------------------
Job(type, style, dims, bitmap, rows) ==
  [type |-> type, style |-> style, dims |-> dims, bitmap |-> bitmap, rows |-> rows]
SomeWork ==
  {Job(MakeType(POINT, 3, SEPARATE), "coords", 4, << << 1, 0, 1 >> >>, << 1, 2, 3 >>),
   Job(MakeType(LINESTRING, 2, INTERLEAVED), "coords", 1, << >>,
       << << 1, 2 >>, << >>, << 3 >> >>),
   Job(MakeType(POLYGON, 1, SEPARATE), "coords", 4, << >>,
       << << << 1, 2 >> >>, << >>, << << >>, << 3 >> >> >>),
   Job(MakeType(BOX, 1, SEPARATE), "owned", 1, << << 0, 1 >> >>,
       << << 1, 2 >>, << 3, 4 >> >>),
   Job(LARGE_WKB, "buffers", 1, << >>, << << "a", "b" >>, << >>, << "c" >> >>),
   Job(MakeType(MULTIPOINT, 1, SEPARATE), "buffers", 1, << << 1, 0 >> >>,
       << << 1, 2 >>, << 3 >> >>),
   Job(MakeType(MULTILINESTRING, 1, SEPARATE), "owned", 1, << >>,
       << << << 1, 2, 3 >>, << 4, 5 >> >>, << >>, << << 6 >> >> >>),
   Job(MakeType(MULTIPOLYGON, 3, INTERLEAVED), "owned", 3, << << 1, 0, 1 >> >>,
       << << << << 1, 2 >>, << 3 >> >>, << << 4, 5 >> >> >>, << >>,
          << << << 6, 7 >> >> >> >>)}
=============================================================================
