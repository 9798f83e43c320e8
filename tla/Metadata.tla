------------------------------ MODULE Metadata ------------------------------
(***************************************************************************)
(* metadata.c: the extension metadata of a field, a JSON object.  A text is *)
(* a sequence of words and punctuation, none of them the start of another; *)
(* its size is the sum of their lengths.  The parser runs a cursor over the *)
(* text and remembers the values of the three keys it knows as the pieces  *)
(* of text they are.  No text holds a NUL.                                 *)
(***************************************************************************)
EXTENDS Integers, Sequences, SequencesExt

Quote   == "\""
Escape  == "\\"
Quoted(word) == << Quote, word, Quote >>

Size(text) == FoldLeft(LAMBDA n, word : n + Len(word), 0, text)

EdgeTypes == {"planar", "spherical", "vincenty", "thomas", "andoyer", "karney"}
CrsTypes  == {"projjson", "wkt2:2019", "authority_code", "srid"}

(* struct GeoArrowMetadataView; a crs is JSON, or text that is not. *)
MetadataView(edges, crsType, crs) ==
  [edge_type |-> edges, crs_type |-> crsType, crs |-> crs]
DefaultMetadata == MetadataView("planar", "none", << >>)

-----------------------------------------------------------------------------
(* The cursor.  At(text, p) is a word that is in no text behind the end:   *)
(* what the code reads there makes no difference, for it goes on to fail.  *)
At(text, p) == IF p \in DOMAIN text THEN text[p] ELSE "end"

FirstOf(text, p, words) ==
  LET found == {q \in p .. Len(text) : text[q] \in words}
  IN IF found = {} THEN Len(text) + 1 ELSE CHOOSE q \in found :
       \A r \in found : q <= r

SkipUntil(text, p, words) == FirstOf(text, p, words)
SkipWhitespace(text, p) ==
  FirstOf(text, p, {text[q] : q \in DOMAIN text} \ {" "})

(* Where the string, list or object ends whose first word is just before p, *)
(* or 0 when it does not end.                                              *)
RECURSIVE FindString(_, _)
FindString(text, p) ==
  CASE At(text, p) = Escape -> FindString(text, p + 2)
    [] At(text, p) = Quote  -> p
    [] p > Len(text)        -> 0
    [] OTHER                -> FindString(text, p + 1)

RECURSIVE FindClosing(_, _, _)
FindValue(text, p) ==
  CASE At(text, p) = "["    -> FindClosing(text, p + 1, "]")
    [] At(text, p) = "{"    -> FindClosing(text, p + 1, "}")
    [] At(text, p) = Quote  -> FindString(text, p + 1)
    [] At(text, p) = "null" -> p
    [] OTHER                -> 0

FindClosing(text, p, closing) ==
  LET q == SkipUntil(text, p, {"[", "{", Quote, closing})
      e == FindValue(text, q)
  IN IF At(text, q) = closing THEN q
     ELSE IF e = 0 THEN 0 ELSE FindClosing(text, e + 1, closing)

-----------------------------------------------------------------------------
(* ParseJSONMetadata: what a key with value v does to view m, as a set that *)
(* is empty when the value is an error.  The crs type is told by the size  *)
(* of its value alone: the code compares the key where it means the value. *)
SetEdges(m, v) ==
  IF v[1] = "null" THEN {[m EXCEPT !.edge_type = "planar"]}
  ELSE {[m EXCEPT !.edge_type = e] : e \in {f \in EdgeTypes : v = Quoted(f)}}

SetCrs(m, v) ==
  CASE v[1] \in {"{", Quote} ->
         {[m EXCEPT !.crs = v,
                    !.crs_type = IF @ = "none" THEN "unknown" ELSE @]}
    [] v[1] = "null" -> {[m EXCEPT !.crs_type = "none"]}
    [] OTHER -> {}

CrsTypeOfSize(size) ==
  CASE size = 10 -> "projjson"
    [] size = 11 -> "wkt2:2019"
    [] size = 16 -> "authority_code"
    [] size = 6  -> "srid"
    [] OTHER     -> "unknown"

SetCrsType(m, v) ==
  IF v[1] = Quote THEN {[m EXCEPT !.crs_type = CrsTypeOfSize(Size(v))]} ELSE {}

SetKey(m, k, v) ==
  CASE k = Quoted("edges")    -> SetEdges(m, v)
    [] k = Quoted("crs")      -> SetCrs(m, v)
    [] k = Quoted("crs_type") -> SetCrsType(m, v)
    [] OTHER                  -> {m}

(* From cursor p on, with m from the keys before: the views that result,   *)
(* one or none, when only whitespace follows the object.                   *)
Trailing(text, p) == SkipWhitespace(text, p) <= Len(text)

RECURSIVE ParseKeys(_, _, _)
ParseKeys(text, p, m) ==
  LET k     == SkipWhitespace(text, p)
      kEnd  == IF At(text, k) = Quote THEN FindString(text, k + 1) ELSE 0
      colon == SkipWhitespace(text, kEnd + 1)
      v     == SkipWhitespace(text, colon + 1)
      vEnd  == FindValue(text, v)
      next  == SkipUntil(text, vEnd + 1, {",", "}"})
  IN IF At(text, p) = "}" THEN IF Trailing(text, p + 1) THEN {} ELSE {m}
     ELSE IF p > Len(text) \/ kEnd = 0 \/ At(text, colon) # ":" \/ vEnd = 0 THEN {}
     ELSE UNION {ParseKeys(text, IF At(text, next) = "," THEN next + 1
                                 ELSE next, n) :
                   n \in SetKey(m, SubSeq(text, k, kEnd), SubSeq(text, v, vEnd))}

(* A crs type without a crs says nothing. *)
Canonical(m) == IF m.crs = << >> THEN [m EXCEPT !.crs_type = "none"] ELSE m

MetadataViewInit(text) ==
  LET p == SkipWhitespace(text, 1)
  IN IF text = << >> THEN {DefaultMetadata}
     ELSE IF At(text, p) # "{" THEN {}
     ELSE {Canonical(m) : m \in ParseKeys(text, SkipWhitespace(text, p + 1),
                                          DefaultMetadata)}

-----------------------------------------------------------------------------
(* Writing.  A crs that is JSON already is written as it is.               *)
CrsNeedsEscape(crs) == At(crs, 1) \notin {"{", Quote}

EscapedCrs(crs) ==
  << Quote >> \o
  FlattenSeq([i \in DOMAIN crs |->
                IF crs[i] = Quote THEN << Escape, Quote >> ELSE << crs[i] >>])
  \o << Quote >>

Member(key, value) == << << Quote, key, Quote, ":" >> \o value >>
Members(m) ==
  (IF m.edge_type # "planar" THEN Member("edges", Quoted(m.edge_type))
   ELSE << >>) \o
  (IF m.crs_type \notin {"unknown", "none"}
   THEN Member("crs_type", Quoted(m.crs_type)) ELSE << >>) \o
  (IF m.crs_type # "none"
   THEN Member("crs", IF CrsNeedsEscape(m.crs) THEN EscapedCrs(m.crs)
                      ELSE m.crs)
   ELSE << >>)

SerializeInternal(m) ==
  << "{" >> \o
  FlattenSeq([i \in DOMAIN Members(m) |->
                (IF i > 1 THEN << "," >> ELSE << >>) \o Members(m)[i]])
  \o << "}" >>

(* The size is computed before and apart: every quote and every backslash  *)
(* of a crs that needs escaping counts twice.                              *)
Escapes_None(crs) == 0
Escapes(crs) == Len(SelectSeq(crs, LAMBDA w : w \in {Escape, Quote}))

CalculateSerializedSize(m) ==
  LET edges   == IF m.edge_type # "planar" THEN 10 + Len(m.edge_type) ELSE 0
      crsType == IF m.crs_type \notin {"unknown", "none"}
                 THEN 13 + Len(m.crs_type) ELSE 0
      crs     == IF m.crs_type = "none" THEN 0
                 ELSE IF CrsNeedsEscape(m.crs) THEN 8 + Size(m.crs) + Escapes(m.crs)
                 ELSE 6 + Size(m.crs)
      members == Len(Members(m))
  IN 2 + edges + crsType + crs + (IF members > 1 THEN members - 1 ELSE 0)

(* GeoArrowSchemaSetMetadataInternal stores as many characters as it has   *)
(* computed: the text, cut off or with the rest of the allocation behind.  *)
Written(m) ==
  LET text  == SerializeInternal(m)
      spare == CalculateSerializedSize(m) - Size(text)
  IN CASE spare = 0 -> text
       [] spare > 0 -> text \o [i \in 1 .. spare |-> "?"]
       [] OTHER     -> Front(text)

(* GeoArrowUnescapeCrs: the text a quoted crs stands for. *)
RECURSIVE Unescaped(_)
Unescaped(text) ==
  IF text = << >> THEN << >>
  ELSE IF Head(text) = Escape
  THEN SubSeq(text, 2, 2) \o Unescaped(SubSeq(text, 3, Len(text)))
  ELSE << Head(text) >> \o Unescaped(Tail(text))

UnescapeCrs(crs) ==
  IF At(crs, 1) = Quote THEN Unescaped(SubSeq(crs, 2, Len(crs) - 1)) ELSE crs

(* GeoArrowMetadataSetLonLat *)
CrsWgs84 == << "{", Quote, "type", Quote, ":", Quote, "GeographicCRS", Quote,
               "}" >>
SetLonLat(m) == [m EXCEPT !.crs = CrsWgs84, !.crs_type = "projjson"]
=============================================================================
