---------------------------- MODULE WKTReference ----------------------------
(***************************************************************************)
(* Geometries, what a visitor hears of them, and the text that stands for  *)
(* them: written by recursion over the geometry, not call by call, and so  *)
(* a definition to compare the reader and the writer of text with.         *)
(***************************************************************************)
EXTENDS WKTTokens, SequencesExt

(* A geometry: its coordinates or its parts (rings are LINESTRING parts). *)
G(type, dims, xs, parts) ==
  [type |-> type, dims |-> dims, xs |-> xs, parts |-> parts]
Line(dims, xs)     == G(LINESTRING, dims, xs, << >>)
Pt(dims, xs)       == G(POINT, dims, xs, << >>)
Of(type, dims, ps) == G(type, dims, << >>, ps)
PerPart(g, Op(_))  == FlattenSeq([i \in DOMAIN g.parts |-> Op(g.parts[i])])

RECURSIVE Nodes(_, _)
(* The nodes of a geometry at a level, as a visitor hears of them. *)
Nodes(g, level) ==
  << [Node(g.type, g.dims, level) EXCEPT !.xs = g.xs] >> \o
  PerPart(g, LAMBDA p :
    IF g.type = POLYGON
    THEN << [Node(RING, g.dims, level + 1) EXCEPT !.xs = p.xs] >>
    ELSE Nodes(p, level + 1))

Row(g) == [null |-> FALSE, nodes |-> Nodes(g, 0)]
NullRow == [null |-> TRUE, nodes |-> << >>]

-----------------------------------------------------------------------------
(* A style says where white space is ("none": where it must be; "all":     *)
(* everywhere it may be; "written": where the writer puts it), and whether *)
(* the points of a multipoint go without parentheses of their own.         *)
Word(type) == CHOOSE s \in DOMAIN Keywords : Keywords[s] = type
Spaces(st) == IF st.spaced = "all" THEN << " " >> ELSE << >>
Comma(st)  == Spaces(st) \o << "," >> \o
              (IF st.spaced = "none" THEN << >> ELSE << " " >>)
Closed(st, tokens) ==
  << "(" >> \o Spaces(st) \o tokens \o Spaces(st) \o << ")" >>
Listed(st, n, Op(_)) == FlattenSeq([i \in 1 .. n |->
  (IF i = 1 THEN << >> ELSE Comma(st)) \o Op(i)])
Ordinates(x, d) == FlattenSeq([j \in 1 .. NumDimensions(d) |->
  (IF j = 1 THEN << >> ELSE << " " >>) \o << Numeral(Ordinate(x, j)) >>])

IsEmpty(g) == g.xs = << >> /\ g.parts = << >>
Flat(st, g) == g.type = MULTIPOINT /\ st.flat

RECURSIVE BodyText(_, _)
TaggedText(st, g) ==
  << Word(g.type) >> \o
  (IF g.dims = 1 THEN << >> ELSE << " ", << "Z", "M", "ZM" >>[g.dims - 1] >>) \o
  (IF st.spaced # "none" \/ IsEmpty(g) THEN << " " >> ELSE << >>) \o
  BodyText(st, g)
BodyText(st, g) ==
  LET part(i) ==
        LET p == g.parts[i]
        IN IF g.type = GEOMETRYCOLLECTION THEN TaggedText(st, p)
           ELSE IF Flat(st, g) /\ ~IsEmpty(p) THEN Ordinates(p.xs[1], g.dims)
           ELSE BodyText(st, p)
  IN CASE g.xs # << >> ->
            Closed(st, Listed(st, Len(g.xs), LAMBDA i : Ordinates(g.xs[i], g.dims)))
       [] g.parts # << >> ->
            IF Flat(st, g) THEN << "(" >> \o Listed(st, Len(g.parts), part) \o << ")" >>
            ELSE Closed(st, Listed(st, Len(g.parts), part))
       [] OTHER -> << "EMPTY" >>

RECURSIVE Readable(_, _)
(* The flat form has no place for an empty point: the reader looks at the  *)
(* first point to tell the forms apart and keeps to one of them.           *)
Readable(st, g) ==
  /\ Flat(st, g) => \/ \A i \in DOMAIN g.parts : IsEmpty(g.parts[i])
                    \/ \A i \in DOMAIN g.parts : ~IsEmpty(g.parts[i])
  /\ \A i \in DOMAIN g.parts : Readable(st, g.parts[i])

Styles == [spaced : {"none", "all", "written"}, flat : BOOLEAN]
Compact == [spaced |-> "none", flat |-> FALSE]
=============================================================================
