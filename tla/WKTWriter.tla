----------------------------- MODULE WKTWriter -----------------------------
(***************************************************************************)
(* wkt_writer.c: the state of a writer of well-known text is a record, and *)
(* every handler of its visitor, given the state, gives a result: the code *)
(* that is returned and the state after it.                                *)
(*                                                                         *)
(* Text is tokens (see WKTTokens), and sizes count tokens.  The stack open *)
(* is level with the arrays geometry_type and i up to it.                  *)
(***************************************************************************)
EXTENDS WKTTokens, LazyValidity, SequencesExt

CONSTANTS
  MaxLevels,     (* levels of geometry_type and i: 32 in the source         *)
  MaxTextSize,   (* the largest offset: 2^31 - 1 in the source              *)
  Unlimited      (* max_element_size_bytes that sets no limit               *)

ASSUME WriterAssumption ==
  MaxLevels \in Nat \ {0} /\ MaxTextSize \in Nat /\ Unlimited \in Int \ Nat

Result(code, w) == [code |-> code, w |-> w]
Done(w)         == Result("ok", w)
Invalid(w)      == Result("EINVAL", w)

Write(w, tokens) == [w EXCEPT !.values = @ \o tokens]

(* WKTWriterCheckLevel *)
LevelFits(w) == Len(w.open) \in 1 .. MaxLevels
InnermostOf(w) == w.open[Len(w.open)]
Outer(w) == IF Len(w.open) > 1 THEN w.open[Len(w.open) - 1] ELSE Frame(FEATURE)
Started(w, type) == [w EXCEPT !.open = Append(@, Frame(type))]
Ended(w) == [w EXCEPT !.open = Front(@)]
CountPart(w) ==
  IF Len(w.open) > 1 THEN [w EXCEPT !.open[Len(w.open) - 1].n = @ + 1] ELSE w

-----------------------------------------------------------------------------
(* GeoArrowWKTWriterInit, and the options GeoArrowWKTWriterInitVisitor     *)
(* hands to the visitor.                                                   *)
WKTWriterInit(flat, limit) ==
  [open |-> << >>, values |-> << >>, offsets |-> << >>, bitmap |-> NoBitmap,
   length |-> 0, nulls |-> 0, from |-> 0, isNull |-> FALSE,
   flat |-> flat, limit |-> limit]

feat_start_wkt(w) ==
  LET v == [w EXCEPT !.open = << >>, !.length = @ + 1, !.isNull = FALSE,
                     !.from = Len(w.values)]
  IN IF Len(v.values) > MaxTextSize THEN Result("EOVERFLOW", v)
     ELSE Done([v EXCEPT !.offsets = Append(@, Len(v.values))])

null_feat_wkt(w) == Done([w EXCEPT !.isNull = TRUE])

(* What separates a part from what is before it. *)
Opening(n) == IF n > 0 THEN << ",", " " >> ELSE << "(" >>

(* The type word is written where the reader cannot know the type. *)
NeedsTypeWord(w) ==
  Len(w.open) = 1 \/ Outer(w).type = GEOMETRYCOLLECTION
DimensionTokens(dims) ==
  IF dims = 1 THEN << >>
  ELSE << " ", CHOOSE s \in DOMAIN DimensionWords : DimensionWords[s] = dims >>
TypeWord(type) == CHOOSE s \in DOMAIN Keywords : Keywords[s] = type
TypeTokens(type, dims) ==
  << TypeWord(type) >> \o DimensionTokens(dims) \o << " " >>

geom_start_wkt(w, type, dims) ==
  LET s == Started(w, type)
      t == IF Len(s.open) > 1 THEN Write(s, Opening(Outer(s).n)) ELSE s
  IN IF ~LevelFits(s) THEN Invalid(s)
     ELSE IF ~NeedsTypeWord(t) THEN Done(CountPart(t))
     ELSE IF type \notin 1 .. 7 THEN Invalid(t)
     ELSE IF dims \notin 1 .. 4 THEN Invalid(Write(t, << TypeWord(type) >>))
     ELSE Done(CountPart(Write(t, TypeTokens(type, dims))))

ring_start_wkt(w) ==
  LET s == Started(w, RING)
  IN IF LevelFits(s) THEN Done(CountPart(Write(s, Opening(Outer(s).n))))
     ELSE Invalid(s)

CoordTokens(x, n) == FlattenSeq([j \in 1 .. n |->
  (IF j = 1 THEN << >> ELSE << " " >>) \o << Numeral(Ordinate(x, j)) >>])

(* The points of a flat multipoint have no parentheses. *)
Bare(w) == w.flat /\ Outer(w).type = MULTIPOINT

(* At the limit, before another coordinate is written. *)
LimitReached(w) == w.limit # Unlimited /\ Len(w.values) - w.from >= w.limit

(* The coordinates after the first: an element over its limit stops in the *)
(* middle of the call, and the coordinates written are not counted.        *)
WriteOther(r, x, n) ==
  IF r.code # "ok" THEN r
  ELSE IF LimitReached(r.w) THEN Result("EAGAIN", r.w)
  ELSE Done(Write(r.w, << ",", " " >> \o CoordTokens(x, n)))
WriteOthers(w, xs, n) ==
  FoldLeft(LAMBDA r, x : WriteOther(r, x, n), Done(w), xs)

FirstOpening(w) ==
  IF InnermostOf(w).n = 0 /\ Bare(w) THEN << >> ELSE Opening(InnermostOf(w).n)

coords_wkt(w, xs, n) ==
  IF xs = << >> THEN Done(w)
  ELSE IF ~LevelFits(w) THEN Invalid(w)
  ELSE LET first == Write(w, FirstOpening(w) \o CoordTokens(Head(xs), n))
           r     == WriteOthers(first, Tail(xs), n)
       IN IF r.code = "ok"
          THEN Done([r.w EXCEPT !.open[Len(w.open)].n = @ + Len(xs)])
          ELSE r

(* The end of a ring and of a geometry. *)
Closing(w, bare) ==
  IF InnermostOf(w).n = 0 THEN << "EMPTY" >>
  ELSE IF bare THEN << >> ELSE << ")" >>
EndOfPart(w, bare) ==
  IF LevelFits(w) THEN Done(Ended(Write(w, Closing(w, bare)))) ELSE Invalid(w)

ring_end_wkt(w) == EndOfPart(w, FALSE)
geom_end_wkt(w) == EndOfPart(w, Bare(w))

(* Mutant: the element keeps what was written past its limit. *)
Truncated_Never(w) == w
Truncated(w) ==
  IF w.limit # Unlimited /\ Len(w.values) - w.from > w.limit
  THEN [w EXCEPT !.values = SubSeq(@, 1, w.from + w.limit)] ELSE w

(* A feature after a null gets its bit and is not truncated. *)
feat_end_wkt(w) ==
  Done(IF w.isNull
       THEN [w EXCEPT !.bitmap = MarkNull(@, w.length), !.nulls = @ + 1]
       ELSE IF w.bitmap.data THEN [w EXCEPT !.bitmap = MarkValid(@)]
       ELSE Truncated(w))

-----------------------------------------------------------------------------
(* GeoArrowWKTWriterFinish: the array that is handed over, and what is     *)
(* left in the writer.                                                     *)
CanFinish(w) == Len(w.values) <= MaxTextSize
WKTWriterFinish(w) ==
  [offsets |-> Append(w.offsets, Len(w.values)), values |-> w.values,
   bitmap |-> w.bitmap, length |-> w.length, nulls |-> w.nulls]
WKTWriterFinished(w) ==
  [w EXCEPT !.offsets = << >>, !.values = << >>, !.bitmap = NoBitmap,
            !.length = 0, !.nulls = 0]

(* The text of row i of an array. *)
TextOfRow(array, i) ==
  SubSeq(array.values, array.offsets[i] + 1, array.offsets[i + 1])

(* The callbacks GeoArrowWKTWriterInitVisitor registers. *)
HandleWKT(w, c) ==
  CASE c.op = "feat_start" -> feat_start_wkt(w)
    [] c.op = "null_feat"  -> null_feat_wkt(w)
    [] c.op = "geom_start" -> geom_start_wkt(w, c.type, c.dims)
    [] c.op = "ring_start" -> ring_start_wkt(w)
    [] c.op = "coords"     -> coords_wkt(w, c.xs, NumDimensions(c.dims))
    [] c.op = "ring_end"   -> ring_end_wkt(w)
    [] c.op = "geom_end"   -> geom_end_wkt(w)
    [] OTHER               -> feat_end_wkt(w)
=============================================================================
