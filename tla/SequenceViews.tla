--------------------------- MODULE SequenceViews ---------------------------
(***************************************************************************)
(* hpp/array_util.hpp: C++ views of native arrays.  A sequence of lists    *)
(* has the sequence that its offsets point into as its child; a sequence   *)
(* of coordinates is the innermost.  A slice only moves offset and length. *)
(* An array is a sequence and a validity bitmap.                           *)
(***************************************************************************)
EXTENDS NativeArrays

(* InitFrom: the sequence at level l of an array view, with the lengths    *)
(* the levels of the array have.                                           *)
CoordSequence(av, lengths, l) ==
  [offset |-> av.offset[l], length |-> lengths[l],
   values |-> av.values, stride |-> av.stride]

RECURSIVE SequenceInit(_, _, _)
SequenceInit(av, lengths, l) ==
  IF l = Len(av.offset) THEN CoordSequence(av, lengths, l)
  ELSE [offset  |-> av.offset[l], length |-> lengths[l],
        offsets |-> av.offsets[l],
        child   |-> SequenceInit(av, lengths, l + 1)]

ArrayInit(av, lengths) ==
  [value |-> SequenceInit(av, lengths, 1), validity |-> av.bitmap,
   type  |-> av.type, dims |-> av.dims]

IsList(s) == "child" \in DOMAIN s

Coord(s, i) ==
  [j \in DOMAIN s.values |->
     s.values[j].buffer[s.values[j].start + (s.offset + i) * s.stride]]

Slice(s, offset, length) ==
  [s EXCEPT !.offset = @ + offset, !.length = length]

(* UpdateChild: element i of a sequence of lists. *)
UpdateChild_NoChildOffset(s, i) ==
  [s.child EXCEPT !.offset = s.offsets[s.offset + i + 1],
                  !.length = s.offsets[s.offset + i + 2]
                             - s.offsets[s.offset + i + 1]]
UpdateChild(s, i) ==
  [s.child EXCEPT !.offset = @ + s.offsets[s.offset + i + 1],
                  !.length = s.offsets[s.offset + i + 2]
                             - s.offsets[s.offset + i + 1]]

ValidChildElements(s) ==
  IF s.length = 0 THEN Slice(s.child, 0, 0)
  ELSE LET first == s.offsets[s.offset + 1]
       IN Slice(s.child, first, s.offsets[s.offset + s.length + 1] - first)

-----------------------------------------------------------------------------
(* CoordCast: x, y, z and m of a coordinate, then those of dimensions dst. *)
CoordCast(coord, src, dst) ==
  LET x == coord[1]
      y == coord[2]
      z == IF src \in {2, 4} THEN coord[3] ELSE NaN
      m == CASE src = 3 -> coord[3] [] src = 4 -> coord[4] [] OTHER -> NaN
  IN CASE dst = src -> coord
       [] dst = 1   -> << x, y >>
       [] dst = 2   -> << x, y, z >>
       [] dst = 3   -> << x, y, m >>
       [] OTHER     -> << x, y, z, m >>

Items(s) == [i \in 1 .. s.length |-> i - 1]

(* What a function is called with, call by call. *)
RECURSIVE SequenceVertices(_)
SequenceVertices(s) ==
  IF IsList(s) THEN SequenceVertices(ValidChildElements(s))
  ELSE [i \in DOMAIN Items(s) |-> Coord(s, i - 1)]

RECURSIVE SequenceEdges(_)
SequenceEdges(s) ==
  IF IsList(s)
  THEN FlattenSeq([i \in DOMAIN Items(s) |-> SequenceEdges(UpdateChild(s, i - 1))])
  ELSE [i \in 1 .. s.length - 1 |-> << Coord(s, i - 1), Coord(s, i) >>]

(* Element i of an array's sequence: a list, or one coordinate. *)
Element(s, i) == IF IsList(s) THEN UpdateChild(s, i) ELSE Slice(s, i, 1)

IsValid(a, i) ==
  a.validity = << >> \/ a.validity[a.value.offset + i + 1] = 1

VisitValid(a, Visited(_)) ==
  IF a.validity = << >> THEN Visited(a.value)
  ELSE FlattenSeq([i \in DOMAIN Items(a.value) |->
                     IF IsValid(a, i - 1) THEN Visited(Element(a.value, i - 1))
                     ELSE << >>])

Vertices(a) == VisitValid(a, SequenceVertices)
VisitVertices(a, dst) ==
  [k \in DOMAIN Vertices(a) |-> CoordCast(Vertices(a)[k], a.dims, dst)]

(* Points and multipoints have an edge from every point to itself. *)
VisitEdges(a) ==
  IF a.type \in {POINT, MULTIPOINT}
  THEN [k \in DOMAIN Vertices(a) |-> << Vertices(a)[k], Vertices(a)[k] >>]
  ELSE VisitValid(a, SequenceEdges)

SliceArray(a, offset, length) == [a EXCEPT !.value = Slice(@, offset, length)]

(* A box has the values of its lower, then those of its upper bound. *)
Bound(a, from) ==
  [a EXCEPT !.type = POINT,
            !.value.values = SubSeq(@, from + 1, from + Len(@) \div 2)]
LowerBound(a) == Bound(a, 0)
UpperBound(a) == Bound(a, Len(a.value.values) \div 2)

(* BinarySequence: blob i of a serialized array. *)
Blob(s, i) == SubSeq(s.data, s.offsets[s.offset + i + 1] + 1,
                             s.offsets[s.offset + i + 2])
=============================================================================
