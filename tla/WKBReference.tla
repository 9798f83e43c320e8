---------------------------- MODULE WKBReference ----------------------------
(***************************************************************************)
(* What the words of a row ought to be, stated from the visited feature    *)
(* alone, and the abstract promise of every array writer, RowSink, with    *)
(* the mapping under which the well-known binary writer keeps it.          *)
(***************************************************************************)
EXTENDS WKBWriter, SequencesExt

Sequence(node) == [k \in DOMAIN node.xs |-> CoordWord(node.xs[k], node.dims)]

NodeWords(ns, i) ==
  LET node    == ns[i]
      head    == << HeadWord(node.type, node.dims) >>
      counted == << CountWord(Len(node.xs)) >> \o Sequence(node)
      point   == IF node.xs = << >> THEN << CoordWord(NaN, node.dims) >>
                 ELSE Sequence(node)
  IN CASE node.type = RING       -> counted
       [] node.type = POINT      -> head \o point
       [] node.type = LINESTRING -> head \o counted
       [] OTHER -> head \o << CountWord(Cardinality(Parts(ns, i))) >>

(* The ISO well-known binary of a feature; a null feature has no words. *)
Encoding(ns) == FlattenSeq([i \in DOMAIN ns |-> NodeWords(ns, i)])

-----------------------------------------------------------------------------
(* Rows that are complete: the one being visited is not one yet. *)
CompleteRows == IF Idle THEN length ELSE length - 1

RowWords(i) ==
  SubSeq(values, offsets[i] + 1,
         IF i < Len(offsets) THEN offsets[i + 1] ELSE Len(values))

Decoded ==
  [i \in 1 .. CompleteRows |-> [valid |-> IsValid(validity, i),
                                words |-> RowWords(i)]]

DecodedArray ==
  [i \in 1 .. array.length |->
     [valid |-> IsValid(array.validity, i),
      words |-> SubSeq(array.values, array.offsets[i] + 1,
                       array.offsets[i + 1])]]

(* As long as no feature of the batch was abandoned, every completed row   *)
(* holds exactly the encoding of the feature that was visited, counts      *)
(* included, and is null exactly when the feature was: while later         *)
(* features are being written, backpatched, and marked null.  A batch too  *)
(* large for Finish is exempt: its counts may have wrapped.                *)
RowsEncodeFeatures ==
  failed = 0 /\ Len(values) <= MaxOffset =>
    Decoded = [i \in DOMAIN rows |-> [valid |-> ~rows[i].null,
                                      words |-> Encoding(rows[i].nodes)]]

Sink == INSTANCE RowSink WITH
  pending  <- IF failed = 0 THEN Decoded ELSE << >>,
  finished <- IF array.exact THEN DecodedArray ELSE << >>,
  spoiled  <- failed > 0

(* The writer is an append-only sink of rows: completing a feature appends *)
(* one row and leaves the others alone, visiting one changes none, Finish  *)
(* hands over exactly the pending rows, and a feature that was abandoned   *)
(* spoils no batch after its own.                                          *)
SinkSpec == Sink!Spec
=============================================================================
