------------------------------ MODULE RowSink ------------------------------
(***************************************************************************)
(* What every array writer of geoarrow-c promises its caller.  Features    *)
(* become rows in the order they are completed, a row that is complete is  *)
(* never altered, and Finish hands over the pending rows, all of them and  *)
(* nothing else, and starts an empty batch.  A feature that is abandoned   *)
(* spoils its batch, of which nothing is promised, but no later one.       *)
(***************************************************************************)
EXTENDS Naturals, Sequences

VARIABLES
  pending,   (* rows completed since the last Finish   *)
  finished,  (* rows of the last finished array        *)
  spoiled    (* a feature of this batch was abandoned  *)

Init == pending = << >> /\ finished = << >> /\ spoiled = FALSE

CompleteRow ==
  /\ ~spoiled
  /\ Len(pending') = Len(pending) + 1
  /\ SubSeq(pending', 1, Len(pending)) = pending
  /\ UNCHANGED << finished, spoiled >>

AbandonRow ==
  /\ pending' = << >>
  /\ spoiled' = TRUE
  /\ UNCHANGED finished

FinishBatch ==
  /\ finished' = pending
  /\ pending' = << >>
  /\ spoiled' = FALSE

Next == CompleteRow \/ AbandonRow \/ FinishBatch

Spec == Init /\ [][Next]_<< pending, finished, spoiled >>
=============================================================================
