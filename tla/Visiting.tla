------------------------------ MODULE Visiting ------------------------------
(***************************************************************************)
(* A reader at work.  The readers of geoarrow-c are recursive functions    *)
(* that call a visitor as they go and return at the first error.  Their    *)
(* control stack is todo: what the functions in progress have still to do, *)
(* next first.  A module for a reader EXTENDS this one and says, function  *)
(* by function, what replaces a call of it on the stack.                   *)
(*                                                                         *)
(* seen is what a visitor that writes down everything it is told has heard *)
(* since the visit began, in the terms of VisitorProtocol.                 *)
(***************************************************************************)
EXTENDS GeometryTypes

VARIABLES
  todo,      (* steps still to do, the next one first                      *)
  seen,      (* what the visitor was told in this visit                    *)
  outcome    (* "visiting", "ok" or "error"                                *)

visitVars == << todo, seen, outcome >>

NothingSeen == [open |-> << >>, nodes |-> << >>, rows |-> << >>, failed |-> 0]

-----------------------------------------------------------------------------
(* Steps are tuples whose first component names the function; a step       *)
(* "call" is a callback of the visitor.                                    *)
Step(name) == << name >>
Callback(op, type, dims, xs) ==
  << "call", [op |-> op, type |-> type, dims |-> dims, xs |-> xs] >>

CallFeatStart           == Callback("feat_start", RING, 1, << >>)
CallNullFeat            == Callback("null_feat", RING, 1, << >>)
CallGeomStart(type, dims) == Callback("geom_start", type, dims, << >>)
CallRingStart           == Callback("ring_start", RING, 1, << >>)
CallCoords(xs)          == Callback("coords", RING, 1, xs)
CallRingEnd             == Callback("ring_end", RING, 1, << >>)
CallGeomEnd             == Callback("geom_end", RING, 1, << >>)
CallFeatEnd             == Callback("feat_end", RING, 1, << >>)

Now  == Head(todo)
Rest == Tail(todo)
At(name) == todo # << >> /\ Now[1] = name

(* The function at the top of the stack is replaced by what it calls. *)
Continue(steps) == todo' = steps \o Rest /\ UNCHANGED << seen, outcome >>

-----------------------------------------------------------------------------
Innermost(s) == Len(s.open)
WithPart(s, frame, node) ==
  [s EXCEPT !.open = Append([@ EXCEPT ![Innermost(s)].n = @ + 1], frame),
            !.nodes = Append(@, node)]
WithoutInnermost(s) == [s EXCEPT !.open = SubSeq(@, 1, Len(@) - 1)]
LastDims(s) == s.nodes[Len(s.nodes)].dims

(* What a visitor that writes everything down knows after call c. *)
Hear(s, c) ==
  CASE c.op = "feat_start" ->
         [s EXCEPT !.open = << Frame(FEATURE) >>, !.nodes = << >>]
    [] c.op = "null_feat"  -> [s EXCEPT !.open = << Frame(NULLFEATURE) >>]
    [] c.op = "geom_start" ->
         WithPart(s, Frame(c.type), Node(c.type, c.dims, Innermost(s) - 1))
    [] c.op = "ring_start" ->
         WithPart(s, Frame(RING), Node(RING, LastDims(s), Innermost(s) - 1))
    [] c.op = "coords" ->
         [s EXCEPT !.open[Innermost(s)].n = @ + Len(c.xs),
                   !.nodes[Len(s.nodes)].xs = @ \o c.xs]
    [] c.op = "feat_end" ->
         [s EXCEPT !.open = << >>, !.nodes = << >>,
                   !.rows = Append(@, [null |-> s.open[1].type = NULLFEATURE,
                                       nodes |-> s.nodes])]
    [] OTHER -> WithoutInnermost(s)   (* ring_end, geom_end *)

(* The function in progress returns an error, and so do all that called it. *)
GiveUp ==
  /\ outcome' = "error"
  /\ todo' = << >>
  /\ seen' = IF seen.open = << >> THEN seen
             ELSE [seen EXCEPT !.open = << >>, !.nodes = << >>, !.failed = @ + 1]

Fail(vs) == GiveUp /\ UNCHANGED vs

CallVisitor ==
  /\ At("call")
  /\ seen' = Hear(seen, Now[2])
  /\ todo' = Rest
  /\ UNCHANGED outcome

(* Any callback may fail; every reader returns its error code at once. *)
CallbackFails == At("call") /\ GiveUp
=============================================================================
