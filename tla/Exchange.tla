------------------------------ MODULE Exchange ------------------------------
(***************************************************************************)
(* From the description of a column to its arrays: a description is made,  *)
(* exchanged and understood (DataType), and the type that results from it  *)
(* is built and looked at (Building).  The caller has rows of the layout   *)
(* that is meant; the builder is told the type or the schema.              *)
(***************************************************************************)
EXTENDS DataType, Building

vars == << subject, meant, builder, job, sent, batch, product, view >>

Init == DataInit /\ BuildInit

(* The layout of the rows of a job. *)
LayoutOf(w) ==
  IF w.type \in Serialized THEN SerializedLayout(w.type)
  ELSE Layout(GeometryTypeFromType(w.type), DimensionsFromType(w.type),
              CoordTypeFromType(w.type))

Build(type) ==
  /\ \E w \in Work : LayoutOf(w) = meant.layout /\ StartJob(w, type)
  /\ subject' = Refusal /\ meant' = NotMeant

BuildFromType == IsType /\ Build(subject.dt.type)

BuildFromSchema ==
  /\ IsField /\ meant \notin {Unknown, NotMeant}
  /\ SchemaViewInit(subject.field).ok
  /\ Build(SchemaViewInit(subject.field).type)

Next ==
  \/ Idle /\ DataNext /\ UNCHANGED buildVars
  \/ BuildNext /\ UNCHANGED dataVars
  \/ BuildFromType \/ BuildFromSchema

Spec == Init /\ [][Next]_vars
=============================================================================
