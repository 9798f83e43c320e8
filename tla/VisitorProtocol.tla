-------------------------- MODULE VisitorProtocol --------------------------
(***************************************************************************)
(* The caller's side of struct GeoArrowVisitor: the order in which the     *)
(* readers (well-known text, well-known binary, native arrays, geometry    *)
(* views) call a visitor, feature by feature.  A writer module EXTENDS     *)
(* this one and conjoins each Read... action with the handler the writer   *)
(* registers for that callback, so that one step is one complete call.     *)
(*                                                                         *)
(* open is the stack of started and not yet ended features, geometries and *)
(* rings, innermost last, with the number of parts each received so far.   *)
(* nodes, rows and failed are history: what the calls said about the       *)
(* current feature, the features completed since the last Finish, and how  *)
(* many features were abandoned since the last Finish.                     *)
(***************************************************************************)
EXTENDS GeometryTypes

CONSTANTS
  GeomTypes,    (* geometry types the readers meet, a subset of 1 .. 7     *)
  Dims,         (* dimensions the readers meet, a subset of 1 .. 4         *)
  MaxDepth,     (* bound: nested geometries and rings of a feature         *)
  MaxParts,     (* bound: parts of a geometry or coordinates of a sequence *)
  MaxChunk,     (* bound: coordinates of one coords() call                 *)
  MaxNodes,     (* bound: geometries and rings of a feature                *)
  MaxFeatures,  (* bound: features of a batch                              *)
  MaxFailures   (* bound: abandoned features of a batch                    *)

ASSUME ProtocolAssumption ==
  /\ GeomTypes \subseteq 1 .. 7
  /\ Dims \subseteq 1 .. 4
  /\ MaxDepth \in Nat /\ MaxParts \in Nat /\ MaxChunk \in Nat
  /\ MaxNodes \in Nat /\ MaxFeatures \in Nat /\ MaxFailures \in Nat

VARIABLES
  open,   (* stack of frames, << >> outside of a feature                   *)
  nodes,  (* geometries and rings of the current feature, in visited order *)
  rows,   (* features completed since the last Finish                      *)
  failed  (* features abandoned since the last Finish                      *)

protocolVars == << open, nodes, rows, failed >>

-----------------------------------------------------------------------------
(* Types of the frames of open, of the nodes and of the completed rows. *)
FrameSet   == [type : NULLFEATURE .. GEOMETRYCOLLECTION, n : Nat]
NodeSet    == [type : RING .. GEOMETRYCOLLECTION, dims : 1 .. 4, level : Nat,
               xs : Seq(Nat)]
FeatureSet == [null : BOOLEAN, nodes : Seq(NodeSet)]

(* What a feature or a container may hold: anything.  The well-known       *)
(* binary reader and the geometry view do not compare the type of a part   *)
(* with the type of its container.                                         *)
MayContain(type) == IF type \in Containers \cup {FEATURE} THEN GeomTypes ELSE {}

Top  == open[Len(open)]
Pop  == SubSeq(open, 1, Len(open) - 1)
Depth == Len(open) - 1      (* open geometries and rings *)

(* A POINT has at most one coordinate and a feature exactly one geometry. *)
Capacity(type) == IF type \in {POINT, FEATURE} THEN 1 ELSE MaxParts

(* The stack with n more parts counted on its innermost frame. *)
Counted(n) == [open EXCEPT ![Len(open)].n = @ + n]

(* The coordinates of the current feature carry its number in the batch. *)
Label == Len(rows) + failed + 1

InGeometry == Len(open) > 1
Idle == open = << >>

ProtocolTypeOK ==
  /\ open \in Seq(FrameSet)
  /\ nodes \in Seq(NodeSet)
  /\ rows \in Seq(FeatureSet)
  /\ failed \in Nat

(* The calls nest: a feature frame at the bottom and geometries or rings   *)
(* above it, of which at least one has been visited if one is open.        *)
Nesting ==
  /\ open # << >> => open[1].type \in {FEATURE, NULLFEATURE}
  /\ \A i \in 2 .. Len(open) : open[i].type \in RING .. GEOMETRYCOLLECTION
  /\ InGeometry => nodes # << >> /\ open[1].type = FEATURE

ProtocolInit ==
  /\ open = << >> /\ nodes = << >> /\ rows = << >> /\ failed = 0

-----------------------------------------------------------------------------
ReadFeatStart ==
  /\ Idle
  /\ Len(rows) < MaxFeatures
  /\ open' = << Frame(FEATURE) >>
  /\ nodes' = << >>
  /\ UNCHANGED << rows, failed >>

ReadNullFeat ==
  /\ open = << Frame(FEATURE) >>
  /\ open' = << Frame(NULLFEATURE) >>
  /\ UNCHANGED << nodes, rows, failed >>

ReadPartStart(type, dims) ==
  /\ Depth < MaxDepth
  /\ Len(nodes) < MaxNodes
  /\ Top.n < Capacity(Top.type)
  /\ open' = Append(Counted(1), Frame(type))
  /\ nodes' = Append(nodes, Node(type, dims, Depth))
  /\ UNCHANGED << rows, failed >>

ReadGeomStart(type, dims) ==
  /\ ~Idle
  /\ type \in MayContain(Top.type)
  /\ ReadPartStart(type, dims)

ReadRingStart ==
  /\ InGeometry
  /\ Top.type = POLYGON
  /\ ReadPartStart(RING, nodes[Len(nodes)].dims)

(* A sequence may arrive in several chunks, and an empty one as a chunk of *)
(* no coordinates.  The innermost sequence is always the last node.        *)
ReadCoords(n) ==
  /\ InGeometry
  /\ HoldsCoords(Top.type)
  /\ Top.n + n <= Capacity(Top.type)
  /\ open' = Counted(n)
  /\ nodes' = [nodes EXCEPT ![Len(nodes)].xs = @ \o [i \in 1 .. n |-> Label]]
  /\ UNCHANGED << rows, failed >>

ReadPartEnd ==
  /\ open' = Pop
  /\ UNCHANGED << nodes, rows, failed >>

ReadRingEnd == InGeometry /\ Top.type = RING /\ ReadPartEnd

ReadGeomEnd == InGeometry /\ Top.type # RING /\ ReadPartEnd

(* Every non-null feature has one geometry; a null feature has none. *)
FeatureComplete ==
  /\ Len(open) = 1
  /\ Top.type = NULLFEATURE \/ Top.n = 1

ReadFeatEnd ==
  /\ FeatureComplete
  /\ open' = << >>
  /\ nodes' = << >>
  /\ rows' = Append(rows, [null |-> Top.type = NULLFEATURE, nodes |-> nodes])
  /\ UNCHANGED failed

(* A callback failed, or the reader met an error in its source: the reader *)
(* returns at once, and feat_end is not called for this feature.           *)
Abandon ==
  /\ failed < MaxFailures
  /\ open' = << >>
  /\ nodes' = << >>
  /\ failed' = failed + 1
  /\ UNCHANGED rows

(* The batch was handed over: the history starts again. *)
BatchDone ==
  /\ Idle
  /\ rows' = << >>
  /\ failed' = 0
  /\ UNCHANGED << open, nodes >>

-----------------------------------------------------------------------------
(* The calls of a reader, whatever writer it drives. *)
ProtocolNext ==
  \/ ReadFeatStart \/ ReadNullFeat
  \/ \E type \in GeomTypes, dims \in Dims : ReadGeomStart(type, dims)
  \/ ReadRingStart
  \/ \E n \in 0 .. MaxChunk : ReadCoords(n)
  \/ ReadRingEnd \/ ReadGeomEnd \/ ReadFeatEnd
  \/ Abandon \/ BatchDone
=============================================================================
