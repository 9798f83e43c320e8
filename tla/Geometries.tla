----------------------------- MODULE Geometries -----------------------------
(***************************************************************************)
(* The life of a geometry: recorded by the visitor of geometry.c or read   *)
(* from well-known binary, perhaps copied while its source lives on, and   *)
(* visited.  One caller does one thing after the other; calls of the       *)
(* visitor that is being driven succeed.                                   *)
(***************************************************************************)
EXTENDS GeometryBuilder, WKBReader

CONSTANT Rows   (* rows of well-known binary to read, with what they mean *)

VARIABLES
  copyRoot,   (* the nodes of the copy, and where their coordinates start   *)
  copyCoords, (* in its own memory (geometry.c:35-152)                      *)
  meant,      (* history: the row that is being visited                    *)
  copied      (* history: the row that was copied                          *)

copyVars == << copyRoot, copyCoords >>
readVars == << visitVars, wkbVars, meant >>
allVars  == << protocolVars, builderVars, readVars, copyVars, copied >>

-----------------------------------------------------------------------------
(* Deep copies, and the functions on whole node lists that they use        *)
(* (geoarrow_type_inline.h).                                               *)
IsSequence(node) == node.type \in {POINT, LINESTRING}

(* GeoArrowGeometryViewNumCoords *)
NumCoords(geom) ==
  FoldSeq(LAMBDA node, n : IF IsSequence(node) THEN n + node.size ELSE n, 0, geom)

NativeWord(x) == [kind |-> "coord", order |-> NativeEndian, v |-> x]

(* Where the coordinates of node i go: after those of the nodes before it. *)
CursorAt(geom, i) == NumCoords(SubSeq(geom, 1, i - 1))

(* The nodes as they are, flags included, their coordinates written one    *)
(* after the other in native byte order.                                   *)
DeepCopy(geom) ==
  /\ copyRoot' = [i \in DOMAIN geom |->
       [node |-> [geom[i] EXCEPT !.xs = << >>], start |-> CursorAt(geom, i)]]
  /\ copyCoords' = FlattenSeq([i \in DOMAIN geom |->
       IF ~IsSequence(geom[i]) THEN << >>
       ELSE [k \in 1 .. geom[i].size |->
               NativeWord(WriteSequence(geom[i], 1, geom[i].size)[k])]])

(* GeoArrowGeometryAsView of the copy. *)
CopyAsView ==
  [i \in DOMAIN copyRoot |->
     LET node == copyRoot[i].node
         from == copyRoot[i].start
     IN IF ~IsSequence(node) THEN node
        ELSE [node EXCEPT !.xs = SubSeq(copyCoords, from + 1, from + node.size)]]

CopyInit == copyRoot = << >> /\ copyCoords = << >>

-----------------------------------------------------------------------------
NoRow == [null |-> TRUE, nodes |-> << >>]

(* GeoArrowGeometryAsView of the builder's geometry: what its pointers     *)
(* lead to, which is nothing when they lead to memory that was released.   *)
Pointed(node, k) ==
  LET w  == NumDimensions(node.dims)
      at == node.start.offset + (k - 1) * w
  IN IF /\ node.start.allocation = allocation
        /\ at + w <= Len(ordinates)
        /\ \A j \in 1 .. w : ordinates[at + j] = ordinates[at + 1]
     THEN ordinates[at + 1] ELSE Garbage
BuiltAsView ==
  [i \in DOMAIN root |->
     GeometryNode(root[i].type, root[i].dims, root[i].level, root[i].size,
       IF IsSequence(root[i])
       THEN [k \in 1 .. root[i].size |-> NativeWord(Pointed(root[i], k))]
       ELSE << >>)]

(* The row that was recorded last, its coordinates numbered. *)
NumberedCoords(ns) ==
  [i \in DOMAIN ns |->
     LET before == FoldSeq(LAMBDA node, n : n + Len(node.xs), 0, SubSeq(ns, 1, i - 1))
     IN [ns[i] EXCEPT !.xs = [k \in DOMAIN @ |-> before + k]]]
LastRow == [rows[Len(rows)] EXCEPT !.nodes = NumberedCoords(@)]

Free == outcome = "idle"
HasBuilt == Free /\ Idle /\ built

Init ==
  /\ ProtocolInit /\ BuilderInit /\ CopyInit /\ WKBReaderInit
  /\ todo = << >> /\ seen = NothingSeen /\ outcome = "idle"
  /\ meant = NoRow /\ copied = NoRow

-----------------------------------------------------------------------------
Build == Free /\ BuilderNext /\ UNCHANGED << readVars, copyVars, copied >>

Begin(row, steps) ==
  /\ outcome' = "visiting"
  /\ todo' = steps
  /\ seen' = NothingSeen
  /\ meant' = row

VisitBuilt ==
  /\ HasBuilt
  /\ Begin(LastRow, << Step("GeometryViewVisit") >>)
  /\ view' = BuiltAsView
  /\ UNCHANGED << protocolVars, builderVars, cursorVars, unvisited, copyVars, copied >>

ReadRow ==
  /\ Free /\ Idle
  /\ \E r \in Rows : Begin(r.row, << << "WKBReaderRead", r.bytes >> >>)
  /\ UNCHANGED << protocolVars, builderVars, wkbVars, copyVars, copied >>

CopyBuilt ==
  /\ HasBuilt
  /\ DeepCopy(BuiltAsView)
  /\ copied' = LastRow
  /\ UNCHANGED << protocolVars, builderVars, readVars >>

CopyRead ==
  /\ outcome = "ok" /\ seen = NothingSeen
  /\ DeepCopy(view)
  /\ copied' = meant
  /\ UNCHANGED << protocolVars, builderVars, readVars >>

VisitCopy ==
  /\ Free /\ Idle /\ copyRoot # << >>
  /\ Begin(copied, << Step("GeometryViewVisit") >>)
  /\ view' = CopyAsView
  /\ UNCHANGED << protocolVars, builderVars, cursorVars, unvisited, copyVars, copied >>

Proceed ==
  /\ \/ CallVisitor /\ UNCHANGED wkbVars
     \/ WKBReaderNext
  /\ UNCHANGED << protocolVars, builderVars, meant, copyVars, copied >>

VisitReturns ==
  /\ outcome = "visiting" /\ todo = << >>
  /\ outcome' = "ok"
  /\ UNCHANGED << todo, seen, protocolVars, builderVars, wkbVars, meant, copyVars, copied >>

(* The caller is done with the geometry. *)
Forget ==
  /\ outcome \in {"ok", "error"}
  /\ outcome' = "idle" /\ seen' = NothingSeen /\ meant' = NoRow
  /\ view' = << >> /\ unvisited' = 0 /\ bytes' = << >> /\ remaining' = 0
  /\ needSwapping' = FALSE /\ overran' = FALSE
  /\ UNCHANGED << todo, protocolVars, builderVars, copyVars, copied >>

Next ==
  \/ Build \/ VisitBuilt \/ ReadRow \/ CopyBuilt \/ CopyRead \/ VisitCopy
  \/ Proceed \/ VisitReturns \/ Forget

Spec == Init /\ [][Next]_allVars

-----------------------------------------------------------------------------
(* No node ever points into memory that was released, at any moment while  *)
(* a feature is recorded, and every sequence starts inside the buffer      *)
(* (geometry.c:174-186).                                                   *)
PointersCurrent ==
  \A i \in DOMAIN root :
    root[i].start # EmptyPointCoords =>
      /\ root[i].start.allocation = allocation
      /\ root[i].start.offset <= Len(ordinates)
      /\ Len(ordinates) <= capacity

(* A geometry with parts but without a coordinate.  feat_end takes it for  *)
(* one without a sequence (geometry.c:355-357) and leaves its sizes at 0.  *)
Hollow(ns) ==
  /\ Len(ns) > 1
  /\ \A i \in DOMAIN ns : ns[i].xs = << >>

(* Visiting a geometry repeats the calls it was recorded from, and so does *)
(* visiting a deep copy of it, even after the original was reused for      *)
(* another feature.  A visit fails only for the geometry of a null feature *)
(* and for a hollow one: MULTIPOINT (EMPTY), a polygon whose rings are     *)
(* empty and collections of such are recorded with all sizes 0, so that a  *)
(* visit finds nodes left over (geometry.c:504-507).                       *)
VisitsRepeat ==
  /\ outcome = "ok" /\ seen # NothingSeen => seen.rows = << meant >>
  /\ outcome = "error" => meant.null \/ Hollow(meant.nodes)

(* What GeoArrowGeometryDeepCopy promises: "Copies nodes and coords from   *)
(* src into a previously initialized GeoArrowGeometry" (geoarrow.h:336).   *)
CopyHasCoords ==
  outcome = "ok" /\ seen # NothingSeen /\ meant = copied => seen.rows = << copied >>
=============================================================================
