---------------------------- MODULE ArrayReader ----------------------------
(***************************************************************************)
(* array_reader.c: one reader over arrays of any of the types, with the    *)
(* text and the binary reader it owns.  A visit is given a slice of an     *)
(* array and makes the calls of its elements one after the other; the      *)
(* readers keep their state from one visit to the next.                    *)
(*                                                                         *)
(* Sources is the set of arrays that are visited, each with the slice to   *)
(* visit and what it holds (rows, readable and whole, which only the       *)
(* properties use).                                                        *)
(***************************************************************************)
EXTENDS WKTReader, WKBReader, ArrayView

CONSTANTS
  Sources,    (* arrays with the slice to visit                            *)
  Reused,     (* bound: sources after and of which a reader is used again  *)
  MaxVisits   (* bound: visits with one reader                             *)

VARIABLES source, visits
vars == << visitVars, wktVars, wkbVars, source, visits >>

NoSource == [type |-> "none"]

(* ArrowArrayViewGetStringUnsafe and ...GetBytesUnsafe of nanoarrow. *)
ArrowItems(array) == [k \in 0 .. Len(array.rows) - 1 |-> array.rows[k + 1]]

(* offsets[0] and the data buffer of a serialized array. *)
ItemsOf(array) ==
  [k \in 0 .. Len(array.offsets) - 2 |->
     SubSeq(array.data, array.offsets[k + 1] + 1, array.offsets[k + 2])]

NullFeature == << CallFeatStart, CallNullFeat, CallFeatEnd >>

(* Element i of the slice, through the reader's own view of the offsets or *)
(* through an ArrowArrayView (large and view types).                       *)
VisitItem(reader, items, i) ==
  LET array == source.array
      k     == array.offset + source.offset + i
  IN IF array.bitmap = << >> \/ array.bitmap[k + 1] = 1
     THEN << << reader, items[k] >> >> ELSE NullFeature

VisitWKT(i)      == VisitItem("WKTReaderVisit", ItemsOf(source.array), i)
VisitWKB(i)      == VisitItem("WKBReaderVisit", ItemsOf(source.array), i)
VisitWKTArrow(i) == VisitItem("WKTReaderVisit", ArrowItems(source.array), i)
VisitWKBArrow(i) == VisitItem("WKBReaderVisit", ArrowItems(source.array), i)

CanVisit == source.type = "native" => CanVisitNative(SetArray(source.array))

VisitRow(i) ==
  CASE source.type = "wkt"       -> VisitWKT(i)
    [] source.type = "wkb"       -> VisitWKB(i)
    [] source.type = "wkt_arrow" -> VisitWKTArrow(i)
    [] source.type = "wkb_arrow" -> VisitWKBArrow(i)
    [] OTHER -> VisitNativeFeature(SetArray(source.array), source.offset, i)

-----------------------------------------------------------------------------
Init ==
  /\ todo = << >> /\ seen = NothingSeen /\ outcome = "ok"
  /\ WKTReaderInit /\ WKBReaderInit
  /\ source = NoSource /\ visits = 0

(* The caller sets an array and visits a slice of it. *)
Visitable == IF visits = 0 THEN Sources
           ELSE IF source \in Reused THEN Reused ELSE {}

Visit ==
  /\ outcome # "visiting"
  /\ visits < MaxVisits
  /\ source' \in Visitable
  /\ visits' = visits + 1
  /\ outcome' = "visiting"
  /\ todo' = << << "VisitRows", 0 >> >>
  /\ seen' = NothingSeen /\ overran' = FALSE
  /\ UNCHANGED << wktVars, bytes, remaining, needSwapping, viewVars >>

(* The loop over the elements of the slice.  A box array of more than two  *)
(* dimensions has an element that is refused, unless it has no element.    *)
VisitRows ==
  /\ At("VisitRows")
  /\ LET i == Now[2]
     IN IF i = source.length THEN Continue(<< >>)
        ELSE IF ~CanVisit THEN GiveUp
        ELSE Continue(VisitRow(i) \o << << "VisitRows", i + 1 >> >>)
  /\ UNCHANGED << wktVars, wkbVars >>

VisitReturns ==
  /\ outcome = "visiting" /\ todo = << >>
  /\ outcome' = "ok"
  /\ UNCHANGED << todo, seen, wktVars, wkbVars >>

Proceed ==
  \/ VisitRows \/ VisitReturns
  \/ (CallVisitor \/ CallbackFails) /\ UNCHANGED << wktVars, wkbVars >>
  \/ WKTReaderNext /\ UNCHANGED wkbVars
  \/ WKBReaderNext /\ UNCHANGED wktVars

Next ==
  \/ Visit
  \/ Proceed /\ UNCHANGED << source, visits >>

(* The reader runs in its caller's thread: once called, it keeps running. *)
Spec == Init /\ [][Next]_vars /\ WF_vars(Proceed /\ UNCHANGED << source, visits >>)

-----------------------------------------------------------------------------
(* The calls of every reader follow VisitorProtocol, which the writers     *)
(* rely on: a call never arrives out of order, and a reader that fails     *)
(* makes no more calls for the feature.  (There, coordinates carry the     *)
(* number of their feature.)                                               *)
Numbered(ns, i) == [j \in DOMAIN ns |->
  [ns[j] EXCEPT !.xs = [k \in DOMAIN @ |-> i]]]
Protocol == INSTANCE VisitorProtocol WITH
  GeomTypes <- 1 .. 7, Dims <- 1 .. 4, MaxDepth <- 8, MaxParts <- 8,
  MaxChunk <- 5, MaxNodes <- 16, MaxFeatures <- 4, MaxFailures <- 1,
  open <- seen.open,
  nodes <- Numbered(seen.nodes, Len(seen.rows) + 1),
  rows <- [i \in DOMAIN seen.rows |->
             [seen.rows[i] EXCEPT !.nodes = Numbered(@, i)]],
  failed <- seen.failed
CallsFollowProtocol == Protocol!ProtocolInit /\ [][Protocol!ProtocolNext]_(Protocol!protocolVars)

(* A visit that succeeds has visited exactly the rows of the slice: every  *)
(* geometry, ring and coordinate once and in order, nulls included,        *)
(* whatever the spacing, byte order, chunking, offsets and strides of the  *)
(* source are, and whatever the reader was used for before.  Text that is  *)
(* not well formed never succeeds, and neither does binary as long as the  *)
(* reader stays inside its rows, as it does for every row that is whole.   *)
(* A row that is cut may pass the checks, which do not count coordinates   *)
(* (wkb_reader.c:73): then words that follow the row are read as if they   *)
(* belonged to it, and the visit may succeed.  Nothing is claimed of that. *)
VisitedExactly ==
  /\ source.type # "none" /\ source.whole => ~overran
  /\ outcome = "ok" /\ visits > 0 /\ ~overran =>
       source.whole /\ seen.rows = source.rows

(* What a visitor has heard of is right even if the visit fails later: the *)
(* completed rows are the first rows of the slice, and the row with the    *)
(* error is among them only if all of it was visited and input follows it  *)
(* (wkt_reader.c:525-531), or the reader has read past its end.  In that   *)
(* case too the rows before it are the rows of the slice.                  *)
RowsBeforeError ==
  visits > 0 =>
    /\ ~overran => Len(seen.rows) <= source.readable
    /\ \A i \in DOMAIN seen.rows :
         i <= source.readable => seen.rows[i] = source.rows[i]

(* Every visit comes to an end. *)
VisitsEnd == outcome = "visiting" ~> outcome # "visiting"
=============================================================================
