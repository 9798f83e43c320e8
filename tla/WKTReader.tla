----------------------------- MODULE WKTReader -----------------------------
(***************************************************************************)
(* wkt_reader.c.  text is what is left of the input, as a sequence of      *)
(* tokens: words, numbers, the three punctuation characters, and " " for   *)
(* white space of any length.  cache and width are the coordinates read    *)
(* and not yet passed on, and the number of ordinates of each; both belong *)
(* to the reader and survive a visit that fails.                           *)
(***************************************************************************)
EXTENDS Visiting, WKTTokens

CONSTANT CacheSize    (* COORD_CACHE_SIZE_COORDS, 64 in the source *)
ASSUME CacheAssumption == CacheSize \in Nat \ {0}

VARIABLES text, cache, width
wktVars == << text, cache, width >>

SkipWhitespace(t) == IF t # << >> /\ Head(t) = " " THEN Tail(t) ELSE t
PeekChar(t) == IF t = << >> THEN "end" ELSE Head(t)

(* What is left after a coordinate of n ordinates: one number, and n - 1   *)
(* times white space and a number.                                         *)
StartsWithCoordinate(t, n) ==
  /\ Len(t) >= 2 * n - 1
  /\ \A i \in 1 .. 2 * n - 1 :
       IF i % 2 = 1 THEN t[i] \in DOMAIN FromChars ELSE t[i] = " "
After(t, n) == SubSeq(t, n + 1, Len(t))

-----------------------------------------------------------------------------
FlushCoordCache ==
  /\ At("FlushCoordCache")
  /\ cache' = << >>
  /\ Continue(IF cache = << >> THEN << >> ELSE << CallCoords(cache) >>)
  /\ UNCHANGED << text, width >>

ReadCoordinate ==
  /\ At("ReadCoordinate")
  /\ IF Len(cache) = CacheSize
     THEN /\ cache' = << >>
          /\ Continue(<< CallCoords(cache), Now >>)
          /\ UNCHANGED << text, width >>
     ELSE IF StartsWithCoordinate(text, width)
     THEN /\ cache' = Append(cache, FromChars[text[1]])
          /\ text' = After(text, 2 * width - 1)
          /\ Continue(<< >>)
          /\ UNCHANGED width
     ELSE Fail(wktVars)

AssertWordEmpty(t) ==
  IF PeekChar(t) = "EMPTY"
  THEN text' = Tail(t) /\ Continue(<< >>) /\ UNCHANGED << cache, width >>
  ELSE Fail(wktVars)

(* Every Read... function that follows a type word has this shape: EMPTY,  *)
(* or one or more items in parentheses.  The loop over the items that      *)
(* follow the first is a step of its own, with the item and what is done   *)
(* before the closing parenthesis is skipped.                              *)
Items(item, last) == item \o << << "more", item, last >> >>
Parenthesised(name, item, last) ==
  /\ At(name)
  /\ LET t == SkipWhitespace(text)
     IN IF PeekChar(t) = "("
        THEN /\ text' = SkipWhitespace(Tail(t))
             /\ Continue(Items(item, last))
             /\ UNCHANGED << cache, width >>
        ELSE AssertWordEmpty(t)

(* Neither a parenthesis nor a comma: GeoArrowWKTReaderAssertChar fails.   *)
(* Mutant: the loop goes on all the same.                                  *)
NotSeparated_Ignored == Continue(<< Now >>) /\ UNCHANGED wktVars
NotSeparated == Fail(wktVars)

ReadMore ==
  /\ At("more")
  /\ LET t == SkipWhitespace(text)
     IN CASE PeekChar(t) = ")" ->
               /\ text' = Tail(t) /\ Continue(Now[3])
               /\ UNCHANGED << cache, width >>
          [] PeekChar(t) = "," ->
               /\ text' = SkipWhitespace(Tail(t))
               /\ Continue(Items(Now[2], Now[3]))
               /\ UNCHANGED << cache, width >>
          [] OTHER -> NotSeparated

(* Mutant: a part is not ended. *)
Part_NoEnd(type, body) == << CallGeomStart(type, Now[2]), body >>
Part(type, body) == << CallGeomStart(type, Now[2]), body, CallGeomEnd >>

-----------------------------------------------------------------------------
(* Mutant: what an earlier feature left in the cache is not dropped. *)
ResetCoordCache_Forgotten == UNCHANGED cache
ResetCoordCache == cache' = << >>

(* The cache is reset after the parenthesis and before the first number. *)
ReadEmptyOrCoordinates ==
  /\ At("ReadEmptyOrCoordinates")
  /\ LET t == SkipWhitespace(text)
     IN IF PeekChar(t) = "("
        THEN /\ text' = SkipWhitespace(Tail(t))
             /\ ResetCoordCache
             /\ Continue(Items(<< Step("ReadCoordinate") >>, << Step("FlushCoordCache") >>))
             /\ UNCHANGED width
        ELSE AssertWordEmpty(t)

(* POINT: one coordinate, and nothing else before the parenthesis. *)
ReadEmptyOrPointCoordinate ==
  /\ At("ReadEmptyOrPointCoordinate")
  /\ LET t == SkipWhitespace(text)
     IN IF PeekChar(t) = "("
        THEN /\ text' = SkipWhitespace(Tail(t))
             /\ ResetCoordCache
             /\ Continue(<< Step("ReadCoordinate"), Step("FlushCoordCache"),
                            Step("AssertClosed") >>)
             /\ UNCHANGED width
        ELSE AssertWordEmpty(t)

AssertClosed ==
  /\ At("AssertClosed")
  /\ LET t == SkipWhitespace(text)
     IN IF PeekChar(t) = ")"
        THEN text' = Tail(t) /\ Continue(<< >>) /\ UNCHANGED << cache, width >>
        ELSE Fail(wktVars)

ReadPolygon ==
  Parenthesised("ReadPolygon",
    << CallRingStart, Step("ReadEmptyOrCoordinates"), CallRingEnd >>, << >>)

ReadMultilinestring ==
  Parenthesised("ReadMultilinestring",
    Part(LINESTRING, Step("ReadEmptyOrCoordinates")), << >>)

ReadMultipolygon ==
  Parenthesised("ReadMultipolygon", Part(POLYGON, Step("ReadPolygon")), << >>)

ReadGeometryCollection ==
  Parenthesised("ReadGeometryCollection", << Step("ReadTaggedGeometry") >>, << >>)

(* The flat form, MULTIPOINT (1 2, 3 4).  ReadMultipoint has skipped the   *)
(* parenthesis and white space, and steps back one character for it: when  *)
(* it did skip white space, ReadMultipointFlat finds that instead.         *)
ReadMultipointFlat(opened, t) ==
  IF PeekChar(opened) = " " THEN Fail(wktVars)
  ELSE /\ text' = t
       /\ Continue(Items(Part(POINT, Step("ReadFlatCoordinate")), << >>))
       /\ UNCHANGED << cache, width >>

ReadFlatCoordinate ==
  /\ At("ReadFlatCoordinate")
  /\ ResetCoordCache
  /\ Continue(<< Step("ReadCoordinate"), Step("FlushCoordCache") >>)
  /\ UNCHANGED << text, width >>

ReadMultipoint ==
  /\ At("ReadMultipoint")
  /\ LET t == SkipWhitespace(text)
         u == SkipWhitespace(Tail(t))
     IN IF PeekChar(t) # "(" THEN AssertWordEmpty(t)
        ELSE IF PeekChar(u) \in {"(", "EMPTY"}
        THEN /\ text' = u
             /\ Continue(Items(Part(POINT, Step("ReadEmptyOrPointCoordinate")),
                               << >>))
             /\ UNCHANGED << cache, width >>
        ELSE ReadMultipointFlat(Tail(t), u)

(* The function that reads what follows a type word; those that start      *)
(* geometries of their own are told the dimensions.                        *)
Body(type, dims) ==
  << CASE type = POINT           -> "ReadEmptyOrPointCoordinate"
       [] type = LINESTRING      -> "ReadEmptyOrCoordinates"
       [] type = POLYGON         -> "ReadPolygon"
       [] type = MULTIPOINT      -> "ReadMultipoint"
       [] type = MULTILINESTRING -> "ReadMultilinestring"
       [] type = MULTIPOLYGON    -> "ReadMultipolygon"
       [] OTHER                  -> "ReadGeometryCollection",
     dims >>

ReadTaggedGeometry ==
  /\ At("ReadTaggedGeometry")
  /\ LET t == SkipWhitespace(text)
         u == SkipWhitespace(Tail(t))
     IN IF PeekChar(t) \notin DOMAIN Keywords THEN Fail(wktVars)
        ELSE LET tagged == PeekChar(u) \in DOMAIN DimensionWords
                 dims   == IF tagged THEN DimensionWords[Head(u)] ELSE 1
                 type   == Keywords[Head(t)]
             IN /\ text' = IF tagged THEN Tail(u) ELSE u
                /\ width' = NumDimensions(dims)
                /\ Continue(<< CallGeomStart(type, dims), Body(type, dims),
                               CallGeomEnd >>)
                /\ UNCHANGED cache

(* GeoArrowWKTReaderVisit: the feature ends before the reader looks for    *)
(* what may follow it.                                                     *)
WKTReaderVisit ==
  /\ At("WKTReaderVisit")
  /\ text' = Now[2]
  /\ Continue(<< CallFeatStart, Step("ReadTaggedGeometry"), CallFeatEnd,
                 Step("AssertEnd") >>)
  /\ UNCHANGED << cache, width >>

(* Mutant: whatever follows a geometry is ignored. *)
TrailingInput_Ignored == FALSE
TrailingInput == SkipWhitespace(text) # << >>

AssertEnd ==
  /\ At("AssertEnd")
  /\ IF TrailingInput THEN Fail(wktVars)
     ELSE Continue(<< >>) /\ UNCHANGED wktVars

WKTReaderInit == text = << >> /\ cache = << >> /\ width = 0

WKTReaderNext ==
  \/ WKTReaderVisit \/ ReadTaggedGeometry \/ ReadEmptyOrPointCoordinate
  \/ ReadEmptyOrCoordinates \/ ReadPolygon \/ ReadMultipoint
  \/ ReadMultilinestring \/ ReadMultipolygon \/ ReadGeometryCollection
  \/ ReadMore \/ ReadFlatCoordinate \/ ReadCoordinate \/ FlushCoordCache
  \/ AssertClosed \/ AssertEnd
=============================================================================
