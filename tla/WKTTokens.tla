----------------------------- MODULE WKTTokens -----------------------------
(***************************************************************************)
(* Well-known text as the reader and the writer of this project have it: a *)
(* sequence of tokens, which are words, numbers, the three punctuation     *)
(* characters, and " " for white space of any length.                      *)
(***************************************************************************)
EXTENDS GeometryTypes, TLC

Keywords == "POINT" :> POINT @@ "LINESTRING" :> LINESTRING
            @@ "POLYGON" :> POLYGON @@ "MULTIPOINT" :> MULTIPOINT
            @@ "MULTILINESTRING" :> MULTILINESTRING
            @@ "MULTIPOLYGON" :> MULTIPOLYGON
            @@ "GEOMETRYCOLLECTION" :> GEOMETRYCOLLECTION
DimensionWords == "Z" :> 2 @@ "M" :> 3 @@ "ZM" :> 4

(* Ten numbers are enough: GeoArrowFromChars refuses everything else. *)
FromChars == "0" :> 0 @@ "1" :> 1 @@ "2" :> 2 @@ "3" :> 3 @@ "4" :> 4
             @@ "5" :> 5 @@ "6" :> 6 @@ "7" :> 7 @@ "8" :> 8 @@ "9" :> 9

(* The numbers that stand for the ordinates of coordinate c. *)
Ordinate(c, j) == IF j = 1 THEN c ELSE 9 - c
Numeral(n) == CHOOSE s \in DOMAIN FromChars : FromChars[s] = n
=============================================================================
