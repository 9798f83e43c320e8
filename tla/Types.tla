------------------------------- MODULE Types -------------------------------
(***************************************************************************)
(* geoarrow_type_inline.h: a GeoArrow type is one number made of a kind of *)
(* geometry, its dimensions and the layout of its coordinates; the types of *)
(* well-known text and binary are numbers of their own.                    *)
(***************************************************************************)
EXTENDS NativeArrays

(* enum GeoArrowType, GeoArrowDimensions and GeoArrowCoordType. *)
UNINITIALIZED == 0
WKB               == 100001
LARGE_WKB         == 100002
WKT               == 100003
LARGE_WKT         == 100004
WKB_VIEW          == 100005
WKT_VIEW          == 100006
INTERLEAVED_POINT == 10001
GEOMETRY          == 0
UNKNOWN           == 0
SEPARATE          == 1
INTERLEAVED       == 2

Serialized == WKB .. WKT_VIEW

(* The layout's part of the number is 0 for separate, 10000 for interleaved *)
(* coordinates; the rest is 1000 for every further kind of dimensions.     *)
GeometryPart(type) ==
  IF type >= INTERLEAVED_POINT THEN type - 10000 ELSE type

GeometryTypeFromType(type) ==
  LET geometry == GeometryPart(type) % 1000
  IN IF type \notin Serialized /\ geometry \in {BOX} \cup 1 .. 6
     THEN geometry ELSE GEOMETRY

DimensionsFromType(type) ==
  LET dims == GeometryPart(type) \div 1000
  IN IF type \notin {UNINITIALIZED} \cup Serialized /\ dims \in 0 .. 3
     THEN dims + 1 ELSE UNKNOWN

CoordTypeFromType(type) ==
  CASE type \in INTERLEAVED_POINT .. WKB - 1   -> INTERLEAVED
    [] type \in POINT .. INTERLEAVED_POINT - 1 -> SEPARATE
    [] OTHER                                   -> UNKNOWN

MakeType(geometry, dims, coord) ==
  IF \/ geometry = GEOMETRY \/ dims = UNKNOWN \/ coord = UNKNOWN
     \/ geometry = BOX /\ coord # SEPARATE
  THEN UNINITIALIZED
  ELSE (dims - 1) * 1000 + (coord - 1) * 10000 + geometry

(* The extension name of a geometry; "" is NULL. *)
GeometryName(geometry) ==
  CASE geometry = BOX             -> "geoarrow.box"
    [] geometry = POINT           -> "geoarrow.point"
    [] geometry = LINESTRING      -> "geoarrow.linestring"
    [] geometry = POLYGON         -> "geoarrow.polygon"
    [] geometry = MULTIPOINT      -> "geoarrow.multipoint"
    [] geometry = MULTILINESTRING -> "geoarrow.multilinestring"
    [] geometry = MULTIPOLYGON    -> "geoarrow.multipolygon"
    [] OTHER                      -> ""

ExtensionNameFromType(type) ==
  CASE type \in {WKB, LARGE_WKB, WKB_VIEW} -> "geoarrow.wkb"
    [] type \in {WKT, LARGE_WKT, WKT_VIEW} -> "geoarrow.wkt"
    [] OTHER -> GeometryName(GeometryTypeFromType(type))

(* The kinds of geometry, dimensions and layouts a native type can have. *)
NativeTypes ==
  {MakeType(g, d, c) :
     g \in {BOX} \cup 1 .. 6, d \in 1 .. 4, c \in {SEPARATE, INTERLEAVED}}
  \ {UNINITIALIZED}

(* GeoArrowSchemaViewInitFromType. *)
SchemaViewInitFromType(type) ==
  [ok       |-> type = UNINITIALIZED \/ ExtensionNameFromType(type) # "",
   type     |-> type,
   geometry |-> GeometryTypeFromType(type),
   dims     |-> DimensionsFromType(type),
   coord    |-> CoordTypeFromType(type),
   name     |-> ExtensionNameFromType(type),
   metadata |-> << >>]

-----------------------------------------------------------------------------
(* GeoArrowMapDimensions: where ordinate j of a coordinate of dimensions   *)
(* dst is in one of dimensions src (from 1), or 0 when it is not there.    *)
Ordinates(dims) ==
  CASE dims = 1 -> << "x", "y" >>
    [] dims = 2 -> << "x", "y", "z" >>
    [] dims = 3 -> << "x", "y", "m" >>
    [] OTHER    -> << "x", "y", "z", "m" >>

MapDimensions_Positions(src, dst) ==
  [j \in DOMAIN Ordinates(dst) |->
     IF j \in DOMAIN Ordinates(src) THEN j ELSE 0]
MapDimensions(src, dst) ==
  [j \in DOMAIN Ordinates(dst) |->
     LET same == {k \in DOMAIN Ordinates(src) :
                    Ordinates(src)[k] = Ordinates(dst)[j]}
     IN IF same = {} THEN 0 ELSE CHOOSE k \in same : TRUE]
=============================================================================
