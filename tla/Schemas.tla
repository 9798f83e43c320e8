------------------------------ MODULE Schemas ------------------------------
(***************************************************************************)
(* schema.c and schema_view.c: the storage schema of a type, and back from *)
(* a schema that any producer may have made to the type it stands for.  A  *)
(* name is a tuple of words; the flags of a schema are never looked at.    *)
(***************************************************************************)
EXTENDS Types

Schema(format, size, children) ==
  [format |-> format, name |-> << >>, size |-> size, children |-> children]
Named(schema, name) == [schema EXCEPT !.name = name]
Double(name) == Named(Schema("g", 0, << >>), name)

(* One child for every ordinate, or one list of all of them. *)
SchemaInitCoordStruct(dims) ==
  Schema("+s", 0, [j \in DOMAIN Ordinates(dims) |->
                     Double(<< Ordinates(dims)[j] >>)])

SchemaInitCoordFixedSizeList(dims) ==
  Schema("+w", NumDimensions(dims), << Double(Ordinates(dims)) >>)

SchemaInitRect(dims) ==
  LET Bound(suffix) == [j \in DOMAIN Ordinates(dims) |->
                          Double(<< Ordinates(dims)[j], suffix >>)]
  IN Schema("+s", 0, Bound("min") \o Bound("max"))

ChildNames(geometry) ==
  CASE geometry = LINESTRING      -> << "vertices" >>
    [] geometry = POLYGON         -> << "rings", "vertices" >>
    [] geometry = MULTIPOINT      -> << "points" >>
    [] geometry = MULTILINESTRING -> << "linestrings", "vertices" >>
    [] geometry = MULTIPOLYGON    -> << "polygons", "rings", "vertices" >>
    [] OTHER                      -> << >>

RECURSIVE SchemaInitListOf(_, _, _)
SchemaInitListOf(coord, dims, names) ==
  IF names = << >>
  THEN IF coord = SEPARATE THEN SchemaInitCoordStruct(dims)
       ELSE SchemaInitCoordFixedSizeList(dims)
  ELSE Schema("+l", 0,
         << Named(SchemaInitListOf(coord, dims, Tail(names)),
                  << Head(names) >>) >>)

(* GeoArrowSchemaInit, for the types of which it makes a schema. *)
SerializedFormat ==
  WKB :> "z" @@ LARGE_WKB :> "Z" @@ WKB_VIEW :> "vz" @@
  WKT :> "u" @@ LARGE_WKT :> "U" @@ WKT_VIEW :> "vu"

CanInitSchema(type) ==
  \/ type \in Serialized
  \/ /\ DimensionsFromType(type) # UNKNOWN
     /\ GeometryTypeFromType(type) # GEOMETRY
     /\ GeometryTypeFromType(type) = BOX => CoordTypeFromType(type) = SEPARATE

SchemaInit(type) ==
  LET geometry == GeometryTypeFromType(type)
      dims     == DimensionsFromType(type)
  IN CASE type \in Serialized -> Schema(SerializedFormat[type], 0, << >>)
       [] geometry = BOX      -> SchemaInitRect(dims)
       [] OTHER -> SchemaInitListOf(CoordTypeFromType(type), dims,
                                    ChildNames(geometry))

-----------------------------------------------------------------------------
(* Parsing a coordinate schema gives its dimensions and layout, or unknown *)
(* dimensions for an error.                                                *)
Parsed(dims, coord) == [dims |-> dims, coord |-> coord]
Rejected == Parsed(UNKNOWN, UNKNOWN)

DimensionsNamed(ordinates) ==
  LET same == {d \in 1 .. 4 : Ordinates(d) = ordinates}
  IN IF same = {} THEN UNKNOWN ELSE CHOOSE d \in same : TRUE

(* Words(children): the words of the children's names, one after another. *)
Words(children) == FlattenSeq([j \in DOMAIN children |-> children[j].name])
AllDoubles(children) == \A j \in DOMAIN children : children[j].format = "g"

(* A child with a name that says nothing has its dimensions guessed from   *)
(* the size of the list.                                                   *)
ParsePointFixedSizeList_AnySize(schema) ==
  LET named == DimensionsNamed(schema.children[1].name)
  IN Parsed(IF named # UNKNOWN THEN named ELSE 1, INTERLEAVED)
ParsePointFixedSizeList(schema) ==
  LET named == DimensionsNamed(schema.children[1].name)
      dims  == IF named # UNKNOWN THEN named
               ELSE CASE schema.size = 2 -> 1
                      [] schema.size = 3 -> 2
                      [] schema.size = 4 -> 4
                      [] OTHER           -> UNKNOWN
  IN IF /\ Len(schema.children) = 1 /\ AllDoubles(schema.children)
        /\ dims # UNKNOWN /\ NumDimensions(dims) = schema.size
     THEN Parsed(dims, INTERLEAVED) ELSE Rejected

ParsePointStruct(schema) ==
  LET children == schema.children
      dims     == DimensionsNamed(Words(children))
  IN IF /\ AllDoubles(children) /\ dims # UNKNOWN
        /\ \A j \in DOMAIN children : Len(children[j].name) = 1
     THEN Parsed(dims, SEPARATE) ELSE Rejected

RECURSIVE ParseNestedSchema(_, _)
ParseNestedSchema(schema, n) ==
  CASE n > 0 /\ schema.format = "+l" /\ Len(schema.children) = 1
         -> ParseNestedSchema(schema.children[1], n - 1)
    [] n = 0 /\ schema.format = "+s" -> ParsePointStruct(schema)
    [] n = 0 /\ schema.format = "+w" -> ParsePointFixedSizeList(schema)
    [] OTHER -> Rejected

ParseBox(schema) ==
  LET n      == Len(schema.children) \div 2
      Bound(from, suffix) ==
        [j \in 1 .. n |-> IF Len(schema.children[from + j].name) = 2
                          THEN IF schema.children[from + j].name[2] = suffix
                               THEN schema.children[from + j].name[1] ELSE ""
                          ELSE ""]
      dims   == DimensionsNamed(Bound(0, "min"))
  IN IF /\ schema.format = "+s" /\ Len(schema.children) \in {4, 6, 8}
        /\ AllDoubles(schema.children)
        /\ dims # UNKNOWN /\ Bound(n, "max") = Bound(0, "min")
     THEN Parsed(dims, SEPARATE) ELSE Rejected

(* GeoArrowSchemaViewInitInternal.  The name of an extension has to be     *)
(* exact, but anything that starts with geoarrow.wkb is well-known binary. *)
NativeGeometries == {BOX} \cup 1 .. 6
SerializedNamed(name) ==
  CASE name = "geoarrow.wkt" -> {WKT, LARGE_WKT, WKT_VIEW}
    [] Len(name) >= 12 /\ SubSeq(name, 1, 12) = "geoarrow.wkb"
         -> {WKB, LARGE_WKB, WKB_VIEW}
    [] OTHER -> {}

ParsedStorage(schema, geometry) ==
  IF geometry = BOX THEN ParseBox(schema)
  ELSE ParseNestedSchema(schema, NumOffsets(geometry))

View(type, geometry, parsed, name, metadata) ==
  [ok |-> TRUE, type |-> type, geometry |-> geometry, dims |-> parsed.dims,
   coord |-> parsed.coord, name |-> name, metadata |-> metadata]
NoView == [ok |-> FALSE]

SchemaViewInitInternal(schema, name, metadata) ==
  LET native == {g \in NativeGeometries : GeometryName(g) = name}
      serialized == {t \in SerializedNamed(name) :
                       SerializedFormat[t] = schema.format}
      views == {LET parsed == ParsedStorage(schema, g)
                IN View(MakeType(g, parsed.dims, parsed.coord), g, parsed,
                        name, metadata) : g \in native} \cup
               {View(t, GeometryTypeFromType(t),
                     Parsed(DimensionsFromType(t), CoordTypeFromType(t)),
                     name, metadata) : t \in serialized}
      found == {v \in views : v.type # UNINITIALIZED}
  IN IF found = {} THEN NoView ELSE CHOOSE v \in found : TRUE

(* A field has a storage schema and perhaps the name and the metadata of an *)
(* extension; "" and << >> when it has none.                               *)
SchemaViewInit(field) ==
  IF field.name = "" THEN NoView
  ELSE SchemaViewInitInternal(field.storage, field.name, field.metadata)

SchemaViewInitFromStorage(field, name) ==
  SchemaViewInitInternal(field.storage, name, field.metadata)
=============================================================================
