------------------------------ MODULE DataType ------------------------------
(***************************************************************************)
(* hpp/geometry_data_type.hpp: the description of a column.  A data type   *)
(* is a type and metadata; as a field it travels to another program, which *)
(* reads it, changes it and passes it on.  Fields also come from programs  *)
(* that share no code with this one.                                       *)
(*                                                                         *)
(* meant is what the programs mean: the layout and the metadata, with the  *)
(* crs as plain text; NotMeant after a request that has to be refused, and *)
(* for a field that makes no sense; Unknown for a field that was damaged.  *)
(***************************************************************************)
EXTENDS Schemas, Metadata

CONSTANTS
  Layouts,        (* the layouts that somebody asks for: geometry, dimensions *)
                  (* and kind of coordinates, or a type of serialized ones   *)
  EdgeChoices,    (* what somebody sets the edge type to                    *)
  CrsChoices,     (* and the crs and its type                               *)
  ForeignFields   (* fields of other producers: the field and what it means *)

VARIABLES
  subject,   (* a data type, a field, or a request that was refused         *)
  meant

dataVars == << subject, meant >>

Layout(g, d, c) == [geometry |-> g, dims |-> d, coord |-> c, type |-> UNKNOWN]
SerializedLayout(type) ==
  [geometry |-> GEOMETRY, dims |-> UNKNOWN, coord |-> UNKNOWN, type |-> type]
IsNative(layout) == layout.type = UNKNOWN
Exists(layout) ==
  \/ ~IsNative(layout) /\ layout.type \in Serialized
  \/ /\ IsNative(layout)
     /\ layout.geometry \in NativeGeometries
     /\ layout.dims \in 1 .. 4 /\ layout.coord \in {SEPARATE, INTERLEAVED}
     /\ layout.geometry = BOX => layout.coord = SEPARATE

Meaning(layout, edges, crsType, crs) ==
  [layout |-> layout, edge_type |-> edges, crs_type |-> crsType, crs |-> crs]
NotMeant == [layout |-> Layout(GEOMETRY, UNKNOWN, UNKNOWN)]
Unknown  == [layout |-> SerializedLayout(UNINITIALIZED)]

OfType(dt)   == [at |-> "type", dt |-> dt]
OfField(f)   == [at |-> "field", field |-> f]
Refusal      == [at |-> "refused"]
IsType       == subject.at = "type"
IsField      == subject.at = "field"

-----------------------------------------------------------------------------
(* The constructor keeps the parts of the type and the metadata.  A set is *)
(* empty where the code throws.                                            *)
GeometryDataType(v, m) ==
  [type |-> v.type, geometry |-> v.geometry, dims |-> v.dims,
   coord |-> v.coord, metadata |-> m]

MakeOfType(type, text) ==
  IF type = UNINITIALIZED \/ ~SchemaViewInitFromType(type).ok THEN {}
  ELSE {GeometryDataType(SchemaViewInitFromType(type), m) :
          m \in MetadataViewInit(text)}

Make(geometry, dims, coord, text) ==
  MakeOfType(MakeType(geometry, dims, coord), text)

MakeOfView(v, text) ==
  IF v.ok THEN {GeometryDataType(v, m) : m \in MetadataViewInit(text)} ELSE {}

MakeOfSchema(field) == MakeOfView(SchemaViewInit(field), field.metadata)
MakeOfStorage(field, name, text) ==
  MakeOfView(SchemaViewInitFromStorage(field, name), text)

ExtensionMetadata(dt) == Written(dt.metadata)
WithGeometryType(dt, g) == Make(g, dt.dims, dt.coord, ExtensionMetadata(dt))
WithCoordType(dt, c)  == Make(dt.geometry, dt.dims, c, ExtensionMetadata(dt))
WithDimensions(dt, d) == Make(dt.geometry, d, dt.coord, ExtensionMetadata(dt))
WithEdgeType(dt, e)   == [dt EXCEPT !.metadata.edge_type = e]
WithCrs(dt, crs, crsType) ==
  [dt EXCEPT !.metadata.crs = crs, !.metadata.crs_type = crsType]
WithCrsLonLat(dt) == [dt EXCEPT !.metadata = SetLonLat(@)]

SimpleOf(g) ==
  CASE g \in {POINT, MULTIPOINT}           -> POINT
    [] g \in {LINESTRING, MULTILINESTRING} -> LINESTRING
    [] g \in {POLYGON, MULTIPOLYGON}       -> POLYGON
    [] OTHER                               -> GEOMETRY
MultiOf(g) == IF SimpleOf(g) = GEOMETRY THEN GEOMETRY ELSE SimpleOf(g) + 3
Simple(dt) == WithGeometryType(dt, SimpleOf(dt.geometry))
Multi(dt)  == WithGeometryType(dt, MultiOf(dt.geometry))

Crs(dt) == UnescapeCrs(dt.metadata.crs)

Field(storage, name, text) ==
  [storage |-> storage, name |-> name, metadata |-> text]
SchemaInitExtension(type) ==
  Field(SchemaInit(type), ExtensionNameFromType(type), << "{", "}" >>)
InitSchema(dt) ==
  [SchemaInitExtension(dt.type) EXCEPT !.metadata = ExtensionMetadata(dt)]
InitStorageSchema(dt) == Field(SchemaInit(dt.type), "", << >>)

(* GeoArrowSchemaSetMetadataFrom: the text of another field, as it is. *)
SetMetadataFrom(field, other) == [field EXCEPT !.metadata = other.metadata]

-----------------------------------------------------------------------------
(* Whoever asks for something means it, and gets it or a refusal.          *)
Get(types) ==
  subject' = IF types = {} THEN Refusal ELSE OfType(CHOOSE t \in types : TRUE)

MeanLayout(layout) ==
  meant' = IF IsNative(meant.layout) /\ Exists(layout)
           THEN [meant EXCEPT !.layout = layout] ELSE NotMeant

MakeOf(layout) ==
  IF IsNative(layout) THEN Make(layout.geometry, layout.dims, layout.coord, << >>)
  ELSE MakeOfType(layout.type, << >>)
MeaningOf(layout) ==
  IF Exists(layout) THEN Meaning(layout, "planar", "none", << >>) ELSE NotMeant

DataInit == subject = Refusal /\ meant = NotMeant

New ==
  /\ subject = Refusal
  /\ \E layout \in Layouts :
       Get(MakeOf(layout)) /\ meant' = MeaningOf(layout)

Arrive ==
  /\ subject = Refusal
  /\ \E f \in ForeignFields :
       /\ subject' = OfField(f.field)
       /\ meant' = f.meaning

ChangeGeometry ==
  /\ IsType
  /\ \E g \in {l.geometry : l \in Layouts} :
       /\ Get(WithGeometryType(subject.dt, g))
       /\ MeanLayout([meant.layout EXCEPT !.geometry = g])

ChangeCoords ==
  /\ IsType
  /\ \E c \in {l.coord : l \in Layouts} :
       /\ Get(WithCoordType(subject.dt, c))
       /\ MeanLayout([meant.layout EXCEPT !.coord = c])

ChangeDimensions ==
  /\ IsType
  /\ \E d \in {l.dims : l \in Layouts} :
       /\ Get(WithDimensions(subject.dt, d))
       /\ MeanLayout([meant.layout EXCEPT !.dims = d])

(* Simple and Multi are what pairs of kinds have in common. *)
Pairs == {<< POINT, MULTIPOINT >>, << LINESTRING, MULTILINESTRING >>,
          << POLYGON, MULTIPOLYGON >>}
ChangePart ==
  /\ IsType
  /\ \E n \in 1 .. 2 :
       /\ Get(IF n = 1 THEN Simple(subject.dt) ELSE Multi(subject.dt))
       /\ MeanLayout([meant.layout EXCEPT !.geometry =
            IF \E p \in Pairs : @ \in ToSet(p)
            THEN (CHOOSE p \in Pairs : @ \in ToSet(p))[n] ELSE GEOMETRY])

ChangeEdges ==
  /\ IsType
  /\ \E e \in EdgeChoices :
       /\ subject' = OfType(WithEdgeType(subject.dt, e))
       /\ meant' = [meant EXCEPT !.edge_type = e]

ChangeCrs ==
  /\ IsType
  /\ \E c \in CrsChoices :
       /\ subject' = OfType(WithCrs(subject.dt, c.crs, c.crs_type))
       /\ meant' = [meant EXCEPT !.crs = c.crs, !.crs_type = c.crs_type]

ChangeCrsToLonLat ==
  /\ IsType
  /\ subject' = OfType(WithCrsLonLat(subject.dt))
  /\ meant' = [meant EXCEPT !.crs = CrsWgs84, !.crs_type = "projjson"]

Export ==
  /\ IsType
  /\ subject' = OfField(InitSchema(subject.dt))
  /\ UNCHANGED meant

(* The storage schema travels alone, name and metadata next to it.         *)
ExportStorage ==
  /\ IsType
  /\ Get(MakeOfStorage(InitStorageSchema(subject.dt),
                       ExtensionNameFromType(subject.dt.type),
                       ExtensionMetadata(subject.dt)))
  /\ UNCHANGED meant

Import ==
  /\ IsField /\ meant # Unknown
  /\ Get(MakeOfSchema(subject.field))
  /\ UNCHANGED meant

(* The result of a computation gets the metadata of its input. *)
PassMetadataOn ==
  /\ IsField /\ meant \notin {Unknown, NotMeant}
  /\ \E layout \in {l \in Layouts : Exists(l)} :
       /\ subject' = OfField(SetMetadataFrom(
            SchemaInitExtension(IF IsNative(layout)
              THEN MakeType(layout.geometry, layout.dims, layout.coord)
              ELSE layout.type), subject.field))
       /\ meant' = [meant EXCEPT !.layout = layout]

Discard == subject # Refusal /\ subject' = Refusal /\ meant' = NotMeant

DataNext ==
  \/ New \/ Arrive \/ ChangeGeometry \/ ChangeCoords \/ ChangeDimensions
  \/ ChangePart \/ ChangeEdges \/ ChangeCrs \/ ChangeCrsToLonLat
  \/ Export \/ ExportStorage \/ Import \/ PassMetadataOn \/ Discard

-----------------------------------------------------------------------------
Describes(dt, m) ==
  /\ IF IsNative(m.layout)
     THEN << dt.geometry, dt.dims, dt.coord >> =
          << m.layout.geometry, m.layout.dims, m.layout.coord >>
     ELSE dt.type = m.layout.type
  /\ dt.metadata.edge_type = m.edge_type
  /\ dt.metadata.crs_type = m.crs_type
  /\ Crs(dt) = m.crs

(* However often a description is changed, written as a field, read and    *)
(* passed on, by way of whichever programs, it says what was meant: the    *)
(* layout, the edges, the crs as plain text and its type; and a field is   *)
(* refused exactly where that is meant (geometry_data_type.hpp, schema.c,  *)
(* schema_view.c and metadata.c together).  A metadata text means what     *)
(* metadata.c lets it mean, which is not JSON: a number or a boolean makes *)
(* it senseless under any key (213-215), while whatever stands between a   *)
(* value and the next comma or brace, and a comma right before the last    *)
(* brace, are let through (276-280).  Not claimed, and not among what is   *)
(* exchanged: a plain crs with a backslash, for which more is allocated    *)
(* than written (381 and 452), one that begins with a quote or a brace, a  *)
(* key given twice, and an unknown crs type as long as a known one, which  *)
(* UnrecognizedIgnored is about.                                           *)
MeaningKept ==
  CASE subject = Refusal -> meant = NotMeant
    [] IsType -> meant # NotMeant /\ Describes(subject.dt, meant)
    [] OTHER  -> meant # Unknown =>
         LET read == MakeOfSchema(subject.field)
         IN IF meant = NotMeant THEN read = {}
            ELSE \E dt \in read : Describes(dt, meant)

(* A crs whose type is a word that nobody knows has no known type after    *)
(* reading (metadata.c:267, "Accept unrecognized string values but ignore  *)
(* them").                                                                 *)
UnrecognizedIgnored ==
  /\ IsField /\ meant \notin {Unknown, NotMeant}
  /\ meant.crs_type = "unknown"
  => \A dt \in MakeOfSchema(subject.field) : dt.metadata.crs_type = "unknown"

(* Storage of the same physical layout: what the arrays of it look like.   *)
RECURSIVE SameStorage(_, _)
SameStorage(s, t) ==
  /\ s.format = t.format /\ s.size = t.size
  /\ Len(s.children) = Len(t.children)
  /\ \A c \in DOMAIN s.children :
       /\ s.format = "+s" => s.children[c].name = t.children[c].name
       /\ SameStorage(s.children[c], t.children[c])

(* A field that is accepted, whoever made it and whatever was done to it   *)
(* on the way, has the storage that the type it is taken for has: or its   *)
(* arrays would be read as something they are not (schema_view.c).         *)
StorageUnderstood ==
  IsField =>
    LET v == SchemaViewInit(subject.field)
    IN v.ok => SameStorage(subject.field.storage, SchemaInit(v.type))
=============================================================================
