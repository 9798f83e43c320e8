----------------------------- MODULE ArrayView -----------------------------
(***************************************************************************)
(* array_view.c: visiting native arrays.  The view keeps what it needs of  *)
(* every level; a visit adds up offsets: of the slice, of the array, of    *)
(* the lists and of their children.                                        *)
(***************************************************************************)
EXTENDS Visiting, NativeArrays

(* A coordinate x has the ordinates 10 x, 10 x + 1, ...: the inverse. *)
Coordinate(ordinates) ==
  LET x == ordinates[1] \div 10
  IN IF \A j \in DOMAIN ordinates : ordinates[j] = 10 * x + j - 1 THEN x ELSE -1

(* GeoArrowCoordViewUpdate and the callback: the coordinates at indices. *)
Coords(av, indices) ==
  << CallCoords([k \in DOMAIN indices |->
       Coordinate([j \in DOMAIN av.values |-> Value(av, indices[k], j)])]) >>

-----------------------------------------------------------------------------
(* The elements of list k of level l, as indices into the next level.      *)
Elements(av, l, k) ==
  [e \in 1 .. av.offsets[l][k + 2] - av.offsets[l][k + 1] |->
     av.offsets[l][k + 1] + e - 1 + av.offset[l + 1]]

Each(indices, Op(_)) == FlattenSeq([e \in DOMAIN indices |-> Op(indices[e])])

Geometry(type, av, parts) ==
  << CallGeomStart(type, av.dims) >> \o parts \o << CallGeomEnd >>
Ring(av, l, k) ==
  << CallRingStart >> \o Coords(av, Elements(av, l, k)) \o << CallRingEnd >>

(* One operator for the element at index k of each kind of native array. *)
VisitNativePoint(av, k) == Geometry(POINT, av, Coords(av, << k >>))

VisitNativeLinestring(av, k) ==
  Geometry(LINESTRING, av, Coords(av, Elements(av, 1, k)))

VisitNativePolygon(av, k) ==
  Geometry(POLYGON, av, Each(Elements(av, 1, k), LAMBDA r : Ring(av, 2, r)))

VisitNativeMultipoint(av, k) ==
  Geometry(MULTIPOINT, av,
    Each(Elements(av, 1, k), LAMBDA p : VisitNativePoint(av, p)))

VisitNativeMultilinestring(av, k) ==
  Geometry(MULTILINESTRING, av,
    Each(Elements(av, 1, k), LAMBDA s :
      Geometry(LINESTRING, av, Coords(av, Elements(av, 2, s)))))

VisitNativeMultipolygon(av, k) ==
  Geometry(MULTIPOLYGON, av,
    Each(Elements(av, 1, k), LAMBDA p :
      Geometry(POLYGON, av,
        Each(Elements(av, 2, p), LAMBDA r : Ring(av, 3, r)))))

(* A box is a polygon of the five corners xmin ymin, xmax ymin, xmax ymax, *)
(* xmin ymax, xmin ymin, or without a ring when a dimension is empty.  A   *)
(* corner is the coordinate 10 x + y.                                      *)
BoxMapX == << 1, 3, 3, 1, 1 >>
BoxMapY == << 2, 2, 4, 4, 2 >>
VisitNativeBox(av, k) ==
  LET empty   == \E j \in 1 .. 2 : Value(av, k, j) > Value(av, k, 2 + j)
      corners == [c \in 1 .. 5 |-> 10 * Value(av, k, BoxMapX[c])
                                   + Value(av, k, BoxMapY[c])]
  IN Geometry(POLYGON, av,
       IF empty THEN << >>
       ELSE << CallRingStart, CallCoords(corners), CallRingEnd >>)

(* Only boxes of two dimensions can be visited. *)
CanVisitNative(av) == av.type = BOX => av.dims = 1

VisitElement(av, k) ==
  CASE av.type = BOX             -> VisitNativeBox(av, k)
    [] av.type = POINT           -> VisitNativePoint(av, k)
    [] av.type = LINESTRING      -> VisitNativeLinestring(av, k)
    [] av.type = POLYGON         -> VisitNativePolygon(av, k)
    [] av.type = MULTIPOINT      -> VisitNativeMultipoint(av, k)
    [] av.type = MULTILINESTRING -> VisitNativeMultilinestring(av, k)
    [] OTHER                     -> VisitNativeMultipolygon(av, k)

IsValidAt(av, k) == av.bitmap = << >> \/ av.bitmap[k + 1] = 1

(* Element i of a visit from offset on (both from 0) and all its calls. *)
VisitNativeFeature(av, offset, i) ==
  LET k == av.offset[1] + offset + i
  IN << CallFeatStart >> \o
     (IF IsValidAt(av, k) THEN VisitElement(av, k) ELSE << CallNullFeat >>) \o
     << CallFeatEnd >>
=============================================================================
