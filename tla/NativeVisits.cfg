\* Features of all kinds and depths, and features that are refused or abandoned
SPECIFICATION Spec
CHECK_DEADLOCK FALSE
CONSTRAINT SmallBatches
CONSTANTS
  GeomTypes <- AllTypes
  Dims <- XY
  ListDepths <- AllDepths
  MaxDepth = 3
  MaxParts = 2
  MaxChunk = 1
  MaxNodes = 5
  MaxFeatures = 2
  MaxFailures = 1
  MaxOffset = 3
  MaxBatches = 1
INVARIANTS
  TypeOK
  ListsNest
  OffsetsFit
  SizesBacked
  NullsCounted
  RowsAreShapes
  CoordinatesKept
  FittingFeatureAccepted
