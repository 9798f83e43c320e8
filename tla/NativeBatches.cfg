\* Several rows and arrays, visited or appended: rows, nulls and the lazy bitmap
SPECIFICATION AppendSpec
CHECK_DEADLOCK FALSE
CONSTRAINT SmallBatches
CONSTANTS
  Geometries <- SomeGeometries
  GeomTypes <- FlatTypes
  Dims <- XY
  ListDepths <- AllDepths
  MaxDepth = 1
  MaxParts = 2
  MaxChunk = 2
  MaxNodes = 1
  MaxFeatures = 3
  MaxFailures = 0
  MaxOffset = 10
  MaxBatches = 2
INVARIANTS
  Aligned
  ArrayWellFormed
  AppendedRowsAreShapes
PROPERTIES
  SinkSpec
