\* A geometry read from well-known binary of the other byte order, copied
SPECIFICATION Spec
CHECK_DEADLOCK FALSE
CONSTANTS
  GeomTypes <- SomeTypes
  Dims <- TwoWidths
  MaxDepth = 1
  MaxParts = 1
  MaxChunk = 1
  MaxNodes = 1
  MaxFeatures = 0
  MaxFailures = 0
  MaxNesting = 2
  CacheElements = 4
  Rows <- SwappedRows
INVARIANTS
  CopyHasCoords
