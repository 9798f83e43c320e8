\* Every feature of up to five geometries, rings and coordinates, recorded, copied, visited
SPECIFICATION Spec
CHECK_DEADLOCK FALSE
CONSTRAINTS SmallFeatures OneSource
CONSTANTS
  GeomTypes <- SomeTypes
  Dims <- TwoWidths
  MaxDepth = 4
  MaxParts = 2
  MaxChunk = 2
  MaxNodes = 4
  MaxFeatures = 2
  MaxFailures = 1
  MaxNesting = 3
  CacheElements = 4
  Rows <- NativeRows
INVARIANTS
  PointersCurrent
  VisitsRepeat
