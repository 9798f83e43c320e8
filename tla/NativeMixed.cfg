\* Collections of lines and points into an array of linestrings
SPECIFICATION Spec
CHECK_DEADLOCK FALSE
CONSTANTS
  GeomTypes <- MixedTypes
  Dims <- XY
  ListDepths <- LineDepth
  MaxDepth = 2
  MaxParts = 2
  MaxChunk = 1
  MaxNodes = 3
  MaxFeatures = 2
  MaxFailures = 0
  MaxOffset = 10
  MaxBatches = 0
INVARIANTS
  NoMisalignedOutput
