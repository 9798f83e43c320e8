\* Features visited and appended, values beyond the largest offset, counts that wrap
SPECIFICATION AppendSpec
CHECK_DEADLOCK FALSE
CONSTRAINT OneArray
CONSTANTS
  Geometries <- SomeGeometries
  GeomTypes <- OnlyLines
  Dims <- XY
  MaxDepth = 1
  MaxParts = 11
  MaxChunk = 3
  MaxNodes = 1
  MaxFeatures = 3
  MaxFailures = 1
  MaxLevel = 3
  MaxOffset = 9
  CountMod = 10
  MaxBatches = 1
INVARIANTS
  LevelsTrackVisit
  OffsetsNeverWrap
  RowsEncodeFeatures
