\* Every shape of small batches: what is written is its encoding
SPECIFICATION Spec
CHECK_DEADLOCK FALSE
CONSTRAINT SmallBatches
CONSTANTS
  Geometries <- SomeGeometries
  GeomTypes <- AllTypes
  Dims <- TwoWidths
  MaxDepth = 5
  MaxParts = 2
  MaxChunk = 1
  MaxNodes = 5
  MaxFeatures = 3
  MaxFailures = 1
  MaxLevel = 3
  MaxOffset = 12
  CountMod = 128
  MaxBatches = 2
INVARIANTS
  TypeOK
  OffsetsInValues
  NullsCounted
  OffsetsAddressable
  Aligned
  ArrayWellFormed
  ReservedCounts
  RowsEncodeFeatures
PROPERTIES
  OnlyReservedCountsChange
  SinkSpec
