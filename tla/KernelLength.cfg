\* What geoarrow.h says of the length of what a scalar kernel puts out
SPECIFICATION Spec
CHECK_DEADLOCK FALSE
CONSTANTS
  MaxLevels = 4
  MaxTextSize = 40
  Unlimited <- NoLimit
  Names <- AllNames
  Options <- AllOptions
  Rows <- SomeRows
  Batches <- SmallBatches
  MaxBatches = 2
INVARIANTS
  LengthOfInput
