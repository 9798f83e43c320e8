\* Every kernel, over two batches of whole and of unreadable rows
SPECIFICATION Spec
CHECK_DEADLOCK FALSE
CONSTANTS
  MaxLevels = 4
  MaxTextSize = 40
  Unlimited <- NoLimit
  Names <- AllNames
  Options <- AllOptions
  Rows <- SomeRows
  Batches <- SmallBatches
  MaxBatches = 2
INVARIANTS
  ElementsAreText
  NullsOfRows
  BoxesBound
  TypesCollected
