SPECIFICATION Spec
CONSTANTS
  Layouts <- SomeLayouts
  EdgeChoices <- SomeEdges
  CrsChoices <- SomeCrs
  ForeignFields <- SomeForeignFields
  OddCrsTypes = {"wkt"}
  Work <- SomeWork
  Batches = 2
INVARIANTS
  MeaningKept
  StorageUnderstood
  CachesCurrent
  BuiltAsAppended
  ViewsAgree
