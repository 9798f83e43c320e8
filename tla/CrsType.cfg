SPECIFICATION Spec
CONSTANTS
  Layouts <- SomeLayouts
  EdgeChoices = {}
  CrsChoices = {}
  ForeignFields <- SomeForeignFields
  OddCrsTypes = {"wkt2:2015"}
  Work = {}
  Batches = 1
INVARIANT
  UnrecognizedIgnored
