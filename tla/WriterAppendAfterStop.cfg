CONSTANTS
  h1 = h1
  h2 = h2
  Handlers <- OneHandler
  NTables = 2
  BatchSize = 2
  HardLimit = 3
  Poison <- NoPoison
  MaxRows = 3
  MaxFaults = 1
  MaxErrors = 1
  MaxCopies = 2
SPECIFICATION Spec
PROPERTIES
  NoAppendAfterStop
