CONSTANTS
  h1 = h1
  h2 = h2
  Handlers <- TwoHandlers
  NTables = 2
  BatchSize = 2
  HardLimit = 2
  Poison <- OnePoison
  MaxRows = 2
  MaxFaults = 1
  MaxErrors = 1
  MaxCopies = 1
SPECIFICATION FairSpec
PROPERTIES
  RowsSettle
  ThreadsReturn
