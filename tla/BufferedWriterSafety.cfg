CONSTANTS
  h1 = h1
  h2 = h2
  Handlers <- TwoHandlers
  NTables = 2
  BatchSize = 2
  HardLimit = 3
  Poison <- OnePoison
  MaxRows = 4
  MaxFaults = 1
  MaxErrors = 1
  MaxCopies = 2
SPECIFICATION Spec
SYMMETRY HandlerSymmetry
INVARIANTS
  TypeOK
  SingleWriter
  Accounting
  RowsAccountedFor
  BacklogBound
  DrainedAtStop
PROPERTIES
  FailedBatchKept
  ImplementsRowSink
