SPECIFICATION Spec
CONSTANTS
  o = o
  a = a
  b = b
  None = None
  Proc = {o, a, b}
  SkipIfRunning = {b}
  InitialDb <- FreshOrSeven
  MaxCrashes = 2
  MaxFaults = 1
SYMMETRY Alike
INVARIANTS
  TypeOK
  ListenerOwnsFile
  TakeoverFindsFileFree
  RecordedComplete
  UpgradeRepeatable
  ExitDrained
PROPERTIES
  MigrationUndisturbed
CHECK_DEADLOCK FALSE
