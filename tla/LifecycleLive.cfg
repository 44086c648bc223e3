SPECIFICATION FairSpec
CONSTANTS
  o = o
  a = a
  b = b
  None = None
  Proc = {o, a, b}
  SkipIfRunning = {b}
  InitialDb <- Seven
  MaxCrashes = 0
  MaxFaults = 0
PROPERTIES
  StartReturns
  ServedInTheEnd
CHECK_DEADLOCK FALSE
