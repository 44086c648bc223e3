SPECIFICATION Spec
CONSTANTS
  o = o
  a = a
  b = b
  None = None
  Proc = {o, a, b}
  SkipIfRunning = {b}
  InitialDb <- Seven
  MaxCrashes = 0
  MaxFaults = 0
PROPERTY
  KilledHoldsPort
CHECK_DEADLOCK FALSE
