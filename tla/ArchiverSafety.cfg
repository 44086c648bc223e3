SPECIFICATION Spec
CONSTANTS
  u1 = u1
  t1 = t1
  t2 = t2
  t3 = t3
  s1 = s1
  s2 = s2
  None = None
  HoursPerDay = 4
  RetentionDays = 1
  RunHour = 1
  Rows <- AllRows
  Kind <- MCKind
  Time <- MCTime
  Key <- MCKey
  Rank <- MCRank
  Conv <- MCConv
  ZoneSet <- TwoZones
  StartAt = 15
  MaxNow = 18
  MaxFaults = 1
  MaxCrashes = 1
  Prompt = FALSE
INVARIANTS
  TypeOK
  CountedOnce
  SummariesServe
  SweepComplete
PROPERTIES
  RetentionKept
CHECK_DEADLOCK FALSE
