SPECIFICATION Spec
CONSTANTS
  u1 = u1
  t1 = t1
  t2 = t2
  t3 = t3
  s1 = s1
  s2 = s2
  None = None
  HoursPerDay = 24
  RetentionDays = 30
  RunHour = 3
  Rows <- FewRows
  Kind <- MCKind
  Time <- AzoresTime
  Key <- MCKey
  Rank <- MCRank
  Conv <- MCConv
  ZoneSet <- AzoresZone
  StartAt = 1200
  MaxNow = 1200
  MaxFaults = 0
  MaxCrashes = 0
  Prompt = FALSE
INVARIANTS
  SweepComplete
CHECK_DEADLOCK FALSE
