SPECIFICATION FairSpec
CONSTANTS
  u1 = u1
  t1 = t1
  t2 = t2
  t3 = t3
  s1 = s1
  s2 = s2
  None = None
  HoursPerDay = 4
  RetentionDays = 1
  RunHour = 1
  Rows <- FewRows
  Kind <- MCKind
  Time <- MCTime
  Key <- MCKey
  Rank <- MCRank
  Conv <- MCConv
  ZoneSet <- ForwardZone
  StartAt = 19
  MaxNow = 36
  MaxFaults = 1
  MaxCrashes = 1
  Prompt = TRUE
PROPERTIES
  ExpiredRowsLeave
  StopReturns
CHECK_DEADLOCK FALSE
