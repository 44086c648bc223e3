SPECIFICATION FairSpec
CONSTANTS
  Null = Null
  Models = {"m", "n"}
  HoursPerDay = 4
  HourTicks = 2
  RetentionDays = 2
  RunHour = 1
  DaysPerWeek = 2
  DaysPerMonth = 4
  HeatmapDays = 5
  RealtimeTicks = 1
  Bars <- MCBars
  RateInterval <- MCRateInterval
  RateCount <- MCRateCount
  Zone <- MCZone
  Times <- MCTimes
  Data <- MCData
  Batches <- MCBatches
  LegacyHours <- MCLegacyHours
  LegacySessions <- MCLegacySessions
  SessionRank <- MCSessionRank
  Handlers = {"h1", "h2"}
  Asks <- MCAsks
  AskedOf <- MCAskedOf
INVARIANTS
  TypeOK
  AnswersSurviveArchiving
  CostFromOneSource
  RecentSessionsFound
  BarsTile
PROPERTIES
  AnswersArrive
