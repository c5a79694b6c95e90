SPECIFICATION MCSpec
CONSTANTS
  None = None
  MaxTime = 2
  MaxLosses = 1
  Outcomes <- MCOutcomes
  Start = 100
  Threshold <- MCThreshold
  StageMultiplier <- MCMultiplier
  Confirmations = 2
  MaxOutcomes = 4
  Results <- MCResults
  Upstreams = {60}
  DayOf <- MCDayOf
  WeekOf <- MCWeekOf
  DailyWatch = 2
  DailyBlock = 4
  WeeklyWatch = 3
  WeeklyBlock = 5
  StreakWatch = 1
  StreakCooldown = 2
  CooldownTime = 1
  TemporalMultiplier <- MCTemporalMultiplier
  Patience = 2
  MaxResults = 4
  Signals <- MCSignals
  SafetyUpstreams = {60}
  MediumLimit = 2
  HighLimit = 2
  Probations = 2
  CautionMultiplier = 75
  RestrictedMultiplier = 25
  MaxSignals = 3
  MaxStatuses = 6
INVARIANTS
  EvidenceReplays
  ImprovementConfirmed
  BlocksHold
  Latched
  IncidentsMatch
PROPERTIES
  ReleasedAfterProbation
  RestartPreserves
