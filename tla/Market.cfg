SPECIFICATION MCSpec
CONSTANTS
  None = None
  MaxTime = 4
  MaxLosses = 0
  ProviderBars <- MCProviderBars
  Datasets <- MCDatasets
  Cadence <- MCCadence
  Roles <- MCRoles
  Strict = TRUE
  MinimumHistory = 1
  StaleMultiplier = 1
  AnomalyRatio = 25
  MaxMarketCache = 1
  RequiredBars = {2}
  AskedTimes = {0, 1, 2}
  EventVersions <- MCEventVersions
  CoverageStart <- MCCoverageStart
  CoverageEnd = 5
  Dimensions <- MCDimensions
  EventWindows <- MCEventWindows
  UnknownAs = 3
  NewsPolicy <- MCNewsPolicy
  MaxNewsCache = 1
  MaxNewsHistory = 1
  Epochs = {0, 1}
  RegimeInputs <- MCRegimeInputs
  RegimeTimelines <- MCRegimeTimelines
  Threshold <- MCThresholds
  AbnormalThreshold = 70
  MinimumRegimeConfidence = 50
  MinimumMargin = 8
  EntryScore = 60
  ExitScore = 45
  Confirmations = 2
  MinimumPersistence = 2
  RegimeCooldown = 1
  UnknownGrace = 1
  Weights <- MCWeights
  MaxRegimeHistory = 2
  MaxAnalyses = 5
  DayLength = 6
  FirstWeekday = 4
  LastInstant = 35
  Zones <- MCZones
  SessionsOf <- MCSessionsOf
  CalendarDays <- MCCalendarDays
  TradingZone = "west"
  TradingBoundary = 4
  WeekZone = "west"
  WeekStart = 4
  WeekStartWeekday = 6
  FridayZone = "west"
  FridayCutoff = 4
  Rollovers <- MCRollovers
  ReopenDelay = 1
  ReopenObservations = 1
  SessionPolicy <- MCSessionPolicy
  CalendarRequired = FALSE
  MaxJump = 12
  Definitions <- MCDefinitions
  Offered <- MCOffered
  MaxObservations = 3
  MaxTrials = 2
  MaxExperimentCheckpoints = 1
  MinimumSample = 1
  AdequateSample = 2
  RunEpochs = {0, 1}
  MaxPlans = 2
  RobustnessPlans <- MCRobustnessPlans
  Measured <- MCMeasured
  HoldoutPeriods <- MCHoldoutPeriods
  SealTimes = {1, 2}
  JudgingTimes = {3, 4}
  MaxWindows = 3
  MaxIterations = 1
  MaxEvidence = 3
  MinimumResample = 2
  MinimumWindows = 2
  StableGap = 2
  MaxSeals = 2
  MaxJudged = 2
  Bars <- MCBars
  MaxBars = 6
  Span = 2
  LeftBars = 1
  RightBars = 1
  TiePolicy = "FIRST"
  EqualityTolerance = 1
  MinimumEvidence = 2
  DirectionLookback = 6
  BreakConfirmation = "CLOSE_BREAK"
  MinimumPenetration = 0
  ConfirmationBars = 1
  ConsolidationWindow = 3
  ConsolidationEntry = 100
  ConsolidationExit = 200
  ZoneWidth = 5
  ZoneMerge = 1
  ZoneExpiration = 5
  MaxZones = 3
  MaxSwings = 9
  Strategies = {"trend", "range"}
  Intelligence <- MCIntelligence
  Verdict <- MCVerdict
  AllowedInstruments = {"alpha", "beta"}
  GateStatuses <- MCGateStatuses
  Reasons = {"NEW_BAR", "REGIME_CHANGED"}
  CandidateTtl = 1
  MaxEvaluationCache = 1
  MaxReferences = 2
  MaxClock = 2
  MaxMadeEvaluations = 3
INVARIANTS
  
  BlackoutKept
  RegimeConfirmed
  OpenByTheWall
  
  NothingRepainted
  StatesIsolated
CHECK_DEADLOCK FALSE
