SPECIFICATION MCSpec
CONSTANTS
  None = None
  MaxTime = 2
  MaxLosses = 0
  Plans <- MCPlans
  ExitObservations <- MCExitObservations
  InvalidationFirst = FALSE
  OneTargetOnly = FALSE
  MinimumResidual = 1
  CloseRemainder = TRUE
  MaxExitEntries = 1
  MaxObserved = 3
  Profile <- MCProtection
  AtrBoundaries <- MCAtrBoundaries
  StructureBoundaries <- MCStructureBoundaries
  MaxVersions = 2
  MaxBoundaries = 2
  MaxHanded = 2
  Snapshots <- MCSnapshots
  Structures <- MCStructures
  Atrs <- MCAtrs
  Additions = {0}
  Method = "HYBRID"
  Fallbacks = {"STRUCTURE"}
  AddVolatility = FALSE
  Widen = FALSE
  MinimumDistance = 3
  MaximumDistance = 5
  MaxTheses = 1
  MaxThesisCache = 1
  Capitals <- MCCapitals
  BaseFraction = 10
  Costs = {5}
  MinExposure = 2
  MaxExposure = 20
  Equities <- MCEquities
  Evidences <- MCEvidences
  Bands <- MCBands
  BandModifiers <- MCBandModifiers
  ProviderModifier = 100
  MinimumModifier = FALSE
  ByGroup = TRUE
  HardMaximum = 8
  RiskConfirmations = 2
  RiskCooldown = 0
  MaxAdaptiveCache = 1
  MaxReconciliations = 4
  Requests <- MCRequests
  GroupLimit <- MCGroups
  MaxRisk = 4
  MaxGross = 3
  MaxConcurrent = 2
  Reduce = TRUE
  MinimumExposure = 1
  TTL = 1
  MaxRecords = 2
  MaxReservations = 2
  Remains <- MCRemains
  MaxMade = 3
  MaxReconciled = 1
  Profiles <- MCProfiles
  Outcomes <- MCOutcomes
  Windows <- MCHealthWindows
  Thresholds <- MCThresholds
  Multipliers <- MCMultipliers
  Exposures = {2}
  StaleAfter = 0
  DeteriorationCount = 1
  RecoveryCount = 2
  HealthCooldown = 1
  MaxOutcomes = 2
  MaxEvaluations = 3
  Books <- MCBooks
  SeriesBooks <- MCSeriesBooks
  Admissions <- MCAdmissions
  CorrelationWindows <- MCCorrelationWindows
  Lookback = 3
  MinimumObservations = 2
  CorrelationStaleAfter = 0
  StrictAlignment = FALSE
  EntryThreshold = 75
  ExitThreshold = 20
  EntryCount = 2
  ExitCount = 2
  ReleaseCooldown = 1
  MaximumClusterExposure = 3
  MaximumClusterMembers = 2
  MinimumValidWindows = 1
  MissingWindowBlocks = TRUE
  UnknownBlocks = TRUE
  MaxSeen = 5
  Intelligences <- MCIntelligences
  Evaluations <- MCEvaluations
  MaxOpinions = 3
  ArbitrationPolicy = "HYBRID"
  CombineAll = TRUE
  AllowedPairs = {}
  StrategyPriority <- MCStrategyPriority
  NativePriority = TRUE
  AllowDegraded = TRUE
  RejectExpired = TRUE
  MinimumCompleteness = 70
  MaximumUncertainty = 40
  MinimumConfidence = 50
  MinimumQuality = 50
  ConfidenceDifference = 15
  QualityDifference = 15
  MaxArbitrationCache = 1
INVARIANT CapacityHeld
CHECK_DEADLOCK FALSE
