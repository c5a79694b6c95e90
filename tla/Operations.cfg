SPECIFICATION MCSpec
CONSTANTS
  None = None
  MaxTime = 2
  MaxLosses = 1
  Tokens = {t1, t2}
  Sessions <- MCSessions
  Observations <- MCObservations
  PromotionRequests <- MCRequests
  Tolerance = 1
  MaxObservations = 2
  MaxBeats = 1
  Components = {c1, c2, c3}
  Reports <- MCReports
  Manifests = {m1}
  Alerts = {a1, a2}
  MaxUpdates = 1
  MaxAlerts = 1
  RepeatWindow = 1
  MaxRepeats = 3
  Inputs <- MCInputs
  ErrorCodes = {"E1"}
  Keys = {"K1"}
  MinimumSeverity = 1
  MaxHistory = 2
  MaxFileBytes = 2
  RotationCount = 1
  MaxTotalBytes = 3
  StormThreshold = 2
  StormWindow = 1
  NotifyCooldown = 2
  MaximumAttempts = 3
  MaxEvents = 4
  MaxNotices = 4
  Schema <- MCSchema
  StrictKey = "strict"
  AtMost <- MCAtMost
  Malformed <- MCMalformed
  Profiles <- MCProfiles
  Layers <- MCLayers
  Again = FALSE
  NoSnapshot = NoSnapshot
  Scopes = {"A", "B"}
  QualityObservations <- MCQualityObservations
  ObservationSets <- MCObservationSets
  WorkflowEvidence <- MCWorkflowEvidence
  MinimumSamples = 2
  MaximumSamples = 3
  MaximumAge = 1
  ElevatedRatio = 150
  HighRatio = 200
  ExtremeRatio = 300
  DegradedMultiplier = 75
  PoorMultiplier = 25
  QualityConfirmations = 2
  FailureLimit = 3
  MaxSnapshots = 2
  MaxScopeHistory = 2
  MaxEvaluations = 4
  MaxQualityEpoch = 1
INVARIANTS
  ForwardSound
  DeploymentSound
  LayeredAndSafe
  RecoveryIsConfirmed
  AlarmsHeard
PROPERTIES
  JournalKept
