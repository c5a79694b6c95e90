SPECIFICATION Spec
CONSTANTS
  ka = ka
  kb = kb
  Key <- MCKey
  Requests <- MCRequests
  Amount = {5}
  Cause = {"c"}
  WorkStep = 2
  MinimumWork = 1
  MaximumWork = 10
  PartialAllowed = TRUE
  MaxRetries = 1
  TimeoutAfter = 1
  MaxSubmissions = 1
  MaxEvents = 3
  None = None
  MaxTime = 1
  MaxLosses = 1
INVARIANTS
  Accounted
  AnswersOnce
PROPERTIES
  RestorePreservesTotals
