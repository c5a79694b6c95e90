SPECIFICATION Spec
CONSTANTS
  h1 = h1
  Hypothesis = {h1}
  Epoch = {0, 1}
  Evidence <- MCEvidence
  Require = {"quality", "workflow"}
  MaxLifecycles = 1
  MaxTransitions = 4
  QueueExpiration = 1
  None = None
  MaxTime = 1
  MaxLosses = 2
INVARIANTS
  Reconciled
PROPERTIES
  
  RestoreFaithful
