SPECIFICATION RSpec
CONSTANTS
  k1 = k1
  k2 = k2
  Hosts = {"cli", "web"}
  Deployed <- MCDeployed
  Targets = {"PROTECT"}
  Seeds = {}
  Payload <- StatePayload
  Config <- MCConfig
  Meta <- MCMeta
  Refused = {}
  Requests = {}
  Absent = Absent
  Corrupt = Corrupt
  None = None
  MaxSeq = 3
  MaxFaults = 1
INVARIANT
  RestrictionSurvivesRestart
