SPECIFICATION Spec
CONSTANTS
  Payload = {p1, p2, big}
  Config = {k1}
  Meta = {m1}
  Refused = {big}
  Requests <- Request
  Absent = Absent
  Corrupt = Corrupt
  None = None
  MaxSeq = 4
  MaxFaults = 2
INVARIANTS
  GenerationsNeverTorn
  AcknowledgedSurvives
  ChainOrInterrupted
PROPERTIES
  ImplementsAtomicStore
