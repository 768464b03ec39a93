SPECIFICATION FairSpec
CONSTANTS
  Snmp = {s1}
  Mmi = {m1}
  Plan = {p0, p1, bad}
  Valid = {p0, p1, bad}
  Supported = {p0, p1}
  DefaultPlan = p0
  Repository = "MOCK"
  MaxGeneration = 3
  MaxCollided = 0
  MaxDisturbances = 2
INVARIANTS
  TypeOK
  BootIsUnambiguous
  InForceIsSupported
  CandidateIsReleased
PROPERTIES
  KeepsStore
  NeverOlder
  OperationsEnd
