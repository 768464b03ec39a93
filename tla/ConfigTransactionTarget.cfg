SPECIFICATION FairSpec
CONSTANTS
  Snmp = {s1}
  Mmi = {m1}
  Plan = {p0, p1}
  Valid = {p0, p1}
  Supported = {p0, p1}
  DefaultPlan = p0
  Repository = "STM32"
  MaxGeneration = 1
  MaxCollided = 0
  MaxDisturbances = 0
PROPERTIES
  CommitPersists
