CONSTANTS
  Cp = cp
  Psm = {p1}
  Ssm = {s1}
  CpThreshold = 1
  PsmThreshold = 1
  SsmThreshold = 2
  Supplies = {"LINE_VOLTAGE"}
  Sensors = {"BATTERY_LOW"}
  SamplePeriod = 2
  ConsecutiveSamples = 2
  MonitorFaults = {"CONFLICT"}
  ErrorSeverityDropsRelay = FALSE
SPECIFICATION HFairSpec
INVARIANTS
  TypeOK
  OutageDarkens
  DarkExplained
  ReportedOnce
  PermitJustified
PROPERTIES
  ErrorsNeverDrop
  PermitReturns
