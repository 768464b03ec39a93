SPECIFICATION HSpec
CONSTANTS
  a = a
  b = b
  m1 = m1
  NotConfigured = NotConfigured
  Channel <- MCChannel
  Output <- MCOutput
  Ssm <- MCSsm
  CardOf <- MCCardOf
  Image <- MCImage
  Configs <- MCConfigs
  ConflictDwell = 2
  DualDwell = 1
  DarkDwell = 1
  RedDwell = 1
  LampDwell = 1
  MaxYellow = 2
  MaxAge = 2
INVARIANTS
  TypeOK
  ConflictCaught
  LawfulIsSilent
PROPERTIES
  ConflictJustified
  TimingCaught
