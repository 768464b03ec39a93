SPECIFICATION Spec
CONSTANTS
  Config = {a, b, c}
  InitialConfig = a
  a = a
  b = b
  c = c
  HoldTicks = 3
  MinYellow = 2
  MaxCommits = 3
  ManualTimeout = 2
  MaxManuals = 2
  MaxGaps = 1
INVARIANTS
  TypeOK
  EngineMatchesLive
  IdleReleases
PROPERTIES
  SwitchedAfterRed
  ManualHoldsOffActivation
  SettlesOnCommitted
