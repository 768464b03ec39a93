\* Every kind of disturbance once; the trace can overflow.
SPECIFICATION Spec
CONSTANTS
  Capacity = 2
  MaxFaults = 6
  MaxFlight = 3
  MaxRequeues = 1
  MaxMpRestarts = 1
  MaxCpRestarts = 1
INVARIANTS
  TypeOK
  AckedIsLoggedThisBoot
  RepeatsNeedRestarts
PROPERTIES
  KeepsPromise
\* All the faults the bound allows are recorded and dealt with.
CHECK_DEADLOCK FALSE
