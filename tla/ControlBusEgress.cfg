\* The target's depths; in one period the bus takes fewer than three frames.
SPECIFICATION Spec
CONSTANTS
  TxDepth = 16
  FifoDepth = 3
  MaxSlow = 1
  PeerTimeout = 5
  MaxAge = 14
INVARIANTS
  TypeOK
  HeartbeatsGetThrough
  StatusIsRecent
