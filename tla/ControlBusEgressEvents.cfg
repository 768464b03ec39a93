\* The target's depths, and a bus that always takes three frames a period.
SPECIFICATION FairSpec
CONSTANTS
  TxDepth = 16
  FifoDepth = 3
  MaxSlow = 0
  PeerTimeout = 5
  MaxAge = 14
PROPERTIES
  EventsDelivered
