CONSTANTS
  NumChunks = 2
  MaxGeneration = 2
  PeerTimeout = 5
  MaxLead = 1
  MaxLosses = 0
  MaxCrashes = 0
  Rejected = {}
  FaultActions = {}
SPECIFICATION FairSpec
PROPERTY AuthoritySettles
