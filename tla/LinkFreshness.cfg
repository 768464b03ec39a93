CONSTANTS
  NumChunks = 2
  MaxGeneration = 2
  PeerTimeout = 1
  MaxLead = 1
  MaxLosses = 1
  MaxCrashes = 1
  Rejected = {}
  FaultActions = {"DARK"}
  MaxStale = 5
  MaxDisturbances = 2
SPECIFICATION FairFreshSpec
INVARIANTS TypeOK AppliedImagePure NormalIsFresh
PROPERTIES ImageCatchesUp AppliedNeverRegresses
