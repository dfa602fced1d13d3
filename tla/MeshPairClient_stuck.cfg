SPECIFICATION FairSpec
CONSTANTS
  MaxSlots = 2
  MaxPeers = 2
  MaxEpoch = 2
  MaxCandidates = 0
  Gatherers = {}
CHECK_DEADLOCK FALSE
PROPERTY AttemptIsNegotiated
