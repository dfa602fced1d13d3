CONSTANTS
  MaxSlots = 2
  MaxPeers = 2
  MaxEpoch = 2
  MaxCandidates = 0
  Gatherers = {2}
SPECIFICATION FairSpec
INVARIANTS
  OneLiveConnection
  NoCandidateStranded
PROPERTIES
  ImplementsHandshake
  ReconnectIsAnswered
  FailureIsShared
CHECK_DEADLOCK FALSE
