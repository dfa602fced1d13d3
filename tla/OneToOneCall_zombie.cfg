SPECIFICATION FairSpec
CONSTANTS
  MaxPeers = 2
  MaxCandidates = 1
  Gatherers = {1}
  Failing = {}
CHECK_DEADLOCK FALSE
PROPERTIES
  NoZombieConnection
