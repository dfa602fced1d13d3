SPECIFICATION FairSpec
CONSTANTS
  Remotes <- MCRemotes
  MaxShares = 2
  MaxContexts = 3
  MaxToggles = 1
CHECK_DEADLOCK FALSE
INVARIANTS
  CaptureIsOwned
  NoFrozenTile
  ShareReachesEveryPeer
PROPERTIES
  ShareConcludes
