SPECIFICATION FairSpec
CONSTANTS
  MaxPeers = 3
  MaxCandidates = 1
  Gatherers = {1}
  Failing = {2}
CHECK_DEADLOCK FALSE
INVARIANTS
  HandleIffInCall
  NoCandidateStranded
PROPERTIES
  NegotiationConcludes
  InCallDepartureEndsCall
