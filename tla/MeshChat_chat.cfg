CONSTANTS
  Peers = {1, 2, 3}
  Authors = {2}
  MaxSends = 2
  MaxEpoch = 2
  Failing = {{1, 2}}
SPECIFICATION ChatFairSpec
INVARIANTS
  OrderedAndOnce
PROPERTIES
  CountedMessagesArrive
CHECK_DEADLOCK FALSE
