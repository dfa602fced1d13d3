SPECIFICATION Spec
CONSTANTS
  MaxSockets = 2
  MaxJoins = 2
  MaxCaptures = 2
  MaxBacklog = 1
CHECK_DEADLOCK FALSE
INVARIANT RejoinIsAFreshJoin
