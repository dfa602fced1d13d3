SPECIFICATION Spec
CONSTANTS
  MaxSockets = 2
  MaxSubmits = 2
  MaxCaptures = 2
CHECK_DEADLOCK FALSE
INVARIANT LeavingStopsTheCamera
