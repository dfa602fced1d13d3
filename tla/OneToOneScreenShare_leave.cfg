SPECIFICATION Spec
CONSTANTS
  MaxShares = 1
  MaxCalls = 1
  MaxToggles = 0
CHECK_DEADLOCK FALSE
INVARIANTS
  LeavingStopsTheScreen
