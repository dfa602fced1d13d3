SPECIFICATION FairSpec
CONSTANTS
  MaxShares = 3
  MaxCalls = 3
  MaxToggles = 1
CHECK_DEADLOCK FALSE
INVARIANTS
  CaptureIsOwned
  ToldWhatIsSent
PROPERTIES
  StopConcludes
