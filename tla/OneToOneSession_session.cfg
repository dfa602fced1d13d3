SPECIFICATION FairSpec
CONSTANTS
  MaxSockets = 3
  MaxJoins = 3
  MaxCaptures = 3
  MaxBacklog = 1
CHECK_DEADLOCK FALSE
INVARIANTS
  CameraFollowsSession
  SessionHasItsSocket
PROPERTIES
  AdmissionConcludes
