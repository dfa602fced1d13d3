SPECIFICATION FairSpec
CONSTANTS
  MaxSockets = 3
  MaxSubmits = 3
  MaxCaptures = 2
CHECK_DEADLOCK FALSE
INVARIANTS
  CameraFollowsSession
  SessionHasItsSocket
  ReadyIsAnnounced
PROPERTIES
  AcquisitionConcludes
