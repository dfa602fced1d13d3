SPECIFICATION Spec
CONSTANTS
  Conns = {c1, c2, c3}
  NoConn = NoConn
  RoomIds = {lobby}
  NoRoomId = NoRoomId
  MaxPeers = 3
  MaxRooms = 2
  Frames = {"offer", "answer", "ice_candidate", "media_state", "media_failed",
            "refused"}
SYMMETRY Symmetry
CHECK_DEADLOCK FALSE
INVARIANTS
  RolesAssignedIffPaired
  ToldRoleIsEnforced
  NoGhostParticipants
  EmptyRoomsAreCollected
PROPERTIES
  OfferOncePerPairing
