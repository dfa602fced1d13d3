CONSTANTS
  MaxSlots = 2
  MaxPeers = 3
  Conns = {c1, c2, c3}
  NoConn = NoConn
  RoomIds = {lobby}
  NoRoomId = NoRoomId
  MaxRooms = 2
  MaxEpoch = 1
  Frames = {"media_failed"}
SYMMETRY Symmetry
SPECIFICATION Spec
INVARIANTS
  SlotsMatchParticipants
  NoGhostParticipants
  AdmissionIndexNeverReused
  EmptyRoomsAreCollected
  ReadyPairsRegistered
CHECK_DEADLOCK FALSE
