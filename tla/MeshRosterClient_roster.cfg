CONSTANTS
  MaxSlots = 2
  MaxPeers = 3
  Conns = {c1, c2}
  NoConn = NoConn
  RoomIds = {lobby, hall}
  NoRoomId = NoRoomId
  MaxRooms = 2
  MaxEpoch = 1
  Frames = {"media_failed"}
SYMMETRY Symmetry
SPECIFICATION RosterSpec
INVARIANTS
  RosterIsTheRoom
CHECK_DEADLOCK FALSE
