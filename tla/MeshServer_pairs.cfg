CONSTANTS
  MaxSlots = 2
  MaxPeers = 3
  Conns = {c1, c2}
  NoConn = NoConn
  RoomIds = {lobby}
  NoRoomId = NoRoomId
  MaxRooms = 1
  MaxEpoch = 3
  Frames = {"media_failed", "pair_failed", "reconnect_pair", "relay",
            "pair_media_state", "refused"}
SPECIFICATION FairSpec
INVARIANTS
  TypeOK
  PairIdNamesItsEndpoints
PROPERTIES
  EpochDiscipline
  ReadyPeersGetPaired
CHECK_DEADLOCK FALSE
