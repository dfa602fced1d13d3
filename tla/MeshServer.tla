----------------------------- MODULE MeshServer -----------------------------
(***************************************************************************)
(* The mesh signaling server: the room registry, the room objects, the     *)
(* per-connection sessions, and the goroutines that serve them             *)
(* (signaling/internal/modes/mesh).                                        *)
(*                                                                         *)
(* One goroutine serves one connection: it reads a frame, runs its handler *)
(* to the end, and reads the next one.  A handler takes the manager's or a *)
(* room's mutex several times and sends between them, so it is one action  *)
(* per critical section and one per send; work[c].at is the next critical  *)
(* section, and out[c] are the sends the handler makes before it.          *)
(*                                                                         *)
(* The lookup Rooms.Room(id) and the room's critical section that follows  *)
(* are one action.  Only c's goroutine adds or removes c's participant,    *)
(* and a room that holds a participant stays registered, so between the    *)
(* two nothing changes that the section looks at first; JoinOrCreate,      *)
(* whose caller holds no slot yet, and Release, which collects the room,   *)
(* keep their sections apart.                                              *)
(***************************************************************************)
EXTENDS MeshRoom

CONSTANTS
  Conns,      \* WebSocket connections
  NoConn,     \* no connection (the nil Conn)
  RoomIds,    \* valid room IDs clients ask for
  NoRoomId,   \* the empty room ID of a session that has not joined
  MaxRooms,   \* bound: room objects the instance allocates
  MaxEpoch,   \* bound: epochs a pair goes through
  Frames      \* optional kinds of frames the instance's clients send

ASSUME ConnsAssumption == NoConn \notin Conns
ASSUME RoomIdsAssumption == NoRoomId \notin RoomIds
ASSUME MaxRoomsAssumption == MaxRooms \in Nat
ASSUME MaxEpochAssumption == MaxEpoch \in Nat
ASSUME FramesAssumption ==
  Frames \subseteq {"media_failed", "pair_failed", "reconnect_pair",
                    "relay", "pair_media_state", "refused"}

RoomObjs == 1..MaxRooms
NoRoom == 0

VARIABLES
  registry,     \* RoomManager.rooms: the room object a room ID names
  created,      \* how many room objects NewRoom has made
  rooms,        \* the room objects, registered or not
  admitted,     \* how many peer IDs have been given out
  participant,  \* what the *Participant of a peer ID holds
  session,      \* SessionMesh: peerID, roomID, released
  work,         \* where a connection's goroutine stands in its handler
  out           \* the sends it still has to make before it goes on

vars == <<registry, created, rooms, admitted, participant, session, work, out>>

-----------------------------------------------------------------------------
(* Participants, sessions and the messages the server writes. *)

Participant == [room : RoomObjs \cup {NoRoom}, index : Nat,
                readiness : {"none", "joined", "media-ready"},
                conn : Conns \cup {NoConn}]

NoParticipant ==
  [room |-> NoRoom, index |-> 0, readiness |-> "none", conn |-> NoConn]

Session == [peer : Peers \cup {NoPeer}, roomId : RoomIds \cup {NoRoomId},
            released : BOOLEAN]

Steps == {"read", "admit", "snapshot", "announce_joined", "announce_ready",
          "evaluate", "gc", "report_released", "announce_departure",
          "finish", "closed"}

Causes == {"none", "media_failed", "graceful_leave", "disconnect"}

Work == [at : Steps, room : RoomObjs \cup {NoRoom},
         roomId : RoomIds \cup {NoRoomId}, subject : Peers \cup {NoPeer},
         remaining : SUBSET Peers, cause : Causes]

\* A handler at step s, in room r of ID rid, with p its participant.
Handler(s, r, rid, p) ==
  [at |-> s, room |-> r, roomId |-> rid, subject |-> p,
   remaining |-> {}, cause |-> "none"]

Idle == Handler("read", NoRoom, NoRoomId, NoPeer)

\* A handler with nothing left to do but to finish.
Finishing(cause) ==
  [at |-> "finish", room |-> NoRoom, roomId |-> NoRoomId, subject |-> NoPeer,
   remaining |-> {}, cause |-> cause]

Presences == {"joined", "media-ready", "released", "left"}

Relayed == {"pair_offer", "pair_answer", "pair_ice_candidate"}

Message ==
  [type : {"join_accepted", "join_rejected", "participant_released", "error"}]
  \cup [type : {"mesh_roster_snapshot"}, serverSeq : Nat,
        entries : SUBSET [peer : Peers, presence : Presences]]
  \cup [type : {"mesh_roster_update"}, serverSeq : Nat, subject : Peers,
        presence : Presences]
  \cup [type : {"peer_left"}, subject : Peers]
  \cup [type : {"pair_negotiation_instruction", "pair_reconnect_instruction"},
        pair : PairIds, epoch : Nat, role : {"offerer", "answerer"},
        remote : Peers]
  \cup [type : Relayed \cup {"pair_failed"}, pair : PairIds, epoch : Nat,
        from : Peers]
  \cup [type : {"pair_media_state"}, from : Peers]

\* A send: its place in the handler's loop, the session it writes to, the
\* envelope's room ID and the message.
Delivery == [ord : Nat, to : Conns, roomId : RoomIds \cup {NoRoomId},
             msg : Message]

\* Type correctness.
TypeOK ==
  /\ registry \in [RoomIds -> RoomObjs \cup {NoRoom}]
  /\ created \in 0..MaxRooms
  /\ rooms \in [RoomObjs -> Room]
  /\ admitted \in 0..MaxPeers
  /\ participant \in [Peers -> Participant]
  /\ session \in [Conns -> Session]
  /\ work \in [Conns -> Work]
  /\ out \in [Conns -> SUBSET Delivery]

-----------------------------------------------------------------------------
(* Helpers. *)

Init ==
  /\ registry = [rid \in RoomIds |-> NoRoom]
  /\ created = 0
  /\ rooms = [r \in RoomObjs |-> NewRoom]
  /\ admitted = 0
  /\ participant = [p \in Peers |-> NoParticipant]
  /\ session = [c \in Conns |-> [peer |-> NoPeer, roomId |-> NoRoomId,
                                 released |-> FALSE]]
  /\ work = [c \in Conns |-> Idle]
  /\ out = [c \in Conns |-> {}]

\* c's goroutine has made its sends and goes on with step s.
At(c, s) == work[c].at = s /\ out[c] = {}

Joined(c) == session[c].peer # NoPeer

\* RoomManager.Room: the room object a room ID names, or nil.
RoomNamed(rid) == IF rid \in RoomIds THEN registry[rid] ELSE NoRoom

\* r is the room c's session names.
Named(c, r) == r # NoRoom /\ RoomNamed(session[c].roomId) = r

\* The reply to the sender of the frame.
Reply(c, rid, msg) == {[ord |-> 0, to |-> c, roomId |-> rid, msg |-> msg]}

\* One message to each of a set of participants, in admission order; k
\* orders the messages one participant gets.
FanOut(peers, k, rid, msg) ==
  {[ord |-> 2 * participant[p].index + k, to |-> participant[p].conn,
    roomId |-> rid, msg |-> msg] : p \in peers}

RosterUpdate(r, p, presence) ==
  [type |-> "mesh_roster_update", serverSeq |-> rooms[r].rosterSeq + 1,
   subject |-> p, presence |-> presence]

RosterSnapshot(r) ==
  [type |-> "mesh_roster_snapshot", serverSeq |-> rooms[r].rosterSeq + 1,
   entries |-> {[peer |-> p, presence |-> participant[p].readiness] :
                   p \in rooms[r].participants}]

Instruction(type, id, epoch, role, remote) ==
  [type |-> type, pair |-> id, epoch |-> epoch, role |-> role,
   remote |-> remote]

-----------------------------------------------------------------------------
(***************************************************************************)
(* join_room.  JoinOrCreate looks the room up, or makes it, under the      *)
(* manager's mutex, and admits under the room's; handleJoinRoom then sends *)
(* join_accepted, builds and sends the snapshot, and broadcasts.           *)
(***************************************************************************)
\* Bound: no join starts that could need more than MaxPeers admissions.
JoinBudget ==
  admitted + Cardinality({c \in Conns : work[c].at = "admit"}) < MaxPeers

JoinExisting(c, rid) ==
  /\ At(c, "read") /\ ~ Joined(c) /\ JoinBudget
  /\ registry[rid] # NoRoom
  /\ work' = [work EXCEPT ![c] = Handler("admit", registry[rid], rid, NoPeer)]
  /\ UNCHANGED <<registry, created, rooms, admitted, participant, session, out>>

JoinCreating(c, rid) ==
  /\ At(c, "read") /\ ~ Joined(c) /\ JoinBudget
  /\ registry[rid] = NoRoom /\ created < MaxRooms
  /\ created' = created + 1
  /\ registry' = [registry EXCEPT ![rid] = created + 1]
  /\ work' = [work EXCEPT ![c] = Handler("admit", created + 1, rid, NoPeer)]
  /\ UNCHANGED <<rooms, admitted, participant, session, out>>

JoinRejected(c) ==
  /\ At(c, "admit") /\ IsFull(rooms[work[c].room])
  /\ out' = [out EXCEPT ![c] = Reply(c, work[c].roomId, [type |-> "join_rejected"])]
  /\ work' = [work EXCEPT ![c] = Idle]
  /\ UNCHANGED <<registry, created, rooms, admitted, participant, session>>

\* Variant of JoinAccepted with a bug: the release latch is not re-armed.
JoinAcceptedLatched(c) ==
  LET r == work[c].room
      p == admitted + 1
  IN /\ At(c, "admit") /\ admitted < MaxPeers
     /\ \E i \in LowestFree(rooms[r]) :
          rooms' = [rooms EXCEPT ![r] = Admit(@, p, i)]
     /\ admitted' = p
     /\ participant' =
          [participant EXCEPT ![p] =
             [room |-> r, index |-> rooms[r].admissionCounter + 1,
              readiness |-> "joined", conn |-> c]]
     /\ session' = [session EXCEPT ![c] =
                      [@ EXCEPT !.peer = p, !.roomId = work[c].roomId]]
     /\ work' = [work EXCEPT ![c] = [@ EXCEPT !.at = "snapshot", !.subject = p]]
     /\ out' = [out EXCEPT ![c] = Reply(c, work[c].roomId, [type |-> "join_accepted"])]
     /\ UNCHANGED <<registry, created>>

\* Admit, MarkJoined and ResetReleaseLatch: only c's goroutine looks at its
\* session.
JoinAccepted(c) ==
  LET r == work[c].room
      p == admitted + 1
  IN /\ At(c, "admit") /\ admitted < MaxPeers
     /\ \E i \in LowestFree(rooms[r]) :
          rooms' = [rooms EXCEPT ![r] = Admit(@, p, i)]
     /\ admitted' = p
     /\ participant' =
          [participant EXCEPT ![p] =
             [room |-> r, index |-> rooms[r].admissionCounter + 1,
              readiness |-> "joined", conn |-> c]]
     /\ session' = [session EXCEPT ![c] =
                      [peer |-> p, roomId |-> work[c].roomId, released |-> FALSE]]
     /\ work' = [work EXCEPT ![c] = [@ EXCEPT !.at = "snapshot", !.subject = p]]
     /\ out' = [out EXCEPT ![c] =
                  Reply(c, work[c].roomId, [type |-> "join_accepted"])]
     /\ UNCHANGED <<registry, created>>

SendSnapshot(c) ==
  LET r == work[c].room
  IN /\ At(c, "snapshot")
     /\ rooms' = [rooms EXCEPT ![r] = NextRosterSeq(@)]
     /\ out' = [out EXCEPT ![c] = Reply(c, work[c].roomId, RosterSnapshot(r))]
     /\ work' = [work EXCEPT ![c].at = "announce_joined"]
     /\ UNCHANGED <<registry, created, admitted, participant, session>>

\* broadcastRosterUpdate to everyone in the room, the subject included.
Broadcast(c, presence) ==
  LET r == work[c].room
  IN /\ rooms' = [rooms EXCEPT ![r] = NextRosterSeq(@)]
     /\ out' = [out EXCEPT ![c] =
                  FanOut(rooms[r].participants, 0, work[c].roomId,
                         RosterUpdate(r, work[c].subject, presence))]

AnnounceJoined(c) ==
  /\ At(c, "announce_joined")
  /\ Broadcast(c, "joined")
  /\ work' = [work EXCEPT ![c] = Idle]
  /\ UNCHANGED <<registry, created, admitted, participant, session>>

-----------------------------------------------------------------------------
(***************************************************************************)
(* media_ready: the readiness changes in one critical section, the roster  *)
(* update is numbered in a second, and the pairs are evaluated in a third. *)
(***************************************************************************)
MediaReady(c) ==
  LET p == session[c].peer
  IN /\ At(c, "read") /\ Joined(c)
     /\ \E r \in RoomObjs :
          /\ Named(c, r) /\ p \in rooms[r].participants
          /\ participant[p].readiness = "joined"
          /\ work' = [work EXCEPT ![c] =
                        Handler("announce_ready", r, session[c].roomId, p)]
     /\ participant' = [participant EXCEPT ![p].readiness = "media-ready"]
     /\ UNCHANGED <<registry, created, rooms, admitted, session, out>>

\* Variant of AnnounceReady with a bug: the pairs are not evaluated.
AnnounceReadyOnly(c) ==
  /\ At(c, "announce_ready")
  /\ Broadcast(c, "media-ready")
  /\ work' = [work EXCEPT ![c] = Idle]
  /\ UNCHANGED <<registry, created, admitted, participant, session>>

AnnounceReady(c) ==
  /\ At(c, "announce_ready")
  /\ Broadcast(c, "media-ready")
  /\ work' = [work EXCEPT ![c].at = "evaluate"]
  /\ UNCHANGED <<registry, created, admitted, participant, session>>

\* The peers p is to be paired with: media-ready members of its room, the
\* pair not yet in the ledger.
PairIdOf(p, q) == MakePairID(participant[p].index, participant[q].index)

\* Variant of NewPartners with a bug: a newcomer is paired with its elders only.
ElderPartners(r, p) ==
  {q \in rooms[r].participants \ {p} :
     /\ participant[q].readiness = "media-ready" /\ ~ Has(rooms[r], PairIdOf(p, q))
     /\ participant[q].index < participant[p].index}

NewPartners(r, p) ==
  {q \in rooms[r].participants \ {p} :
     participant[q].readiness = "media-ready" /\ ~ Has(rooms[r], PairIdOf(p, q))}

\* Variant of Lo with a bug: the participant that evaluates comes first.
LoEvaluator(p, q) == p

\* The endpoints of the pair of p and q: the lower admission index first.
Lo(p, q) == IF participant[p].index < participant[q].index THEN p ELSE q
Hi(p, q) == IF participant[p].index < participant[q].index THEN q ELSE p

\* The two instructions of a pair, to its offerer first.
Instructions(type, id, epoch, lo, hi, rid, k) ==
  {[ord |-> k, to |-> participant[lo].conn, roomId |-> rid,
    msg |-> Instruction(type, id, epoch, "offerer", hi)],
   [ord |-> k + 1, to |-> participant[hi].conn, roomId |-> rid,
    msg |-> Instruction(type, id, epoch, "answerer", lo)]}

Evaluate(c) ==
  LET r   == work[c].room
      p   == work[c].subject
      new == NewPartners(r, p)
  IN /\ At(c, "evaluate")
     /\ p \in rooms[r].participants
     /\ participant[p].readiness = "media-ready"
     /\ rooms' =
          [rooms EXCEPT ![r] =
             Register(@, [id \in {PairIdOf(p, q) : q \in new} |->
                LET q == CHOOSE q \in new : PairIdOf(p, q) = id
                IN  PairPairing(Lo(p, q), Hi(p, q))])]
     /\ out' = [out EXCEPT ![c] =
                  UNION {Instructions("pair_negotiation_instruction",
                                      PairIdOf(p, q), 1, Lo(p, q), Hi(p, q),
                                      work[c].roomId, 2 * participant[q].index)
                            : q \in new}]
     /\ work' = [work EXCEPT ![c] = Idle]
     /\ UNCHANGED <<registry, created, admitted, participant, session>>

-----------------------------------------------------------------------------
(***************************************************************************)
(* Departures: media_failed, leave_room and the end of the connection.     *)
(* RoomManager.Release takes the participant out in one critical section,  *)
(* and collects the room it emptied in another; the roster update is       *)
(* numbered in a third, for the participants that remained in the first.   *)
(***************************************************************************)
\* What follows Release: the announcement of the departure, or, when the peer
\* was in the room no more, whatever the handler does then.
Resume(w) ==
  CASE w.subject # NoPeer /\ w.cause = "media_failed" ->
                                     [w EXCEPT !.at = "report_released"]
    [] w.subject # NoPeer /\ w.cause # "media_failed" ->
                                     [w EXCEPT !.at = "announce_departure"]
    [] w.subject = NoPeer /\ w.cause = "media_failed" -> Idle
    [] w.subject = NoPeer /\ w.cause # "media_failed" ->
                                     [w EXCEPT !.at = "finish"]

\* Variant of BeginRelease with a bug: the room is looked at too early.
BeginReleaseEarlyLook(c, r, cause) ==
  LET p     == session[c].peer
      after == Release(rooms[r], p)
      w     == [at |-> "gc", room |-> r, roomId |-> session[c].roomId,
                subject |-> IF p \in rooms[r].participants THEN p ELSE NoPeer,
                remaining |-> after.participants, cause |-> cause]
  IN /\ rooms' = [rooms EXCEPT ![r] = after]
     /\ work' = [work EXCEPT ![c] = IF IsEmpty(rooms[r]) THEN w ELSE Resume(w)]

\* The critical section of Release in room r; a room it leaves empty is
\* looked at again.
BeginRelease(c, r, cause) ==
  LET p     == session[c].peer
      after == Release(rooms[r], p)
      w     == [at |-> "gc", room |-> r, roomId |-> session[c].roomId,
                subject |-> IF p \in rooms[r].participants THEN p ELSE NoPeer,
                remaining |-> after.participants, cause |-> cause]
  IN /\ rooms' = [rooms EXCEPT ![r] = after]
     /\ work' = [work EXCEPT ![c] = IF IsEmpty(after) THEN w ELSE Resume(w)]

\* The room is deregistered if it is still the registered one and still empty.
CollectRoom(c) ==
  LET w == work[c]
  IN /\ At(c, "gc")
     /\ registry' =
          IF registry[w.roomId] = w.room /\ IsEmpty(rooms[w.room])
          THEN [registry EXCEPT ![w.roomId] = NoRoom] ELSE registry
     /\ work' = [work EXCEPT ![c] = Resume(w)]
     /\ UNCHANGED <<created, rooms, admitted, participant, session, out>>

\* media_failed does not look at the readiness, nor at the latch it sets.
MediaFailed(c) ==
  /\ "media_failed" \in Frames
  /\ At(c, "read") /\ Joined(c)
  /\ session' = [session EXCEPT ![c].released = TRUE]
  /\ \/ \E r \in RoomObjs : Named(c, r) /\ BeginRelease(c, r, "media_failed")
     \/ /\ RoomNamed(session[c].roomId) = NoRoom
        /\ UNCHANGED <<rooms, work>>
  /\ UNCHANGED <<registry, created, admitted, participant, out>>

ReportReleased(c) ==
  /\ At(c, "report_released")
  /\ out' = [out EXCEPT ![c] =
               Reply(c, work[c].roomId, [type |-> "participant_released"])]
  /\ work' = [work EXCEPT ![c].at = "announce_departure"]
  /\ UNCHANGED <<registry, created, rooms, admitted, participant, session>>

\* releaseAndNotify, of leave_room and of OnDisconnect: ReleaseOnce claims
\* the release or gives it up.
ReleaseAndNotify(c, cause) ==
  /\ At(c, "read")
  /\ session' = [session EXCEPT ![c].released = Joined(c) \/ @]
  /\ \/ /\ Joined(c) /\ ~ session[c].released
        /\ \E r \in RoomObjs : Named(c, r) /\ BeginRelease(c, r, cause)
     \/ /\ \/ ~ Joined(c)
           \/ session[c].released
           \/ RoomNamed(session[c].roomId) = NoRoom
        /\ work' = [work EXCEPT ![c] = Finishing(cause)]
        /\ UNCHANGED rooms
  /\ UNCHANGED <<registry, created, admitted, participant, out>>

LeaveRoom(c) == Joined(c) /\ ReleaseAndNotify(c, "graceful_leave")

\* The read loop ends: the client closed or vanished, or the heartbeat gave
\* the connection up.
Disconnect(c) == ReleaseAndNotify(c, "disconnect")

\* peer_left goes to each remaining participant right after its roster
\* update, and only for a participant that was media-ready.
AnnounceDeparture(c) ==
  LET w == work[c]
      failed == w.cause = "media_failed"
      inCall == participant[w.subject].readiness = "media-ready"
      update == RosterUpdate(w.room, w.subject,
                             IF failed THEN "released" ELSE "left")
      left   == [type |-> "peer_left", subject |-> w.subject]
  IN /\ At(c, "announce_departure")
     /\ rooms' = [rooms EXCEPT ![w.room] = NextRosterSeq(@)]
     /\ out' = [out EXCEPT ![c] =
                  FanOut(w.remaining, 0, w.roomId, update) \cup
                  FanOut(IF inCall /\ ~ failed THEN w.remaining ELSE {},
                         1, w.roomId, left)]
     /\ work' = [work EXCEPT ![c].at = "finish"]
     /\ UNCHANGED <<registry, created, admitted, participant, session>>

\* ClearJoined; leave_room closes the connection, media_failed does not.
Finish(c) ==
  LET w == work[c]
  IN /\ At(c, "finish")
     /\ session' = IF w.cause = "disconnect" THEN session
                   ELSE [session EXCEPT ![c].peer = NoPeer,
                                        ![c].roomId = NoRoomId]
     /\ work' = [work EXCEPT ![c] =
                   IF w.cause = "media_failed" THEN Idle
                   ELSE Handler("closed", NoRoom, NoRoomId, NoPeer)]
     /\ UNCHANGED <<registry, created, rooms, admitted, participant, out>>

-----------------------------------------------------------------------------
(***************************************************************************)
(* Frames about a pair.  The ledger entry must exist, the sender must be   *)
(* one of its endpoints and the epoch it names must be the current one.    *)
(***************************************************************************)
Endpoint(c, r, id) ==
  /\ Has(rooms[r], id)
  /\ session[c].peer \in {rooms[r].pairs[id].lo, rooms[r].pairs[id].hi}

OtherEnd(r, id, p) ==
  LET pair == rooms[r].pairs[id]
  IN  IF pair.lo = p THEN pair.hi ELSE pair.lo

\* Send a frame of c's on to the other endpoint, if it is still there.
Forward(c, r, id, type) ==
  LET q == OtherEnd(r, id, session[c].peer)
  IN  out' = [out EXCEPT ![c] =
         FanOut(rooms[r].participants \cap {q}, 0, session[c].roomId,
                [type |-> type, pair |-> id, epoch |-> rooms[r].pairs[id].epoch,
                 from |-> session[c].peer])]

\* pair_offer comes from the lower index, pair_answer from the higher one,
\* pair_ice_candidate from either.
RelayPair(c, r, id, type) ==
  /\ "relay" \in Frames
  /\ At(c, "read") /\ Joined(c) /\ Named(c, r) /\ Endpoint(c, r, id)
  /\ type = "pair_offer" => session[c].peer = rooms[r].pairs[id].lo
  /\ type = "pair_answer" => session[c].peer = rooms[r].pairs[id].hi
  /\ Forward(c, r, id, type)
  /\ UNCHANGED <<registry, created, rooms, admitted, participant, session, work>>

\* pair_failed marks the pair failed whatever its state.
PairFailed(c, r, id) ==
  /\ "pair_failed" \in Frames
  /\ At(c, "read") /\ Joined(c) /\ Named(c, r) /\ Endpoint(c, r, id)
  /\ rooms' = [rooms EXCEPT ![r] = MarkFailed(@, id)]
  /\ Forward(c, r, id, "pair_failed")
  /\ UNCHANGED <<registry, created, admitted, participant, session, work>>

\* Variant of MayReconnect with a bug: a pair being reconnected will do.
MayReconnectAgain(r, id) ==
  /\ rooms[r].pairs[id].state \in {"failed", "reconnecting"}
  /\ {rooms[r].pairs[id].lo, rooms[r].pairs[id].hi} \subseteq rooms[r].participants

\* The pair must have failed and both endpoints be present.
MayReconnect(r, id) ==
  /\ rooms[r].pairs[id].state = "failed"
  /\ {rooms[r].pairs[id].lo, rooms[r].pairs[id].hi} \subseteq rooms[r].participants

\* reconnect_pair begins the pair's next epoch.
ReconnectPair(c, r, id) ==
  LET pair == rooms[r].pairs[id]
  IN /\ "reconnect_pair" \in Frames
     /\ At(c, "read") /\ Joined(c) /\ Named(c, r) /\ Endpoint(c, r, id)
     /\ pair.epoch < MaxEpoch   \* bound
     /\ MayReconnect(r, id)
     /\ rooms' = [rooms EXCEPT ![r] = Increment(@, id)]
     /\ out' = [out EXCEPT ![c] =
                  Instructions("pair_reconnect_instruction", id, pair.epoch + 1,
                               pair.lo, pair.hi, session[c].roomId, 0)]
     /\ UNCHANGED <<registry, created, admitted, participant, session, work>>

\* pair_media_state fans out to everyone but its sender.
PairMediaState(c, r) ==
  LET p == session[c].peer
  IN /\ "pair_media_state" \in Frames
     /\ At(c, "read") /\ Joined(c) /\ Named(c, r)
     /\ p \in rooms[r].participants
     /\ participant[p].readiness = "media-ready"
     /\ out' = [out EXCEPT ![c] =
                  FanOut(rooms[r].participants \ {p}, 0, session[c].roomId,
                         [type |-> "pair_media_state", from |-> p])]
     /\ UNCHANGED <<registry, created, rooms, admitted, participant, session, work>>

\* A frame that fails to decode, or that a handler turns down: the error
\* goes back to its sender and no state changes.
Refuse(c) ==
  /\ "refused" \in Frames
  /\ At(c, "read")
  /\ out' = [out EXCEPT ![c] = Reply(c, NoRoomId, [type |-> "error"])]
  /\ UNCHANGED <<registry, created, rooms, admitted, participant, session, work>>

-----------------------------------------------------------------------------
\* One write of the handler's fan-out, in its order.  A write to a session
\* that is gone fails and is only logged.
NextSends(c) == {d \in out[c] : \A e \in out[c] : d.ord <= e.ord}

Send(c) ==
  /\ \E d \in NextSends(c) : out' = [out EXCEPT ![c] = @ \ {d}]
  /\ UNCHANGED <<registry, created, rooms, admitted, participant, session, work>>

\* The steps of a handler that has begun.
Continue(c) ==
  \/ Send(c)
  \/ JoinRejected(c) \/ JoinAccepted(c) \/ SendSnapshot(c) \/ AnnounceJoined(c)
  \/ AnnounceReady(c) \/ Evaluate(c)
  \/ CollectRoom(c) \/ ReportReleased(c) \/ AnnounceDeparture(c) \/ Finish(c)

\* The frames a client may send next, and the end of its connection.
Read(c) ==
  \/ \E rid \in RoomIds : JoinExisting(c, rid) \/ JoinCreating(c, rid)
  \/ MediaReady(c) \/ MediaFailed(c) \/ LeaveRoom(c) \/ Disconnect(c)
  \/ \E r \in RoomObjs, id \in PairIds :
       \/ \E type \in Relayed : RelayPair(c, r, id, type)
       \/ PairFailed(c, r, id) \/ ReconnectPair(c, r, id)
  \/ \E r \in RoomObjs : PairMediaState(c, r)
  \/ Refuse(c)

Next == \E c \in Conns : Continue(c) \/ Read(c)

Spec == Init /\ [][Next]_vars

\* The Go scheduler runs every goroutine that can run, and a send returns
\* within its timeout; nothing makes a client send a frame.
FairSpec == Spec /\ \A c \in Conns : WF_vars(Continue(c))

-----------------------------------------------------------------------------
(* Properties. *)

Registered(r) == \E rid \in RoomIds : registry[rid] = r

\* data-model A.2: the slot table and the participants map describe the same
\* set, each participant in one slot (room.go Admit and Release write both).
SlotsMatch(rm) ==
  /\ \A i \in 1..MaxSlots : rm.slots[i] # NoPeer => rm.slots[i] \in rm.participants
  /\ \A p \in rm.participants : \E i \in 1..MaxSlots : rm.slots[i] = p
  /\ \A i, j \in 1..MaxSlots :
       rm.slots[i] = rm.slots[j] /\ rm.slots[i] # NoPeer => i = j

SlotsMatchParticipants == \A r \in RoomObjs : SlotsMatch(rooms[r])

\* data-model A.4: an admission index is never reused in a room, whoever has
\* left it since, so a pair ID never comes to name two pairs.
AdmissionIndexNeverReused ==
  \A p, q \in 1..admitted :
    p # q /\ participant[p].room = participant[q].room =>
      participant[p].index # participant[q].index

\* A ledger entry's endpoints are the participants whose admission indices
\* its pair ID names, the offerer the one with the lower index: all that a
\* relay or a reconnect looks at is lo and hi, and all it is sent is the ID.
PairIdNamesItsEndpoints ==
  \A r \in RoomObjs, id \in PairIds :
    LET pair == rooms[r].pairs[id]
    IN  pair.state # "absent" =>
          /\ pair.lo \in Peers /\ pair.hi \in Peers
          /\ participant[pair.lo].room = r /\ participant[pair.lo].index = id[1]
          /\ participant[pair.hi].room = r /\ participant[pair.hi].index = id[2]

\* Whatever the order in which members become media-ready, two of them are
\* paired unless one has yet to evaluate its pairs (evaluateAndEmitInstructions
\* runs in a critical section of its own, after the readiness changed).
ToEvaluate(p) ==
  work[participant[p].conn].at \in {"announce_ready", "evaluate"}

ReadyPairsRegistered ==
  \A r \in RoomObjs : \A p, q \in rooms[r].participants :
    /\ p # q
    /\ participant[p].readiness = "media-ready" /\ ~ ToEvaluate(p)
    /\ participant[q].readiness = "media-ready" /\ ~ ToEvaluate(q)
    => Has(rooms[r], PairIdOf(p, q))

\* A slot of a registered room belongs to a connection that is being served
\* and still speaks for that participant: no departure, retry after
\* media_failed or lost connection leaves a ghost in the room.
NoGhostParticipants ==
  \A r \in RoomObjs : Registered(r) =>
    \A p \in rooms[r].participants :
      LET c == participant[p].conn
      IN /\ c \in Conns /\ session[c].peer = p
         /\ RoomNamed(session[c].roomId) = r
         /\ ~ session[c].released /\ work[c].at # "closed"

\* An empty room does not stay in the registry: a goroutine is about to admit
\* into it, or to look at it again (manager.go Release, the second look).
EmptyRoomsAreCollected ==
  \A r \in RoomObjs : Registered(r) /\ IsEmpty(rooms[r]) =>
    \E c \in Conns : work[c].room = r /\ work[c].at \in {"admit", "gc"}

\* What a step may do to the ledger entry of a pair.
EpochStep(r, id) ==
  LET old == rooms[r].pairs[id]
      new == rooms'[r].pairs[id]
  IN old.state # "absent" =>
       /\ new.state # "absent" /\ new.lo = old.lo /\ new.hi = old.hi
       /\ new.epoch # old.epoch =>
            /\ new.epoch = old.epoch + 1 /\ old.state = "failed"
            /\ {old.lo, old.hi} \subseteq rooms[r].participants

\* An epoch moves by one, from a failed attempt, while both endpoints are in
\* the room: of two simultaneous reconnect clicks one wins, and an entry
\* never changes its endpoints or goes away (reconnect.go).
EpochDiscipline ==
  [][\A r \in RoomObjs, id \in PairIds : EpochStep(r, id)]_vars

\* Two media-ready members of a room are paired in the end, unless one of
\* them goes: the evaluation that pairs them is not lost.
BothReady(p, q) ==
  /\ participant[p].room = participant[q].room
  /\ participant[p].room # NoRoom
  /\ \A x \in {p, q} : /\ x \in rooms[participant[x].room].participants
                      /\ participant[x].readiness = "media-ready"

PairedOrGone(p, q) ==
  \/ ~ BothReady(p, q)
  \/ Has(rooms[participant[p].room], PairIdOf(p, q))

ReadyPeersGetPaired ==
  \A p, q \in Peers : p < q => (BothReady(p, q) ~> PairedOrGone(p, q))

=============================================================================
