--------------------------- MODULE OneToOneServer ---------------------------
(***************************************************************************)
(* The one-to-one signaling server: rooms of two slots, the pairing of     *)
(* their occupants, the relay of what they send each other and the clean-  *)
(* up of departures (signaling/internal/modes/onetoone).                   *)
(*                                                                         *)
(* As in MeshServer, one goroutine serves one connection and its handler   *)
(* is one action per critical section and one per send.  A lookup of the   *)
(* caller's own room and the critical section after it are one action: the *)
(* room stays registered while the caller is in it, and where the caller   *)
(* is not in it the section changes nothing.                               *)
(***************************************************************************)
EXTENDS Integers, Sequences, FiniteSets

CONSTANTS
  Conns,      \* WebSocket connections
  NoConn,     \* no connection
  RoomIds,    \* valid room IDs clients ask for
  NoRoomId,   \* the empty room ID
  MaxPeers,   \* bound: admissions the instance performs
  MaxRooms,   \* bound: room objects the instance allocates
  Frames      \* optional kinds of frames the instance's clients send

ASSUME ConnsAssumption == NoConn \notin Conns
ASSUME RoomIdsAssumption == NoRoomId \notin RoomIds
ASSUME MaxPeersAssumption == MaxPeers \in Nat
ASSUME MaxRoomsAssumption == MaxRooms \in Nat

Relayed == {"offer", "answer", "ice_candidate", "media_state"}

ASSUME FramesAssumption == Frames \subseteq Relayed \cup {"media_failed", "refused"}

Peers == 1..MaxPeers
NoPeer == 0
RoomObjs == 1..MaxRooms
NoRoom == 0
Slots == 1..2      \* MaxParticipants is a constant of the code

VARIABLES
  registry,     \* RoomManager.rooms
  created,      \* how many room objects NewRoom has made
  rooms,        \* the room objects, registered or not
  admitted,     \* how many peer IDs have been given to participants
  participant,  \* what the *Participant of a peer ID holds
  session,      \* Session1to1: peerID, roomID, released
  work,         \* where a connection's goroutine stands in its handler
  out           \* the sends it still has to make before it goes on

vars == <<registry, created, rooms, admitted, participant, session, work, out>>

-----------------------------------------------------------------------------
(* Rooms, participants and the messages the server writes. *)

Room == [slots : [Slots -> Peers \cup {NoPeer}], rolesAssigned : BOOLEAN]

NewRoom == [slots |-> [i \in Slots |-> NoPeer], rolesAssigned |-> FALSE]

Occupants(rm) == {rm.slots[i] : i \in Slots} \ {NoPeer}

IsEmpty(rm) == Occupants(rm) = {}

FreeSlots(rm) == {i \in Slots : rm.slots[i] = NoPeer}

IsFull(rm) == FreeSlots(rm) = {}

\* Room.Participants: the occupants in slot order, which is the order of
\* their admission orders.
InSlotOrder(rm) ==
  LET Held(i) == IF rm.slots[i] = NoPeer THEN <<>> ELSE <<rm.slots[i]>>
  IN  Held(1) \o Held(2)

\* Variant of Remove with a bug: the pairing is not taken back.
RemoveKeepsRoles(rm, p) ==
  [rm EXCEPT !.slots = [i \in Slots |-> IF @[i] = p THEN NoPeer ELSE @[i]]]

\* removeParticipant, of a participant that is there.
Remove(rm, p) ==
  [slots |-> [i \in Slots |-> IF rm.slots[i] = p THEN NoPeer ELSE rm.slots[i]],
   rolesAssigned |-> FALSE]

Participant == [room : RoomObjs \cup {NoRoom}, order : {0} \cup Slots,
                media : {"pending-media", "ready"},
                phase : {"idle", "role-assigned", "negotiating"},
                conn : Conns \cup {NoConn}]

NoParticipant == [room |-> NoRoom, order |-> 0, media |-> "pending-media",
                  phase |-> "idle", conn |-> NoConn]

InCall(p) == participant[p].phase \in {"role-assigned", "negotiating"}

Readiness(rm) ==
  CASE IsEmpty(rm) -> "empty"
    [] ~ IsEmpty(rm) /\ \E p \in Occupants(rm) : participant[p].media # "ready" ->
                                                      "waiting_for_media"
    [] ~ IsEmpty(rm) /\ \A p \in Occupants(rm) : participant[p].media = "ready" ->
                          IF IsFull(rm) THEN "paired" ELSE "waiting_for_peer"

Message ==
  [type : {"join_rejected", "participant_released", "error"}]
  \cup [type : {"join_accepted"}, order : Slots, remote : SUBSET Peers,
        readiness : {"waiting_for_media", "waiting_for_peer", "paired"}]
  \cup [type : {"peer_presence_changed"}, subject : Peers,
        presence : {"pending-media", "ready", "released", "left"}]
  \cup [type : {"ready_for_offer"}, role : {"offerer", "answerer"}, remote : Peers]
  \cup [type : {"peer_left"}, peer : Peers]
  \cup [type : Relayed, from : Peers]

Delivery == [to : Conns, msg : Message]

Session == [peer : Peers \cup {NoPeer}, roomId : RoomIds \cup {NoRoomId},
            released : BOOLEAN]

Steps == {"read", "admit", "accept", "announce", "send_roles", "classify",
          "release", "gc", "finish", "closed"}

Causes == {"none", "media_failed", "graceful_leave", "disconnect"}

Work == [at : Steps, room : RoomObjs \cup {NoRoom}, roomId : RoomIds \cup {NoRoomId},
         subject : Peers \cup {NoPeer}, pair : {<<>>} \cup (Peers \X Peers),
         inCall : BOOLEAN, cause : Causes]

Handler(s, r, rid, p, cause) ==
  [at |-> s, room |-> r, roomId |-> rid, subject |-> p, pair |-> <<>>,
   inCall |-> FALSE, cause |-> cause]

Idle == Handler("read", NoRoom, NoRoomId, NoPeer, "none")

\* Type correctness.
TypeOK ==
  /\ registry \in [RoomIds -> RoomObjs \cup {NoRoom}]
  /\ created \in 0..MaxRooms
  /\ rooms \in [RoomObjs -> Room]
  /\ admitted \in 0..MaxPeers
  /\ participant \in [Peers -> Participant]
  /\ session \in [Conns -> Session]
  /\ work \in [Conns -> Work]
  /\ \A c \in Conns : \A i \in DOMAIN out[c] : out[c][i] \in Delivery

Init ==
  /\ registry = [rid \in RoomIds |-> NoRoom]
  /\ created = 0
  /\ rooms = [r \in RoomObjs |-> NewRoom]
  /\ admitted = 0
  /\ participant = [p \in Peers |-> NoParticipant]
  /\ session = [c \in Conns |-> [peer |-> NoPeer, roomId |-> NoRoomId,
                                 released |-> FALSE]]
  /\ work = [c \in Conns |-> Idle]
  /\ out = [c \in Conns |-> <<>>]

\* c's goroutine has made its sends and goes on with step s.
At(c, s) == work[c].at = s /\ out[c] = <<>>

Joined(c) == session[c].peer # NoPeer

\* RoomManager.Room: the room object a room ID names, or nil.
RoomNamed(rid) == IF rid \in RoomIds THEN registry[rid] ELSE NoRoom

\* c's room, with c's participant in it.
Within(c, r) ==
  /\ RoomNamed(session[c].roomId) = r
  /\ session[c].peer \in Occupants(rooms[r])

Reply(c, msg) == <<[to |-> c, msg |-> msg]>>

\* One message to each of a sequence of participants.
FanOut(peers, msg) ==
  [i \in DOMAIN peers |-> [to |-> participant[peers[i]].conn, msg |-> msg]]

-----------------------------------------------------------------------------
(***************************************************************************)
(* join_room.  Admit looks the room up, or makes it, under the manager's   *)
(* mutex, and takes a slot under the room's.                               *)
(***************************************************************************)
\* Bound: no join starts that could need more than MaxPeers admissions.
JoinBudget ==
  admitted + Cardinality({c \in Conns : work[c].at = "admit"}) < MaxPeers

JoinExisting(c, rid) ==
  /\ At(c, "read") /\ ~ Joined(c) /\ JoinBudget
  /\ registry[rid] # NoRoom
  /\ work' = [work EXCEPT ![c] = Handler("admit", registry[rid], rid, NoPeer, "none")]
  /\ UNCHANGED <<registry, created, rooms, admitted, participant, session, out>>

JoinCreating(c, rid) ==
  /\ At(c, "read") /\ ~ Joined(c) /\ JoinBudget
  /\ registry[rid] = NoRoom /\ created < MaxRooms
  /\ created' = created + 1
  /\ registry' = [registry EXCEPT ![rid] = created + 1]
  /\ work' = [work EXCEPT ![c] = Handler("admit", created + 1, rid, NoPeer, "none")]
  /\ UNCHANGED <<rooms, admitted, participant, session, out>>

JoinRejected(c) ==
  /\ At(c, "admit") /\ IsFull(rooms[work[c].room])
  /\ out' = [out EXCEPT ![c] = Reply(c, [type |-> "join_rejected"])]
  /\ work' = [work EXCEPT ![c] = Idle]
  /\ UNCHANGED <<registry, created, rooms, admitted, participant, session>>

\* The order of a participant admitted to slot i.
AdmissionOrder(rm, i) == i

\* addParticipant takes the lowest free slot; MarkJoined, of the session, is
\* c's own.
JoinAccepted(c) ==
  LET r == work[c].room
      p == admitted + 1
  IN /\ At(c, "admit") /\ admitted < MaxPeers
     /\ \E i \in FreeSlots(rooms[r]) :
          /\ \A j \in FreeSlots(rooms[r]) : i <= j
          /\ rooms' = [rooms EXCEPT ![r].slots[i] = p]
          /\ participant' = [participant EXCEPT ![p] =
               [room |-> r, order |-> AdmissionOrder(rooms[r], i),
                media |-> "pending-media", phase |-> "idle", conn |-> c]]
     /\ admitted' = p
     /\ session' = [session EXCEPT ![c] = [@ EXCEPT !.peer = p,
                                                    !.roomId = work[c].roomId]]
     /\ work' = [work EXCEPT ![c] = [@ EXCEPT !.at = "accept", !.subject = p]]
     /\ UNCHANGED <<registry, created, out>>

\* join_accepted shows the room as it is in a second critical section.
Accept(c) ==
  LET rm == rooms[work[c].room]
      p  == work[c].subject
  IN /\ At(c, "accept")
     /\ out' = [out EXCEPT ![c] =
                  Reply(c, [type |-> "join_accepted", order |-> participant[p].order,
                            remote |-> Occupants(rm) \ {p},
                            readiness |-> Readiness(rm)])]
     /\ work' = [work EXCEPT ![c].at = "announce"]
     /\ UNCHANGED <<registry, created, rooms, admitted, participant, session>>

\* broadcastPresence, to both occupants: "pending-media" after an admission,
\* "ready" after media_ready, which is what the subject is then.
Announce(c) ==
  LET p == work[c].subject
  IN /\ At(c, "announce")
     /\ out' = [out EXCEPT ![c] =
                  FanOut(InSlotOrder(rooms[work[c].room]),
                         [type |-> "peer_presence_changed", subject |-> p,
                          presence |-> participant[p].media])]
     /\ work' = [work EXCEPT ![c] = IF @.pair = <<>> THEN Idle
                                    ELSE [@ EXCEPT !.at = "send_roles"]]
     /\ UNCHANGED <<registry, created, rooms, admitted, participant, session>>

-----------------------------------------------------------------------------
(***************************************************************************)
(* media_ready.  The readiness, and the pairing it may complete, change in *)
(* one critical section; the presence and the roles are sent after it.     *)
(***************************************************************************)
\* Variant of StartsPairing with a bug: two occupants are a pair.
StartsPairingWhenFull(r, p) == IsFull(rooms[r])

\* p's becoming ready makes the room paired, and no roles are assigned yet.
StartsPairing(r, p) ==
  /\ IsFull(rooms[r]) /\ ~ rooms[r].rolesAssigned
  /\ \A q \in Occupants(rooms[r]) \ {p} : participant[q].media = "ready"

MediaReady(c) ==
  LET p == session[c].peer
  IN /\ At(c, "read") /\ Joined(c)
     /\ participant[p].media = "pending-media"
     /\ \E r \in RoomObjs :
          LET starts == StartsPairing(r, p)
          IN /\ Within(c, r)
             /\ participant' =
                  [q \in Peers |->
                     [participant[q] EXCEPT
                        !.media = IF q = p THEN "ready" ELSE @,
                        !.phase = IF starts /\ q \in Occupants(rooms[r])
                                  THEN "role-assigned" ELSE @]]
             /\ rooms' = [rooms EXCEPT ![r].rolesAssigned = @ \/ starts]
             /\ work' = [work EXCEPT ![c] =
                  [Handler("announce", r, session[c].roomId, p, "none") EXCEPT
                     !.pair = IF starts THEN InSlotOrder(rooms[r]) ELSE <<>>]]
     /\ UNCHANGED <<registry, created, admitted, session, out>>

\* Variant of Roles with a bug: the peer that completes the pairing offers.
RolesBySubject(pair, subject) ==
  IF pair[1] = subject THEN pair ELSE <<pair[2], pair[1]>>

\* The offerer and the answerer of a pairing: the lower order offers.
Roles(pair, subject) == pair

\* sendReadyForOffer, to the pair captured when the roles were assigned.
SendRoles(c) ==
  LET offerer  == Roles(work[c].pair, work[c].subject)[1]
      answerer == Roles(work[c].pair, work[c].subject)[2]
  IN /\ At(c, "send_roles")
     /\ out' = [out EXCEPT ![c] =
                  FanOut(<<offerer>>, [type |-> "ready_for_offer",
                                       role |-> "offerer", remote |-> answerer])
                  \o FanOut(<<answerer>>, [type |-> "ready_for_offer",
                                           role |-> "answerer", remote |-> offerer])]
     /\ work' = [work EXCEPT ![c] = Idle]
     /\ UNCHANGED <<registry, created, rooms, admitted, participant, session>>

-----------------------------------------------------------------------------
(***************************************************************************)
(* Relays: offer, answer, ice_candidate and media_state.                   *)
(***************************************************************************)
AssignedRole(r, p) ==
  IF \A q \in Occupants(rooms[r]) : participant[p].order <= participant[q].order
  THEN "offerer" ELSE "answerer"

\* CanSendOffer, CanSendAnswer, CanSendIceCandidate and CanSendMediaState.
CanSend(type, r, p) ==
  /\ participant[p].media = "ready"
  /\ \/ /\ type = "offer" /\ AssignedRole(r, p) = "offerer"
        /\ participant[p].phase = "role-assigned"
     \/ /\ type = "answer" /\ AssignedRole(r, p) = "answerer"
        /\ InCall(p)
     \/ /\ type \in {"ice_candidate", "media_state"}
        /\ InCall(p)

\* The first offer or answer takes its sender from role-assigned to
\* negotiating; what is relayed goes to whoever holds the other slot.
Relay(c, type) ==
  LET p == session[c].peer
  IN /\ type \in Frames
     /\ At(c, "read") /\ Joined(c)
     /\ \E r \in RoomObjs : \E q \in Occupants(rooms[r]) \ {p} :
          /\ Within(c, r) /\ CanSend(type, r, p)
          /\ out' = [out EXCEPT ![c] = FanOut(<<q>>, [type |-> type, from |-> p])]
     /\ participant' =
          [participant EXCEPT ![p].phase =
             IF type \in {"offer", "answer"} THEN "negotiating" ELSE @]
     /\ UNCHANGED <<registry, created, rooms, admitted, session, work>>

-----------------------------------------------------------------------------
(***************************************************************************)
(* Departures.  releaseAndNotify classifies the departure in one critical  *)
(* section and releases the slot in a second.                              *)
(***************************************************************************)
\* media_failed: participant_released is sent before the release.
MediaFailed(c) ==
  LET p == session[c].peer
  IN /\ "media_failed" \in Frames
     /\ At(c, "read") /\ Joined(c)
     /\ participant[p].media = "pending-media"
     /\ \E r \in RoomObjs : Within(c, r)
     /\ out' = [out EXCEPT ![c] = Reply(c, [type |-> "participant_released"])]
     /\ work' = [work EXCEPT ![c] =
                   Handler("classify", NoRoom, session[c].roomId, p, "media_failed")]
     /\ UNCHANGED <<registry, created, rooms, admitted, participant, session>>

LeaveRoom(c) ==
  /\ At(c, "read") /\ Joined(c)
  /\ work' = [work EXCEPT ![c] = Handler("classify", NoRoom, session[c].roomId,
                                         session[c].peer, "graceful_leave")]
  /\ UNCHANGED <<registry, created, rooms, admitted, participant, session, out>>

\* OnDisconnect: only a joined connection that has not released has anything
\* to clean up.
Disconnect(c) ==
  /\ At(c, "read")
  /\ \/ /\ Joined(c) /\ ~ session[c].released
        /\ session' = [session EXCEPT ![c].released = TRUE]
        /\ work' = [work EXCEPT ![c] = Handler("classify", NoRoom, session[c].roomId,
                                               session[c].peer, "disconnect")]
     \/ /\ ~ Joined(c) \/ session[c].released
        /\ work' = [work EXCEPT ![c] =
                      Handler("closed", NoRoom, NoRoomId, NoPeer, "disconnect")]
        /\ UNCHANGED session
  /\ UNCHANGED <<registry, created, rooms, admitted, participant, out>>

\* Without a room to its name the departure has nothing to release.
Classify(c) ==
  LET w == work[c]
      r == RoomNamed(w.roomId)
  IN /\ At(c, "classify")
     /\ \/ /\ r # NoRoom
           /\ work' = [work EXCEPT ![c] =
                [w EXCEPT !.at = "release",
                          !.inCall = w.subject \in Occupants(rooms[r]) /\ InCall(w.subject)]]
           /\ UNCHANGED session
        \/ /\ r = NoRoom
           /\ work' = [work EXCEPT ![c] = [w EXCEPT !.at = "finish"]]
           /\ session' = [session EXCEPT ![c].released = TRUE]
     /\ UNCHANGED <<registry, created, rooms, admitted, participant, out>>

\* What the occupant that remains is told of a departure: the presence, and
\* peer_left when the departure was classified as in-call.
Farewell(peers, p, inCall) ==
  FanOut(peers, [type |-> "peer_presence_changed", subject |-> p,
                 presence |-> IF inCall THEN "left" ELSE "released"])
  \o (IF inCall THEN FanOut(peers, [type |-> "peer_left", peer |-> p]) ELSE <<>>)

\* Variant of NextAfterRelease with a bug: an emptied room is left alone.
NextAfterReleaseNoGC(after) == "finish"

\* A room the release left empty is looked at again.
NextAfterRelease(after) == IF IsEmpty(after) THEN "gc" ELSE "finish"

\* RoomManager.Release, and the sends to the occupant that remains.
Release(c) ==
  LET w == work[c]
      r == RoomNamed(w.roomId)
      p == w.subject
  IN /\ At(c, "release")
     /\ \/ /\ r # NoRoom /\ p \in Occupants(rooms[r])
           /\ rooms' = [rooms EXCEPT ![r] = Remove(@, p)]
           /\ out' = [out EXCEPT ![c] =
                        Farewell(InSlotOrder(Remove(rooms[r], p)), p, w.inCall)]
           /\ work' = [work EXCEPT ![c] =
                [w EXCEPT !.at = NextAfterRelease(Remove(rooms[r], p)), !.room = r]]
        \/ /\ r # NoRoom /\ p \notin Occupants(rooms[r])
           /\ work' = [work EXCEPT ![c] =
                         [w EXCEPT !.at = NextAfterRelease(rooms[r]), !.room = r]]
           /\ UNCHANGED <<rooms, out>>
        \/ /\ r = NoRoom
           /\ work' = [work EXCEPT ![c] = [w EXCEPT !.at = "finish"]]
           /\ UNCHANGED <<rooms, out>>
     /\ session' = [session EXCEPT ![c].released = TRUE]
     /\ UNCHANGED <<registry, created, admitted, participant>>

\* The room is deregistered if it is still the registered one and still empty.
CollectRoom(c) ==
  LET w == work[c]
  IN /\ At(c, "gc")
     /\ registry' = IF registry[w.roomId] = w.room /\ IsEmpty(rooms[w.room])
                    THEN [registry EXCEPT ![w.roomId] = NoRoom] ELSE registry
     /\ work' = [work EXCEPT ![c] = [w EXCEPT !.at = "finish"]]
     /\ UNCHANGED <<created, rooms, admitted, participant, session, out>>

\* Variant of AfterDeparture with a bug: the latch stays set.
AfterDepartureLatched(s, cause) ==
  IF cause = "disconnect" THEN s
  ELSE [peer |-> NoPeer, roomId |-> NoRoomId, released |-> s.released]

\* ClearJoined, and ResetReleaseLatch when the connection may join again.
AfterDeparture(s, cause) ==
  IF cause = "disconnect" THEN s
  ELSE [peer |-> NoPeer, roomId |-> NoRoomId,
        released |-> s.released /\ cause # "media_failed"]

Finish(c) ==
  LET w == work[c]
  IN /\ At(c, "finish")
     /\ session' = [session EXCEPT ![c] = AfterDeparture(@, w.cause)]
     /\ work' = [work EXCEPT ![c] =
                   IF w.cause = "media_failed" THEN Idle
                   ELSE Handler("closed", NoRoom, NoRoomId, NoPeer, w.cause)]
     /\ UNCHANGED <<registry, created, rooms, admitted, participant, out>>

-----------------------------------------------------------------------------
\* A frame that fails to decode, that a handler turns down, or that asks for
\* an invalid room ID.
Refuse(c) ==
  /\ "refused" \in Frames
  /\ At(c, "read")
  /\ out' = [out EXCEPT ![c] = Reply(c, [type |-> "error"])]
  /\ UNCHANGED <<registry, created, rooms, admitted, participant, session, work>>

\* The next write of the handler.  It may fail, as the session it goes to may
\* be gone; the sender of an offer or an answer is told so.
Send(c) ==
  /\ out[c] # <<>>
  /\ \/ out' = [out EXCEPT ![c] = Tail(@)]
     \/ /\ Head(out[c]).msg.type \in {"offer", "answer"}
        /\ out' = [out EXCEPT ![c] = Reply(c, [type |-> "error"])]
  /\ UNCHANGED <<registry, created, rooms, admitted, participant, session, work>>

\* The steps of a handler that has begun.
Continue(c) ==
  \/ Send(c)
  \/ JoinRejected(c) \/ JoinAccepted(c) \/ Accept(c) \/ Announce(c) \/ SendRoles(c)
  \/ Classify(c) \/ Release(c) \/ CollectRoom(c) \/ Finish(c)

\* The frames a client may send next, and the end of its connection.
Read(c) ==
  \/ \E rid \in RoomIds : JoinExisting(c, rid) \/ JoinCreating(c, rid)
  \/ MediaReady(c) \/ MediaFailed(c) \/ LeaveRoom(c) \/ Disconnect(c)
  \/ \E type \in Relayed : Relay(c, type)
  \/ Refuse(c)

Next == \E c \in Conns : Continue(c) \/ Read(c)

Spec == Init /\ [][Next]_vars

-----------------------------------------------------------------------------
(* Properties. *)

Registered(r) == \E rid \in RoomIds : registry[rid] = r

\* data-model A.2 (001): ready_for_offer is sent exactly once per pairing
\* attempt.  The flag that guards it is up just while both occupants are
\* media-ready, so that no pairing is missed and none starts twice, and
\* both occupants are then in the call.
RolesAssignedIffPaired ==
  \A r \in RoomObjs :
    LET rm == rooms[r]
    IN /\ rm.rolesAssigned <=>
            IsFull(rm) /\ \A p \in Occupants(rm) : participant[p].media = "ready"
       /\ rm.rolesAssigned => \A p \in Occupants(rm) : InCall(p)

\* The role a peer is told in ready_for_offer, by a goroutine that captured
\* the pair under the lock and sends after it, is the one the relay handlers
\* hold the peer to as long as the pairing lasts.
ToldRoleIsEnforced ==
  \A c \in Conns : \A i \in DOMAIN out[c] :
    LET msg == out[c][i].msg
    IN msg.type = "ready_for_offer" =>
         LET q == msg.remote
             r == participant[q].room
         IN \A p \in Occupants(rooms[r]) \ {q} :
              /\ rooms[r].rolesAssigned /\ q \in Occupants(rooms[r])
              /\ participant[p].conn = out[c][i].to
              => AssignedRole(r, p) = msg.role

\* EC-013, the glare guard of CanSendOffer: a peer that has offered gets to
\* offer again only by a new pairing.
OfferOncePerPairing ==
  [][\A p \in Peers :
       participant[p].phase = "negotiating" /\ participant'[p].phase = "role-assigned"
         => LET r == participant[p].room
            IN ~ rooms[r].rolesAssigned /\ rooms'[r].rolesAssigned]_vars

\* A slot of a registered room belongs to a connection that is being served
\* and still speaks for that participant.
NoGhostParticipants ==
  \A r \in RoomObjs : Registered(r) =>
    \A p \in Occupants(rooms[r]) :
      LET c == participant[p].conn
      IN /\ session[c].peer = p /\ RoomNamed(session[c].roomId) = r
         /\ session[c].released => work[c].at \in {"classify", "release"}
         /\ work[c].at # "closed"

\* An empty room does not stay in the registry.
EmptyRoomsAreCollected ==
  \A r \in RoomObjs : Registered(r) /\ IsEmpty(rooms[r]) =>
    \E c \in Conns : work[c].room = r /\ work[c].at \in {"admit", "gc"}

=============================================================================
