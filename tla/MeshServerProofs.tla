-------------------------- MODULE MeshServerProofs --------------------------
(***************************************************************************)
(* Proofs about the mesh server, and about the rosters its clients keep,   *)
(* for every number of connections, rooms and slots and every bound.  IInv *)
(* is the inductive invariant: the types, and what a handler's local       *)
(* variables and the ledger may rely on between two critical sections.     *)
(* RegistryInv and PairingInv, further down, are what the registry and the *)
(* pair evaluation add to it, and FollowInv, last, what the rosters do: of *)
(* everybody a roster is wrong about, somebody has yet to tell its client. *)
(***************************************************************************)
EXTENDS MeshRosterClient, TLAPS

\* A handler past its first section knows its room; one that has admitted or
\* found its participant knows that too.
WorkOK ==
  \A c \in Conns :
    LET w == work[c]
    IN /\ w.at \notin {"read", "finish", "closed"} =>
            w.room \in RoomObjs /\ w.roomId \in RoomIds
       /\ w.at \in {"snapshot", "announce_joined", "announce_ready", "evaluate",
                    "report_released", "announce_departure"} =>
            w.subject \in 1..admitted
       /\ w.subject \in 0..admitted
       /\ w.remaining \subseteq 1..admitted

\* Every peer ID given out belongs to an admission into a room.
ParticipantsOK ==
  \A p \in 1..admitted :
    LET x == participant[p]
    IN /\ x.room \in RoomObjs /\ x.conn \in Conns
       /\ x.readiness \in {"joined", "media-ready"}
       /\ x.index \in 1..rooms[x.room].admissionCounter

\* A room holds peers admitted into it, and has admitted no more than all.
RoomsOK ==
  \A r \in RoomObjs :
    /\ rooms[r].admissionCounter <= admitted
    /\ \A p \in rooms[r].participants : p \in 1..admitted /\ participant[p].room = r

\* A session speaks for a peer ID that was given out, in a valid room.
SessionsOK ==
  \A c \in Conns :
    /\ session[c].peer \in 0..admitted
    /\ session[c].peer # NoPeer => session[c].roomId \in RoomIds

\* The epochs and endpoints of the ledger, by admitted peers.
LedgerOK ==
  \A r \in RoomObjs, id \in PairIds :
    LET pair == rooms[r].pairs[id]
    IN  pair.state # "absent" =>
          /\ pair.lo \in 1..admitted /\ pair.hi \in 1..admitted
          /\ participant[pair.lo].room = r /\ participant[pair.lo].index = id[1]
          /\ participant[pair.hi].room = r /\ participant[pair.hi].index = id[2]

IInv == /\ TypeOK
        /\ WorkOK
        /\ ParticipantsOK
        /\ RoomsOK
        /\ SessionsOK
        /\ AdmissionIndexNeverReused
        /\ LedgerOK

-----------------------------------------------------------------------------
(* The operations on a room. *)

\* What Admit, Release, NextRosterSeq, MarkFailed and Increment return is a
\* room, and which parts of it they leave alone (room.go, roster.go, pair.go).
LEMMA RoomOps ==
  ASSUME NEW rm \in Room, NEW p \in Peers
  PROVE  /\ \A i \in 1..MaxSlots : Admit(rm, p, i) \in Room
         /\ Release(rm, p) \in Room
         /\ Release(rm, p).participants = rm.participants \ {p}
         /\ Release(rm, p).admissionCounter = rm.admissionCounter
         /\ Release(rm, p).pairs = rm.pairs
         /\ NextRosterSeq(rm) \in Room
         /\ NextRosterSeq(rm).participants = rm.participants
         /\ NextRosterSeq(rm).admissionCounter = rm.admissionCounter
         /\ NextRosterSeq(rm).pairs = rm.pairs
<1>1. ASSUME NEW i \in 1..MaxSlots  PROVE  Admit(rm, p, i) \in Room
  <2>1. /\ [rm.slots EXCEPT ![i] = p] \in [1..MaxSlots -> Peers \cup {NoPeer}]
        /\ rm.participants \cup {p} \in SUBSET Peers
        /\ rm.admissionCounter + 1 \in Nat
    BY DEF Room
  <2> QED
    BY <2>1 DEF Admit, Room
<1>2. Release(rm, p) \in Room
  BY DEF Release, Room, NoPeer, Peers
<1>3. NextRosterSeq(rm) \in Room
  BY DEF NextRosterSeq, Room
<1> QED
  BY <1>1, <1>2, <1>3 DEF Release, NextRosterSeq, Room

\* The writes to a ledger entry.
LEMMA LedgerOps ==
  ASSUME NEW rm \in Room, NEW id \in PairIds
  PROVE  /\ MarkFailed(rm, id) \in Room
         /\ Increment(rm, id) \in Room
<1>1. rm.pairs[id] \in Pair
  BY DEF Room
<1>2. MarkFailed(rm, id) \in Room
  BY <1>1 DEF MarkFailed, Room, Pair, PairStates
<1>3. Increment(rm, id) \in Room
  <2>1. [state |-> "reconnecting", epoch |-> rm.pairs[id].epoch + 1,
         lo |-> rm.pairs[id].lo, hi |-> rm.pairs[id].hi] \in Pair
    BY <1>1 DEF Pair, PairStates
  <2> QED
    BY <2>1 DEF Increment, Room
<1> QED
  BY <1>2, <1>3

-----------------------------------------------------------------------------
(* The messages and the sets of sends. *)

LEMMA ReplyType ==
  ASSUME NEW c \in Conns, NEW rid \in RoomIds \cup {NoRoomId}, NEW msg \in Message
  PROVE  Reply(c, rid, msg) \subseteq Delivery
BY DEF Reply, Delivery

LEMMA FanOutType ==
  ASSUME IInv, NEW peers \in SUBSET (1..admitted), NEW k \in Nat,
         NEW rid \in RoomIds \cup {NoRoomId}, NEW msg \in Message
  PROVE  FanOut(peers, k, rid, msg) \subseteq Delivery
<1> SUFFICES ASSUME NEW p \in peers
             PROVE  [ord |-> 2 * participant[p].index + k, to |-> participant[p].conn,
                     roomId |-> rid, msg |-> msg] \in Delivery
  BY DEF FanOut
<1>1. participant[p].conn \in Conns /\ participant[p].index \in Nat
  BY DEF IInv, ParticipantsOK, TypeOK, Participant, RoomsOK, Peers, Room
<1> QED
  BY <1>1 DEF Delivery

LEMMA MessageTypes ==
  ASSUME IInv, NEW r \in RoomObjs
  PROVE  /\ \A t \in {"join_accepted", "join_rejected", "participant_released",
                      "error"} : [type |-> t] \in Message
         /\ \A p \in 1..admitted, pr \in Presences : RosterUpdate(r, p, pr) \in Message
         /\ RosterSnapshot(r) \in Message
<1>1. rooms[r].rosterSeq + 1 \in Nat
  BY DEF IInv, TypeOK, Room
<1>2. \A p \in rooms[r].participants :
        p \in Peers /\ participant[p].readiness \in Presences
  BY DEF IInv, ParticipantsOK, RoomsOK, TypeOK, Room, Presences, Peers
<1>3. RosterSnapshot(r) \in Message
  <2>1. {[peer |-> p, presence |-> participant[p].readiness] :
            p \in rooms[r].participants} \subseteq [peer : Peers, presence : Presences]
    BY <1>2
  <2> QED
    BY <1>1, <2>1 DEF RosterSnapshot, Message
<1>4. ASSUME NEW p \in 1..admitted, NEW pr \in Presences
      PROVE  RosterUpdate(r, p, pr) \in Message
  <2>1. p \in Peers
    BY MaxPeersAssumption DEF IInv, TypeOK, Peers
  <2>2. RosterUpdate(r, p, pr) \in
          [type : {"mesh_roster_update"}, serverSeq : Nat, subject : Peers,
           presence : Presences]
    BY <1>1, <2>1 DEF RosterUpdate
  <2> QED
    BY <2>2 DEF Message
<1>5. \A t \in {"join_accepted", "join_rejected", "participant_released",
                "error"} : [type |-> t] \in Message
  BY DEF Message
<1> QED
  BY <1>3, <1>4, <1>5

-----------------------------------------------------------------------------
(* One lemma per action: it preserves the inductive invariant. *)

\* The parts of the invariant about rooms and participants survive a step
\* that admits nobody, moves no counter and no ledger entry.
LEMMA RoomsKept ==
  ASSUME IInv, UNCHANGED admitted,
         \A p \in 1..admitted :
            /\ participant'[p].room = participant[p].room
            /\ participant'[p].index = participant[p].index
            /\ participant'[p].conn = participant[p].conn
            /\ participant'[p].readiness \in {"joined", "media-ready"},
         \A r \in RoomObjs :
            /\ rooms'[r].admissionCounter = rooms[r].admissionCounter
            /\ rooms'[r].participants \subseteq rooms[r].participants
            /\ rooms'[r].pairs = rooms[r].pairs
  PROVE  ParticipantsOK' /\ RoomsOK' /\ AdmissionIndexNeverReused' /\ LedgerOK'
<1>1. ParticipantsOK'
  BY DEF IInv, ParticipantsOK
<1>2. RoomsOK'
  BY DEF IInv, RoomsOK
<1>3. AdmissionIndexNeverReused'
  BY DEF IInv, AdmissionIndexNeverReused
<1>4. LedgerOK'
  <2> SUFFICES ASSUME NEW r \in RoomObjs, NEW id \in PairIds,
                      rooms[r].pairs[id].state # "absent"
               PROVE  LET pair == rooms[r].pairs[id]
                      IN /\ pair.lo \in 1..admitted /\ pair.hi \in 1..admitted
                         /\ participant'[pair.lo].room = r
                         /\ participant'[pair.lo].index = id[1]
                         /\ participant'[pair.hi].room = r
                         /\ participant'[pair.hi].index = id[2]
    BY SMTT(20) DEF LedgerOK
  <2> QED
    BY SMTT(20) DEF IInv, LedgerOK
<1> QED
  BY <1>1, <1>2, <1>3, <1>4

\* In particular one that changes no room and no participant.
LEMMA RoomsUnchanged ==
  ASSUME IInv, UNCHANGED <<rooms, admitted, participant>>
  PROVE  ParticipantsOK' /\ RoomsOK' /\ AdmissionIndexNeverReused' /\ LedgerOK'
BY RoomsKept DEF IInv, ParticipantsOK

LEMMA InitStep == Init => IInv
<1> SUFFICES ASSUME Init PROVE IInv
  OBVIOUS
<1>1. NewRoom \in Room
  BY DEF NewRoom, Room, Pair, NoPair, PairStates, NoPeer
<1>2. TypeOK
  BY <1>1, MaxPeersAssumption, MaxRoomsAssumption
  DEF Init, TypeOK, NoParticipant, Participant, Session, Idle, Handler, Work, Steps,
      Causes, RoomObjs, NoRoom, NoPeer
<1>3. LedgerOK
  BY DEF Init, LedgerOK, NewRoom, NoPair
<1>4. WorkOK /\ SessionsOK
  BY DEF Init, WorkOK, SessionsOK, Idle, Handler, NoPeer
<1>5. ParticipantsOK /\ RoomsOK /\ AdmissionIndexNeverReused
  BY DEF Init, ParticipantsOK, RoomsOK, AdmissionIndexNeverReused, NewRoom
<1> QED
  BY <1>2, <1>3, <1>4, <1>5 DEF IInv

LEMMA JoinExistingStep ==
  ASSUME IInv, NEW c \in Conns, NEW rid \in RoomIds, JoinExisting(c, rid)
  PROVE  IInv'
<1> USE DEF JoinExisting
<1>1. registry[rid] \in RoomObjs
  BY DEF IInv, TypeOK
<1>2. TypeOK'
  BY <1>1 DEF IInv, TypeOK, Idle, Handler, Work, Steps, Causes
<1>3. WorkOK'
  BY <1>1 DEF IInv, TypeOK, WorkOK, Idle, Handler, NoPeer
<1>4. SessionsOK'
  BY DEF IInv, SessionsOK
<1> QED
  BY <1>2, <1>3, <1>4, RoomsUnchanged DEF IInv

LEMMA JoinCreatingStep ==
  ASSUME IInv, NEW c \in Conns, NEW rid \in RoomIds, JoinCreating(c, rid)
  PROVE  IInv'
<1> USE DEF JoinCreating
<1>1. created + 1 \in RoomObjs /\ created + 1 \in 0..MaxRooms
  BY MaxRoomsAssumption DEF IInv, TypeOK, RoomObjs
<1>2. TypeOK'
  BY <1>1 DEF IInv, TypeOK, Idle, Handler, Work, Steps, Causes
<1>3. WorkOK'
  BY <1>1 DEF IInv, TypeOK, WorkOK, Idle, Handler, NoPeer
<1>4. SessionsOK'
  BY DEF IInv, SessionsOK
<1> QED
  BY <1>2, <1>3, <1>4, RoomsUnchanged DEF IInv

LEMMA JoinRejectedStep ==
  ASSUME IInv, NEW c \in Conns, JoinRejected(c)
  PROVE  IInv'
<1> USE DEF JoinRejected
<1>1. work[c].roomId \in RoomIds /\ work[c].room \in RoomObjs
  BY DEF IInv, WorkOK, At
<1>2. Reply(c, work[c].roomId, [type |-> "join_rejected"]) \subseteq Delivery
  BY <1>1, MessageTypes, ReplyType
<1>3. TypeOK'
  BY <1>2 DEF IInv, TypeOK, Idle, Handler, Work, Steps, Causes, NoRoom, NoPeer
<1>4. WorkOK'
  BY DEF IInv, TypeOK, WorkOK, Idle, Handler, NoPeer
<1>5. SessionsOK'
  BY DEF IInv, SessionsOK
<1> QED
  BY <1>3, <1>4, <1>5, RoomsUnchanged DEF IInv

LEMMA JoinAcceptedStep ==
  ASSUME IInv, NEW c \in Conns, JoinAccepted(c)
  PROVE  IInv'
<1> DEFINE r == work[c].room
           p == admitted + 1
<1>1. PICK i \in LowestFree(rooms[r]) : rooms' = [rooms EXCEPT ![r] = Admit(@, p, i)]
  BY DEF JoinAccepted
<1>2. /\ r \in RoomObjs /\ work[c].roomId \in RoomIds
      /\ p \in Peers /\ p \in 0..MaxPeers /\ p \in 1..p
      /\ admitted \in Nat /\ p # NoPeer
  <2>1. work[c].at = "admit" /\ admitted < MaxPeers
    BY DEF JoinAccepted, At
  <2>2. admitted \in 0..MaxPeers
    BY DEF IInv, TypeOK
  <2>3. r \in RoomObjs /\ work[c].roomId \in RoomIds
    BY <2>1 DEF IInv, WorkOK
  <2> QED
    BY <2>1, <2>2, <2>3, MaxPeersAssumption DEF Peers, NoPeer
<1>3. i \in 1..MaxSlots
  BY <1>1 DEF LowestFree, FreeSlots
<1>4. rooms[r] \in Room /\ Admit(rooms[r], p, i) \in Room
  BY <1>2, <1>3, RoomOps DEF IInv, TypeOK
<1>5. /\ rooms'[r].participants = rooms[r].participants \cup {p}
      /\ rooms'[r].admissionCounter = rooms[r].admissionCounter + 1
      /\ rooms'[r].pairs = rooms[r].pairs
      /\ \A s \in RoomObjs \ {r} : rooms'[s] = rooms[s]
      /\ rooms[r].admissionCounter \in Nat
      /\ rooms[r].admissionCounter <= admitted
      /\ \A s \in RoomObjs : rooms'[s].pairs = rooms[s].pairs
  BY <1>1, <1>2, <1>4 DEF Admit, Room, IInv, TypeOK, RoomsOK
<1>6. /\ participant'[p] = [room |-> r, index |-> rooms[r].admissionCounter + 1,
                            readiness |-> "joined", conn |-> c]
      /\ \A q \in 1..admitted : participant'[q] = participant[q]
      /\ admitted' = p
      /\ 1..p = (1..admitted) \cup {p}
  BY <1>2 DEF JoinAccepted, IInv, TypeOK
<1>7. TypeOK'
  <2>1. rooms' \in [RoomObjs -> Room]
    BY <1>1, <1>2, <1>4 DEF IInv, TypeOK
  <2>2. participant' \in [Peers -> Participant]
    BY <1>2, <1>5 DEF JoinAccepted, IInv, TypeOK, Participant
  <2>3. session' \in [Conns -> Session]
    BY <1>2 DEF JoinAccepted, IInv, TypeOK, Session
  <2>4. work' \in [Conns -> Work]
    <3>1. work[c] \in Work
      BY DEF IInv, TypeOK
    <3>2. [work[c] EXCEPT !.at = "snapshot", !.subject = p] \in Work
      BY <1>2, <3>1 DEF Work, Steps
    <3> QED
      BY <3>2 DEF JoinAccepted, IInv, TypeOK
  <2>5. Reply(c, work[c].roomId, [type |-> "join_accepted"]) \subseteq Delivery
    BY <1>2, MessageTypes, ReplyType
  <2>6. out' \in [Conns -> SUBSET Delivery]
    BY <2>5 DEF JoinAccepted, IInv, TypeOK
  <2> QED
    BY <1>2, <2>1, <2>2, <2>3, <2>4, <2>6 DEF JoinAccepted, IInv, TypeOK
<1>8. WorkOK'
  BY <1>2, <1>6 DEF JoinAccepted, IInv, TypeOK, WorkOK, Work
<1>9. SessionsOK'
  BY <1>2, <1>6 DEF JoinAccepted, IInv, TypeOK, SessionsOK, Session
<1>10. ParticipantsOK'
  <2> SUFFICES ASSUME NEW q \in 1..p
               PROVE  /\ participant'[q].room \in RoomObjs
                      /\ participant'[q].conn \in Conns
                      /\ participant'[q].readiness \in {"joined", "media-ready"}
                      /\ participant'[q].index
                            \in 1..rooms'[participant'[q].room].admissionCounter
    BY <1>6 DEF ParticipantsOK
  <2>1. CASE q = p
    BY <2>1, <1>2, <1>5, <1>6
  <2>2. CASE q \in 1..admitted
    <3>1. /\ participant[q].room \in RoomObjs /\ participant[q].conn \in Conns
          /\ participant[q].readiness \in {"joined", "media-ready"}
          /\ participant[q].index \in 1..rooms[participant[q].room].admissionCounter
      BY <2>2 DEF IInv, ParticipantsOK
    <3> QED
      BY <2>2, <3>1, <1>5, <1>6
  <2> QED
    BY <2>1, <2>2, <1>6
<1>11. RoomsOK'
  <2> SUFFICES ASSUME NEW s \in RoomObjs
               PROVE  /\ rooms'[s].admissionCounter <= p
                      /\ \A q \in rooms'[s].participants :
                           q \in 1..p /\ participant'[q].room = s
    BY <1>6 DEF RoomsOK
  <2>1. /\ rooms[s].admissionCounter <= admitted /\ rooms[s].admissionCounter \in Nat
        /\ \A q \in rooms[s].participants : q \in 1..admitted /\ participant[q].room = s
    BY DEF IInv, TypeOK, Room, RoomsOK
  <2>2. CASE s = r
    BY <2>1, <2>2, <1>2, <1>5, <1>6
  <2>3. CASE s # r
    BY <2>1, <2>3, <1>2, <1>5, <1>6
  <2> QED
    BY <2>2, <2>3
<1>12. AdmissionIndexNeverReused'
  <2> SUFFICES ASSUME NEW q \in 1..admitted, participant[q].room = r
               PROVE  participant[q].index # rooms[r].admissionCounter + 1
    BY <1>6 DEF IInv, AdmissionIndexNeverReused
  <2>1. participant[q].index \in 1..rooms[r].admissionCounter
    BY DEF IInv, ParticipantsOK
  <2> QED
    BY <1>5, <2>1
<1>13. LedgerOK'
  <2> SUFFICES ASSUME NEW s \in RoomObjs, NEW id \in PairIds,
                      rooms'[s].pairs[id].state # "absent"
               PROVE  LET pair == rooms'[s].pairs[id]
                      IN /\ pair.lo \in 1..admitted' /\ pair.hi \in 1..admitted'
                         /\ participant'[pair.lo].room = s
                         /\ participant'[pair.lo].index = id[1]
                         /\ participant'[pair.hi].room = s
                         /\ participant'[pair.hi].index = id[2]
    BY DEF LedgerOK
  <2> DEFINE pair == rooms[s].pairs[id]
  <2>1. rooms'[s].pairs[id] = pair
    BY <1>5
  <2>2. /\ pair.lo \in 1..admitted /\ pair.hi \in 1..admitted
        /\ participant[pair.lo].room = s /\ participant[pair.lo].index = id[1]
        /\ participant[pair.hi].room = s /\ participant[pair.hi].index = id[2]
    BY <2>1 DEF IInv, LedgerOK
  <2> QED
    BY <2>1, <2>2, <1>6
<1> QED
  BY <1>7, <1>8, <1>9, <1>10, <1>11, <1>12, <1>13 DEF IInv

LEMMA SendSnapshotStep ==
  ASSUME IInv, NEW c \in Conns, SendSnapshot(c)
  PROVE  IInv'
<1> DEFINE r == work[c].room
<1>1. r \in RoomObjs /\ work[c].roomId \in RoomIds /\ work[c].subject \in 1..admitted
  BY DEF SendSnapshot, At, IInv, WorkOK
<1>2. rooms[r] \in Room /\ NextRosterSeq(rooms[r]) \in Room
  BY <1>1, RoomOps, MaxPeersAssumption DEF IInv, TypeOK, Peers
<1>3. Reply(c, work[c].roomId, RosterSnapshot(r)) \subseteq Delivery
  BY <1>1, MessageTypes, ReplyType
<1>4. TypeOK'
  BY <1>1, <1>2, <1>3 DEF SendSnapshot, IInv, TypeOK, Work, Steps
<1>5. WorkOK'
  BY <1>1 DEF SendSnapshot, IInv, TypeOK, WorkOK, Work
<1>6. SessionsOK'
  BY DEF SendSnapshot, IInv, SessionsOK
<1>7. \A s \in RoomObjs :
        /\ rooms'[s].admissionCounter = rooms[s].admissionCounter
        /\ rooms'[s].participants = rooms[s].participants
        /\ rooms'[s].pairs = rooms[s].pairs
  BY <1>1, <1>2 DEF SendSnapshot, IInv, TypeOK, NextRosterSeq, Room
<1>8. ParticipantsOK' /\ RoomsOK' /\ AdmissionIndexNeverReused' /\ LedgerOK'
  BY <1>7, RoomsKept DEF SendSnapshot, IInv, ParticipantsOK
<1> QED
  BY <1>4, <1>5, <1>6, <1>8 DEF IInv

\* A broadcast numbers one roster update and queues it for the whole room.
LEMMA BroadcastStep ==
  ASSUME IInv, NEW c \in Conns, NEW presence \in Presences,
         work[c].at \in {"announce_joined", "announce_ready"},
         Broadcast(c, presence), UNCHANGED <<admitted, participant, session>>
  PROVE  /\ rooms' \in [RoomObjs -> Room]
         /\ out' \in [Conns -> SUBSET Delivery]
         /\ SessionsOK'
         /\ ParticipantsOK' /\ RoomsOK' /\ AdmissionIndexNeverReused' /\ LedgerOK'
<1> DEFINE r == work[c].room
<1>1. r \in RoomObjs /\ work[c].roomId \in RoomIds /\ work[c].subject \in 1..admitted
  BY DEF IInv, WorkOK
<1>2. rooms[r] \in Room /\ NextRosterSeq(rooms[r]) \in Room
  BY <1>1, RoomOps, MaxPeersAssumption DEF IInv, TypeOK, Peers
<1>3. RosterUpdate(r, work[c].subject, presence) \in Message
  BY <1>1, MessageTypes
<1>4. rooms[r].participants \in SUBSET (1..admitted)
  BY <1>1 DEF IInv, RoomsOK
<1>5. FanOut(rooms[r].participants, 0, work[c].roomId,
             RosterUpdate(r, work[c].subject, presence)) \subseteq Delivery
  BY <1>1, <1>3, <1>4, FanOutType
<1>6. rooms' \in [RoomObjs -> Room] /\ out' \in [Conns -> SUBSET Delivery]
  BY <1>1, <1>2, <1>5 DEF Broadcast, IInv, TypeOK
<1>7. \A s \in RoomObjs :
        /\ rooms'[s].admissionCounter = rooms[s].admissionCounter
        /\ rooms'[s].participants = rooms[s].participants
        /\ rooms'[s].pairs = rooms[s].pairs
  BY <1>1, <1>2 DEF Broadcast, IInv, TypeOK, NextRosterSeq, Room
<1>8. ParticipantsOK' /\ RoomsOK' /\ AdmissionIndexNeverReused' /\ LedgerOK'
  BY <1>7, RoomsKept DEF IInv, ParticipantsOK
<1>9. SessionsOK'
  BY DEF IInv, SessionsOK
<1> QED
  BY <1>6, <1>8, <1>9

LEMMA AnnounceJoinedStep ==
  ASSUME IInv, NEW c \in Conns, AnnounceJoined(c)
  PROVE  IInv'
<1>1. /\ rooms' \in [RoomObjs -> Room] /\ out' \in [Conns -> SUBSET Delivery]
      /\ SessionsOK'
      /\ ParticipantsOK' /\ RoomsOK' /\ AdmissionIndexNeverReused' /\ LedgerOK'
  BY BroadcastStep DEF AnnounceJoined, At, Presences
<1>2. TypeOK'
  BY <1>1 DEF AnnounceJoined, IInv, TypeOK, Idle, Handler, Work, Steps, Causes, NoRoom, NoPeer
<1>3. WorkOK'
  BY DEF AnnounceJoined, IInv, TypeOK, WorkOK, Idle, Handler, NoPeer
<1> QED
  BY <1>1, <1>2, <1>3 DEF IInv

LEMMA AnnounceReadyStep ==
  ASSUME IInv, NEW c \in Conns, AnnounceReady(c)
  PROVE  IInv'
<1>1. /\ rooms' \in [RoomObjs -> Room] /\ out' \in [Conns -> SUBSET Delivery]
      /\ SessionsOK'
      /\ ParticipantsOK' /\ RoomsOK' /\ AdmissionIndexNeverReused' /\ LedgerOK'
  BY BroadcastStep DEF AnnounceReady, At, Presences
<1>2. TypeOK'
  BY ZenonT(30), <1>1 DEF AnnounceReady, IInv, TypeOK, Work, Steps
<1>3. WorkOK'
  BY DEF AnnounceReady, At, IInv, TypeOK, WorkOK, Work
<1> QED
  BY <1>1, <1>2, <1>3 DEF IInv

LEMMA MediaReadyStep ==
  ASSUME IInv, NEW c \in Conns, MediaReady(c)
  PROVE  IInv'
<1> DEFINE p == session[c].peer
<1>1. PICK r \in RoomObjs :
        /\ p \in rooms[r].participants
        /\ work' = [work EXCEPT ![c] =
                      Handler("announce_ready", r, session[c].roomId, p)]
  BY DEF MediaReady
<1>2. /\ p \in 1..admitted /\ p \in Peers /\ session[c].roomId \in RoomIds
  BY <1>1, MaxPeersAssumption
  DEF IInv, RoomsOK, SessionsOK, MediaReady, Joined, TypeOK, Peers
<1>3. participant' \in [Peers -> Participant]
  BY <1>2 DEF MediaReady, IInv, TypeOK, Participant
<1>5. TypeOK'
  BY <1>1, <1>2, <1>3 DEF MediaReady, IInv, TypeOK, Handler, Work, Steps, Causes
<1>6. WorkOK'
  BY <1>1, <1>2 DEF MediaReady, IInv, TypeOK, WorkOK, Handler
<1>7. SessionsOK'
  BY DEF MediaReady, IInv, SessionsOK
<1>8. \A q \in 1..admitted :
        /\ participant'[q].room = participant[q].room
        /\ participant'[q].index = participant[q].index
        /\ participant'[q].conn = participant[q].conn
        /\ participant'[q].readiness \in {"joined", "media-ready"}
  BY <1>2, MaxPeersAssumption
  DEF MediaReady, IInv, TypeOK, Participant, ParticipantsOK, Peers
<1>9. ParticipantsOK' /\ RoomsOK' /\ AdmissionIndexNeverReused' /\ LedgerOK'
  BY <1>8, RoomsKept DEF MediaReady
<1> QED
  BY <1>5, <1>6, <1>7, <1>9 DEF IInv

\* Steps that only queue sends for c.
LEMMA OutOnlyStep ==
  ASSUME IInv, NEW c \in Conns, NEW ds \in SUBSET Delivery,
         out' = [out EXCEPT ![c] = ds],
         UNCHANGED <<registry, created, rooms, admitted, participant, session, work>>
  PROVE  IInv'
<1>1. TypeOK' /\ WorkOK' /\ SessionsOK'
  BY DEF IInv, TypeOK, WorkOK, SessionsOK
<1> QED
  BY <1>1, RoomsUnchanged DEF IInv

LEMMA SendStep ==
  ASSUME IInv, NEW c \in Conns, Send(c)
  PROVE  IInv'
<1>1. PICK d \in out[c] : out' = [out EXCEPT ![c] = out[c] \ {d}]
  BY DEF Send, NextSends
<1>2. out[c] \ {d} \in SUBSET Delivery
  BY DEF IInv, TypeOK
<1> QED
  BY <1>1, <1>2, OutOnlyStep DEF Send

LEMMA RefuseStep ==
  ASSUME IInv, NEW c \in Conns, Refuse(c)
  PROVE  IInv'
<1>1. Reply(c, NoRoomId, [type |-> "error"]) \in SUBSET Delivery
  BY ReplyType DEF Message
<1> QED
  BY <1>1, OutOnlyStep DEF Refuse

\* The members of a room a session names, and the ledger entries it may
\* send frames about, are admitted peers.
LEMMA EndpointFacts ==
  ASSUME IInv, NEW c \in Conns, NEW r \in RoomObjs, NEW id \in PairIds,
         Joined(c), Endpoint(c, r, id)
  PROVE  /\ rooms[r].pairs[id] \in Pair
         /\ rooms[r].pairs[id].lo \in 1..admitted
         /\ rooms[r].pairs[id].hi \in 1..admitted
         /\ session[c].peer \in 1..admitted /\ session[c].peer \in Peers
         /\ session[c].roomId \in RoomIds
         /\ rooms[r].pairs[id].epoch \in Nat
<1>1. rooms[r].pairs[id] \in Pair
  BY DEF IInv, TypeOK, Room
<1>2. rooms[r].pairs[id].lo \in 1..admitted /\ rooms[r].pairs[id].hi \in 1..admitted
  BY DEF Endpoint, Has, IInv, LedgerOK
<1>3. session[c].peer \in 1..admitted /\ session[c].roomId \in RoomIds
  BY DEF Joined, IInv, TypeOK, SessionsOK, NoPeer
<1>4. session[c].peer \in Peers
  BY <1>3, MaxPeersAssumption DEF IInv, TypeOK, Peers
<1> QED
  BY <1>1, <1>2, <1>3, <1>4 DEF Pair

LEMMA ForwardType ==
  ASSUME IInv, NEW c \in Conns, NEW r \in RoomObjs, NEW id \in PairIds,
         Joined(c), Endpoint(c, r, id),
         NEW type \in Relayed \cup {"pair_failed"}, Forward(c, r, id, type)
  PROVE  \E ds \in SUBSET Delivery : out' = [out EXCEPT ![c] = ds]
<1> DEFINE q   == OtherEnd(r, id, session[c].peer)
           msg == [type |-> type, pair |-> id, epoch |-> rooms[r].pairs[id].epoch,
                   from |-> session[c].peer]
<1>1. msg \in Message
  BY EndpointFacts DEF Message
<1>2. rooms[r].participants \cap {q} \in SUBSET (1..admitted)
  BY DEF IInv, RoomsOK
<1>3. FanOut(rooms[r].participants \cap {q}, 0, session[c].roomId, msg)
        \in SUBSET Delivery
  <2> HIDE DEF msg, q
  <2> QED
    BY <1>1, <1>2, EndpointFacts, FanOutType
<1> QED
  BY <1>3 DEF Forward

LEMMA RelayPairStep ==
  ASSUME IInv, NEW c \in Conns, NEW r \in RoomObjs, NEW id \in PairIds,
         NEW type \in Relayed, RelayPair(c, r, id, type)
  PROVE  IInv'
<1>1. Joined(c) /\ Endpoint(c, r, id) /\ Forward(c, r, id, type)
  BY DEF RelayPair
<1>2. PICK ds \in SUBSET Delivery : out' = [out EXCEPT ![c] = ds]
  BY <1>1, ForwardType
<1> QED
  BY <1>2, OutOnlyStep DEF RelayPair

LEMMA PairMediaStateStep ==
  ASSUME IInv, NEW c \in Conns, NEW r \in RoomObjs, PairMediaState(c, r)
  PROVE  IInv'
<1> DEFINE p   == session[c].peer
           msg == [type |-> "pair_media_state", from |-> p]
<1>1. /\ p \in 1..admitted /\ p \in Peers /\ session[c].roomId \in RoomIds
      /\ rooms[r].participants \ {p} \in SUBSET (1..admitted)
  BY MaxPeersAssumption
  DEF PairMediaState, Joined, IInv, TypeOK, SessionsOK, RoomsOK, NoPeer, Peers
<1>2. msg \in Message
  BY <1>1 DEF Message
<1>3. FanOut(rooms[r].participants \ {p}, 0, session[c].roomId, msg) \in SUBSET Delivery
  BY <1>1, <1>2, FanOutType
<1> QED
  BY <1>3, OutOnlyStep DEF PairMediaState

\* Rewriting one ledger entry, its endpoints and its presence kept.
LEMMA LedgerWriteStep ==
  ASSUME IInv, NEW c \in Conns, NEW r \in RoomObjs, NEW id \in PairIds,
         Joined(c), Endpoint(c, r, id),
         NEW new \in Pair, new.state # "absent",
         new.lo = rooms[r].pairs[id].lo, new.hi = rooms[r].pairs[id].hi,
         rooms' = [rooms EXCEPT ![r] = [@ EXCEPT !.pairs[id] = new]],
         NEW ds \in SUBSET Delivery, out' = [out EXCEPT ![c] = ds],
         UNCHANGED <<registry, created, admitted, participant, session, work>>
  PROVE  IInv'
<1>1. /\ rooms' \in [RoomObjs -> Room]
      /\ \A s \in RoomObjs :
           /\ rooms'[s].admissionCounter = rooms[s].admissionCounter
           /\ rooms'[s].participants = rooms[s].participants
           /\ \A x \in PairIds : rooms'[s].pairs[x] =
                IF s = r /\ x = id THEN new ELSE rooms[s].pairs[x]
  BY DEF IInv, TypeOK, Room
<1>2. TypeOK' /\ WorkOK' /\ SessionsOK'
  BY <1>1 DEF IInv, TypeOK, WorkOK, SessionsOK
<1>3. ParticipantsOK' /\ RoomsOK' /\ AdmissionIndexNeverReused'
  BY <1>1 DEF IInv, ParticipantsOK, RoomsOK, AdmissionIndexNeverReused
<1>4. LedgerOK'
  <2> SUFFICES ASSUME NEW s \in RoomObjs, NEW x \in PairIds,
                      rooms'[s].pairs[x].state # "absent"
               PROVE  LET pair == rooms'[s].pairs[x]
                      IN /\ pair.lo \in 1..admitted /\ pair.hi \in 1..admitted
                         /\ participant[pair.lo].room = s
                         /\ participant[pair.lo].index = x[1]
                         /\ participant[pair.hi].room = s
                         /\ participant[pair.hi].index = x[2]
    BY <1>1 DEF LedgerOK
  <2>1. CASE s = r /\ x = id
    BY <2>1, <1>1 DEF Endpoint, Has, IInv, LedgerOK
  <2>2. CASE ~ (s = r /\ x = id)
    BY <2>2, <1>1 DEF IInv, LedgerOK
  <2> QED
    BY <2>1, <2>2
<1> QED
  BY <1>2, <1>3, <1>4 DEF IInv

LEMMA PairFailedStep ==
  ASSUME IInv, NEW c \in Conns, NEW r \in RoomObjs, NEW id \in PairIds,
         PairFailed(c, r, id)
  PROVE  IInv'
<1> DEFINE new == [rooms[r].pairs[id] EXCEPT !.state = "failed"]
<1>1. Joined(c) /\ Endpoint(c, r, id) /\ Forward(c, r, id, "pair_failed")
  BY DEF PairFailed
<1>2. PICK ds \in SUBSET Delivery : out' = [out EXCEPT ![c] = ds]
  BY <1>1, ForwardType
<1>3. /\ new \in Pair /\ new.state # "absent"
      /\ new.lo = rooms[r].pairs[id].lo /\ new.hi = rooms[r].pairs[id].hi
  BY <1>1, EndpointFacts DEF Pair, PairStates
<1>4. rooms' = [rooms EXCEPT ![r] = [@ EXCEPT !.pairs[id] = new]]
  BY DEF PairFailed, MarkFailed
<1>5. UNCHANGED <<registry, created, admitted, participant, session, work>>
  BY DEF PairFailed
<1> HIDE DEF new
<1> QED
  BY <1>1, <1>2, <1>3, <1>4, <1>5, LedgerWriteStep

\* The two instructions of a pair are deliveries when its endpoints are
\* admitted peers.
LEMMA InstructionsType ==
  ASSUME IInv, NEW type \in {"pair_negotiation_instruction",
                             "pair_reconnect_instruction"},
         NEW id \in PairIds, NEW epoch \in Nat, NEW lo \in 1..admitted,
         NEW hi \in 1..admitted, NEW rid \in RoomIds, NEW k \in Nat
  PROVE  Instructions(type, id, epoch, lo, hi, rid, k) \subseteq Delivery
<1>1. lo \in Peers /\ hi \in Peers
  BY MaxPeersAssumption DEF IInv, TypeOK, Peers
<1>2. participant[lo].conn \in Conns /\ participant[hi].conn \in Conns
  BY DEF IInv, ParticipantsOK
<1>3. \A role \in {"offerer", "answerer"}, x \in Peers :
        Instruction(type, id, epoch, role, x) \in Message
  BY DEF Instruction, Message
<1> HIDE DEF Message
<1> QED
  BY <1>1, <1>2, <1>3 DEF Instructions, Delivery

LEMMA ReconnectPairStep ==
  ASSUME IInv, NEW c \in Conns, NEW r \in RoomObjs, NEW id \in PairIds,
         ReconnectPair(c, r, id)
  PROVE  IInv'
<1> DEFINE old == rooms[r].pairs[id]
           new == [state |-> "reconnecting", epoch |-> old.epoch + 1,
                   lo |-> old.lo, hi |-> old.hi]
           ds  == Instructions("pair_reconnect_instruction", id, old.epoch + 1,
                               old.lo, old.hi, session[c].roomId, 0)
<1>1. Joined(c) /\ Endpoint(c, r, id) /\ out' = [out EXCEPT ![c] = ds]
  BY DEF ReconnectPair
<1>2. ds \in SUBSET Delivery
  BY <1>1, EndpointFacts, InstructionsType
<1>3. /\ new \in Pair /\ new.state # "absent" /\ new.lo = old.lo /\ new.hi = old.hi
  BY <1>1, EndpointFacts DEF Pair, PairStates
<1>4. rooms' = [rooms EXCEPT ![r] = [@ EXCEPT !.pairs[id] = new]]
  BY DEF ReconnectPair, Increment
<1>5. UNCHANGED <<registry, created, admitted, participant, session, work>>
  BY DEF ReconnectPair
<1> HIDE DEF new, ds
<1> QED
  BY <1>1, <1>2, <1>3, <1>4, <1>5, LedgerWriteStep

\* What a handler goes on with after Release is well-typed, and keeps the
\* room and the peer it released.
LEMMA ResumeFacts ==
  ASSUME NEW w \in Work, w.room \in RoomObjs, w.roomId \in RoomIds,
         w.subject \in 0..admitted, w.remaining \subseteq 1..admitted,
         IInv
  PROVE  /\ Resume(w) \in Work
         /\ \/ Resume(w) = Idle
            \/ /\ Resume(w).at \in {"report_released", "announce_departure", "finish"}
               /\ Resume(w).room \in RoomObjs /\ Resume(w).roomId \in RoomIds
               /\ Resume(w).subject \in 0..admitted
               /\ Resume(w).remaining \subseteq 1..admitted
               /\ Resume(w).at # "finish" => Resume(w).subject \in 1..admitted
<1> USE DEF Work, Steps, Causes, NoPeer
<1>1. CASE w.subject # NoPeer /\ w.cause = "media_failed"
  BY <1>1 DEF Resume, IInv, TypeOK
<1>2. CASE w.subject # NoPeer /\ w.cause # "media_failed"
  BY <1>2 DEF Resume, IInv, TypeOK
<1>3. CASE w.subject = NoPeer /\ w.cause = "media_failed"
  BY <1>3 DEF Resume, Idle, Handler, NoRoom
<1>4. CASE w.subject = NoPeer /\ w.cause # "media_failed"
  BY <1>4 DEF Resume
<1> QED
  BY <1>1, <1>2, <1>3, <1>4

\* A goroutine's new place in its handler keeps the invariant when it is
\* well-typed and carries what the place needs.
LEMMA WorkWriteStep ==
  ASSUME IInv, NEW c \in Conns, NEW w \in Work,
         work' = [work EXCEPT ![c] = w], UNCHANGED admitted,
         \/ w = Idle
         \/ /\ w.at \in {"gc", "report_released", "announce_departure", "finish"}
            /\ w.room \in RoomObjs /\ w.roomId \in RoomIds
            /\ w.subject \in 0..admitted /\ w.remaining \subseteq 1..admitted
            /\ w.at \in {"report_released", "announce_departure"} =>
                  w.subject \in 1..admitted
  PROVE  work' \in [Conns -> Work] /\ WorkOK'
<1>1. work' \in [Conns -> Work]
  BY DEF IInv, TypeOK
<1>2. CASE w = Idle
  BY <1>2 DEF IInv, TypeOK, WorkOK, Idle, Handler, NoPeer
<1>3. CASE w # Idle
  BY <1>3 DEF IInv, TypeOK, WorkOK
<1> QED
  BY <1>1, <1>2, <1>3

LEMMA CollectRoomStep ==
  ASSUME IInv, NEW c \in Conns, CollectRoom(c)
  PROVE  IInv'
<1> DEFINE w == work[c]
<1>1. /\ w \in Work /\ w.at = "gc" /\ w.room \in RoomObjs /\ w.roomId \in RoomIds
      /\ w.subject \in 0..admitted /\ w.remaining \subseteq 1..admitted
  BY DEF CollectRoom, At, IInv, TypeOK, WorkOK
<1>2. /\ work' = [work EXCEPT ![c] = Resume(w)]
      /\ UNCHANGED <<created, rooms, admitted, participant, session, out>>
  BY DEF CollectRoom
<1>3. registry' \in [RoomIds -> RoomObjs \cup {NoRoom}]
  BY DEF CollectRoom, IInv, TypeOK
<1>4. work' \in [Conns -> Work] /\ WorkOK'
  <2> HIDE DEF w
  <2>1. /\ Resume(w) \in Work
        /\ \/ Resume(w) = Idle
           \/ /\ Resume(w).at \in {"report_released", "announce_departure", "finish"}
              /\ Resume(w).room \in RoomObjs /\ Resume(w).roomId \in RoomIds
              /\ Resume(w).subject \in 0..admitted
              /\ Resume(w).remaining \subseteq 1..admitted
              /\ Resume(w).at # "finish" => Resume(w).subject \in 1..admitted
    BY <1>1, ResumeFacts
  <2> QED
    BY <1>2, <2>1, WorkWriteStep
<1>5. TypeOK' /\ SessionsOK'
  BY <1>2, <1>3, <1>4 DEF IInv, TypeOK, SessionsOK
<1> QED
  BY <1>2, <1>4, <1>5, RoomsUnchanged DEF IInv

\* The critical section of Release, whatever the handler does with the
\* session.
LEMMA BeginReleaseStep ==
  ASSUME IInv, NEW c \in Conns, NEW r \in RoomObjs, NEW cause \in Causes,
         Joined(c), Named(c, r), BeginRelease(c, r, cause),
         session' \in [Conns -> Session], SessionsOK',
         UNCHANGED <<registry, created, admitted, participant, out>>
  PROVE  IInv'
<1> DEFINE p     == session[c].peer
           after == Release(rooms[r], p)
           w     == [at |-> "gc", room |-> r, roomId |-> session[c].roomId,
                     subject |-> IF p \in rooms[r].participants THEN p ELSE NoPeer,
                     remaining |-> after.participants, cause |-> cause]
<1>1. /\ p \in 1..admitted /\ p \in Peers /\ session[c].roomId \in RoomIds
      /\ rooms[r] \in Room
  BY MaxPeersAssumption DEF Joined, IInv, TypeOK, SessionsOK, NoPeer, Peers
<1>2. /\ after \in Room
      /\ after.participants = rooms[r].participants \ {p}
      /\ after.admissionCounter = rooms[r].admissionCounter
      /\ after.pairs = rooms[r].pairs
  BY <1>1, RoomOps
<1>3. /\ rooms' = [rooms EXCEPT ![r] = after]
      /\ work' = [work EXCEPT ![c] = IF IsEmpty(after) THEN w ELSE Resume(w)]
  BY DEF BeginRelease
<1>4. after.participants \subseteq 1..admitted
  BY <1>2 DEF IInv, RoomsOK
<1>5. /\ w \in Work /\ w.room \in RoomObjs /\ w.roomId \in RoomIds /\ w.at = "gc"
      /\ w.subject \in 0..admitted /\ w.remaining \subseteq 1..admitted
  <2> HIDE DEF after
  <2>1. after.participants \in SUBSET Peers
    BY <1>2 DEF Room
  <2>2. w.subject \in 0..admitted /\ w.subject \in Peers \cup {NoPeer}
    BY <1>1 DEF IInv, TypeOK, NoPeer
  <2>3. w \in Work
    BY <1>1, <2>1, <2>2 DEF Work, Steps
  <2> QED
    BY <1>1, <1>4, <2>2, <2>3
<1>6. work' \in [Conns -> Work] /\ WorkOK'
  <2> HIDE DEF w
  <2>1. /\ Resume(w) \in Work
        /\ \/ Resume(w) = Idle
           \/ /\ Resume(w).at \in {"report_released", "announce_departure", "finish"}
              /\ Resume(w).room \in RoomObjs /\ Resume(w).roomId \in RoomIds
              /\ Resume(w).subject \in 0..admitted
              /\ Resume(w).remaining \subseteq 1..admitted
              /\ Resume(w).at # "finish" => Resume(w).subject \in 1..admitted
    BY <1>5, ResumeFacts
  <2>2. CASE IsEmpty(after)
    BY <1>3, <1>5, <2>2, WorkWriteStep
  <2>3. CASE ~ IsEmpty(after)
    BY <1>3, <2>1, <2>3, WorkWriteStep
  <2> QED
    BY <2>2, <2>3
<1>7. rooms' \in [RoomObjs -> Room]
  BY <1>2, <1>3 DEF IInv, TypeOK
<1>8. TypeOK'
  BY <1>6, <1>7 DEF IInv, TypeOK
<1>9. \A s \in RoomObjs :
        /\ rooms'[s].admissionCounter = rooms[s].admissionCounter
        /\ rooms'[s].participants \subseteq rooms[s].participants
        /\ rooms'[s].pairs = rooms[s].pairs
  <2> HIDE DEF after
  <2> QED
    BY <1>2, <1>3 DEF IInv, TypeOK
<1>10. ParticipantsOK' /\ RoomsOK' /\ AdmissionIndexNeverReused' /\ LedgerOK'
  BY <1>9, RoomsKept DEF IInv, ParticipantsOK
<1> QED
  BY <1>6, <1>8, <1>10 DEF IInv

LEMMA MediaFailedStep ==
  ASSUME IInv, NEW c \in Conns, MediaFailed(c)
  PROVE  IInv'
<1>1. Joined(c) /\ UNCHANGED <<registry, created, admitted, participant, out>>
  BY DEF MediaFailed
<1>2. session' \in [Conns -> Session] /\ SessionsOK'
  BY DEF MediaFailed, IInv, TypeOK, SessionsOK, Session
<1>3. ASSUME NEW r \in RoomObjs, Named(c, r), BeginRelease(c, r, "media_failed")
      PROVE  IInv'
  BY <1>1, <1>2, <1>3, BeginReleaseStep DEF Causes
<1>4. CASE UNCHANGED <<rooms, work>>
  BY <1>1, <1>2, <1>4, RoomsUnchanged DEF IInv, TypeOK, WorkOK
<1> QED
  BY <1>3, <1>4 DEF MediaFailed

LEMMA ReportReleasedStep ==
  ASSUME IInv, NEW c \in Conns, ReportReleased(c)
  PROVE  IInv'
<1>1. work[c].room \in RoomObjs /\ work[c].roomId \in RoomIds
  BY DEF ReportReleased, At, IInv, WorkOK
<1>2. Reply(c, work[c].roomId, [type |-> "participant_released"]) \subseteq Delivery
  BY <1>1, MessageTypes, ReplyType
<1>3. TypeOK'
  BY ZenonT(30), <1>2 DEF ReportReleased, IInv, TypeOK, Work, Steps
<1>4. WorkOK' /\ SessionsOK'
  BY DEF ReportReleased, At, IInv, TypeOK, WorkOK, Work, SessionsOK
<1> QED
  BY <1>3, <1>4, RoomsUnchanged DEF ReportReleased, IInv

LEMMA ReleaseAndNotifyStep ==
  ASSUME IInv, NEW c \in Conns, NEW cause \in {"graceful_leave", "disconnect"},
         ReleaseAndNotify(c, cause)
  PROVE  IInv'
<1>1. UNCHANGED <<registry, created, admitted, participant, out>>
  BY DEF ReleaseAndNotify
<1>2. session' \in [Conns -> Session] /\ SessionsOK'
  <2>1. (Joined(c) \/ session[c].released) \in BOOLEAN
    BY DEF Joined, IInv, TypeOK, Session
  <2>2. PICK b \in BOOLEAN : session' = [session EXCEPT ![c].released = b]
    BY <2>1 DEF ReleaseAndNotify
  <2> QED
    BY <1>1, <2>2 DEF IInv, TypeOK, SessionsOK, Session
<1>3. ASSUME NEW r \in RoomObjs, Joined(c), Named(c, r), BeginRelease(c, r, cause)
      PROVE  IInv'
  BY <1>1, <1>2, <1>3, BeginReleaseStep DEF Causes
<1>4. ASSUME work' = [work EXCEPT ![c] = Finishing(cause)], UNCHANGED rooms
      PROVE  IInv'
  <2>1. work' \in [Conns -> Work] /\ WorkOK'
    BY <1>1, <1>4
    DEF IInv, TypeOK, WorkOK, Finishing, Work, Steps, Causes, NoRoom, NoPeer
  <2>2. TypeOK'
    BY <1>1, <1>2, <1>4, <2>1 DEF IInv, TypeOK
  <2> QED
    BY <1>1, <1>2, <1>4, <2>1, <2>2, RoomsUnchanged DEF IInv
<1> QED
  BY <1>3, <1>4 DEF ReleaseAndNotify

LEMMA AnnounceDepartureStep ==
  ASSUME IInv, NEW c \in Conns, AnnounceDeparture(c)
  PROVE  IInv'
<1> DEFINE w      == work[c]
           failed == w.cause = "media_failed"
           inCall == participant[w.subject].readiness = "media-ready"
           update == RosterUpdate(w.room, w.subject,
                                  IF failed THEN "released" ELSE "left")
           left   == [type |-> "peer_left", subject |-> w.subject]
           told   == IF inCall /\ ~ failed THEN w.remaining ELSE {}
<1>1. /\ w.room \in RoomObjs /\ w.roomId \in RoomIds /\ w.subject \in 1..admitted
      /\ w.remaining \in SUBSET (1..admitted) /\ told \in SUBSET (1..admitted)
  BY DEF AnnounceDeparture, At, IInv, WorkOK
<1>2. update \in Message
  BY <1>1, MessageTypes DEF Presences
<1>3. left \in Message
  <2>1. w.subject \in Peers
    BY <1>1, MaxPeersAssumption DEF IInv, TypeOK, Peers
  <2> QED
    BY <2>1 DEF Message
<1>4. /\ FanOut(w.remaining, 0, w.roomId, update) \subseteq Delivery
      /\ FanOut(told, 1, w.roomId, left) \subseteq Delivery
  <2> HIDE DEF w, update, left, told
  <2> QED
    BY <1>1, <1>2, <1>3, FanOutType
<1>5. rooms[w.room] \in Room /\ NextRosterSeq(rooms[w.room]) \in Room
  BY <1>1, RoomOps, MaxPeersAssumption DEF IInv, TypeOK, Peers
<1>6. rooms' \in [RoomObjs -> Room] /\ out' \in [Conns -> SUBSET Delivery]
  BY <1>1, <1>4, <1>5 DEF AnnounceDeparture, IInv, TypeOK
<1>7. TypeOK' /\ WorkOK' /\ SessionsOK'
  BY <1>6 DEF AnnounceDeparture, IInv, TypeOK, WorkOK, SessionsOK, Work, Steps
<1>8. \A s \in RoomObjs :
        /\ rooms'[s].admissionCounter = rooms[s].admissionCounter
        /\ rooms'[s].participants = rooms[s].participants
        /\ rooms'[s].pairs = rooms[s].pairs
  BY <1>1, <1>5 DEF AnnounceDeparture, IInv, TypeOK, NextRosterSeq, Room
<1>9. ParticipantsOK' /\ RoomsOK' /\ AdmissionIndexNeverReused' /\ LedgerOK'
  BY <1>8, RoomsKept DEF AnnounceDeparture, IInv, ParticipantsOK
<1> QED
  BY <1>7, <1>9 DEF IInv

LEMMA FinishStep ==
  ASSUME IInv, NEW c \in Conns, Finish(c)
  PROVE  IInv'
<1>1. UNCHANGED <<registry, created, rooms, admitted, participant, out>>
  BY DEF Finish
<1>2. session' \in [Conns -> Session] /\ SessionsOK'
  <2>1. CASE session' = session
    BY <1>1, <2>1 DEF IInv, TypeOK, SessionsOK
  <2>2. CASE session' = [session EXCEPT ![c].peer = NoPeer, ![c].roomId = NoRoomId]
    <3>1. session'[c] = [session[c] EXCEPT !.peer = NoPeer, !.roomId = NoRoomId]
      BY <2>2 DEF IInv, TypeOK
    <3>2. session[c] \in Session /\ \A d \in Conns \ {c} : session'[d] = session[d]
      BY <2>2 DEF IInv, TypeOK
    <3>3. session'[c] \in Session /\ session'[c].peer = NoPeer
      BY <3>1, <3>2 DEF Session
    <3>4. session' \in [Conns -> Session]
      BY <2>2, <3>2, <3>3 DEF IInv, TypeOK
    <3> QED
      BY <1>1, <3>2, <3>3, <3>4 DEF IInv, TypeOK, SessionsOK, NoPeer
  <2> QED
    BY <2>1, <2>2 DEF Finish
<1>3. work' \in [Conns -> Work] /\ WorkOK'
  BY <1>1
  DEF Finish, IInv, TypeOK, WorkOK, Idle, Handler, Work, Steps, Causes, NoRoom, NoPeer
<1>4. TypeOK'
  BY <1>1, <1>2, <1>3 DEF IInv, TypeOK
<1> QED
  BY <1>1, <1>2, <1>3, <1>4, RoomsUnchanged DEF IInv

\* The pairs one evaluation registers: each is named by the admission
\* indices of its endpoints, which differ.
LEMMA NewPairFacts ==
  ASSUME IInv, NEW r \in RoomObjs, NEW p \in 1..admitted, participant[p].room = r,
         NEW q \in NewPartners(r, p)
  PROVE  /\ q \in 1..admitted
         /\ participant[q].room = r
         /\ participant[q].index \in Nat
         /\ PairIdOf(p, q) \in PairIds
         /\ PairIdOf(p, q) = <<participant[Lo(p, q)].index, participant[Hi(p, q)].index>>
         /\ Lo(p, q) \in {p, q} /\ Hi(p, q) \in {p, q}
<1>1. q \in 1..admitted /\ participant[q].room = r /\ p # q
  BY DEF NewPartners, IInv, RoomsOK
<1>2. participant[p].index # participant[q].index
  BY <1>1 DEF IInv, AdmissionIndexNeverReused
<1>3. rooms[r].admissionCounter \in 0..MaxPeers
  BY MaxPeersAssumption DEF IInv, TypeOK, RoomsOK, Room
<1>4. participant[p].index \in Indices /\ participant[q].index \in Indices
  BY <1>1, <1>3, MaxPeersAssumption DEF IInv, ParticipantsOK, Indices
<1>5. CASE participant[p].index < participant[q].index
  BY <1>1, <1>4, <1>5 DEF PairIdOf, MakePairID, PairIds, Lo, Hi, Indices
<1>6. CASE participant[q].index < participant[p].index
  BY <1>1, <1>4, <1>6 DEF PairIdOf, MakePairID, PairIds, Lo, Hi, Indices
<1> QED
  BY <1>2, <1>4, <1>5, <1>6 DEF Indices

LEMMA EvaluateStep ==
  ASSUME IInv, NEW c \in Conns, Evaluate(c)
  PROVE  IInv'
<1> DEFINE r     == work[c].room
           p     == work[c].subject
           new   == NewPartners(r, p)
           pairs == [id \in {PairIdOf(p, q) : q \in new} |->
                       LET q == CHOOSE q \in new : PairIdOf(p, q) = id
                       IN  PairPairing(Lo(p, q), Hi(p, q))]
           sends == UNION {Instructions("pair_negotiation_instruction",
                                        PairIdOf(p, q), 1, Lo(p, q), Hi(p, q),
                                        work[c].roomId, 2 * participant[q].index)
                             : q \in new}
<1>1. /\ r \in RoomObjs /\ work[c].roomId \in RoomIds /\ p \in 1..admitted
      /\ participant[p].room = r
  BY DEF Evaluate, At, IInv, WorkOK, RoomsOK
<1>2. \A q \in new :
         /\ q \in 1..admitted
         /\ participant[q].room = r
         /\ participant[q].index \in Nat
         /\ PairIdOf(p, q) \in PairIds
         /\ PairIdOf(p, q) = <<participant[Lo(p, q)].index, participant[Hi(p, q)].index>>
         /\ Lo(p, q) \in {p, q} /\ Hi(p, q) \in {p, q}
  BY <1>1, NewPairFacts
<1>3. ASSUME NEW id \in DOMAIN pairs
      PROVE  \E q \in new : /\ PairIdOf(p, q) = id
                            /\ pairs[id] = PairPairing(Lo(p, q), Hi(p, q))
  <2> DEFINE q == CHOOSE q \in new : PairIdOf(p, q) = id
  <2>1. \E x \in new : PairIdOf(p, x) = id
    BY <1>3
  <2>2. q \in new /\ PairIdOf(p, q) = id
    BY <2>1
  <2>3. pairs[id] = PairPairing(Lo(p, q), Hi(p, q))
    BY <1>3
  <2> QED
    BY <2>2, <2>3
<1>4. rooms' = [rooms EXCEPT ![r] = Register(@, pairs)]
  BY DEF Evaluate
<1>5. /\ out' = [out EXCEPT ![c] = sends]
      /\ work' = [work EXCEPT ![c] = Idle]
      /\ UNCHANGED <<registry, created, admitted, participant, session>>
  BY DEF Evaluate
<1>6. sends \in SUBSET Delivery
  <2> SUFFICES ASSUME NEW q \in new
               PROVE  Instructions("pair_negotiation_instruction",
                                   PairIdOf(p, q), 1, Lo(p, q), Hi(p, q),
                                   work[c].roomId, 2 * participant[q].index)
                        \subseteq Delivery
    OBVIOUS
  <2>1. /\ PairIdOf(p, q) \in PairIds /\ 2 * participant[q].index \in Nat
        /\ Lo(p, q) \in 1..admitted /\ Hi(p, q) \in 1..admitted
    BY <1>1, <1>2
  <2> QED
    BY <1>1, <2>1, InstructionsType
<1> HIDE DEF pairs, sends, new
<1>7. ASSUME NEW id \in DOMAIN pairs
      PROVE  /\ pairs[id] \in Pair
             /\ pairs[id].lo \in 1..admitted /\ pairs[id].hi \in 1..admitted
             /\ participant[pairs[id].lo].room = r
             /\ participant[pairs[id].lo].index = id[1]
             /\ participant[pairs[id].hi].room = r
             /\ participant[pairs[id].hi].index = id[2]
  <2>1. PICK q \in new : /\ PairIdOf(p, q) = id
                         /\ pairs[id] = PairPairing(Lo(p, q), Hi(p, q))
    BY <1>3, <1>7
  <2>2. Lo(p, q) \in 1..admitted /\ Hi(p, q) \in 1..admitted
    BY <1>1, <1>2
  <2>3. 1..admitted \subseteq Peers
    BY MaxPeersAssumption DEF IInv, TypeOK, Peers
  <2>4. pairs[id] \in Pair
    BY <2>1, <2>2, <2>3 DEF PairPairing, Pair, PairStates
  <2>5. pairs[id].lo = Lo(p, q) /\ pairs[id].hi = Hi(p, q)
    BY <2>1 DEF PairPairing
  <2> QED
    BY <1>1, <1>2, <2>1, <2>2, <2>4, <2>5
<1>8. /\ rooms' \in [RoomObjs -> Room]
      /\ \A s \in RoomObjs :
           /\ rooms'[s].admissionCounter = rooms[s].admissionCounter
           /\ rooms'[s].participants = rooms[s].participants
           /\ \A x \in PairIds :
                rooms'[s].pairs[x] =
                  IF s = r /\ x \in DOMAIN pairs /\ ~ Has(rooms[r], x)
                  THEN pairs[x] ELSE rooms[s].pairs[x]
  <2>1. rooms[r] \in Room
    BY <1>1 DEF IInv, TypeOK
  <2>2. [id \in PairIds |-> IF id \in DOMAIN pairs /\ ~ Has(rooms[r], id)
                            THEN pairs[id] ELSE rooms[r].pairs[id]] \in [PairIds -> Pair]
    BY <1>7, <2>1 DEF Room
  <2>3. Register(rooms[r], pairs) \in Room
    BY <2>1, <2>2 DEF Register, Room
  <2>4. /\ Register(rooms[r], pairs).admissionCounter = rooms[r].admissionCounter
        /\ Register(rooms[r], pairs).participants = rooms[r].participants
        /\ \A x \in PairIds :
             Register(rooms[r], pairs).pairs[x] =
               IF x \in DOMAIN pairs /\ ~ Has(rooms[r], x)
               THEN pairs[x] ELSE rooms[r].pairs[x]
    BY <2>1 DEF Register, Room
  <2>5. \A s \in RoomObjs :
          rooms'[s] = IF s = r THEN Register(rooms[r], pairs) ELSE rooms[s]
    BY <1>1, <1>4 DEF IInv, TypeOK
  <2>6. rooms' \in [RoomObjs -> Room]
    BY <1>1, <1>4, <2>3 DEF IInv, TypeOK
  <2> QED
    BY <2>4, <2>5, <2>6
<1>9. TypeOK' /\ WorkOK' /\ SessionsOK'
  BY <1>5, <1>6, <1>8
  DEF IInv, TypeOK, WorkOK, SessionsOK, Idle, Handler, Work, Steps, Causes, NoRoom, NoPeer
<1>10. ParticipantsOK' /\ RoomsOK' /\ AdmissionIndexNeverReused'
  BY <1>5, <1>8 DEF IInv, ParticipantsOK, RoomsOK, AdmissionIndexNeverReused
<1>11. LedgerOK'
  <2> SUFFICES ASSUME NEW s \in RoomObjs, NEW x \in PairIds,
                      rooms'[s].pairs[x].state # "absent"
               PROVE  LET pair == rooms'[s].pairs[x]
                      IN /\ pair.lo \in 1..admitted /\ pair.hi \in 1..admitted
                         /\ participant[pair.lo].room = s
                         /\ participant[pair.lo].index = x[1]
                         /\ participant[pair.hi].room = s
                         /\ participant[pair.hi].index = x[2]
    BY <1>5 DEF LedgerOK
  <2>1. CASE s = r /\ x \in DOMAIN pairs /\ ~ Has(rooms[r], x)
    BY <2>1, <1>7, <1>8
  <2>2. CASE ~ (s = r /\ x \in DOMAIN pairs /\ ~ Has(rooms[r], x))
    BY <2>2, <1>8 DEF IInv, LedgerOK
  <2> QED
    BY <2>1, <2>2
<1> QED
  BY <1>9, <1>10, <1>11 DEF IInv

-----------------------------------------------------------------------------
(* The theorems. *)

LEMMA NextStep == IInv /\ [Next]_vars => IInv'
<1> SUFFICES ASSUME IInv, [Next]_vars  PROVE IInv'
  OBVIOUS
<1>1. ASSUME NEW c \in Conns, Continue(c)  PROVE IInv'
  BY <1>1, SendStep, JoinRejectedStep, JoinAcceptedStep, SendSnapshotStep,
     AnnounceJoinedStep, AnnounceReadyStep, EvaluateStep, CollectRoomStep,
     ReportReleasedStep, AnnounceDepartureStep, FinishStep
  DEF Continue
<1>2. ASSUME NEW c \in Conns, LeaveRoom(c) \/ Disconnect(c)  PROVE IInv'
  BY <1>2, ReleaseAndNotifyStep DEF LeaveRoom, Disconnect
<1>3. ASSUME NEW c \in Conns, Read(c)  PROVE IInv'
  BY <1>2, <1>3, JoinExistingStep, JoinCreatingStep, MediaReadyStep, MediaFailedStep,
     RelayPairStep, PairFailedStep, ReconnectPairStep, PairMediaStateStep, RefuseStep
  DEF Read
<1>4. CASE UNCHANGED vars
  <2>1. TypeOK' /\ WorkOK' /\ SessionsOK'
    BY <1>4 DEF vars, IInv, TypeOK, WorkOK, SessionsOK
  <2> QED
    BY <1>4, <2>1, RoomsUnchanged DEF vars, IInv
<1> QED
  BY <1>1, <1>3, <1>4 DEF Next

\* The inductive invariant, of which the invariants below are consequences.
THEOREM Inductive == Spec => []IInv
  BY InitStep, NextStep, PTL DEF Spec

\* Every variable keeps its type (and so no handler ever runs without the
\* room, the room ID or the participant it needs).
THEOREM TypeCorrect == Spec => []TypeOK
<1>1. IInv => TypeOK
  BY DEF IInv
<1> QED
  BY <1>1, Inductive, PTL

\* Room.Admit never gives an admission index twice in a room, however many
\* participants come and go (data-model A.4).
THEOREM IndexUniqueness == Spec => []AdmissionIndexNeverReused
<1>1. IInv => AdmissionIndexNeverReused
  BY DEF IInv
<1> QED
  BY <1>1, Inductive, PTL

\* The ledger's entry under a pair ID is about the two participants whose
\* admission indices the ID is made of, for ever: the entries of departed
\* participants are kept, and never taken for those of their successors.
THEOREM LedgerEndpoints == Spec => []PairIdNamesItsEndpoints
<1>1. IInv => PairIdNamesItsEndpoints
  <2>1. IInv => 1..admitted \subseteq Peers
    BY MaxPeersAssumption DEF IInv, TypeOK, Peers
  <2> QED
    BY <2>1 DEF IInv, LedgerOK, PairIdNamesItsEndpoints
<1> QED
  BY <1>1, Inductive, PTL

-----------------------------------------------------------------------------
(* What a step may do to a room: one operation of its methods, or nothing. *)

RoomStep(r) ==
  \/ rooms'[r] = rooms[r]
  \/ rooms'[r] = NextRosterSeq(rooms[r])
  \/ \E i \in LowestFree(rooms[r]) : rooms'[r] = Admit(rooms[r], admitted + 1, i)
  \/ \E p \in Peers : rooms'[r] = Release(rooms[r], p)
  \/ /\ rooms'[r].slots = rooms[r].slots
     /\ rooms'[r].participants = rooms[r].participants
     /\ \A id \in PairIds :
          Has(rooms[r], id) => rooms'[r].pairs[id] = rooms[r].pairs[id]
  \/ \E id \in PairIds : rooms'[r] = MarkFailed(rooms[r], id)
  \/ \E id \in PairIds :
       /\ rooms'[r] = Increment(rooms[r], id)
       /\ rooms[r].pairs[id].state = "failed"
       /\ {rooms[r].pairs[id].lo, rooms[r].pairs[id].hi} \subseteq rooms[r].participants

\* Of the steps of a handler that has begun, all but Evaluate leave the
\* ledgers alone.
LEMMA ContinueRoomStep ==
  ASSUME IInv, NEW c \in Conns, Continue(c), NEW r \in RoomObjs
  PROVE  RoomStep(r)
<1> USE DEF RoomStep
<1>1. rooms \in [RoomObjs -> Room]
  BY DEF IInv, TypeOK
<1>2. CASE JoinAccepted(c)
  <2>1. PICK i \in LowestFree(rooms[work[c].room]) :
          rooms' = [rooms EXCEPT ![work[c].room] = Admit(@, admitted + 1, i)]
    BY <1>2 DEF JoinAccepted
  <2> QED
    BY <1>1, <2>1
<1>3. CASE SendSnapshot(c)
  BY <1>1, <1>3 DEF SendSnapshot
<1>4. CASE AnnounceJoined(c) \/ AnnounceReady(c)
  BY <1>1, <1>4 DEF AnnounceJoined, AnnounceReady, Broadcast
<1>5. CASE Evaluate(c)
  <2>1. PICK new : rooms' = [rooms EXCEPT ![work[c].room] = Register(@, new)]
    BY <1>5 DEF Evaluate
  <2>2. /\ Register(rooms[r], new).slots = rooms[r].slots
        /\ Register(rooms[r], new).participants = rooms[r].participants
        /\ \A id \in PairIds :
             Has(rooms[r], id) => Register(rooms[r], new).pairs[id] = rooms[r].pairs[id]
    BY <1>1 DEF Register, Room
  <2> QED
    BY <1>1, <2>1, <2>2
<1>6. CASE AnnounceDeparture(c)
  BY <1>1, <1>6 DEF AnnounceDeparture
<1>7. CASE Send(c) \/ JoinRejected(c) \/ CollectRoom(c) \/ ReportReleased(c) \/ Finish(c)
  BY <1>7 DEF Send, JoinRejected, CollectRoom, ReportReleased, Finish
<1> QED
  BY <1>2, <1>3, <1>4, <1>5, <1>6, <1>7 DEF Continue

LEMMA ReadRoomStep ==
  ASSUME IInv, NEW c \in Conns, Read(c), NEW r \in RoomObjs
  PROVE  RoomStep(r)
<1> USE DEF RoomStep
<1>1. rooms \in [RoomObjs -> Room]
  BY DEF IInv, TypeOK
<1>2. ASSUME NEW s \in RoomObjs, NEW cause, Joined(c), BeginRelease(c, s, cause)
      PROVE  RoomStep(r)
  <2>1. session[c].peer \in Peers
    BY <1>2, MaxPeersAssumption DEF Joined, IInv, TypeOK, Session
  <2>2. rooms' = [rooms EXCEPT ![s] = Release(rooms[s], session[c].peer)]
    BY <1>2 DEF BeginRelease
  <2> QED
    BY <1>1, <2>1, <2>2
<1>3. CASE MediaFailed(c) \/ LeaveRoom(c) \/ Disconnect(c)
  BY <1>2, <1>3 DEF MediaFailed, LeaveRoom, Disconnect, ReleaseAndNotify
<1>4. ASSUME NEW s \in RoomObjs, NEW id \in PairIds, PairFailed(c, s, id)
      PROVE  RoomStep(r)
  BY <1>1, <1>4 DEF PairFailed
<1>5. ASSUME NEW s \in RoomObjs, NEW id \in PairIds, ReconnectPair(c, s, id)
      PROVE  RoomStep(r)
  BY <1>1, <1>5 DEF ReconnectPair, MayReconnect
<1>6. CASE \/ \E rid \in RoomIds : JoinExisting(c, rid) \/ JoinCreating(c, rid)
           \/ MediaReady(c)
           \/ \E s \in RoomObjs, id \in PairIds, type \in Relayed : RelayPair(c, s, id, type)
           \/ \E s \in RoomObjs : PairMediaState(c, s)
           \/ Refuse(c)
  BY <1>6 DEF JoinExisting, JoinCreating, MediaReady, RelayPair, PairMediaState, Refuse
<1> QED
  BY <1>3, <1>4, <1>5, <1>6 DEF Read

LEMMA RoomSteps ==
  ASSUME IInv, [Next]_vars, NEW r \in RoomObjs  PROVE RoomStep(r)
<1>1. CASE UNCHANGED vars
  BY <1>1 DEF vars, RoomStep
<1> QED
  BY <1>1, ContinueRoomStep, ReadRoomStep DEF Next

\* What a step may do to a ledger entry.
LEMMA EpochSteps ==
  ASSUME IInv, [Next]_vars, NEW r \in RoomObjs, NEW id \in PairIds
  PROVE  EpochStep(r, id)
<1> DEFINE old == rooms[r].pairs[id]
<1> SUFFICES ASSUME old.state # "absent"  PROVE EpochStep(r, id)
  BY DEF EpochStep
<1>1. rooms[r] \in Room /\ old \in Pair
  BY DEF IInv, TypeOK, Room
<1>2. RoomStep(r)
  BY RoomSteps
<1>3. CASE rooms'[r].pairs = rooms[r].pairs
  BY <1>3 DEF EpochStep
<1>4. CASE \A x \in PairIds :
             Has(rooms[r], x) => rooms'[r].pairs[x] = rooms[r].pairs[x]
  BY <1>4 DEF Has, EpochStep
<1>5. ASSUME NEW x \in PairIds, rooms'[r] = MarkFailed(rooms[r], x)
      PROVE  EpochStep(r, id)
  <2>1. rooms'[r].pairs[id] =
          IF id = x THEN [old EXCEPT !.state = "failed"] ELSE old
    BY <1>1, <1>5 DEF MarkFailed, Room
  <2> QED
    BY <1>1, <2>1 DEF Pair, EpochStep
<1>6. ASSUME NEW x \in PairIds, rooms'[r] = Increment(rooms[r], x),
             rooms[r].pairs[x].state = "failed",
             {rooms[r].pairs[x].lo, rooms[r].pairs[x].hi} \subseteq rooms[r].participants
      PROVE  EpochStep(r, id)
  <2>1. rooms'[r].pairs[id] =
          IF id = x THEN [state |-> "reconnecting", epoch |-> old.epoch + 1,
                          lo |-> old.lo, hi |-> old.hi] ELSE old
    BY <1>1, <1>6 DEF Increment, Room
  <2> QED
    BY <1>1, <1>6, <2>1 DEF Pair, EpochStep
<1>7. \/ rooms'[r].pairs = rooms[r].pairs
      \/ \A x \in PairIds : Has(rooms[r], x) => rooms'[r].pairs[x] = rooms[r].pairs[x]
      \/ \E x \in PairIds : rooms'[r] = MarkFailed(rooms[r], x)
      \/ \E x \in PairIds :
           /\ rooms'[r] = Increment(rooms[r], x)
           /\ rooms[r].pairs[x].state = "failed"
           /\ {rooms[r].pairs[x].lo, rooms[r].pairs[x].hi} \subseteq rooms[r].participants
  BY <1>1, <1>2 DEF RoomStep, NextRosterSeq, Admit, Release, Room
<1> QED
  BY <1>3, <1>4, <1>5, <1>6, <1>7

\* A ledger entry keeps its endpoints, and its epoch moves only through
\* Increment: by one, from failed, while both endpoints are in the room.  Two
\* reconnect_pair frames about one failure therefore open one epoch.
THEOREM Epochs == Spec => EpochDiscipline
<1>1. IInv /\ [Next]_vars => [\A r \in RoomObjs, id \in PairIds : EpochStep(r, id)]_vars
  BY EpochSteps
<1> QED
  BY <1>1, Inductive, PTL DEF Spec, EpochDiscipline

\* The slot table and the participants map of every room describe the same
\* set, after any sequence of admissions and releases.
THEOREM SlotTable == Spec => []SlotsMatchParticipants
<1>1. Init => SlotsMatchParticipants
  <2>1. SlotsMatch(NewRoom)
    BY DEF SlotsMatch, NewRoom
  <2> QED
    BY <2>1 DEF Init, SlotsMatchParticipants
<1>2. ASSUME IInv, SlotsMatchParticipants, [Next]_vars, NEW r \in RoomObjs
      PROVE  SlotsMatch(rooms'[r])
  <2>1. rooms[r] \in Room /\ SlotsMatch(rooms[r])
    BY <1>2 DEF IInv, TypeOK, SlotsMatchParticipants
  <2>2. RoomStep(r)
    BY <1>2, RoomSteps
  <2>3. CASE rooms'[r].slots = rooms[r].slots
             /\ rooms'[r].participants = rooms[r].participants
    BY <2>1, <2>3 DEF SlotsMatch
  <2>4. ASSUME NEW i \in LowestFree(rooms[r]),
               rooms'[r] = Admit(rooms[r], admitted + 1, i)
        PROVE  SlotsMatch(rooms'[r])
    <3>1. /\ i \in 1..MaxSlots /\ rooms[r].slots[i] = NoPeer
          /\ admitted + 1 # NoPeer /\ admitted + 1 \notin rooms[r].participants
      BY <1>2, <2>4 DEF LowestFree, FreeSlots, IInv, TypeOK, RoomsOK, NoPeer
    <3>2. /\ rooms'[r].participants = rooms[r].participants \cup {admitted + 1}
          /\ \A j \in 1..MaxSlots :
               rooms'[r].slots[j] = IF j = i THEN admitted + 1 ELSE rooms[r].slots[j]
      BY <2>1, <2>4, <3>1 DEF Admit, Room
    <3>3. \A q \in rooms[r].participants : q # NoPeer
      BY <2>1 DEF Room, Peers, NoPeer
    <3> QED
      BY <2>1, <3>1, <3>2, <3>3 DEF SlotsMatch
  <2>5. ASSUME NEW p \in Peers, rooms'[r] = Release(rooms[r], p)
        PROVE  SlotsMatch(rooms'[r])
    <3>1. /\ rooms'[r].participants = rooms[r].participants \ {p}
          /\ \A j \in 1..MaxSlots :
               rooms'[r].slots[j] =
                 IF rooms[r].slots[j] = p THEN NoPeer ELSE rooms[r].slots[j]
      BY <2>1, <2>5 DEF Release, Room
    <3>2. \A q \in rooms'[r].participants : q # NoPeer /\ q # p
      BY <2>1, <3>1 DEF Room, Peers, NoPeer
    <3> QED
      BY <2>1, <3>1, <3>2 DEF SlotsMatch
  <2>6. \/ rooms'[r].slots = rooms[r].slots
           /\ rooms'[r].participants = rooms[r].participants
        \/ \E i \in LowestFree(rooms[r]) : rooms'[r] = Admit(rooms[r], admitted + 1, i)
        \/ \E p \in Peers : rooms'[r] = Release(rooms[r], p)
    BY <2>1, <2>2 DEF RoomStep, NextRosterSeq, MarkFailed, Increment, Room
  <2> QED
    BY <2>3, <2>4, <2>5, <2>6
<1>3. IInv /\ SlotsMatchParticipants /\ [Next]_vars => SlotsMatchParticipants'
  BY <1>2 DEF SlotsMatchParticipants
<1> QED
  BY <1>1, <1>3, Inductive, PTL DEF Spec

-----------------------------------------------------------------------------
(***************************************************************************)
(* The registry of rooms and the departures: a registered room holds no    *)
(* ghost, an empty one is collected, and no two media-ready members go     *)
(* unpaired.                                                               *)
(***************************************************************************)

\* A handler that has begun a departure.
Departing == {"gc", "report_released", "announce_departure", "finish", "closed"}

\* A room object has one ID at most, and one NewRoom has yet to make holds
\* nobody.
RegistryOK ==
  /\ \A rid \in RoomIds : registry[rid] \in 0..created
  /\ \A a, b \in RoomIds : registry[a] = registry[b] /\ registry[a] # NoRoom => a = b
  /\ \A r \in RoomObjs : r > created => rooms[r].participants = {}

\* The room a handler has in hand between its two looks is, if it is still
\* registered, the one its room ID names.
LooksOK ==
  \A c \in Conns : work[c].at \in {"admit", "gc"} =>
    /\ work[c].room <= created
    /\ Registered(work[c].room) => registry[work[c].roomId] = work[c].room

\* The latch: a departure is begun by a session that has claimed its release
\* or has nothing to release, an admission by one that speaks for nobody.
LatchOK ==
  \A c \in Conns :
    /\ work[c].at = "admit" => ~ Joined(c)
    /\ work[c].at \in Departing => session[c].released \/ ~ Joined(c)

RegistryInv ==
  RegistryOK /\ LooksOK /\ LatchOK /\ NoGhostParticipants /\ EmptyRoomsAreCollected

\* Two media-ready members of a room are paired unless the goroutine that
\* made one of them ready has yet to evaluate that one's pairs.
Evaluates(p) ==
  LET w == work[participant[p].conn]
  IN  w.at \in {"announce_ready", "evaluate"} /\ w.subject = p

PairedOnceEvaluated ==
  \A r \in RoomObjs : \A p, q \in rooms[r].participants :
    /\ p # q
    /\ participant[p].readiness = "media-ready" /\ ~ Evaluates(p)
    /\ participant[q].readiness = "media-ready" /\ ~ Evaluates(q)
    => Has(rooms[r], PairIdOf(p, q))

\* A session speaks for a participant of its own connection.
SpeaksForItsOwn ==
  \A c \in Conns : Joined(c) => participant[session[c].peer].conn = c

PairingInv == SpeaksForItsOwn /\ PairedOnceEvaluated

-----------------------------------------------------------------------------
(* The registry. *)

\* A room without occupied slots has no participants.
LEMMA EmptyRooms ==
  ASSUME IInv, SlotsMatchParticipants, NEW r \in RoomObjs
  PROVE  IsEmpty(rooms[r]) <=> rooms[r].participants = {}
<1>1. rooms[r] \in Room /\ SlotsMatch(rooms[r])
  BY DEF IInv, TypeOK, SlotsMatchParticipants
<1>2. \A p \in rooms[r].participants : p # NoPeer
  BY <1>1 DEF Room, Peers, NoPeer
<1> QED
  BY <1>1, <1>2 DEF SlotsMatch, IsEmpty, FreeSlots

\* No ghost appears where sessions and memberships stay as they are and the
\* registry changes only for rooms that hold nobody.
LEMMA GhostsKept ==
  ASSUME IInv, RegistryInv, LatchOK', UNCHANGED session,
         \A r \in RoomObjs : rooms'[r].participants = rooms[r].participants,
         \A p \in Peers : participant'[p].conn = participant[p].conn,
         \A r \in RoomObjs : rooms[r].participants # {} =>
           \A rid \in RoomIds : registry'[rid] = r <=> registry[rid] = r
  PROVE  NoGhostParticipants'
<1> SUFFICES ASSUME NEW r \in RoomObjs, Registered(r), NEW p \in rooms[r].participants
             PROVE  LET d == participant[p].conn
                    IN /\ d \in Conns /\ session[d].peer = p
                       /\ session[d].roomId \in RoomIds
                       /\ registry'[session[d].roomId] = r
                       /\ ~ session[d].released /\ work'[d].at # "closed"
  <2>1. \A s \in RoomObjs : \A q \in rooms[s].participants : q \in Peers
    BY DEF IInv, TypeOK, Room
  <2> QED
    BY <2>1 DEF NoGhostParticipants, Registered, RoomNamed
<1> DEFINE d == participant[p].conn
<1>1. /\ d \in Conns /\ session[d].peer = p /\ RoomNamed(session[d].roomId) = r
      /\ ~ session[d].released /\ p # NoPeer
  BY DEF RegistryInv, NoGhostParticipants, IInv, TypeOK, Room, Peers, NoPeer
<1>2. session[d].roomId \in RoomIds /\ registry[session[d].roomId] = r
  BY <1>1 DEF RoomNamed, NoRoom, RoomObjs
<1>3. work'[d].at \notin Departing
  BY <1>1 DEF LatchOK, Joined
<1> QED
  BY <1>1, <1>2, <1>3 DEF Departing

\* What a step that is quiet about the registry leaves of the invariant: no
\* room gains or loses anybody, no session changes, and the goroutine that
\* moves stands at neither look, before or after.
LEMMA QuietStep ==
  ASSUME IInv, RegistryInv, NEW c \in Conns,
         UNCHANGED <<registry, created, session>>,
         \A r \in RoomObjs : /\ rooms'[r].participants = rooms[r].participants
                             /\ rooms'[r].slots = rooms[r].slots,
         \A p \in Peers : participant'[p].conn = participant[p].conn,
         \A d \in Conns \ {c} : work'[d] = work[d],
         \/ work'[c] = work[c]
         \/ /\ work[c].at \notin {"admit", "gc"} /\ work'[c].at \notin {"admit", "gc"}
            /\ work'[c].at \in Departing => work[c].at \in Departing
  PROVE  RegistryInv'
<1>1. RegistryOK'
  BY DEF RegistryInv, RegistryOK
<1>2. LooksOK'
  BY DEF RegistryInv, LooksOK, Registered
<1>3. LatchOK'
  BY DEF RegistryInv, LatchOK, Joined
<1>4. NoGhostParticipants'
  BY <1>3, GhostsKept
<1>5. EmptyRoomsAreCollected'
  <2> SUFFICES ASSUME NEW r \in RoomObjs, Registered(r), IsEmpty(rooms[r])
               PROVE  \E d \in Conns : work'[d].room = r /\ work'[d].at \in {"admit", "gc"}
    BY DEF EmptyRoomsAreCollected, Registered, IsEmpty, FreeSlots
  <2> QED
    BY DEF RegistryInv, EmptyRoomsAreCollected
<1> QED
  BY <1>1, <1>2, <1>3, <1>4, <1>5 DEF RegistryInv

\* The operations that leave a room's membership alone.
LEMMA MembershipKept ==
  ASSUME NEW rm \in Room, NEW new
  PROVE  /\ NextRosterSeq(rm).participants = rm.participants
         /\ NextRosterSeq(rm).slots = rm.slots
         /\ Register(rm, new).participants = rm.participants
         /\ Register(rm, new).slots = rm.slots
         /\ \A id \in PairIds :
              /\ MarkFailed(rm, id).participants = rm.participants
              /\ MarkFailed(rm, id).slots = rm.slots
              /\ Increment(rm, id).participants = rm.participants
              /\ Increment(rm, id).slots = rm.slots
BY DEF NextRosterSeq, Register, MarkFailed, Increment, Room

\* The handlers' steps that neither admit, nor release, nor look.
QuietContinue(c) ==
  \/ Send(c) \/ SendSnapshot(c) \/ AnnounceJoined(c) \/ AnnounceReady(c)
  \/ Evaluate(c) \/ ReportReleased(c) \/ AnnounceDeparture(c)

QuietRead(c) ==
  \/ MediaReady(c) \/ Refuse(c)
  \/ \E r \in RoomObjs, id \in PairIds :
       \/ \E type \in Relayed : RelayPair(c, r, id, type)
       \/ PairFailed(c, r, id) \/ ReconnectPair(c, r, id)
  \/ \E r \in RoomObjs : PairMediaState(c, r)

LEMMA QuietContinueStep ==
  ASSUME IInv, RegistryInv, NEW c \in Conns, QuietContinue(c)
  PROVE  RegistryInv'
<1>1. work \in [Conns -> Work] /\ rooms \in [RoomObjs -> Room]
  BY DEF IInv, TypeOK
<1>2. work[c].at \notin {"read", "finish", "closed"} => work[c].room \in RoomObjs
  BY DEF IInv, WorkOK
<1>3. CASE Send(c)
  BY <1>3, QuietStep DEF Send
<1>4. CASE SendSnapshot(c) \/ AnnounceJoined(c) \/ AnnounceReady(c) \/ AnnounceDeparture(c)
  <2>1. work[c].at \in {"snapshot", "announce_joined", "announce_ready",
                        "announce_departure"}
    BY <1>4 DEF SendSnapshot, AnnounceJoined, AnnounceReady, AnnounceDeparture, At
  <2>2. \A r \in RoomObjs : /\ rooms'[r].participants = rooms[r].participants
                            /\ rooms'[r].slots = rooms[r].slots
    BY <1>1, <1>2, <1>4, <2>1, MembershipKept
    DEF SendSnapshot, AnnounceJoined, AnnounceReady, AnnounceDeparture, Broadcast
  <2>3. /\ \A d \in Conns \ {c} : work'[d] = work[d]
        /\ work'[c].at \notin {"admit", "gc"}
        /\ work'[c].at \in Departing => work[c].at \in Departing
    BY <1>1, <1>4 DEF SendSnapshot, AnnounceJoined, AnnounceReady, AnnounceDeparture,
                     At, Idle, Handler, Departing, Work
  <2> QED
    BY <1>4, <2>1, <2>2, <2>3, QuietStep
    DEF SendSnapshot, AnnounceJoined, AnnounceReady, AnnounceDeparture
<1>5. CASE Evaluate(c)
  <2>1. \A r \in RoomObjs : /\ rooms'[r].participants = rooms[r].participants
                            /\ rooms'[r].slots = rooms[r].slots
    BY <1>1, <1>2, <1>5, MembershipKept DEF Evaluate, At
  <2> QED
    BY <1>1, <1>5, <2>1, QuietStep DEF Evaluate, At, Idle, Handler, Departing
<1>6. CASE ReportReleased(c)
  BY <1>1, <1>6, QuietStep DEF ReportReleased, At, Departing, Work
<1> QED
  BY <1>3, <1>4, <1>5, <1>6 DEF QuietContinue

LEMMA QuietReadStep ==
  ASSUME IInv, RegistryInv, NEW c \in Conns, QuietRead(c)
  PROVE  RegistryInv'
<1>1. /\ work \in [Conns -> Work] /\ rooms \in [RoomObjs -> Room]
      /\ participant \in [Peers -> Participant]
  BY DEF IInv, TypeOK
<1>2. CASE MediaReady(c)
  <2>1. \A p \in Peers : participant'[p].conn = participant[p].conn
    BY <1>1, <1>2 DEF MediaReady, Participant
  <2> QED
    BY <1>1, <1>2, <2>1, QuietStep DEF MediaReady, At, Handler, Departing
<1>3. CASE Refuse(c)
  BY <1>3, QuietStep DEF Refuse
<1>4. ASSUME NEW r \in RoomObjs, NEW id \in PairIds,
             \/ \E type \in Relayed : RelayPair(c, r, id, type)
             \/ PairFailed(c, r, id) \/ ReconnectPair(c, r, id)
      PROVE  RegistryInv'
  <2>1. \A s \in RoomObjs : /\ rooms'[s].participants = rooms[s].participants
                            /\ rooms'[s].slots = rooms[s].slots
    BY <1>1, <1>4, MembershipKept DEF RelayPair, PairFailed, ReconnectPair
  <2> QED
    BY <1>4, <2>1, QuietStep DEF RelayPair, PairFailed, ReconnectPair
<1>5. CASE \E r \in RoomObjs : PairMediaState(c, r)
  BY <1>5, QuietStep DEF PairMediaState
<1> QED
  BY <1>2, <1>3, <1>4, <1>5 DEF QuietRead


LEMMA JoinExistingRegistry ==
  ASSUME IInv, RegistryInv, NEW c \in Conns, NEW rid \in RoomIds,
         JoinExisting(c, rid)
  PROVE  RegistryInv'
<1> USE DEF JoinExisting
<1>1. work'[c] = Handler("admit", registry[rid], rid, NoPeer)
      /\ \A d \in Conns \ {c} : work'[d] = work[d]
  BY DEF IInv, TypeOK
<1>2. RegistryOK'
  BY DEF RegistryInv, RegistryOK
<1>3. LooksOK'
  <2>1. registry[rid] \in 0..created /\ created \in Nat
    BY DEF RegistryInv, RegistryOK, IInv, TypeOK
  <2> QED
    BY <1>1, <2>1 DEF RegistryInv, LooksOK, Registered, Handler
<1>4. LatchOK'
  BY <1>1 DEF RegistryInv, LatchOK, Joined, Handler, Departing
<1>5. NoGhostParticipants'
  BY <1>4, GhostsKept
<1>6. EmptyRoomsAreCollected'
  BY <1>1 DEF RegistryInv, EmptyRoomsAreCollected, Registered, At
<1> QED
  BY <1>2, <1>3, <1>4, <1>5, <1>6 DEF RegistryInv

LEMMA JoinCreatingRegistry ==
  ASSUME IInv, RegistryInv, NEW c \in Conns, NEW rid \in RoomIds,
         JoinCreating(c, rid)
  PROVE  RegistryInv'
<1> USE DEF JoinCreating
<1> DEFINE new == created + 1
<1>1. /\ work'[c] = Handler("admit", new, rid, NoPeer)
      /\ \A d \in Conns \ {c} : work'[d] = work[d]
      /\ registry'[rid] = new
      /\ \A x \in RoomIds \ {rid} : registry'[x] = registry[x]
  BY DEF IInv, TypeOK
<1>2. /\ created \in Nat /\ new \in RoomObjs /\ registry[rid] = NoRoom
      /\ \A x \in RoomIds : registry[x] \in 0..created
  BY MaxRoomsAssumption DEF RegistryInv, RegistryOK, IInv, TypeOK, RoomObjs
<1>3. RegistryOK'
  BY <1>1, <1>2 DEF RegistryInv, RegistryOK, RoomObjs
<1>4. LooksOK'
  <2> SUFFICES ASSUME NEW d \in Conns \ {c}, work[d].at \in {"admit", "gc"}
               PROVE  /\ work[d].room <= new
                      /\ Registered(work[d].room)' =>
                           registry'[work[d].roomId] = work[d].room
    BY <1>1, <1>2 DEF LooksOK, Registered, Handler
  <2>1. work[d].room <= created /\ work[d].room \in RoomObjs /\ work[d].roomId \in RoomIds
    BY DEF RegistryInv, LooksOK, IInv, WorkOK
  <2>2. work[d].room # new /\ work[d].room # NoRoom
    BY <1>2, <2>1 DEF RoomObjs, NoRoom
  <2>3. ASSUME Registered(work[d].room)'
        PROVE  registry'[work[d].roomId] = work[d].room
    <3>1. registry[work[d].roomId] = work[d].room
      BY <1>1, <2>2, <2>3 DEF RegistryInv, LooksOK, Registered
    <3> QED
      BY <1>1, <1>2, <2>1, <2>2, <3>1
  <2> QED
    BY <1>2, <2>1, <2>3 DEF RoomObjs
<1>5. LatchOK'
  BY <1>1 DEF RegistryInv, LatchOK, Joined, Handler, Departing
<1>6. NoGhostParticipants'
  <2>1. rooms[new].participants = {}
    BY <1>2 DEF RegistryInv, RegistryOK
  <2>2. \A r \in RoomObjs : rooms[r].participants # {} =>
          \A x \in RoomIds : registry'[x] = r <=> registry[x] = r
    BY <1>1, <1>2, <2>1 DEF RoomObjs, NoRoom
  <2> QED
    BY <1>5, <2>2, GhostsKept
<1>7. EmptyRoomsAreCollected'
  <2> SUFFICES ASSUME NEW r \in RoomObjs, Registered(r)', IsEmpty(rooms[r])
               PROVE  \E d \in Conns : work'[d].room = r /\ work'[d].at \in {"admit", "gc"}
    BY DEF EmptyRoomsAreCollected
  <2>1. CASE r = new
    BY <1>1, <2>1 DEF Handler
  <2>2. CASE r # new
    <3>1. Registered(r)
      BY <1>1, <2>2 DEF Registered
    <3>2. PICK d \in Conns : work[d].room = r /\ work[d].at \in {"admit", "gc"}
      BY <3>1 DEF RegistryInv, EmptyRoomsAreCollected
    <3> QED
      BY <1>1, <3>2 DEF At
  <2> QED
    BY <2>1, <2>2
<1> QED
  BY <1>3, <1>4, <1>5, <1>6, <1>7 DEF RegistryInv

\* A rejection leaves the room to those who fill it.
LEMMA JoinRejectedRegistry ==
  ASSUME IInv, RegistryInv, NEW c \in Conns, JoinRejected(c)
  PROVE  RegistryInv'
<1> USE DEF JoinRejected
<1>1. work'[c] = Idle /\ \A d \in Conns \ {c} : work'[d] = work[d]
  BY DEF IInv, TypeOK
<1>2. RegistryOK'
  BY DEF RegistryInv, RegistryOK
<1>3. LooksOK'
  BY <1>1 DEF RegistryInv, LooksOK, Registered, Idle, Handler
<1>4. LatchOK'
  BY <1>1 DEF RegistryInv, LatchOK, Joined, Idle, Handler, Departing
<1>5. NoGhostParticipants'
  BY <1>4, GhostsKept
<1>6. EmptyRoomsAreCollected'
  <2> SUFFICES ASSUME NEW r \in RoomObjs, Registered(r), IsEmpty(rooms[r])
               PROVE  \E d \in Conns : work'[d].room = r /\ work'[d].at \in {"admit", "gc"}
    BY DEF EmptyRoomsAreCollected, Registered
  <2>1. r # work[c].room
    <3>1. 1 \in 1..MaxSlots
      BY MaxSlotsAssumption
    <3> QED
      BY <3>1 DEF IsEmpty, IsFull
  <2> QED
    BY <1>1, <2>1 DEF RegistryInv, EmptyRoomsAreCollected
<1> QED
  BY <1>2, <1>3, <1>4, <1>5, <1>6 DEF RegistryInv


\* An admission: the newcomer is spoken for by the session that admits it,
\* and its slot ends the emptiness of the room.
LEMMA JoinAcceptedRegistry ==
  ASSUME IInv, RegistryInv, NEW c \in Conns, JoinAccepted(c)
  PROVE  RegistryInv'
<1> DEFINE r == work[c].room
           p == admitted + 1
<1>1. PICK i \in LowestFree(rooms[r]) : rooms' = [rooms EXCEPT ![r] = Admit(@, p, i)]
  BY DEF JoinAccepted
<1>2. /\ r \in RoomObjs /\ work[c].roomId \in RoomIds /\ r <= created
      /\ p \in Peers /\ p # NoPeer /\ admitted \in Nat /\ created \in Nat
      /\ session[c].peer = NoPeer
      /\ Registered(r) => registry[work[c].roomId] = r
  <2>1. work[c].at = "admit" /\ admitted < MaxPeers
    BY DEF JoinAccepted, At
  <2>2. admitted \in 0..MaxPeers /\ created \in Nat
    BY DEF IInv, TypeOK
  <2>3. r \in RoomObjs /\ work[c].roomId \in RoomIds
    BY <2>1 DEF IInv, WorkOK
  <2>4. r <= created /\ (Registered(r) => registry[work[c].roomId] = r)
    BY <2>1 DEF RegistryInv, LooksOK
  <2>5. session[c].peer = NoPeer
    BY <2>1 DEF RegistryInv, LatchOK, Joined
  <2> QED
    BY <2>1, <2>2, <2>3, <2>4, <2>5, MaxPeersAssumption DEF Peers, NoPeer
<1>3. i \in 1..MaxSlots
  BY <1>1 DEF LowestFree, FreeSlots
<1>4. /\ rooms'[r].participants = rooms[r].participants \cup {p}
      /\ rooms'[r].slots[i] = p
      /\ \A s \in RoomObjs \ {r} : rooms'[s] = rooms[s]
  BY <1>1, <1>2, <1>3 DEF Admit, Room, IInv, TypeOK
<1>5. /\ work'[c].at = "snapshot"
      /\ \A d \in Conns \ {c} : work'[d] = work[d] /\ session'[d] = session[d]
      /\ session'[c] = [peer |-> p, roomId |-> work[c].roomId, released |-> FALSE]
      /\ participant'[p].conn = c
      /\ \A q \in 1..admitted : participant'[q] = participant[q]
      /\ registry' = registry /\ created' = created
  <2>1. work \in [Conns -> Work] /\ session \in [Conns -> Session]
        /\ participant \in [Peers -> Participant]
    BY DEF IInv, TypeOK
  <2>2. work'[c].at = "snapshot"
    BY <2>1 DEF JoinAccepted, Work
  <2>3. \A q \in 1..admitted : participant'[q] = participant[q]
    BY <1>2, <2>1 DEF JoinAccepted
  <2> QED
    BY <1>2, <2>1, <2>2, <2>3 DEF JoinAccepted
<1> HIDE DEF r, p
<1>6. RegistryOK'
  BY <1>2, <1>4, <1>5 DEF RegistryInv, RegistryOK, RoomObjs
<1>7. LooksOK'
  BY <1>5 DEF RegistryInv, LooksOK, Registered
<1>8. LatchOK'
  BY <1>5 DEF RegistryInv, LatchOK, Joined, Departing
<1>9. NoGhostParticipants'
  <2> SUFFICES ASSUME NEW s \in RoomObjs, Registered(s), NEW q \in rooms'[s].participants
               PROVE  LET d == participant'[q].conn
                      IN /\ d \in Conns /\ session'[d].peer = q
                         /\ session'[d].roomId \in RoomIds
                         /\ registry[session'[d].roomId] = s
                         /\ ~ session'[d].released /\ work'[d].at # "closed"
    BY <1>5 DEF NoGhostParticipants, Registered, RoomNamed
  <2>1. CASE q \in rooms[s].participants
    <3> DEFINE d == participant[q].conn
    <3>1. q \in 1..admitted /\ q # NoPeer /\ participant'[q] = participant[q]
      BY <1>2, <1>5, <2>1 DEF IInv, RoomsOK, NoPeer
    <3>2. /\ d \in Conns /\ session[d].peer = q /\ RoomNamed(session[d].roomId) = s
          /\ ~ session[d].released /\ work[d].at # "closed"
      BY <2>1 DEF RegistryInv, NoGhostParticipants
    <3>3. d # c
      BY <1>2, <3>1, <3>2
    <3> QED
      BY <1>5, <3>1, <3>2, <3>3 DEF RoomNamed, NoRoom, RoomObjs
  <2>2. CASE q \notin rooms[s].participants
    <3>1. q = p /\ s = r
      BY <1>4, <2>2
    <3> QED
      BY <1>2, <1>5, <3>1
  <2> QED
    BY <2>1, <2>2
<1>10. EmptyRoomsAreCollected'
  <2> SUFFICES ASSUME NEW s \in RoomObjs, Registered(s), IsEmpty(rooms'[s])
               PROVE  \E d \in Conns : work'[d].room = s /\ work'[d].at \in {"admit", "gc"}
    BY <1>5 DEF EmptyRoomsAreCollected, Registered, IsEmpty, FreeSlots
  <2>1. s # r
    BY <1>2, <1>3, <1>4 DEF IsEmpty, FreeSlots
  <2>2. PICK d \in Conns : work[d].room = s /\ work[d].at \in {"admit", "gc"}
    BY <1>4, <2>1 DEF RegistryInv, EmptyRoomsAreCollected
  <2> QED
    BY <1>5, <2>1, <2>2 DEF r
<1> QED
  BY <1>6, <1>7, <1>8, <1>9, <1>10 DEF RegistryInv


\* The critical section of Release: of c's participants only the one in r
\* could count, and it goes; a room it leaves empty is looked at again.
LEMMA BeginReleaseRegistry ==
  ASSUME IInv, RegistryInv, NEW c \in Conns, NEW r \in RoomObjs, NEW cause,
         At(c, "read"), Joined(c), Named(c, r), BeginRelease(c, r, cause),
         session' = [session EXCEPT ![c].released = TRUE],
         UNCHANGED <<registry, created, participant>>
  PROVE  RegistryInv'
<1> DEFINE p     == session[c].peer
           after == Release(rooms[r], p)
           w     == [at |-> "gc", room |-> r, roomId |-> session[c].roomId,
                     subject |-> IF p \in rooms[r].participants THEN p ELSE NoPeer,
                     remaining |-> after.participants, cause |-> cause]
<1>1. /\ rooms' = [rooms EXCEPT ![r] = after]
      /\ work' = [work EXCEPT ![c] = IF IsEmpty(after) THEN w ELSE Resume(w)]
  BY DEF BeginRelease
<1>2. /\ p \in Peers /\ p # NoPeer /\ work[c].at = "read"
      /\ session[c].roomId \in RoomIds /\ registry[session[c].roomId] = r
      /\ registry[session[c].roomId] <= created
  <2>1. session[c].roomId \in RoomIds /\ registry[session[c].roomId] = r
    BY DEF Named, RoomNamed, NoRoom, RoomObjs
  <2>2. p \in Peers /\ p # NoPeer
    BY DEF Joined, IInv, TypeOK, Session
  <2> QED
    BY <2>1, <2>2 DEF At, RegistryInv, RegistryOK, IInv, TypeOK
<1>3. /\ \A s \in RoomObjs \ {r} : rooms'[s] = rooms[s]
      /\ rooms'[r] = after
      /\ after.participants = rooms[r].participants \ {p}
  BY SMTT(20), <1>1, <1>2, RoomOps DEF IInv, TypeOK
<1>4. /\ \A d \in Conns \ {c} : work'[d] = work[d] /\ session'[d] = session[d]
      /\ session'[c].peer = p /\ session'[c].roomId = session[c].roomId
      /\ session'[c].released = TRUE
  BY <1>1 DEF IInv, TypeOK, Session
<1>5. \/ work'[c] = w /\ IsEmpty(after)
      \/ ~ IsEmpty(after) /\ work'[c].at \in Departing \cup {"read"}
         /\ work'[c].at # "gc"
  <2>1. CASE IsEmpty(after)
    BY <1>1, <2>1 DEF IInv, TypeOK
  <2>2. CASE ~ IsEmpty(after)
    <3> HIDE DEF after
    <3>1. work'[c] = Resume(w)
      BY <1>1, <2>2 DEF IInv, TypeOK
    <3>2. Resume(w).at \in {"report_released", "announce_departure", "read", "finish"}
      BY DEF Resume, Idle, Handler
    <3> QED
      BY <2>2, <3>1, <3>2 DEF Departing
  <2> QED
    BY <2>1, <2>2
<1> HIDE DEF p, after
<1>6. RegistryOK'
  BY <1>3 DEF RegistryInv, RegistryOK
<1>7. LooksOK'
  <2> SUFFICES ASSUME work'[c].at \in {"admit", "gc"}
               PROVE  /\ work'[c].room <= created
                      /\ registry[work'[c].roomId] = work'[c].room
    BY <1>4 DEF RegistryInv, LooksOK, Registered
  <2>1. work'[c] = w
    BY <1>5 DEF Departing
  <2> QED
    BY <1>2, <2>1
<1>8. LatchOK'
  <2>1. work'[c].at # "admit"
    BY <1>5 DEF Departing
  <2> QED
    BY <1>4, <2>1 DEF RegistryInv, LatchOK, Joined
<1>9. NoGhostParticipants'
  <2> SUFFICES ASSUME NEW s \in RoomObjs, Registered(s), NEW q \in rooms'[s].participants
               PROVE  LET d == participant[q].conn
                      IN /\ d \in Conns /\ session'[d].peer = q
                         /\ session'[d].roomId \in RoomIds
                         /\ registry[session'[d].roomId] = s
                         /\ ~ session'[d].released /\ work'[d].at # "closed"
    BY DEF NoGhostParticipants, Registered, RoomNamed
  <2> DEFINE d == participant[q].conn
  <2>1. q \in rooms[s].participants /\ (s = r => q # p)
    BY <1>3
  <2>2. /\ d \in Conns /\ session[d].peer = q /\ session[d].roomId \in RoomIds
        /\ registry[session[d].roomId] = s
        /\ ~ session[d].released /\ work[d].at # "closed"
    BY <2>1 DEF RegistryInv, NoGhostParticipants, RoomNamed, NoRoom, RoomObjs
  <2>3. d # c
    BY <1>2, <2>1, <2>2 DEF p
  <2> QED
    BY <1>4, <2>2, <2>3
<1>10. EmptyRoomsAreCollected'
  <2> SUFFICES ASSUME NEW s \in RoomObjs, Registered(s), IsEmpty(rooms'[s])
               PROVE  \E d \in Conns : work'[d].room = s /\ work'[d].at \in {"admit", "gc"}
    BY DEF EmptyRoomsAreCollected, Registered, IsEmpty, FreeSlots
  <2>1. CASE s = r
    BY <1>3, <1>5, <2>1
  <2>2. CASE s # r
    <3>1. PICK d \in Conns : work[d].room = s /\ work[d].at \in {"admit", "gc"}
      BY <1>3, <2>2 DEF RegistryInv, EmptyRoomsAreCollected
    <3> QED
      BY <1>2, <1>4, <3>1
  <2> QED
    BY <2>1, <2>2
<1> QED
  BY <1>6, <1>7, <1>8, <1>9, <1>10 DEF RegistryInv

\* A session that speaks for nobody in a registered room may change, and its
\* goroutine move on, when the latch stays in order.
LEMMA SilentSessionRegistry ==
  ASSUME IInv, RegistryInv, NEW c \in Conns,
         \/ ~ Joined(c) \/ session[c].released
         \/ RoomNamed(session[c].roomId) = NoRoom,
         UNCHANGED <<registry, created, rooms, participant>>,
         \A d \in Conns \ {c} : session'[d] = session[d] /\ work'[d] = work[d],
         work[c].at \notin {"admit", "gc"}, work'[c].at \notin {"admit", "gc"},
         work'[c].at \in Departing => session'[c].released \/ ~ Joined(c)'
  PROVE  RegistryInv'
<1>1. RegistryOK'
  BY DEF RegistryInv, RegistryOK
<1>2. LooksOK'
  BY DEF RegistryInv, LooksOK, Registered
<1>3. LatchOK'
  BY DEF RegistryInv, LatchOK, Joined
<1>4. NoGhostParticipants'
  <2> SUFFICES ASSUME NEW s \in RoomObjs, Registered(s), NEW q \in rooms[s].participants
               PROVE  LET d == participant[q].conn
                      IN /\ d \in Conns /\ session'[d].peer = q
                         /\ session'[d].roomId \in RoomIds
                         /\ registry[session'[d].roomId] = s
                         /\ ~ session'[d].released /\ work'[d].at # "closed"
    BY DEF NoGhostParticipants, Registered, RoomNamed
  <2> DEFINE d == participant[q].conn
  <2>1. /\ d \in Conns /\ session[d].peer = q /\ q # NoPeer
        /\ session[d].roomId \in RoomIds /\ registry[session[d].roomId] = s
        /\ ~ session[d].released /\ work[d].at # "closed" /\ s # NoRoom
    BY DEF RegistryInv, NoGhostParticipants, RoomNamed, NoRoom, RoomObjs,
           IInv, TypeOK, Room, Peers, NoPeer
  <2>2. d # c
    BY <2>1 DEF Joined, RoomNamed
  <2> QED
    BY <2>1, <2>2
<1>5. EmptyRoomsAreCollected'
  BY DEF RegistryInv, EmptyRoomsAreCollected, Registered
<1> QED
  BY <1>1, <1>2, <1>3, <1>4, <1>5 DEF RegistryInv

LEMMA MediaFailedRegistry ==
  ASSUME IInv, RegistryInv, NEW c \in Conns, MediaFailed(c)
  PROVE  RegistryInv'
<1>1. /\ At(c, "read") /\ Joined(c) /\ session' = [session EXCEPT ![c].released = TRUE]
      /\ UNCHANGED <<registry, created, admitted, participant, out>>
  BY DEF MediaFailed
<1>2. ASSUME NEW r \in RoomObjs, Named(c, r), BeginRelease(c, r, "media_failed")
      PROVE  RegistryInv'
  BY <1>1, <1>2, BeginReleaseRegistry
<1>3. CASE RoomNamed(session[c].roomId) = NoRoom /\ UNCHANGED <<rooms, work>>
  BY <1>1, <1>3, SilentSessionRegistry DEF At, Departing
<1> QED
  BY <1>2, <1>3 DEF MediaFailed

LEMMA ReleaseAndNotifyRegistry ==
  ASSUME IInv, RegistryInv, NEW c \in Conns, NEW cause, ReleaseAndNotify(c, cause)
  PROVE  RegistryInv'
<1>1. /\ At(c, "read") /\ UNCHANGED <<registry, created, admitted, participant, out>>
      /\ session' = [session EXCEPT ![c].released = Joined(c) \/ @]
  BY DEF ReleaseAndNotify
<1>2. ASSUME NEW r \in RoomObjs, Joined(c), Named(c, r), BeginRelease(c, r, cause)
      PROVE  RegistryInv'
  <2>1. session' = [session EXCEPT ![c].released = TRUE]
    BY <1>1, <1>2
  <2> QED
    BY <1>1, <1>2, <2>1, BeginReleaseRegistry
<1>3. ASSUME \/ ~ Joined(c) \/ session[c].released
             \/ RoomNamed(session[c].roomId) = NoRoom,
             work' = [work EXCEPT ![c] = Finishing(cause)], UNCHANGED rooms
      PROVE  RegistryInv'
  <2>1. work'[c].at = "finish" /\ \A d \in Conns \ {c} : work'[d] = work[d]
    BY <1>3 DEF Finishing, IInv, TypeOK
  <2>2. /\ session'[c].released = (Joined(c) \/ session[c].released)
        /\ session'[c].peer = session[c].peer
        /\ \A d \in Conns \ {c} : session'[d] = session[d]
    BY <1>1 DEF IInv, TypeOK, Session
  <2>3. session'[c].released \/ ~ Joined(c)'
    BY <2>2 DEF Joined
  <2> QED
    BY <1>1, <1>3, <2>1, <2>2, <2>3, SilentSessionRegistry DEF At
<1> QED
  BY <1>2, <1>3 DEF ReleaseAndNotify

LEMMA FinishRegistry ==
  ASSUME IInv, RegistryInv, NEW c \in Conns, Finish(c)
  PROVE  RegistryInv'
<1>1. /\ UNCHANGED <<registry, created, rooms, admitted, participant, out>>
      /\ work[c].at = "finish" /\ work'[c].at \in {"read", "closed"}
      /\ \A d \in Conns \ {c} : work'[d] = work[d]
  BY DEF Finish, At, Idle, Handler, IInv, TypeOK
<1>2. session[c].released \/ ~ Joined(c)
  BY <1>1 DEF RegistryInv, LatchOK, Departing
<1>3. /\ \A d \in Conns \ {c} : session'[d] = session[d]
      /\ session'[c].released \/ ~ Joined(c)'
  <2>1. CASE session' = session
    BY <1>2, <2>1 DEF Joined
  <2>2. CASE session' = [session EXCEPT ![c].peer = NoPeer, ![c].roomId = NoRoomId]
    <3>1. session'[c] = [session[c] EXCEPT !.peer = NoPeer, !.roomId = NoRoomId]
      BY <2>2 DEF IInv, TypeOK
    <3>2. session'[c].peer = NoPeer
      BY <3>1 DEF IInv, TypeOK, Session
    <3> QED
      BY <2>2, <3>2 DEF Joined, IInv, TypeOK
  <2> QED
    BY <2>1, <2>2 DEF Finish
<1> QED
  BY <1>1, <1>2, <1>3, SilentSessionRegistry


\* The second look: an empty room leaves the registry, and with it the only
\* ID it had; one that is not empty, or registered no more, needs no witness.
LEMMA CollectRoomRegistry ==
  ASSUME IInv, SlotsMatchParticipants, RegistryInv, NEW c \in Conns, CollectRoom(c)
  PROVE  RegistryInv'
<1> DEFINE w == work[c]
           gone == registry[w.roomId] = w.room /\ IsEmpty(rooms[w.room])
<1>1. /\ w.at = "gc" /\ w.room \in RoomObjs /\ w.roomId \in RoomIds
      /\ Registered(w.room) => registry[w.roomId] = w.room
      /\ session[c].released \/ ~ Joined(c)
  BY DEF CollectRoom, At, IInv, WorkOK, RegistryInv, LooksOK, LatchOK, Departing
<1>2. /\ UNCHANGED <<created, rooms, admitted, participant, session, out>>
      /\ work'[c].at \notin {"admit", "gc"}
      /\ \A d \in Conns \ {c} : work'[d] = work[d]
  <2>1. work' = [work EXCEPT ![c] = Resume(w)]
    BY DEF CollectRoom
  <2>2. Resume(w).at \in {"report_released", "announce_departure", "read", "finish"}
    BY <1>1 DEF Resume, Idle, Handler, IInv, TypeOK, Work
  <2> HIDE DEF w
  <2> QED
    BY <2>1, <2>2 DEF CollectRoom, IInv, TypeOK
<1>3. /\ gone => registry' = [registry EXCEPT ![w.roomId] = NoRoom]
      /\ ~ gone => registry' = registry
  BY DEF CollectRoom
<1>4. \A rid \in RoomIds :
        registry'[rid] = IF gone /\ rid = w.roomId THEN NoRoom ELSE registry[rid]
  BY <1>3 DEF IInv, TypeOK
<1> HIDE DEF w
<1>5. \A r \in RoomObjs \ {w.room} : \A rid \in RoomIds :
        registry'[rid] = r <=> registry[rid] = r
  BY <1>4 DEF RoomObjs, NoRoom
<1>6. ASSUME gone
      PROVE  /\ \A rid \in RoomIds : registry'[rid] # w.room
             /\ rooms[w.room].participants = {}
  <2>1. w.room # NoRoom
    BY <1>1 DEF RoomObjs, NoRoom
  <2>2. ASSUME NEW rid \in RoomIds  PROVE registry'[rid] # w.room
    BY <1>1, <1>4, <1>6, <2>1 DEF RegistryInv, RegistryOK
  <2> QED
    BY <1>1, <1>6, <2>2, EmptyRooms
<1>7. RegistryOK'
  <2>1. \A rid \in RoomIds : registry'[rid] \in 0..created
    BY <1>4 DEF RegistryInv, RegistryOK, IInv, TypeOK, NoRoom
  <2>2. \A a, b \in RoomIds : registry'[a] = registry'[b] /\ registry'[a] # NoRoom => a = b
    BY <1>4 DEF RegistryInv, RegistryOK
  <2> QED
    BY <1>2, <2>1, <2>2 DEF RegistryInv, RegistryOK
<1>8. LooksOK'
  <2> SUFFICES ASSUME NEW d \in Conns, work[d].at \in {"admit", "gc"},
                      NEW rid \in RoomIds, registry'[rid] = work[d].room
               PROVE  registry'[work[d].roomId] = work[d].room
    BY <1>2 DEF RegistryInv, LooksOK, Registered
  <2>1. registry[rid] = work[d].room /\ registry[work[d].roomId] = work[d].room
    <3>1. work[d].room # NoRoom
      BY DEF IInv, WorkOK, RoomObjs, NoRoom
    <3>2. registry[rid] = work[d].room
      BY <1>4, <3>1
    <3> QED
      BY <3>2 DEF RegistryInv, LooksOK, Registered
  <2>2. rid = work[d].roomId
    BY <2>1 DEF RegistryInv, RegistryOK, IInv, WorkOK, RoomObjs, NoRoom
  <2> QED
    BY <2>2
<1>9. LatchOK'
  BY <1>1, <1>2 DEF RegistryInv, LatchOK, Joined
<1>10. NoGhostParticipants'
  <2>1. \A r \in RoomObjs : rooms[r].participants # {} =>
          \A rid \in RoomIds : registry'[rid] = r <=> registry[rid] = r
    BY <1>3, <1>5, <1>6
  <2> QED
    BY <1>2, <1>9, <2>1, GhostsKept
<1>11. EmptyRoomsAreCollected'
  <2> SUFFICES ASSUME NEW r \in RoomObjs, NEW rid \in RoomIds, registry'[rid] = r,
                      IsEmpty(rooms[r])
               PROVE  \E d \in Conns : work'[d].room = r /\ work'[d].at \in {"admit", "gc"}
    BY <1>2 DEF EmptyRoomsAreCollected, Registered, IsEmpty, FreeSlots
  <2>1. r # w.room
    BY <1>1, <1>3, <1>6 DEF Registered
  <2>2. PICK d \in Conns : work[d].room = r /\ work[d].at \in {"admit", "gc"}
    BY <1>5, <2>1 DEF RegistryInv, EmptyRoomsAreCollected, Registered
  <2> QED
    BY <1>2, <2>1, <2>2 DEF w
<1> QED
  BY <1>7, <1>8, <1>9, <1>10, <1>11 DEF RegistryInv

LEMMA RegistryNext ==
  IInv /\ SlotsMatchParticipants /\ RegistryInv /\ [Next]_vars => RegistryInv'
<1> SUFFICES ASSUME IInv, SlotsMatchParticipants, RegistryInv, [Next]_vars
             PROVE  RegistryInv'
  OBVIOUS
<1>1. CASE UNCHANGED vars
  BY <1>1 DEF vars, RegistryInv, RegistryOK, LooksOK, LatchOK, Joined, Registered,
              NoGhostParticipants, RoomNamed, EmptyRoomsAreCollected, IsEmpty, FreeSlots
<1>2. ASSUME NEW c \in Conns, Continue(c)  PROVE RegistryInv'
  <2>1. CASE QuietContinue(c)
    BY <2>1, QuietContinueStep
  <2>2. CASE ~ QuietContinue(c)
    BY <1>2, <2>2, JoinRejectedRegistry, JoinAcceptedRegistry, CollectRoomRegistry,
       FinishRegistry DEF Continue, QuietContinue
  <2> QED
    BY <2>1, <2>2
<1>3. ASSUME NEW c \in Conns, Read(c)  PROVE RegistryInv'
  <2>1. CASE QuietRead(c)
    BY <2>1, QuietReadStep
  <2>2. CASE \E rid \in RoomIds : JoinExisting(c, rid) \/ JoinCreating(c, rid)
    BY <2>2, JoinExistingRegistry, JoinCreatingRegistry
  <2>3. CASE MediaFailed(c)
    BY <2>3, MediaFailedRegistry
  <2>4. CASE LeaveRoom(c) \/ Disconnect(c)
    BY <2>4, ReleaseAndNotifyRegistry DEF LeaveRoom, Disconnect
  <2> QED
    BY <1>3, <2>1, <2>2, <2>3, <2>4 DEF Read, QuietRead
<1> QED
  BY <1>1, <1>2, <1>3 DEF Next

LEMMA RegistryInit == Init => RegistryInv
<1> SUFFICES ASSUME Init PROVE RegistryInv
  OBVIOUS
<1>1. RegistryOK /\ LooksOK /\ LatchOK
  BY DEF Init, RegistryOK, LooksOK, LatchOK, Joined, Departing, Idle, Handler, NewRoom,
         NoRoom
<1>2. \A r \in RoomObjs : ~ Registered(r)
  BY DEF Init, Registered, RoomObjs, NoRoom
<1> QED
  BY <1>1, <1>2 DEF RegistryInv, NoGhostParticipants, EmptyRoomsAreCollected

\* What the registry and the latches rely on between two critical sections.
THEOREM RegistryInvariant == Spec => []RegistryInv
BY RegistryInit, RegistryNext, Inductive, SlotTable, PTL DEF Spec

\* Whatever the order of departures, retries after media_failed, lost
\* connections and admissions that lost their room to a collection: a slot of
\* a registered room belongs to a session that is served and speaks for it.
THEOREM NoGhosts == Spec => []NoGhostParticipants
<1>1. RegistryInv => NoGhostParticipants
  BY DEF RegistryInv
<1> QED
  BY <1>1, RegistryInvariant, PTL

\* An empty room is registered only while a goroutine is about to admit into
\* it or to look at it again.
THEOREM RoomsCollected == Spec => []EmptyRoomsAreCollected
<1>1. RegistryInv => EmptyRoomsAreCollected
  BY DEF RegistryInv
<1> QED
  BY <1>1, RegistryInvariant, PTL

-----------------------------------------------------------------------------
(* The pairing of media-ready members. *)

\* The members of a room have pair IDs.
LEMMA PairIdType ==
  ASSUME IInv, NEW r \in RoomObjs,
         NEW p \in rooms[r].participants, NEW q \in rooms[r].participants, p # q
  PROVE  /\ PairIdOf(p, q) \in PairIds
         /\ PairIdOf(p, q) = PairIdOf(q, p)
<1>1. /\ p \in 1..admitted /\ participant[p].room = r
      /\ q \in 1..admitted /\ participant[q].room = r
  BY DEF IInv, RoomsOK
<1>2. participant[p].index # participant[q].index
  BY <1>1 DEF IInv, AdmissionIndexNeverReused
<1>3. rooms[r].admissionCounter \in 0..MaxPeers
  BY MaxPeersAssumption DEF IInv, TypeOK, RoomsOK, Room
<1>4. participant[p].index \in Indices /\ participant[q].index \in Indices
  BY <1>1, <1>3, MaxPeersAssumption DEF IInv, ParticipantsOK, Indices
<1>5. CASE participant[p].index < participant[q].index
  BY <1>4, <1>5 DEF PairIdOf, MakePairID, PairIds, Indices
<1>6. CASE participant[q].index < participant[p].index
  BY <1>4, <1>6 DEF PairIdOf, MakePairID, PairIds, Indices
<1> QED
  BY <1>2, <1>4, <1>5, <1>6 DEF Indices

\* A step other than an evaluation leaves the goroutines that are about to
\* evaluate where they are, or one section nearer.
LEMMA EvaluatorsKept ==
  ASSUME IInv, NEW c \in Conns, Continue(c) \/ Read(c), ~ Evaluate(c),
         NEW d \in Conns, work[d].at \in {"announce_ready", "evaluate"}
  PROVE  /\ work'[d].at \in {"announce_ready", "evaluate"}
         /\ work'[d].subject = work[d].subject
<1>1. work \in [Conns -> Work]
  BY DEF IInv, TypeOK
<1>2. CASE AnnounceReady(c)
  <2>1. work' = [work EXCEPT ![c] = [work[c] EXCEPT !.at = "evaluate"]]
    BY <1>2 DEF AnnounceReady
  <2> QED
    BY <1>1, <2>1 DEF Work
<1>3. CASE Continue(c) /\ ~ AnnounceReady(c)
  <2>1. work' = work \/ work[c].at \notin {"announce_ready", "evaluate"}
    BY <1>3 DEF Continue, Send, JoinRejected, JoinAccepted, SendSnapshot, AnnounceJoined,
                CollectRoom, ReportReleased, AnnounceDeparture, Finish, At
  <2>2. \A e \in Conns \ {c} : work'[e] = work[e]
    BY <1>1, <1>3
    DEF Continue, Send, JoinRejected, JoinAccepted, SendSnapshot, AnnounceJoined,
        CollectRoom, ReportReleased, AnnounceDeparture, Finish
  <2> QED
    BY <2>1, <2>2
<1>4. CASE Read(c)
  <2>1. work[c].at = "read"
    BY <1>4 DEF Read, JoinExisting, JoinCreating, MediaReady, MediaFailed, LeaveRoom,
                Disconnect, ReleaseAndNotify, RelayPair, PairFailed, ReconnectPair,
                PairMediaState, Refuse, At
  <2>2. \A e \in Conns \ {c} : work'[e] = work[e]
    BY <1>1, <1>4
    DEF Read, JoinExisting, JoinCreating, MediaReady, MediaFailed, LeaveRoom,
        Disconnect, ReleaseAndNotify, BeginRelease, RelayPair, PairFailed, ReconnectPair,
        PairMediaState, Refuse
  <2> QED
    BY <2>1, <2>2
<1> QED
  BY <1>2, <1>3, <1>4

\* Two members stay paired, or excused, in a step that makes nobody ready
\* without an evaluation to come.
LEMMA PairingKept ==
  ASSUME IInv, IInv', PairedOnceEvaluated, [Next]_vars,
         admitted' = admitted \/ participant'[admitted + 1].readiness = "joined",
         \A p \in 1..admitted :
           /\ participant'[p].index = participant[p].index
           /\ participant'[p].readiness = "media-ready" /\ ~ Evaluates(p)' =>
                participant[p].readiness = "media-ready" /\ ~ Evaluates(p)
  PROVE  PairedOnceEvaluated'
<1>1. ASSUME NEW r \in RoomObjs, NEW p \in rooms'[r].participants,
             participant'[p].readiness = "media-ready"
      PROVE  p \in rooms[r].participants
  <2>1. p \in rooms[r].participants \cup {admitted + 1}
    <3>1. rooms[r] \in Room
      BY DEF IInv, TypeOK
    <3>2. /\ NextRosterSeq(rooms[r]).participants = rooms[r].participants
          /\ \A id \in PairIds :
               /\ MarkFailed(rooms[r], id).participants = rooms[r].participants
               /\ Increment(rooms[r], id).participants = rooms[r].participants
      BY <3>1, MembershipKept
    <3>3. /\ \A i \in 1..MaxSlots : Admit(rooms[r], admitted + 1, i).participants =
                                   rooms[r].participants \cup {admitted + 1}
          /\ \A x \in Peers :
               Release(rooms[r], x).participants = rooms[r].participants \ {x}
      BY <3>1 DEF Admit, Release, Room
    <3>4. RoomStep(r)
      BY RoomSteps
    <3> QED
      BY <3>2, <3>3, <3>4 DEF RoomStep, LowestFree, FreeSlots
  <2>2. p = admitted + 1 => admitted' # admitted
    BY DEF IInv, RoomsOK, TypeOK
  <2> QED
    BY <1>1, <2>1, <2>2
<1> SUFFICES ASSUME NEW r \in RoomObjs,
                    NEW p \in rooms'[r].participants, NEW q \in rooms'[r].participants,
                    p # q,
                    participant'[p].readiness = "media-ready", ~ Evaluates(p)',
                    participant'[q].readiness = "media-ready", ~ Evaluates(q)'
             PROVE  Has(rooms'[r], PairIdOf(p, q)')
  BY DEF PairedOnceEvaluated
<1>2. p \in rooms[r].participants /\ q \in rooms[r].participants
  BY <1>1
<1>3. p \in 1..admitted /\ q \in 1..admitted
  BY <1>2 DEF IInv, RoomsOK
<1>4. Has(rooms[r], PairIdOf(p, q))
  BY <1>2, <1>3 DEF PairedOnceEvaluated
<1>5. PairIdOf(p, q)' = PairIdOf(p, q) /\ PairIdOf(p, q) \in PairIds
  <2>1. /\ PairIdOf(p, q) = MakePairID(participant[p].index, participant[q].index)
        /\ PairIdOf(p, q)' = MakePairID(participant[p].index, participant[q].index)
    BY <1>3 DEF PairIdOf
  <2>2. MakePairID(participant[p].index, participant[q].index) \in PairIds
    BY <1>2, PairIdType DEF PairIdOf
  <2> QED
    BY <2>1, <2>2
<1> QED
  BY <1>4, <1>5, EpochSteps DEF Has, EpochStep


LEMMA EvaluatePairing ==
  ASSUME IInv, IInv', PairedOnceEvaluated, NEW c \in Conns, Evaluate(c)
  PROVE  PairedOnceEvaluated'
<1> DEFINE r == work[c].room
           p == work[c].subject
<1>1. /\ r \in RoomObjs /\ p \in rooms[r].participants
      /\ participant[p].room = r /\ p \in 1..admitted
      /\ work[c].at = "evaluate"
  BY DEF Evaluate, At, IInv, WorkOK, RoomsOK
<1>2. /\ UNCHANGED <<registry, created, admitted, participant, session>>
      /\ work'[c].at = "read" /\ \A d \in Conns \ {c} : work'[d] = work[d]
  BY DEF Evaluate, IInv, TypeOK, Idle, Handler
<1>3. /\ \A s \in RoomObjs : rooms'[s].participants = rooms[s].participants
      /\ \A s \in RoomObjs, id \in PairIds : Has(rooms[s], id) => Has(rooms'[s], id)
      /\ \A q \in NewPartners(r, p) : Has(rooms'[r], PairIdOf(p, q))
  <2> DEFINE new == [id \in {PairIdOf(p, q) : q \in NewPartners(r, p)} |->
                       LET q == CHOOSE q \in NewPartners(r, p) : PairIdOf(p, q) = id
                       IN  PairPairing(Lo(p, q), Hi(p, q))]
  <2>1. /\ rooms' = [rooms EXCEPT ![r] = Register(@, new)]
        /\ DOMAIN new = {PairIdOf(p, q) : q \in NewPartners(r, p)}
        /\ \A id \in DOMAIN new : new[id].state = "pairing"
    <3>1. rooms' = [rooms EXCEPT ![r] = Register(@, new)]
      BY DEF Evaluate
    <3>2. \A id \in DOMAIN new : new[id].state = "pairing"
      BY DEF PairPairing
    <3> QED
      BY <3>1, <3>2
  <2> HIDE DEF new
  <2>2. rooms \in [RoomObjs -> Room]
    BY DEF IInv, TypeOK
  <2>3. /\ rooms'[r] = Register(rooms[r], new)
        /\ \A s \in RoomObjs \ {r} : rooms'[s] = rooms[s]
    BY <1>1, <2>1, <2>2
  <2>4. /\ rooms'[r].participants = rooms[r].participants
        /\ \A id \in PairIds :
             rooms'[r].pairs[id] = IF id \in DOMAIN new /\ ~ Has(rooms[r], id)
                                   THEN new[id] ELSE rooms[r].pairs[id]
    BY <1>1, <2>2, <2>3 DEF Register, Room
  <2> HIDE DEF r, p
  <2>5. \A id \in PairIds : Has(rooms[r], id) => Has(rooms'[r], id)
    BY <2>4 DEF Has
  <2>6. ASSUME NEW q \in NewPartners(r, p)  PROVE Has(rooms'[r], PairIdOf(p, q))
    <3>1. PairIdOf(p, q) \in PairIds /\ PairIdOf(p, q) \in DOMAIN new
      BY <1>1, <2>1, NewPairFacts
    <3> QED
      BY <2>1, <2>4, <3>1 DEF Has
  <2> QED
    BY <2>3, <2>4, <2>5, <2>6
<1> HIDE DEF r, p
<1> SUFFICES ASSUME NEW s \in RoomObjs,
                    NEW x \in rooms[s].participants, NEW y \in rooms[s].participants,
                    x # y,
                    participant[x].readiness = "media-ready", ~ Evaluates(x)',
                    participant[y].readiness = "media-ready", ~ Evaluates(y)'
             PROVE  Has(rooms'[s], PairIdOf(x, y))
  BY <1>2, <1>3 DEF PairedOnceEvaluated, PairIdOf
<1>4. /\ PairIdOf(x, y) \in PairIds /\ PairIdOf(x, y) = PairIdOf(y, x)
      /\ participant[x].room = s /\ participant[y].room = s
      /\ participant[x].conn \in Conns /\ participant[y].conn \in Conns
  BY PairIdType DEF IInv, RoomsOK, ParticipantsOK
<1>5. CASE x = p
  BY <1>1, <1>3, <1>4, <1>5 DEF NewPartners
<1>6. CASE y = p
  BY <1>1, <1>3, <1>4, <1>6 DEF NewPartners
<1>7. CASE x # p /\ y # p
  <2>1. ~ Evaluates(x) /\ ~ Evaluates(y)
    BY <1>2, <1>4, <1>7 DEF Evaluates, p
  <2> QED
    BY <1>3, <1>4, <2>1 DEF PairedOnceEvaluated
<1> QED
  BY <1>5, <1>6, <1>7

LEMMA PairingNext == IInv /\ PairingInv /\ [Next]_vars => PairingInv'
<1> SUFFICES ASSUME IInv, IInv', PairingInv, [Next]_vars  PROVE PairingInv'
  BY NextStep
<1>1. CASE UNCHANGED vars
  BY <1>1 DEF vars, PairingInv, SpeaksForItsOwn, Joined, PairedOnceEvaluated, Evaluates,
              PairIdOf
<1>2. ASSUME NEW c \in Conns, Continue(c) \/ Read(c)  PROVE PairingInv'
  <2>1. CASE JoinAccepted(c)
    <3>1. /\ participant'[admitted + 1].readiness = "joined"
          /\ participant'[admitted + 1].conn = c
          /\ \A q \in 1..admitted : participant'[q] = participant[q]
      BY <2>1, MaxPeersAssumption DEF JoinAccepted, IInv, TypeOK, Peers
    <3>2. SpeaksForItsOwn'
      BY <2>1, <3>1
      DEF JoinAccepted, PairingInv, SpeaksForItsOwn, Joined, IInv, TypeOK, SessionsOK, NoPeer
    <3>3. \A q \in 1..admitted : Evaluates(q) => Evaluates(q)'
      <4> SUFFICES ASSUME NEW q \in 1..admitted, Evaluates(q)  PROVE Evaluates(q)'
        OBVIOUS
      <4>1. participant[q].conn \in Conns /\ participant'[q].conn = participant[q].conn
        BY <3>1 DEF IInv, ParticipantsOK
      <4>2. ~ Evaluate(c)
        BY <2>1 DEF JoinAccepted, Evaluate, At
      <4> QED
        BY <1>2, <4>1, <4>2, EvaluatorsKept DEF Evaluates
    <3>4. PairedOnceEvaluated'
      BY <3>1, <3>3, PairingKept DEF PairingInv
    <3> QED
      BY <3>2, <3>4 DEF PairingInv
  <2>2. CASE MediaReady(c)
    <3> DEFINE p == session[c].peer
    <3>1. /\ p \in 1..admitted /\ participant[p].conn = c
          /\ UNCHANGED <<admitted, session>>
          /\ work'[c].at = "announce_ready" /\ work'[c].subject = p
      BY <2>2 DEF MediaReady, Joined, IInv, TypeOK, SessionsOK, PairingInv,
                  SpeaksForItsOwn, Handler, NoPeer
    <3>2. /\ \A q \in 1..admitted : /\ participant'[q].index = participant[q].index
                                    /\ participant'[q].conn = participant[q].conn
          /\ \A q \in (1..admitted) \ {p} : participant'[q] = participant[q]
      BY <2>2, MaxPeersAssumption DEF MediaReady, IInv, TypeOK, Participant, Peers
    <3>3. Evaluates(p)'
      BY <3>1, <3>2 DEF Evaluates
    <3>4. \A q \in 1..admitted : Evaluates(q) => Evaluates(q)'
      <4> SUFFICES ASSUME NEW q \in 1..admitted, Evaluates(q)  PROVE Evaluates(q)'
        OBVIOUS
      <4>1. participant[q].conn \in Conns /\ participant'[q].conn = participant[q].conn
        BY <3>2 DEF IInv, ParticipantsOK
      <4>2. ~ Evaluate(c)
        BY <2>2 DEF MediaReady, Evaluate, At
      <4> QED
        BY <1>2, <4>1, <4>2, EvaluatorsKept DEF Evaluates
    <3>5. SpeaksForItsOwn'
      BY <3>1, <3>2 DEF PairingInv, SpeaksForItsOwn, Joined, IInv, SessionsOK, NoPeer
    <3>6. PairedOnceEvaluated'
      <4>1. ASSUME NEW q \in 1..admitted,
                   participant'[q].readiness = "media-ready", ~ Evaluates(q)'
            PROVE  participant[q].readiness = "media-ready" /\ ~ Evaluates(q)
        <5>1. q # p
          BY <3>1, <3>3, <4>1
        <5> QED
          BY <3>2, <3>4, <4>1, <5>1
      <4> QED
        BY <3>1, <3>2, <4>1, PairingKept DEF PairingInv
    <3> QED
      BY <3>5, <3>6 DEF PairingInv
  <2>3. CASE ~ JoinAccepted(c) /\ ~ MediaReady(c)
    <3>1. UNCHANGED <<admitted, participant>>
      BY <1>2, <2>3
      DEF Continue, Send, JoinRejected, SendSnapshot, AnnounceJoined, AnnounceReady,
          Evaluate, CollectRoom, ReportReleased, AnnounceDeparture, Finish,
          Read, JoinExisting, JoinCreating, MediaFailed, LeaveRoom, Disconnect,
          ReleaseAndNotify, RelayPair, PairFailed, ReconnectPair, PairMediaState, Refuse
    <3>2. \A d \in Conns : session'[d].peer \in {session[d].peer, NoPeer}
      <4>1. session \in [Conns -> Session]
        BY DEF IInv, TypeOK
      <4>2. CASE Finish(c)
        <5>1. CASE session' = [session EXCEPT ![c].peer = NoPeer, ![c].roomId = NoRoomId]
          <6>1. session'[c] = [session[c] EXCEPT !.peer = NoPeer, !.roomId = NoRoomId]
            BY <4>1, <5>1
          <6> QED
            BY <4>1, <5>1, <6>1 DEF Session
        <5> QED
          BY <4>2, <5>1 DEF Finish
      <4>3. CASE MediaFailed(c)
        BY <4>1, <4>3 DEF MediaFailed, Session
      <4>4. CASE LeaveRoom(c) \/ Disconnect(c)
        <5>1. session' = [session EXCEPT ![c].released = Joined(c) \/ @]
          BY <4>4 DEF LeaveRoom, Disconnect, ReleaseAndNotify
        <5> QED
          BY <4>1, <5>1 DEF Session
      <4>5. CASE ~ (Finish(c) \/ MediaFailed(c) \/ LeaveRoom(c) \/ Disconnect(c))
        BY <1>2, <2>3, <4>5
        DEF Continue, Send, JoinRejected, SendSnapshot, AnnounceJoined, AnnounceReady,
            Evaluate, CollectRoom, ReportReleased, AnnounceDeparture,
            Read, JoinExisting, JoinCreating,
            RelayPair, PairFailed, ReconnectPair, PairMediaState, Refuse
      <4> QED
        BY <4>2, <4>3, <4>4, <4>5
    <3>3. SpeaksForItsOwn'
      BY <3>1, <3>2 DEF PairingInv, SpeaksForItsOwn, Joined
    <3>4. PairedOnceEvaluated'
      <4>1. CASE Evaluate(c)
        BY <4>1, EvaluatePairing DEF PairingInv
      <4>2. CASE ~ Evaluate(c)
        <5>1. \A q \in 1..admitted : Evaluates(q) => Evaluates(q)'
          BY <1>2, <3>1, <4>2, EvaluatorsKept DEF Evaluates, IInv, ParticipantsOK
        <5> QED
          BY <3>1, <5>1, PairingKept DEF PairingInv
      <4> QED
        BY <4>1, <4>2
    <3> QED
      BY <3>3, <3>4 DEF PairingInv
  <2> QED
    BY <2>1, <2>2, <2>3
<1> QED
  BY <1>1, <1>2 DEF Next

LEMMA PairingInit == Init => PairingInv
BY DEF Init, PairingInv, SpeaksForItsOwn, Joined, PairedOnceEvaluated, NewRoom

\* In whatever order members become media-ready, and whoever leaves or comes
\* between the critical section that makes one ready and the one that
\* evaluates its pairs: two members that have both evaluated are paired.
THEOREM ReadyPairs == Spec => []ReadyPairsRegistered
<1>1. PairingInv => ReadyPairsRegistered
  BY DEF PairingInv, PairedOnceEvaluated, ReadyPairsRegistered, ToEvaluate, Evaluates
<1>2. Spec => []PairingInv
  BY PairingInit, PairingNext, Inductive, PTL DEF Spec
<1> QED
  BY <1>1, <1>2, PTL

-----------------------------------------------------------------------------
(***************************************************************************)
(* The rosters: what a mesh client's roster says of a room is what the     *)
(* room is, once everybody who has something to tell it has.               *)
(***************************************************************************)

\* The steps of a handler that has yet to announce that its subject has come
\* or is ready, and that it has gone.
Arrivals == {"snapshot", "announce_joined", "announce_ready"}
Departures == {"gc", "report_released", "announce_departure"}

\* What a roster of room r should say of q.
TruthIn(r, q) ==
  IF q \in rooms[r].participants THEN participant[q].readiness ELSE "absent"

\* A handler speaks of a participant of its own connection, as it stands.
StepOK(d) ==
  LET w == work[d]
      q == w.subject
  IN /\ w.at \in Arrivals =>
          /\ q \in rooms[w.room].participants /\ participant[q].conn = d
          /\ participant[q].readiness =
               IF w.at = "announce_ready" THEN "media-ready" ELSE "joined"
     /\ w.at \in {"snapshot", "announce_joined"} => session[d].peer = q
     /\ w.at \in Departures /\ q # NoPeer =>
          /\ participant[q].conn = d /\ participant[q].room = w.room
          /\ q \notin rooms[w.room].participants

IsUpdate(m) == m.type = "mesh_roster_update"
IsSnapshot(m) == m.type = "mesh_roster_snapshot"

\* What an update and a snapshot make a roster say.
Shows(m) == IF m.presence \in {"released", "left"} THEN "absent" ELSE m.presence

Lists(m, q) ==
  IF \E x \in m.entries : x.peer = q
  THEN (CHOOSE x \in m.entries : x.peer = q).presence ELSE "absent"

\* An update that is under way is still true, and a snapshot is for the
\* connection that was admitted.
SendsOK(d) ==
  \A e \in out[d] :
    /\ IsUpdate(e.msg) =>
         LET q == e.msg.subject
         IN /\ q \in 1..admitted /\ participant[q].conn = d
            /\ Shows(e.msg) = TruthIn(participant[q].room, q)
    /\ IsSnapshot(e.msg) => e.to = d /\ work[d].at = "announce_joined"

\* A client knows its peer ID, or join_accepted is under way.
SelfOK(c) ==
  Joined(c) /\ work[c].at # "closed" =>
    \/ roster[c].self = session[c].peer
    \/ /\ work[c].at = "snapshot"
       /\ \E e \in out[c] : e.to = c /\ e.msg.type = "join_accepted"

\* d has yet to tell p about q: that it will announce it, and that it has
\* numbered the update, later than k.
Announces(d, q, p) ==
  LET w == work[d]
  IN /\ w.subject = q /\ w.room = participant[p].room
     /\ \/ w.at \in Arrivals
        \/ w.at \in Departures /\ p \in w.remaining

Carries(d, c, q, k) ==
  \E e \in out[d] : /\ e.to = c /\ IsUpdate(e.msg)
                    /\ e.msg.subject = q /\ e.msg.serverSeq > k

Owed(c, q, k) ==
  \E d \in Conns : Announces(d, q, session[c].peer) \/ Carries(d, c, q, k)

\* c is a participant of its room, and was written to in order.
Following(c) ==
  LET p == session[c].peer
  IN /\ Joined(c) /\ work[c].at # "closed"
     /\ p \in rooms[participant[p].room].participants
     /\ ~ order[c].late /\ ~ order[c].stray

RoomOf(c) == participant[session[c].peer].room

\* The snapshot under way is true of everybody but those c is still owed an
\* update of, newer than it, unless a newer update has been written already.
SnapshotTrue(c, m) ==
  /\ m.serverSeq <= rooms[RoomOf(c)].rosterSeq
  /\ \/ m.serverSeq <= order[c].newest
     \/ \A q \in Peers \ {session[c].peer} :
          Owed(c, q, m.serverSeq) \/ Lists(m, q) = TruthIn(RoomOf(c), q)

RosterTrue(c) ==
  /\ roster[c].serverSeq <= order[c].newest
  /\ roster[c].byPeerId[session[c].peer] = "absent"
  /\ \A q \in Peers \ {session[c].peer} :
       Owed(c, q, 0) \/ roster[c].byPeerId[q] = TruthIn(RoomOf(c), q)

Awaits(c) == \E e \in out[c] : IsSnapshot(e.msg)

ViewOK(c) ==
  Following(c) =>
    /\ \A e \in out[c] : IsSnapshot(e.msg) => SnapshotTrue(c, e.msg)
    /\ work[c].at # "snapshot" /\ ~ Awaits(c) => RosterTrue(c)

FollowInv ==
  \A c \in Conns : StepOK(c) /\ SendsOK(c) /\ SelfOK(c) /\ ViewOK(c)

\* What the server's proofs give.
ServerInv == IInv /\ RegistryInv /\ PairingInv

\* The types of the clients' part of the state.
ClientTypes == roster \in [Conns -> Slice] /\ order \in [Conns -> Order]

-----------------------------------------------------------------------------
(* The server under the clients. *)

LEMMA DeliverSends == ASSUME NEW c \in Conns, Deliver(c)  PROVE Send(c)
BY DEF Deliver, Send, NextSends

LEMMA RosterNextIsNext == [RosterNext]_allVars => [Next]_vars
<1>1. ASSUME NEW c \in Conns, RosterContinue(c)  PROVE Continue(c)
  BY <1>1, DeliverSends DEF RosterContinue, Admitted, Proceed, Continue
<1> QED
  BY <1>1 DEF RosterNext, Next, allVars

LEMMA PairingInvariant == Spec => []PairingInv
BY PairingInit, PairingNext, Inductive, PTL DEF Spec

LEMMA ServerInvariant == RosterSpec => []ServerInv
<1>1. RosterInit => Init
  BY DEF RosterInit
<1>2. RosterSpec => Spec
  BY <1>1, RosterNextIsNext, PTL DEF RosterSpec, Spec
<1> QED
  BY <1>2, Inductive, RegistryInvariant, PairingInvariant, PTL DEF ServerInv

-----------------------------------------------------------------------------
(* Messages. *)

LEMMA MessageKinds ==
  ASSUME NEW m \in Message
  PROVE  /\ IsUpdate(m) => m \in [type : {"mesh_roster_update"}, serverSeq : Nat,
                                 subject : Peers, presence : Presences]
         /\ IsSnapshot(m) => m \in [type : {"mesh_roster_snapshot"}, serverSeq : Nat,
                                   entries : SUBSET [peer : Peers, presence : Presences]]
BY DEF Message, IsUpdate, IsSnapshot, Relayed

\* What a snapshot lists is a presence.
LEMMA ListsType ==
  ASSUME NEW m \in Message, IsSnapshot(m), NEW q \in Peers
  PROVE  Lists(m, q) \in Presences \cup {"absent"}
<1>1. m.entries \subseteq [peer : Peers, presence : Presences]
  BY MessageKinds
<1>2. CASE \E x \in m.entries : x.peer = q
  <2>1. (CHOOSE x \in m.entries : x.peer = q) \in m.entries
    BY <1>2
  <2> QED
    BY <1>1, <1>2, <2>1 DEF Lists
<1>3. CASE ~ \E x \in m.entries : x.peer = q
  BY <1>3 DEF Lists
<1> QED
  BY <1>2, <1>3

\* A snapshot lists the room.
LEMMA SnapshotLists ==
  ASSUME NEW r \in RoomObjs, NEW q
  PROVE  Lists(RosterSnapshot(r), q) = TruthIn(r, q)
<1> DEFINE E == {[peer |-> p, presence |-> participant[p].readiness] :
                   p \in rooms[r].participants}
<1>1. RosterSnapshot(r).entries = E
  BY DEF RosterSnapshot
<1>2. CASE q \in rooms[r].participants
  <2>1. [peer |-> q, presence |-> participant[q].readiness] \in E
    BY <1>2
  <2>2. \A y \in E : y.peer = q => y.presence = participant[q].readiness
    OBVIOUS
  <2> HIDE DEF E
  <2>3. \E y \in E : y.peer = q
    BY <2>1
  <2> QED
    BY <1>1, <1>2, <2>2, <2>3 DEF Lists, TruthIn
<1>3. CASE q \notin rooms[r].participants
  <2>1. ~ \E y \in E : y.peer = q
    BY <1>3
  <2> HIDE DEF E
  <2> QED
    BY <1>1, <1>3, <2>1 DEF Lists, TruthIn
<1> QED
  BY <1>2, <1>3

-----------------------------------------------------------------------------
(* The clients' part of the state keeps its types. *)

LEMMA DispatchedType ==
  ASSUME ServerInv, ClientTypes, NEW c \in Conns, NEW m \in Message
  PROVE  Dispatched(c, m) \in Slice
<1>1. roster[c] \in Slice /\ session[c].peer \in Peers \cup {NoPeer}
  BY DEF ClientTypes, ServerInv, IInv, TypeOK, Session
<1>2. CASE IsSnapshot(m)
  <2>1. m.serverSeq \in Nat
    BY <1>2, MessageKinds
  <2>2. \A p \in Peers :
          (IF p # roster[c].self /\ \E x \in m.entries : x.peer = p
           THEN (CHOOSE x \in m.entries : x.peer = p).presence
           ELSE "absent") \in Presences \cup {"absent"}
    BY <1>2, ListsType DEF Lists
  <2>3. SnapshotApplied(roster[c], m) \in Slice
    BY <1>1, <2>1, <2>2 DEF SnapshotApplied, Slice
  <2> QED
    BY <1>2, <2>3 DEF Dispatched, IsSnapshot
<1>3. CASE IsUpdate(m)
  <2>1. m.serverSeq \in Nat /\ m.subject \in Peers /\ m.presence \in Presences
    BY <1>3, MessageKinds
  <2>2. [roster[c].byPeerId EXCEPT ![m.subject] =
           IF m.presence \in {"released", "left"} THEN "absent" ELSE m.presence]
          \in [Peers -> Presences \cup {"absent"}]
    BY <1>1, <2>1 DEF Slice
  <2>3. UpdateApplied(roster[c], m) \in Slice
    BY <1>1, <2>1, <2>2 DEF UpdateApplied, Slice
  <2> QED
    BY <1>3, <2>3 DEF Dispatched, IsUpdate
<1>4. CASE ~ IsSnapshot(m) /\ ~ IsUpdate(m)
  BY <1>1, <1>4 DEF Dispatched, IsSnapshot, IsUpdate, Slice
<1> QED
  BY <1>2, <1>3, <1>4

LEMMA WrittenType ==
  ASSUME NEW o \in Order, NEW d \in Delivery
  PROVE  Written(o, d) \in Order
<1>1. d.msg \in Message
  BY DEF Delivery
<1>2. Numbered(d.msg) => d.msg.serverSeq \in Nat
  BY <1>1, MessageKinds DEF Numbered, IsSnapshot, IsUpdate
<1>3. Stray(d) \in BOOLEAN
  BY DEF Stray
<1> QED
  BY <1>2, <1>3 DEF Written, Order

LEMMA ClientTypesStep ==
  ASSUME ServerInv, ClientTypes, [RosterNext]_allVars
  PROVE  ClientTypes'
<1>1. CASE UNCHANGED clientVars
  BY <1>1 DEF clientVars, ClientTypes
<1>2. ASSUME NEW c \in Conns, Deliver(c)  PROVE ClientTypes'
  <2>1. PICK d \in NextSends(c) :
          IF work[d.to].at = "closed" THEN UNCHANGED clientVars
          ELSE /\ roster' = [roster EXCEPT ![d.to] = Dispatched(d.to, d.msg)]
               /\ order' = [order EXCEPT ![d.to] = Written(@, d)]
    BY <1>2 DEF Deliver
  <2>2. d \in Delivery /\ d.to \in Conns /\ d.msg \in Message
    BY DEF NextSends, ServerInv, IInv, TypeOK, Delivery
  <2>3. Dispatched(d.to, d.msg) \in Slice /\ Written(order[d.to], d) \in Order
    BY <2>2, DispatchedType, WrittenType DEF ClientTypes
  <2> QED
    BY <1>1, <2>1, <2>2, <2>3 DEF ClientTypes
<1>3. ASSUME NEW c \in Conns, Admitted(c)  PROVE ClientTypes'
  BY <1>3 DEF Admitted, ClientTypes, InOrder, Order
<1> QED
  BY <1>1, <1>2, <1>3 DEF RosterNext, RosterContinue, allVars

-----------------------------------------------------------------------------
(***************************************************************************)
(* The critical sections: every step but the sends.  Each is a goroutine's *)
(* own, which has made its sends and touches no other's place or session.  *)
(***************************************************************************)

Section(d) == JoinAccepted(d) \/ Proceed(d) \/ Read(d)

\* A room is about to lose the participant d speaks for.
Releases(d) ==
  /\ At(d, "read") /\ Joined(d)
  /\ \E r \in RoomObjs, cause \in Causes : Named(d, r) /\ BeginRelease(d, r, cause)
  /\ UNCHANGED <<admitted, participant, out>>

\* What a section does that tells no roster anything and owes none anything
\* it did not owe.
Silent(d) ==
  /\ \A r \in RoomObjs : /\ rooms'[r].participants = rooms[r].participants
                         /\ rooms'[r].rosterSeq = rooms[r].rosterSeq
  /\ UNCHANGED <<admitted, participant>>
  /\ \A e \in out'[d] : ~ Numbered(e.msg)
  /\ work'[d].at \notin Arrivals
  /\ \/ /\ work[d].at \notin Arrivals \cup Departures
        /\ work'[d].at \notin Departures
     \/ /\ work[d].at \in Departures /\ work[d].subject = NoPeer
        /\ work'[d].at \in Departures => work'[d].subject = NoPeer
     \/ /\ work[d].at \in Departures /\ work'[d].at \in Departures
        /\ work'[d].subject = work[d].subject
        /\ work'[d].room = work[d].room
        /\ work'[d].remaining = work[d].remaining

LEMMA SectionFrame ==
  ASSUME ServerInv, NEW d \in Conns, Section(d)
  PROVE  /\ out[d] = {} /\ work[d].at # "closed"
         /\ \A e \in Conns \ {d} : /\ work'[e] = work[e] /\ out'[e] = out[e]
                                   /\ session'[e] = session[e]
<1>1. /\ work \in [Conns -> Work] /\ session \in [Conns -> Session]
      /\ out \in [Conns -> SUBSET Delivery]
  BY DEF ServerInv, IInv, TypeOK
<1>2. CASE JoinAccepted(d) \/ JoinRejected(d) \/ SendSnapshot(d)
  BY <1>1, <1>2 DEF JoinAccepted, JoinRejected, SendSnapshot, At
<1>3. CASE AnnounceJoined(d) \/ AnnounceReady(d) \/ Evaluate(d)
  BY <1>1, <1>3 DEF AnnounceJoined, AnnounceReady, Evaluate, Broadcast, At
<1>4. CASE CollectRoom(d) \/ ReportReleased(d) \/ AnnounceDeparture(d)
  BY <1>1, <1>4 DEF CollectRoom, ReportReleased, AnnounceDeparture, At
<1>5. CASE Finish(d)
  BY <1>1, <1>5 DEF Finish, At
<1>6. CASE Read(d)
  <2>1. CASE MediaFailed(d) \/ LeaveRoom(d) \/ Disconnect(d)
    BY <1>1, <2>1 DEF MediaFailed, LeaveRoom, Disconnect, ReleaseAndNotify,
                     BeginRelease, At
  <2>2. CASE MediaReady(d) \/ Refuse(d)
    BY <1>1, <2>2 DEF MediaReady, Refuse, At
  <2>3. ASSUME NEW rid \in RoomIds, JoinExisting(d, rid) \/ JoinCreating(d, rid)
        PROVE  out[d] = {} /\ work[d].at # "closed"
               /\ \A e \in Conns \ {d} : /\ work'[e] = work[e] /\ out'[e] = out[e]
                                         /\ session'[e] = session[e]
    BY <1>1, <2>3 DEF JoinExisting, JoinCreating, At
  <2>4. ASSUME NEW r \in RoomObjs, PairMediaState(d, r) \/
                 \E id \in PairIds : \/ PairFailed(d, r, id) \/ ReconnectPair(d, r, id)
                                     \/ \E type \in Relayed : RelayPair(d, r, id, type)
        PROVE  out[d] = {} /\ work[d].at # "closed"
               /\ \A e \in Conns \ {d} : /\ work'[e] = work[e] /\ out'[e] = out[e]
                                         /\ session'[e] = session[e]
    BY <1>1, <2>4 DEF RelayPair, PairFailed, ReconnectPair, PairMediaState, Forward, At
  <2> QED
    BY <1>6, <2>1, <2>2, <2>3, <2>4 DEF Read
<1> QED
  BY <1>2, <1>3, <1>4, <1>5, <1>6 DEF Section, Proceed

\* What the pairs are sent is not for the roster.
LEMMA PairSends ==
  ASSUME NEW type \in Relayed \cup {"pair_failed"}, NEW c \in Conns,
         NEW r, NEW id, Forward(c, r, id, type), out \in [Conns -> SUBSET Delivery]
  PROVE  \A e \in out'[c] : ~ Numbered(e.msg)
BY DEF Forward, FanOut, Numbered, Relayed

LEMMA InstructionSends ==
  ASSUME NEW type \in {"pair_negotiation_instruction", "pair_reconnect_instruction"},
         NEW id, NEW epoch, NEW lo, NEW hi, NEW rid, NEW k
  PROVE  \A e \in Instructions(type, id, epoch, lo, hi, rid, k) : ~ Numbered(e.msg)
BY DEF Instructions, Instruction, Numbered

\* The parts of a room that the ledger's operations leave alone.
LEMMA LedgerKeeps ==
  ASSUME NEW rm \in Room, NEW new
  PROVE  /\ Register(rm, new).participants = rm.participants
         /\ Register(rm, new).rosterSeq = rm.rosterSeq
         /\ \A id \in PairIds :
              /\ MarkFailed(rm, id).participants = rm.participants
              /\ MarkFailed(rm, id).rosterSeq = rm.rosterSeq
              /\ Increment(rm, id).participants = rm.participants
              /\ Increment(rm, id).rosterSeq = rm.rosterSeq
BY DEF Register, MarkFailed, Increment, Room

LEMMA SilentReads ==
  ASSUME ServerInv, NEW d \in Conns, Read(d), ~ MediaReady(d), ~ Releases(d)
  PROVE  Silent(d)
<1> USE DEF Silent, Arrivals, Departures
<1>1. /\ work \in [Conns -> Work] /\ session \in [Conns -> Session]
      /\ out \in [Conns -> SUBSET Delivery] /\ rooms \in [RoomObjs -> Room]
  BY DEF ServerInv, IInv, TypeOK
<1>2. ASSUME NEW rid \in RoomIds, JoinExisting(d, rid) \/ JoinCreating(d, rid)
      PROVE  Silent(d)
  BY <1>1, <1>2 DEF JoinExisting, JoinCreating, At, Handler
<1>3. CASE MediaFailed(d)
  <2>1. /\ UNCHANGED <<rooms, work, admitted, participant, out>>
        /\ At(d, "read")
    BY <1>3 DEF MediaFailed, Releases, Causes
  <2> QED
    BY <2>1 DEF At
<1>4. CASE LeaveRoom(d) \/ Disconnect(d)
  <2>1. PICK cause \in Causes : work' = [work EXCEPT ![d] = Finishing(cause)]
                                /\ UNCHANGED rooms
    BY <1>4 DEF LeaveRoom, Disconnect, ReleaseAndNotify, Releases, Causes
  <2>2. At(d, "read") /\ UNCHANGED <<admitted, participant, out>>
    BY <1>4 DEF LeaveRoom, Disconnect, ReleaseAndNotify
  <2> QED
    BY <1>1, <2>1, <2>2 DEF At, Finishing
<1>5. ASSUME NEW r \in RoomObjs, NEW id \in PairIds, NEW type \in Relayed,
             RelayPair(d, r, id, type)
      PROVE  Silent(d)
  BY <1>1, <1>5, PairSends DEF RelayPair, At
<1>6. ASSUME NEW r \in RoomObjs, NEW id \in PairIds, PairFailed(d, r, id)
      PROVE  Silent(d)
  <2>1. \A e \in out'[d] : ~ Numbered(e.msg)
    BY <1>1, <1>6, PairSends DEF PairFailed
  <2> QED
    BY <1>1, <1>6, <2>1, LedgerKeeps DEF PairFailed, At
<1>7. ASSUME NEW r \in RoomObjs, NEW id \in PairIds, ReconnectPair(d, r, id)
      PROVE  Silent(d)
  <2>1. \A e \in out'[d] : ~ Numbered(e.msg)
    BY <1>1, <1>7, InstructionSends DEF ReconnectPair
  <2> QED
    BY <1>1, <1>7, <2>1, LedgerKeeps DEF ReconnectPair, At
<1>8. ASSUME NEW r \in RoomObjs, PairMediaState(d, r)  PROVE Silent(d)
  BY <1>1, <1>8 DEF PairMediaState, At, FanOut, Numbered
<1>9. CASE Refuse(d)
  BY <1>1, <1>9 DEF Refuse, At, Reply, Numbered
<1> QED
  BY <1>2, <1>3, <1>4, <1>5, <1>6, <1>7, <1>8, <1>9 DEF Read

LEMMA SilentContinues ==
  ASSUME ServerInv, NEW d \in Conns,
         \/ JoinRejected(d) \/ Evaluate(d) \/ CollectRoom(d) \/ ReportReleased(d)
         \/ Finish(d)
  PROVE  Silent(d)
<1> USE DEF Silent, Arrivals, Departures
<1>1. /\ work \in [Conns -> Work] /\ session \in [Conns -> Session]
      /\ out \in [Conns -> SUBSET Delivery] /\ rooms \in [RoomObjs -> Room]
  BY DEF ServerInv, IInv, TypeOK
<1>2. CASE JoinRejected(d)
  BY <1>1, <1>2 DEF JoinRejected, At, Idle, Handler, Reply, Numbered
<1>3. CASE Evaluate(d)
  <2>1. PICK new : rooms' = [rooms EXCEPT ![work[d].room] = Register(@, new)]
    BY <1>3 DEF Evaluate
  <2>2. \A e \in out'[d] : ~ Numbered(e.msg)
    BY <1>1, <1>3, InstructionSends DEF Evaluate
  <2> QED
    BY <1>1, <1>3, <2>1, <2>2, LedgerKeeps DEF Evaluate, At, Idle, Handler
<1>4. CASE CollectRoom(d)
  BY <1>1, <1>4 DEF CollectRoom, At, Resume, Idle, Handler, Work
<1>5. CASE ReportReleased(d)
  BY <1>1, <1>5 DEF ReportReleased, At, Reply, Numbered, Work
<1>6. CASE Finish(d)
  BY <1>1, <1>6 DEF Finish, At, Idle, Handler
<1> QED
  BY <1>2, <1>3, <1>4, <1>5, <1>6

\* The kinds of sections.
LEMMA SectionKinds ==
  ASSUME ServerInv, NEW d \in Conns, Section(d)
  PROVE  \/ JoinAccepted(d) \/ SendSnapshot(d) \/ AnnounceJoined(d) \/ AnnounceReady(d)
         \/ MediaReady(d) \/ Releases(d) \/ AnnounceDeparture(d) \/ Silent(d)
BY SilentReads, SilentContinues DEF Section, Proceed

\* Facts of the server's invariants that every section relies on.
LEMMA ServerFacts ==
  ASSUME ServerInv
  PROVE  /\ work \in [Conns -> Work] /\ session \in [Conns -> Session]
         /\ out \in [Conns -> SUBSET Delivery] /\ rooms \in [RoomObjs -> Room]
         /\ participant \in [Peers -> Participant]
         /\ admitted \in Nat /\ 1..admitted \subseteq Peers
         /\ \A c \in Conns : Joined(c) =>
              /\ session[c].peer \in 1..admitted
              /\ participant[session[c].peer].conn = c
              /\ participant[session[c].peer].room \in RoomObjs
         /\ \A r \in RoomObjs : \A q \in rooms[r].participants :
              q \in 1..admitted /\ participant[q].room = r
<1>1. admitted \in 0..MaxPeers
  BY DEF ServerInv, IInv, TypeOK
<1>2. ASSUME NEW c \in Conns, Joined(c)  PROVE session[c].peer \in 1..admitted
  BY <1>1, <1>2, MaxPeersAssumption DEF Joined, ServerInv, IInv, SessionsOK, NoPeer
<1> QED
  BY <1>1, <1>2, MaxPeersAssumption
  DEF ServerInv, IInv, TypeOK, RoomsOK, ParticipantsOK, PairingInv, SpeaksForItsOwn, Peers

\* What the members of a room and the number of its updates become where an
\* update or a snapshot is numbered.
LEMMA NumberingKeeps ==
  ASSUME rooms \in [RoomObjs -> Room], NEW r \in RoomObjs,
         rooms' = [rooms EXCEPT ![r] = NextRosterSeq(@)]
  PROVE  /\ rooms'[r].rosterSeq = rooms[r].rosterSeq + 1
         /\ rooms[r].rosterSeq \in Nat
         /\ \A s \in RoomObjs : /\ rooms'[s].participants = rooms[s].participants
                                /\ s # r => rooms'[s].rosterSeq = rooms[s].rosterSeq
BY DEF NextRosterSeq, Room

\* An admission, as the roster sees it.
LEMMA AdmissionFacts ==
  ASSUME ServerInv, NEW d \in Conns, JoinAccepted(d)
  PROVE  /\ admitted' = admitted + 1 /\ admitted' \in Peers
         /\ \A q \in Peers \ {admitted + 1} : participant'[q] = participant[q]
         /\ participant'[admitted + 1].room = work[d].room
         /\ participant'[admitted + 1].conn = d
         /\ participant'[admitted + 1].readiness = "joined"
         /\ work[d].room \in RoomObjs
         /\ rooms'[work[d].room].participants =
              rooms[work[d].room].participants \cup {admitted + 1}
         /\ \A r \in RoomObjs : /\ r # work[d].room => rooms'[r] = rooms[r]
                                /\ rooms'[r].rosterSeq = rooms[r].rosterSeq
         /\ work[d].at = "admit" /\ ~ Joined(d)
         /\ session'[d].peer = admitted + 1
         /\ work'[d].at = "snapshot" /\ work'[d].subject = admitted + 1
         /\ work'[d].room = work[d].room
         /\ \A e \in out'[d] : e.to = d /\ e.msg.type = "join_accepted"
         /\ out'[d] # {}
<1>1. work[d].at = "admit" /\ ~ Joined(d) /\ work[d].room \in RoomObjs
  BY DEF JoinAccepted, At, ServerInv, RegistryInv, LatchOK, IInv, WorkOK
<1>2. admitted' = admitted + 1 /\ admitted' \in Peers
  BY MaxPeersAssumption DEF JoinAccepted, ServerInv, IInv, TypeOK, Peers
<1>3. PICK i \in LowestFree(rooms[work[d].room]) :
        rooms' = [rooms EXCEPT ![work[d].room] = Admit(@, admitted + 1, i)]
  BY DEF JoinAccepted
<1>4. /\ rooms'[work[d].room].participants =
           rooms[work[d].room].participants \cup {admitted + 1}
      /\ \A r \in RoomObjs : /\ r # work[d].room => rooms'[r] = rooms[r]
                             /\ rooms'[r].rosterSeq = rooms[r].rosterSeq
  BY <1>1, <1>3, ServerFacts DEF Admit, Room
<1>5. /\ \A q \in Peers \ {admitted + 1} : participant'[q] = participant[q]
      /\ participant'[admitted + 1].room = work[d].room
      /\ participant'[admitted + 1].conn = d
      /\ participant'[admitted + 1].readiness = "joined"
  BY <1>2, ServerFacts DEF JoinAccepted
<1>6. /\ session'[d].peer = admitted + 1
      /\ work'[d].at = "snapshot" /\ work'[d].subject = admitted + 1
      /\ work'[d].room = work[d].room
  BY ServerFacts DEF JoinAccepted, Work
<1>7. out'[d] = Reply(d, work[d].roomId, [type |-> "join_accepted"])
  BY ServerFacts DEF JoinAccepted
<1>8. out'[d] # {} /\ \A e \in out'[d] : e.to = d /\ e.msg.type = "join_accepted"
  BY <1>7 DEF Reply
<1> QED
  BY <1>1, <1>2, <1>4, <1>5, <1>6, <1>8

\* media_ready, as the roster sees it.
LEMMA ReadyFacts ==
  ASSUME ServerInv, NEW d \in Conns, MediaReady(d)
  PROVE  /\ Joined(d) /\ work[d].at = "read"
         /\ UNCHANGED <<rooms, admitted, out, session>>
         /\ \A q \in Peers \ {session[d].peer} : participant'[q] = participant[q]
         /\ participant'[session[d].peer].room = participant[session[d].peer].room
         /\ participant'[session[d].peer].conn = participant[session[d].peer].conn
         /\ participant'[session[d].peer].readiness = "media-ready"
         /\ work'[d].at = "announce_ready"
         /\ work'[d].subject = session[d].peer
         /\ work'[d].room = participant[session[d].peer].room
         /\ session[d].peer \in rooms[participant[session[d].peer].room].participants
<1>1. PICK r \in RoomObjs :
        /\ session[d].peer \in rooms[r].participants
        /\ work' = [work EXCEPT ![d] =
                      Handler("announce_ready", r, session[d].roomId, session[d].peer)]
  BY DEF MediaReady
<1>2. participant[session[d].peer].room = r /\ session[d].peer \in Peers
  BY <1>1, ServerFacts
<1> QED
  BY <1>1, <1>2, ServerFacts DEF MediaReady, At, Handler, Participant

\* The critical section of Release, as the roster sees it.
LEMMA ReleaseFacts ==
  ASSUME ServerInv, NEW d \in Conns, Releases(d)
  PROVE  \E r \in RoomObjs :
           LET p == session[d].peer
               w == work'[d]
           IN /\ p \in 1..admitted /\ participant[p].conn = d /\ work[d].at = "read"
              /\ UNCHANGED <<admitted, participant, out>>
              /\ rooms'[r].participants = rooms[r].participants \ {p}
              /\ \A s \in RoomObjs : /\ s # r => rooms'[s] = rooms[s]
                                     /\ rooms'[s].rosterSeq = rooms[s].rosterSeq
              /\ w.at \notin Arrivals
              /\ p \in rooms[r].participants =>
                   /\ w.at \in Departures /\ w.subject = p /\ w.room = r
                   /\ w.remaining = rooms[r].participants \ {p}
              /\ p \notin rooms[r].participants /\ w.at \in Departures =>
                   w.subject = NoPeer
<1>1. PICK r \in RoomObjs, cause \in Causes : BeginRelease(d, r, cause)
  BY DEF Releases
<1> DEFINE p == session[d].peer
           after == Release(rooms[r], p)
           w == [at |-> "gc", room |-> r, roomId |-> session[d].roomId,
                 subject |-> IF p \in rooms[r].participants THEN p ELSE NoPeer,
                 remaining |-> after.participants, cause |-> cause]
<1>2. /\ rooms' = [rooms EXCEPT ![r] = after]
      /\ work' = [work EXCEPT ![d] = IF IsEmpty(after) THEN w ELSE Resume(w)]
  BY <1>1 DEF BeginRelease
<1>3. /\ p \in 1..admitted /\ participant[p].conn = d /\ work[d].at = "read"
      /\ p # NoPeer /\ UNCHANGED <<admitted, participant, out>>
  BY ServerFacts DEF Releases, At, Joined
<1>4. /\ after.participants = rooms[r].participants \ {p}
      /\ after.rosterSeq = rooms[r].rosterSeq
  BY ServerFacts DEF Release, Room
<1>5. /\ rooms'[r].participants = rooms[r].participants \ {p}
      /\ \A s \in RoomObjs : /\ s # r => rooms'[s] = rooms[s]
                             /\ rooms'[s].rosterSeq = rooms[s].rosterSeq
  BY <1>2, <1>4, ServerFacts
<1>6. work'[d] = w \/ work'[d] = Resume(w)
  BY <1>2, ServerFacts
<1>7. /\ work'[d].at \notin Arrivals
      /\ p \in rooms[r].participants =>
           /\ work'[d].at \in Departures /\ work'[d].subject = p /\ work'[d].room = r
           /\ work'[d].remaining = rooms[r].participants \ {p}
      /\ p \notin rooms[r].participants /\ work'[d].at \in Departures =>
           work'[d].subject = NoPeer
  BY <1>3, <1>4, <1>6 DEF Resume, Idle, Handler, Arrivals, Departures
<1> QED
  BY <1>3, <1>5, <1>7

\* A section changes the membership and the readiness of the participants of
\* its own connection only, and no other of their attributes.
LEMMA OthersKept ==
  ASSUME ServerInv, NEW d \in Conns, Section(d)
  PROVE  /\ admitted' \in {admitted, admitted + 1}
         /\ \A r \in RoomObjs :
              /\ rooms[r].rosterSeq \in Nat /\ rooms'[r].rosterSeq \in Nat
              /\ rooms[r].rosterSeq <= rooms'[r].rosterSeq
         /\ \A q \in 1..admitted :
              /\ participant'[q].room = participant[q].room
              /\ participant'[q].conn = participant[q].conn
              /\ participant[q].conn # d =>
                   participant'[q].readiness = participant[q].readiness
         /\ \A r \in RoomObjs, q \in 1..admitted :
              participant[q].conn # d /\ q \in rooms[r].participants =>
                q \in rooms'[r].participants
         /\ \A r \in RoomObjs : \A q \in rooms'[r].participants :
              q \in rooms[r].participants \/ (JoinAccepted(d) /\ q = admitted + 1)
<1>1. \A r \in RoomObjs : rooms[r].rosterSeq \in Nat
  BY ServerFacts DEF Room
<1>2. CASE JoinAccepted(d)
  <2>1. \A r \in RoomObjs :
          /\ rooms[r].participants \subseteq rooms'[r].participants
          /\ rooms'[r].participants \subseteq rooms[r].participants \cup {admitted + 1}
    BY <1>2, AdmissionFacts
  <2>2. \A q \in 1..admitted : participant'[q] = participant[q]
    <3>1. \A q \in 1..admitted : q \in Peers /\ q # admitted + 1
      BY ServerFacts
    <3>2. \A q \in Peers \ {admitted + 1} : participant'[q] = participant[q]
      BY <1>2, AdmissionFacts
    <3> QED
      BY <3>1, <3>2
  <2>3. /\ admitted' = admitted + 1
        /\ \A r \in RoomObjs : rooms'[r].rosterSeq = rooms[r].rosterSeq
    BY <1>2, AdmissionFacts
  <2> QED
    BY <1>1, <1>2, <2>1, <2>2, <2>3
<1>3. CASE SendSnapshot(d) \/ AnnounceJoined(d) \/ AnnounceReady(d) \/ AnnounceDeparture(d)
  <2> DEFINE r == work[d].room
  <2>1. /\ r \in RoomObjs
        /\ rooms' = [rooms EXCEPT ![r] = NextRosterSeq(@)]
        /\ UNCHANGED <<admitted, participant>>
    BY <1>3 DEF SendSnapshot, AnnounceJoined, AnnounceReady, AnnounceDeparture, Broadcast,
                At, ServerInv, IInv, WorkOK
  <2> HIDE DEF r
  <2>2. /\ rooms'[r].rosterSeq = rooms[r].rosterSeq + 1
        /\ \A s \in RoomObjs : /\ rooms'[s].participants = rooms[s].participants
                               /\ s # r => rooms'[s].rosterSeq = rooms[s].rosterSeq
    BY <2>1, NumberingKeeps, ServerFacts
  <2>3. \A s \in RoomObjs :
              /\ rooms[s].rosterSeq \in Nat /\ rooms'[s].rosterSeq \in Nat
              /\ rooms[s].rosterSeq <= rooms'[s].rosterSeq
    BY <1>1, <2>2
  <2> QED
    BY <2>1, <2>2, <2>3
<1>4. CASE MediaReady(d)
  BY <1>1, <1>4, ReadyFacts, ServerFacts
<1>5. CASE Releases(d)
  <2> DEFINE p == session[d].peer
  <2>1. PICK r \in RoomObjs :
          /\ p \in 1..admitted /\ participant[p].conn = d
          /\ UNCHANGED <<admitted, participant>>
          /\ rooms'[r].participants = rooms[r].participants \ {p}
          /\ \A s \in RoomObjs : /\ s # r => rooms'[s] = rooms[s]
                                 /\ rooms'[s].rosterSeq = rooms[s].rosterSeq
    BY <1>5, ReleaseFacts
  <2> HIDE DEF p
  <2>2. \A s \in RoomObjs :
          /\ rooms'[s].participants \subseteq rooms[s].participants
          /\ rooms[s].participants \subseteq rooms'[s].participants \cup {p}
    BY <2>1
  <2> QED
    BY <1>1, <2>1, <2>2
<1>6. CASE Silent(d)
  BY <1>1, <1>6 DEF Silent
<1> QED
  BY <1>2, <1>3, <1>4, <1>5, <1>6, SectionKinds

-----------------------------------------------------------------------------
(* What the handlers are about to say, and what they have sent, stays true. *)

LEMMA FanOutFacts ==
  ASSUME NEW peers, NEW k, NEW rid, NEW msg
  PROVE  /\ \A e \in FanOut(peers, k, rid, msg) : e.msg = msg
         /\ \A p \in peers : \E e \in FanOut(peers, k, rid, msg) :
              e.to = participant[p].conn /\ e.msg = msg
<1>1. \A e \in FanOut(peers, k, rid, msg) : e.msg = msg
  BY DEF FanOut
<1>2. ASSUME NEW p \in peers
      PROVE  \E e \in FanOut(peers, k, rid, msg) :
               e.to = participant[p].conn /\ e.msg = msg
  <2>1. [ord |-> 2 * participant[p].index + k, to |-> participant[p].conn,
         roomId |-> rid, msg |-> msg] \in FanOut(peers, k, rid, msg)
    BY DEF FanOut
  <2> QED
    BY <2>1
<1> QED
  BY <1>1, <1>2

\* AnnounceJoined and AnnounceReady, as the roster sees them.
LEMMA AnnounceFacts ==
  ASSUME ServerInv, NEW d \in Conns, StepOK(d), AnnounceJoined(d) \/ AnnounceReady(d)
  PROVE  \E pr \in {"joined", "media-ready"}, r \in RoomObjs, q \in 1..admitted :
           /\ work[d].at \in Arrivals /\ work[d].room = r /\ work[d].subject = q
           /\ q \in rooms[r].participants
           /\ participant[q].conn = d
           /\ participant[q].room = r
           /\ participant[q].readiness = pr
           /\ rooms' = [rooms EXCEPT ![r] = NextRosterSeq(@)]
           /\ UNCHANGED <<admitted, participant>>
           /\ \A e \in out'[d] : e.msg = RosterUpdate(r, q, pr)
           /\ \A p \in rooms[r].participants :
                \E e \in out'[d] :
                  e.to = participant[p].conn /\ e.msg = RosterUpdate(r, q, pr)
           /\ work'[d].at \in {"read", "evaluate"}
<1>1. /\ work[d].room \in RoomObjs /\ work[d].subject \in 1..admitted
      /\ work[d].at \in {"announce_joined", "announce_ready"}
  BY DEF AnnounceJoined, AnnounceReady, At, ServerInv, IInv, WorkOK
<1>2. /\ work[d].subject \in rooms[work[d].room].participants
      /\ participant[work[d].subject].conn = d
      /\ participant[work[d].subject].room = work[d].room
  BY <1>1, ServerFacts DEF StepOK, Arrivals
<1>3. PICK pr \in {"joined", "media-ready"} :
        /\ participant[work[d].subject].readiness = pr
        /\ Broadcast(d, pr)
        /\ work'[d].at \in {"read", "evaluate"}
        /\ UNCHANGED <<admitted, participant>>
  <2>1. CASE AnnounceJoined(d)
    <3>1. participant[work[d].subject].readiness = "joined"
      BY <2>1 DEF AnnounceJoined, At, StepOK, Arrivals
    <3> QED
      BY <2>1, <3>1, ServerFacts DEF AnnounceJoined, Idle, Handler
  <2>2. CASE AnnounceReady(d)
    <3>1. participant[work[d].subject].readiness = "media-ready"
      BY <2>2 DEF AnnounceReady, At, StepOK, Arrivals
    <3> QED
      BY <2>2, <3>1, ServerFacts DEF AnnounceReady, Work
  <2> QED
    BY <2>1, <2>2
<1>4. PICK r, q : r = work[d].room /\ q = work[d].subject
  OBVIOUS
<1>5. /\ rooms' = [rooms EXCEPT ![r] = NextRosterSeq(@)]
      /\ out'[d] = FanOut(rooms[r].participants, 0, work[d].roomId, RosterUpdate(r, q, pr))
  BY <1>3, <1>4, ServerFacts DEF Broadcast
<1>6. /\ \A e \in out'[d] : e.msg = RosterUpdate(r, q, pr)
      /\ \A p \in rooms[r].participants :
           \E e \in out'[d] :
             e.to = participant[p].conn /\ e.msg = RosterUpdate(r, q, pr)
  BY <1>5, FanOutFacts
<1> QED
  BY <1>1, <1>2, <1>3, <1>4, <1>5, <1>6 DEF Arrivals

\* AnnounceDeparture, as the roster sees it.
LEMMA DepartureFacts ==
  ASSUME ServerInv, NEW d \in Conns, StepOK(d), AnnounceDeparture(d)
  PROVE  \E pr \in {"released", "left"}, r \in RoomObjs, q \in 1..admitted :
           /\ work[d].at \in Departures /\ work[d].at \notin Arrivals
           /\ work[d].room = r /\ work[d].subject = q
           /\ q \notin rooms[r].participants
           /\ participant[q].conn = d
           /\ participant[q].room = r
           /\ rooms' = [rooms EXCEPT ![r] = NextRosterSeq(@)]
           /\ UNCHANGED <<admitted, participant>>
           /\ work'[d].at = "finish"
           /\ \A e \in out'[d] : e.msg = RosterUpdate(r, q, pr) \/ ~ Numbered(e.msg)
           /\ \A p \in work[d].remaining :
                \E e \in out'[d] :
                  e.to = participant[p].conn /\ e.msg = RosterUpdate(r, q, pr)
<1>1. PICK r, q, pr, left :
        /\ r = work[d].room /\ q = work[d].subject
        /\ pr = IF work[d].cause = "media_failed" THEN "released" ELSE "left"
        /\ left = [type |-> "peer_left", subject |-> q]
  OBVIOUS
<1>2. /\ work[d].at = "announce_departure" /\ r \in RoomObjs /\ q \in 1..admitted
      /\ q # NoPeer
  BY <1>1 DEF AnnounceDeparture, At, ServerInv, IInv, WorkOK, NoPeer
<1>3. /\ q \notin rooms[r].participants
      /\ participant[q].conn = d /\ participant[q].room = r
  BY <1>1, <1>2 DEF StepOK, Departures
<1>4. PICK some :
        out'[d] = FanOut(work[d].remaining, 0, work[d].roomId, RosterUpdate(r, q, pr))
                  \cup FanOut(some, 1, work[d].roomId, left)
  BY <1>1, ServerFacts DEF AnnounceDeparture
<1>5. ~ Numbered(left)
  BY <1>1 DEF Numbered
<1>6. /\ \A e \in out'[d] : e.msg = RosterUpdate(r, q, pr) \/ ~ Numbered(e.msg)
      /\ \A p \in work[d].remaining :
           \E e \in out'[d] :
             e.to = participant[p].conn /\ e.msg = RosterUpdate(r, q, pr)
  BY <1>4, <1>5, FanOutFacts
<1>7. /\ rooms' = [rooms EXCEPT ![r] = NextRosterSeq(@)]
      /\ UNCHANGED <<admitted, participant>>
      /\ work'[d].at = "finish"
  BY <1>1, ServerFacts DEF AnnounceDeparture, Work
<1>8. pr \in {"released", "left"}
  BY <1>1
<1> QED
  BY <1>1, <1>2, <1>3, <1>6, <1>7, <1>8 DEF Arrivals, Departures

\* SendSnapshot, as the roster sees it.
LEMMA SnapshotFacts ==
  ASSUME ServerInv, NEW d \in Conns, SendSnapshot(d)
  PROVE  \E r \in RoomObjs :
           /\ work[d].at = "snapshot" /\ work[d].room = r
           /\ rooms' = [rooms EXCEPT ![r] = NextRosterSeq(@)]
           /\ UNCHANGED <<admitted, participant, session>>
           /\ \A e \in out'[d] : e.to = d /\ e.msg = RosterSnapshot(r)
           /\ out'[d] # {}
           /\ work'[d].at = "announce_joined" /\ work'[d].subject = work[d].subject
           /\ work'[d].room = r
<1>1. work[d].at = "snapshot" /\ work[d].room \in RoomObjs
  BY DEF SendSnapshot, At, ServerInv, IInv, WorkOK
<1>2. out'[d] = Reply(d, work[d].roomId, RosterSnapshot(work[d].room))
  BY ServerFacts DEF SendSnapshot
<1>3. out'[d] # {} /\ \A e \in out'[d] : e.to = d /\ e.msg = RosterSnapshot(work[d].room)
  BY <1>2 DEF Reply
<1>4. /\ rooms' = [rooms EXCEPT ![work[d].room] = NextRosterSeq(@)]
      /\ UNCHANGED <<admitted, participant, session>>
      /\ work'[d].at = "announce_joined" /\ work'[d].subject = work[d].subject
      /\ work'[d].room = work[d].room
  BY ServerFacts DEF SendSnapshot, Work
<1> QED
  BY <1>1, <1>3, <1>4

LEMMA OthersStayTrue ==
  ASSUME ServerInv, NEW d \in Conns, Section(d), NEW e \in Conns \ {d},
         StepOK(e), SendsOK(e)
  PROVE  StepOK(e)' /\ SendsOK(e)'
<1>1. work'[e] = work[e] /\ out'[e] = out[e] /\ session'[e] = session[e]
  BY SectionFrame
<1> DEFINE w == work[e]
           q == w.subject
<1>2. /\ w.at \in Arrivals => w.room \in RoomObjs /\ q \in 1..admitted
      /\ w.at \in Departures /\ q # NoPeer => w.room \in RoomObjs /\ q \in 1..admitted
  BY ServerFacts DEF ServerInv, IInv, WorkOK, Arrivals, Departures, NoPeer
<1>3. admitted \in Nat /\ 1..admitted \subseteq 1..admitted'
  BY OthersKept, ServerFacts
<1>4. \A r \in RoomObjs, x \in 1..admitted :
        participant[x].conn = e => TruthIn(r, x)' = TruthIn(r, x)
  <2> SUFFICES ASSUME NEW r \in RoomObjs, NEW x \in 1..admitted, participant[x].conn = e
               PROVE  TruthIn(r, x)' = TruthIn(r, x)
    OBVIOUS
  <2>1. participant'[x].readiness = participant[x].readiness
    BY OthersKept
  <2>2. x \in rooms'[r].participants <=> x \in rooms[r].participants
    BY <1>3, OthersKept
  <2> QED
    BY <2>1, <2>2 DEF TruthIn
<1>5. StepOK(e)'
  <2>1. ASSUME w.at \in Arrivals
        PROVE  /\ q \in rooms'[w.room].participants /\ participant'[q].conn = e
               /\ participant'[q].readiness = participant[q].readiness
    BY <1>2, <2>1, OthersKept DEF StepOK
  <2>2. ASSUME w.at \in Departures, q # NoPeer
        PROVE  /\ participant'[q].conn = e /\ participant'[q].room = w.room
               /\ q \notin rooms'[w.room].participants
    BY <1>2, <1>3, <2>2, OthersKept DEF StepOK
  <2> QED
    BY <1>1, <2>1, <2>2 DEF StepOK
<1>6. SendsOK(e)'
  <2> SUFFICES ASSUME NEW s \in out[e], IsUpdate(s.msg)
               PROVE  LET x == s.msg.subject
                      IN /\ x \in 1..admitted' /\ participant'[x].conn = e
                         /\ Shows(s.msg) = TruthIn(participant[x].room, x)'
    BY <1>1 DEF SendsOK
  <2> DEFINE x == s.msg.subject
  <2>1. /\ x \in 1..admitted /\ participant[x].conn = e
        /\ Shows(s.msg) = TruthIn(participant[x].room, x)
    BY DEF SendsOK
  <2>2. participant'[x].room = participant[x].room /\ participant'[x].conn = e
    BY <2>1, OthersKept
  <2>3. participant[x].room \in RoomObjs
    BY <2>1 DEF ServerInv, IInv, ParticipantsOK
  <2>4. x \in 1..admitted'
    BY <1>3, <2>1
  <2> HIDE DEF x
  <2>5. TruthIn(participant[x].room, x)' = TruthIn(participant[x].room, x)
    BY <1>4, <2>1, <2>2, <2>3 DEF TruthIn
  <2> QED
    BY <2>1, <2>2, <2>4, <2>5 DEF x
<1> QED
  BY <1>5, <1>6

\* The handler whose step it is.
LEMMA OwnStaysTrue ==
  ASSUME ServerInv, ServerInv', NEW d \in Conns, Section(d), StepOK(d)
  PROVE  StepOK(d)' /\ SendsOK(d)'
<1>1. CASE JoinAccepted(d)
  <2> DEFINE p == admitted + 1
             r == work[d].room
  <2>1. /\ p \in rooms'[r].participants /\ participant'[p].conn = d
        /\ participant'[p].readiness = "joined" /\ session'[d].peer = p
        /\ work'[d].at = "snapshot" /\ work'[d].subject = p /\ work'[d].room = r
    <3>1. rooms'[r].participants = rooms[r].participants \cup {p}
      BY <1>1, AdmissionFacts
    <3>2. session'[d].peer = p
      BY <1>1, AdmissionFacts
    <3> QED
      BY <1>1, <3>1, <3>2, AdmissionFacts
  <2>2. StepOK(d)'
    <3> HIDE DEF p, r
    <3> QED
      BY <2>1 DEF StepOK, Arrivals, Departures
  <2>3. \A e \in out'[d] : e.msg.type = "join_accepted"
    BY <1>1, AdmissionFacts
  <2>4. SendsOK(d)'
    BY <2>3 DEF SendsOK, IsUpdate, IsSnapshot
  <2> QED
    BY <2>2, <2>4
<1>2. CASE SendSnapshot(d)
  <2>1. PICK r \in RoomObjs :
          /\ work[d].at = "snapshot" /\ work[d].room = r
          /\ rooms' = [rooms EXCEPT ![r] = NextRosterSeq(@)]
          /\ UNCHANGED <<participant, session>>
          /\ \A e \in out'[d] : e.to = d /\ e.msg = RosterSnapshot(r)
          /\ work'[d].at = "announce_joined" /\ work'[d].subject = work[d].subject
          /\ work'[d].room = r
    BY <1>2, SnapshotFacts
  <2>2. rooms'[r].participants = rooms[r].participants
    BY <2>1, NumberingKeeps, ServerFacts
  <2>3. StepOK(d)'
    BY <2>1, <2>2 DEF StepOK, Arrivals, Departures
  <2>4. ~ IsUpdate(RosterSnapshot(r))
    BY DEF IsUpdate, RosterSnapshot
  <2>5. SendsOK(d)'
    BY <2>1, <2>4 DEF SendsOK
  <2> QED
    BY <2>3, <2>5
<1>3. CASE AnnounceJoined(d) \/ AnnounceReady(d)
  <2>1. PICK pr \in {"joined", "media-ready"}, r \in RoomObjs, q \in 1..admitted :
          /\ q \in rooms[r].participants
          /\ participant[q].conn = d
          /\ participant[q].room = r
          /\ participant[q].readiness = pr
          /\ rooms' = [rooms EXCEPT ![r] = NextRosterSeq(@)]
          /\ UNCHANGED <<admitted, participant>>
          /\ \A e \in out'[d] : e.msg = RosterUpdate(r, q, pr)
          /\ work'[d].at \in {"read", "evaluate"}
    BY <1>3, AnnounceFacts
  <2>2. StepOK(d)'
    BY <2>1 DEF StepOK, Arrivals, Departures
  <2>3. rooms'[r].participants = rooms[r].participants
    BY <2>1, NumberingKeeps, ServerFacts
  <2>5. TruthIn(participant[q].room, q)' = pr
    BY <2>1, <2>3 DEF TruthIn
  <2>6. /\ Shows(RosterUpdate(r, q, pr)) = pr
        /\ RosterUpdate(r, q, pr).subject = q
        /\ ~ IsSnapshot(RosterUpdate(r, q, pr))
    BY DEF Shows, RosterUpdate, IsSnapshot
  <2>7. SendsOK(d)'
    BY <2>1, <2>5, <2>6 DEF SendsOK
  <2> QED
    BY <2>2, <2>7
<1>4. CASE MediaReady(d)
  <2> DEFINE p == session[d].peer
  <2>1. /\ p \in rooms'[participant[p].room].participants
        /\ participant'[p].conn = d /\ participant'[p].readiness = "media-ready"
        /\ work'[d].at = "announce_ready" /\ work'[d].subject = p
        /\ work'[d].room = participant[p].room
        /\ out'[d] = {}
    BY <1>4, ReadyFacts, ServerFacts, SectionFrame
  <2> HIDE DEF p
  <2> QED
    BY <2>1 DEF StepOK, SendsOK, Arrivals, Departures
<1>5. CASE Releases(d)
  <2> DEFINE p == session[d].peer
             w == work'[d]
  <2>1. PICK r \in RoomObjs :
          /\ participant[p].conn = d
          /\ UNCHANGED <<participant, out>>
          /\ rooms'[r].participants = rooms[r].participants \ {p}
          /\ w.at \notin Arrivals
          /\ p \in rooms[r].participants => w.subject = p /\ w.room = r
          /\ p \notin rooms[r].participants /\ w.at \in Departures => w.subject = NoPeer
    BY <1>5, ReleaseFacts
  <2>2. p \in rooms[r].participants => participant[p].room = r
    BY ServerFacts
  <2>3. out'[d] = {}
    BY <2>1, SectionFrame
  <2> HIDE DEF p
  <2>4. StepOK(d)'
    BY <2>1, <2>2 DEF StepOK, Arrivals
  <2> QED
    BY <2>3, <2>4 DEF SendsOK
<1>6. CASE AnnounceDeparture(d)
  <2>1. PICK pr \in {"released", "left"}, r \in RoomObjs, q \in 1..admitted :
          /\ q \notin rooms[r].participants
          /\ participant[q].conn = d
          /\ participant[q].room = r
          /\ rooms' = [rooms EXCEPT ![r] = NextRosterSeq(@)]
          /\ UNCHANGED <<admitted, participant>>
          /\ work'[d].at = "finish"
          /\ \A e \in out'[d] : e.msg = RosterUpdate(r, q, pr) \/ ~ Numbered(e.msg)
    BY <1>6, DepartureFacts
  <2>2. StepOK(d)'
    BY <2>1 DEF StepOK, Arrivals, Departures
  <2>3. rooms'[r].participants = rooms[r].participants
    BY <2>1, NumberingKeeps, ServerFacts
  <2>4. TruthIn(participant[q].room, q)' = "absent"
    BY <2>1, <2>3 DEF TruthIn
  <2>5. /\ Shows(RosterUpdate(r, q, pr)) = "absent"
        /\ RosterUpdate(r, q, pr).subject = q
        /\ ~ IsSnapshot(RosterUpdate(r, q, pr))
    BY DEF Shows, RosterUpdate, IsSnapshot
  <2>6. SendsOK(d)'
    BY <2>1, <2>4, <2>5 DEF SendsOK, Numbered, IsUpdate, IsSnapshot
  <2> QED
    BY <2>2, <2>6
<1>7. CASE Silent(d)
  <2>1. SendsOK(d)'
    BY <1>7 DEF Silent, SendsOK, Numbered, IsUpdate, IsSnapshot
  <2>2. work[d].at \in Departures /\ work[d].subject # NoPeer => work[d].room \in RoomObjs
    BY DEF ServerInv, IInv, WorkOK, Departures
  <2>3. ASSUME work'[d].at \in Departures, work'[d].subject # NoPeer
        PROVE  /\ work[d].at \in Departures /\ work'[d].subject = work[d].subject
               /\ work'[d].room = work[d].room
    BY <1>7, <2>3 DEF Silent
  <2>4. work'[d].at \notin Arrivals /\ participant' = participant
    BY <1>7 DEF Silent
  <2>5. ASSUME work'[d].at \in Departures, work'[d].subject # NoPeer
        PROVE  /\ participant'[work'[d].subject].conn = d
               /\ participant'[work'[d].subject].room = work'[d].room
               /\ work'[d].subject \notin rooms'[work'[d].room].participants
    BY <1>7, <2>2, <2>3, <2>4, <2>5 DEF Silent, StepOK
  <2>6. StepOK(d)'
    BY <2>4, <2>5 DEF StepOK, Arrivals
  <2> QED
    BY <2>1, <2>6
<1> QED
  BY <1>1, <1>2, <1>3, <1>4, <1>5, <1>6, <1>7, SectionKinds

-----------------------------------------------------------------------------
(***************************************************************************)
(* A section that changes what a room's rosters should say of somebody     *)
(* leaves it to be announced to every other member; and what was to be     *)
(* announced either still is or has been sent.                             *)
(***************************************************************************)
LEMMA SectionTells ==
  ASSUME ServerInv, NEW d \in Conns, Section(d), StepOK(d),
         NEW r \in RoomObjs, NEW p \in 1..admitted, NEW c \in Conns,
         participant[p].conn = c, participant[p].room = r,
         p \in rooms[r].participants, p \in rooms'[r].participants,
         NEW q \in Peers \ {p}, NEW k \in 0..rooms[r].rosterSeq,
         Announces(d, q, p) \/ TruthIn(r, q)' # TruthIn(r, q)
  PROVE  Announces(d, q, p)' \/ Carries(d, c, q, k)'
<1>1. participant'[p].room = r /\ participant'[p].conn = c
  BY OthersKept
<1>2. ASSUME \A s \in RoomObjs : rooms'[s].participants = rooms[s].participants,
             UNCHANGED participant
      PROVE  TruthIn(r, q)' = TruthIn(r, q)
  BY <1>2 DEF TruthIn
<1>3. ASSUME NEW s \in RoomObjs, rooms' = [rooms EXCEPT ![s] = NextRosterSeq(@)],
             UNCHANGED participant
      PROVE  /\ TruthIn(r, q)' = TruthIn(r, q)
             /\ rooms[r].rosterSeq + 1 > k
  <2>1. rooms \in [RoomObjs -> Room]
    BY ServerFacts
  <2>2. \A t \in RoomObjs : rooms'[t].participants = rooms[t].participants
    BY <1>3, <2>1, NumberingKeeps
  <2>3. rooms[r].rosterSeq + 1 > k
    BY <2>1 DEF Room
  <2> QED
    BY <1>2, <1>3, <2>2, <2>3
<1>4. ASSUME NEW pr, NEW e \in out'[d], e.to = c, e.msg = RosterUpdate(r, q, pr),
             rooms[r].rosterSeq + 1 > k
      PROVE  Carries(d, c, q, k)'
  BY <1>4 DEF Carries, RosterUpdate, IsUpdate
<1>5. CASE JoinAccepted(d)
  <2>1. ~ Announces(d, q, p)
    BY <1>5, AdmissionFacts DEF Announces, Arrivals, Departures
  <2>2. q = admitted + 1 /\ work[d].room = r
    <3>1. ASSUME q # admitted + 1 \/ work[d].room # r
          PROVE  q \in rooms'[r].participants <=> q \in rooms[r].participants
      BY <1>5, <3>1, AdmissionFacts
    <3>2. q # admitted + 1 => participant'[q] = participant[q]
      BY <1>5, AdmissionFacts
    <3>3. admitted + 1 \notin rooms[r].participants
      BY ServerFacts
    <3> QED
      BY <2>1, <3>1, <3>2, <3>3 DEF TruthIn
  <2>3. work'[d].at = "snapshot" /\ work'[d].subject = q /\ work'[d].room = r
    BY <1>5, <2>2, AdmissionFacts
  <2> QED
    BY <1>1, <2>3 DEF Announces, Arrivals
<1>6. CASE SendSnapshot(d)
  <2>1. PICK s \in RoomObjs :
          /\ work[d].at = "snapshot" /\ work[d].room = s
          /\ rooms' = [rooms EXCEPT ![s] = NextRosterSeq(@)]
          /\ UNCHANGED participant
          /\ work'[d].at = "announce_joined" /\ work'[d].subject = work[d].subject
          /\ work'[d].room = s
    BY <1>6, SnapshotFacts
  <2>2. Announces(d, q, p)
    BY <1>3, <2>1
  <2> QED
    BY <1>1, <2>1, <2>2 DEF Announces, Arrivals, Departures
<1>7. CASE AnnounceJoined(d) \/ AnnounceReady(d)
  <2>1. PICK pr \in {"joined", "media-ready"}, s \in RoomObjs, x \in 1..admitted :
          /\ work[d].at \in Arrivals /\ work[d].room = s /\ work[d].subject = x
          /\ rooms' = [rooms EXCEPT ![s] = NextRosterSeq(@)]
          /\ UNCHANGED participant
          /\ \A y \in rooms[s].participants :
               \E e \in out'[d] :
                 e.to = participant[y].conn /\ e.msg = RosterUpdate(s, x, pr)
    BY <1>7, AnnounceFacts
  <2>2. Announces(d, q, p)
    BY <1>3, <2>1
  <2>3. s = r /\ x = q
    BY <2>1, <2>2 DEF Announces
  <2>4. PICK e \in out'[d] : e.to = c /\ e.msg = RosterUpdate(r, q, pr)
    BY <2>1, <2>3
  <2> QED
    BY <1>3, <1>4, <2>1, <2>3, <2>4
<1>8. CASE MediaReady(d)
  <2>1. ~ Announces(d, q, p)
    BY <1>8, ReadyFacts DEF Announces, Arrivals, Departures
  <2>2. q = session[d].peer /\ q \in rooms[r].participants
    BY <1>8, <2>1, ReadyFacts DEF TruthIn
  <2>3. work'[d].at = "announce_ready" /\ work'[d].subject = q /\ work'[d].room = r
    BY <1>8, <2>2, ReadyFacts, ServerFacts
  <2> QED
    BY <1>1, <2>3 DEF Announces, Arrivals
<1>9. CASE Releases(d)
  <2>1. PICK s \in RoomObjs, x \in 1..admitted :
          /\ x = session[d].peer /\ work[d].at = "read"
          /\ UNCHANGED participant
          /\ rooms'[s].participants = rooms[s].participants \ {x}
          /\ \A t \in RoomObjs : t # s => rooms'[t] = rooms[t]
          /\ x \in rooms[s].participants =>
               /\ work'[d].at \in Departures /\ work'[d].subject = x /\ work'[d].room = s
               /\ work'[d].remaining = rooms[s].participants \ {x}
    BY <1>9, ReleaseFacts
  <2>2. ~ Announces(d, q, p)
    BY <2>1 DEF Announces, Arrivals, Departures
  <2>3. s = r /\ q = x /\ q \in rooms[r].participants
    BY <2>1, <2>2 DEF TruthIn
  <2> QED
    BY <1>1, <2>1, <2>3 DEF Announces
<1>10. CASE AnnounceDeparture(d)
  <2>1. PICK pr \in {"released", "left"}, s \in RoomObjs, x \in 1..admitted :
          /\ work[d].at \notin Arrivals /\ work[d].room = s /\ work[d].subject = x
          /\ rooms' = [rooms EXCEPT ![s] = NextRosterSeq(@)]
          /\ UNCHANGED participant
          /\ \A y \in work[d].remaining :
               \E e \in out'[d] :
                 e.to = participant[y].conn /\ e.msg = RosterUpdate(s, x, pr)
    BY <1>10, DepartureFacts
  <2>2. Announces(d, q, p)
    BY <1>3, <2>1
  <2>3. s = r /\ x = q /\ p \in work[d].remaining
    BY <2>1, <2>2 DEF Announces
  <2>4. PICK e \in out'[d] : e.to = c /\ e.msg = RosterUpdate(r, q, pr)
    BY <2>1, <2>3
  <2> QED
    BY <1>3, <1>4, <2>1, <2>3, <2>4
<1>11. CASE Silent(d)
  <2>1. Announces(d, q, p)
    BY <1>2, <1>11 DEF Silent
  <2>2. q # NoPeer /\ work[d].subject = q
    BY <2>1 DEF Announces, Peers, NoPeer
  <2>3. work[d].at \in Arrivals \cup Departures
    BY <2>1 DEF Announces
  <2>4. /\ work[d].at \in Departures /\ work'[d].at \in Departures
        /\ work'[d].subject = work[d].subject
        /\ work'[d].room = work[d].room
        /\ work'[d].remaining = work[d].remaining
    BY <1>11, <2>2, <2>3 DEF Silent
  <2> QED
    BY <1>1, <2>1, <2>4 DEF Announces, Arrivals, Departures
<1> QED
  BY <1>5, <1>6, <1>7, <1>8, <1>9, <1>10, <1>11, SectionKinds

-----------------------------------------------------------------------------
(* What the sections leave of what is known of the clients. *)

LEMMA SessionsKept ==
  ASSUME ServerInv, NEW d \in Conns, Section(d), ~ JoinAccepted(d)
  PROVE  session'[d].peer \in {session[d].peer, NoPeer}
<1>1. session \in [Conns -> Session]
  BY ServerFacts
<1>2. CASE Finish(d)
  <2>1. CASE session' = [session EXCEPT ![d].peer = NoPeer, ![d].roomId = NoRoomId]
    <3>1. session'[d] = [session[d] EXCEPT !.peer = NoPeer, !.roomId = NoRoomId]
      BY <1>1, <2>1
    <3> QED
      BY <1>1, <3>1 DEF Session
  <2> QED
    BY <1>2, <2>1 DEF Finish
<1>3. CASE MediaFailed(d)
  BY <1>1, <1>3 DEF MediaFailed, Session
<1>4. CASE LeaveRoom(d) \/ Disconnect(d)
  <2>1. session' = [session EXCEPT ![d].released = Joined(d) \/ @]
    BY <1>4 DEF LeaveRoom, Disconnect, ReleaseAndNotify
  <2> QED
    BY <1>1, <2>1 DEF Session
<1>5. CASE ~ (Finish(d) \/ MediaFailed(d) \/ LeaveRoom(d) \/ Disconnect(d))
  BY <1>5 DEF Section, Proceed, JoinRejected, SendSnapshot, AnnounceJoined, AnnounceReady,
              Evaluate, CollectRoom, ReportReleased, AnnounceDeparture, Read,
              JoinExisting, JoinCreating, MediaReady, RelayPair, PairFailed, ReconnectPair,
              PairMediaState, Refuse
<1> QED
  BY <1>2, <1>3, <1>4, <1>5

LEMMA SectionSelf ==
  ASSUME ServerInv, NEW d \in Conns, Section(d), NEW c \in Conns, SelfOK(c),
         UNCHANGED roster
  PROVE  SelfOK(c)'
<1>1. CASE c # d
  BY <1>1, SectionFrame DEF SelfOK, Joined
<1>2. CASE c = d /\ JoinAccepted(d)
  BY <1>2, AdmissionFacts DEF SelfOK
<1>3. CASE c = d /\ ~ JoinAccepted(d)
  <2>1. Joined(d)' => session'[d].peer = session[d].peer
    BY <1>3, SessionsKept DEF Joined
  <2>2. out[d] = {} /\ work[d].at # "closed"
    BY SectionFrame
  <2> QED
    BY <1>3, <2>1, <2>2 DEF SelfOK, Joined
<1> QED
  BY <1>1, <1>2, <1>3

\* Only an admission makes a follower.
LEMMA FollowersKept ==
  ASSUME ServerInv, NEW d \in Conns, Section(d), NEW c \in Conns,
         ~ (JoinAccepted(d) /\ c = d), order'[c] = order[c], Following(c)'
  PROVE  /\ Following(c) /\ session'[c].peer = session[c].peer
         /\ RoomOf(c)' = RoomOf(c)
<1>1. session'[c].peer = session[c].peer
  BY SectionFrame, SessionsKept DEF Following, Joined
<1>2. PICK p : p = session[c].peer
  OBVIOUS
<1>3. p # NoPeer /\ Joined(c)
  BY <1>1, <1>2 DEF Following, Joined
<1>4. p \in 1..admitted /\ participant[p].room \in RoomObjs
  BY <1>2, <1>3, ServerFacts
<1>5. participant'[p].room = participant[p].room
  BY <1>4, OthersKept
<1>6. p \in rooms[participant[p].room].participants
  <2>1. p \in rooms'[participant[p].room].participants
    BY <1>1, <1>2, <1>5 DEF Following
  <2>2. p # admitted + 1
    BY <1>4, ServerFacts
  <2> QED
    BY <1>4, <2>1, <2>2, OthersKept
<1>7. work[c].at # "closed"
  BY SectionFrame DEF Following
<1> QED
  BY <1>1, <1>2, <1>3, <1>5, <1>6, <1>7 DEF Following, RoomOf

\* Of a client that is owed nothing about q after a section, nothing was owed
\* before it, and the section has not changed what is true of q.
LEMMA DebtsKept ==
  ASSUME ServerInv, NEW d \in Conns, Section(d), StepOK(d), NEW c \in Conns,
         Following(c), Following(c)', session'[c].peer = session[c].peer,
         NEW r \in RoomObjs, RoomOf(c) = r, NEW q \in Peers \ {session[c].peer},
         NEW k \in 0..rooms[r].rosterSeq, ~ Owed(c, q, k)'
  PROVE  ~ Owed(c, q, k) /\ TruthIn(r, q)' = TruthIn(r, q)
<1>1. PICK p : p = session[c].peer
  OBVIOUS
<1>2. /\ p \in 1..admitted /\ participant[p].conn = c /\ participant[p].room = r
      /\ p \in rooms[r].participants /\ q # p
  BY <1>1, ServerFacts DEF Following, RoomOf
<1>3. participant'[p].room = r
  BY <1>2, OthersKept
<1>4. p \in rooms'[r].participants
  BY <1>1, <1>3 DEF Following
<1>5. \A e \in Conns : ~ Announces(e, q, p)' /\ ~ Carries(e, c, q, k)'
  BY <1>1 DEF Owed
<1>6. ~ Announces(d, q, p) /\ TruthIn(r, q)' = TruthIn(r, q)
  BY <1>2, <1>4, <1>5, SectionTells
<1>7. ~ Carries(d, c, q, k)
  BY SectionFrame DEF Carries
<1>8. ASSUME NEW e \in Conns \ {d}
      PROVE  ~ Announces(e, q, p) /\ ~ Carries(e, c, q, k)
  <2>1. work'[e] = work[e] /\ out'[e] = out[e]
    BY SectionFrame
  <2> QED
    BY <1>2, <1>3, <1>5, <2>1 DEF Announces, Carries
<1> QED
  BY <1>1, <1>6, <1>7, <1>8 DEF Owed

\* Only SendSnapshot writes a snapshot, and it is all that may follow an
\* admission.
LEMMA OneSnapshot ==
  ASSUME ServerInv, NEW d \in Conns, Section(d), StepOK(d), ~ SendSnapshot(d)
  PROVE  work'[d].at # "announce_joined" /\ work[d].at # "snapshot"
<1>1. CASE JoinAccepted(d)
  BY <1>1, AdmissionFacts
<1>2. CASE AnnounceJoined(d) \/ AnnounceReady(d)
  <2>1. work'[d].at \in {"read", "evaluate"}
    BY <1>2, AnnounceFacts
  <2> QED
    BY <1>2, <2>1 DEF AnnounceJoined, AnnounceReady, At
<1>3. CASE MediaReady(d)
  BY <1>3, ReadyFacts
<1>4. CASE Releases(d)
  <2>1. work'[d].at \notin Arrivals /\ work[d].at = "read"
    BY <1>4, ReleaseFacts
  <2> QED
    BY <2>1 DEF Arrivals
<1>5. CASE AnnounceDeparture(d)
  <2>1. work[d].at \notin Arrivals /\ work'[d].at = "finish"
    BY <1>5, DepartureFacts
  <2> QED
    BY <2>1 DEF Arrivals
<1>6. CASE Silent(d)
  BY <1>6 DEF Silent, Arrivals, Departures
<1> QED
  BY <1>1, <1>2, <1>3, <1>4, <1>5, <1>6, SectionKinds

\* A section that is not c's admission leaves what is said of c's roster, and
\* of the snapshot under way to it, true.
LEMMA SectionViewKept ==
  ASSUME ServerInv, ServerInv', NEW d \in Conns, Section(d), StepOK(d), SendsOK(d)',
         NEW c \in Conns, ViewOK(c), ~ (JoinAccepted(d) /\ c = d),
         roster'[c] = roster[c], order'[c] = order[c], Following(c)'
  PROVE  /\ \A e \in out'[c] : IsSnapshot(e.msg) => SnapshotTrue(c, e.msg)'
         /\ work'[c].at # "snapshot" /\ ~ Awaits(c)' => RosterTrue(c)'
<1>1. /\ Following(c) /\ session'[c].peer = session[c].peer /\ RoomOf(c)' = RoomOf(c)
  BY FollowersKept
<1>2. PICK p, r : p = session[c].peer /\ r = RoomOf(c)
  OBVIOUS
<1>3. /\ p \in 1..admitted /\ participant[p].conn = c /\ r \in RoomObjs
      /\ session'[c].peer = p /\ RoomOf(c)' = r
  BY <1>1, <1>2, ServerFacts DEF Following, RoomOf
<1>4. /\ rooms[r].rosterSeq \in Nat /\ rooms'[r].rosterSeq \in Nat
      /\ rooms[r].rosterSeq <= rooms'[r].rosterSeq
  BY <1>3, OthersKept
<1>5. \A q \in Peers \ {p}, k \in 0..rooms[r].rosterSeq :
        ~ Owed(c, q, k)' => ~ Owed(c, q, k) /\ TruthIn(r, q)' = TruthIn(r, q)
  BY <1>1, <1>2, <1>3, DebtsKept
<1>6. RosterTrue(c) => RosterTrue(c)'
  <2> SUFFICES ASSUME RosterTrue(c)  PROVE RosterTrue(c)'
    OBVIOUS
  <2>1. ASSUME NEW q \in Peers \ {p}, ~ Owed(c, q, 0)'
        PROVE  roster'[c].byPeerId[q] = TruthIn(r, q)'
    <3>1. 0 \in 0..rooms[r].rosterSeq
      BY <1>4
    <3>2. ~ Owed(c, q, 0) /\ TruthIn(r, q)' = TruthIn(r, q)
      BY <1>5, <2>1, <3>1
    <3> QED
      BY <1>2, <3>2 DEF RosterTrue
  <2>2. \A q \in Peers \ {p} :
          Owed(c, q, 0)' \/ roster'[c].byPeerId[q] = TruthIn(RoomOf(c), q)'
    BY <1>3, <2>1 DEF TruthIn
  <2> QED
    BY <1>2, <1>3, <2>2 DEF RosterTrue
<1>7. CASE c # d
  <2>1. work'[c] = work[c] /\ out'[c] = out[c]
    BY <1>7, SectionFrame
  <2>2. ASSUME NEW e \in out[c], IsSnapshot(e.msg)
        PROVE  SnapshotTrue(c, e.msg)'
    <3>1. PICK m : m = e.msg
      OBVIOUS
    <3>2. SnapshotTrue(c, m)
      BY <1>1, <2>2, <3>1 DEF ViewOK
    <3>3. m.serverSeq \in Nat
      BY <2>2, <3>1, MessageKinds, ServerFacts DEF Delivery
    <3>4. m.serverSeq \in 0..rooms[r].rosterSeq
      BY <1>2, <1>4, <3>2, <3>3 DEF SnapshotTrue
    <3>5. m.serverSeq <= rooms'[r].rosterSeq
      BY <1>4, <3>4
    <3>6. ASSUME ~ (m.serverSeq <= order[c].newest),
                 NEW q \in Peers \ {p}, ~ Owed(c, q, m.serverSeq)'
          PROVE  Lists(m, q) = TruthIn(r, q)'
      <4>1. ~ Owed(c, q, m.serverSeq) /\ TruthIn(r, q)' = TruthIn(r, q)
        BY <1>5, <3>4, <3>6
      <4> QED
        BY <1>2, <3>2, <3>6, <4>1 DEF SnapshotTrue
    <3> QED
      BY <1>3, <3>1, <3>5, <3>6 DEF SnapshotTrue, TruthIn
  <2> QED
    BY <1>1, <1>6, <2>1, <2>2 DEF ViewOK, Awaits
<1>8. CASE c = d /\ SendSnapshot(d)
  <2>1. PICK s \in RoomObjs :
           /\ work[d].at = "snapshot" /\ work[d].room = s
           /\ rooms' = [rooms EXCEPT ![s] = NextRosterSeq(@)]
           /\ UNCHANGED participant
           /\ \A e \in out'[d] : e.to = d /\ e.msg = RosterSnapshot(s)
           /\ out'[d] # {}
    BY <1>8, SnapshotFacts
  <2>2. s = r
    <3>1. p = work[d].subject /\ work[d].subject \in rooms[s].participants
      BY <1>2, <1>8, <2>1 DEF StepOK, Arrivals
    <3> QED
      BY <1>2, <1>8, <3>1, ServerFacts DEF RoomOf
  <2>3. PICK m : m = RosterSnapshot(r)
    OBVIOUS
  <2>4. /\ m.serverSeq = rooms[r].rosterSeq + 1 /\ IsSnapshot(m)
    BY <2>3 DEF RosterSnapshot, IsSnapshot
  <2>5. \A q : Lists(m, q) = TruthIn(r, q)
    BY <2>3, <1>3, SnapshotLists
  <2>6. rooms'[r].participants = rooms[r].participants
        /\ rooms'[r].rosterSeq = rooms[r].rosterSeq + 1
    BY <2>1, <2>2, NumberingKeeps, ServerFacts
  <2>7. \A q : Lists(m, q) = TruthIn(r, q)'
    BY <2>1, <2>5, <2>6 DEF TruthIn
  <2>8. m.serverSeq <= rooms'[r].rosterSeq
    BY <1>4, <2>4, <2>6
  <2>9. SnapshotTrue(c, m)'
    BY <1>3, <2>7, <2>8 DEF SnapshotTrue, TruthIn
  <2>10. \A e \in out'[c] : IsSnapshot(e.msg) => SnapshotTrue(c, e.msg)'
    <3> SUFFICES ASSUME NEW e \in out'[c]  PROVE SnapshotTrue(c, e.msg)'
      OBVIOUS
    <3>1. PICK m2 : m2 = e.msg
      OBVIOUS
    <3>2. m2 = m
      BY <1>8, <2>1, <2>2, <2>3, <3>1
    <3> QED
      BY <2>9, <3>1, <3>2
  <2>11. Awaits(c)'
    BY <1>8, <2>1, <2>2, <2>3, <2>4 DEF Awaits
  <2> QED
    BY <2>10, <2>11
<1>9. CASE c = d /\ ~ SendSnapshot(d)
  <2>1. work'[d].at # "announce_joined" /\ work[d].at # "snapshot" /\ out[d] = {}
    BY <1>9, OneSnapshot, SectionFrame
  <2>2. RosterTrue(c)
    BY <1>1, <1>9, <2>1 DEF ViewOK, Awaits
  <2>3. \A e \in out'[c] : ~ IsSnapshot(e.msg)
    BY <1>9, <2>1 DEF SendsOK
  <2> QED
    BY <1>6, <2>2, <2>3
<1> QED
  BY <1>7, <1>8, <1>9

LEMMA SectionView ==
  ASSUME ServerInv, ServerInv', NEW d \in Conns, Section(d), StepOK(d), SendsOK(d)',
         NEW c \in Conns, ViewOK(c), roster' = roster,
         (JoinAccepted(d) /\ c = d) \/ order'[c] = order[c]
  PROVE  ViewOK(c)'
<1>1. CASE JoinAccepted(d) /\ c = d
  <2>1. work'[c].at = "snapshot" /\ \A e \in out'[c] : e.msg.type = "join_accepted"
    BY <1>1, AdmissionFacts
  <2>2. \A e \in out'[c] : ~ IsSnapshot(e.msg)
    BY <2>1 DEF IsSnapshot
  <2> QED
    BY <2>1, <2>2 DEF ViewOK
<1>2. CASE ~ (JoinAccepted(d) /\ c = d)
  <2> SUFFICES ASSUME Following(c)'
               PROVE  /\ \A e \in out'[c] : IsSnapshot(e.msg) => SnapshotTrue(c, e.msg)'
                      /\ work'[c].at # "snapshot" /\ ~ Awaits(c)' => RosterTrue(c)'
    BY DEF ViewOK
  <2> QED
    BY <1>2, SectionViewKept
<1> QED
  BY <1>1, <1>2

LEMMA SectionFollows ==
  ASSUME ServerInv, ServerInv', ClientTypes, FollowInv, NEW d \in Conns,
         Admitted(d) \/ ((Proceed(d) \/ Read(d)) /\ UNCHANGED clientVars)
  PROVE  FollowInv'
<1>1. Section(d) /\ roster' = roster
  BY DEF Admitted, Section, clientVars
<1>2. \A c \in Conns : (JoinAccepted(d) /\ c = d) \/ order'[c] = order[c]
  BY DEF Admitted, clientVars, ClientTypes
<1>3. \A e \in Conns : StepOK(e)' /\ SendsOK(e)'
  <2> SUFFICES ASSUME NEW e \in Conns  PROVE StepOK(e)' /\ SendsOK(e)'
    OBVIOUS
  <2>1. StepOK(d) /\ StepOK(e) /\ SendsOK(e)
    BY DEF FollowInv
  <2>2. CASE e = d
    <3>1. StepOK(d)' /\ SendsOK(d)'
      BY <1>1, <2>1, OwnStaysTrue
    <3> QED
      BY <2>2, <3>1
  <2>3. CASE e # d
    BY <1>1, <2>1, <2>3, OthersStayTrue
  <2> QED
    BY <2>2, <2>3
<1>4. \A c \in Conns : SelfOK(c)'
  BY <1>1, SectionSelf DEF FollowInv
<1>5. ASSUME NEW c \in Conns  PROVE ViewOK(c)'
  <2>1. StepOK(d) /\ SendsOK(d)' /\ ViewOK(c)
    BY <1>3 DEF FollowInv
  <2> QED
    BY <1>1, <1>2, <2>1, SectionView
<1> QED
  BY <1>3, <1>4, <1>5 DEF FollowInv

-----------------------------------------------------------------------------
(***************************************************************************)
(* The sends: what one client is told.  s is the message d's handler sends *)
(* next.                                                                   *)
(***************************************************************************)
Delivers(d, s) ==
  /\ s \in out[d]
  /\ out' = [out EXCEPT ![d] = @ \ {s}]
  /\ IF work[s.to].at = "closed" THEN UNCHANGED clientVars
     ELSE /\ roster' = [roster EXCEPT ![s.to] = Dispatched(s.to, s.msg)]
          /\ order' = [order EXCEPT ![s.to] = Written(@, s)]
  /\ UNCHANGED <<registry, created, rooms, admitted, participant, session, work>>

LEMMA DeliversFrame ==
  ASSUME ServerInv, NEW d \in Conns, NEW s, Delivers(d, s)
  PROVE  /\ s \in Delivery /\ s.to \in Conns /\ s.msg \in Message
         /\ \A e \in Conns : /\ out'[e] \subseteq out[e]
                             /\ \A x \in out[e] : x = s \/ x \in out'[e]
         /\ UNCHANGED <<rooms, admitted, participant, session, work>>
BY ServerFacts DEF Delivers, Delivery

LEMMA SendsStayTrue ==
  ASSUME ServerInv, NEW d \in Conns, NEW s, Delivers(d, s), NEW e \in Conns,
         StepOK(e), SendsOK(e)
  PROVE  StepOK(e)' /\ SendsOK(e)'
<1>1. /\ UNCHANGED <<rooms, admitted, participant, session, work>>
      /\ out'[e] \subseteq out[e]
  BY DeliversFrame
<1>2. StepOK(e)'
  BY <1>1 DEF StepOK
<1>3. SendsOK(e)'
  <2>1. ASSUME NEW x \in out'[e]
        PROVE  /\ IsUpdate(x.msg) =>
                    /\ x.msg.subject \in 1..admitted
                    /\ participant[x.msg.subject].conn = e
                    /\ Shows(x.msg) =
                         TruthIn(participant[x.msg.subject].room, x.msg.subject)
               /\ IsSnapshot(x.msg) => x.to = e /\ work[e].at = "announce_joined"
    BY <1>1, <2>1 DEF SendsOK
  <2> QED
    BY <1>1, <2>1 DEF SendsOK, TruthIn
<1> QED
  BY <1>2, <1>3

\* A client is still owed what this message does not tell it.
LEMMA OwedKept ==
  ASSUME ServerInv, NEW d \in Conns, NEW s, Delivers(d, s), NEW c \in Conns,
         NEW q, NEW k, Owed(c, q, k),
         s.to = c /\ IsUpdate(s.msg) => s.msg.subject # q \/ ~ (s.msg.serverSeq > k)
  PROVE  Owed(c, q, k)'
<1>1. /\ UNCHANGED <<participant, session, work>>
      /\ \A e \in Conns : \A x \in out[e] : x = s \/ x \in out'[e]
  BY DeliversFrame
<1>2. PICK e \in Conns : Announces(e, q, session[c].peer) \/ Carries(e, c, q, k)
  BY DEF Owed
<1>3. CASE Announces(e, q, session[c].peer)
  BY <1>1, <1>3 DEF Owed, Announces
<1>4. CASE Carries(e, c, q, k)
  <2>1. PICK x \in out[e] : /\ x.to = c /\ IsUpdate(x.msg)
                            /\ x.msg.subject = q /\ x.msg.serverSeq > k
    BY <1>4 DEF Carries
  <2>2. x \in out'[e]
    BY <1>1, <2>1
  <2>3. Carries(e, c, q, k)'
    BY <2>1, <2>2 DEF Carries
  <2> QED
    BY <2>3 DEF Owed
<1> QED
  BY <1>2, <1>3, <1>4

\* A client that is not told anything.
LEMMA UntoldKept ==
  ASSUME ServerInv, NEW d \in Conns, NEW s, Delivers(d, s),
         NEW c \in Conns, c # s.to, roster'[c] = roster[c], order'[c] = order[c],
         SendsOK(c), SelfOK(c), ViewOK(c)
  PROVE  SelfOK(c)' /\ ViewOK(c)'
<1>1. /\ UNCHANGED <<rooms, participant, session, work>>
      /\ out'[c] \subseteq out[c]
      /\ \A x \in out[c] : x = s \/ x \in out'[c]
  BY DeliversFrame
<1>2. SelfOK(c)'
  BY <1>1 DEF SelfOK, Joined
<1>3. \A q, k : Owed(c, q, k) => Owed(c, q, k)'
  BY OwedKept
<1>4. Following(c)' => Following(c)
  BY <1>1 DEF Following, Joined
<1>5. Awaits(c) => Awaits(c)'
  BY <1>1 DEF Awaits, SendsOK
<1>6. PICK p, r : p = session[c].peer /\ r = RoomOf(c)
  OBVIOUS
<1>7. session'[c].peer = p /\ RoomOf(c)' = r
  BY <1>1, <1>6 DEF RoomOf
<1>8. \A q : TruthIn(r, q)' = TruthIn(r, q)
  BY <1>1 DEF TruthIn
<1>9. ASSUME NEW m, SnapshotTrue(c, m)  PROVE SnapshotTrue(c, m)'
  <2>1. \/ m.serverSeq <= order'[c].newest
        \/ \A q \in Peers \ {p} : Owed(c, q, m.serverSeq)' \/ Lists(m, q) = TruthIn(r, q)'
    BY <1>3, <1>6, <1>8, <1>9 DEF SnapshotTrue
  <2> QED
    BY <1>1, <1>6, <1>7, <1>9, <2>1 DEF SnapshotTrue, TruthIn
<1>10. RosterTrue(c) => RosterTrue(c)'
  <2> SUFFICES ASSUME RosterTrue(c)  PROVE RosterTrue(c)'
    OBVIOUS
  <2>1. \A q \in Peers \ {p} : Owed(c, q, 0)' \/ roster'[c].byPeerId[q] = TruthIn(r, q)'
    BY <1>3, <1>6, <1>8 DEF RosterTrue
  <2> QED
    BY <1>6, <1>7, <2>1 DEF RosterTrue, TruthIn
<1>11. ViewOK(c)'
  <2> SUFFICES ASSUME Following(c)'
               PROVE  /\ \A e \in out'[c] : IsSnapshot(e.msg) => SnapshotTrue(c, e.msg)'
                      /\ work'[c].at # "snapshot" /\ ~ Awaits(c)' => RosterTrue(c)'
    BY DEF ViewOK
  <2>1. ASSUME NEW e \in out'[c], IsSnapshot(e.msg)  PROVE SnapshotTrue(c, e.msg)'
    <3>1. PICK m : m = e.msg
      OBVIOUS
    <3>2. SnapshotTrue(c, m)
      BY <1>1, <1>4, <2>1, <3>1 DEF ViewOK
    <3> QED
      BY <1>9, <3>1, <3>2
  <2>2. work'[c].at # "snapshot" /\ ~ Awaits(c)' => RosterTrue(c)'
    BY <1>1, <1>4, <1>5, <1>10 DEF ViewOK
  <2> QED
    BY <2>1, <2>2
<1> QED
  BY <1>2, <1>11

\* What a client makes of a message.
LEMMA DispatchedFacts ==
  ASSUME ClientTypes, NEW c \in Conns, NEW m \in Message, NEW s, s = Dispatched(c, m)
  PROVE  /\ s.self = IF m.type = "join_accepted" THEN session[c].peer ELSE roster[c].self
         /\ ~ Numbered(m) =>
              s.serverSeq = roster[c].serverSeq /\ s.byPeerId = roster[c].byPeerId
         /\ IsUpdate(m) /\ ~ (m.serverSeq <= roster[c].serverSeq) =>
              /\ s.serverSeq = m.serverSeq
              /\ \A q \in Peers : s.byPeerId[q] =
                   IF q = m.subject /\ q # roster[c].self THEN Shows(m)
                   ELSE roster[c].byPeerId[q]
         /\ IsSnapshot(m) =>
              /\ s.serverSeq = m.serverSeq
              /\ \A q \in Peers : s.byPeerId[q] =
                   IF q # roster[c].self THEN Lists(m, q) ELSE "absent"
<1>1. /\ roster[c] \in Slice
      /\ DOMAIN roster[c].byPeerId = Peers
  BY DEF ClientTypes, Slice
<1>2. CASE IsUpdate(m)
  <2>1. m.type = "mesh_roster_update" /\ m.subject \in Peers
    BY <1>2, MessageKinds DEF IsUpdate
  <2>2. s = UpdateApplied(roster[c], m)
    BY <2>1 DEF Dispatched
  <2>3. s.self = roster[c].self
    BY <1>1, <2>2 DEF UpdateApplied, Slice
  <2>4. ASSUME ~ (m.serverSeq <= roster[c].serverSeq)
        PROVE  /\ s.serverSeq = m.serverSeq
               /\ s.byPeerId = IF m.subject = roster[c].self THEN roster[c].byPeerId
                               ELSE [roster[c].byPeerId EXCEPT ![m.subject] = Shows(m)]
    BY <1>1, <2>2, <2>4 DEF UpdateApplied, Slice, Shows
  <2>5. ASSUME ~ (m.serverSeq <= roster[c].serverSeq), NEW q \in Peers
        PROVE  s.byPeerId[q] = IF q = m.subject /\ q # roster[c].self THEN Shows(m)
                               ELSE roster[c].byPeerId[q]
    BY <1>1, <2>1, <2>4, <2>5
  <2> QED
    BY <2>1, <2>3, <2>4, <2>5 DEF Numbered, IsSnapshot
<1>3. CASE IsSnapshot(m)
  <2>1. m.type = "mesh_roster_snapshot"
    BY <1>3 DEF IsSnapshot
  <2>2. s = SnapshotApplied(roster[c], m)
    BY <2>1 DEF Dispatched
  <2>3. s.self = roster[c].self /\ s.serverSeq = m.serverSeq
    BY <1>1, <2>2 DEF SnapshotApplied, Slice
  <2>4. s.byPeerId = [p \in Peers |->
               IF p # roster[c].self /\ \E x \in m.entries : x.peer = p
               THEN (CHOOSE x \in m.entries : x.peer = p).presence
               ELSE "absent"]
    BY <1>1, <2>2 DEF SnapshotApplied, Slice
  <2>5. \A q \in Peers : s.byPeerId[q] =
                   IF q # roster[c].self THEN Lists(m, q) ELSE "absent"
    BY <2>4 DEF Lists
  <2> QED
    BY <2>1, <2>3, <2>5 DEF Numbered, IsUpdate
<1>4. CASE ~ IsUpdate(m) /\ ~ IsSnapshot(m)
  <2>1. ~ Numbered(m)
    BY <1>4 DEF Numbered, IsUpdate, IsSnapshot
  <2>2. s = IF m.type = "join_accepted" THEN [roster[c] EXCEPT !.self = session[c].peer]
            ELSE roster[c]
    BY <1>4 DEF Dispatched, IsUpdate, IsSnapshot
  <2> QED
    BY <1>1, <1>4, <2>1, <2>2 DEF Slice
<1> QED
  BY <1>2, <1>3, <1>4

LEMMA WrittenFacts ==
  ASSUME NEW o \in Order, NEW s \in Delivery, NEW w, w = Written(o, s)
  PROVE  /\ ~ Numbered(s.msg) => w = o
         /\ Numbered(s.msg) /\ ~ w.late /\ ~ w.stray =>
              /\ ~ o.late /\ ~ o.stray /\ ~ Stray(s)
              /\ o.newest \in Nat /\ s.msg.serverSeq \in Nat
              /\ s.msg.serverSeq > o.newest
              /\ w.newest = s.msg.serverSeq
<1>1. s.msg \in Message
  BY DEF Delivery
<1>2. ASSUME Numbered(s.msg)
      PROVE  /\ s.msg.serverSeq \in Nat /\ o.newest \in Nat
             /\ w.newest = IF s.msg.serverSeq > o.newest THEN s.msg.serverSeq ELSE o.newest
             /\ ~ w.late => ~ o.late /\ ~ (s.msg.serverSeq <= o.newest)
             /\ ~ w.stray => ~ o.stray /\ ~ Stray(s)
  <2>1. s.msg.serverSeq \in Nat
    BY <1>1, <1>2, MessageKinds DEF Numbered, IsSnapshot, IsUpdate
  <2> QED
    BY <1>2, <2>1 DEF Written, Order
<1>3. ~ Numbered(s.msg) => w = o
  BY DEF Written
<1>4. ASSUME Numbered(s.msg), ~ w.late, ~ w.stray
      PROVE  /\ ~ o.late /\ ~ o.stray /\ ~ Stray(s)
             /\ o.newest \in Nat /\ s.msg.serverSeq \in Nat
             /\ s.msg.serverSeq > o.newest
             /\ w.newest = s.msg.serverSeq
  <2>1. s.msg.serverSeq \in Nat /\ o.newest \in Nat /\ ~ (s.msg.serverSeq <= o.newest)
    BY <1>2, <1>4
  <2>2. s.msg.serverSeq > o.newest
    BY <2>1
  <2> QED
    BY <1>2, <1>4, <2>1, <2>2
<1> QED
  BY <1>3, <1>4

LEMMA ToldFrame ==
  ASSUME ServerInv, ClientTypes, NEW d \in Conns, NEW s, Delivers(d, s),
         NEW c \in Conns, c = s.to, work[c].at # "closed"
  PROVE  roster'[c] = Dispatched(c, s.msg) /\ order'[c] = Written(order[c], s)
BY DEF Delivers, ClientTypes

LEMMA ToldSelf ==
  ASSUME ServerInv, ClientTypes, NEW d \in Conns, NEW s, Delivers(d, s),
         NEW c \in Conns, c = s.to, work[c].at # "closed", SelfOK(c)
  PROVE  SelfOK(c)'
<1>1. /\ UNCHANGED <<session, work>> /\ s.msg \in Message
      /\ \A x \in out[c] : x = s \/ x \in out'[c]
  BY DeliversFrame
<1>2. roster'[c].self = IF s.msg.type = "join_accepted" THEN session[c].peer
                        ELSE roster[c].self
  BY <1>1, ToldFrame, DispatchedFacts
<1> QED
  BY <1>1, <1>2 DEF SelfOK, Joined

LEMMA ToldView ==
  ASSUME ServerInv, ClientTypes, NEW d \in Conns, NEW s, Delivers(d, s),
         NEW c \in Conns, c = s.to, work[c].at # "closed",
         SendsOK(d), SendsOK(c), SelfOK(c), ViewOK(c), Following(c)'
  PROVE  /\ \A e \in out'[c] : IsSnapshot(e.msg) => SnapshotTrue(c, e.msg)'
         /\ work'[c].at # "snapshot" /\ ~ Awaits(c)' => RosterTrue(c)'
<1>1. /\ UNCHANGED <<rooms, participant, session, work>>
      /\ out'[c] \subseteq out[c]
      /\ \A x \in out[c] : x = s \/ x \in out'[c]
      /\ s \in out[d] /\ s \in Delivery
  BY DeliversFrame DEF Delivers
<1>2. PICK m, o, n, v, p, r :
        /\ m = s.msg /\ o = order[c] /\ n = order'[c] /\ v = roster'[c]
        /\ p = session[c].peer /\ r = RoomOf(c)
  OBVIOUS
<1>3. /\ m \in Message /\ o \in Order /\ p \in Peers
      /\ session'[c].peer = p /\ RoomOf(c)' = r /\ Joined(c)
  <2>1. Joined(c)
    BY <1>1 DEF Following, Joined
  <2> QED
    BY <1>1, <1>2, <2>1, DeliversFrame, ServerFacts DEF ClientTypes, RoomOf
<1>4. \A q : TruthIn(r, q)' = TruthIn(r, q)
  BY <1>1 DEF TruthIn
<1>5. v = Dispatched(c, m) /\ n = Written(o, s) /\ ~ n.late /\ ~ n.stray
  BY <1>2, ToldFrame DEF Following
<1>6. /\ ~ Numbered(m) => n = o
      /\ Numbered(m) =>
           /\ ~ o.late /\ ~ o.stray /\ ~ Stray(s)
           /\ o.newest \in Nat /\ m.serverSeq \in Nat
           /\ m.serverSeq > o.newest /\ n.newest = m.serverSeq
  BY <1>1, <1>2, <1>3, <1>5, WrittenFacts
<1>7. Following(c)
  BY <1>1, <1>2, <1>5, <1>6 DEF Following, Joined
<1>8. work[c].at # "snapshot" => roster[c].self = p
  BY <1>2, <1>3 DEF SelfOK
<1>9. \A q, k : Owed(c, q, k) /\ (IsUpdate(m) => m.subject # q \/ ~ (m.serverSeq > k))
                  => Owed(c, q, k)'
  BY <1>2, OwedKept
<1>10. \A e \in out'[c] : IsSnapshot(e.msg) => SnapshotTrue(c, e.msg)'
  <2> SUFFICES ASSUME NEW e \in out'[c], IsSnapshot(e.msg)
               PROVE  SnapshotTrue(c, e.msg)'
    OBVIOUS
  <2>1. PICK x : x = e.msg
    OBVIOUS
  <2>2. SnapshotTrue(c, x)
    BY <1>1, <1>7, <2>1 DEF ViewOK
  <2>3. x.serverSeq \in Nat
    BY <1>1, <2>1, MessageKinds, ServerFacts DEF Delivery
  <2>4. ASSUME ~ (x.serverSeq <= n.newest), NEW q \in Peers \ {p}
        PROVE  Owed(c, q, x.serverSeq)' \/ Lists(x, q) = TruthIn(r, q)'
    <3>1. ~ (x.serverSeq <= o.newest)
      BY <1>6, <2>3, <2>4
    <3>2. Owed(c, q, x.serverSeq) \/ Lists(x, q) = TruthIn(r, q)
      BY <1>2, <2>2, <3>1 DEF SnapshotTrue
    <3>3. Numbered(m) => ~ (m.serverSeq > x.serverSeq)
      BY <1>6, <2>3, <2>4
    <3> QED
      BY <1>4, <1>9, <3>2, <3>3 DEF Numbered, IsUpdate
  <2>5. x.serverSeq <= rooms'[r].rosterSeq
    BY <1>1, <1>2, <2>2 DEF SnapshotTrue
  <2> QED
    BY <1>2, <1>3, <2>1, <2>4, <2>5 DEF SnapshotTrue, TruthIn
<1>11. ASSUME v.serverSeq <= n.newest, v.byPeerId[p] = "absent",
              \A q \in Peers \ {p} : Owed(c, q, 0)' \/ v.byPeerId[q] = TruthIn(r, q)
       PROVE  RosterTrue(c)'
  <2>1. \A q \in Peers \ {p} : Owed(c, q, 0)' \/ v.byPeerId[q] = TruthIn(r, q)'
    BY <1>4, <1>11
  <2> QED
    BY <1>2, <1>3, <1>11, <2>1 DEF RosterTrue, TruthIn
<1>12. CASE IsSnapshot(m)
  <2>1. c = d /\ work[c].at = "announce_joined" /\ Numbered(m)
    BY <1>1, <1>2, <1>12 DEF SendsOK, Numbered, IsSnapshot
  <2>2. /\ v.serverSeq = m.serverSeq
        /\ \A q \in Peers : v.byPeerId[q] =
             IF q # roster[c].self THEN Lists(m, q) ELSE "absent"
    BY <1>3, <1>5, <1>12, DispatchedFacts
  <2>3. roster[c].self = p
    BY <1>8, <2>1
  <2>4. SnapshotTrue(c, m)
    BY <1>1, <1>2, <1>7, <1>12, <2>1 DEF ViewOK
  <2>5. ~ (m.serverSeq <= o.newest)
    BY <1>6, <2>1
  <2>6. ASSUME NEW q \in Peers \ {p}
        PROVE  Owed(c, q, 0)' \/ v.byPeerId[q] = TruthIn(r, q)
    <3>1. Owed(c, q, m.serverSeq) \/ Lists(m, q) = TruthIn(r, q)
      BY <1>2, <2>4, <2>5 DEF SnapshotTrue
    <3>2. CASE Owed(c, q, m.serverSeq)
      <4>1. Owed(c, q, m.serverSeq)'
        BY <1>9, <1>12, <3>2 DEF IsUpdate, IsSnapshot
      <4>2. ASSUME NEW e \in Conns, Carries(e, c, q, m.serverSeq)'
            PROVE  Carries(e, c, q, 0)'
        <5>1. PICK y \in out'[e] : /\ y.to = c /\ IsUpdate(y.msg)
                                   /\ y.msg.subject = q /\ y.msg.serverSeq > m.serverSeq
          BY <4>2 DEF Carries
        <5>2. y \in Delivery
          BY DeliversFrame, ServerFacts
        <5>3. y.msg.serverSeq \in Nat
          BY <5>1, <5>2, MessageKinds DEF Delivery
        <5>4. y.msg.serverSeq > 0
          BY <1>6, <2>1, <5>1, <5>3
        <5> QED
          BY <5>1, <5>4 DEF Carries
      <4> QED
        BY <4>1, <4>2 DEF Owed
    <3>3. CASE Lists(m, q) = TruthIn(r, q)
      BY <2>2, <2>3, <3>3
    <3> QED
      BY <3>1, <3>2, <3>3
  <2>7. v.serverSeq <= n.newest /\ v.byPeerId[p] = "absent"
    BY <1>3, <1>6, <2>1, <2>2, <2>3
  <2>8. RosterTrue(c)'
    BY <1>11, <2>6, <2>7
  <2> QED
    BY <1>10, <2>8
<1>13. ASSUME ~ IsSnapshot(m), work'[c].at # "snapshot", ~ Awaits(c)'
       PROVE  roster[c].self = p /\ RosterTrue(c)
  <2>1. ~ Awaits(c)
    BY <1>1, <1>2, <1>13 DEF Awaits
  <2> QED
    BY <1>1, <1>7, <1>8, <1>13, <2>1 DEF ViewOK
<1>14. CASE IsUpdate(m)
  <2> SUFFICES ASSUME work'[c].at # "snapshot", ~ Awaits(c)'  PROVE RosterTrue(c)'
    BY <1>10
  <2>1. Numbered(m) /\ ~ IsSnapshot(m)
    BY <1>14 DEF Numbered, IsUpdate, IsSnapshot
  <2>2. roster[c].self = p /\ RosterTrue(c)
    BY <1>13, <2>1
  <2>3. roster[c].serverSeq \in Nat /\ roster[c].serverSeq <= o.newest
    BY <1>2, <2>2 DEF RosterTrue, ClientTypes, Slice
  <2>4. ~ (m.serverSeq <= roster[c].serverSeq)
    BY <1>6, <2>1, <2>3
  <2>5. /\ v.serverSeq = m.serverSeq
        /\ \A q \in Peers : v.byPeerId[q] =
             IF q = m.subject /\ q # roster[c].self THEN Shows(m)
             ELSE roster[c].byPeerId[q]
    BY <1>3, <1>5, <1>14, <2>4, DispatchedFacts
  <2>6. Shows(m) = TruthIn(r, m.subject)
    <3>1. Shows(m) = TruthIn(participant[m.subject].room, m.subject)
      BY <1>1, <1>2, <1>14 DEF SendsOK
    <3>2. participant[m.subject].room = r
      BY <1>2, <1>3, <1>6, <1>14, <2>1 DEF Stray, RoomOf, IsUpdate
    <3> QED
      BY <3>1, <3>2
  <2>7. ASSUME NEW q \in Peers \ {p}
        PROVE  Owed(c, q, 0)' \/ v.byPeerId[q] = TruthIn(r, q)
    <3>1. CASE q = m.subject
      BY <2>2, <2>5, <2>6, <3>1
    <3>2. CASE q # m.subject
      BY <1>2, <1>9, <2>2, <2>5, <3>2 DEF RosterTrue
    <3> QED
      BY <3>1, <3>2
  <2>8. v.serverSeq <= n.newest /\ v.byPeerId[p] = "absent"
    BY <1>2, <1>3, <1>6, <2>1, <2>2, <2>5 DEF RosterTrue
  <2> QED
    BY <1>11, <2>7, <2>8
<1>15. CASE ~ Numbered(m)
  <2> SUFFICES ASSUME work'[c].at # "snapshot", ~ Awaits(c)'  PROVE RosterTrue(c)'
    BY <1>10
  <2>1. ~ IsSnapshot(m) /\ ~ IsUpdate(m)
    BY <1>15 DEF Numbered, IsUpdate, IsSnapshot
  <2>2. RosterTrue(c)
    BY <1>13, <2>1
  <2>3. v.serverSeq = roster[c].serverSeq /\ v.byPeerId = roster[c].byPeerId /\ n = o
    BY <1>3, <1>5, <1>6, <1>15, DispatchedFacts
  <2>4. ASSUME NEW q \in Peers \ {p}
        PROVE  Owed(c, q, 0)' \/ v.byPeerId[q] = TruthIn(r, q)
    BY <1>2, <1>9, <2>1, <2>2, <2>3 DEF RosterTrue
  <2>5. v.serverSeq <= n.newest /\ v.byPeerId[p] = "absent"
    BY <1>2, <2>2, <2>3 DEF RosterTrue
  <2> QED
    BY <1>11, <2>4, <2>5
<1> QED
  BY <1>12, <1>14, <1>15 DEF Numbered, IsUpdate, IsSnapshot

LEMMA SendFollows ==
  ASSUME ServerInv, ClientTypes, FollowInv, NEW d \in Conns, NEW s, Delivers(d, s)
  PROVE  FollowInv'
<1>1. \A e \in Conns : StepOK(e)' /\ SendsOK(e)'
  BY SendsStayTrue DEF FollowInv
<1>2. ASSUME NEW c \in Conns  PROVE SelfOK(c)' /\ ViewOK(c)'
  <2>1. SendsOK(d) /\ SendsOK(c) /\ SelfOK(c) /\ ViewOK(c)
    BY DEF FollowInv
  <2>2. CASE work[c].at = "closed"
    <3>1. work'[c].at = "closed"
      BY <2>2, DeliversFrame
    <3> QED
      BY <3>1 DEF SelfOK, ViewOK, Following
  <2>3. CASE c # s.to
    <3>1. roster'[c] = roster[c] /\ order'[c] = order[c]
      BY <2>3 DEF Delivers, clientVars, ClientTypes
    <3> QED
      BY <2>1, <2>3, <3>1, UntoldKept
  <2>4. CASE c = s.to /\ work[c].at # "closed"
    <3>1. SelfOK(c)'
      BY <2>1, <2>4, ToldSelf
    <3>2. ASSUME Following(c)'
          PROVE  /\ \A e \in out'[c] : IsSnapshot(e.msg) => SnapshotTrue(c, e.msg)'
                 /\ work'[c].at # "snapshot" /\ ~ Awaits(c)' => RosterTrue(c)'
      BY <2>1, <2>4, <3>2, ToldView
    <3>3. ViewOK(c)'
      BY <3>2 DEF ViewOK
    <3> QED
      BY <3>1, <3>3
  <2> QED
    BY <2>2, <2>3, <2>4
<1> QED
  BY <1>1, <1>2 DEF FollowInv

LEMMA InitFollows == RosterInit => ClientTypes /\ FollowInv
<1> SUFFICES ASSUME RosterInit  PROVE ClientTypes /\ FollowInv
  OBVIOUS
<1>1. Nobody \in [Peers -> Presences \cup {"absent"}]
  BY DEF Nobody
<1>2. ClientTypes
  BY <1>1 DEF RosterInit, ClientTypes, Slice, Order, InOrder
<1>3. \A c \in Conns : work[c].at = "read" /\ out[c] = {} /\ ~ Joined(c)
  BY DEF RosterInit, Init, Idle, Handler, Joined
<1>4. \A c \in Conns : StepOK(c) /\ SendsOK(c) /\ SelfOK(c) /\ ViewOK(c)
  BY <1>3 DEF StepOK, SendsOK, SelfOK, ViewOK, Following, Arrivals, Departures
<1> QED
  BY <1>2, <1>4 DEF FollowInv

LEMMA StutterFollows ==
  ASSUME FollowInv, UNCHANGED allVars
  PROVE  FollowInv'
<1>1. UNCHANGED <<rooms, admitted, participant, session, work, out, roster, order>>
  BY DEF allVars, vars, clientVars
<1>2. \A c \in Conns : StepOK(c)' /\ SendsOK(c)' /\ SelfOK(c)'
  BY <1>1 DEF FollowInv, StepOK, SendsOK, SelfOK, Joined, TruthIn
<1>3. \A c \in Conns : ViewOK(c)'
  BY <1>1 DEF FollowInv, ViewOK, Following, Joined, Awaits, SnapshotTrue, RosterTrue,
              Owed, Announces, Carries, RoomOf, TruthIn
<1> QED
  BY <1>2, <1>3 DEF FollowInv

LEMMA NextFollows ==
  ASSUME ServerInv, ServerInv', ClientTypes, FollowInv, [RosterNext]_allVars
  PROVE  FollowInv'
<1>1. ASSUME NEW c \in Conns, Deliver(c)  PROVE FollowInv'
  <2>1. PICK s : Delivers(c, s)
    BY <1>1 DEF Deliver, Delivers, NextSends
  <2> QED
    BY <2>1, SendFollows
<1>2. ASSUME NEW c \in Conns,
             Admitted(c) \/ ((Proceed(c) \/ Read(c)) /\ UNCHANGED clientVars)
      PROVE  FollowInv'
  BY <1>2, SectionFollows
<1>3. CASE UNCHANGED allVars
  BY <1>3, StutterFollows
<1> QED
  BY <1>1, <1>2, <1>3 DEF RosterNext, RosterContinue

-----------------------------------------------------------------------------
\* Whatever a roster is wrong about, its client is still owed: by a handler that
\* has yet to announce it, or by an update that is written and not yet sent.
THEOREM Followed == RosterSpec => [](ServerInv /\ ClientTypes /\ FollowInv)
<1>1. ServerInv /\ ServerInv' /\ ClientTypes /\ FollowInv /\ [RosterNext]_allVars
        => ClientTypes' /\ FollowInv'
  BY ClientTypesStep, NextFollows
<1> QED
  BY <1>1, InitFollows, ServerInvariant, PTL DEF RosterSpec

\* Every slice of a client, and what is recorded of what it was written, stays
\* in its type, through whatever the server writes to it.
THEOREM RosterTypes == RosterSpec => []RosterTypeOK
<1>1. ServerInv /\ ClientTypes => RosterTypeOK
  BY DEF ServerInv, IInv, ClientTypes, RosterTypeOK
<1> QED
  BY <1>1, Followed, PTL

\* Whenever no handler is under way, a client that was written to in the order
\* of the numbers and from its own room only lists the members of its room,
\* each with its presence, and nobody else.
THEOREM RosterShowsTheRoom == RosterSpec => []RosterIsTheRoom
<1>1. ASSUME ServerInv, ClientTypes, FollowInv  PROVE RosterIsTheRoom
  <2> SUFFICES ASSUME Quiet, NEW c \in Conns, ~ order[c].late, ~ order[c].stray,
                      NEW r \in RoomObjs, InRoom(c, r)
               PROVE  roster[c].byPeerId = TrueRoster(r, session[c].peer)
    BY DEF RosterIsTheRoom, ShowsTheRoom
  <2>1. PICK p : p = session[c].peer
    OBVIOUS
  <2>2. p \in rooms[r].participants /\ Joined(c) /\ participant[p].room = r
        /\ participant[p].conn = c
    BY <1>1, <2>1, ServerFacts DEF InRoom
  <2>3. Registered(r)
    BY DEF InRoom, Named, RoomNamed, Registered, NoRoom, RoomObjs
  <2>4. work[c].at # "closed"
    BY <1>1, <2>2, <2>3 DEF ServerInv, RegistryInv, NoGhostParticipants
  <2>5. Following(c)
    BY <2>1, <2>2, <2>4 DEF Following
  <2>6. work[c].at = "read" /\ out[c] = {}
    BY <2>4 DEF Quiet
  <2>7. RosterTrue(c)
    BY <1>1, <2>5, <2>6 DEF FollowInv, ViewOK, Awaits
  <2>8. \A q : ~ Owed(c, q, 0)
    BY DEF Quiet, Owed, Announces, Carries, Arrivals, Departures
  <2>9. ASSUME NEW q \in Peers
        PROVE  roster[c].byPeerId[q] = IF q \in rooms[r].participants \ {p}
                                       THEN participant[q].readiness ELSE "absent"
    BY <2>1, <2>2, <2>7, <2>8 DEF RosterTrue, RoomOf, TruthIn
  <2>10. roster[c].byPeerId \in [Peers -> Presences \cup {"absent"}]
    BY <1>1 DEF ClientTypes, Slice
  <2> QED
    BY <2>1, <2>9, <2>10 DEF TrueRoster
<1> QED
  BY <1>1, Followed, PTL

=============================================================================
