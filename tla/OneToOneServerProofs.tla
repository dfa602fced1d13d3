------------------------ MODULE OneToOneServerProofs ------------------------
(***************************************************************************)
(* Proofs about the one-to-one server, for every number of connections,    *)
(* rooms and admissions.  IInv is the inductive invariant: the types, and  *)
(* what a handler's local variables may rely on between two critical       *)
(* sections.  RegistryInv, on top of it, is about the registry, the        *)
(* latches and the departures.                                             *)
(***************************************************************************)
EXTENDS OneToOneServer, SequenceTheorems, TLAPS

\* A participant in a slot was admitted into that room, with the order of
\* the slot.
SlotsOK ==
  \A r \in RoomObjs, i \in Slots :
    LET p == rooms[r].slots[i]
    IN  p # NoPeer => /\ p \in 1..admitted
                      /\ participant[p].room = r /\ participant[p].order = i

ParticipantsOK ==
  \A p \in 1..admitted :
    /\ participant[p].room \in RoomObjs /\ participant[p].order \in Slots
    /\ participant[p].conn \in Conns

\* A session, and the handler it runs, speak for a participant of their own
\* connection.
SessionsOK ==
  \A c \in Conns :
    Joined(c) => /\ session[c].peer \in 1..admitted
                 /\ participant[session[c].peer].conn = c
                 /\ session[c].roomId \in RoomIds

\* A handler past its first section knows its room, and the participant it
\* admitted or found stays there: only its own connection releases it.
HandlerOK(c) ==
  LET w == work[c]
  IN /\ w.at \in {"admit", "accept", "announce", "gc"} =>
          w.room \in RoomObjs /\ w.roomId \in RoomIds
     /\ w.at \in {"classify", "release"} =>
          Joined(c) /\ w.subject = session[c].peer /\ w.roomId = session[c].roomId
     /\ w.at \in {"accept", "announce"} =>
          w.subject \in Occupants(rooms[w.room]) /\ participant[w.subject].conn = c
     /\ w.at = "send_roles" => w.pair # <<>>
     /\ w.pair # <<>> => /\ w.pair \in (1..admitted) \X (1..admitted)
                         /\ participant[w.pair[1]].order = 1
                         /\ participant[w.pair[2]].order = 2

WorkOK == \A c \in Conns : HandlerOK(c)

\* A role is told by the slot of the remote peer: the occupant of the first
\* slot offers.
ToldRight(msg) ==
  msg.type = "ready_for_offer" =>
    /\ msg.remote \in 1..admitted
    /\ msg.role = IF participant[msg.remote].order = 1 THEN "answerer" ELSE "offerer"

RolesTold == \A c \in Conns : \A i \in 1..Len(out[c]) : ToldRight(out[c][i].msg)

OutType == out \in [Conns -> Seq(Delivery)]

IInv ==
  /\ TypeOK /\ OutType
  /\ SlotsOK /\ ParticipantsOK /\ SessionsOK /\ WorkOK
  /\ RolesTold /\ RolesAssignedIffPaired

\* A handler that has begun a departure.
Departing == {"classify", "release", "gc", "finish", "closed"}

\* A room object has one ID at most, and one NewRoom has yet to make holds
\* nobody.
RegistryOK ==
  /\ \A rid \in RoomIds : registry[rid] \in 0..created
  /\ \A a, b \in RoomIds : registry[a] = registry[b] /\ registry[a] # NoRoom => a = b
  /\ \A r \in RoomObjs : r > created => IsEmpty(rooms[r])

\* The room a handler has in hand between its two looks is, if it is still
\* registered, the one its room ID names.
LooksOK ==
  \A c \in Conns : work[c].at \in {"admit", "gc"} =>
    /\ work[c].room <= created
    /\ Registered(work[c].room) => registry[work[c].roomId] = work[c].room

\* The latch is up from the claim of a release to the end of its handler, or
\* of the connection.
LatchOK ==
  \A c \in Conns :
    /\ session[c].released => work[c].at \in Departing
    /\ work[c].at \in {"gc", "finish", "closed"} =>
         session[c].released \/ ~ Joined(c)
    /\ work[c].at = "admit" => ~ Joined(c)

RegistryInv ==
  RegistryOK /\ LooksOK /\ LatchOK /\ NoGhostParticipants /\ EmptyRoomsAreCollected

-----------------------------------------------------------------------------
(* Rooms, and the sequences of participants and of sends. *)

LEMMA RoomFacts ==
  ASSUME NEW rm \in Room, NEW p \in Peers
  PROVE  /\ Occupants(rm) \subseteq Peers /\ NoPeer \notin Occupants(rm)
         /\ IsEmpty(rm) <=> rm.slots[1] = NoPeer /\ rm.slots[2] = NoPeer
         /\ IsFull(rm) <=> rm.slots[1] # NoPeer /\ rm.slots[2] # NoPeer
         /\ Remove(rm, p) \in Room
         /\ Occupants(Remove(rm, p)) = Occupants(rm) \ {p}
         /\ \A i \in Slots : Remove(rm, p).slots[i] \in {rm.slots[i], NoPeer} \ {p}
<1>1. /\ rm.slots \in [Slots -> Peers \cup {NoPeer}] /\ p # NoPeer
      /\ 1 \in Slots /\ 2 \in Slots /\ Slots = {1, 2}
  BY DEF Room, Slots, Peers, NoPeer
<1>2. Remove(rm, p) \in Room
  BY <1>1 DEF Remove, Room
<1>3. \A i \in Slots : Remove(rm, p).slots[i] =
                         IF rm.slots[i] = p THEN NoPeer ELSE rm.slots[i]
  BY DEF Remove
<1>4. Occupants(Remove(rm, p)) = Occupants(rm) \ {p}
  BY <1>1, <1>3 DEF Occupants
<1>5. /\ Occupants(rm) \subseteq Peers /\ NoPeer \notin Occupants(rm)
      /\ IsEmpty(rm) <=> rm.slots[1] = NoPeer /\ rm.slots[2] = NoPeer
      /\ IsFull(rm) <=> rm.slots[1] # NoPeer /\ rm.slots[2] # NoPeer
  BY <1>1 DEF Occupants, IsEmpty, IsFull, FreeSlots
<1> QED
  BY <1>1, <1>2, <1>3, <1>4, <1>5

LEMMA TwoSeq ==
  ASSUME NEW S, NEW a \in S, NEW b \in S
  PROVE  <<a>> \o <<b>> = <<a, b>> /\ <<a, b>> \in Seq(S)
<1>1. <<a>> \in Seq(S) /\ <<b>> \in Seq(S) /\ <<a, b>> \in Seq(S)
  OBVIOUS
<1>2. /\ <<a>> \o <<b>> \in Seq(S) /\ Len(<<a>> \o <<b>>) = 2
      /\ (<<a>> \o <<b>>)[1] = a /\ (<<a>> \o <<b>>)[2] = b
  BY <1>1, ConcatProperties
<1>3. \A i \in 1..2 : (<<a>> \o <<b>>)[i] = <<a, b>>[i]
  BY <1>2
<1> DEFINE s == <<a>> \o <<b>>
           t == <<a, b>>
<1>4. Len(t) = 2
  OBVIOUS
<1> HIDE DEF s, t
<1> QED
  BY <1>1, <1>2, <1>3, <1>4, SeqEqual DEF s, t

\* Room.Participants, as a sequence; of a full room it is the slot table.
LEMMA SlotOrder ==
  ASSUME NEW rm \in Room
  PROVE  /\ InSlotOrder(rm) \in Seq(Occupants(rm))
         /\ IsFull(rm) => /\ InSlotOrder(rm) = <<rm.slots[1], rm.slots[2]>>
                          /\ rm.slots[1] \in Occupants(rm)
                          /\ rm.slots[2] \in Occupants(rm)
<1>1. /\ rm.slots \in [Slots -> Peers \cup {NoPeer}]
      /\ 1 \in Slots /\ 2 \in Slots /\ Slots = {1, 2}
  BY DEF Room, Slots
<1>2. \A i \in Slots : rm.slots[i] # NoPeer => rm.slots[i] \in Occupants(rm)
  BY DEF Occupants
<1>3. CASE rm.slots[1] = NoPeer /\ rm.slots[2] = NoPeer
  BY <1>1, <1>3 DEF InSlotOrder, IsFull, FreeSlots
<1>4. CASE rm.slots[1] # NoPeer /\ rm.slots[2] = NoPeer
  BY <1>1, <1>2, <1>4 DEF InSlotOrder, IsFull, FreeSlots
<1>5. CASE rm.slots[1] = NoPeer /\ rm.slots[2] # NoPeer
  BY <1>1, <1>2, <1>5 DEF InSlotOrder, IsFull, FreeSlots
<1>6. CASE rm.slots[1] # NoPeer /\ rm.slots[2] # NoPeer
  <2> DEFINE a == rm.slots[1]
             b == rm.slots[2]
             T == Occupants(rm)
  <2>1. a \in T /\ b \in T
    BY <1>1, <1>2, <1>6
  <2>2. InSlotOrder(rm) = <<a>> \o <<b>>
    BY <1>6 DEF InSlotOrder
  <2> HIDE DEF a, b, T
  <2>3. <<a>> \o <<b>> = <<a, b>> /\ <<a, b>> \in Seq(T)
    BY <2>1, TwoSeq
  <2> QED
    BY <2>1, <2>2, <2>3 DEF a, b, T
<1> QED
  BY <1>3, <1>4, <1>5, <1>6

LEMMA ReplyType ==
  ASSUME NEW c \in Conns, NEW msg \in Message
  PROVE  /\ Reply(c, msg) \in Seq(Delivery)
         /\ \A i \in 1..Len(Reply(c, msg)) : Reply(c, msg)[i].msg = msg
<1>1. [to |-> c, msg |-> msg] \in Delivery
  BY DEF Delivery
<1> QED
  BY <1>1 DEF Reply

LEMMA FanOutType ==
  ASSUME ParticipantsOK, NEW peers \in Seq(1..admitted), NEW msg \in Message
  PROVE  /\ FanOut(peers, msg) \in Seq(Delivery)
         /\ \A i \in 1..Len(FanOut(peers, msg)) : FanOut(peers, msg)[i].msg = msg
<1>1. /\ DOMAIN peers = 1..Len(peers) /\ Len(peers) \in Nat
      /\ \A i \in DOMAIN peers : peers[i] \in 1..admitted
  BY LenProperties, ElementOfSeq
<1>2. \A i \in DOMAIN peers : participant[peers[i]].conn \in Conns
  BY <1>1 DEF ParticipantsOK
<1>3. \A i \in 1..Len(peers) : FanOut(peers, msg)[i] \in Delivery
  BY <1>1, <1>2 DEF FanOut, Delivery
<1>4. FanOut(peers, msg) \in Seq(Delivery) /\ Len(FanOut(peers, msg)) = Len(peers)
  <2>1. FanOut(peers, msg) \in [1..Len(peers) -> Delivery]
    BY <1>1, <1>3 DEF FanOut
  <2> QED
    BY <1>1, <2>1, SeqDef
<1> QED
  BY <1>1, <1>4 DEF FanOut


-----------------------------------------------------------------------------
(* What a step leaves of the invariant. *)

\* The sends of a handler that moves on, and those of the others.
LEMMA OutWrite ==
  ASSUME IInv, NEW c \in Conns, NEW ds \in Seq(Delivery),
         \A i \in 1..Len(ds) : ToldRight(ds[i].msg),
         out' = [out EXCEPT ![c] = ds],
         1..admitted \subseteq 1..admitted',
         \A p \in 1..admitted : participant'[p].order = participant[p].order
  PROVE  OutType' /\ RolesTold'
<1>1. OutType'
  BY DEF IInv, OutType
<1>2. \A d \in Conns : out'[d] \in {ds, out[d]}
  BY DEF IInv, OutType
<1> SUFFICES ASSUME NEW d \in Conns, NEW i \in 1..Len(out'[d]),
                    out'[d][i].msg.type = "ready_for_offer"
             PROVE  LET msg == out'[d][i].msg
                    IN /\ msg.remote \in 1..admitted'
                       /\ msg.role = IF participant'[msg.remote].order = 1
                                     THEN "answerer" ELSE "offerer"
  BY <1>1 DEF RolesTold, ToldRight
<1> DEFINE msg == out'[d][i].msg
<1>3. /\ msg.remote \in 1..admitted
      /\ msg.role = IF participant[msg.remote].order = 1 THEN "answerer" ELSE "offerer"
  BY <1>2 DEF IInv, RolesTold, ToldRight
<1> QED
  BY <1>3

LEMMA OutKept ==
  ASSUME IInv, UNCHANGED out, 1..admitted \subseteq 1..admitted',
         \A p \in 1..admitted : participant'[p].order = participant[p].order
  PROVE  OutType' /\ RolesTold'
<1>1. OutType'
  BY DEF IInv, OutType
<1> SUFFICES ASSUME NEW d \in Conns, NEW i \in 1..Len(out[d]),
                    out[d][i].msg.type = "ready_for_offer"
             PROVE  LET msg == out[d][i].msg
                    IN /\ msg.remote \in 1..admitted'
                       /\ msg.role = IF participant'[msg.remote].order = 1
                                     THEN "answerer" ELSE "offerer"
  BY <1>1 DEF RolesTold, ToldRight
<1> QED
  BY DEF IInv, RolesTold, ToldRight

\* A reply that tells nobody a role.
LEMMA ReplyWrite ==
  ASSUME IInv, NEW c \in Conns, NEW msg \in Message, msg.type # "ready_for_offer",
         out' = [out EXCEPT ![c] = Reply(c, msg)],
         UNCHANGED <<admitted, participant>>
  PROVE  OutType' /\ RolesTold'
<1>1. Reply(c, msg) \in Seq(Delivery)
  BY ReplyType
<1>2. \A i \in 1..Len(Reply(c, msg)) : ToldRight(Reply(c, msg)[i].msg)
  BY ReplyType DEF ToldRight
<1> QED
  BY <1>1, <1>2, OutWrite

\* The handlers and sessions of other connections.
LEMMA OthersKept ==
  ASSUME IInv, NEW c \in Conns, NEW d \in Conns \ {c},
         work'[d] = work[d], session'[d] = session[d],
         1..admitted \subseteq 1..admitted',
         \A p \in 1..admitted : /\ participant'[p].order = participant[p].order
                                /\ participant'[p].conn = participant[p].conn,
         \A r \in RoomObjs : \A p \in Occupants(rooms[r]) :
           participant[p].conn = d => p \in Occupants(rooms'[r])
  PROVE  /\ HandlerOK(d)'
         /\ Joined(d)' => /\ session'[d].peer \in 1..admitted'
                          /\ participant'[session'[d].peer].conn = d
                          /\ session'[d].roomId \in RoomIds
<1>1. HandlerOK(d)
  BY DEF IInv, WorkOK
<1>2. \A r \in RoomObjs : Occupants(rooms[r]) \subseteq 1..admitted
  BY DEF IInv, SlotsOK, Occupants
<1>3. HandlerOK(d)'
  <2>1. ASSUME work[d].at \in {"accept", "announce"}
        PROVE  /\ work[d].subject \in Occupants(rooms'[work[d].room])
               /\ participant'[work[d].subject].conn = d
    BY <1>1, <1>2, <2>1 DEF HandlerOK
  <2>2. ASSUME work[d].pair # <<>>
        PROVE  /\ work[d].pair \in (1..admitted') \X (1..admitted')
               /\ participant'[work[d].pair[1]].order = 1
               /\ participant'[work[d].pair[2]].order = 2
    BY <1>1, <2>2 DEF HandlerOK
  <2>3. /\ work[d].at \in {"admit", "accept", "announce", "gc"} =>
             work[d].room \in RoomObjs /\ work[d].roomId \in RoomIds
        /\ work[d].at \in {"classify", "release"} =>
             /\ session[d].peer # NoPeer /\ work[d].subject = session[d].peer
             /\ work[d].roomId = session[d].roomId
        /\ work[d].at = "send_roles" => work[d].pair # <<>>
    BY <1>1 DEF HandlerOK, Joined
  <2> QED
    BY <2>1, <2>2, <2>3 DEF HandlerOK, Joined, Occupants
<1> QED
  BY <1>3 DEF IInv, SessionsOK, Joined


\* A step of c's goroutine that touches no room and no participant, and at
\* most forgets whom c's session speaks for.
LEMMA StillStep ==
  ASSUME IInv, NEW c \in Conns,
         UNCHANGED <<rooms, admitted, participant>>,
         registry' \in [RoomIds -> RoomObjs \cup {NoRoom}], created' \in 0..MaxRooms,
         session' \in [Conns -> Session], work' \in [Conns -> Work],
         \A d \in Conns \ {c} : session'[d] = session[d] /\ work'[d] = work[d],
         Joined(c)' => /\ session'[c].peer = session[c].peer
                       /\ session'[c].roomId = session[c].roomId,
         HandlerOK(c)', OutType', RolesTold'
  PROVE  IInv'
<1>1. SlotsOK' /\ ParticipantsOK' /\ RolesAssignedIffPaired'
  BY DEF IInv, SlotsOK, ParticipantsOK, RolesAssignedIffPaired, IsFull, FreeSlots,
         Occupants, InCall
<1>2. \A d \in Conns \ {c} : HandlerOK(d)'
  BY OthersKept DEF Occupants
<1>3. SessionsOK'
  BY DEF IInv, SessionsOK, Joined
<1>4. TypeOK'
  <2>1. \A d \in Conns : \A i \in DOMAIN out'[d] : out'[d][i] \in Delivery
    BY LenProperties, ElementOfSeq DEF OutType
  <2> QED
    BY <2>1 DEF IInv, TypeOK
<1> QED
  BY <1>1, <1>2, <1>3, <1>4 DEF IInv, WorkOK

\* The handlers' places that carry nothing between critical sections.
LEMMA IdleOK ==
  ASSUME NEW c, NEW cause \in Causes
  PROVE  /\ Idle \in Work /\ Handler("closed", NoRoom, NoRoomId, NoPeer, cause) \in Work
         /\ work'[c] = Idle => HandlerOK(c)'
         /\ work'[c] = Handler("closed", NoRoom, NoRoomId, NoPeer, cause) => HandlerOK(c)'
BY DEF Idle, Handler, Work, Steps, Causes, NoRoom, NoPeer, HandlerOK

LEMMA InitStep == Init => IInv
<1> SUFFICES ASSUME Init PROVE IInv
  OBVIOUS
<1>1. NewRoom \in Room /\ Occupants(NewRoom) = {} /\ ~ IsFull(NewRoom)
  BY DEF NewRoom, Room, Occupants, IsFull, FreeSlots, Slots, NoPeer
<1>2. Idle \in Work
  BY IdleOK DEF Causes
<1>3. TypeOK /\ OutType
  BY <1>1, <1>2, MaxPeersAssumption, MaxRoomsAssumption
  DEF Init, TypeOK, OutType, NoParticipant, Participant, Session, NoRoom, NoPeer
<1>4. SlotsOK /\ ParticipantsOK /\ SessionsOK /\ WorkOK
  BY DEF Init, SlotsOK, NewRoom, ParticipantsOK, SessionsOK, Joined, WorkOK, HandlerOK,
         Idle, Handler
<1>5. RolesTold
  BY DEF Init, RolesTold
<1>6. RolesAssignedIffPaired
  BY <1>1 DEF Init, RolesAssignedIffPaired, NewRoom
<1> QED
  BY <1>3, <1>4, <1>5, <1>6 DEF IInv

LEMMA JoinStep ==
  ASSUME IInv, NEW c \in Conns, NEW rid \in RoomIds,
         JoinExisting(c, rid) \/ JoinCreating(c, rid)
  PROVE  IInv'
<1>1. /\ UNCHANGED <<rooms, admitted, participant, session, out>>
      /\ registry' \in [RoomIds -> RoomObjs \cup {NoRoom}] /\ created' \in 0..MaxRooms
      /\ \E r \in RoomObjs :
           work' = [work EXCEPT ![c] = Handler("admit", r, rid, NoPeer, "none")]
  <2>1. CASE JoinExisting(c, rid)
    BY <2>1 DEF JoinExisting, IInv, TypeOK
  <2>2. CASE JoinCreating(c, rid)
    <3>1. created + 1 \in RoomObjs /\ created + 1 \in 0..MaxRooms
      BY <2>2, MaxRoomsAssumption DEF JoinCreating, IInv, TypeOK, RoomObjs
    <3> QED
      BY <2>2, <3>1 DEF JoinCreating, IInv, TypeOK
  <2> QED
    BY <2>1, <2>2
<1>2. PICK r \in RoomObjs :
        work' = [work EXCEPT ![c] = Handler("admit", r, rid, NoPeer, "none")]
  BY <1>1
<1>3. work' \in [Conns -> Work] /\ HandlerOK(c)'
  BY <1>2 DEF Handler, Work, Steps, Causes, HandlerOK, IInv, TypeOK
<1>4. OutType' /\ RolesTold'
  BY <1>1, OutKept
<1> QED
  BY <1>1, <1>2, <1>3, <1>4, StillStep DEF IInv, TypeOK

LEMMA JoinRejectedStep ==
  ASSUME IInv, NEW c \in Conns, JoinRejected(c)
  PROVE  IInv'
<1>1. work' \in [Conns -> Work] /\ HandlerOK(c)'
  BY IdleOK DEF JoinRejected, IInv, TypeOK, Causes
<1>2. OutType' /\ RolesTold'
  <2>1. [type |-> "join_rejected"] \in Message
    BY DEF Message
  <2> QED
    BY <2>1, ReplyWrite DEF JoinRejected
<1> QED
  BY <1>1, <1>2, StillStep DEF JoinRejected, IInv, TypeOK


\* Two sequences of sends that tell roles right do so one after the other.
LEMMA ConcatTold ==
  ASSUME NEW s \in Seq(Delivery), NEW t \in Seq(Delivery),
         \A i \in 1..Len(s) : ToldRight(s[i].msg),
         \A i \in 1..Len(t) : ToldRight(t[i].msg)
  PROVE  /\ s \o t \in Seq(Delivery)
         /\ \A i \in 1..Len(s \o t) : ToldRight((s \o t)[i].msg)
<1>1. /\ s \o t \in Seq(Delivery) /\ Len(s \o t) = Len(s) + Len(t)
      /\ Len(s) \in Nat /\ Len(t) \in Nat
      /\ \A i \in 1..Len(s) + Len(t) :
           (s \o t)[i] = IF i <= Len(s) THEN s[i] ELSE t[i - Len(s)]
  BY ConcatProperties, LenProperties
<1> SUFFICES ASSUME NEW i \in 1..Len(s) + Len(t)  PROVE ToldRight((s \o t)[i].msg)
  BY <1>1
<1>2. CASE i <= Len(s)
  <2>1. i \in 1..Len(s)
    BY <1>1, <1>2
  <2>2. (s \o t)[i] = s[i]
    BY <1>1, <1>2
  <2> QED
    BY <2>1, <2>2
<1>3. CASE ~ (i <= Len(s))
  <2>1. i - Len(s) \in 1..Len(t)
    BY <1>1, <1>3
  <2>2. (s \o t)[i] = t[i - Len(s)]
    BY <1>1, <1>3
  <2> QED
    BY <2>1, <2>2
<1> QED
  BY <1>2, <1>3

\* A fan-out that tells nobody a role.
LEMMA FanOutWrite ==
  ASSUME IInv, NEW peers \in Seq(1..admitted), NEW msg \in Message,
         msg.type # "ready_for_offer"
  PROVE  /\ FanOut(peers, msg) \in Seq(Delivery)
         /\ \A i \in 1..Len(FanOut(peers, msg)) : ToldRight(FanOut(peers, msg)[i].msg)
<1>1. ParticipantsOK
  BY DEF IInv
<1>2. /\ FanOut(peers, msg) \in Seq(Delivery)
      /\ \A i \in 1..Len(FanOut(peers, msg)) : FanOut(peers, msg)[i].msg = msg
  BY <1>1, FanOutType
<1> QED
  BY <1>2 DEF ToldRight

LEMMA OccupantsAdmitted ==
  ASSUME IInv, NEW r \in RoomObjs
  PROVE  /\ rooms[r] \in Room /\ Occupants(rooms[r]) \subseteq 1..admitted
         /\ \A p \in Occupants(rooms[r]) : participant[p].room = r
         /\ InSlotOrder(rooms[r]) \in Seq(1..admitted)
<1>1. rooms[r] \in Room /\ Occupants(rooms[r]) \subseteq 1..admitted
      /\ \A p \in Occupants(rooms[r]) : participant[p].room = r
  BY DEF IInv, TypeOK, SlotsOK, Occupants
<1>2. InSlotOrder(rooms[r]) \in Seq(Occupants(rooms[r]))
  BY <1>1, SlotOrder
<1> QED
  BY <1>1, <1>2, SeqMonotonic

LEMMA AcceptStep ==
  ASSUME IInv, NEW c \in Conns, Accept(c)
  PROVE  IInv'
<1> DEFINE w   == work[c]
           rm  == rooms[w.room]
           p   == w.subject
           msg == [type |-> "join_accepted", order |-> participant[p].order,
                   remote |-> Occupants(rm) \ {p}, readiness |-> Readiness(rm)]
<1>1. /\ w.room \in RoomObjs /\ w.at = "accept" /\ p \in Occupants(rm)
      /\ w \in Work /\ HandlerOK(c)
  BY DEF Accept, At, IInv, WorkOK, HandlerOK, TypeOK
<1>2. msg \in Message
  <2>1. Occupants(rm) \subseteq Peers /\ p \in 1..admitted
    BY <1>1, OccupantsAdmitted, MaxPeersAssumption DEF IInv, TypeOK, Peers
  <2>2. participant[p].order \in Slots
    BY <2>1 DEF IInv, ParticipantsOK
  <2>3. Readiness(rm) \in {"waiting_for_media", "waiting_for_peer", "paired"}
    <3>1. ~ IsEmpty(rm)
      BY <1>1 DEF IsEmpty
    <3>2. CASE \E q \in Occupants(rm) : participant[q].media # "ready"
      BY <3>1, <3>2 DEF Readiness
    <3>3. CASE \A q \in Occupants(rm) : participant[q].media = "ready"
      BY <3>1, <3>3 DEF Readiness
    <3> QED
      BY <3>2, <3>3
  <2> HIDE DEF rm, p
  <2> QED
    BY <2>1, <2>2, <2>3 DEF Message
<1>3. OutType' /\ RolesTold'
  <2>1. /\ out' = [out EXCEPT ![c] = Reply(c, msg)] /\ msg.type # "ready_for_offer"
        /\ UNCHANGED <<admitted, participant>>
    BY DEF Accept
  <2> HIDE DEF msg
  <2> QED
    BY <1>2, <2>1, ReplyWrite
<1>4. work' \in [Conns -> Work] /\ HandlerOK(c)'
  <2>1. work' = [work EXCEPT ![c] = [w EXCEPT !.at = "announce"]]
    BY DEF Accept
  <2>2. work' \in [Conns -> Work]
    BY <1>1, <2>1 DEF IInv, TypeOK, Work, Steps
  <2>3. /\ work'[c].at = "announce" /\ work'[c].room = w.room /\ work'[c].pair = w.pair
        /\ work'[c].roomId = w.roomId /\ work'[c].subject = p
    BY <1>1, <2>1 DEF IInv, TypeOK, Work
  <2> QED
    BY <1>1, <2>2, <2>3 DEF HandlerOK, Accept, Occupants
<1> QED
  BY <1>3, <1>4, StillStep DEF Accept, IInv, TypeOK

LEMMA AnnounceStep ==
  ASSUME IInv, NEW c \in Conns, Announce(c)
  PROVE  IInv'
<1> DEFINE w   == work[c]
           p   == w.subject
           msg == [type |-> "peer_presence_changed", subject |-> p,
                   presence |-> participant[p].media]
           ps  == InSlotOrder(rooms[w.room])
<1>1. /\ w.room \in RoomObjs /\ w.at = "announce" /\ p \in Occupants(rooms[w.room])
      /\ w \in Work /\ HandlerOK(c)
  BY DEF Announce, At, IInv, WorkOK, HandlerOK, TypeOK
<1>2. msg \in Message
  <2>1. p \in Peers
    BY <1>1, OccupantsAdmitted, MaxPeersAssumption DEF IInv, TypeOK, Peers
  <2>2. participant[p].media \in {"pending-media", "ready"}
    BY <2>1 DEF IInv, TypeOK, Participant
  <2> HIDE DEF p
  <2> QED
    BY <2>1, <2>2 DEF Message
<1>3. OutType' /\ RolesTold'
  <2>1. out' = [out EXCEPT ![c] = FanOut(ps, msg)] /\ msg.type # "ready_for_offer"
        /\ UNCHANGED <<admitted, participant>>
    BY DEF Announce
  <2>2. ps \in Seq(1..admitted)
    BY <1>1, OccupantsAdmitted
  <2> HIDE DEF msg, ps
  <2>3. /\ FanOut(ps, msg) \in Seq(Delivery)
        /\ \A i \in 1..Len(FanOut(ps, msg)) : ToldRight(FanOut(ps, msg)[i].msg)
    BY <1>2, <2>1, <2>2, FanOutWrite
  <2> QED
    BY <2>1, <2>3, OutWrite
<1>4. work' \in [Conns -> Work] /\ HandlerOK(c)'
  <2>1. CASE w.pair = <<>>
    <3>1. work' = [work EXCEPT ![c] = Idle]
      BY <2>1 DEF Announce
    <3> QED
      BY <3>1, IdleOK DEF IInv, TypeOK, Causes
  <2>2. CASE w.pair # <<>>
    <3>1. work' = [work EXCEPT ![c] = [w EXCEPT !.at = "send_roles"]]
      BY <2>2 DEF Announce
    <3>2. work' \in [Conns -> Work]
      BY <1>1, <3>1 DEF IInv, TypeOK, Work, Steps
    <3>3. work'[c].at = "send_roles" /\ work'[c].pair = w.pair
      BY <1>1, <3>1 DEF IInv, TypeOK, Work
    <3> QED
      BY <1>1, <2>2, <3>2, <3>3 DEF HandlerOK, Announce
  <2> QED
    BY <2>1, <2>2
<1> QED
  BY <1>3, <1>4, StillStep DEF Announce, IInv, TypeOK


\* The roles told are those of the slots: the pair was captured in slot order.
LEMMA SendRolesStep ==
  ASSUME IInv, NEW c \in Conns, SendRoles(c)
  PROVE  IInv'
<1> DEFINE a  == work[c].pair[1]
           b  == work[c].pair[2]
           m1 == [type |-> "ready_for_offer", role |-> "offerer", remote |-> b]
           m2 == [type |-> "ready_for_offer", role |-> "answerer", remote |-> a]
<1>1. /\ a \in 1..admitted /\ b \in 1..admitted
      /\ participant[a].order = 1 /\ participant[b].order = 2
  BY DEF SendRoles, At, IInv, WorkOK, HandlerOK
<1>2. m1 \in Message /\ m2 \in Message /\ ToldRight(m1) /\ ToldRight(m2)
  <2>1. a \in Peers /\ b \in Peers
    BY <1>1, MaxPeersAssumption DEF IInv, TypeOK, Peers
  <2> HIDE DEF a, b
  <2>2. m1 \in Message /\ m2 \in Message
    BY <2>1 DEF Message
  <2> QED
    BY <1>1, <2>2 DEF ToldRight
<1>3. out' = [out EXCEPT ![c] = FanOut(<<a>>, m1) \o FanOut(<<b>>, m2)]
      /\ UNCHANGED <<admitted, participant>>
  BY DEF SendRoles, Roles
<1>4. OutType' /\ RolesTold'
  <2> DEFINE s == FanOut(<<a>>, m1)
             t == FanOut(<<b>>, m2)
  <2>1. <<a>> \in Seq(1..admitted) /\ <<b>> \in Seq(1..admitted) /\ ParticipantsOK
    BY <1>1 DEF IInv
  <2> HIDE DEF a, b, m1, m2
  <2>2. /\ s \in Seq(Delivery) /\ \A i \in 1..Len(s) : ToldRight(s[i].msg)
        /\ t \in Seq(Delivery) /\ \A i \in 1..Len(t) : ToldRight(t[i].msg)
    BY <1>2, <2>1, FanOutType
  <2> HIDE DEF s, t
  <2>3. s \o t \in Seq(Delivery) /\ \A i \in 1..Len(s \o t) : ToldRight((s \o t)[i].msg)
    BY <2>2, ConcatTold
  <2> QED
    BY <1>3, <2>3, OutWrite DEF s, t
<1>5. work' \in [Conns -> Work] /\ HandlerOK(c)'
  BY IdleOK DEF SendRoles, IInv, TypeOK, Causes
<1> QED
  BY <1>4, <1>5, StillStep DEF SendRoles, IInv, TypeOK

LEMMA MediaFailedStep ==
  ASSUME IInv, NEW c \in Conns, MediaFailed(c)
  PROVE  IInv'
<1>1. /\ session[c] \in Session /\ Joined(c) /\ session' = session
      /\ work' = [work EXCEPT ![c] = Handler("classify", NoRoom, session[c].roomId,
                                             session[c].peer, "media_failed")]
  BY DEF MediaFailed, IInv, TypeOK
<1>2. work' \in [Conns -> Work] /\ HandlerOK(c)'
  BY <1>1 DEF Handler, Work, Steps, Causes, HandlerOK, Joined, Session, IInv, TypeOK
<1>3. OutType' /\ RolesTold'
  <2>1. [type |-> "participant_released"] \in Message
    BY DEF Message
  <2> QED
    BY <2>1, ReplyWrite DEF MediaFailed
<1> QED
  BY <1>2, <1>3, StillStep DEF MediaFailed, IInv, TypeOK

\* leave_room and the end of a connection begin a departure or close.
LEMMA DepartureStep ==
  ASSUME IInv, NEW c \in Conns, LeaveRoom(c) \/ Disconnect(c)
  PROVE  IInv'
<1>1. /\ session[c] \in Session /\ session \in [Conns -> Session]
      /\ UNCHANGED <<registry, created, rooms, admitted, participant, out>>
  BY DEF LeaveRoom, Disconnect, IInv, TypeOK
<1>2. /\ session' \in [Conns -> Session]
      /\ \A d \in Conns \ {c} : session'[d] = session[d]
      /\ session'[c].peer = session[c].peer /\ session'[c].roomId = session[c].roomId
  <2>1. session' = session \/ session' = [session EXCEPT ![c].released = TRUE]
    BY DEF LeaveRoom, Disconnect
  <2> QED
    BY <1>1, <2>1 DEF Session
<1>3. \/ /\ Joined(c)
         /\ \E cause \in {"graceful_leave", "disconnect"} :
              work' = [work EXCEPT ![c] = Handler("classify", NoRoom, session[c].roomId,
                                                  session[c].peer, cause)]
      \/ work' = [work EXCEPT ![c] =
                    Handler("closed", NoRoom, NoRoomId, NoPeer, "disconnect")]
  BY DEF LeaveRoom, Disconnect
<1>4. work' \in [Conns -> Work] /\ HandlerOK(c)'
  <2>1. ASSUME NEW cause \in {"graceful_leave", "disconnect"}, Joined(c),
               work' = [work EXCEPT ![c] = Handler("classify", NoRoom, session[c].roomId,
                                                   session[c].peer, cause)]
        PROVE  work' \in [Conns -> Work] /\ HandlerOK(c)'
    BY <1>1, <1>2, <2>1
    DEF Handler, Work, Steps, Causes, HandlerOK, Joined, Session, IInv, TypeOK
  <2>2. CASE work' = [work EXCEPT ![c] =
                        Handler("closed", NoRoom, NoRoomId, NoPeer, "disconnect")]
    BY <2>2, IdleOK DEF IInv, TypeOK, Causes
  <2> QED
    BY <1>3, <2>1, <2>2
<1>5. OutType' /\ RolesTold'
  BY <1>1, OutKept
<1>6. \A d \in Conns \ {c} : work'[d] = work[d]
  BY <1>3 DEF IInv, TypeOK
<1> QED
  BY <1>1, <1>2, <1>4, <1>5, <1>6, StillStep DEF IInv, TypeOK

LEMMA ClassifyStep ==
  ASSUME IInv, NEW c \in Conns, Classify(c)
  PROVE  IInv'
<1> DEFINE w == work[c]
           r == RoomNamed(w.roomId)
           b == w.subject \in Occupants(rooms[r]) /\ InCall(w.subject)
<1>1. /\ w \in Work /\ w.at = "classify" /\ HandlerOK(c) /\ session[c] \in Session
      /\ session \in [Conns -> Session]
      /\ UNCHANGED <<registry, created, rooms, admitted, participant, out>>
  BY DEF Classify, At, IInv, TypeOK, WorkOK
<1>2. /\ session' \in [Conns -> Session]
      /\ \A d \in Conns \ {c} : session'[d] = session[d]
      /\ session'[c].peer = session[c].peer /\ session'[c].roomId = session[c].roomId
  <2>1. session' = session \/ session' = [session EXCEPT ![c].released = TRUE]
    BY DEF Classify
  <2> QED
    BY ZenonT(30), <1>1, <2>1 DEF Session
<1>3. b \in BOOLEAN
  OBVIOUS
<1>4. \/ work' = [work EXCEPT ![c] = [w EXCEPT !.at = "release", !.inCall = b]]
      \/ work' = [work EXCEPT ![c] = [w EXCEPT !.at = "finish"]]
  BY DEF Classify
<1>5. /\ work' \in [Conns -> Work]
      /\ work'[c].at \in {"release", "finish"} /\ work'[c].subject = w.subject
      /\ work'[c].roomId = w.roomId /\ work'[c].pair = w.pair
      /\ \A d \in Conns \ {c} : work'[d] = work[d]
  <2>0. work \in [Conns -> Work]
    BY DEF IInv, TypeOK
  <2> HIDE DEF b, w
  <2>2. CASE work' = [work EXCEPT ![c] = [w EXCEPT !.at = "finish"]]
    <3> DEFINE v == [w EXCEPT !.at = "finish"]
    <3>1. v \in Work
      BY <1>1 DEF Work, Steps
    <3>2. /\ v.at = "finish" /\ v.subject = w.subject
          /\ v.roomId = w.roomId /\ v.pair = w.pair
      BY <1>1 DEF Work
    <3> HIDE DEF v
    <3> QED
      BY <2>0, <2>2, <3>1, <3>2 DEF v
  <2>3. CASE work' = [work EXCEPT ![c] = [w EXCEPT !.at = "release", !.inCall = b]]
    <3> DEFINE v == [w EXCEPT !.at = "release", !.inCall = b]
    <3>1. v \in Work
      BY <1>1, <1>3 DEF Work, Steps
    <3>2. /\ v.at = "release" /\ v.subject = w.subject
          /\ v.roomId = w.roomId /\ v.pair = w.pair
      BY <1>1 DEF Work
    <3> HIDE DEF v
    <3> QED
      BY <2>0, <2>3, <3>1, <3>2 DEF v
  <2> QED
    BY <1>4, <2>2, <2>3
<1>7. HandlerOK(c)'
  BY <1>1, <1>2, <1>5 DEF HandlerOK, Joined
<1>8. OutType' /\ RolesTold'
  BY <1>1, OutKept
<1> QED
  BY <1>1, <1>2, <1>5, <1>7, <1>8, StillStep DEF IInv, TypeOK

LEMMA CollectRoomStep ==
  ASSUME IInv, NEW c \in Conns, CollectRoom(c)
  PROVE  IInv'
<1> DEFINE w == work[c]
<1>1. /\ w \in Work /\ w.at = "gc" /\ HandlerOK(c)
      /\ work' = [work EXCEPT ![c] = [w EXCEPT !.at = "finish"]]
      /\ UNCHANGED <<created, rooms, admitted, participant, session, out>>
  BY DEF CollectRoom, At, IInv, TypeOK, WorkOK
<1>2. registry' \in [RoomIds -> RoomObjs \cup {NoRoom}]
  BY DEF CollectRoom, IInv, TypeOK
<1>3. work' \in [Conns -> Work]
  BY <1>1 DEF IInv, TypeOK, Work, Steps
<1>4. work'[c].at = "finish" /\ work'[c].pair = w.pair
  BY <1>1 DEF IInv, TypeOK, Work
<1>5. HandlerOK(c)'
  BY <1>1, <1>4 DEF HandlerOK
<1>6. OutType' /\ RolesTold'
  BY <1>1, OutKept
<1> QED
  BY <1>1, <1>2, <1>3, <1>5, <1>6, StillStep DEF IInv, TypeOK

LEMMA FinishStep ==
  ASSUME IInv, NEW c \in Conns, Finish(c)
  PROVE  IInv'
<1> DEFINE w == work[c]
           s == session[c]
<1>1. /\ UNCHANGED <<registry, created, rooms, admitted, participant, out>>
      /\ session' = [session EXCEPT ![c] = AfterDeparture(s, w.cause)]
      /\ w.cause \in Causes /\ s \in Session
  BY DEF Finish, IInv, TypeOK, Work
<1>2. /\ AfterDeparture(s, w.cause) \in Session
      /\ \/ AfterDeparture(s, w.cause) = s
         \/ AfterDeparture(s, w.cause).peer = NoPeer
  BY <1>1 DEF AfterDeparture, Session
<1>3. /\ session' \in [Conns -> Session]
      /\ \A d \in Conns \ {c} : session'[d] = session[d]
      /\ session'[c] = s \/ ~ Joined(c)'
  BY <1>1, <1>2 DEF Joined, IInv, TypeOK
<1>4. work' \in [Conns -> Work] /\ HandlerOK(c)'
      /\ \A d \in Conns \ {c} : work'[d] = work[d]
  <2>1. CASE w.cause = "media_failed"
    BY <2>1, IdleOK DEF Finish, IInv, TypeOK, Causes
  <2>2. CASE w.cause # "media_failed"
    BY <1>1, <2>2, IdleOK DEF Finish, IInv, TypeOK
  <2> QED
    BY <2>1, <2>2
<1>5. OutType' /\ RolesTold'
  BY <1>1, OutKept
<1> QED
  BY <1>1, <1>3, <1>4, <1>5, StillStep DEF IInv, TypeOK

\* Writes of sends, and refusals.
LEMMA RefuseStep ==
  ASSUME IInv, NEW c \in Conns, Refuse(c)
  PROVE  IInv'
<1>1. OutType' /\ RolesTold'
  <2>1. [type |-> "error"] \in Message
    BY DEF Message
  <2> QED
    BY <2>1, ReplyWrite DEF Refuse
<1>2. HandlerOK(c)'
  BY DEF Refuse, IInv, WorkOK, HandlerOK, Joined, Occupants
<1> QED
  BY <1>1, <1>2, StillStep DEF Refuse, IInv, TypeOK

LEMMA SendStep ==
  ASSUME IInv, NEW c \in Conns, Send(c)
  PROVE  IInv'
<1>1. UNCHANGED <<registry, created, rooms, admitted, participant, session, work>>
  BY DEF Send
<1>2. OutType' /\ RolesTold'
  <2>1. CASE out' = [out EXCEPT ![c] = Reply(c, [type |-> "error"])]
    <3>1. [type |-> "error"] \in Message
      BY DEF Message
    <3> QED
      BY <1>1, <2>1, <3>1, ReplyWrite
  <2>2. CASE out' = [out EXCEPT ![c] = Tail(@)]
    <3> DEFINE s == out[c]
    <3>1. s \in Seq(Delivery) /\ s # <<>> /\ \A i \in 1..Len(s) : ToldRight(s[i].msg)
      BY DEF Send, IInv, OutType, RolesTold
    <3> HIDE DEF s
    <3>2. /\ Tail(s) \in Seq(Delivery) /\ Len(s) \in Nat
          /\ Len(Tail(s)) = Len(s) - 1
          /\ \A i \in 1..Len(Tail(s)) : Tail(s)[i] = s[i + 1]
      BY <3>1, HeadTailProperties, LenProperties
    <3>3. \A i \in 1..Len(Tail(s)) : ToldRight(Tail(s)[i].msg)
      <4> TAKE i \in 1..Len(Tail(s))
      <4>1. i + 1 \in 1..Len(s)
        BY <3>2
      <4> QED
        BY <3>1, <3>2, <4>1
    <3>4. out' = [out EXCEPT ![c] = Tail(s)]
      BY <2>2 DEF s, IInv, OutType
    <3> QED
      BY <1>1, <3>2, <3>3, <3>4, OutWrite
  <2> QED
    BY <2>1, <2>2 DEF Send
<1>3. HandlerOK(c)'
  BY <1>1 DEF IInv, WorkOK, HandlerOK, Joined, Occupants
<1> QED
  BY <1>1, <1>2, <1>3, StillStep DEF IInv, TypeOK



\* A new participant takes the lowest free slot of a room that was not paired.
LEMMA JoinAcceptedStep ==
  ASSUME IInv, NEW c \in Conns, JoinAccepted(c)
  PROVE  IInv'
<1> DEFINE w == work[c]
           r == w.room
           p == admitted + 1
<1>1. /\ w \in Work /\ w.at = "admit" /\ r \in RoomObjs /\ w.roomId \in RoomIds
      /\ HandlerOK(c) /\ rooms[r] \in Room /\ session[c] \in Session
      /\ p \in Peers /\ p \notin 1..admitted /\ 1..p = 1..admitted \cup {p}
      /\ admitted < MaxPeers /\ admitted \in Nat
  BY MaxPeersAssumption
  DEF JoinAccepted, At, IInv, WorkOK, HandlerOK, TypeOK, Peers
<1>2. PICK i \in FreeSlots(rooms[r]) :
        /\ rooms' = [rooms EXCEPT ![r].slots[i] = p]
        /\ participant' = [participant EXCEPT ![p] =
             [room |-> r, order |-> AdmissionOrder(rooms[r], i),
              media |-> "pending-media", phase |-> "idle", conn |-> c]]
  BY DEF JoinAccepted
<1>3. /\ admitted' = p /\ UNCHANGED <<registry, created, out>>
      /\ session' = [session EXCEPT ![c] = [@ EXCEPT !.peer = p, !.roomId = w.roomId]]
      /\ work' = [work EXCEPT ![c] = [@ EXCEPT !.at = "accept", !.subject = p]]
  BY DEF JoinAccepted
<1>4. i \in Slots /\ rooms[r].slots[i] = NoPeer
  BY DEF FreeSlots
<1>5. /\ participant' \in [Peers -> Participant]
      /\ \A q \in 1..admitted : participant'[q] = participant[q]
      /\ participant'[p] = [room |-> r, order |-> i, media |-> "pending-media",
                            phase |-> "idle", conn |-> c]
  BY <1>1, <1>2, <1>4, MaxPeersAssumption
  DEF AdmissionOrder, IInv, TypeOK, Participant, Peers
<1> HIDE DEF p, r, w
<1>6. /\ rooms' \in [RoomObjs -> Room]
      /\ \A x \in RoomObjs \ {r} : rooms'[x] = rooms[x]
      /\ rooms'[r].rolesAssigned = rooms[r].rolesAssigned
      /\ rooms'[r].slots = [rooms[r].slots EXCEPT ![i] = p]
  BY <1>1, <1>2, <1>4 DEF IInv, TypeOK, Room
<1>7. /\ session'[c].peer = p /\ session'[c].roomId = w.roomId
      /\ session' \in [Conns -> Session]
      /\ \A d \in Conns \ {c} : session'[d] = session[d]
  BY <1>1, <1>3 DEF IInv, TypeOK, Session
<1>8. /\ work'[c].at = "accept" /\ work'[c].subject = p /\ work'[c].room = r
      /\ work'[c].roomId = w.roomId /\ work'[c].pair = w.pair
      /\ work' \in [Conns -> Work]
      /\ \A d \in Conns \ {c} : work'[d] = work[d]
  BY <1>1, <1>3 DEF IInv, TypeOK, Work, Steps, w, r
<1>9. /\ Occupants(rooms'[r]) = Occupants(rooms[r]) \cup {p}
      /\ \A x \in RoomObjs \ {r} : Occupants(rooms'[x]) = Occupants(rooms[x])
      /\ \A x \in RoomObjs : Occupants(rooms[x]) \subseteq 1..admitted
  <2>1. p # NoPeer /\ rooms[r].slots \in [Slots -> Peers \cup {NoPeer}]
    BY <1>1 DEF Room, NoPeer, Peers
  <2>2. Occupants(rooms'[r]) = Occupants(rooms[r]) \cup {p}
    BY <1>4, <1>6, <2>1 DEF Occupants, Slots
  <2> QED
    BY <1>6, <2>2, OccupantsAdmitted
<1>10. TypeOK'
  <2>1. \A d \in Conns : \A j \in DOMAIN out[d] : out[d][j] \in Delivery
    BY DEF IInv, TypeOK
  <2>2. admitted' \in 0..MaxPeers
    BY <1>1, <1>3, MaxPeersAssumption DEF p
  <2> QED
    BY <1>3, <1>5, <1>6, <1>7, <1>8, <2>1, <2>2 DEF IInv, TypeOK
<1>11. OutType' /\ RolesTold'
  BY <1>1, <1>3, <1>5, OutKept
<1>12. SlotsOK'
  <2> SUFFICES ASSUME NEW x \in RoomObjs, NEW j \in Slots, rooms'[x].slots[j] # NoPeer
               PROVE  /\ rooms'[x].slots[j] \in 1..admitted'
                      /\ participant'[rooms'[x].slots[j]].room = x
                      /\ participant'[rooms'[x].slots[j]].order = j
    BY DEF SlotsOK
  <2>1. CASE x = r /\ j = i
    BY <1>1, <1>3, <1>5, <1>6, <2>1 DEF Room
  <2>2. CASE ~ (x = r /\ j = i)
    <3>1. rooms'[x].slots[j] = rooms[x].slots[j]
      BY <1>1, <1>6, <2>2 DEF Room
    <3>2. /\ rooms[x].slots[j] \in 1..admitted
          /\ participant[rooms[x].slots[j]].room = x
          /\ participant[rooms[x].slots[j]].order = j
      BY <3>1 DEF IInv, SlotsOK
    <3> QED
      BY <1>1, <1>3, <1>5, <3>1, <3>2
  <2> QED
    BY <2>1, <2>2
<1>13. ParticipantsOK'
  BY <1>1, <1>3, <1>4, <1>5 DEF IInv, ParticipantsOK
<1>14. /\ 1..admitted \subseteq 1..admitted'
       /\ \A q \in 1..admitted : /\ participant'[q].order = participant[q].order
                                 /\ participant'[q].conn = participant[q].conn
       /\ \A x \in RoomObjs : Occupants(rooms[x]) \subseteq Occupants(rooms'[x])
  BY <1>1, <1>3, <1>5, <1>9
<1>15. SessionsOK' /\ WorkOK'
  <2>1. \A d \in Conns \ {c} :
          /\ HandlerOK(d)'
          /\ Joined(d)' => /\ session'[d].peer \in 1..admitted'
                           /\ participant'[session'[d].peer].conn = d
                           /\ session'[d].roomId \in RoomIds
    BY <1>7, <1>8, <1>14, OthersKept
  <2>2. HandlerOK(c)'
    <3>1. w.pair # <<>> => /\ w.pair \in (1..admitted) \X (1..admitted)
                           /\ participant[w.pair[1]].order = 1
                           /\ participant[w.pair[2]].order = 2
      BY <1>1 DEF HandlerOK, w
    <3>2. work'[c].pair # <<>> => /\ work'[c].pair \in (1..admitted') \X (1..admitted')
                                  /\ participant'[work'[c].pair[1]].order = 1
                                  /\ participant'[work'[c].pair[2]].order = 2
      BY <1>5, <1>8, <1>14, <3>1
    <3>3. p \in Occupants(rooms'[r]) /\ participant'[p].conn = c
      BY <1>5, <1>9
    <3> QED
      BY <1>1, <1>8, <3>2, <3>3 DEF HandlerOK, Occupants
  <2>3. /\ session'[c].peer \in 1..admitted' /\ participant'[session'[c].peer].conn = c
        /\ session'[c].roomId \in RoomIds
    BY <1>1, <1>3, <1>5, <1>7
  <2> QED
    BY <2>1, <2>2, <2>3 DEF WorkOK, SessionsOK
<1>16. RolesAssignedIffPaired'
  <2> SUFFICES ASSUME NEW x \in RoomObjs
               PROVE  /\ rooms'[x].rolesAssigned <=>
                           /\ IsFull(rooms'[x])
                           /\ \A q \in Occupants(rooms'[x]) :
                                participant'[q].media = "ready"
                      /\ rooms'[x].rolesAssigned =>
                           \A q \in Occupants(rooms'[x]) :
                             participant'[q].phase \in {"role-assigned", "negotiating"}
    BY DEF RolesAssignedIffPaired, InCall, IsFull, FreeSlots, Occupants
  <2>1. CASE x = r
    <3>1. ~ rooms[r].rolesAssigned
      BY <1>1, <1>4 DEF IInv, RolesAssignedIffPaired, IsFull, FreeSlots
    <3>2. p \in Occupants(rooms'[r]) /\ participant'[p].media # "ready"
      BY <1>5, <1>9
    <3> QED
      BY <1>6, <2>1, <3>1, <3>2
  <2>2. CASE x # r
    <3>1. rooms'[x] = rooms[x]
      BY <1>6, <2>2
    <3>2. \A q \in Occupants(rooms[x]) : participant'[q] = participant[q]
      BY <1>5, <1>9
    <3> QED
      BY <3>1, <3>2 DEF IInv, RolesAssignedIffPaired, InCall
  <2> QED
    BY <2>1, <2>2
<1> QED
  BY <1>10, <1>11, <1>12, <1>13, <1>15, <1>16 DEF IInv


\* A step in which no slot is taken and no participant changes its slot, its
\* room or its connection.
LEMMA SlotsStep ==
  ASSUME IInv, NEW c \in Conns, admitted' = admitted,
         \A r \in RoomObjs, i \in Slots : rooms'[r].slots[i] \in {rooms[r].slots[i], NoPeer},
         \A p \in 1..admitted : /\ participant'[p].room = participant[p].room
                                /\ participant'[p].order = participant[p].order
                                /\ participant'[p].conn = participant[p].conn,
         \A r \in RoomObjs : \A p \in Occupants(rooms[r]) :
           participant[p].conn # c => p \in Occupants(rooms'[r]),
         \A d \in Conns : /\ session'[d].peer = session[d].peer
                          /\ session'[d].roomId = session[d].roomId,
         \A d \in Conns \ {c} : work'[d] = work[d] /\ session'[d] = session[d],
         HandlerOK(c)'
  PROVE  SlotsOK' /\ ParticipantsOK' /\ SessionsOK' /\ WorkOK'
<1>1. SlotsOK'
  <2> SUFFICES ASSUME NEW r \in RoomObjs, NEW i \in Slots, rooms'[r].slots[i] # NoPeer
               PROVE  /\ rooms'[r].slots[i] \in 1..admitted
                      /\ participant'[rooms'[r].slots[i]].room = r
                      /\ participant'[rooms'[r].slots[i]].order = i
    BY DEF SlotsOK
  <2>1. rooms'[r].slots[i] = rooms[r].slots[i]
    OBVIOUS
  <2> QED
    BY <2>1 DEF IInv, SlotsOK
<1>2. ParticipantsOK' /\ SessionsOK'
  BY DEF IInv, ParticipantsOK, SessionsOK, Joined
<1>3. \A d \in Conns \ {c} : HandlerOK(d)'
  <2> TAKE d \in Conns \ {c}
  <2>1. \A r \in RoomObjs : \A p \in Occupants(rooms[r]) :
          participant[p].conn = d => p \in Occupants(rooms'[r])
    OBVIOUS
  <2> QED
    BY <2>1, OthersKept
<1> QED
  BY <1>1, <1>2, <1>3 DEF WorkOK

LEMMA MediaReadyStep ==
  ASSUME IInv, NEW c \in Conns, MediaReady(c)
  PROVE  IInv'
<1> DEFINE p == session[c].peer
<1>1. /\ Joined(c) /\ p \in 1..admitted /\ participant[p].media = "pending-media"
      /\ session[c] \in Session /\ participant[p].conn = c
      /\ session[c].roomId \in RoomIds
      /\ UNCHANGED <<registry, created, admitted, session, out>>
  BY DEF MediaReady, IInv, SessionsOK, TypeOK
<1>2. PICK r \in RoomObjs :
        LET starts == StartsPairing(r, p)
        IN /\ Within(c, r)
           /\ participant' =
                [q \in Peers |->
                   [participant[q] EXCEPT
                      !.media = IF q = p THEN "ready" ELSE @,
                      !.phase = IF starts /\ q \in Occupants(rooms[r])
                                THEN "role-assigned" ELSE @]]
           /\ rooms' = [rooms EXCEPT ![r].rolesAssigned = @ \/ starts]
           /\ work' = [work EXCEPT ![c] =
                [Handler("announce", r, session[c].roomId, p, "none") EXCEPT
                   !.pair = IF starts THEN InSlotOrder(rooms[r]) ELSE <<>>]]
  BY DEF MediaReady
<1> DEFINE b == StartsPairing(r, p)
<1>3. b \in BOOLEAN
  BY DEF StartsPairing
<1>4. /\ p \in Occupants(rooms[r]) /\ rooms[r] \in Room /\ p \in Peers
      /\ Occupants(rooms[r]) \subseteq 1..admitted /\ 1..admitted \subseteq Peers
      /\ \A x \in RoomObjs : Occupants(rooms[x]) \subseteq 1..admitted
      /\ \A x \in RoomObjs \ {r} : Occupants(rooms[x]) \cap Occupants(rooms[r]) = {}
  <2>1. \A x \in RoomObjs : Occupants(rooms[x]) \subseteq 1..admitted
                            /\ \A q \in Occupants(rooms[x]) : participant[q].room = x
    BY OccupantsAdmitted
  <2>2. p \in Occupants(rooms[r])
    BY <1>2 DEF Within
  <2>3. rooms[r] \in Room /\ 1..admitted \subseteq Peers
    BY MaxPeersAssumption DEF IInv, TypeOK, Peers
  <2>4. \A x \in RoomObjs \ {r} : Occupants(rooms[x]) \cap Occupants(rooms[r]) = {}
    BY <2>1
  <2> QED
    BY <1>1, <2>1, <2>2, <2>3, <2>4
<1> DEFINE media(q) == IF q = p THEN "ready" ELSE participant[q].media
           phase(q) == IF b /\ q \in Occupants(rooms[r])
                       THEN "role-assigned" ELSE participant[q].phase
<1>5. /\ participant' = [q \in Peers |-> [participant[q] EXCEPT !.media = media(q),
                                                                !.phase = phase(q)]]
      /\ rooms' = [rooms EXCEPT ![r].rolesAssigned = @ \/ b]
      /\ work' = [work EXCEPT ![c] =
           [Handler("announce", r, session[c].roomId, p, "none") EXCEPT
              !.pair = IF b THEN InSlotOrder(rooms[r]) ELSE <<>>]]
  BY <1>2 DEF IInv, TypeOK
<1>6. \A q \in Peers : /\ participant[q] \in Participant
                       /\ media(q) \in {"pending-media", "ready"}
                       /\ phase(q) \in {"idle", "role-assigned", "negotiating"}
  BY DEF IInv, TypeOK, Participant
<1>7. b => /\ IsFull(rooms[r])
           /\ \A q \in Occupants(rooms[r]) : q # p => participant[q].media = "ready"
  BY DEF StartsPairing
<1>8. ~ b => rooms[r].rolesAssigned \/ ~ IsFull(rooms[r])
               \/ \E q \in Occupants(rooms[r]) \ {p} : participant[q].media # "ready"
  BY DEF StartsPairing
<1>9. ~ rooms[r].rolesAssigned
  BY <1>1, <1>4 DEF IInv, RolesAssignedIffPaired
<1> HIDE DEF b
<1>10. /\ participant' \in [Peers -> Participant]
       /\ \A q \in Peers : /\ participant'[q].room = participant[q].room
                           /\ participant'[q].order = participant[q].order
                           /\ participant'[q].conn = participant[q].conn
                           /\ participant'[q].media = media(q)
                           /\ participant'[q].phase = phase(q)
  <2> HIDE DEF media, phase
  <2> QED
    BY <1>5, <1>6 DEF Participant
<1>11. /\ rooms' \in [RoomObjs -> Room]
       /\ \A x \in RoomObjs : rooms'[x].slots = rooms[x].slots
       /\ \A x \in RoomObjs \ {r} : rooms'[x] = rooms[x]
  <2>1. (rooms[r].rolesAssigned \/ b) \in BOOLEAN
    OBVIOUS
  <2> QED
    BY <1>4, <1>5, <2>1 DEF IInv, TypeOK, Room
<1>12. rooms'[r].rolesAssigned <=> b
  <2>1. rooms \in [RoomObjs -> Room] /\ rooms[r] \in Room
    BY DEF IInv, TypeOK
  <2>2. rooms'[r] = [rooms[r] EXCEPT !.rolesAssigned = @ \/ b]
    BY <1>5, <2>1
  <2>3. rooms'[r].rolesAssigned = (rooms[r].rolesAssigned \/ b)
    BY <2>1, <2>2 DEF Room
  <2> QED
    BY <1>9, <2>3
<1>13. \A x \in RoomObjs : Occupants(rooms'[x]) = Occupants(rooms[x])
                           /\ (IsFull(rooms'[x]) <=> IsFull(rooms[x]))
  BY <1>11 DEF Occupants, IsFull, FreeSlots
<1> DEFINE v == [Handler("announce", r, session[c].roomId, p, "none") EXCEPT
                   !.pair = IF b THEN InSlotOrder(rooms[r]) ELSE <<>>]
<1>14. b => LET s == rooms[r].slots
            IN /\ InSlotOrder(rooms[r]) = <<s[1], s[2]>>
               /\ s[1] \in 1..admitted /\ participant[s[1]].order = 1
               /\ s[2] \in 1..admitted /\ participant[s[2]].order = 2
  <2> SUFFICES ASSUME b  PROVE <1>14!2
    OBVIOUS
  <2>1. /\ InSlotOrder(rooms[r]) = <<rooms[r].slots[1], rooms[r].slots[2]>>
        /\ rooms[r].slots[1] \in Occupants(rooms[r])
        /\ rooms[r].slots[2] \in Occupants(rooms[r])
    BY <1>4, <1>7, SlotOrder
  <2>2. rooms[r].slots[1] # NoPeer /\ rooms[r].slots[2] # NoPeer /\ 1 \in Slots /\ 2 \in Slots
    BY <2>1 DEF Occupants, Slots
  <2> QED
    BY <2>1, <2>2, <1>4 DEF IInv, SlotsOK
<1>15. /\ v \in Work /\ v.at = "announce" /\ v.room = r /\ v.subject = p
       /\ v.roomId = session[c].roomId
       /\ v.pair = IF b THEN InSlotOrder(rooms[r]) ELSE <<>>
  <2>1. (IF b THEN InSlotOrder(rooms[r]) ELSE <<>>) \in {<<>>} \cup (Peers \X Peers)
    BY <1>4, <1>14
  <2> DEFINE pr == IF b THEN InSlotOrder(rooms[r]) ELSE <<>>
             h  == Handler("announce", r, session[c].roomId, p, "none")
  <2>2. /\ h \in Work /\ h.at = "announce" /\ h.room = r /\ h.subject = p
        /\ h.roomId = session[c].roomId
    BY <1>1, <1>4 DEF Handler, Work, Steps, Causes, Session
  <2>3. v = [h EXCEPT !.pair = pr]
    OBVIOUS
  <2> HIDE DEF pr, h, v
  <2>4. /\ v \in Work /\ v.at = h.at /\ v.room = h.room /\ v.subject = h.subject
        /\ v.roomId = h.roomId /\ v.pair = pr
    <3>1. pr \in {<<>>} \cup (Peers \X Peers)
      BY <2>1 DEF pr
    <3> QED
      BY <2>2, <2>3, <3>1 DEF Work
  <2> QED
    BY <2>2, <2>4 DEF pr
<1>16. work' = [work EXCEPT ![c] = v]
  BY <1>5
<1> HIDE DEF v
<1>17. work' \in [Conns -> Work] /\ work'[c] = v /\ \A d \in Conns \ {c} : work'[d] = work[d]
  BY <1>15, <1>16 DEF IInv, TypeOK
<1>18. HandlerOK(c)'
  <2>1. p \in Occupants(rooms'[r]) /\ participant'[p].conn = c
    BY <1>1, <1>4, <1>10, <1>13
  <2>2. v.pair # <<>> => /\ v.pair \in (1..admitted') \X (1..admitted')
                         /\ participant'[v.pair[1]].order = 1
                         /\ participant'[v.pair[2]].order = 2
    BY <1>1, <1>4, <1>10, <1>14, <1>15
  <2> QED
    BY <1>1, <1>15, <1>17, <2>1, <2>2 DEF HandlerOK, Occupants
<1>19. SlotsOK' /\ ParticipantsOK' /\ SessionsOK' /\ WorkOK'
  <2>1. /\ \A q \in 1..admitted : /\ participant'[q].room = participant[q].room
                                  /\ participant'[q].order = participant[q].order
                                  /\ participant'[q].conn = participant[q].conn
        /\ \A x \in RoomObjs, i \in Slots : rooms'[x].slots[i] \in {rooms[x].slots[i], NoPeer}
    BY <1>4, <1>10, <1>11
  <2> QED
    BY <1>1, <1>13, <1>17, <1>18, <2>1, SlotsStep
<1>20. OutType' /\ RolesTold'
  BY <1>1, <1>4, <1>10, OutKept
<1>21. RolesAssignedIffPaired'
  <2> SUFFICES ASSUME NEW x \in RoomObjs
               PROVE  /\ rooms'[x].rolesAssigned <=>
                           /\ IsFull(rooms'[x])
                           /\ \A q \in Occupants(rooms'[x]) :
                                participant'[q].media = "ready"
                      /\ rooms'[x].rolesAssigned =>
                           \A q \in Occupants(rooms'[x]) :
                             participant'[q].phase \in {"role-assigned", "negotiating"}
    BY DEF RolesAssignedIffPaired, InCall, IsFull, FreeSlots, Occupants
  <2>1. CASE x = r
    BY <1>4, <1>7, <1>8, <1>9, <1>10, <1>12, <1>13, <2>1
  <2>2. CASE x # r
    <3>1. \A q \in Occupants(rooms[x]) : q \in Peers /\ q # p
                                         /\ q \notin Occupants(rooms[r])
      BY <1>4, <2>2
    <3>2. \A q \in Occupants(rooms[x]) : /\ participant'[q].media = participant[q].media
                                         /\ participant'[q].phase = participant[q].phase
      BY <1>10, <3>1
    <3>3. rooms'[x] = rooms[x]
      BY <1>11, <2>2
    <3> QED
      BY <3>2, <3>3 DEF IInv, RolesAssignedIffPaired, InCall
  <2> QED
    BY <2>1, <2>2
<1>22. TypeOK'
  <2>1. \A d \in Conns : \A j \in DOMAIN out[d] : out[d][j] \in Delivery
    BY DEF IInv, TypeOK
  <2> QED
    BY <1>1, <1>10, <1>11, <1>17, <2>1 DEF IInv, TypeOK
<1> QED
  BY <1>19, <1>20, <1>21, <1>22 DEF IInv


\* What is relayed goes on to the other occupant; its sender stays in the call.
LEMMA RelayStep ==
  ASSUME IInv, NEW c \in Conns, NEW type \in Relayed, Relay(c, type)
  PROVE  IInv'
<1> DEFINE p == session[c].peer
           msg == [type |-> type, from |-> p]
           ph == IF type \in {"offer", "answer"} THEN "negotiating" ELSE participant[p].phase
<1>1. /\ p \in 1..admitted /\ 1..admitted \subseteq Peers
      /\ UNCHANGED <<registry, created, rooms, admitted, session, work>>
  BY MaxPeersAssumption DEF Relay, IInv, SessionsOK, TypeOK, Peers
<1>2. PICK r \in RoomObjs : \E q \in Occupants(rooms[r]) \ {p} :
        /\ CanSend(type, r, p)
        /\ out' = [out EXCEPT ![c] = FanOut(<<q>>, msg)]
  BY DEF Relay
<1> PICK q \in Occupants(rooms[r]) \ {p} :
      /\ CanSend(type, r, p)
      /\ out' = [out EXCEPT ![c] = FanOut(<<q>>, msg)]
  BY <1>2
<1>3. participant' = [participant EXCEPT ![p].phase = ph]
  BY <1>1 DEF Relay, IInv, TypeOK
<1>4. InCall(p)
  BY <1>2 DEF CanSend, InCall
<1>5. ph \in {"role-assigned", "negotiating"}
  BY <1>4 DEF InCall
<1>6. msg \in Message /\ msg.type # "ready_for_offer"
  BY <1>1 DEF Message, Relayed
<1> HIDE DEF ph, msg
<1>7. /\ participant' \in [Peers -> Participant]
      /\ \A x \in Peers : /\ participant'[x].room = participant[x].room
                          /\ participant'[x].order = participant[x].order
                          /\ participant'[x].conn = participant[x].conn
                          /\ participant'[x].media = participant[x].media
                          /\ x # p => participant'[x].phase = participant[x].phase
      /\ participant'[p].phase = ph
  <2>1. participant \in [Peers -> Participant] /\ p \in Peers
    BY <1>1 DEF IInv, TypeOK
  <2> HIDE DEF p
  <2>2. /\ participant'[p] = [participant[p] EXCEPT !.phase = ph]
        /\ \A x \in Peers \ {p} : participant'[x] = participant[x]
    BY <1>3, <2>1
  <2>3. [participant[p] EXCEPT !.phase = ph] \in Participant
    BY <1>5, <2>1 DEF Participant
  <2>4. participant' \in [Peers -> Participant]
    BY <1>3, <2>1, <2>3
  <2>5. participant[p] \in Participant
    BY <2>1
  <2>6. /\ participant'[p].room = participant[p].room
        /\ participant'[p].order = participant[p].order
        /\ participant'[p].conn = participant[p].conn
        /\ participant'[p].media = participant[p].media
        /\ participant'[p].phase = ph
    BY <2>2, <2>5 DEF Participant
  <2> QED
    BY <2>1, <2>2, <2>4, <2>6
<1>8. OutType' /\ RolesTold'
  <2> DEFINE ds == FanOut(<<q>>, msg)
  <2>1. q \in 1..admitted
    BY OccupantsAdmitted
  <2>2. <<q>> \in Seq(1..admitted)
    BY <2>1
  <2>3. /\ ds \in Seq(Delivery)
        /\ \A i \in 1..Len(ds) : ToldRight(ds[i].msg)
    BY <1>6, <2>2, FanOutWrite
  <2>4. out' = [out EXCEPT ![c] = ds]
    BY <1>2
  <2> HIDE DEF ds
  <2> QED
    BY <1>1, <1>7, <2>3, <2>4, OutWrite
<1>9. SlotsOK' /\ ParticipantsOK' /\ SessionsOK' /\ WorkOK'
  <2>1. HandlerOK(c)
    BY DEF IInv, WorkOK
  <2>2. work[c].at = "read" /\ work'[c] = work[c]
    BY <1>1 DEF Relay, At
  <2>3. HandlerOK(c)'
    <3>1. work[c].pair # <<>> =>
            /\ work[c].pair \in (1..admitted) \X (1..admitted)
            /\ participant'[work[c].pair[1]].order = 1
            /\ participant'[work[c].pair[2]].order = 2
      BY <1>1, <1>7, <2>1 DEF HandlerOK
    <3> QED
      BY <1>1, <2>2, <3>1 DEF HandlerOK
  <2>4. /\ \A x \in RoomObjs, i \in Slots : rooms'[x].slots[i] \in {rooms[x].slots[i], NoPeer}
        /\ \A x \in RoomObjs : Occupants(rooms'[x]) = Occupants(rooms[x])
    BY <1>1 DEF Occupants
  <2>5. \A x \in 1..admitted : /\ participant'[x].room = participant[x].room
                               /\ participant'[x].order = participant[x].order
                               /\ participant'[x].conn = participant[x].conn
    BY <1>1, <1>7
  <2> QED
    BY <1>1, <2>3, <2>4, <2>5, SlotsStep
<1>10. RolesAssignedIffPaired'
  <2> SUFFICES ASSUME NEW x \in RoomObjs
               PROVE  /\ rooms[x].rolesAssigned <=>
                           /\ IsFull(rooms[x])
                           /\ \A y \in Occupants(rooms[x]) :
                                participant'[y].media = "ready"
                      /\ rooms[x].rolesAssigned =>
                           \A y \in Occupants(rooms[x]) :
                             participant'[y].phase \in {"role-assigned", "negotiating"}
    BY <1>1 DEF RolesAssignedIffPaired, InCall, IsFull, FreeSlots, Occupants
  <2>1. Occupants(rooms[x]) \subseteq Peers
    BY <1>1, OccupantsAdmitted
  <2>2. \A y \in Occupants(rooms[x]) :
          /\ participant'[y].media = participant[y].media
          /\ InCall(y) => participant'[y].phase \in {"role-assigned", "negotiating"}
    BY <1>5, <1>7, <2>1 DEF InCall
  <2> QED
    BY <2>2 DEF IInv, RolesAssignedIffPaired
<1>11. TypeOK'
  <2>1. \A d \in Conns : \A j \in DOMAIN out'[d] : out'[d][j] \in Delivery
    BY <1>8, LenProperties, ElementOfSeq DEF OutType
  <2> QED
    BY <1>1, <1>7, <2>1 DEF IInv, TypeOK
<1> QED
  BY <1>8, <1>9, <1>10, <1>11 DEF IInv

LEMMA FarewellTold ==
  ASSUME IInv, NEW peers \in Seq(1..admitted), NEW p \in Peers, NEW b \in BOOLEAN
  PROVE  /\ Farewell(peers, p, b) \in Seq(Delivery)
         /\ \A i \in 1..Len(Farewell(peers, p, b)) : ToldRight(Farewell(peers, p, b)[i].msg)
<1> DEFINE m1 == [type |-> "peer_presence_changed", subject |-> p,
                  presence |-> IF b THEN "left" ELSE "released"]
           m2 == [type |-> "peer_left", peer |-> p]
           s == FanOut(peers, m1)
           t == IF b THEN FanOut(peers, m2) ELSE <<>>
<1>1. /\ m1 \in Message /\ m1.type # "ready_for_offer"
      /\ m2 \in Message /\ m2.type # "ready_for_offer"
  BY DEF Message
<1>2. Farewell(peers, p, b) = s \o t
  BY DEF Farewell
<1> HIDE DEF m1, m2
<1>3. s \in Seq(Delivery) /\ \A i \in 1..Len(s) : ToldRight(s[i].msg)
  BY <1>1, FanOutWrite
<1>4. t \in Seq(Delivery) /\ \A i \in 1..Len(t) : ToldRight(t[i].msg)
  <2>1. CASE b
    BY <1>1, <2>1, FanOutWrite
  <2>2. CASE ~ b
    BY <2>2
  <2> QED
    BY <2>1, <2>2
<1> HIDE DEF s, t
<1> QED
  BY <1>2, <1>3, <1>4, ConcatTold

\* RoomManager.Release takes the participant out of its room, which is not
\* paired any more.
LEMMA ReleaseStep ==
  ASSUME IInv, NEW c \in Conns, Release(c)
  PROVE  IInv'
<1> DEFINE w == work[c]
           r == RoomNamed(w.roomId)
           p == w.subject
<1>1. /\ w \in Work /\ w.at = "release" /\ HandlerOK(c) /\ Joined(c)
      /\ p = session[c].peer /\ w.roomId = session[c].roomId
      /\ p \in 1..admitted /\ participant[p].conn = c /\ w.roomId \in RoomIds
      /\ work \in [Conns -> Work]
      /\ UNCHANGED <<registry, created, admitted, participant>>
  BY DEF Release, At, IInv, TypeOK, WorkOK, HandlerOK, SessionsOK
<1>2. /\ session' \in [Conns -> Session]
      /\ \A d \in Conns \ {c} : session'[d] = session[d]
      /\ \A d \in Conns : session'[d].peer = session[d].peer
                          /\ session'[d].roomId = session[d].roomId
  BY DEF Release, Session, IInv, TypeOK
<1>3. r \in RoomObjs \cup {NoRoom} /\ p \in Peers
  BY <1>1, MaxPeersAssumption DEF RoomNamed, IInv, TypeOK, Peers
<1>4. \E at \in {"gc", "finish"}, x \in RoomObjs \cup {NoRoom} :
        /\ work' = [work EXCEPT ![c] = [w EXCEPT !.at = at, !.room = x]]
        /\ at = "gc" => x \in RoomObjs
  <2>1. w = [w EXCEPT !.room = w.room] /\ w.room \in RoomObjs \cup {NoRoom}
    BY <1>1 DEF Work
  <2>2. [w EXCEPT !.at = "finish"] = [w EXCEPT !.at = "finish", !.room = w.room]
    BY <1>1 DEF Work
  <2>3. CASE r = NoRoom
    <3>1. work' = [work EXCEPT ![c] = [w EXCEPT !.at = "finish", !.room = w.room]]
      BY <2>2, <2>3 DEF Release
    <3> QED
      BY <2>1, <3>1
  <2>4. CASE r # NoRoom
    BY <1>3, <2>4 DEF Release, NextAfterRelease
  <2> QED
    BY <2>3, <2>4
<1>5. PICK at \in {"gc", "finish"}, x \in RoomObjs \cup {NoRoom} :
        /\ work' = [work EXCEPT ![c] = [w EXCEPT !.at = at, !.room = x]]
        /\ at = "gc" => x \in RoomObjs
  BY <1>4
<1> DEFINE v == [w EXCEPT !.at = at, !.room = x]
<1>6. /\ v \in Work /\ v.at = at /\ v.room = x /\ v.roomId = w.roomId /\ v.pair = w.pair
  BY <1>1 DEF Work, Steps
<1> HIDE DEF v
<1>7. work' \in [Conns -> Work] /\ work'[c] = v /\ \A d \in Conns \ {c} : work'[d] = work[d]
  BY <1>1, <1>5, <1>6 DEF v
<1>8. HandlerOK(c)'
  BY <1>1, <1>5, <1>6, <1>7 DEF HandlerOK
<1>9. CASE rooms' = rooms /\ out' = out
  <2>1. OutType' /\ RolesTold'
    BY <1>1, <1>9, OutKept
  <2> QED
    BY <1>1, <1>2, <1>7, <1>8, <1>9, <2>1, StillStep DEF IInv, TypeOK
<1>10. CASE /\ r # NoRoom /\ p \in Occupants(rooms[r])
            /\ rooms' = [rooms EXCEPT ![r] = Remove(@, p)]
            /\ out' = [out EXCEPT ![c] = Farewell(InSlotOrder(Remove(rooms[r], p)), p, w.inCall)]
  <2> DEFINE rm == Remove(rooms[r], p)
  <2>1. r \in RoomObjs /\ rooms[r] \in Room
    BY <1>3, <1>10 DEF IInv, TypeOK
  <2>2. /\ rm \in Room /\ Occupants(rm) = Occupants(rooms[r]) \ {p}
        /\ \A i \in Slots : rm.slots[i] \in {rooms[r].slots[i], NoPeer} \ {p}
    BY <1>3, <2>1, RoomFacts
  <2>3. ~ rm.rolesAssigned /\ ~ IsFull(rm)
    <3>1. ~ rm.rolesAssigned
      BY DEF Remove
    <3>2. PICK i \in Slots : rooms[r].slots[i] = p
      BY <1>10 DEF Occupants
    <3>3. rm.slots[i] = NoPeer
      BY <2>2, <3>2
    <3> QED
      BY <3>1, <3>3 DEF IsFull, FreeSlots
  <2>4. Occupants(rooms[r]) \subseteq 1..admitted
    BY <2>1, OccupantsAdmitted
  <2>5. InSlotOrder(rm) \in Seq(1..admitted)
    <3>1. InSlotOrder(rm) \in Seq(Occupants(rm))
      BY <2>2, SlotOrder
    <3> QED
      BY <2>2, <2>4, <3>1, SeqMonotonic
  <2>6. rooms' = [rooms EXCEPT ![r] = rm]
    BY <1>10, <2>1 DEF IInv, TypeOK
  <2> HIDE DEF rm
  <2>7. /\ rooms' \in [RoomObjs -> Room] /\ rooms'[r] = rm
        /\ \A y \in RoomObjs \ {r} : rooms'[y] = rooms[y]
    BY <2>1, <2>2, <2>6 DEF IInv, TypeOK
  <2>8. OutType' /\ RolesTold'
    <3> DEFINE ds == Farewell(InSlotOrder(rm), p, w.inCall)
    <3>1. w.inCall \in BOOLEAN
      BY <1>1 DEF Work
    <3>2. ds \in Seq(Delivery) /\ \A i \in 1..Len(ds) : ToldRight(ds[i].msg)
      BY <1>3, <2>5, <3>1, FarewellTold
    <3>3. out' = [out EXCEPT ![c] = ds]
      BY <1>10 DEF rm
    <3> HIDE DEF ds
    <3> QED
      BY <1>1, <3>2, <3>3, OutWrite
  <2>9. SlotsOK' /\ ParticipantsOK' /\ SessionsOK' /\ WorkOK'
    <3>1. \A y \in RoomObjs, i \in Slots : rooms'[y].slots[i] \in {rooms[y].slots[i], NoPeer}
      BY <2>2, <2>7
    <3>2. \A y \in RoomObjs : \A q \in Occupants(rooms[y]) :
            participant[q].conn # c => q \in Occupants(rooms'[y])
      BY <1>1, <2>2, <2>7
    <3> QED
      BY <1>1, <1>2, <1>7, <1>8, <3>1, <3>2, SlotsStep
  <2>10. RolesAssignedIffPaired'
    <3> SUFFICES ASSUME NEW y \in RoomObjs
                 PROVE  /\ rooms'[y].rolesAssigned <=>
                             /\ IsFull(rooms'[y])
                             /\ \A q \in Occupants(rooms'[y]) :
                                  participant'[q].media = "ready"
                        /\ rooms'[y].rolesAssigned =>
                             \A q \in Occupants(rooms'[y]) :
                               participant'[q].phase \in {"role-assigned", "negotiating"}
      BY DEF RolesAssignedIffPaired, InCall, IsFull, FreeSlots, Occupants
    <3> QED
      BY <1>1, <2>3, <2>7 DEF IInv, RolesAssignedIffPaired, InCall
  <2>11. TypeOK'
    <3>1. \A d \in Conns : \A j \in DOMAIN out'[d] : out'[d][j] \in Delivery
      BY <2>8, LenProperties, ElementOfSeq DEF OutType
    <3> QED
      BY <1>1, <1>2, <1>7, <2>7, <3>1 DEF IInv, TypeOK
  <2> QED
    BY <2>8, <2>9, <2>10, <2>11 DEF IInv
<1> QED
  BY <1>9, <1>10 DEF Release


LEMMA StutterStep == ASSUME IInv, UNCHANGED vars PROVE IInv'
<1>1. TypeOK' /\ OutType' /\ RolesTold' /\ RolesAssignedIffPaired'
  BY DEF vars, IInv, TypeOK, OutType, RolesTold, ToldRight, RolesAssignedIffPaired,
         IsFull, FreeSlots, Occupants, InCall
<1>2. SlotsOK' /\ ParticipantsOK' /\ SessionsOK' /\ WorkOK'
  BY DEF vars, IInv, SlotsOK, ParticipantsOK, SessionsOK, WorkOK, HandlerOK, Joined,
         Occupants
<1> QED
  BY <1>1, <1>2 DEF IInv

LEMMA NextStep == IInv /\ [Next]_vars => IInv'
<1> SUFFICES ASSUME IInv, [Next]_vars PROVE IInv'
  OBVIOUS
<1>1. CASE UNCHANGED vars
  BY <1>1, StutterStep
<1>2. ASSUME NEW c \in Conns, Continue(c) PROVE IInv'
  BY <1>2, SendStep, JoinRejectedStep, JoinAcceptedStep, AcceptStep, AnnounceStep,
     SendRolesStep, ClassifyStep, ReleaseStep, CollectRoomStep, FinishStep
  DEF Continue
<1>3. ASSUME NEW c \in Conns, Read(c) PROVE IInv'
  <2>1. CASE \E rid \in RoomIds : JoinExisting(c, rid) \/ JoinCreating(c, rid)
    BY <2>1, JoinStep
  <2>2. CASE MediaReady(c)
    BY <2>2, MediaReadyStep
  <2>3. CASE MediaFailed(c)
    BY <2>3, MediaFailedStep
  <2>4. CASE LeaveRoom(c) \/ Disconnect(c)
    BY <2>4, DepartureStep
  <2>5. CASE \E type \in Relayed : Relay(c, type)
    BY <2>5, RelayStep
  <2>6. CASE Refuse(c)
    BY <2>6, RefuseStep
  <2> QED
    BY <1>3, <2>1, <2>2, <2>3, <2>4, <2>5, <2>6 DEF Read
<1> QED
  BY <1>1, <1>2, <1>3 DEF Next

\* The inductive invariant.
THEOREM Inductive == Spec => []IInv
<1> QED
  BY InitStep, NextStep, PTL DEF Spec

\* Type correctness, for every set of connections and every number of
\* admissions.
THEOREM TypeCorrect == Spec => []TypeOK
<1>1. IInv => TypeOK
  BY DEF IInv
<1> QED
  BY <1>1, Inductive, PTL

\* 001 data-model A.2: the pairing flag is up just while both occupants are
\* ready, so ready_for_offer is sent once per pairing and none is missed.
THEOREM Pairing == Spec => []RolesAssignedIffPaired
<1>1. IInv => RolesAssignedIffPaired
  BY DEF IInv
<1> QED
  BY <1>1, Inductive, PTL

\* The role told after the lock is released is the one the relays enforce.
THEOREM ToldRole == Spec => []ToldRoleIsEnforced
<1>1. ASSUME IInv PROVE ToldRoleIsEnforced
  <2> SUFFICES ASSUME NEW c \in Conns, NEW i \in DOMAIN out[c],
                      out[c][i].msg.type = "ready_for_offer",
                      NEW p \in Occupants(rooms[participant[out[c][i].msg.remote].room])
                                  \ {out[c][i].msg.remote},
                      out[c][i].msg.remote
                        \in Occupants(rooms[participant[out[c][i].msg.remote].room])
               PROVE  AssignedRole(participant[out[c][i].msg.remote].room, p)
                        = out[c][i].msg.role
    BY DEF ToldRoleIsEnforced
  <2> DEFINE q == out[c][i].msg.remote
             r == participant[q].room
             role == out[c][i].msg.role
  <2>1. /\ q \in 1..admitted
        /\ role = IF participant[q].order = 1 THEN "answerer" ELSE "offerer"
    <3>1. i \in 1..Len(out[c])
      BY <1>1, LenProperties DEF IInv, OutType
    <3> QED
      BY <1>1, <3>1 DEF IInv, RolesTold, ToldRight
  <2>2. r \in RoomObjs /\ q \in Occupants(rooms[r]) /\ p \in Occupants(rooms[r]) /\ p # q
    BY <1>1, <2>1 DEF IInv, ParticipantsOK
  <2> HIDE DEF q, r, role
  <2>3. \A x \in Occupants(rooms[r]) :
          \E j \in Slots : rooms[r].slots[j] = x /\ participant[x].order = j
    <3> TAKE x \in Occupants(rooms[r])
    <3>1. PICK j \in Slots : rooms[r].slots[j] = x /\ x # NoPeer
      BY DEF Occupants
    <3>2. participant[x].order = j
      BY <1>1, <2>2, <3>1 DEF IInv, SlotsOK
    <3> QED
      BY <3>1, <3>2
  <2>4. \/ participant[q].order = 1 /\ participant[p].order = 2
        \/ participant[q].order = 2 /\ participant[p].order = 1
    BY <2>2, <2>3 DEF Slots
  <2>5. \A x \in Occupants(rooms[r]) : participant[x].order \in 1..2
    BY <2>3 DEF Slots
  <2>6. AssignedRole(r, p) = role
    BY <2>1, <2>2, <2>4, <2>5 DEF AssignedRole
  <2> QED
    BY <2>6 DEF q, r, role
<1> QED
  BY <1>1, Inductive, PTL

\* EC-013: the phase goes back to role-assigned in one place, where the flag
\* of the room goes up.
LEMMA NewOffers ==
  ASSUME IInv, [Next]_vars, NEW p \in Peers,
         participant[p].phase = "negotiating", participant'[p].phase = "role-assigned"
  PROVE  LET r == participant[p].room
         IN ~ rooms[r].rolesAssigned /\ rooms'[r].rolesAssigned
<1>1. participant' # participant
  OBVIOUS
<1>2. PICK c \in Conns :
        JoinAccepted(c) \/ MediaReady(c) \/ \E type \in Relayed : Relay(c, type)
  BY <1>1 DEF Next, vars, Continue, Read, Send, JoinRejected, Accept, Announce,
              SendRoles, Classify, Release, CollectRoom, Finish, JoinExisting,
              JoinCreating, MediaFailed, LeaveRoom, Disconnect, Refuse
<1>3. participant \in [Peers -> Participant]
  BY DEF IInv, TypeOK
<1>4. CASE JoinAccepted(c)
  <2>1. participant'[p] = participant[p] \/ participant'[p].phase = "idle"
    BY <1>3, <1>4 DEF JoinAccepted
  <2> QED
    BY <2>1
<1>5. CASE \E type \in Relayed : Relay(c, type)
  <2>1. participant'[p].phase \in {participant[p].phase, "negotiating"}
    BY <1>3, <1>5 DEF Relay, Participant
  <2> QED
    BY <2>1
<1>6. CASE MediaReady(c)
  <2> DEFINE s == session[c].peer
  <2>1. PICK x \in RoomObjs :
          /\ participant' =
               [q \in Peers |->
                  [participant[q] EXCEPT
                     !.media = IF q = s THEN "ready" ELSE @,
                     !.phase = IF StartsPairing(x, s) /\ q \in Occupants(rooms[x])
                               THEN "role-assigned" ELSE @]]
          /\ rooms' = [rooms EXCEPT ![x].rolesAssigned = @ \/ StartsPairing(x, s)]
    BY <1>6 DEF MediaReady
  <2>2. StartsPairing(x, s) /\ p \in Occupants(rooms[x])
    BY <1>3, <2>1 DEF Participant
  <2>3. participant[p].room = x /\ rooms[x] \in Room /\ rooms \in [RoomObjs -> Room]
    BY <2>2, OccupantsAdmitted DEF IInv, TypeOK
  <2>4. ~ rooms[x].rolesAssigned
    BY <2>2 DEF StartsPairing
  <2>5. rooms'[x].rolesAssigned
    <3>1. rooms'[x] = [rooms[x] EXCEPT !.rolesAssigned = @ \/ StartsPairing(x, s)]
      BY <2>1, <2>3
    <3> HIDE DEF s
    <3> QED
      BY <2>2, <2>3, <3>1 DEF Room
  <2> QED
    BY <2>3, <2>4, <2>5
<1> QED
  BY <1>2, <1>4, <1>5, <1>6

\* A peer that has offered gets to offer again only by a new pairing.
THEOREM OfferedOnce == Spec => OfferOncePerPairing
<1>1. IInv /\ [Next]_vars =>
        [\A p \in Peers :
           participant[p].phase = "negotiating" /\ participant'[p].phase = "role-assigned"
             => LET r == participant[p].room
                IN ~ rooms[r].rolesAssigned /\ rooms'[r].rolesAssigned]_vars
  BY NewOffers
<1> QED
  BY <1>1, Inductive, PTL DEF Spec, OfferOncePerPairing


-----------------------------------------------------------------------------
(* The registry. *)

\* A connection whose session has released, or that is past its release,
\* speaks for nobody in a registered room; nor does one whose departure finds
\* no room to its name.
LEMMA SpeaksForNobody ==
  ASSUME IInv, RegistryInv, NEW c \in Conns,
         \/ work[c].at \in {"gc", "finish", "closed", "admit"}
         \/ session[c].released /\ work[c].at \notin {"classify", "release"}
         \/ ~ Joined(c) \/ RoomNamed(session[c].roomId) = NoRoom,
         NEW r \in RoomObjs, Registered(r), NEW p \in Occupants(rooms[r])
  PROVE  participant[p].conn # c
<1> SUFFICES ASSUME participant[p].conn = c PROVE FALSE
  OBVIOUS
<1>1. /\ session[c].peer = p /\ RoomNamed(session[c].roomId) = r
      /\ session[c].released => work[c].at \in {"classify", "release"}
  BY DEF RegistryInv, NoGhostParticipants
<1>2. p # NoPeer /\ r # NoRoom
  BY DEF Occupants, RoomObjs, NoRoom
<1> QED
  BY <1>1, <1>2 DEF RegistryInv, LatchOK, Joined

\* No ghost appears where no room gains anybody, the registry changes only
\* for empty rooms, and c keeps its participant in hand or has none.
LEMMA GhostsKept ==
  ASSUME IInv, RegistryInv, NEW c \in Conns,
         \A r \in RoomObjs : Occupants(rooms'[r]) \subseteq Occupants(rooms[r]),
         \A p \in 1..admitted : participant'[p].conn = participant[p].conn,
         \A d \in Conns \ {c} : session'[d] = session[d] /\ work'[d] = work[d],
         \A r \in RoomObjs : Occupants(rooms[r]) # {} =>
           \A rid \in RoomIds : registry'[rid] = r <=> registry[rid] = r,
         \/ /\ session'[c].peer = session[c].peer
            /\ session'[c].roomId = session[c].roomId
            /\ session'[c].released => \/ session[c].released
                                       \/ work'[c].at \in {"classify", "release"}
            /\ work[c].at \in {"classify", "release"} =>
                 work'[c].at \in {"classify", "release"}
            /\ work'[c].at # "closed"
         \/ \A r \in RoomObjs : Registered(r) =>
              \A p \in Occupants(rooms'[r]) : participant[p].conn # c
  PROVE  NoGhostParticipants'
<1> SUFFICES ASSUME NEW r \in RoomObjs, NEW rid \in RoomIds, registry'[rid] = r,
                    NEW p \in Occupants(rooms'[r])
             PROVE  LET d == participant'[p].conn
                    IN /\ session'[d].peer = p
                       /\ session'[d].roomId \in RoomIds
                       /\ registry'[session'[d].roomId] = r
                       /\ session'[d].released => work'[d].at \in {"classify", "release"}
                       /\ work'[d].at # "closed"
  BY DEF NoGhostParticipants, Registered, RoomNamed, Occupants
<1> DEFINE d == participant[p].conn
<1>1. /\ p \in Occupants(rooms[r]) /\ p \in 1..admitted
      /\ participant'[p].conn = d /\ d \in Conns
  BY OccupantsAdmitted DEF IInv, ParticipantsOK
<1>2. registry[rid] = r /\ Registered(r)
  BY <1>1 DEF Registered
<1>3. /\ session[d].peer = p /\ RoomNamed(session[d].roomId) = r
      /\ session[d].released => work[d].at \in {"classify", "release"}
      /\ work[d].at # "closed"
  BY <1>1, <1>2 DEF RegistryInv, NoGhostParticipants
<1>4. session[d].roomId \in RoomIds /\ registry'[session[d].roomId] = r
  BY <1>1, <1>3 DEF RoomNamed, NoRoom, RoomObjs
<1> HIDE DEF d
<1>5. CASE d # c
  BY <1>1, <1>3, <1>4, <1>5
<1>6. CASE d = c
  BY <1>1, <1>2, <1>3, <1>4, <1>6 DEF d
<1> QED
  BY <1>5, <1>6

\* What a step that is quiet about the registry leaves of the invariant: no
\* room gains or loses anybody, and the goroutine that moves stands at
\* neither look, before or after.
LEMMA QuietStep ==
  ASSUME IInv, RegistryInv, NEW c \in Conns,
         UNCHANGED <<registry, created>>,
         \A r \in RoomObjs : Occupants(rooms'[r]) = Occupants(rooms[r]),
         \A p \in 1..admitted : participant'[p].conn = participant[p].conn,
         \A d \in Conns \ {c} : session'[d] = session[d] /\ work'[d] = work[d],
         \/ work'[c] = work[c]
         \/ work[c].at \notin {"admit", "gc"} /\ work'[c].at \notin {"admit", "gc"},
         /\ session'[c].released => work'[c].at \in Departing
         /\ work'[c].at \in {"gc", "finish", "closed"} =>
              session'[c].released \/ ~ Joined(c)'
         /\ work'[c].at = "admit" => ~ Joined(c)',
         \/ /\ session'[c].peer = session[c].peer
            /\ session'[c].roomId = session[c].roomId
            /\ session'[c].released => \/ session[c].released
                                       \/ work'[c].at \in {"classify", "release"}
            /\ work[c].at \in {"classify", "release"} =>
                 work'[c].at \in {"classify", "release"}
            /\ work'[c].at # "closed"
         \/ \A r \in RoomObjs : Registered(r) =>
              \A p \in Occupants(rooms[r]) : participant[p].conn # c
  PROVE  RegistryInv'
<1>1. \A r \in RoomObjs : IsEmpty(rooms'[r]) <=> IsEmpty(rooms[r])
  BY DEF IsEmpty
<1>2. RegistryOK'
  <2>1. \A r \in RoomObjs : r > created' => IsEmpty(rooms'[r])
    BY <1>1 DEF RegistryInv, RegistryOK
  <2> QED
    BY <2>1 DEF RegistryInv, RegistryOK, IsEmpty, Occupants
<1>3. LooksOK'
  BY DEF RegistryInv, LooksOK, Registered
<1>4. LatchOK'
  BY DEF RegistryInv, LatchOK, Joined
<1>5. NoGhostParticipants'
  BY GhostsKept
<1>6. EmptyRoomsAreCollected'
  <2> SUFFICES ASSUME NEW r \in RoomObjs, Registered(r), IsEmpty(rooms'[r])
               PROVE  \E d \in Conns : work'[d].room = r /\ work'[d].at \in {"admit", "gc"}
    BY DEF EmptyRoomsAreCollected, Registered, IsEmpty, Occupants
  <2> QED
    BY <1>1 DEF RegistryInv, EmptyRoomsAreCollected
<1> QED
  BY <1>2, <1>3, <1>4, <1>5, <1>6 DEF RegistryInv

\* The handlers' steps that neither admit, nor release, nor look.
LEMMA QuietHandlerStep ==
  ASSUME IInv, RegistryInv, NEW c \in Conns,
         \/ Send(c) \/ Accept(c) \/ Announce(c) \/ SendRoles(c) \/ Refuse(c)
         \/ MediaReady(c) \/ \E type \in Relayed : Relay(c, type)
         \/ MediaFailed(c) \/ LeaveRoom(c)
  PROVE  RegistryInv'
<1>1. UNCHANGED <<registry, created, session>>
  BY DEF Send, Accept, Announce, SendRoles, Refuse, MediaReady, Relay, MediaFailed,
         LeaveRoom
<1>2. /\ work \in [Conns -> Work] /\ rooms \in [RoomObjs -> Room]
      /\ participant \in [Peers -> Participant] /\ 1..admitted \subseteq Peers
  BY MaxPeersAssumption DEF IInv, TypeOK, Peers
<1>3. \A r \in RoomObjs : Occupants(rooms'[r]) = Occupants(rooms[r])
  <2>1. CASE MediaReady(c)
    <3>0. PICK x \in RoomObjs :
            rooms' = [rooms EXCEPT ![x].rolesAssigned =
                        @ \/ StartsPairing(x, session[c].peer)]
      BY <2>1 DEF MediaReady
    <3>1. \A r \in RoomObjs : rooms'[r].slots = rooms[r].slots
      BY <1>2, <3>0 DEF Room
    <3> QED
      BY <3>1 DEF Occupants
  <2>2. CASE rooms' = rooms
    BY <2>2
  <2> QED
    BY <2>1, <2>2 DEF Send, Accept, Announce, SendRoles, Refuse, Relay, MediaFailed,
                      LeaveRoom
<1>4. \A p \in 1..admitted : participant'[p].conn = participant[p].conn
  <2>1. CASE MediaReady(c)
    <3> DEFINE s == session[c].peer
    <3>1. PICK x \in RoomObjs :
            participant' =
              [q \in Peers |->
                 [participant[q] EXCEPT
                    !.media = IF q = s THEN "ready" ELSE @,
                    !.phase = IF StartsPairing(x, s) /\ q \in Occupants(rooms[x])
                              THEN "role-assigned" ELSE @]]
      BY <2>1 DEF MediaReady
    <3> HIDE DEF s
    <3> QED
      BY <1>2, <3>1 DEF Participant
  <2>2. CASE \E type \in Relayed : Relay(c, type)
    BY <1>2, <2>2 DEF Relay, Participant
  <2>3. CASE participant' = participant
    BY <2>3
  <2> QED
    BY <2>1, <2>2, <2>3 DEF Send, Accept, Announce, SendRoles, Refuse, MediaFailed,
                            LeaveRoom
<1>5. /\ \A d \in Conns \ {c} : work'[d] = work[d]
      /\ \/ work'[c] = work[c]
         \/ /\ work[c].at \in {"read", "accept", "announce", "send_roles"}
            /\ work'[c].at \in {"read", "announce", "send_roles", "classify"}
  <2>1. CASE work' = work
    BY <2>1
  <2>2. CASE Accept(c) \/ Announce(c) \/ SendRoles(c)
    <3>1. /\ work[c].at \in {"accept", "announce", "send_roles"} /\ work[c] \in Work
          /\ \/ work' = [work EXCEPT ![c] = Idle]
             \/ work' = [work EXCEPT ![c].at = "announce"]
             \/ work' = [work EXCEPT ![c] = [@ EXCEPT !.at = "send_roles"]]
      BY <1>2, <2>2 DEF Accept, Announce, SendRoles, At
    <3> QED
      BY <1>2, <3>1 DEF Idle, Handler, Work
  <2>3. CASE MediaFailed(c) \/ LeaveRoom(c)
    BY <1>2, <2>3 DEF MediaFailed, LeaveRoom, At, Handler
  <2>4. CASE MediaReady(c)
    <3>1. \E pr, r : work' = [work EXCEPT ![c] =
            [Handler("announce", r, session[c].roomId, session[c].peer, "none")
               EXCEPT !.pair = pr]]
      BY <2>4 DEF MediaReady
    <3>2. work[c].at = "read"
      BY <2>4 DEF MediaReady, At
    <3> QED
      BY <1>2, <3>1, <3>2 DEF Handler
  <2> QED
    BY <2>1, <2>2, <2>3, <2>4 DEF Send, Refuse, Relay
<1>6. session[c].released => work'[c].at \in Departing
  BY <1>5 DEF RegistryInv, LatchOK, Departing
<1>7. /\ work'[c].at \in {"gc", "finish", "closed"} => session[c].released \/ ~ Joined(c)
      /\ work'[c].at = "admit" => ~ Joined(c)
  BY <1>5 DEF RegistryInv, LatchOK
<1>8. \/ /\ work[c].at \in {"classify", "release"} =>
              work'[c].at \in {"classify", "release"}
         /\ work'[c].at # "closed"
      \/ \A r \in RoomObjs : Registered(r) =>
           \A p \in Occupants(rooms[r]) : participant[p].conn # c
  <2>1. CASE work[c].at = "closed"
    BY <2>1, SpeaksForNobody
  <2>2. CASE work[c].at # "closed"
    BY <1>5, <2>2
  <2> QED
    BY <2>1, <2>2
<1> QED
  BY <1>1, <1>3, <1>4, <1>5, <1>6, <1>7, <1>8, QuietStep DEF Joined


\* The end of a connection claims the latch, or there is nothing to release.
LEMMA DisconnectRegistry ==
  ASSUME IInv, RegistryInv, NEW c \in Conns, Disconnect(c)
  PROVE  RegistryInv'
<1>1. /\ session \in [Conns -> Session] /\ work \in [Conns -> Work]
      /\ work[c].at = "read" /\ ~ session[c].released
      /\ UNCHANGED <<registry, created, rooms, participant>>
  BY DEF Disconnect, At, IInv, TypeOK, RegistryInv, LatchOK, Departing
<1>2. \A r \in RoomObjs : Occupants(rooms'[r]) = Occupants(rooms[r])
  BY <1>1
<1>3. CASE Joined(c)
  <2>1. /\ session'[c].peer = session[c].peer /\ session'[c].roomId = session[c].roomId
        /\ \A d \in Conns \ {c} : session'[d] = session[d]
    BY <1>1, <1>3 DEF Disconnect, Session
  <2>2. work'[c].at = "classify" /\ \A d \in Conns \ {c} : work'[d] = work[d]
    BY <1>1, <1>3 DEF Disconnect, Handler
  <2> QED
    BY <1>1, <1>2, <2>1, <2>2, QuietStep DEF Departing
<1>4. CASE ~ Joined(c)
  <2>1. /\ session' = session /\ work'[c].at = "closed"
        /\ \A d \in Conns \ {c} : work'[d] = work[d]
    BY <1>1, <1>4 DEF Disconnect, Handler
  <2>2. \A r \in RoomObjs : Registered(r) =>
          \A p \in Occupants(rooms[r]) : participant[p].conn # c
    BY <1>4, SpeaksForNobody
  <2> QED
    BY <1>1, <1>2, <1>4, <2>1, <2>2, QuietStep DEF Departing, Joined
<1> QED
  BY <1>3, <1>4

\* A departure without a room to its name leaves nobody behind.
LEMMA ClassifyRegistry ==
  ASSUME IInv, RegistryInv, NEW c \in Conns, Classify(c)
  PROVE  RegistryInv'
<1> DEFINE w == work[c]
           r == RoomNamed(w.roomId)
           b == w.subject \in Occupants(rooms[r]) /\ InCall(w.subject)
<1>1. /\ session \in [Conns -> Session] /\ work \in [Conns -> Work]
      /\ w.at = "classify" /\ w.roomId = session[c].roomId /\ w \in Work
      /\ UNCHANGED <<registry, created, rooms, participant>>
  BY DEF Classify, At, IInv, TypeOK, WorkOK, HandlerOK
<1>2. \A x \in RoomObjs : Occupants(rooms'[x]) = Occupants(rooms[x])
  BY <1>1
<1>3. CASE r # NoRoom
  <2>1. work' = [work EXCEPT ![c] = [w EXCEPT !.at = "release", !.inCall = b]]
        /\ session' = session
    BY <1>3 DEF Classify
  <2> HIDE DEF b
  <2>2. work'[c].at = "release" /\ \A d \in Conns \ {c} : work'[d] = work[d]
    BY <1>1, <2>1 DEF Work
  <2> QED
    BY <1>1, <1>2, <2>1, <2>2, QuietStep DEF Departing
<1>4. CASE r = NoRoom
  <2>1. /\ work' = [work EXCEPT ![c] = [w EXCEPT !.at = "finish"]]
        /\ session' = [session EXCEPT ![c].released = TRUE]
    BY <1>4 DEF Classify
  <2>2. /\ work'[c].at = "finish" /\ \A d \in Conns \ {c} : work'[d] = work[d]
        /\ session'[c].released /\ \A d \in Conns \ {c} : session'[d] = session[d]
    BY <1>1, <2>1 DEF Work, Session
  <2>3. \A x \in RoomObjs : Registered(x) =>
          \A p \in Occupants(rooms[x]) : participant[p].conn # c
    BY <1>1, <1>4, SpeaksForNobody
  <2> QED
    BY <1>1, <1>2, <2>2, <2>3, QuietStep DEF Departing
<1> QED
  BY <1>3, <1>4

\* The end of a departure takes the latch back where the connection stays.
LEMMA FinishRegistry ==
  ASSUME IInv, RegistryInv, NEW c \in Conns, Finish(c)
  PROVE  RegistryInv'
<1> DEFINE w == work[c]
           s == session[c]
<1>1. /\ session \in [Conns -> Session] /\ work \in [Conns -> Work]
      /\ w.at = "finish" /\ s \in Session /\ w.cause \in Causes
      /\ UNCHANGED <<registry, created, rooms, participant>>
      /\ s.released \/ ~ Joined(c)
  BY DEF Finish, At, IInv, TypeOK, Work, RegistryInv, LatchOK
<1>2. \A x \in RoomObjs : Occupants(rooms'[x]) = Occupants(rooms[x])
  BY <1>1
<1>3. \A x \in RoomObjs : Registered(x) =>
        \A p \in Occupants(rooms[x]) : participant[p].conn # c
  BY <1>1, SpeaksForNobody
<1>4. /\ session'[c] = AfterDeparture(s, w.cause)
      /\ \A d \in Conns \ {c} : session'[d] = session[d] /\ work'[d] = work[d]
  BY <1>1 DEF Finish
<1>5. CASE w.cause = "media_failed"
  <2>1. work'[c].at = "read"
    BY <1>1, <1>5 DEF Finish, Idle, Handler
  <2>2. ~ session'[c].released
    <3> DEFINE b == s.released /\ w.cause # "media_failed"
    <3>1. session'[c] = [peer |-> NoPeer, roomId |-> NoRoomId, released |-> b]
      BY <1>4, <1>5 DEF AfterDeparture
    <3>2. ~ b
      BY <1>5
    <3> HIDE DEF b
    <3> QED
      BY <3>1, <3>2
  <2> QED
    BY <1>1, <1>2, <1>3, <1>4, <2>1, <2>2, QuietStep
<1>6. CASE w.cause # "media_failed"
  <2>1. work'[c].at = "closed"
    BY <1>1, <1>6 DEF Finish, Handler
  <2>2. session'[c].released \/ session'[c].peer = NoPeer
    BY <1>1, <1>4 DEF AfterDeparture, Joined
  <2> QED
    BY <1>1, <1>2, <1>3, <1>4, <2>1, <2>2, QuietStep DEF Departing, Joined
<1> QED
  BY <1>5, <1>6

LEMMA JoinExistingRegistry ==
  ASSUME IInv, RegistryInv, NEW c \in Conns, NEW rid \in RoomIds,
         JoinExisting(c, rid)
  PROVE  RegistryInv'
<1> USE DEF JoinExisting
<1>1. /\ work'[c] = Handler("admit", registry[rid], rid, NoPeer, "none")
      /\ \A d \in Conns \ {c} : work'[d] = work[d]
      /\ UNCHANGED <<registry, created, rooms, participant, session>>
      /\ work[c].at = "read" /\ ~ Joined(c)
  BY DEF IInv, TypeOK, At
<1>2. RegistryOK'
  BY DEF RegistryInv, RegistryOK, IsEmpty, Occupants
<1>3. LooksOK'
  <2>1. registry[rid] \in 0..created /\ created \in Nat
    BY DEF RegistryInv, RegistryOK, IInv, TypeOK
  <2> QED
    BY <1>1, <2>1 DEF RegistryInv, LooksOK, Registered, Handler
<1>4. LatchOK'
  <2>1. ~ session[c].released
    BY <1>1 DEF RegistryInv, LatchOK, Departing
  <2> QED
    BY <1>1, <2>1 DEF RegistryInv, LatchOK, Joined, Handler
<1>5. NoGhostParticipants'
  <2>1. \A r \in RoomObjs : Registered(r) =>
          \A p \in Occupants(rooms[r]) : participant[p].conn # c
    BY <1>1, SpeaksForNobody
  <2>2. \A r \in RoomObjs : Occupants(rooms'[r]) = Occupants(rooms[r])
    BY <1>1
  <2> QED
    BY <1>1, <2>1, <2>2, GhostsKept
<1>6. EmptyRoomsAreCollected'
  <2> SUFFICES ASSUME NEW r \in RoomObjs, Registered(r), IsEmpty(rooms[r])
               PROVE  \E d \in Conns : work'[d].room = r /\ work'[d].at \in {"admit", "gc"}
    BY <1>1 DEF EmptyRoomsAreCollected, Registered, IsEmpty, Occupants
  <2> QED
    BY <1>1 DEF RegistryInv, EmptyRoomsAreCollected
<1> QED
  BY <1>2, <1>3, <1>4, <1>5, <1>6 DEF RegistryInv

LEMMA JoinCreatingRegistry ==
  ASSUME IInv, RegistryInv, NEW c \in Conns, NEW rid \in RoomIds,
         JoinCreating(c, rid)
  PROVE  RegistryInv'
<1> USE DEF JoinCreating
<1> DEFINE new == created + 1
<1>1. /\ work'[c] = Handler("admit", new, rid, NoPeer, "none")
      /\ \A d \in Conns \ {c} : work'[d] = work[d]
      /\ registry'[rid] = new /\ created' = new
      /\ \A x \in RoomIds \ {rid} : registry'[x] = registry[x]
      /\ UNCHANGED <<rooms, participant, session>>
      /\ work[c].at = "read" /\ ~ Joined(c)
  BY DEF IInv, TypeOK, At
<1>2. /\ created \in Nat /\ new \in RoomObjs /\ registry[rid] = NoRoom
      /\ \A x \in RoomIds : registry[x] \in 0..created
  BY MaxRoomsAssumption DEF RegistryInv, RegistryOK, IInv, TypeOK, RoomObjs
<1>3. RegistryOK'
  <2>1. \A r \in RoomObjs : r > created' => IsEmpty(rooms'[r])
    BY <1>1, <1>2 DEF RegistryInv, RegistryOK, RoomObjs
  <2>2. /\ \A x \in RoomIds : registry'[x] \in 0..created'
        /\ \A a, b \in RoomIds :
             registry'[a] = registry'[b] /\ registry'[a] # NoRoom => a = b
    BY <1>1, <1>2 DEF RegistryInv, RegistryOK
  <2> QED
    BY <2>1, <2>2 DEF RegistryOK, IsEmpty, Occupants
<1>4. LooksOK'
  <2> SUFFICES ASSUME NEW d \in Conns \ {c}, work[d].at \in {"admit", "gc"}
               PROVE  /\ work[d].room <= new
                      /\ Registered(work[d].room)' =>
                           registry'[work[d].roomId] = work[d].room
    BY <1>1, <1>2 DEF LooksOK, Registered, Handler
  <2>1. work[d].room <= created /\ work[d].room \in RoomObjs /\ work[d].roomId \in RoomIds
    BY DEF RegistryInv, LooksOK, IInv, WorkOK, HandlerOK
  <2>2. work[d].room # new /\ work[d].room # NoRoom
    BY <1>2, <2>1 DEF RoomObjs, NoRoom
  <2>3. ASSUME Registered(work[d].room)'
        PROVE  registry'[work[d].roomId] = work[d].room
    <3>1. registry[work[d].roomId] = work[d].room
      BY <1>1, <2>2, <2>3 DEF RegistryInv, LooksOK, Registered
    <3> QED
      BY <1>1, <1>2, <2>1, <2>2, <3>1
  <2> QED
    BY <1>2, <2>1, <2>3 DEF RoomObjs
<1>5. LatchOK'
  <2>1. ~ session[c].released
    BY <1>1 DEF RegistryInv, LatchOK, Departing
  <2> QED
    BY <1>1, <2>1 DEF RegistryInv, LatchOK, Joined, Handler
<1>6. NoGhostParticipants'
  <2>1. Occupants(rooms[new]) = {}
    BY <1>2 DEF RegistryInv, RegistryOK, IsEmpty
  <2>2. \A r \in RoomObjs : Occupants(rooms[r]) # {} =>
          \A x \in RoomIds : registry'[x] = r <=> registry[x] = r
    BY <1>1, <1>2, <2>1 DEF RoomObjs, NoRoom
  <2>3. \A r \in RoomObjs : Registered(r) =>
          \A p \in Occupants(rooms[r]) : participant[p].conn # c
    BY <1>1, SpeaksForNobody
  <2>4. \A r \in RoomObjs : Occupants(rooms'[r]) = Occupants(rooms[r])
    BY <1>1
  <2> QED
    BY <1>1, <2>2, <2>3, <2>4, GhostsKept
<1>7. EmptyRoomsAreCollected'
  <2> SUFFICES ASSUME NEW r \in RoomObjs, Registered(r)', IsEmpty(rooms[r])
               PROVE  \E d \in Conns : work'[d].room = r /\ work'[d].at \in {"admit", "gc"}
    BY <1>1 DEF EmptyRoomsAreCollected, IsEmpty, Occupants
  <2>1. CASE r = new
    BY <1>1, <2>1 DEF Handler
  <2>2. CASE r # new
    <3>1. Registered(r)
      BY <1>1, <2>2 DEF Registered
    <3>2. PICK d \in Conns : work[d].room = r /\ work[d].at \in {"admit", "gc"}
      BY <3>1 DEF RegistryInv, EmptyRoomsAreCollected
    <3> QED
      BY <1>1, <3>2
  <2> QED
    BY <2>1, <2>2
<1> QED
  BY <1>3, <1>4, <1>5, <1>6, <1>7 DEF RegistryInv

\* A rejection leaves the room to those who fill it.
LEMMA JoinRejectedRegistry ==
  ASSUME IInv, RegistryInv, NEW c \in Conns, JoinRejected(c)
  PROVE  RegistryInv'
<1> USE DEF JoinRejected
<1>1. /\ work'[c] = Idle /\ \A d \in Conns \ {c} : work'[d] = work[d]
      /\ UNCHANGED <<registry, created, rooms, participant, session>>
      /\ work[c].at = "admit" /\ IsFull(rooms[work[c].room]) /\ work[c].room \in RoomObjs
      /\ ~ Joined(c)
  BY DEF IInv, TypeOK, At, WorkOK, HandlerOK, RegistryInv, LatchOK
<1>2. RegistryOK'
  BY DEF RegistryInv, RegistryOK, IsEmpty, Occupants
<1>3. LooksOK'
  BY <1>1 DEF RegistryInv, LooksOK, Registered, Idle, Handler
<1>4. LatchOK'
  <2>1. ~ session[c].released
    BY <1>1 DEF RegistryInv, LatchOK, Departing
  <2> QED
    BY <1>1, <2>1 DEF RegistryInv, LatchOK, Joined, Idle, Handler
<1>5. NoGhostParticipants'
  <2>1. \A r \in RoomObjs : Registered(r) =>
          \A p \in Occupants(rooms[r]) : participant[p].conn # c
    BY <1>1, SpeaksForNobody
  <2>2. \A r \in RoomObjs : Occupants(rooms'[r]) = Occupants(rooms[r])
    BY <1>1
  <2> QED
    BY <1>1, <2>1, <2>2, GhostsKept
<1>6. EmptyRoomsAreCollected'
  <2> SUFFICES ASSUME NEW r \in RoomObjs, Registered(r), IsEmpty(rooms[r])
               PROVE  \E d \in Conns : work'[d].room = r /\ work'[d].at \in {"admit", "gc"}
    BY <1>1 DEF EmptyRoomsAreCollected, Registered, IsEmpty, Occupants
  <2>1. r # work[c].room
    BY <1>1 DEF IsEmpty, IsFull, FreeSlots, Occupants, Slots
  <2> QED
    BY <1>1, <2>1 DEF RegistryInv, EmptyRoomsAreCollected
<1> QED
  BY <1>2, <1>3, <1>4, <1>5, <1>6 DEF RegistryInv


\* An admission: the newcomer is spoken for by the session that admits it,
\* and its slot ends the emptiness of the room.
LEMMA JoinAcceptedRegistry ==
  ASSUME IInv, RegistryInv, NEW c \in Conns, JoinAccepted(c)
  PROVE  RegistryInv'
<1> DEFINE w == work[c]
           r == w.room
           p == admitted + 1
<1>1. /\ w \in Work /\ w.at = "admit" /\ r \in RoomObjs /\ w.roomId \in RoomIds
      /\ p \in Peers /\ p \notin 1..admitted /\ 1..admitted \subseteq Peers
      /\ rooms[r] \in Room /\ session[c] \in Session
      /\ ~ Joined(c) /\ ~ session[c].released /\ r <= created
      /\ Registered(r) => registry[w.roomId] = r
  BY MaxPeersAssumption
  DEF JoinAccepted, At, IInv, WorkOK, HandlerOK, TypeOK, Peers, RegistryInv, LatchOK,
      LooksOK, Departing
<1>2. PICK i \in FreeSlots(rooms[r]) :
        /\ rooms' = [rooms EXCEPT ![r].slots[i] = p]
        /\ participant' = [participant EXCEPT ![p] =
             [room |-> r, order |-> AdmissionOrder(rooms[r], i),
              media |-> "pending-media", phase |-> "idle", conn |-> c]]
  BY DEF JoinAccepted
<1>3. /\ UNCHANGED <<registry, created>>
      /\ session' = [session EXCEPT ![c] = [@ EXCEPT !.peer = p, !.roomId = w.roomId]]
      /\ work' = [work EXCEPT ![c] = [@ EXCEPT !.at = "accept", !.subject = p]]
  BY DEF JoinAccepted
<1>4. /\ \A q \in 1..admitted : participant'[q] = participant[q]
      /\ participant'[p].conn = c
  BY <1>1, <1>2 DEF IInv, TypeOK
<1> HIDE DEF p, r, w
<1>5. /\ \A x \in RoomObjs \ {r} : rooms'[x] = rooms[x]
      /\ rooms'[r].slots = [rooms[r].slots EXCEPT ![i] = p]
  BY <1>1, <1>2 DEF IInv, TypeOK, Room
<1>6. /\ session'[c].peer = p /\ session'[c].roomId = w.roomId /\ ~ session'[c].released
      /\ \A d \in Conns \ {c} : session'[d] = session[d]
  BY <1>1, <1>3 DEF IInv, TypeOK, Session
<1>7. work'[c].at = "accept" /\ \A d \in Conns \ {c} : work'[d] = work[d]
  BY <1>1, <1>3 DEF IInv, TypeOK, Work, w
<1>8. /\ Occupants(rooms'[r]) = Occupants(rooms[r]) \cup {p}
      /\ \A x \in RoomObjs \ {r} : Occupants(rooms'[x]) = Occupants(rooms[x])
      /\ \A x \in RoomObjs : Occupants(rooms[x]) \subseteq 1..admitted
  <2>1. p # NoPeer /\ rooms[r].slots \in [Slots -> Peers \cup {NoPeer}]
        /\ i \in Slots /\ rooms[r].slots[i] = NoPeer
    BY <1>1 DEF Room, NoPeer, Peers, FreeSlots
  <2>2. Occupants(rooms'[r]) = Occupants(rooms[r]) \cup {p}
    BY <1>5, <2>1 DEF Occupants, Slots
  <2> QED
    BY <1>5, <2>2, OccupantsAdmitted
<1>9. RegistryOK'
  <2>1. \A x \in RoomObjs : x > created => IsEmpty(rooms'[x])
    <3> SUFFICES ASSUME NEW x \in RoomObjs, x > created  PROVE IsEmpty(rooms'[x])
      OBVIOUS
    <3>1. x # r /\ IsEmpty(rooms[x])
      BY <1>1 DEF RegistryInv, RegistryOK, RoomObjs, IInv, TypeOK
    <3> QED
      BY <1>8, <3>1 DEF IsEmpty
  <2> QED
    BY <1>3, <2>1 DEF RegistryInv, RegistryOK, IsEmpty, Occupants
<1>10. LooksOK'
  BY <1>3, <1>7 DEF RegistryInv, LooksOK, Registered
<1>11. LatchOK'
  BY <1>6, <1>7 DEF RegistryInv, LatchOK, Joined
<1>12. NoGhostParticipants'
  <2> SUFFICES ASSUME NEW x \in RoomObjs, Registered(x), NEW q \in Occupants(rooms'[x])
               PROVE  LET d == participant'[q].conn
                      IN /\ session'[d].peer = q
                         /\ session'[d].roomId \in RoomIds
                         /\ registry[session'[d].roomId] = x
                         /\ session'[d].released =>
                              work'[d].at \in {"classify", "release"}
                         /\ work'[d].at # "closed"
    BY <1>3 DEF NoGhostParticipants, Registered, RoomNamed, Occupants
  <2>1. CASE q = p
    <3>1. x = r
      BY <1>1, <1>8, <2>1
    <3> QED
      BY <1>1, <1>4, <1>6, <1>7, <2>1, <3>1
  <2>2. CASE q # p
    <3> DEFINE d == participant[q].conn
    <3>1. q \in Occupants(rooms[x]) /\ q \in 1..admitted /\ participant'[q].conn = d
      BY <1>4, <1>8, <2>2
    <3>2. d \in Conns \ {c}
      BY <1>1, <3>1, SpeaksForNobody DEF IInv, ParticipantsOK
    <3>3. /\ session[d].peer = q /\ RoomNamed(session[d].roomId) = x
          /\ session[d].released => work[d].at \in {"classify", "release"}
          /\ work[d].at # "closed"
      BY <3>1 DEF RegistryInv, NoGhostParticipants
    <3>4. session[d].roomId \in RoomIds /\ registry[session[d].roomId] = x
      BY <3>3 DEF RoomNamed, NoRoom, RoomObjs
    <3> HIDE DEF d
    <3> QED
      BY <1>6, <1>7, <3>1, <3>2, <3>3, <3>4
  <2> QED
    BY <2>1, <2>2
<1>13. EmptyRoomsAreCollected'
  <2> SUFFICES ASSUME NEW x \in RoomObjs, Registered(x), IsEmpty(rooms'[x])
               PROVE  \E d \in Conns : work'[d].room = x /\ work'[d].at \in {"admit", "gc"}
    BY <1>3 DEF EmptyRoomsAreCollected, Registered, IsEmpty, Occupants
  <2>1. x # r /\ IsEmpty(rooms[x])
    BY <1>8 DEF IsEmpty
  <2>2. PICK d \in Conns : work[d].room = x /\ work[d].at \in {"admit", "gc"}
    BY <2>1 DEF RegistryInv, EmptyRoomsAreCollected
  <2> QED
    BY <1>7, <2>1, <2>2 DEF r, w
<1> QED
  BY <1>9, <1>10, <1>11, <1>12, <1>13 DEF RegistryInv

\* A release takes the participant its session speaks for out of the room,
\* and looks again at a room it leaves empty.
LEMMA ReleaseRegistry ==
  ASSUME IInv, RegistryInv, NEW c \in Conns, Release(c)
  PROVE  RegistryInv'
<1> DEFINE w == work[c]
           r == RoomNamed(w.roomId)
           p == w.subject
<1>1. /\ w \in Work /\ w.at = "release" /\ Joined(c)
      /\ p = session[c].peer /\ w.roomId = session[c].roomId
      /\ p \in 1..admitted /\ participant[p].conn = c /\ w.roomId \in RoomIds
      /\ r = registry[w.roomId] /\ r \in RoomObjs \cup {NoRoom} /\ p \in Peers
      /\ work \in [Conns -> Work] /\ session \in [Conns -> Session]
      /\ UNCHANGED <<registry, created, admitted, participant>>
  BY SMTT(20), MaxPeersAssumption
  DEF Release, At, IInv, TypeOK, WorkOK, HandlerOK, SessionsOK, RoomNamed, Peers
<1>2. /\ session'[c].released
      /\ session'[c].peer = p
      /\ \A d \in Conns \ {c} : session'[d] = session[d]
  BY <1>1 DEF Release, Session
<1>3. \A x \in RoomObjs \ {r} : rooms'[x] = rooms[x]
  BY <1>1 DEF Release, IInv, TypeOK
<1>4. r \in RoomObjs => Occupants(rooms'[r]) = Occupants(rooms[r]) \ {p}
  <2> SUFFICES ASSUME r \in RoomObjs  PROVE Occupants(rooms'[r]) = Occupants(rooms[r]) \ {p}
    OBVIOUS
  <2>1. rooms[r] \in Room /\ rooms \in [RoomObjs -> Room] /\ r # NoRoom
    BY DEF IInv, TypeOK, RoomObjs, NoRoom
  <2>2. CASE p \in Occupants(rooms[r])
    <3>1. rooms'[r] = Remove(rooms[r], p)
      BY <2>1, <2>2 DEF Release
    <3> QED
      BY <1>1, <2>1, <3>1, RoomFacts
  <2>3. CASE p \notin Occupants(rooms[r])
    BY <2>1, <2>3 DEF Release
  <2> QED
    BY <2>2, <2>3
<1>5. /\ \A d \in Conns \ {c} : work'[d] = work[d]
      /\ work'[c].roomId = w.roomId
      /\ \/ work'[c].at = "finish"
         \/ work'[c].at = "gc" /\ work'[c].room = r /\ r \in RoomObjs
  <2>1. \/ work' = [work EXCEPT ![c] = [w EXCEPT !.at = "finish"]]
        \/ work' = [work EXCEPT ![c] = [w EXCEPT !.at = "finish", !.room = r]]
        \/ r # NoRoom /\ work' = [work EXCEPT ![c] = [w EXCEPT !.at = "gc", !.room = r]]
    BY DEF Release, NextAfterRelease
  <2> HIDE DEF r, w
  <2>2. CASE work' = [work EXCEPT ![c] = [w EXCEPT !.at = "finish"]]
    BY <1>1, <2>2 DEF Work
  <2>3. CASE work' = [work EXCEPT ![c] = [w EXCEPT !.at = "finish", !.room = r]]
    BY <1>1, <2>3 DEF Work
  <2>4. CASE r # NoRoom /\ work' = [work EXCEPT ![c] = [w EXCEPT !.at = "gc", !.room = r]]
    BY <1>1, <2>4 DEF Work
  <2> QED
    BY <2>1, <2>2, <2>3, <2>4
<1>6. r \in RoomObjs /\ IsEmpty(rooms'[r]) => work'[c].at = "gc" /\ work'[c].room = r
  <2> SUFFICES ASSUME r \in RoomObjs, IsEmpty(rooms'[r])
               PROVE  work'[c].at = "gc" /\ work'[c].room = r
    OBVIOUS
  <2>1. rooms[r] \in Room /\ rooms \in [RoomObjs -> Room] /\ r # NoRoom
    BY DEF IInv, TypeOK, RoomObjs, NoRoom
  <2>2. work' = [work EXCEPT ![c] = [w EXCEPT !.at = "gc", !.room = r]]
    <3>1. CASE p \in Occupants(rooms[r])
      <4>1. rooms'[r] = Remove(rooms[r], p)
        BY <2>1, <3>1 DEF Release
      <4> QED
        BY <2>1, <3>1, <4>1 DEF Release, NextAfterRelease
    <3>2. CASE p \notin Occupants(rooms[r])
      <4>1. rooms'[r] = rooms[r]
        BY <2>1, <3>2 DEF Release
      <4> QED
        BY <2>1, <3>2, <4>1 DEF Release, NextAfterRelease
    <3> QED
      BY <3>1, <3>2
  <2> HIDE DEF r
  <2> QED
    BY <1>1, <2>2 DEF Work
<1>7. \A x \in RoomObjs : Occupants(rooms'[x]) \subseteq Occupants(rooms[x])
  BY <1>3, <1>4
<1>8. RegistryOK'
  <2>1. \A x \in RoomObjs : x > created => IsEmpty(rooms'[x])
    BY <1>7 DEF RegistryInv, RegistryOK, IsEmpty
  <2> QED
    BY <1>1, <2>1 DEF RegistryInv, RegistryOK, IsEmpty, Occupants
<1>9. LooksOK'
  <2> SUFFICES ASSUME NEW d \in Conns, work'[d].at \in {"admit", "gc"}
               PROVE  /\ work'[d].room <= created
                      /\ (\E rid \in RoomIds : registry[rid] = work'[d].room) =>
                           registry[work'[d].roomId] = work'[d].room
    BY <1>1 DEF LooksOK, Registered
  <2>1. CASE d = c
    <3>1. registry[w.roomId] \in 0..created
      BY <1>1 DEF RegistryInv, RegistryOK
    <3> QED
      BY <1>1, <1>5, <2>1, <3>1 DEF IInv, TypeOK
  <2>2. CASE d # c
    BY <1>5, <2>2 DEF RegistryInv, LooksOK, Registered
  <2> QED
    BY <2>1, <2>2
<1>10. LatchOK'
  BY <1>2, <1>5 DEF RegistryInv, LatchOK, Joined, Departing
<1>11. NoGhostParticipants'
  <2>1. \A x \in RoomObjs : Registered(x) =>
          \A q \in Occupants(rooms'[x]) : participant[q].conn # c
    <3> SUFFICES ASSUME NEW x \in RoomObjs, Registered(x), NEW q \in Occupants(rooms'[x]),
                        participant[q].conn = c
                 PROVE  FALSE
      OBVIOUS
    <3>1. q \in Occupants(rooms[x])
      BY <1>7
    <3>2. session[c].peer = q /\ RoomNamed(session[c].roomId) = x
      BY <3>1 DEF RegistryInv, NoGhostParticipants
    <3> QED
      BY <1>1, <1>4, <3>2
  <2> QED
    BY <1>1, <1>2, <1>5, <1>7, <2>1, GhostsKept
<1>12. EmptyRoomsAreCollected'
  <2> SUFFICES ASSUME NEW x \in RoomObjs, Registered(x), IsEmpty(rooms'[x])
               PROVE  \E d \in Conns : work'[d].room = x /\ work'[d].at \in {"admit", "gc"}
    BY <1>1 DEF EmptyRoomsAreCollected, Registered, IsEmpty, Occupants
  <2>1. CASE x = r
    BY <1>6, <2>1
  <2>2. CASE x # r
    <3>1. PICK d \in Conns : work[d].room = x /\ work[d].at \in {"admit", "gc"}
      BY <1>3, <2>2 DEF RegistryInv, EmptyRoomsAreCollected
    <3> QED
      BY <1>1, <1>5, <3>1
  <2> QED
    BY <2>1, <2>2
<1> QED
  BY <1>8, <1>9, <1>10, <1>11, <1>12 DEF RegistryInv

\* The second look deregisters the room if it is still the registered one and
\* nobody has come.
LEMMA CollectRoomRegistry ==
  ASSUME IInv, RegistryInv, NEW c \in Conns, CollectRoom(c)
  PROVE  RegistryInv'
<1> DEFINE w == work[c]
<1>1. /\ w \in Work /\ w.at = "gc" /\ w.room \in RoomObjs /\ w.roomId \in RoomIds
      /\ w.room <= created
      /\ Registered(w.room) => registry[w.roomId] = w.room
      /\ work \in [Conns -> Work] /\ registry \in [RoomIds -> RoomObjs \cup {NoRoom}]
      /\ session[c].released \/ ~ Joined(c)
      /\ UNCHANGED <<created, rooms, admitted, participant, session>>
  BY DEF CollectRoom, At, IInv, TypeOK, WorkOK, HandlerOK, RegistryInv, LooksOK, LatchOK
<1>2. work'[c].at = "finish" /\ \A d \in Conns \ {c} : work'[d] = work[d]
  BY <1>1 DEF CollectRoom, Work
<1>3. \/ registry' = registry /\ ~ (registry[w.roomId] = w.room /\ IsEmpty(rooms[w.room]))
      \/ /\ IsEmpty(rooms[w.room]) /\ registry[w.roomId] = w.room
         /\ registry' = [registry EXCEPT ![w.roomId] = NoRoom]
  BY DEF CollectRoom
<1>4. \A rid \in RoomIds : \/ registry'[rid] = registry[rid]
                           \/ registry'[rid] = NoRoom /\ IsEmpty(rooms[registry[rid]])
  BY <1>1, <1>3
<1>5. \A x \in RoomObjs : Registered(x)' =>
        Registered(x) /\ ~ (x = w.room /\ IsEmpty(rooms[x]))
  <2>1. CASE registry' = registry
    <3> TAKE x \in RoomObjs
    <3> HAVE Registered(x)'
    <3>1. Registered(x)
      BY <2>1 DEF Registered
    <3>2. w.room # NoRoom
      BY <1>1 DEF RoomObjs, NoRoom
    <3>3. ~ (registry[w.roomId] = w.room /\ IsEmpty(rooms[w.room]))
      BY <1>1, <1>3, <2>1, <3>2
    <3> QED
      BY <1>1, <3>1, <3>3
  <2>2. CASE /\ IsEmpty(rooms[w.room]) /\ registry[w.roomId] = w.room
             /\ registry' = [registry EXCEPT ![w.roomId] = NoRoom]
    <3>1. \A rid \in RoomIds \ {w.roomId} : registry'[rid] # w.room
      BY <1>1, <2>2 DEF RegistryInv, RegistryOK, RoomObjs, NoRoom
    <3>2. registry'[w.roomId] = NoRoom
      BY <1>1, <2>2
    <3> QED
      BY <1>1, <1>4, <3>1, <3>2 DEF Registered, RoomObjs, NoRoom
  <2> QED
    BY <1>3, <2>1, <2>2
<1>6. RegistryOK'
  <2>1. created \in Nat
    BY DEF IInv, TypeOK
  <2>2. /\ \A rid \in RoomIds : registry'[rid] \in 0..created
        /\ \A a, b \in RoomIds :
             registry'[a] = registry'[b] /\ registry'[a] # NoRoom => a = b
    BY <1>4, <2>1 DEF RegistryInv, RegistryOK, NoRoom
  <2> QED
    BY <1>1, <2>2 DEF RegistryInv, RegistryOK, IsEmpty, Occupants
<1>7. LooksOK'
  <2> SUFFICES ASSUME NEW d \in Conns \ {c}, work[d].at \in {"admit", "gc"}
               PROVE  /\ work[d].room <= created
                      /\ Registered(work[d].room)' =>
                           registry'[work[d].roomId] = work[d].room
    BY <1>1, <1>2 DEF LooksOK, Registered
  <2>1. /\ work[d].room <= created /\ work[d].roomId \in RoomIds /\ work[d].room \in RoomObjs
        /\ Registered(work[d].room) => registry[work[d].roomId] = work[d].room
    BY DEF RegistryInv, LooksOK, IInv, WorkOK, HandlerOK
  <2>2. ASSUME NEW rid \in RoomIds, registry'[rid] = work[d].room
        PROVE  registry'[work[d].roomId] = work[d].room
    <3>1. registry[rid] = work[d].room
      BY <1>4, <2>1, <2>2 DEF RoomObjs, NoRoom
    <3>2. registry[work[d].roomId] = work[d].room
      BY <2>1, <3>1 DEF Registered
    <3>3. rid = work[d].roomId
      BY <2>1, <3>1, <3>2 DEF RegistryInv, RegistryOK, RoomObjs, NoRoom
    <3> QED
      BY <2>2, <3>3
  <2>3. Registered(work[d].room)' => registry'[work[d].roomId] = work[d].room
    <3> SUFFICES ASSUME NEW rid \in RoomIds, registry'[rid] = (work[d].room)'
                 PROVE  registry'[work[d].roomId] = work[d].room
      BY DEF Registered
    <3>1. work'[d] = work[d]
      BY <1>2
    <3> QED
      BY <2>2, <3>1
  <2> QED
    BY <2>1, <2>3
<1>8. LatchOK'
  BY <1>1, <1>2 DEF RegistryInv, LatchOK, Joined, Departing
<1>9. NoGhostParticipants'
  <2>1. \A x \in RoomObjs : Occupants(rooms[x]) # {} =>
          \A rid \in RoomIds : registry'[rid] = x <=> registry[rid] = x
    BY <1>4 DEF IsEmpty, RoomObjs, NoRoom
  <2>2. \A x \in RoomObjs : Registered(x) =>
          \A p \in Occupants(rooms[x]) : participant[p].conn # c
    BY <1>1, SpeaksForNobody
  <2>3. \A x \in RoomObjs : Occupants(rooms'[x]) = Occupants(rooms[x])
    BY <1>1
  <2> QED
    BY <1>1, <1>2, <2>1, <2>2, <2>3, GhostsKept
<1>10. EmptyRoomsAreCollected'
  <2> SUFFICES ASSUME NEW x \in RoomObjs, Registered(x)', IsEmpty(rooms[x])
               PROVE  \E d \in Conns : work'[d].room = x /\ work'[d].at \in {"admit", "gc"}
    BY <1>1 DEF EmptyRoomsAreCollected, IsEmpty, Occupants
  <2>1. Registered(x) /\ x # w.room
    BY <1>5
  <2>2. PICK d \in Conns : work[d].room = x /\ work[d].at \in {"admit", "gc"}
    BY <2>1 DEF RegistryInv, EmptyRoomsAreCollected
  <2> QED
    BY <1>2, <2>1, <2>2
<1> QED
  BY <1>6, <1>7, <1>8, <1>9, <1>10 DEF RegistryInv

LEMMA RegistryNext == IInv /\ RegistryInv /\ [Next]_vars => RegistryInv'
<1> SUFFICES ASSUME IInv, RegistryInv, [Next]_vars PROVE RegistryInv'
  OBVIOUS
<1>1. CASE UNCHANGED vars
  <2> USE <1>1 DEF vars
  <2>1. RegistryOK' /\ LooksOK' /\ LatchOK'
    BY SMTT(20) DEF RegistryInv, RegistryOK, LooksOK, LatchOK, Registered, Joined, IsEmpty, Occupants
  <2>2. NoGhostParticipants'
    BY DEF RegistryInv, NoGhostParticipants, Registered, RoomNamed, Occupants
  <2>3. EmptyRoomsAreCollected'
    BY DEF RegistryInv, EmptyRoomsAreCollected, Registered, IsEmpty, Occupants
  <2> QED
    BY <2>1, <2>2, <2>3 DEF RegistryInv
<1>2. ASSUME NEW c \in Conns, Continue(c) PROVE RegistryInv'
  BY <1>2, QuietHandlerStep, JoinRejectedRegistry, JoinAcceptedRegistry,
     ClassifyRegistry, ReleaseRegistry, CollectRoomRegistry, FinishRegistry
  DEF Continue
<1>3. ASSUME NEW c \in Conns, Read(c) PROVE RegistryInv'
  <2>1. CASE \E rid \in RoomIds : JoinExisting(c, rid) \/ JoinCreating(c, rid)
    BY <2>1, JoinExistingRegistry, JoinCreatingRegistry
  <2>2. CASE \/ MediaReady(c) \/ MediaFailed(c) \/ LeaveRoom(c) \/ Refuse(c)
             \/ \E type \in Relayed : Relay(c, type)
    BY <2>2, QuietHandlerStep
  <2>3. CASE Disconnect(c)
    BY <2>3, DisconnectRegistry
  <2> QED
    BY <1>3, <2>1, <2>2, <2>3 DEF Read
<1> QED
  BY <1>1, <1>2, <1>3 DEF Next

LEMMA RegistryInit == Init => RegistryInv
<1> SUFFICES ASSUME Init PROVE RegistryInv
  OBVIOUS
<1>1. IsEmpty(NewRoom) /\ Occupants(NewRoom) = {}
  BY DEF NewRoom, IsEmpty, Occupants
<1>2. RegistryOK /\ LooksOK /\ LatchOK
  BY <1>1 DEF Init, RegistryOK, LooksOK, LatchOK, NoRoom, Idle, Handler
<1>3. \A r \in RoomObjs : ~ Registered(r)
  BY DEF Init, Registered, RoomObjs, NoRoom
<1> QED
  BY <1>2, <1>3 DEF RegistryInv, NoGhostParticipants, EmptyRoomsAreCollected

\* The registry, the latches and the departures.
THEOREM RegistryInvariant == Spec => []RegistryInv
<1> QED
  BY RegistryInit, RegistryNext, Inductive, PTL DEF Spec

\* No slot of a registered room outlives the connection it was given to.
THEOREM NoGhosts == Spec => []NoGhostParticipants
<1>1. RegistryInv => NoGhostParticipants
  BY DEF RegistryInv
<1> QED
  BY <1>1, RegistryInvariant, PTL

\* An empty room does not stay in the registry.
THEOREM RoomsCollected == Spec => []EmptyRoomsAreCollected
<1>1. RegistryInv => EmptyRoomsAreCollected
  BY DEF RegistryInv
<1> QED
  BY <1>1, RegistryInvariant, PTL

=============================================================================
