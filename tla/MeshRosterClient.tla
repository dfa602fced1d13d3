-------------------------- MODULE MeshRosterClient --------------------------
(***************************************************************************)
(* The roster a mesh client shows, composed with the server that keeps the *)
(* room: frontend/src/modes/mesh/state/roster.ts and the roster part of    *)
(* its dispatcher, driven by the sends of MeshServer.                      *)
(*                                                                         *)
(* A browser handles its messages one at a time, in the order its server   *)
(* wrote them, and answers none of these; so a message is handled in the   *)
(* step that writes it.  Two goroutines write to one client in any order.  *)
(***************************************************************************)
EXTENDS MeshServer

VARIABLES
  roster,   \* per connection: the roster slice, and the client's own peer ID
  order     \* auxiliary, per connection: what its server wrote out of order

clientVars == <<roster, order>>
allVars == <<vars, clientVars>>

Slice == [self : Peers \cup {NoPeer}, serverSeq : Nat,
          byPeerId : [Peers -> Presences \cup {"absent"}]]

\* Since the admission: the highest serverSeq written, whether one was written
\* that is no higher than one before, and whether one of another room was.
Order == [newest : Nat, late : BOOLEAN, stray : BOOLEAN]

InOrder == [newest |-> 0, late |-> FALSE, stray |-> FALSE]

Nobody == [p \in Peers |-> "absent"]

RosterInit ==
  /\ Init
  /\ roster = [c \in Conns |-> [self |-> NoPeer, serverSeq |-> 0,
                                byPeerId |-> Nobody]]
  /\ order = [c \in Conns |-> InOrder]

\* MESH_ROSTER_SNAPSHOT_APPLIED: whatever the serverSeq.
SnapshotApplied(s, m) ==
  [s EXCEPT !.serverSeq = m.serverSeq,
            !.byPeerId = [p \in Peers |->
               IF p # s.self /\ \E x \in m.entries : x.peer = p
               THEN (CHOOSE x \in m.entries : x.peer = p).presence
               ELSE "absent"]]

\* Variant of UpdateApplied with a bug: a release leaves the entry.
UpdateAppliedKeepsReleased(s, m) ==
  IF m.serverSeq <= s.serverSeq THEN s
  ELSE [s EXCEPT !.serverSeq = m.serverSeq,
                 !.byPeerId = IF m.subject = s.self THEN @
                   ELSE [@ EXCEPT ![m.subject] =
                           IF m.presence = "left" THEN "absent" ELSE m.presence]]

\* MESH_ROSTER_UPDATE_APPLIED: a stale one is dropped, one about the client
\* itself only counts, and a departure removes the entry.
UpdateApplied(s, m) ==
  IF m.serverSeq <= s.serverSeq THEN s
  ELSE [s EXCEPT !.serverSeq = m.serverSeq,
                 !.byPeerId = IF m.subject = s.self THEN @
                   ELSE [@ EXCEPT ![m.subject] =
                           IF m.presence \in {"released", "left"}
                           THEN "absent" ELSE m.presence]]

\* dispatchValidated, for the messages the roster follows; join_accepted
\* tells the client its peer ID.
Dispatched(c, m) ==
  CASE m.type = "join_accepted"        -> [roster[c] EXCEPT !.self = session[c].peer]
    [] m.type = "mesh_roster_snapshot" -> SnapshotApplied(roster[c], m)
    [] m.type = "mesh_roster_update"   -> UpdateApplied(roster[c], m)
    [] OTHER                           -> roster[c]

Numbered(m) == m.type \in {"mesh_roster_snapshot", "mesh_roster_update"}

\* An update of a room the client has left for another: it was a target when
\* the goroutine captured them, and has been admitted again since.
Stray(d) ==
  /\ d.msg.type = "mesh_roster_update" /\ Joined(d.to)
  /\ participant[d.msg.subject].room # participant[session[d.to].peer].room

Written(o, d) ==
  IF ~ Numbered(d.msg) THEN o
  ELSE [o EXCEPT !.newest = IF d.msg.serverSeq > @ THEN d.msg.serverSeq ELSE @,
                 !.late = @ \/ d.msg.serverSeq <= o.newest,
                 !.stray = @ \/ Stray(d)]

\* MeshServer's Send, and what the client does with the message.  leave_room
\* and the end of the connection take the client away.
Deliver(c) ==
  /\ \E d \in NextSends(c) :
       /\ out' = [out EXCEPT ![c] = @ \ {d}]
       /\ IF work[d.to].at = "closed" THEN UNCHANGED clientVars
          ELSE /\ roster' = [roster EXCEPT ![d.to] = Dispatched(d.to, d.msg)]
               /\ order' = [order EXCEPT ![d.to] = Written(@, d)]
  /\ UNCHANGED <<registry, created, rooms, admitted, participant, session, work>>

\* MeshServer's Continue but for the sends.
Proceed(c) ==
  \/ JoinRejected(c) \/ SendSnapshot(c) \/ AnnounceJoined(c)
  \/ AnnounceReady(c) \/ Evaluate(c)
  \/ CollectRoom(c) \/ ReportReleased(c) \/ AnnounceDeparture(c) \/ Finish(c)

Admitted(c) ==
  /\ JoinAccepted(c)
  /\ order' = [order EXCEPT ![c] = InOrder]
  /\ UNCHANGED roster

RosterContinue(c) ==
  \/ Deliver(c)
  \/ Admitted(c)
  \/ Proceed(c) /\ UNCHANGED clientVars

RosterNext ==
  \E c \in Conns : RosterContinue(c) \/ (Read(c) /\ UNCHANGED clientVars)

RosterSpec == RosterInit /\ [][RosterNext]_allVars

-----------------------------------------------------------------------------
\* Type correctness.
RosterTypeOK ==
  /\ TypeOK
  /\ roster \in [Conns -> Slice]
  /\ order \in [Conns -> Order]

\* c's participant is in its room, and no handler is under way.
Quiet == \A c \in Conns : work[c].at \in {"read", "closed"} /\ out[c] = {}

InRoom(c, r) == Joined(c) /\ Named(c, r) /\ session[c].peer \in rooms[r].participants

TrueRoster(r, p) ==
  [q \in Peers |-> IF q \in rooms[r].participants \ {p}
                   THEN participant[q].readiness ELSE "absent"]

ShowsTheRoom(c) ==
  \A r \in RoomObjs :
    InRoom(c, r) => roster[c].byPeerId = TrueRoster(r, session[c].peer)

\* FR-012b: once the server is quiet, a client whose messages were written in
\* the order of their numbers, and were of its own room, shows the participants
\* of its room, each with its presence, and nobody else, through admissions,
\* readiness, releases, departures and changes of room.
RosterIsTheRoom ==
  Quiet => \A c \in Conns : ~ order[c].late /\ ~ order[c].stray => ShowsTheRoom(c)

\* FR-012b of a client that may have come from another room on the same
\* WebSocket, which the dispatcher does not ask about.
RosterIsTheRoomAfterMoving ==
  Quiet => \A c \in Conns : ~ order[c].late => ShowsTheRoom(c)

=============================================================================
