----------------------------- MODULE MeshSession -----------------------------
(***************************************************************************)
(* The session of one mesh tab: the join form, the signaling client and    *)
(* its WebSockets, the local participant's state machine, the media        *)
(* controller that opens the camera, and the leave path; with one          *)
(* goroutine of the server per WebSocket.                                  *)
(*                                                                         *)
(* A dispatch re-renders and runs the effects before the next task, so an  *)
(* event handler, its dispatches and the effects they cause are one step.  *)
(***************************************************************************)
EXTENDS Naturals, Sequences, FiniteSets

CONSTANTS
  MaxSockets,   \* bound: WebSockets the tab opens
  MaxSubmits,   \* bound: submissions of the join form
  MaxCaptures   \* bound: calls of getUserMedia

ASSUME BoundsAssumption ==
  /\ MaxSockets \in Nat \ {0}
  /\ MaxSubmits \in Nat \ {0} /\ MaxCaptures \in Nat \ {0}

Sockets == 1..MaxSockets
NoSocket == 0
Captures == 1..MaxCaptures
NoStream == 0

\* A peer ID, by the connection it was given to and its turn there.
PeerIds == Sockets \X (1..MaxSubmits)
NoPeer == <<0, 0>>
ConnOf(p) == p[1]

VARIABLES
  client,   \* the signaling client: transport, socket, closedByUser
  net,      \* per WebSocket: its state
  submits,  \* submissions of the join form so far
  awaiting, \* WebSockets whose opening a join flow waits for
  up, down, \* per WebSocket: frames to the server, frames to the tab
  server,   \* per WebSocket: the participant its session holds
  local,    \* the local participant's slice of the store
  media,    \* the media controller's refs
  camera,   \* per call of getUserMedia: what became of it
  manager,  \* the peer the pair manager was made for
  leaveRan, \* the leave path's done latch
  mounted   \* the route is mounted

wires == <<client, net, awaiting, submits>>
slices == <<local, media, camera>>
rest == <<manager, leaveRan, mounted>>
vars == <<wires, up, down, server, slices, rest>>

Transports == {"idle", "connecting", "open", "closed", "error"}

NetStates == {"none", "connecting", "open", "lost", "closing", "closed"}

\* "leaving" is left before the task that entered it ends, and nothing in the
\* code enters "in-room".
LocalFsms == {"idle", "joining", "joined", "acquiring-media", "media-ready",
              "media-error", "released", "signaling-error", "left"}

Up == {"join_room", "media_ready", "media_failed", "leave_room"}
Down == [type : {"join_accepted"}, peer : PeerIds]
        \cup [type : {"join_rejected", "participant_released",
                      "pair_negotiation_instruction"}]

Local == [fsm : LocalFsms, roomId : BOOLEAN, peer : PeerIds \cup {NoPeer}]

InitialLocal == [fsm |-> "idle", roomId |-> FALSE, peer |-> NoPeer]

\* streamRef, acquireGenRef, lastTriggerRef; <<>> for no trigger.
Media == [stream : Captures \cup {NoStream}, gen : Nat,
          trigger : {<<>>} \cup ((PeerIds \cup {NoPeer}) \X Nat)]

\* "prompt": pending; "live": the tracks run; "adrift": they run and the
\* controller dropped the result.
Camera == [status : {"none", "prompt", "live", "adrift", "stopped", "failed"},
           gen : Nat]

NoParticipant == [peer |-> NoPeer, ready |-> FALSE, admissions |-> 0]

\* Type correctness.
SessionTypeOK ==
  /\ client \in [transport : Transports, socket : Sockets \cup {NoSocket},
                 closedByUser : BOOLEAN]
  /\ net \in [Sockets -> NetStates]
  /\ submits \in 0..MaxSubmits /\ awaiting \subseteq Sockets
  /\ up \in [Sockets -> Seq(Up)] /\ down \in [Sockets -> Seq(Down)]
  /\ server \in [Sockets -> [peer : PeerIds \cup {NoPeer}, ready : BOOLEAN,
                             admissions : 0..MaxSubmits]]
  /\ local \in Local /\ media \in Media
  /\ camera \in [Captures -> Camera]
  /\ manager \in PeerIds \cup {NoPeer}
  /\ leaveRan \in BOOLEAN /\ mounted \in BOOLEAN

Init ==
  /\ client = [transport |-> "idle", socket |-> NoSocket, closedByUser |-> FALSE]
  /\ net = [s \in Sockets |-> "none"]
  /\ submits = 0 /\ awaiting = {}
  /\ up = [s \in Sockets |-> <<>>] /\ down = [s \in Sockets |-> <<>>]
  /\ server = [s \in Sockets |-> NoParticipant]
  /\ local = InitialLocal
  /\ media = [stream |-> NoStream, gen |-> 1, trigger |-> <<>>]
  /\ camera = [i \in Captures |-> [status |-> "none", gen |-> 0]]
  /\ manager = NoPeer
  /\ leaveRan = FALSE /\ mounted = TRUE

-----------------------------------------------------------------------------
(***************************************************************************)
(* The reducer of the local slice: one operator per action, of the states  *)
(* it is accepted in.                                                      *)
(***************************************************************************)
JoinRequested(l) ==
  IF l.fsm \in {"idle", "media-error"}
  THEN [l EXCEPT !.fsm = "joining", !.roomId = TRUE] ELSE l

JoinAccepted(l, p) ==
  IF l.fsm = "joining" THEN [l EXCEPT !.fsm = "joined", !.peer = p] ELSE l

JoinRejected(l) == IF l.fsm = "joining" THEN InitialLocal ELSE l

MediaFailed(l) ==
  IF l.fsm = "acquiring-media" THEN [l EXCEPT !.fsm = "media-error"] ELSE l

MediaReady(l) ==
  IF l.fsm = "acquiring-media" THEN [l EXCEPT !.fsm = "media-ready"] ELSE l

ParticipantReleased(l) ==
  IF l.fsm \in {"joined", "acquiring-media", "media-error"}
  THEN [l EXCEPT !.fsm = "released"] ELSE l

\* Variant of TransportChanged with a bug: a loss after the admission is
\* taken for the end of the session's business with the server.
TransportChangedUnnoticed(l, t) ==
  IF t \in {"closed", "error"} /\ l.fsm \notin {"idle", "left", "media-ready"}
  THEN [l EXCEPT !.fsm = "signaling-error"] ELSE l

\* Mid-session, a transport that is lost leaves signaling-error behind.
TransportChanged(l, t) ==
  IF t \in {"closed", "error"} /\ l.fsm \notin {"idle", "left"}
  THEN [l EXCEPT !.fsm = "signaling-error"] ELSE l

-----------------------------------------------------------------------------
(***************************************************************************)
(* The media controller's effects on a change of the machine's state: in   *)
(* joined, one acquisition per trigger; the latch re-armed wherever a      *)
(* later joined must acquire again; the stream dropped out of the room.    *)
(***************************************************************************)
\* Variant of Rearms with a bug: Retry does not re-arm the latch.
RearmsNotOnError == {"idle", "left", "released"}

Rearms == {"idle", "left", "released", "media-error"}
DropsStream == {"idle", "left", "released"}

Stopped(cam, i) ==
  IF i = NoStream THEN cam ELSE [cam EXCEPT ![i].status = "stopped"]

Trigger(l) == <<l.peer, media.gen>>

Acquires(l) == l.fsm = "joined" /\ media.trigger # Trigger(l)

Unused(i) == camera[i].status = "none"
Fresh(i) == Unused(i) /\ \A j \in Captures : j < i => ~ Unused(j)
Prompted(i) ==
  /\ Fresh(i)
  /\ camera' = [camera EXCEPT ![i] = [status |-> "prompt", gen |-> media.gen]]

\* The slice becomes l, and the effects of that run.
Rendered(l) ==
  IF Acquires(l)
  THEN \E i \in Captures :
         /\ Prompted(i)
         /\ media' = [media EXCEPT !.trigger = Trigger(l)]
         /\ local' = [l EXCEPT !.fsm = "acquiring-media"]
  ELSE LET entered(states) == l.fsm # local.fsm /\ l.fsm \in states
           rearmed == IF entered(Rearms)
                      THEN [media EXCEPT !.gen = @ + 1, !.trigger = <<>>]
                      ELSE media
       IN /\ local' = l
          /\ camera' = IF entered(DropsStream)
                       THEN Stopped(camera, media.stream) ELSE camera
          /\ media' = IF entered(DropsStream)
                      THEN [rearmed EXCEPT !.stream = NoStream] ELSE rearmed

\* A dispatch on an unmounted route reaches a store nobody renders.
Dispatched(l) ==
  IF mounted THEN Rendered(l) ELSE local' = l /\ UNCHANGED <<media, camera>>

-----------------------------------------------------------------------------
(***************************************************************************)
(* The signaling client.                                                   *)
(***************************************************************************)
\* readyState is OPEN until the browser learns of a loss.
Sendable == client.socket # NoSocket /\ net[client.socket] \in {"open", "lost"}

\* send: what is sent on a lost WebSocket gets nowhere.
Sent(msg) ==
  IF net[client.socket] = "open"
  THEN up' = [up EXCEPT ![client.socket] = Append(@, msg)] ELSE UNCHANGED up

\* connect, of the WebSocket s.
Connect(s) ==
  /\ net[s] = "none" /\ \A t \in Sockets : t < s => net[t] # "none"
  /\ net' = [net EXCEPT ![s] = "connecting"]
  /\ client' = [transport |-> "connecting", socket |-> s, closedByUser |-> FALSE]
  /\ awaiting' = awaiting \cup {s}

\* close: the socket is forgotten at once and closes in its own time.
CloseSocket ==
  /\ client' = [client EXCEPT !.closedByUser = TRUE, !.socket = NoSocket,
                              !.transport = "closed"]
  /\ net' = IF client.socket # NoSocket
               /\ net[client.socket] \in {"connecting", "open", "lost"}
            THEN [net EXCEPT ![client.socket] =
                    IF @ = "lost" THEN "lost" ELSE "closing"]
            ELSE net

InUse(s) == client.socket = s

\* JoinForm: the form is disabled while joining or admitted.
FormDisabled ==
  local.fsm \in {"joining", "joined", "acquiring-media", "media-ready",
                 "media-error"}

\* The join flow after connect: a failed send resets the slice.
SendJoin(l) ==
  IF Sendable THEN Sent("join_room") /\ Dispatched(l)
  ELSE UNCHANGED up /\ Dispatched(InitialLocal)

Submit ==
  /\ mounted /\ ~ FormDisabled
  /\ submits < MaxSubmits /\ submits' = submits + 1
  /\ IF client.socket # NoSocket /\ client.transport \in {"connecting", "open"}
     THEN /\ SendJoin(JoinRequested(local))
          /\ UNCHANGED <<client, net, awaiting>>
     ELSE /\ \E s \in Sockets : Connect(s)
          /\ Dispatched(JoinRequested(local))
          /\ UNCHANGED up
  /\ UNCHANGED <<down, server, rest>>

\* onopen, and the join flow that waited for it.
Opened(s) ==
  /\ net[s] = "connecting"
  /\ net' = [net EXCEPT ![s] = "open"]
  /\ client' = [client EXCEPT !.transport = "open"]
  /\ awaiting' = awaiting \ {s}
  /\ IF client.socket = s
     THEN up' = [up EXCEPT ![s] = Append(@, "join_room")] /\ Dispatched(local)
     ELSE SendJoin(local)
  /\ UNCHANGED <<submits, down, server, rest>>

\* onclose, whatever the socket in use by then; a join flow that waited for
\* the opening resets the slice.
OnClose(s) ==
  LET t == IF client.closedByUser THEN "closed" ELSE "error"
      l == IF t = client.transport THEN local ELSE TransportChanged(local, t)
  IN /\ net[s] \in {"connecting", "lost", "closing"}
     /\ net[s] = "lost" => down[s] = <<>>
     /\ net' = [net EXCEPT ![s] = "closed"]
     /\ down' = [down EXCEPT ![s] = <<>>]
     /\ client' = [client EXCEPT !.socket = NoSocket, !.transport = t]
     /\ awaiting' = awaiting \ {s}
     /\ Dispatched(IF s \in awaiting THEN InitialLocal ELSE l)
     /\ UNCHANGED <<submits, up, server, rest>>

-----------------------------------------------------------------------------
(***************************************************************************)
(* The server, one goroutine per WebSocket.                                *)
(***************************************************************************)
Reply(s, msg) == down' = [down EXCEPT ![s] = Append(@, msg)]

Serve(s, msg) ==
  LET p == server[s].peer
  IN CASE msg = "join_room" /\ p = NoPeer ->
            \/ LET n == server[s].admissions + 1
               IN /\ server' = [server EXCEPT ![s] =
                        [peer |-> <<s, n>>, ready |-> FALSE, admissions |-> n]]
                  /\ Reply(s, [type |-> "join_accepted", peer |-> <<s, n>>])
            \/ /\ Reply(s, [type |-> "join_rejected"])
               /\ UNCHANGED server
       [] msg = "media_ready" /\ p # NoPeer /\ ~ server[s].ready ->
            \* with or without another media-ready peer in the room
            /\ server' = [server EXCEPT ![s].ready = TRUE]
            /\ \/ Reply(s, [type |-> "pair_negotiation_instruction"])
               \/ UNCHANGED down
       [] msg = "media_failed" /\ p # NoPeer ->
            /\ server' = [server EXCEPT ![s].peer = NoPeer, ![s].ready = FALSE]
            /\ Reply(s, [type |-> "participant_released"])
       [] msg = "leave_room" /\ p # NoPeer ->
            /\ server' = [server EXCEPT ![s].peer = NoPeer, ![s].ready = FALSE]
            /\ UNCHANGED down
       [] OTHER -> UNCHANGED <<server, down>>

\* The frames sent before a close are read before it.
ServerReads(s) ==
  /\ net[s] \in {"open", "closing", "closed"} /\ up[s] # <<>>
  /\ up' = [up EXCEPT ![s] = Tail(@)]
  /\ Serve(s, Head(up[s]))
  /\ UNCHANGED <<wires, slices, rest>>

\* handleMeshDisconnect.
ServerSeesEnd(s) ==
  /\ net[s] \in {"lost", "closing", "closed"} /\ up[s] = <<>>
  /\ server[s].peer # NoPeer
  /\ server' = [server EXCEPT ![s].peer = NoPeer, ![s].ready = FALSE]
  /\ UNCHANGED <<wires, up, down, slices, rest>>

\* The network, or the server, goes away; what was under way may be lost.
Lose(s) ==
  /\ net[s] = "open"
  /\ net' = [net EXCEPT ![s] = "lost"]
  /\ up' = [up EXCEPT ![s] = <<>>] /\ down' = [down EXCEPT ![s] = <<>>]
  /\ UNCHANGED <<client, awaiting, submits, server, slices, rest>>

-----------------------------------------------------------------------------
(***************************************************************************)
(* The dispatcher.                                                         *)
(***************************************************************************)
Receive(s, type) ==
  /\ net[s] \in {"open", "lost"} /\ down[s] # <<>> /\ Head(down[s]).type = type
  /\ down' = [down EXCEPT ![s] = Tail(@)]
  /\ UNCHANGED <<submits, awaiting, up, server, mounted>>

OnJoinAccepted(s) ==
  /\ Receive(s, "join_accepted")
  /\ Dispatched(JoinAccepted(local, Head(down[s]).peer))
  /\ UNCHANGED <<client, net, manager, leaveRan>>

\* The close reports a lost transport: a rejection that the slice ignores
\* leaves signaling-error.
OnJoinRejected(s) ==
  LET l == JoinRejected(local)
  IN /\ Receive(s, "join_rejected")
     /\ Dispatched(IF client.transport = "closed" THEN l
                   ELSE TransportChanged(l, "closed"))
     /\ CloseSocket
     /\ UNCHANGED <<submits, manager, leaveRan>>

OnParticipantReleased(s) ==
  /\ Receive(s, "participant_released")
  /\ Dispatched(ParticipantReleased(local))
  /\ UNCHANGED <<client, net, manager, leaveRan>>

\* ensurePairManager; a new manager also makes the controls rebuild the
\* leave path.
OnPairInstruction(s) ==
  /\ Receive(s, "pair_negotiation_instruction")
  /\ IF /\ manager = NoPeer /\ local.fsm = "media-ready"
        /\ local.roomId /\ media.stream # NoStream
     THEN manager' = local.peer /\ leaveRan' = FALSE
     ELSE UNCHANGED <<manager, leaveRan>>
  /\ UNCHANGED <<client, net, local, media, camera>>

-----------------------------------------------------------------------------
(***************************************************************************)
(* The media controller after getUserMedia.                                *)
(***************************************************************************)
Answering == UNCHANGED <<wires, down, server, rest>>

\* Variant of Superseded with a bug: a late stream is used whatever happened.
NeverSuperseded(i) == FALSE

\* A reset or a new admission happened since the acquisition started.
Superseded(i) == camera[i].gen # media.gen

\* The effects of media-error, after the stream became str.
FailedWith(str) ==
  LET l == MediaFailed(local)
  IN /\ local' = l
     /\ media' = IF mounted /\ l.fsm # local.fsm /\ l.fsm \in Rearms
                 THEN [stream |-> str, gen |-> media.gen + 1, trigger |-> <<>>]
                 ELSE [media EXCEPT !.stream = str]

\* Variant of AcquireSucceeds with a bug: a retry announces nothing.
AcquireSucceedsOnce(i) ==
  /\ camera[i].status = "prompt"
  /\ IF Superseded(i)
     THEN /\ camera' = [camera EXCEPT ![i].status = "adrift"]
          /\ UNCHANGED <<up, local, media>>
     ELSE /\ IF media.gen = 1 /\ Sendable THEN Sent("media_ready")
             ELSE UNCHANGED up
          /\ camera' = [camera EXCEPT ![i].status = "live"]
          /\ local' = MediaReady(local)
          /\ media' = [media EXCEPT !.stream = i]
  /\ Answering

AcquireSucceeds(i) ==
  /\ camera[i].status = "prompt"
  /\ IF Superseded(i)
     THEN /\ camera' = [camera EXCEPT ![i].status = "adrift"]
          /\ UNCHANGED <<up, local, media>>
     ELSE IF Sendable
     THEN /\ Sent("media_ready")
          /\ camera' = [camera EXCEPT ![i].status = "live"]
          /\ local' = MediaReady(local)
          /\ media' = [media EXCEPT !.stream = i]
     ELSE /\ camera' = [camera EXCEPT ![i].status = "stopped"]
          /\ FailedWith(NoStream)
          /\ UNCHANGED up
  /\ Answering

AcquireFails(i) ==
  /\ camera[i].status = "prompt"
  /\ camera' = [camera EXCEPT ![i].status = "failed"]
  /\ IF Superseded(i) THEN UNCHANGED <<up, local, media>>
     ELSE /\ IF Sendable THEN Sent("media_failed") ELSE UNCHANGED up
          /\ FailedWith(media.stream)
  /\ Answering

\* MediaErrorBanner: Retry, or after a release "Return to lobby".
Retry ==
  /\ mounted
  /\ \/ local.fsm = "media-error" /\ Dispatched([local EXCEPT !.fsm = "joined"])
     \/ local.fsm = "released" /\ Dispatched(InitialLocal)
  /\ UNCHANGED <<wires, up, down, server, rest>>

-----------------------------------------------------------------------------
(***************************************************************************)
(* Leaving.                                                                *)
(***************************************************************************)
LeaveBody ==
  /\ IF local.roomId /\ client.transport = "open" /\ Sendable
     THEN Sent("leave_room") ELSE UNCHANGED up
  /\ CloseSocket
  /\ Dispatched([InitialLocal EXCEPT !.fsm = "left"])
  /\ leaveRan' = TRUE
  /\ UNCHANGED <<submits, awaiting, down, server, manager, mounted>>

\* The Leave button: leavePath.run.
Leave ==
  /\ mounted /\ local.fsm \notin {"idle", "left"} /\ ~ leaveRan
  /\ LeaveBody

\* The user navigates away: the controller drops the stream and the provider
\* closes the socket.
Unmount ==
  /\ mounted /\ mounted' = FALSE
  /\ camera' = Stopped(camera, media.stream)
  /\ media' = [media EXCEPT !.stream = NoStream]
  /\ manager' = NoPeer
  /\ CloseSocket
  /\ UNCHANGED <<submits, awaiting, up, down, server, local, leaveRan>>

-----------------------------------------------------------------------------
User == Submit \/ Retry \/ Leave \/ Unmount

Network(s) == Opened(s) \/ OnClose(s)

Handle(s) ==
  \/ OnJoinAccepted(s) \/ OnJoinRejected(s)
  \/ OnParticipantReleased(s) \/ OnPairInstruction(s)

Answer(i) == AcquireSucceeds(i) \/ AcquireFails(i)

Next ==
  \/ User
  \/ \E s \in Sockets :
       Network(s) \/ Lose(s) \/ ServerReads(s) \/ ServerSeesEnd(s) \/ Handle(s)
  \/ \E i \in Captures : Answer(i)

Spec == Init /\ [][Next]_vars

\* A connection attempt and a close end, the server reads what it was sent
\* and notices an end (its heartbeat), the browser delivers what it received,
\* and getUserMedia answers; nothing makes the user click.
FairSpec ==
  /\ Spec
  /\ \A s \in Sockets :
       WF_vars(Network(s)) /\ WF_vars(ServerReads(s))
       /\ WF_vars(ServerSeesEnd(s)) /\ WF_vars(Handle(s))
  /\ \A i \in Captures : WF_vars(Answer(i))
-----------------------------------------------------------------------------
(* Properties. *)

\* Out of a room no camera runs but one whose acquisition was still pending
\* when the room was left, and no two streams the controller took run at
\* once: whatever the order of retries, releases, leaves and late answers
\* of getUserMedia (mediaAcquisition.ts).
CameraFollowsSession ==
  /\ \A i \in Captures : camera[i].status = "live" => media.stream = i
  /\ local.fsm \in {"idle", "left", "released"} \/ ~ mounted =>
       \A i \in Captures : camera[i].status # "live"

Admitted == {"joined", "acquiring-media", "media-ready", "media-error"}

\* An admitted tab talks over the WebSocket it was admitted on, the one the
\* signaling client refers to, if that is the last it opened: one left behind
\* by a WebSocket that closed later than it should have, and cleared the
\* reference to it, can still deliver a join_accepted to the next join
\* (client.ts:113-115).
LastSocket(s) == \A t \in Sockets : t > s => net[t] = "none"

SessionHasItsSocket ==
  mounted /\ local.fsm \in Admitted /\ LastSocket(ConnOf(local.peer)) =>
    client.transport = "open" /\ client.socket = ConnOf(local.peer)

\* A tab that shows itself media-ready has told the server, for the very
\* admission it shows: the server has it media-ready, or will, or released
\* it, or the connection is lost; under the same condition
\* (mediaAcquisition.ts F-2).
Released(p) == server[ConnOf(p)].peer # p

ReadyIsAnnounced ==
  mounted /\ local.fsm = "media-ready" /\ LastSocket(ConnOf(local.peer)) =>
    LET s == ConnOf(local.peer)
    IN \/ net[s] # "open" \/ Released(local.peer)
       \/ server[s].ready
       \/ \E i \in DOMAIN up[s] : up[s][i] = "media_ready"

\* An acquisition always comes to an end the user can see, after every Retry
\* too (the latch of mediaAcquisition.ts:58-60 never swallows one).
AcquisitionConcludes ==
  local.fsm \in {"joined", "acquiring-media"}
    ~> local.fsm \notin {"joined", "acquiring-media"} \/ ~ mounted

\* spec.md:1198 (FR-081): leaving "MUST stop all local media tracks (camera,
\* microphone, screen share if active)".
LeavingStopsTheCamera ==
  local.fsm = "left" => \A i \in Captures : camera[i].status # "adrift"

=============================================================================
