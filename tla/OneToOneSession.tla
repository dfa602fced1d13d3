-------------------------- MODULE OneToOneSession --------------------------
(***************************************************************************)
(* The session of one one-to-one tab: the join form and the failure panel, *)
(* the signaling client and its WebSockets, the session slice, the local   *)
(* media provider and the clean-up of a leave, with one goroutine of the   *)
(* server per WebSocket.  What goes on between the tabs of a pair is the   *)
(* matter of OneToOneCall.                                                 *)
(*                                                                         *)
(* A dispatch re-renders and runs the effects before the next task, so an  *)
(* event handler, its dispatches and the effects they cause are one step.  *)
(***************************************************************************)
EXTENDS Naturals, Sequences

CONSTANTS
  MaxSockets,   \* bound: WebSockets the tab opens
  MaxJoins,     \* bound: clicks on Join, Retry and Rejoin
  MaxCaptures,  \* bound: calls of getUserMedia
  MaxBacklog    \* bound: frames to the tab that another peer adds to

ASSUME BoundsAssumption ==
  /\ MaxSockets \in Nat \ {0}
  /\ MaxJoins \in Nat \ {0} /\ MaxCaptures \in Nat \ {0}
  /\ MaxBacklog \in Nat \ {0}

Sockets == 1..MaxSockets
NoSocket == 0
Captures == 1..MaxCaptures
NoCapture == 0

\* A peer ID, by the connection it was given to and its turn there.
PeerIds == Sockets \X (1..MaxJoins)
NoPeer == <<0, 0>>
ConnOf(p) == p[1]

VARIABLES
  client,    \* the signaling client: transport, socket, closed
  net,       \* per WebSocket: its state
  joins,     \* clicks on Join, Retry and Rejoin so far
  awaiting,  \* per WebSocket: who waits for its opening, to send join_room
  up, down,  \* per WebSocket: frames to the server, frames to the tab
  server,    \* per WebSocket: the participant its session holds
  slice,     \* the session slice of the store
  stream,    \* the media provider's streamRef
  acquiring, \* the getUserMedia the provider's effect still waits for
  camera,    \* per call of getUserMedia: what became of it
  mounted    \* the route is mounted

wires == <<client, net, joins, awaiting>>
media == <<stream, acquiring, camera>>
vars == <<wires, up, down, server, slice, media, mounted>>

Sessions == {"idle", "joining", "pending-media", "media-error",
             "waiting-for-peer", "connecting", "connected", "failed"}

Transports == {"disconnected", "connecting", "connected", "error"}
NetStates == {"none", "connecting", "open", "lost", "closing", "closed"}

Up == {"join_room", "media_ready", "media_failed", "leave_room"}
Down == [type : {"join_accepted"}, peer : PeerIds]
        \cup [type : {"join_rejected", "participant_released",
                      "ready_for_offer", "peer_left"}]

InitialSlice == [session |-> "idle", roomId |-> FALSE, selfPeerId |-> NoPeer]

NoParticipant == [peer |-> NoPeer, ready |-> FALSE, paired |-> FALSE,
                  admissions |-> 0]

\* Type correctness.
SessionTypeOK ==
  /\ client \in [transport : Transports, socket : Sockets \cup {NoSocket},
                 closed : BOOLEAN]
  /\ net \in [Sockets -> NetStates]
  /\ joins \in 0..MaxJoins
  /\ awaiting \in [Sockets -> {"none", "form", "panel"}]
  /\ up \in [Sockets -> Seq(Up)] /\ down \in [Sockets -> Seq(Down)]
  /\ server \in [Sockets -> [peer : PeerIds \cup {NoPeer}, ready : BOOLEAN,
                             paired : BOOLEAN, admissions : 0..MaxJoins]]
  /\ slice \in [session : Sessions, roomId : BOOLEAN,
                selfPeerId : PeerIds \cup {NoPeer}]
  /\ stream \in Captures \cup {NoCapture}
  /\ acquiring \in Captures \cup {NoCapture}
  /\ camera \in [Captures -> {"none", "prompt", "live", "stopped", "failed"}]
  /\ mounted \in BOOLEAN

Init ==
  /\ client = [transport |-> "disconnected", socket |-> NoSocket,
               closed |-> FALSE]
  /\ net = [s \in Sockets |-> "none"]
  /\ joins = 0 /\ awaiting = [s \in Sockets |-> "none"]
  /\ up = [s \in Sockets |-> <<>>] /\ down = [s \in Sockets |-> <<>>]
  /\ server = [s \in Sockets |-> NoParticipant]
  /\ slice = InitialSlice
  /\ stream = NoCapture /\ acquiring = NoCapture
  /\ camera = [i \in Captures |-> "none"]
  /\ mounted = TRUE

-----------------------------------------------------------------------------
(***************************************************************************)
(* The reducer: one operator per action, of the states it is accepted in.  *)
(* Where the code throws IllegalSessionTransitionError the handler ends    *)
(* and the slice is as it was.                                             *)
(***************************************************************************)
In(l, states) == l.session \in states
To(l, state) == [l EXCEPT !.session = state]

JoinRequested(l) ==
  IF In(l, {"idle"})
  THEN [InitialSlice EXCEPT !.session = "joining", !.roomId = TRUE] ELSE l

RetryRequested(l) ==
  IF In(l, {"media-error"})
  THEN [l EXCEPT !.session = "joining", !.selfPeerId = NoPeer] ELSE l

JoinAccepted(l, p) ==
  IF In(l, {"joining"})
  THEN [l EXCEPT !.session = "pending-media", !.selfPeerId = p] ELSE l

JoinRejected(l) == IF In(l, {"joining"}) THEN InitialSlice ELSE l

MediaReadySent(l) ==
  IF In(l, {"pending-media"}) THEN To(l, "waiting-for-peer") ELSE l

ParticipantReleased(l) ==
  IF In(l, {"pending-media"}) THEN To(l, "media-error") ELSE l

ReadyForOffer(l) ==
  IF In(l, {"waiting-for-peer"}) THEN To(l, "connecting") ELSE l

ConnectionEstablished(l) ==
  IF In(l, {"connecting"}) THEN To(l, "connected") ELSE l

PeerLeft(l) ==
  IF In(l, {"connecting", "connected"}) THEN To(l, "waiting-for-peer") ELSE l

ConnectionFailed(l) ==
  IF In(l, {"joining", "pending-media", "waiting-for-peer", "connecting",
            "connected"})
  THEN To(l, "failed") ELSE l

\* cleanup.tsx, on a transport change: a connected call goes on without it.
TransportChanged(l, t) ==
  IF t = "error" /\ ~ In(l, {"connected"}) THEN ConnectionFailed(l) ELSE l

-----------------------------------------------------------------------------
(***************************************************************************)
(* The media provider's effect, which runs again on every change of the    *)
(* session's state or room: what it still waited for is cancelled.         *)
(***************************************************************************)
Stopped(cam, i) == IF i = NoCapture THEN cam ELSE [cam EXCEPT ![i] = "stopped"]

Fresh(i) ==
  camera[i] = "none" /\ \A j \in Captures : j < i => camera[j] # "none"

\* The slice becomes l, with the stream as str and the calls as cam.
RenderedWith(l, str, cam) ==
  /\ slice' = l
  /\ IF ~ mounted \/ <<l.session, l.roomId>> = <<slice.session, slice.roomId>>
     THEN stream' = str /\ camera' = cam /\ UNCHANGED acquiring
     ELSE \/ /\ In(l, {"pending-media"}) /\ str = NoCapture
             /\ \E i \in Captures :
                  /\ Fresh(i)
                  /\ camera' = [cam EXCEPT ![i] = "prompt"]
                  /\ acquiring' = i
             /\ stream' = str
          \/ /\ ~ (In(l, {"pending-media"}) /\ str = NoCapture)
             /\ acquiring' = NoCapture
             /\ IF In(l, {"idle"})
                THEN stream' = NoCapture /\ camera' = Stopped(cam, str)
                ELSE stream' = str /\ camera' = cam

Rendered(l) == RenderedWith(l, stream, camera)

-----------------------------------------------------------------------------
(* The signaling client. *)

\* readyState is OPEN until the browser learns of a loss.
Sendable == client.socket # NoSocket /\ net[client.socket] \in {"open", "lost"}

\* send: what is sent on a lost WebSocket gets nowhere.
Sent(msg) ==
  up' = IF Sendable /\ net[client.socket] = "open"
        THEN [up EXCEPT ![client.socket] = Append(@, msg)] ELSE up

\* connect, of the WebSocket s, in a network n.
Connect(s, n, who) ==
  /\ net[s] = "none" /\ \A t \in Sockets : t < s => net[t] # "none"
  /\ net' = [n EXCEPT ![s] = "connecting"]
  /\ awaiting' = [awaiting EXCEPT ![s] = who]
  /\ client' = [transport |-> "connecting", socket |-> s, closed |-> FALSE]

\* close, in a network n: the socket is forgotten at once and closes in its
\* own time.
NetAfterClose(n) ==
  IF client.socket # NoSocket /\ n[client.socket] \in {"connecting", "open"}
  THEN [n EXCEPT ![client.socket] = "closing"] ELSE n
ClientAfterClose ==
  [transport |-> "disconnected", socket |-> NoSocket, closed |-> TRUE]

Budget == joins < MaxJoins /\ joins' = joins + 1   \* bound

\* runJoinFlow, with the slice at l: connect does nothing while a socket is
\* open, and a failed send resets the slice.
RunJoinFlow(l) ==
  IF /\ client.socket # NoSocket
     /\ client.transport \in {"connecting", "connected"}
  THEN /\ Sent("join_room")
       /\ Rendered(IF Sendable THEN l ELSE InitialSlice)
       /\ UNCHANGED <<client, net, awaiting>>
  ELSE /\ \E s \in Sockets : Connect(s, net, "form")
       /\ Rendered(l)
       /\ UNCHANGED up

\* JoinForm; in failed the form is there but JOIN_REQUESTED throws.
Submit ==
  /\ mounted /\ In(slice, {"idle"}) /\ Budget
  /\ RunJoinFlow(JoinRequested(slice))
  /\ UNCHANGED <<down, server, mounted>>

\* Retry, on the same WebSocket if it is still there.
Retry ==
  /\ mounted /\ In(slice, {"media-error"}) /\ Budget
  /\ RunJoinFlow(RetryRequested(slice))
  /\ UNCHANGED <<down, server, mounted>>

\* onopen, and the join flow that waited for it: its send is refused when the
\* client refers to another socket, or to none.
Opened(s) ==
  /\ net[s] = "connecting"
  /\ net' = [net EXCEPT ![s] = "open"]
  /\ client' = [client EXCEPT !.transport = "connected"]
  /\ awaiting' = [awaiting EXCEPT ![s] = "none"]
  /\ IF client.socket # NoSocket /\ net'[client.socket] \in {"open", "lost"}
     THEN /\ up' = IF net'[client.socket] = "open"
                   THEN [up EXCEPT ![client.socket] = Append(@, "join_room")]
                   ELSE up
          /\ Rendered(slice)
     ELSE Rendered(InitialSlice) /\ UNCHANGED up
  /\ UNCHANGED <<joins, down, server, mounted>>

\* Variant of OnClose with a bug: the transport reports no error.
OnCloseSilently(s) ==
  /\ net[s] \in {"connecting", "lost", "closing"}
  /\ net' = [net EXCEPT ![s] = "closed"]
  /\ down' = [down EXCEPT ![s] = <<>>]
  /\ client' = [client EXCEPT !.socket = NoSocket, !.transport = "disconnected"]
  /\ awaiting' = [awaiting EXCEPT ![s] = "none"]
  /\ Rendered(IF awaiting[s] # "none" THEN InitialSlice ELSE slice)
  /\ UNCHANGED <<joins, up, server, mounted>>

\* onclose, whatever the socket in use by then; a join flow that waited for
\* the opening resets the slice.
OnClose(s) ==
  LET t == IF client.closed THEN "disconnected" ELSE "error"
      l == IF t = client.transport THEN slice ELSE TransportChanged(slice, t)
  IN /\ net[s] \in {"connecting", "lost", "closing"}
     /\ net' = [net EXCEPT ![s] = "closed"]
     /\ down' = [down EXCEPT ![s] = <<>>]
     /\ client' = [client EXCEPT !.socket = NoSocket, !.transport = t]
     /\ awaiting' = [awaiting EXCEPT ![s] = "none"]
     /\ Rendered(IF awaiting[s] # "none" THEN InitialSlice ELSE l)
     /\ UNCHANGED <<joins, up, server, mounted>>

-----------------------------------------------------------------------------
(* The server, one goroutine per WebSocket. *)

Reply(s, msg) == down' = [down EXCEPT ![s] = Append(@, msg)]

Released(s) == [server EXCEPT ![s] =
                  [NoParticipant EXCEPT !.admissions = server[s].admissions]]

Serve(s, msg) ==
  LET p == server[s].peer
      n == server[s].admissions + 1
  IN \/ /\ msg = "join_room" /\ p = NoPeer
        /\ \/ /\ server' = [server EXCEPT ![s].peer = <<s, n>>,
                                         ![s].admissions = n]
              /\ Reply(s, [type |-> "join_accepted", peer |-> <<s, n>>])
           \/ Reply(s, [type |-> "join_rejected"]) /\ UNCHANGED server
     \/ /\ msg = "media_ready" /\ p # NoPeer
        /\ server' = [server EXCEPT ![s].ready = TRUE]
        /\ UNCHANGED down
     \/ /\ msg = "media_failed" /\ p # NoPeer
        /\ server' = Released(s)
        /\ Reply(s, [type |-> "participant_released"])
     \/ /\ msg = "leave_room" /\ p # NoPeer
        /\ server' = Released(s)
        /\ UNCHANGED down
     \/ /\ (msg = "join_room") <=> (p # NoPeer)   \* an error frame
        /\ UNCHANGED <<server, down>>

\* The frames sent before a close are read before it.
ServerReads(s) ==
  /\ net[s] \in {"open", "closing", "closed"} /\ up[s] # <<>>
  /\ up' = [up EXCEPT ![s] = Tail(@)]
  /\ Serve(s, Head(up[s]))
  /\ UNCHANGED <<wires, slice, media, mounted>>

ServerSeesEnd(s) ==
  /\ net[s] \in {"lost", "closing", "closed"} /\ up[s] = <<>>
  /\ server[s].peer # NoPeer
  /\ server' = Released(s)
  /\ UNCHANGED <<wires, up, down, slice, media, mounted>>

\* Another peer becomes ready, or the one there is leaves.
OtherPeer(s) ==
  /\ net[s] = "open" /\ server[s].ready
  /\ Len(down[s]) < MaxBacklog   \* bound
  /\ server' = [server EXCEPT ![s].paired = ~ @]
  /\ Reply(s, [type |-> IF server[s].paired THEN "peer_left"
                        ELSE "ready_for_offer"])
  /\ UNCHANGED <<wires, up, slice, media, mounted>>

\* The network, or the server, goes away; what was under way may be lost.
Lose(s) ==
  /\ net[s] = "open"
  /\ net' = [net EXCEPT ![s] = "lost"]
  /\ up' = [up EXCEPT ![s] = <<>>] /\ down' = [down EXCEPT ![s] = <<>>]
  /\ UNCHANGED <<client, joins, awaiting, server, slice, media, mounted>>

-----------------------------------------------------------------------------
(* The dispatcher, and the frame listeners of the clean-up and connection. *)

Receive(s, type) ==
  /\ mounted
  /\ net[s] \in {"open", "lost"} /\ down[s] # <<>> /\ Head(down[s]).type = type
  /\ down' = [down EXCEPT ![s] = Tail(@)]
  /\ UNCHANGED <<joins, awaiting, up, server, mounted>>

\* A message that only changes the slice.
Handled(s, type, l) ==
  Receive(s, type) /\ Rendered(l) /\ UNCHANGED <<client, net>>

\* Where the reducer throws, the close is not reached.
OnJoinRejected(s) ==
  /\ Receive(s, "join_rejected")
  /\ Rendered(JoinRejected(slice))
  /\ IF In(slice, {"joining"})
     THEN client' = ClientAfterClose /\ net' = NetAfterClose(net)
     ELSE UNCHANGED <<client, net>>

Handle(s) ==
  \/ down[s] # <<>> /\ Handled(s, "join_accepted",
                              JoinAccepted(slice, Head(down[s]).peer))
  \/ OnJoinRejected(s)
  \/ Handled(s, "participant_released", ParticipantReleased(slice))
  \/ Handled(s, "ready_for_offer", ReadyForOffer(slice))
  \/ Handled(s, "peer_left", PeerLeft(slice))

\* The connection's own events: connected, and Path C.
ConnectionEvent ==
  /\ mounted
  /\ \/ In(slice, {"connecting"}) /\ Rendered(ConnectionEstablished(slice))
     \/ /\ In(slice, {"connecting", "connected"})
        /\ Rendered(ConnectionFailed(slice))
  /\ UNCHANGED <<wires, up, down, server, mounted>>

-----------------------------------------------------------------------------
(* The media provider after getUserMedia. *)

\* Variant of Cancelled with a bug: a late stream is used whatever happened.
NeverCancelled(i) == FALSE

Cancelled(i) == acquiring # i

\* A send that fails is swallowed, and the slice moves on.
AcquireSucceeds(i) ==
  /\ camera[i] = "prompt"
  /\ IF Cancelled(i)
     THEN camera' = [camera EXCEPT ![i] = "stopped"]
          /\ UNCHANGED <<up, slice, stream, acquiring>>
     ELSE /\ Sent("media_ready")
          /\ RenderedWith(MediaReadySent(slice), i,
                          [camera EXCEPT ![i] = "live"])
  /\ UNCHANGED <<wires, down, server, mounted>>

\* Variant of AcquireFails with a bug: the failure is not reported.
AcquireFailsUnreported(i) ==
  /\ camera[i] = "prompt"
  /\ camera' = [camera EXCEPT ![i] = "failed"]
  /\ UNCHANGED <<wires, up, down, server, slice, stream, acquiring, mounted>>

\* The slice waits for the server's participant_released.
AcquireFails(i) ==
  /\ camera[i] = "prompt"
  /\ camera' = [camera EXCEPT ![i] = "failed"]
  /\ IF Cancelled(i) THEN UNCHANGED up ELSE Sent("media_failed")
  /\ UNCHANGED <<wires, down, server, slice, stream, acquiring, mounted>>

-----------------------------------------------------------------------------
(***************************************************************************)
(* Leaving: leaveSession releases the stream, tears the connection down,   *)
(* sends leave_room where that is allowed, closes the client and resets    *)
(* the slice.                                                              *)
(***************************************************************************)
CanSendLeaveRoom ==
  slice.roomId /\ client.transport = "connected"
  /\ ~ In(slice, {"idle", "failed"})

\* The failure panel's latch: its buttons are off during a rejoin.
PanelBusy == \E s \in Sockets : awaiting[s] = "panel"

\* The buttons of the join form, and of the failure panel.  The stop of the
\* screen share that Leave awaits, OneToOneScreenShare has as a step of its own.
Leave ==
  /\ mounted /\ ~ In(slice, {"idle", "joining"})
  /\ ~ (In(slice, {"failed"}) /\ PanelBusy)
  /\ IF CanSendLeaveRoom THEN Sent("leave_room") ELSE UNCHANGED up
  /\ client' = ClientAfterClose /\ net' = NetAfterClose(net)
  /\ Rendered(InitialSlice)
  /\ UNCHANGED <<joins, awaiting, down, server, mounted>>

\* The failure panel: leaveSession, then JOIN_REQUESTED and a fresh socket;
\* the close of the old one is still under way.
Rejoin ==
  /\ mounted /\ In(slice, {"failed"}) /\ slice.roomId /\ Budget
  /\ ~ PanelBusy
  /\ \E s \in Sockets : Connect(s, NetAfterClose(net), "panel")
  /\ slice' = JoinRequested(InitialSlice)
  /\ stream' = NoCapture /\ camera' = Stopped(camera, stream)
  /\ acquiring' = NoCapture
  /\ UNCHANGED <<up, down, server, mounted>>

\* The user navigates away: the stream is stopped and nothing is listened to
\* any more, but the socket stays open.
Unmount ==
  /\ mounted /\ mounted' = FALSE
  /\ camera' = Stopped(camera, stream) /\ stream' = NoCapture
  /\ acquiring' = NoCapture
  /\ UNCHANGED <<wires, up, down, server, slice>>

-----------------------------------------------------------------------------
User == Submit \/ Retry \/ Leave \/ Rejoin \/ Unmount

Network(s) == Opened(s) \/ OnClose(s)

Answer(i) == AcquireSucceeds(i) \/ AcquireFails(i)

Next ==
  \/ User \/ ConnectionEvent
  \/ \E s \in Sockets :
       \/ Network(s) \/ Lose(s) \/ Handle(s)
       \/ ServerReads(s) \/ ServerSeesEnd(s) \/ OtherPeer(s)
  \/ \E i \in Captures : Answer(i)

Spec == Init /\ [][Next]_vars

\* A connection attempt and a close end, the server reads what it was sent
\* and notices an end (its heartbeat), the browser delivers what it received,
\* and getUserMedia answers; nothing makes the user click.
FairSpec ==
  /\ Spec
  /\ \A s \in Sockets :
       WF_vars(Network(s)) /\ WF_vars(ServerReads(s))
       /\ WF_vars(ServerSeesEnd(s)) /\ WF_vars(Handle(s))
  /\ \A i \in Captures : WF_vars(Answer(i))

-----------------------------------------------------------------------------
(* Properties. *)

\* A camera runs only while the provider holds its stream, and out of a room,
\* or when its route is gone, none does, however late getUserMedia answers:
\* the effect that asked for it has been cancelled (local-media-provider.tsx).
CameraFollowsSession ==
  /\ \A i \in Captures : camera[i] = "live" => stream = i
  /\ In(slice, {"idle", "joining", "media-error"}) \/ ~ mounted =>
       \A i \in Captures : camera[i] # "live"

\* WebSockets still open that the client no longer refers to: the close of
\* an older one has cleared its reference (client.ts, onclose).
LeftBehind ==
  {s \in Sockets \ {client.socket} : net[s] \in {"connecting", "open", "lost"}}

\* A tab that is in a room and not yet in a call talks over the WebSocket it
\* was admitted on, unless one was left behind, or it shows that the transport
\* is in error: a loss never goes unnoticed (client.ts, cleanup.tsx).
SessionHasItsSocket ==
  /\ mounted /\ In(slice, {"pending-media", "waiting-for-peer", "connecting"})
  /\ LeftBehind = {}
  => \/ /\ client.transport = "connected"
        /\ client.socket = ConnOf(slice.selfPeerId)
     \/ client.transport = "error"

\* A join comes to an end: the tab waits for a peer, or is back at the form or
\* in media-error or failed, where the user can act, unless it has left a
\* WebSocket behind, whose late join_accepted it may take for its own.
AdmissionConcludes ==
  In(slice, {"joining", "pending-media"}) ~>
    \/ ~ In(slice, {"joining", "pending-media"})
    \/ ~ mounted \/ LeftBehind # {}

\* data-model.md:586-592 (001): Rejoin is "Leave followed by a fresh Join": a
\* tab whose rejoin waits for its WebSocket is joining, over that WebSocket.
RejoinIsAFreshJoin ==
  \A s \in Sockets :
    mounted /\ awaiting[s] = "panel" =>
      client.socket = s /\ In(slice, {"joining"})

=============================================================================
