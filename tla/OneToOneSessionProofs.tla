------------------------ MODULE OneToOneSessionProofs ------------------------
(***************************************************************************)
(* Proofs about the session of a one-to-one tab, for every number of       *)
(* WebSockets, joins and acquisitions: the camera follows the session, and *)
(* a tab in a room has the WebSocket it was admitted on or shows that the  *)
(* transport is in error.                                                  *)
(***************************************************************************)
EXTENDS OneToOneSession, SequenceTheorems, TLAPS

\* The peer IDs the server gives out, and its frames.  The type invariant of
\* OneToOneSession also bounds their number by the clicks on Join, which
\* nothing here depends on.
Given == Sockets \X Nat
Answers == [type : {"join_accepted"}, peer : Given]
           \cup [type : {"join_rejected", "participant_released",
                         "ready_for_offer", "peer_left"}]
Slice == [session : Sessions, roomId : BOOLEAN, selfPeerId : Given \cup {NoPeer}]
Client == [transport : Transports, socket : Sockets \cup {NoSocket},
           closed : BOOLEAN]
Cameras == [Captures -> {"none", "prompt", "live", "stopped", "failed"}]

ShapeOK ==
  /\ client \in Client
  /\ net \in [Sockets -> NetStates]
  /\ down \in [Sockets -> Seq(Answers)]
  /\ server \in [Sockets -> [peer : Given \cup {NoPeer}, ready : BOOLEAN,
                             paired : BOOLEAN, admissions : Nat]]
  /\ slice \in Slice
  /\ stream \in Captures \cup {NoCapture}
  /\ acquiring \in Captures \cup {NoCapture}
  /\ camera \in Cameras
  /\ mounted \in BOOLEAN

\* The provider holds a stream from the announcement of it to the next idle
\* or joining, and waits for one in pending-media only.
Announced == {"waiting-for-peer", "connecting", "connected", "failed"}

CameraInv ==
  /\ \A i \in Captures : camera[i] = "live" => stream = i
  /\ stream # NoCapture => mounted /\ In(slice, Announced)
  /\ acquiring # NoCapture => mounted /\ In(slice, {"pending-media"})

\* The client refers to a WebSocket it has not closed, and knows it to be open
\* once it is; a client that was closed is at the form.
InRoom == {"pending-media", "waiting-for-peer", "connecting", "connected"}

SocketInv ==
  /\ client.socket # NoSocket =>
       /\ net[client.socket] \in {"connecting", "open", "lost"}
       /\ client.transport \in {"connecting", "connected"}
       /\ net[client.socket] # "connecting" => client.transport = "connected"
  /\ client.closed => client.socket = NoSocket /\ In(slice, {"idle"})

\* As SessionHasItsSocket, of a call too: a connected call outlives its
\* transport, and is back to waiting for a peer when that peer leaves.
HasSocket ==
  mounted /\ In(slice, InRoom) /\ LeftBehind = {} =>
    \/ client.transport = "connected" /\ client.socket = ConnOf(slice.selfPeerId)
    \/ client.transport = "error"

\* An admission arrives on the connection it was given to.
AdmissionsOK ==
  \A s \in Sockets : \A k \in 1..Len(down[s]) :
    down[s][k].type = "join_accepted" => ConnOf(down[s][k].peer) = s

IInv == ShapeOK /\ CameraInv /\ SocketInv /\ HasSocket /\ AdmissionsOK

-----------------------------------------------------------------------------
(* The slice and the camera. *)

\* A change of the slice that takes a stream nowhere but to idle, admits
\* nobody, and leaves the form to a click.
Plain(l) ==
  /\ l \in Slice
  /\ In(slice, Announced) => In(l, Announced \cup {"idle"})
  /\ In(l, InRoom) => In(slice, InRoom) /\ l.selfPeerId = slice.selfPeerId
  /\ In(slice, {"idle"}) => In(l, {"idle"})

LEMMA Reduced ==
  ASSUME ShapeOK
  PROVE  /\ Plain(slice) /\ Plain(InitialSlice) /\ Plain(JoinRejected(slice))
         /\ Plain(MediaReadySent(slice)) /\ Plain(ParticipantReleased(slice))
         /\ Plain(ReadyForOffer(slice)) /\ Plain(ConnectionEstablished(slice))
         /\ Plain(PeerLeft(slice)) /\ Plain(ConnectionFailed(slice))
         /\ \A t \in Transports : Plain(TransportChanged(slice, t))
         /\ In(InitialSlice, {"idle"})
<1>1. slice \in Slice /\ slice.session \in Sessions
  BY DEF ShapeOK, Slice
<1>2. /\ InitialSlice \in Slice /\ InitialSlice.session = "idle"
  BY DEF InitialSlice, Slice, Sessions
<1>3. \A x \in Sessions : /\ To(slice, x) \in Slice /\ To(slice, x).session = x
                          /\ To(slice, x).selfPeerId = slice.selfPeerId
  BY <1>1 DEF To, Slice
<1>4. Plain(slice) /\ Plain(InitialSlice) /\ In(InitialSlice, {"idle"})
  BY <1>1, <1>2 DEF Plain, In, InRoom, Announced
<1>5. Plain(JoinRejected(slice))
  BY <1>4 DEF JoinRejected
<1>6. Plain(MediaReadySent(slice))
  BY <1>3, <1>4 DEF MediaReadySent, Plain, In, InRoom, Announced, Sessions
<1>7. Plain(ParticipantReleased(slice))
  BY <1>3, <1>4 DEF ParticipantReleased, Plain, In, InRoom, Announced, Sessions
<1>8. Plain(ReadyForOffer(slice))
  BY <1>3, <1>4 DEF ReadyForOffer, Plain, In, InRoom, Announced, Sessions
<1>9. Plain(ConnectionEstablished(slice))
  BY <1>3, <1>4 DEF ConnectionEstablished, Plain, In, InRoom, Announced, Sessions
<1>10. Plain(PeerLeft(slice))
  BY <1>3, <1>4 DEF PeerLeft, Plain, In, InRoom, Announced, Sessions
<1>11. Plain(ConnectionFailed(slice))
  BY <1>3, <1>4 DEF ConnectionFailed, Plain, In, InRoom, Announced, Sessions
<1>12. \A t \in Transports : Plain(TransportChanged(slice, t))
  BY <1>4, <1>11 DEF TransportChanged
<1> QED
  BY <1>4, <1>5, <1>6, <1>7, <1>8, <1>9, <1>10, <1>11, <1>12

\* The provider's effect, on any change of the slice that takes a stream
\* nowhere but to idle.
LEMMA RenderedKeeps ==
  ASSUME ShapeOK, CameraInv, UNCHANGED mounted, NEW l \in Slice,
         In(slice, Announced) => In(l, Announced \cup {"idle"}),
         Rendered(l)
  PROVE  /\ CameraInv' /\ slice' = l
         /\ stream' \in Captures \cup {NoCapture}
         /\ acquiring' \in Captures \cup {NoCapture}
         /\ camera' \in Cameras
<1>1. /\ camera \in Cameras /\ NoCapture \notin Captures
      /\ stream \in Captures \cup {NoCapture}
      /\ acquiring \in Captures \cup {NoCapture}
      /\ slice' = l
  BY DEF ShapeOK, NoCapture, Captures, Rendered, RenderedWith
<1>2. CASE ~ mounted \/ <<l.session, l.roomId>> = <<slice.session, slice.roomId>>
  <2>1. stream' = stream /\ camera' = camera /\ acquiring' = acquiring
    BY <1>2 DEF Rendered, RenderedWith
  <2>2. CASE ~ mounted
    BY <1>1, <2>1, <2>2 DEF CameraInv
  <2>3. CASE l.session = slice.session
    BY <1>1, <2>1, <2>3 DEF CameraInv, In
  <2> QED
    BY <1>1, <1>2, <2>1, <2>2, <2>3
<1>3. CASE mounted /\ <<l.session, l.roomId>> # <<slice.session, slice.roomId>>
  <2>1. \/ /\ In(l, {"pending-media"}) /\ stream = NoCapture
           /\ \E i \in Captures :
                /\ Fresh(i)
                /\ camera' = [camera EXCEPT ![i] = "prompt"]
                /\ acquiring' = i
           /\ stream' = stream
        \/ /\ ~ (In(l, {"pending-media"}) /\ stream = NoCapture)
           /\ acquiring' = NoCapture
           /\ IF In(l, {"idle"})
              THEN stream' = NoCapture /\ camera' = Stopped(camera, stream)
              ELSE stream' = stream /\ camera' = camera
    BY <1>3 DEF Rendered, RenderedWith
  <2>2. ASSUME In(l, {"pending-media"}), stream = NoCapture, NEW i \in Captures,
               camera' = [camera EXCEPT ![i] = "prompt"], acquiring' = i,
               stream' = stream
        PROVE  CameraInv' /\ camera' \in Cameras
    BY <1>1, <1>3, <2>2 DEF CameraInv, Cameras, In
  <2>3. ASSUME acquiring' = NoCapture, In(l, {"idle"}), stream' = NoCapture,
               camera' = Stopped(camera, stream)
        PROVE  CameraInv' /\ camera' \in Cameras
    <3>1. CASE stream = NoCapture
      BY <1>1, <2>3, <3>1 DEF Stopped, CameraInv
    <3>2. CASE stream \in Captures
      <4>1. /\ camera' \in Cameras /\ camera'[stream] = "stopped"
            /\ \A j \in Captures \ {stream} : camera'[j] = camera[j]
        BY <1>1, <2>3, <3>2 DEF Stopped, Cameras
      <4> QED
        BY <2>3, <4>1 DEF CameraInv
    <3> QED
      BY <1>1, <3>1, <3>2
  <2>4. ASSUME acquiring' = NoCapture, ~ In(l, {"idle"}), stream' = stream,
               camera' = camera
        PROVE  CameraInv' /\ camera' \in Cameras
    BY <1>1, <1>3, <2>4 DEF CameraInv, In
  <2> QED
    BY <1>1, <2>1, <2>2, <2>3, <2>4
<1> QED
  BY <1>2, <1>3

-----------------------------------------------------------------------------
(* The wires. *)

DownTaken ==
  /\ down' \in [Sockets -> Seq(Answers)]
  /\ \A s \in Sockets : \/ down'[s] = down[s] \/ down'[s] = <<>>
                        \/ down[s] # <<>> /\ down'[s] = Tail(down[s])

LEMMA AdmissionsKept ==
  ASSUME ShapeOK, AdmissionsOK, DownTaken
  PROVE  AdmissionsOK'
<1> SUFFICES ASSUME NEW s \in Sockets, NEW k \in 1..Len(down'[s]),
                    down'[s][k].type = "join_accepted"
             PROVE  ConnOf(down'[s][k].peer) = s
  BY DEF AdmissionsOK
<1>1. down[s] \in Seq(Answers) /\ down'[s] \in Seq(Answers) /\ Len(down[s]) \in Nat
  BY DEF ShapeOK, DownTaken
<1>2. \E j \in 1..Len(down[s]) : down'[s][k] = down[s][j]
  <2>1. CASE down'[s] = down[s]
    BY <2>1
  <2>2. CASE down'[s] = <<>>
    BY <2>2
  <2>3. CASE down[s] # <<>> /\ down'[s] = Tail(down[s])
    <3>1. /\ Len(down'[s]) = Len(down[s]) - 1 /\ k + 1 \in 1..Len(down[s])
          /\ down'[s][k] = down[s][k + 1]
      BY <1>1, <2>3, HeadTailProperties
    <3> QED
      BY <3>1
  <2> QED
    BY <2>1, <2>2, <2>3 DEF DownTaken
<1> QED
  BY <1>2 DEF AdmissionsOK

\* A step that leaves the client and its WebSockets alone and admits nobody.
LEMMA PlainStep ==
  ASSUME IInv, UNCHANGED <<client, net, server, mounted>>, DownTaken,
         NEW l, Plain(l), Rendered(l)
  PROVE  IInv'
<1>1. ShapeOK /\ CameraInv /\ SocketInv /\ HasSocket /\ AdmissionsOK
  BY DEF IInv
<1>2. /\ CameraInv' /\ slice' = l
      /\ stream' \in Captures \cup {NoCapture}
      /\ acquiring' \in Captures \cup {NoCapture}
      /\ camera' \in Cameras
  BY <1>1, RenderedKeeps DEF Plain
<1>3. ShapeOK'
  BY <1>1, <1>2 DEF ShapeOK, Plain, DownTaken
<1>4. SocketInv'
  BY <1>1, <1>2 DEF SocketInv, Plain
<1>5. HasSocket'
  BY <1>1, <1>2 DEF HasSocket, Plain, LeftBehind
<1>6. AdmissionsOK'
  BY <1>1, AdmissionsKept
<1> QED
  BY <1>2, <1>3, <1>4, <1>5, <1>6 DEF IInv


-----------------------------------------------------------------------------
(* One lemma per action. *)

LEMMA InitStep == Init => IInv
<1> SUFFICES ASSUME Init PROVE IInv
  OBVIOUS
<1>1. /\ client \in Client /\ client.socket = NoSocket /\ client.closed = FALSE
      /\ net \in [Sockets -> NetStates]
      /\ down \in [Sockets -> Seq(Answers)] /\ \A s \in Sockets : Len(down[s]) = 0
      /\ mounted = TRUE
  BY EmptySeq DEF Init, Client, Transports, NetStates
<1>2. /\ slice \in Slice /\ slice.session = "idle"
  BY DEF Init, InitialSlice, Slice, Sessions
<1>3. /\ camera \in Cameras /\ \A i \in Captures : camera[i] # "live"
      /\ stream = NoCapture /\ acquiring = NoCapture
  BY DEF Init, Cameras
<1>4. server \in [Sockets -> [peer : Given \cup {NoPeer}, ready : BOOLEAN,
                              paired : BOOLEAN, admissions : Nat]]
  BY DEF Init, NoParticipant
<1> QED
  BY <1>1, <1>2, <1>3, <1>4
  DEF IInv, ShapeOK, CameraInv, SocketInv, HasSocket, AdmissionsOK, In, InRoom

LEMMA StutterStep ==
  ASSUME IInv, UNCHANGED vars
  PROVE  IInv'
<1>1. /\ UNCHANGED <<client, net, joins, awaiting, up, down, server, slice>>
      /\ UNCHANGED <<stream, acquiring, camera, mounted>>
  BY DEF vars, wires, media
<1>2. ShapeOK' /\ CameraInv' /\ SocketInv'
  BY <1>1 DEF IInv, ShapeOK, CameraInv, SocketInv, In
<1>3. HasSocket' /\ AdmissionsOK'
  BY <1>1 DEF IInv, HasSocket, AdmissionsOK, LeftBehind, In
<1> QED
  BY <1>2, <1>3 DEF IInv

\* A change of the slice to which no stream belongs; the tab joins, or is at
\* the form, over a WebSocket it has connected or one it had.
LEMMA JoiningStep ==
  ASSUME IInv, UNCHANGED <<down, server, mounted>>, mounted,
         NEW l \in Slice, In(l, {"joining", "idle"}), slice' = l, CameraInv',
         stream' \in Captures \cup {NoCapture},
         acquiring' \in Captures \cup {NoCapture},
         camera' \in Cameras,
         client' \in Client, net' \in [Sockets -> NetStates], SocketInv'
  PROVE  IInv'
<1>1. ShapeOK /\ AdmissionsOK
  BY DEF IInv
<1>2. ShapeOK'
  BY <1>1 DEF ShapeOK
<1>3. HasSocket'
  BY DEF HasSocket, In, InRoom
<1>4. AdmissionsOK'
  BY <1>1 DEF AdmissionsOK
<1> QED
  BY <1>2, <1>3, <1>4 DEF IInv

LEMMA ConnectFacts ==
  ASSUME ShapeOK, NEW s \in Sockets, NEW n \in [Sockets -> NetStates], NEW who,
         Connect(s, n, who)
  PROVE  /\ client' \in Client /\ client'.socket = s /\ client'.closed = FALSE
         /\ client'.transport = "connecting"
         /\ net' \in [Sockets -> NetStates] /\ net'[s] = "connecting"
BY DEF Connect, Client, Transports, NetStates

LEMMA RunJoinFlowStep ==
  ASSUME IInv, mounted, UNCHANGED <<down, server, mounted>>, NEW l \in Slice,
         In(l, {"joining"}), ~ In(slice, Announced), RunJoinFlow(l)
  PROVE  IInv'
<1>1. ShapeOK /\ CameraInv /\ SocketInv
  BY DEF IInv
<1>2. CASE /\ client.socket # NoSocket
           /\ client.transport \in {"connecting", "connected"}
  <2>1. UNCHANGED <<client, net>>
        /\ Rendered(IF Sendable THEN l ELSE InitialSlice)
    BY <1>2 DEF RunJoinFlow
  <2>2. PICK k \in {l, InitialSlice} : Rendered(k)
    BY <2>1
  <2>3. k \in Slice /\ In(k, {"joining", "idle"})
    BY <1>1, Reduced DEF Plain, In
  <2>4. /\ CameraInv' /\ slice' = k
        /\ stream' \in Captures \cup {NoCapture}
        /\ acquiring' \in Captures \cup {NoCapture}
        /\ camera' \in Cameras
    BY <1>1, <2>2, <2>3, RenderedKeeps
  <2>5. SocketInv'
    BY <1>1, <1>2, <2>1 DEF SocketInv
  <2> QED
    BY <1>1, <2>1, <2>3, <2>4, <2>5, JoiningStep DEF ShapeOK
<1>3. CASE ~ (client.socket # NoSocket
              /\ client.transport \in {"connecting", "connected"})
  <2>1. (\E s \in Sockets : Connect(s, net, "form")) /\ Rendered(l)
    BY <1>3 DEF RunJoinFlow
  <2>2. PICK s \in Sockets : Connect(s, net, "form")
    BY <2>1
  <2>3. /\ client' \in Client /\ client'.socket = s /\ client'.closed = FALSE
        /\ client'.transport = "connecting"
        /\ net' \in [Sockets -> NetStates] /\ net'[s] = "connecting"
    BY <1>1, <2>2, ConnectFacts DEF ShapeOK
  <2>4. /\ CameraInv' /\ slice' = l
        /\ stream' \in Captures \cup {NoCapture}
        /\ acquiring' \in Captures \cup {NoCapture}
        /\ camera' \in Cameras
    BY <1>1, <2>1, RenderedKeeps
  <2>5. SocketInv'
    BY <2>3 DEF SocketInv
  <2>6. In(l, {"joining", "idle"})
    BY DEF In
  <2> QED
    BY <2>3, <2>4, <2>5, <2>6, JoiningStep
<1> QED
  BY <1>2, <1>3

LEMMA SubmitStep ==
  ASSUME IInv, Submit
  PROVE  IInv'
<1>1. /\ slice \in Slice /\ mounted /\ In(slice, {"idle"})
      /\ UNCHANGED <<down, server, mounted>>
      /\ RunJoinFlow(JoinRequested(slice))
  BY DEF IInv, ShapeOK, Submit
<1>2. JoinRequested(slice) \in Slice /\ In(JoinRequested(slice), {"joining"})
  BY <1>1 DEF JoinRequested, InitialSlice, Slice, Sessions, In
<1>3. ~ In(slice, Announced)
  BY <1>1 DEF In, Announced
<1> QED
  BY <1>1, <1>2, <1>3, RunJoinFlowStep

LEMMA RetryStep ==
  ASSUME IInv, Retry
  PROVE  IInv'
<1>1. /\ slice \in Slice /\ mounted /\ In(slice, {"media-error"})
      /\ UNCHANGED <<down, server, mounted>>
      /\ RunJoinFlow(RetryRequested(slice))
  BY DEF IInv, ShapeOK, Retry
<1>2. RetryRequested(slice) \in Slice /\ In(RetryRequested(slice), {"joining"})
  BY <1>1 DEF RetryRequested, Slice, Sessions, In
<1>3. ~ In(slice, Announced)
  BY <1>1 DEF In, Announced
<1> QED
  BY <1>1, <1>2, <1>3, RunJoinFlowStep

LEMMA CloseFacts ==
  ASSUME ShapeOK
  PROVE  /\ ClientAfterClose \in Client
         /\ ClientAfterClose.socket = NoSocket
         /\ NetAfterClose(net) \in [Sockets -> NetStates]
<1>1. net \in [Sockets -> NetStates] /\ client.socket \in Sockets \cup {NoSocket}
  BY DEF ShapeOK, Client
<1>2. NetAfterClose(net) \in [Sockets -> NetStates]
  BY <1>1 DEF NetAfterClose, NetStates
<1> QED
  BY <1>2 DEF ClientAfterClose, Client, Transports

LEMMA LeaveStep ==
  ASSUME IInv, Leave
  PROVE  IInv'
<1>1. /\ ShapeOK /\ CameraInv /\ mounted
      /\ client' = ClientAfterClose /\ net' = NetAfterClose(net)
      /\ Rendered(InitialSlice)
      /\ UNCHANGED <<joins, awaiting, down, server, mounted>>
  BY DEF IInv, Leave
<1>2. /\ client' \in Client /\ client'.socket = NoSocket
      /\ net' \in [Sockets -> NetStates]
  BY <1>1, CloseFacts
<1>3. Plain(InitialSlice) /\ In(InitialSlice, {"idle"})
  BY <1>1, Reduced
<1>4. /\ CameraInv' /\ slice' = InitialSlice
      /\ stream' \in Captures \cup {NoCapture}
      /\ acquiring' \in Captures \cup {NoCapture}
      /\ camera' \in Cameras
  BY <1>1, <1>3, RenderedKeeps DEF Plain
<1>5. SocketInv'
  BY <1>2, <1>3, <1>4 DEF SocketInv
<1>6. In(InitialSlice, {"joining", "idle"}) /\ InitialSlice \in Slice
  BY <1>3 DEF In, Plain
<1> QED
  BY <1>1, <1>2, <1>4, <1>5, <1>6, JoiningStep

LEMMA StoppedFacts ==
  ASSUME ShapeOK, CameraInv
  PROVE  /\ Stopped(camera, stream) \in Cameras
         /\ \A i \in Captures : Stopped(camera, stream)[i] # "live"
<1>1. NoCapture \notin Captures /\ camera \in Cameras
  BY DEF NoCapture, Captures, ShapeOK
<1>2. CASE stream = NoCapture
  BY <1>1, <1>2 DEF Stopped, CameraInv
<1>3. CASE stream \in Captures
  BY <1>1, <1>3 DEF Stopped, CameraInv, Cameras
<1> QED
  BY <1>2, <1>3 DEF ShapeOK

LEMMA RejoinStep ==
  ASSUME IInv, Rejoin
  PROVE  IInv'
<1> DEFINE l == JoinRequested(InitialSlice)
<1>1. /\ ShapeOK /\ CameraInv /\ mounted /\ slice' = l
      /\ \E s \in Sockets : Connect(s, NetAfterClose(net), "panel")
      /\ stream' = NoCapture /\ camera' = Stopped(camera, stream)
      /\ acquiring' = NoCapture
      /\ UNCHANGED <<up, down, server, mounted>>
  BY DEF IInv, Rejoin
<1>2. PICK s \in Sockets : Connect(s, NetAfterClose(net), "panel")
  BY <1>1
<1>3. NetAfterClose(net) \in [Sockets -> NetStates]
  BY <1>1, CloseFacts
<1>4. /\ client' \in Client /\ client'.socket = s /\ client'.closed = FALSE
      /\ client'.transport = "connecting"
      /\ net' \in [Sockets -> NetStates] /\ net'[s] = "connecting"
  BY <1>1, <1>2, <1>3, ConnectFacts
<1>5. l \in Slice /\ In(l, {"joining", "idle"})
  BY DEF JoinRequested, InitialSlice, Slice, Sessions, In
<1>6. camera' \in Cameras /\ CameraInv'
  BY <1>1, StoppedFacts DEF CameraInv
<1>7. SocketInv'
  BY <1>4 DEF SocketInv
<1> QED
  BY <1>1, <1>4, <1>5, <1>6, <1>7, JoiningStep

LEMMA UnmountStep ==
  ASSUME IInv, Unmount
  PROVE  IInv'
<1>1. /\ ShapeOK /\ CameraInv /\ SocketInv /\ AdmissionsOK /\ mounted' = FALSE
      /\ camera' = Stopped(camera, stream) /\ stream' = NoCapture
      /\ acquiring' = NoCapture
      /\ UNCHANGED <<client, net, down, server, slice>>
  BY DEF IInv, Unmount, wires
<1>2. camera' \in Cameras /\ CameraInv'
  BY <1>1, StoppedFacts DEF CameraInv
<1>3. ShapeOK'
  BY <1>1, <1>2 DEF ShapeOK
<1>4. SocketInv' /\ HasSocket' /\ AdmissionsOK'
  BY <1>1 DEF SocketInv, HasSocket, AdmissionsOK, In
<1> QED
  BY <1>2, <1>3, <1>4 DEF IInv

LEMMA ConnectionEventStep ==
  ASSUME IInv, ConnectionEvent
  PROVE  IInv'
<1>1. /\ ShapeOK /\ UNCHANGED <<client, net, down, server, mounted>>
      /\ \E l \in {ConnectionEstablished(slice), ConnectionFailed(slice)} : Rendered(l)
  BY DEF IInv, ConnectionEvent, wires
<1>2. DownTaken
  BY <1>1 DEF DownTaken, ShapeOK
<1> QED
  BY <1>1, <1>2, PlainStep, Reduced


LEMMA OpenedStep ==
  ASSUME IInv, NEW s \in Sockets, Opened(s)
  PROVE  IInv'
<1>1. /\ ShapeOK /\ CameraInv /\ SocketInv /\ HasSocket /\ AdmissionsOK
      /\ net[s] = "connecting" /\ net' = [net EXCEPT ![s] = "open"]
      /\ client' = [client EXCEPT !.transport = "connected"]
      /\ UNCHANGED <<joins, down, server, mounted>>
      /\ \E k \in {slice, InitialSlice} : Rendered(k)
  BY DEF IInv, Opened
<1>2. PICK l \in {slice, InitialSlice} : Rendered(l)
  BY <1>1
<1>3. Plain(l)
  BY <1>1, <1>2, Reduced
<1>4. /\ CameraInv' /\ slice' = l
      /\ stream' \in Captures \cup {NoCapture}
      /\ acquiring' \in Captures \cup {NoCapture}
      /\ camera' \in Cameras
  BY <1>1, <1>2, <1>3, RenderedKeeps DEF Plain
<1>5. /\ client' \in Client /\ client'.socket = client.socket
      /\ client'.closed = client.closed /\ client'.transport = "connected"
  BY <1>1 DEF ShapeOK, Client, Transports
<1>6. /\ net' \in [Sockets -> NetStates] /\ net'[s] = "open"
      /\ \A t \in Sockets \ {s} : net'[t] = net[t]
  BY <1>1 DEF ShapeOK, NetStates
<1>7. ShapeOK'
  BY <1>1, <1>3, <1>4, <1>5, <1>6 DEF ShapeOK, Plain
<1>8. SocketInv'
  BY <1>1, <1>3, <1>4, <1>5, <1>6 DEF SocketInv, Plain, ShapeOK, Client
<1>9. HasSocket'
  <2> SUFFICES ASSUME mounted, In(l, InRoom),
                      \A t \in Sockets \ {client.socket} :
                        net'[t] \notin {"connecting", "open", "lost"}
               PROVE  client.socket = ConnOf(l.selfPeerId)
    BY <1>1, <1>4, <1>5 DEF HasSocket, LeftBehind, In
  <2>1. In(slice, InRoom) /\ l.selfPeerId = slice.selfPeerId
    BY <1>3 DEF Plain
  <2>2. client.socket = s
    BY <1>6
  <2>3. LeftBehind = {}
    BY <1>6, <2>2 DEF LeftBehind
  <2>4. client.transport # "error"
    BY <1>1, <2>2 DEF SocketInv, Sockets, NoSocket
  <2> QED
    BY <1>1, <2>1, <2>3, <2>4 DEF HasSocket
<1>10. AdmissionsOK'
  BY <1>1 DEF AdmissionsOK
<1> QED
  BY <1>4, <1>7, <1>8, <1>9, <1>10 DEF IInv

\* The close of any WebSocket, or a client that was closed and so is at the
\* form: the transport is in error, or nobody is in a room.
LEMMA OnCloseStep ==
  ASSUME IInv, NEW s \in Sockets, OnClose(s)
  PROVE  IInv'
<1> DEFINE t == IF client.closed THEN "disconnected" ELSE "error"
           k == IF t = client.transport THEN slice ELSE TransportChanged(slice, t)
<1>1. /\ ShapeOK /\ CameraInv /\ SocketInv /\ AdmissionsOK
      /\ net' = [net EXCEPT ![s] = "closed"]
      /\ down' = [down EXCEPT ![s] = <<>>]
      /\ client' = [client EXCEPT !.socket = NoSocket, !.transport = t]
      /\ UNCHANGED <<joins, up, server, mounted>>
      /\ Rendered(IF awaiting[s] # "none" THEN InitialSlice ELSE k)
      /\ t \in Transports
  BY DEF IInv, OnClose, Transports
<1>2. t = "error" \/ client.closed
  OBVIOUS
<1> HIDE DEF t
<1>3. PICK l \in {slice, InitialSlice, TransportChanged(slice, t)} : Rendered(l)
  BY <1>1
<1>4. Plain(l)
  BY <1>1, <1>3, Reduced
<1>5. /\ CameraInv' /\ slice' = l
      /\ stream' \in Captures \cup {NoCapture}
      /\ acquiring' \in Captures \cup {NoCapture}
      /\ camera' \in Cameras
  BY <1>1, <1>3, <1>4, RenderedKeeps DEF Plain
<1>6. /\ client' \in Client /\ client'.socket = NoSocket
      /\ client'.closed = client.closed /\ client'.transport = t
      /\ net' \in [Sockets -> NetStates]
  BY <1>1 DEF ShapeOK, Client, NetStates
<1>7. DownTaken
  BY <1>1, EmptySeq DEF ShapeOK, DownTaken
<1>8. ShapeOK'
  BY <1>1, <1>4, <1>5, <1>6, <1>7 DEF ShapeOK, Plain, DownTaken
<1>9. SocketInv'
  BY <1>1, <1>4, <1>5, <1>6 DEF SocketInv, Plain
<1>10. HasSocket'
  <2>1. CASE t = "error"
    BY <1>6, <2>1 DEF HasSocket
  <2>2. CASE client.closed
    <3>1. In(l, {"idle"})
      BY <1>1, <1>4, <2>2 DEF SocketInv, Plain
    <3> QED
      BY <1>5, <3>1 DEF HasSocket, In, InRoom
  <2> QED
    BY <1>2, <2>1, <2>2
<1>11. AdmissionsOK'
  BY <1>1, <1>7, AdmissionsKept
<1> QED
  BY <1>5, <1>8, <1>9, <1>10, <1>11 DEF IInv

LEMMA LoseStep ==
  ASSUME IInv, NEW s \in Sockets, Lose(s)
  PROVE  IInv'
<1>1. /\ ShapeOK /\ CameraInv /\ SocketInv /\ HasSocket /\ AdmissionsOK
      /\ net[s] = "open" /\ net' = [net EXCEPT ![s] = "lost"]
      /\ down' = [down EXCEPT ![s] = <<>>]
      /\ UNCHANGED <<client, server, slice, stream, acquiring, camera, mounted>>
  BY DEF IInv, Lose, media
<1>2. /\ net' \in [Sockets -> NetStates] /\ net'[s] = "lost"
      /\ \A t \in Sockets \ {s} : net'[t] = net[t]
  BY <1>1 DEF ShapeOK, NetStates
<1>3. DownTaken
  BY <1>1, EmptySeq DEF ShapeOK, DownTaken
<1>4. ShapeOK'
  BY <1>1, <1>2, <1>3 DEF ShapeOK, DownTaken
<1>5. SocketInv'
  BY <1>1, <1>2 DEF SocketInv, ShapeOK, Client, In
<1>6. CameraInv'
  BY <1>1 DEF CameraInv, In
<1>7. LeftBehind' = LeftBehind
  BY <1>1, <1>2 DEF LeftBehind
<1>8. HasSocket'
  BY <1>1, <1>7 DEF HasSocket, In
<1>9. AdmissionsOK'
  BY <1>1, <1>3, AdmissionsKept
<1> QED
  BY <1>4, <1>5, <1>6, <1>8, <1>9 DEF IInv

LEMMA ReceiveFacts ==
  ASSUME ShapeOK, NEW s \in Sockets, NEW type, Receive(s, type)
  PROVE  /\ mounted /\ UNCHANGED <<server, mounted>>
         /\ DownTaken
         /\ down[s] # <<>> /\ Head(down[s]).type = type /\ Head(down[s]) \in Answers
         /\ net[s] \in {"open", "lost"}
<1>1. down \in [Sockets -> Seq(Answers)] /\ down[s] # <<>> /\ down[s] \in Seq(Answers)
  BY DEF ShapeOK, Receive
<1>2. Tail(down[s]) \in Seq(Answers) /\ Head(down[s]) \in Answers
  BY <1>1, HeadTailProperties
<1>3. down' = [down EXCEPT ![s] = Tail(down[s])]
  BY DEF Receive
<1>4. DownTaken
  BY <1>1, <1>2, <1>3 DEF DownTaken
<1> QED
  BY <1>1, <1>2, <1>4 DEF Receive

LEMMA HandledStep ==
  ASSUME IInv, NEW s \in Sockets, NEW type, NEW l, Plain(l), Handled(s, type, l)
  PROVE  IInv'
<1>1. ShapeOK /\ Receive(s, type) /\ Rendered(l) /\ UNCHANGED <<client, net>>
  BY DEF IInv, Handled
<1> QED
  BY <1>1, ReceiveFacts, PlainStep

\* The admission is the one of this WebSocket, which is the client's own if no
\* other was left behind.
LEMMA OnJoinAcceptedStep ==
  ASSUME IInv, NEW s \in Sockets,
         Handled(s, "join_accepted", JoinAccepted(slice, Head(down[s]).peer))
  PROVE  IInv'
<1> DEFINE p == Head(down[s]).peer
           l == JoinAccepted(slice, p)
<1>1. /\ ShapeOK /\ CameraInv /\ SocketInv /\ AdmissionsOK
      /\ Receive(s, "join_accepted") /\ Rendered(l) /\ UNCHANGED <<client, net>>
  BY DEF IInv, Handled
<1>2. /\ mounted /\ UNCHANGED <<server, mounted>>
      /\ DownTaken
      /\ down[s] # <<>> /\ Head(down[s]).type = "join_accepted"
      /\ Head(down[s]) \in Answers
      /\ net[s] \in {"open", "lost"}
  BY <1>1, ReceiveFacts
<1>3. p \in Given
  BY <1>2 DEF Answers
<1>4. ConnOf(p) = s
  <2>1. down[s] \in Seq(Answers) /\ Len(down[s]) \in Nat \ {0}
    BY <1>1, <1>2, EmptySeq DEF ShapeOK
  <2>2. 1 \in 1..Len(down[s]) /\ down[s][1] = Head(down[s])
    BY <1>2, <2>1, HeadTailProperties
  <2> QED
    BY <1>1, <1>2, <2>2 DEF AdmissionsOK
<1>5. CASE ~ In(slice, {"joining"})
  <2>1. l = slice /\ Plain(slice)
    BY <1>1, <1>5, Reduced DEF JoinAccepted
  <2> QED
    BY <2>1, HandledStep
<1>6. CASE In(slice, {"joining"})
  <2>1. l \in Slice /\ In(l, {"pending-media"}) /\ l.selfPeerId = p
    BY <1>1, <1>3, <1>6 DEF JoinAccepted, ShapeOK, Slice, Sessions, In
  <2> HIDE DEF l, p
  <2>2. /\ CameraInv' /\ slice' = l
        /\ stream' \in Captures \cup {NoCapture}
        /\ acquiring' \in Captures \cup {NoCapture}
        /\ camera' \in Cameras
    <3>1. ~ In(slice, Announced)
      BY <1>6 DEF In, Announced
    <3> QED
      BY <1>1, <1>2, <2>1, <3>1, RenderedKeeps
  <2>3. ShapeOK'
    BY <1>1, <1>2, <2>1, <2>2 DEF ShapeOK, DownTaken
  <2>4. SocketInv'
    BY <1>1, <1>6 DEF SocketInv, In
  <2>5. HasSocket'
    <3> SUFFICES ASSUME LeftBehind = {}
                 PROVE  client.transport = "connected" /\ client.socket = ConnOf(p)
      BY <1>1, <2>1, <2>2 DEF HasSocket, LeftBehind
    <3>1. client.socket = s
      BY <1>2 DEF LeftBehind
    <3>2. s # NoSocket
      BY DEF Sockets, NoSocket
    <3> QED
      BY <1>1, <1>2, <1>4, <3>1, <3>2 DEF SocketInv
  <2>6. AdmissionsOK'
    BY <1>1, <1>2, AdmissionsKept
  <2> QED
    BY <2>2, <2>3, <2>4, <2>5, <2>6 DEF IInv
<1> QED
  BY <1>5, <1>6

LEMMA OnJoinRejectedStep ==
  ASSUME IInv, NEW s \in Sockets, OnJoinRejected(s)
  PROVE  IInv'
<1>1. /\ ShapeOK /\ CameraInv /\ AdmissionsOK
      /\ Receive(s, "join_rejected") /\ Rendered(JoinRejected(slice))
      /\ Plain(JoinRejected(slice))
  BY Reduced DEF IInv, OnJoinRejected
<1>2. UNCHANGED <<server, mounted>> /\ DownTaken
  BY <1>1, ReceiveFacts
<1>3. CASE ~ In(slice, {"joining"})
  <2>1. UNCHANGED <<client, net>>
    BY <1>3 DEF OnJoinRejected
  <2> QED
    BY <1>1, <1>2, <2>1, PlainStep
<1>4. CASE In(slice, {"joining"})
  <2>1. /\ client' = ClientAfterClose /\ net' = NetAfterClose(net)
        /\ JoinRejected(slice) = InitialSlice /\ InitialSlice.session = "idle"
    BY <1>4 DEF OnJoinRejected, JoinRejected, InitialSlice
  <2>2. /\ client' \in Client /\ client'.socket = NoSocket
        /\ net' \in [Sockets -> NetStates]
    BY <1>1, <2>1, CloseFacts
  <2>3. /\ CameraInv' /\ slice' = InitialSlice
        /\ stream' \in Captures \cup {NoCapture}
        /\ acquiring' \in Captures \cup {NoCapture}
        /\ camera' \in Cameras
    BY <1>1, <1>2, <2>1, RenderedKeeps DEF Plain
  <2>4. ShapeOK'
    BY <1>1, <1>2, <2>1, <2>2, <2>3 DEF ShapeOK, Plain, DownTaken
  <2>5. SocketInv' /\ HasSocket'
    BY <2>1, <2>2, <2>3 DEF SocketInv, HasSocket, In, InRoom
  <2>6. AdmissionsOK'
    BY <1>1, <1>2, AdmissionsKept
  <2> QED
    BY <2>3, <2>4, <2>5, <2>6 DEF IInv
<1> QED
  BY <1>3, <1>4

LEMMA HandleStep ==
  ASSUME IInv, NEW s \in Sockets, Handle(s)
  PROVE  IInv'
<1>1. ShapeOK
  BY DEF IInv
<1> QED
  BY <1>1, HandledStep, OnJoinAcceptedStep, OnJoinRejectedStep, Reduced DEF Handle


-----------------------------------------------------------------------------
(* The server and the answers of getUserMedia. *)

LEMMA ServerStep ==
  ASSUME IInv, NEW s \in Sockets,
         UNCHANGED <<client, net, slice, stream, acquiring, camera, mounted>>,
         server' \in [Sockets -> [peer : Given \cup {NoPeer}, ready : BOOLEAN,
                                  paired : BOOLEAN, admissions : Nat]],
         \/ down' = down
         \/ \E m \in Answers : /\ Reply(s, m)
                               /\ m.type = "join_accepted" => ConnOf(m.peer) = s
  PROVE  IInv'
<1>1. /\ ShapeOK /\ CameraInv /\ SocketInv /\ HasSocket /\ AdmissionsOK
      /\ down \in [Sockets -> Seq(Answers)]
  BY DEF IInv, ShapeOK
<1>2. CameraInv' /\ SocketInv' /\ HasSocket'
  BY <1>1 DEF CameraInv, SocketInv, HasSocket, LeftBehind, In
<1>3. down' \in [Sockets -> Seq(Answers)] /\ AdmissionsOK'
  <2>1. CASE down' = down
    BY <1>1, <2>1 DEF AdmissionsOK
  <2>2. ASSUME NEW m \in Answers, Reply(s, m),
               m.type = "join_accepted" => ConnOf(m.peer) = s
        PROVE  down' \in [Sockets -> Seq(Answers)] /\ AdmissionsOK'
    <3>1. /\ down[s] \in Seq(Answers) /\ Len(down[s]) \in Nat
          /\ Append(down[s], m) \in Seq(Answers)
          /\ Len(Append(down[s], m)) = Len(down[s]) + 1
          /\ Append(down[s], m)[Len(down[s]) + 1] = m
          /\ \A k \in 1..Len(down[s]) : Append(down[s], m)[k] = down[s][k]
      BY <1>1, AppendProperties
    <3>2. down' = [down EXCEPT ![s] = Append(down[s], m)]
      BY <2>2 DEF Reply
    <3>3. /\ down' \in [Sockets -> Seq(Answers)]
          /\ down'[s] = Append(down[s], m)
          /\ \A t \in Sockets \ {s} : down'[t] = down[t]
      BY <1>1, <3>1, <3>2
    <3>4. ASSUME NEW k \in 1..Len(down'[s]), down'[s][k].type = "join_accepted"
          PROVE  ConnOf(down'[s][k].peer) = s
      <4>1. k = Len(down[s]) + 1 \/ k \in 1..Len(down[s])
        BY <3>1, <3>3
      <4> QED
        BY <1>1, <2>2, <3>1, <3>3, <3>4, <4>1 DEF AdmissionsOK
    <3> QED
      BY <1>1, <3>3, <3>4 DEF AdmissionsOK
  <2> QED
    BY <2>1, <2>2
<1>4. ShapeOK'
  BY <1>1, <1>3 DEF ShapeOK
<1> QED
  BY <1>2, <1>3, <1>4 DEF IInv

Participants == [peer : Given \cup {NoPeer}, ready : BOOLEAN, paired : BOOLEAN,
                 admissions : Nat]

LEMMA ReleasedFacts ==
  ASSUME ShapeOK, NEW s \in Sockets
  PROVE  Released(s) \in [Sockets -> Participants]
<1>1. server \in [Sockets -> Participants] /\ server[s].admissions \in Nat
  BY DEF ShapeOK, Participants
<1>2. [NoParticipant EXCEPT !.admissions = server[s].admissions] \in Participants
  BY <1>1 DEF NoParticipant, Participants
<1> QED
  BY <1>1, <1>2 DEF Released

LEMMA ServerReadsStep ==
  ASSUME IInv, NEW s \in Sockets, ServerReads(s)
  PROVE  IInv'
<1> DEFINE msg == Head(up[s])
           p == server[s].peer
           n == server[s].admissions + 1
<1>1. /\ ShapeOK /\ Serve(s, msg)
      /\ UNCHANGED <<client, net, slice, stream, acquiring, camera, mounted>>
      /\ server \in [Sockets -> Participants] /\ n \in Nat
      /\ Released(s) \in [Sockets -> Participants]
  BY ReleasedFacts DEF IInv, ServerReads, wires, media, ShapeOK, Participants
<1>2. /\ [type |-> "participant_released"] \in Answers
      /\ [type |-> "join_rejected"] \in Answers
      /\ \A q \in Given : [type |-> "join_accepted", peer |-> q] \in Answers
  BY DEF Answers
<1>3. \/ /\ server' = [server EXCEPT ![s].peer = <<s, n>>, ![s].admissions = n]
         /\ Reply(s, [type |-> "join_accepted", peer |-> <<s, n>>])
      \/ Reply(s, [type |-> "join_rejected"]) /\ server' = server
      \/ server' = [server EXCEPT ![s].ready = TRUE] /\ down' = down
      \/ server' = Released(s) /\ Reply(s, [type |-> "participant_released"])
      \/ server' = Released(s) /\ down' = down
      \/ server' = server /\ down' = down
  BY <1>1 DEF Serve
<1> HIDE DEF n
<1>4. CASE /\ server' = [server EXCEPT ![s].peer = <<s, n>>, ![s].admissions = n]
           /\ Reply(s, [type |-> "join_accepted", peer |-> <<s, n>>])
  <2> DEFINE q == <<s, n>>
  <2>1. q \in Given /\ ConnOf(q) = s
    BY <1>1 DEF Given, ConnOf
  <2>2. server' = [server EXCEPT ![s].peer = q, ![s].admissions = n]
        /\ Reply(s, [type |-> "join_accepted", peer |-> q])
    BY <1>4
  <2> HIDE DEF q
  <2>3. server' \in [Sockets -> Participants]
    <3>1. server' = [server EXCEPT ![s] = [server[s] EXCEPT !.peer = q,
                                                            !.admissions = n]]
      BY <1>1, <2>2
    <3>2. [server[s] EXCEPT !.peer = q, !.admissions = n] \in Participants
      <4>1. server[s] \in Participants /\ q \in Given \cup {NoPeer} /\ n \in Nat
        BY <1>1, <2>1
      <4>2. \A r \in Participants, x \in Given \cup {NoPeer}, a \in Nat :
              [r EXCEPT !.peer = x, !.admissions = a] \in Participants
        BY DEF Participants
      <4> QED
        BY <4>1, <4>2
    <3>3. \A r \in Participants : [server EXCEPT ![s] = r] \in [Sockets -> Participants]
      BY <1>1
    <3> QED
      BY <3>1, <3>2, <3>3
  <2>4. \E m \in Answers : /\ Reply(s, m)
                           /\ m.type = "join_accepted" => ConnOf(m.peer) = s
    BY <1>2, <2>1, <2>2
  <2> QED
    BY <1>1, <2>3, <2>4, ServerStep DEF Participants
<1>5. CASE Reply(s, [type |-> "join_rejected"]) /\ server' = server
  BY <1>1, <1>2, <1>5, ServerStep DEF Participants
<1>6. CASE server' = [server EXCEPT ![s].ready = TRUE] /\ down' = down
  <2>1. server' \in [Sockets -> Participants]
    BY <1>1, <1>6 DEF Participants
  <2> QED
    BY <1>1, <1>6, <2>1, ServerStep DEF Participants
<1>7. CASE server' = Released(s) /\ Reply(s, [type |-> "participant_released"])
  BY <1>1, <1>2, <1>7, ServerStep DEF Participants
<1>8. CASE server' = Released(s) /\ down' = down
  BY <1>1, <1>8, ServerStep DEF Participants
<1>9. CASE server' = server /\ down' = down
  BY <1>1, <1>9, ServerStep DEF Participants
<1> QED
  BY <1>3, <1>4, <1>5, <1>6, <1>7, <1>8, <1>9

LEMMA ServerSeesEndStep ==
  ASSUME IInv, NEW s \in Sockets, ServerSeesEnd(s)
  PROVE  IInv'
<1>1. /\ server' = Released(s) /\ Released(s) \in [Sockets -> Participants]
      /\ UNCHANGED <<client, net, slice, stream, acquiring, camera, mounted>>
      /\ down' = down
  BY ReleasedFacts DEF IInv, ServerSeesEnd, wires, media
<1> QED
  BY <1>1, ServerStep DEF Participants

LEMMA OtherPeerStep ==
  ASSUME IInv, NEW s \in Sockets, OtherPeer(s)
  PROVE  IInv'
<1>1. /\ server \in [Sockets -> Participants]
      /\ server' = [server EXCEPT ![s].paired = ~ server[s].paired]
      /\ UNCHANGED <<client, net, slice, stream, acquiring, camera, mounted>>
      /\ \E type \in {"peer_left", "ready_for_offer"} : Reply(s, [type |-> type])
  BY DEF IInv, ShapeOK, OtherPeer, wires, media, Participants
<1>2. server' \in [Sockets -> Participants]
  BY <1>1 DEF Participants
<1>3. \A type \in {"peer_left", "ready_for_offer"} :
        [type |-> type] \in Answers /\ [type |-> type].type # "join_accepted"
  BY DEF Answers
<1> QED
  BY <1>1, <1>2, <1>3, ServerStep DEF Participants

\* What becomes of a camera that nobody waits for, or was refused.
LEMMA NoCameraStep ==
  ASSUME IInv, NEW i \in Captures, camera[i] = "prompt",
         NEW v \in {"stopped", "failed"}, camera' = [camera EXCEPT ![i] = v],
         UNCHANGED <<client, net, down, server, slice, stream, acquiring, mounted>>
  PROVE  IInv'
<1>1. ShapeOK /\ CameraInv /\ SocketInv /\ HasSocket /\ AdmissionsOK
  BY DEF IInv
<1>2. /\ camera' \in Cameras
      /\ \A j \in Captures : camera'[j] = "live" => camera[j] = "live"
  BY <1>1 DEF ShapeOK, Cameras
<1>3. ShapeOK'
  BY <1>1, <1>2 DEF ShapeOK
<1>4. CameraInv' /\ SocketInv' /\ HasSocket' /\ AdmissionsOK'
  BY <1>1, <1>2
  DEF CameraInv, SocketInv, HasSocket, LeftBehind, AdmissionsOK, In
<1> QED
  BY <1>3, <1>4 DEF IInv

\* A stream that is waited for belongs to a tab in pending-media, which holds
\* no other.
LEMMA AcquireSucceedsStep ==
  ASSUME IInv, NEW i \in Captures, AcquireSucceeds(i)
  PROVE  IInv'
<1>1. /\ ShapeOK /\ CameraInv /\ SocketInv /\ HasSocket /\ AdmissionsOK
      /\ camera[i] = "prompt"
      /\ UNCHANGED <<client, net, down, server, mounted>>
  BY DEF IInv, AcquireSucceeds, wires
<1>2. CASE Cancelled(i)
  <2>1. camera' = [camera EXCEPT ![i] = "stopped"]
        /\ UNCHANGED <<slice, stream, acquiring>>
    BY <1>2 DEF AcquireSucceeds
  <2> QED
    BY <1>1, <2>1, NoCameraStep
<1>3. CASE ~ Cancelled(i)
  <2> DEFINE l == MediaReadySent(slice)
             cam == [camera EXCEPT ![i] = "live"]
  <2>1. RenderedWith(l, i, cam) /\ acquiring = i /\ i # NoCapture
    BY <1>3 DEF AcquireSucceeds, Cancelled, Captures, NoCapture
  <2>2. mounted /\ slice.session = "pending-media" /\ stream = NoCapture
    BY <1>1, <2>1 DEF CameraInv, In, Announced
  <2>3. Plain(l) /\ l.session = "waiting-for-peer"
    BY <1>1, <2>2, Reduced DEF MediaReadySent, In, To, ShapeOK, Slice
  <2> HIDE DEF l
  <2>4. slice' = l /\ stream' = i /\ camera' = cam /\ acquiring' = NoCapture
    BY <2>1, <2>2, <2>3 DEF RenderedWith, In
  <2>5. /\ camera' \in Cameras
        /\ \A j \in Captures : camera'[j] = "live" => j = i
    <3>1. \A j \in Captures : camera[j] # "live"
      BY <1>1, <2>2 DEF CameraInv, Captures, NoCapture
    <3> QED
      BY <1>1, <2>4, <3>1 DEF ShapeOK, Cameras
  <2>6. ShapeOK'
    BY <1>1, <2>3, <2>4, <2>5 DEF ShapeOK, Plain
  <2>7. CameraInv'
    BY <1>1, <2>2, <2>3, <2>4, <2>5 DEF CameraInv, In, Announced
  <2>8. SocketInv' /\ HasSocket'
    BY <1>1, <2>3, <2>4 DEF SocketInv, HasSocket, LeftBehind, Plain
  <2>9. AdmissionsOK'
    BY <1>1 DEF AdmissionsOK
  <2> QED
    BY <2>6, <2>7, <2>8, <2>9 DEF IInv
<1> QED
  BY <1>2, <1>3

LEMMA AcquireFailsStep ==
  ASSUME IInv, NEW i \in Captures, AcquireFails(i)
  PROVE  IInv'
<1>1. /\ camera[i] = "prompt" /\ camera' = [camera EXCEPT ![i] = "failed"]
      /\ UNCHANGED <<client, net, down, server, slice, stream, acquiring, mounted>>
  BY DEF AcquireFails, wires
<1> QED
  BY <1>1, NoCameraStep

-----------------------------------------------------------------------------
LEMMA NextStep ==
  ASSUME IInv, [Next]_vars
  PROVE  IInv'
<1>1. CASE User \/ ConnectionEvent
  BY <1>1, SubmitStep, RetryStep, LeaveStep, RejoinStep, UnmountStep,
     ConnectionEventStep DEF User
<1>2. ASSUME NEW s \in Sockets,
             \/ Network(s) \/ Lose(s) \/ Handle(s)
             \/ ServerReads(s) \/ ServerSeesEnd(s) \/ OtherPeer(s)
      PROVE  IInv'
  BY <1>2, OpenedStep, OnCloseStep, LoseStep, HandleStep, ServerReadsStep,
     ServerSeesEndStep, OtherPeerStep DEF Network
<1>3. ASSUME NEW i \in Captures, Answer(i)
      PROVE  IInv'
  BY <1>3, AcquireSucceedsStep, AcquireFailsStep DEF Answer
<1>4. CASE UNCHANGED vars
  BY <1>4, StutterStep
<1> QED
  BY <1>1, <1>2, <1>3, <1>4 DEF Next

\* The invariant the two properties rest on: the provider holds a stream from
\* its announcement on and waits for one in pending-media only, a client that
\* was closed is at the form, and an admission arrives where it was given.
THEOREM Inductive == Spec => []IInv
<1>1. Init => IInv
  BY InitStep
<1>2. IInv /\ [Next]_vars => IInv'
  BY NextStep
<1> QED
  BY <1>1, <1>2, PTL DEF Spec

\* A camera runs only while the provider holds its stream, and out of a room,
\* or when its route is gone, none does, however late getUserMedia answers
\* (local-media-provider.tsx).
THEOREM CameraFollows == Spec => []CameraFollowsSession
<1>1. IInv => CameraFollowsSession
  <2> SUFFICES ASSUME IInv, In(slice, {"idle", "joining", "media-error"}) \/ ~ mounted
               PROVE  stream = NoCapture
    BY DEF IInv, CameraInv, CameraFollowsSession, Captures, NoCapture
  <2> QED
    BY DEF IInv, CameraInv, In, Announced
<1> QED
  BY <1>1, Inductive, PTL

\* A tab that is in a room and not yet in a call talks over the WebSocket it
\* was admitted on, unless one was left behind, or it shows that the transport
\* is in error (client.ts, cleanup.tsx).
THEOREM HasItsSocket == Spec => []SessionHasItsSocket
<1>1. IInv => SessionHasItsSocket
  BY DEF IInv, HasSocket, SessionHasItsSocket, In, InRoom
<1> QED
  BY <1>1, Inductive, PTL

=============================================================================
