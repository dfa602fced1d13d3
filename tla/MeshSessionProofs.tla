-------------------------- MODULE MeshSessionProofs --------------------------
(***************************************************************************)
(* Proofs about the session of a mesh tab, for every number of WebSockets, *)
(* submissions and acquisitions: the camera follows the session, an        *)
(* admitted tab has the WebSocket it was admitted on, and one that shows   *)
(* itself media-ready has told the server.                                 *)
(***************************************************************************)
EXTENDS MeshSession, SequenceTheorems, TLAPS

\* The peer IDs the server gives out, and its frames.  The type invariant of
\* MeshSession also bounds their number by the submissions of the form, which
\* nothing here depends on.
Given == Sockets \X Nat
Answers == [type : {"join_accepted"}, peer : Given]
           \cup [type : {"join_rejected", "participant_released",
                         "pair_negotiation_instruction"}]
Slice == [fsm : LocalFsms, roomId : BOOLEAN, peer : Given \cup {NoPeer}]
Refs == [stream : Captures \cup {NoStream}, gen : Nat,
         trigger : {<<>>} \cup ((Given \cup {NoPeer}) \X Nat)]

ShapeOK ==
  /\ client \in [transport : Transports, socket : Sockets \cup {NoSocket},
                 closedByUser : BOOLEAN]
  /\ net \in [Sockets -> NetStates]
  /\ up \in [Sockets -> Seq(Up)] /\ down \in [Sockets -> Seq(Answers)]
  /\ server \in [Sockets -> [peer : Given \cup {NoPeer}, ready : BOOLEAN,
                             admissions : Nat]]
  /\ local \in Slice
  /\ media \in Refs
  /\ camera \in [Captures -> Camera]
  /\ mounted \in BOOLEAN

\* An acquisition whose result would be used, and a camera that runs.
Pending(i) == camera[i].status = "prompt" /\ camera[i].gen = media.gen
Runs(i) == camera[i].status = "live"

\* In a mounted tab an acquisition is pending only while the slice waits for
\* it, or has lost the transport meanwhile; it is the only one and no camera
\* runs beside it.  An unmounted tab has no WebSocket to announce a camera on,
\* so what is acquired late is stopped.
CameraInv ==
  /\ CameraFollowsSession
  /\ \A i \in Captures : camera[i].status = "prompt" => camera[i].gen <= media.gen
  /\ mounted =>
       \A i \in Captures :
         /\ Runs(i) => local.fsm \in {"media-ready", "signaling-error"}
         /\ Pending(i) =>
              /\ local.fsm \in {"acquiring-media", "signaling-error"}
              /\ \A j \in Captures : ~ Runs(j) /\ (Pending(j) => j = i)
  /\ ~ mounted => client.socket = NoSocket

\* The client refers to the last WebSocket opened or to none, and to one as
\* long as the tab is joining or admitted; it is told of its opening.
InFlow == Admitted \cup {"joining"}

SocketInv ==
  /\ \A s, t \in Sockets : t < s /\ net[s] # "none" => net[t] # "none"
  /\ client.socket # NoSocket =>
       /\ net[client.socket] \in {"connecting", "open", "lost"}
       /\ LastSocket(client.socket)
       /\ client.transport \in {"connecting", "open"}
       /\ net[client.socket] # "connecting" => client.transport = "open"
  /\ \A s \in Sockets : net[s] \in {"none", "connecting"} => down[s] = <<>>
  /\ mounted /\ local.fsm \in InFlow => client.socket # NoSocket
  /\ mounted /\ local.fsm \in Admitted =>
       /\ ConnOf(local.peer) \in Sockets
       /\ net[ConnOf(local.peer)] \notin {"none", "connecting"}

\* A peer ID is given out once, by the goroutine of its connection.
GivenBy(srv, s, p) == ConnOf(p) = s /\ p[2] <= srv[s].admissions

AdmissionsOK ==
  /\ \A s \in Sockets :
       /\ server[s].peer # NoPeer => GivenBy(server, s, server[s].peer)
       /\ \A k \in 1..Len(down[s]) :
            down[s][k].type = "join_accepted" => GivenBy(server, s, down[s][k].peer)
  /\ local.peer # NoPeer => GivenBy(server, ConnOf(local.peer), local.peer)

IInv == ShapeOK /\ CameraInv /\ SocketInv /\ AdmissionsOK /\ ReadyIsAnnounced

-----------------------------------------------------------------------------
(* The slice and the camera. *)

\* The changes of the slice that are dispatched: a new acquisition begins
\* from a state in which nothing is acquired.
Ordinary(l) ==
  /\ l \in Slice
  /\ \/ l.fsm = local.fsm
     \/ l.fsm \in {"idle", "left", "released", "signaling-error"}
     \/ /\ l.fsm \in {"joining", "joined"}
        /\ local.fsm \notin {"acquiring-media", "media-ready", "signaling-error"}

LEMMA StoppedFacts ==
  ASSUME ShapeOK, NEW x \in Captures \cup {NoStream}
  PROVE  /\ Stopped(camera, x) \in [Captures -> Camera]
         /\ \A i \in Captures :
              /\ Stopped(camera, x)[i].gen = camera[i].gen
              /\ Stopped(camera, x)[i].status =
                   IF i = x THEN "stopped" ELSE camera[i].status
<1>1. x = NoStream => x \notin Captures
  BY DEF NoStream, Captures
<1>2. CASE x = NoStream
  BY <1>1, <1>2 DEF Stopped, ShapeOK
<1>3. CASE x \in Captures
  BY <1>1, <1>3 DEF Stopped, ShapeOK, Camera
<1> QED
  BY <1>2, <1>3

LEMMA RefsFacts ==
  ASSUME NEW m \in Refs
  PROVE  /\ m.gen \in Nat /\ m.stream \in Captures \cup {NoStream}
         /\ \A x \in Captures \cup {NoStream} :
              /\ [m EXCEPT !.stream = x] \in Refs
              /\ [m EXCEPT !.stream = x].stream = x
              /\ [m EXCEPT !.stream = x].gen = m.gen
              /\ [stream |-> x, gen |-> m.gen + 1, trigger |-> <<>>] \in Refs
         /\ [m EXCEPT !.gen = @ + 1, !.trigger = <<>>] \in Refs
         /\ [m EXCEPT !.gen = @ + 1, !.trigger = <<>>].gen = m.gen + 1
         /\ [m EXCEPT !.gen = @ + 1, !.trigger = <<>>].stream = m.stream
         /\ \A p \in Given \cup {NoPeer} :
              /\ [m EXCEPT !.trigger = <<p, m.gen>>] \in Refs
              /\ [m EXCEPT !.trigger = <<p, m.gen>>].gen = m.gen
              /\ [m EXCEPT !.trigger = <<p, m.gen>>].stream = m.stream
<1> DEFINE T == {<<>>} \cup ((Given \cup {NoPeer}) \X Nat)
           S == Captures \cup {NoStream}
<1>1. <<>> \in T /\ \A p \in Given \cup {NoPeer}, n \in Nat : <<p, n>> \in T
  OBVIOUS
<1>2. Refs = [stream : S, gen : Nat, trigger : T]
  BY DEF Refs
<1> HIDE DEF T, S
<1>3. m.gen \in Nat /\ m.stream \in S /\ m.gen + 1 \in Nat
  BY <1>2
<1>4. \A x \in S :
        /\ [m EXCEPT !.stream = x] \in Refs
        /\ [m EXCEPT !.stream = x].stream = x
        /\ [m EXCEPT !.stream = x].gen = m.gen
        /\ [stream |-> x, gen |-> m.gen + 1, trigger |-> <<>>] \in Refs
  BY <1>1, <1>2, <1>3
<1>5. /\ [m EXCEPT !.gen = @ + 1, !.trigger = <<>>] \in Refs
      /\ [m EXCEPT !.gen = @ + 1, !.trigger = <<>>].gen = m.gen + 1
      /\ [m EXCEPT !.gen = @ + 1, !.trigger = <<>>].stream = m.stream
  BY <1>1, <1>2, <1>3
<1>6. \A p \in Given \cup {NoPeer} :
        /\ [m EXCEPT !.trigger = <<p, m.gen>>] \in Refs
        /\ [m EXCEPT !.trigger = <<p, m.gen>>].gen = m.gen
        /\ [m EXCEPT !.trigger = <<p, m.gen>>].stream = m.stream
  BY <1>1, <1>2, <1>3
<1> QED
  BY <1>3, <1>4, <1>5, <1>6 DEF S

LEMMA RenderedKeeps ==
  ASSUME ShapeOK, CameraInv, mounted, UNCHANGED mounted, NEW l, Ordinary(l), Rendered(l)
  PROVE  /\ CameraInv'
         /\ local' \in Slice
         /\ media' \in Refs
         /\ camera' \in [Captures -> Camera]
         /\ local'.peer = l.peer
         /\ local'.fsm # l.fsm => l.fsm = "joined" /\ local'.fsm = "acquiring-media"
<1>1. /\ l \in Slice /\ local \in Slice /\ camera \in [Captures -> Camera]
      /\ media \in Refs
      /\ media.gen \in Nat /\ media.stream \in Captures \cup {NoStream}
  BY RefsFacts DEF Ordinary, ShapeOK
<1>2. CASE Acquires(l)
  <2>1. PICK i \in Captures :
          /\ Prompted(i)
          /\ media' = [media EXCEPT !.trigger = Trigger(l)]
          /\ local' = [l EXCEPT !.fsm = "acquiring-media"]
    BY <1>2 DEF Rendered
  <2>2. l.fsm = "joined"
    BY <1>2 DEF Acquires
  <2>3. /\ local' \in Slice /\ local'.fsm = "acquiring-media" /\ local'.peer = l.peer
        /\ media' \in Refs
        /\ media'.gen = media.gen /\ media'.stream = media.stream
    <3>1. /\ local'.fsm = "acquiring-media" /\ local'.peer = l.peer
          /\ local' \in Slice /\ l.peer \in Given \cup {NoPeer}
      BY <1>1, <2>1 DEF Slice, LocalFsms
    <3> QED
      BY <1>1, <2>1, <3>1, RefsFacts DEF Trigger
  <2>4. /\ camera[i].status = "none"
        /\ camera' \in [Captures -> Camera]
        /\ camera'[i].status = "prompt" /\ camera'[i].gen = media.gen
        /\ \A j \in Captures \ {i} : camera'[j] = camera[j]
    BY <1>1, <2>1 DEF Prompted, Fresh, Unused, Camera
  <2>5. \A j \in Captures : ~ Runs(j) /\ ~ Pending(j)
    BY <2>2 DEF Ordinary, CameraInv
  <2>6. \A j \in Captures : /\ camera'[j].status # "live"
                            /\ Pending(j)' => j = i
                            /\ camera'[j].status = "prompt" => camera'[j].gen <= media'.gen
    BY <1>1, <2>3, <2>4, <2>5 DEF Pending, Runs, CameraInv
  <2>7. CameraInv'
    BY <2>3, <2>6 DEF CameraInv, CameraFollowsSession, Runs, Pending
  <2> QED
    BY <2>2, <2>3, <2>4, <2>7
<1>3. CASE ~ Acquires(l)
  <2> DEFINE entered(states) == l.fsm # local.fsm /\ l.fsm \in states
             rearmed == IF entered(Rearms)
                        THEN [media EXCEPT !.gen = @ + 1, !.trigger = <<>>]
                        ELSE media
  <2>1. /\ local' = l
        /\ camera' = IF entered(DropsStream) THEN Stopped(camera, media.stream)
                     ELSE camera
        /\ media' = IF entered(DropsStream) THEN [rearmed EXCEPT !.stream = NoStream]
                    ELSE rearmed
    BY <1>3 DEF Rendered
  <2>2. /\ rearmed \in Refs
        /\ rearmed.stream = media.stream
        /\ rearmed.gen = IF entered(Rearms) THEN media.gen + 1 ELSE media.gen
    <3> HIDE DEF entered
    <3>1. CASE entered(Rearms)
      <4>1. rearmed = [media EXCEPT !.gen = @ + 1, !.trigger = <<>>]
        BY <3>1
      <4> QED
        BY <1>1, <3>1, <4>1, RefsFacts
    <3>2. CASE ~ entered(Rearms)
      BY <1>1, <3>2
    <3> QED
      BY <3>1, <3>2
  <2>3. /\ media' \in Refs
        /\ media'.gen = rearmed.gen
        /\ ~ entered(DropsStream) => media'.stream = media.stream
    <3> HIDE DEF rearmed
    <3> QED
      BY <2>1, <2>2, RefsFacts DEF NoStream
  <2>4. /\ camera' \in [Captures -> Camera]
        /\ \A i \in Captures : camera'[i].gen = camera[i].gen
        /\ \A i \in Captures : camera'[i].status =
             IF entered(DropsStream) /\ i = media.stream THEN "stopped"
             ELSE camera[i].status
    BY <1>1, <2>1, StoppedFacts
  <2> HIDE DEF rearmed
  <2>5. \A i \in Captures : camera'[i].status = "prompt" => camera'[i].gen <= media'.gen
    BY <1>1, <2>2, <2>3, <2>4 DEF CameraInv, Camera
  <2>6. \A i \in Captures : Pending(i)' => Pending(i) /\ ~ entered(Rearms)
    BY <1>1, <2>2, <2>3, <2>4 DEF CameraInv, Camera, Pending
  <2>7. \A i \in Captures : Runs(i)' => Runs(i) /\ ~ entered(DropsStream)
    BY <2>4 DEF CameraInv, CameraFollowsSession, Runs
  <2>8. \A i \in Captures :
          /\ Runs(i)' => local'.fsm \in {"media-ready", "signaling-error"}
          /\ Pending(i)' => local'.fsm \in {"acquiring-media", "signaling-error"}
    BY <2>1, <2>6, <2>7 DEF CameraInv, Ordinary, Rearms, DropsStream
  <2>9. CameraFollowsSession'
    BY <2>3, <2>7, <2>8 DEF CameraFollowsSession, CameraInv, Runs
  <2>10. CameraInv'
    BY <2>5, <2>6, <2>7, <2>8, <2>9 DEF CameraInv
  <2>11. local' \in Slice /\ local'.peer = l.peer /\ local'.fsm = l.fsm
    BY <1>1, <2>1
  <2> QED
    BY <2>3, <2>4, <2>10, <2>11
<1> QED
  BY <1>2, <1>3


\* The same of a dispatch, which on an unmounted route only writes the slice.
LEMMA DispatchedKeeps ==
  ASSUME ShapeOK, CameraInv, UNCHANGED mounted, NEW l, Ordinary(l), Dispatched(l),
         ~ mounted => client'.socket = NoSocket
  PROVE  /\ CameraInv'
         /\ local' \in Slice /\ media' \in Refs /\ camera' \in [Captures -> Camera]
         /\ local'.peer = l.peer
         /\ local'.fsm # l.fsm => l.fsm = "joined" /\ local'.fsm = "acquiring-media"
<1>1. CASE mounted
  BY <1>1, RenderedKeeps DEF Dispatched
<1>2. CASE ~ mounted
  <2>1. local' = l /\ media' = media /\ camera' = camera
    BY <1>2 DEF Dispatched
  <2>2. \A i \in Captures : camera[i].status # "live"
    BY <1>2 DEF CameraInv, CameraFollowsSession
  <2>3. CameraInv'
    BY <1>2, <2>1, <2>2 DEF CameraInv, CameraFollowsSession
  <2> QED
    BY <2>1, <2>3 DEF Ordinary, ShapeOK
<1> QED
  BY <1>1, <1>2

\* What the reducer makes of the slice is dispatched in every state.
LEMMA Reduced ==
  ASSUME ShapeOK
  PROVE  /\ Ordinary(local) /\ Ordinary(InitialLocal)
         /\ Ordinary([InitialLocal EXCEPT !.fsm = "left"])
         /\ Ordinary(JoinRequested(local)) /\ JoinRequested(local).peer = local.peer
         /\ Ordinary(JoinRejected(local))
         /\ Ordinary(ParticipantReleased(local))
         /\ \A t \in Transports : Ordinary(TransportChanged(local, t))
         /\ \A t \in Transports : Ordinary(TransportChanged(JoinRejected(local), t))
         /\ \A p \in Given : Ordinary(JoinAccepted(local, p))
         /\ local.fsm = "media-error" => Ordinary([local EXCEPT !.fsm = "joined"])
<1>1. local \in Slice /\ NoPeer \in Given \cup {NoPeer}
  BY DEF ShapeOK
<1> DEFINE P == Given \cup {NoPeer}
<1>2. /\ InitialLocal \in Slice /\ InitialLocal.fsm = "idle"
      /\ [InitialLocal EXCEPT !.fsm = "left"] \in Slice
      /\ [InitialLocal EXCEPT !.fsm = "left"].fsm = "left"
  BY DEF InitialLocal, Slice, LocalFsms
<1>3. \A f \in LocalFsms : /\ [local EXCEPT !.fsm = f] \in Slice
                           /\ [local EXCEPT !.fsm = f].fsm = f
  BY <1>1 DEF Slice
<1>4. Ordinary(local) /\ Ordinary(InitialLocal)
      /\ Ordinary([InitialLocal EXCEPT !.fsm = "left"])
  BY <1>1, <1>2 DEF Ordinary
<1>5. Ordinary(JoinRequested(local)) /\ JoinRequested(local).peer = local.peer
  BY <1>1 DEF Ordinary, JoinRequested, Slice, LocalFsms
<1>6. Ordinary(JoinRejected(local)) /\ Ordinary(ParticipantReleased(local))
  BY <1>2, <1>3, <1>4 DEF Ordinary, JoinRejected, ParticipantReleased, LocalFsms
<1>7. \A t \in Transports : Ordinary(TransportChanged(local, t))
  BY <1>3, <1>4 DEF Ordinary, TransportChanged, LocalFsms
<1>8. \A t \in Transports : Ordinary(TransportChanged(JoinRejected(local), t))
  <2>1. JoinRejected(local) \in {local, InitialLocal}
    BY DEF JoinRejected
  <2>2. \A t \in Transports : TransportChanged(InitialLocal, t) = InitialLocal
    BY <1>2 DEF TransportChanged
  <2> QED
    BY <1>4, <1>7, <2>1, <2>2
<1>9. \A p \in Given : Ordinary(JoinAccepted(local, p))
  <2>1. \A p \in Given : local.fsm = "joining" =>
          /\ JoinAccepted(local, p) \in Slice
          /\ JoinAccepted(local, p).fsm = "joined"
    BY <1>1 DEF JoinAccepted, Slice, LocalFsms
  <2>2. \A p \in Given : local.fsm # "joining" => JoinAccepted(local, p) = local
    BY DEF JoinAccepted
  <2> QED
    BY <1>4, <2>1, <2>2 DEF Ordinary
<1>10. local.fsm = "media-error" => Ordinary([local EXCEPT !.fsm = "joined"])
  BY <1>3 DEF Ordinary, LocalFsms
<1> QED
  BY <1>4, <1>5, <1>6, <1>7, <1>8, <1>9, <1>10


-----------------------------------------------------------------------------
(* The wires. *)

\* A change of the slice that admits nobody and begins no join.
Keeps(l) ==
  /\ l.peer \in {local.peer, NoPeer}
  /\ l.fsm \in InFlow => local.fsm \in InFlow
  /\ l.fsm \in Admitted => local.fsm \in Admitted /\ l.peer = local.peer
  /\ l.fsm = "media-ready" => local.fsm = "media-ready"

LEMMA ReducedKeeps ==
  ASSUME ShapeOK
  PROVE  /\ Keeps(local) /\ Keeps(InitialLocal)
         /\ Keeps([InitialLocal EXCEPT !.fsm = "left"])
         /\ [InitialLocal EXCEPT !.fsm = "left"].fsm \notin InFlow
         /\ InitialLocal.fsm \notin InFlow
         /\ Keeps(JoinRejected(local)) /\ Keeps(ParticipantReleased(local))
         /\ \A t \in Transports :
              /\ Keeps(TransportChanged(local, t))
              /\ Keeps(TransportChanged(JoinRejected(local), t))
              /\ t \in {"closed", "error"} =>
                   /\ TransportChanged(local, t).fsm \notin InFlow
                   /\ TransportChanged(JoinRejected(local), t).fsm \notin InFlow
         /\ local.fsm = "media-error" => Keeps([local EXCEPT !.fsm = "joined"])
<1>1. local \in Slice
  BY DEF ShapeOK
<1>2. /\ InitialLocal.fsm = "idle" /\ InitialLocal.peer = NoPeer
      /\ [InitialLocal EXCEPT !.fsm = "left"].fsm = "left"
      /\ [InitialLocal EXCEPT !.fsm = "left"].peer = NoPeer
  BY DEF InitialLocal
<1>3. \A f \in LocalFsms : /\ [local EXCEPT !.fsm = f].peer = local.peer
                           /\ [local EXCEPT !.fsm = f].fsm = f
  BY <1>1 DEF Slice
<1>4. Keeps(local) /\ Keeps(InitialLocal)
      /\ Keeps([InitialLocal EXCEPT !.fsm = "left"])
      /\ [InitialLocal EXCEPT !.fsm = "left"].fsm \notin InFlow
      /\ InitialLocal.fsm \notin InFlow
  BY <1>2 DEF Keeps, InFlow, Admitted
<1>5. JoinRejected(local) \in {local, InitialLocal}
  BY DEF JoinRejected
<1>6. Keeps(ParticipantReleased(local))
  BY <1>3, <1>4 DEF Keeps, ParticipantReleased, InFlow, Admitted, LocalFsms
<1>7. \A t \in Transports :
        /\ Keeps(TransportChanged(local, t))
        /\ t \in {"closed", "error"} => TransportChanged(local, t).fsm \notin InFlow
  BY <1>3, <1>4 DEF Keeps, TransportChanged, InFlow, Admitted, LocalFsms
<1>8. \A t \in Transports : TransportChanged(InitialLocal, t) = InitialLocal
  BY <1>2 DEF TransportChanged
<1>9. local.fsm = "media-error" => Keeps([local EXCEPT !.fsm = "joined"])
  BY <1>3 DEF Keeps, InFlow, Admitted, LocalFsms
<1> QED
  BY <1>4, <1>5, <1>6, <1>7, <1>8, <1>9

Client == [transport : Transports, socket : Sockets \cup {NoSocket},
           closedByUser : BOOLEAN]

\* A WebSocket is not begun again, and one that is opened was connecting.
NetGoesOn ==
  /\ net' \in [Sockets -> NetStates]
  /\ \A s \in Sockets : /\ net'[s] = "none" => net[s] = "none"
                        /\ net'[s] = "connecting" => net[s] \in {"none", "connecting"}
                        /\ net'[s] = "open" => net[s] \in {"connecting", "open"}

UpGrows ==
  /\ up' \in [Sockets -> Seq(Up)]
  /\ \A s \in Sockets :
       up'[s] = up[s] \/ \E msg \in Up : up'[s] = Append(up[s], msg)

DownTaken ==
  /\ down' \in [Sockets -> Seq(Answers)]
  /\ \A s \in Sockets : \/ down'[s] = down[s] \/ down'[s] = <<>>
                        \/ down[s] # <<>> /\ down'[s] = Tail(down[s])

LEMMA SentFacts ==
  ASSUME ShapeOK, Sendable, NEW msg \in Up, Sent(msg)
  PROVE  /\ UpGrows
         /\ net[client.socket] = "open" =>
              up'[client.socket] = Append(up[client.socket], msg)
<1>1. /\ client.socket \in Sockets /\ up \in [Sockets -> Seq(Up)]
      /\ \A q \in Seq(Up) : Append(q, msg) \in Seq(Up)
  BY AppendProperties DEF Sendable, ShapeOK
<1>2. up' = IF net[client.socket] = "open"
            THEN [up EXCEPT ![client.socket] = Append(up[client.socket], msg)] ELSE up
  BY DEF Sent
<1> QED
  BY <1>1, <1>2 DEF UpGrows

LEMMA CloseFacts ==
  ASSUME ShapeOK, CloseSocket
  PROVE  /\ client' \in Client /\ client'.socket = NoSocket
         /\ client'.transport = "closed"
         /\ NetGoesOn
         /\ \A s \in Sockets : net'[s] = "none" <=> net[s] = "none"
<1>1. client \in Client /\ net \in [Sockets -> NetStates]
  BY DEF ShapeOK, Client
<1>2. /\ client' \in Client /\ client'.socket = NoSocket
      /\ client'.transport = "closed"
  BY <1>1 DEF CloseSocket, Client, Transports
<1>3. \/ net' = net
      \/ /\ client.socket \in Sockets /\ net[client.socket] # "none"
         /\ \E v \in {"lost", "closing"} : net' = [net EXCEPT ![client.socket] = v]
  BY <1>1 DEF CloseSocket, Client
<1> QED
  BY <1>1, <1>2, <1>3 DEF NetGoesOn, NetStates

LEMMA SocketsKept ==
  ASSUME ShapeOK, SocketInv, NetGoesOn,
         \A s \in Sockets : net'[s] = "none" <=> net[s] = "none",
         \A s \in Sockets : net'[s] \in {"none", "connecting"} =>
                              down'[s] = down[s] \/ down'[s] = <<>>,
         \/ client'.socket = NoSocket
         \/ /\ client'.socket = client.socket
            /\ client.socket # NoSocket =>
                 /\ net'[client.socket] \in {"connecting", "open", "lost"}
                 /\ client'.transport \in {"connecting", "open"}
                 /\ net'[client.socket] # "connecting" => client'.transport = "open",
         mounted' /\ local'.fsm \in InFlow => client'.socket # NoSocket,
         mounted' /\ local'.fsm \in Admitted =>
           /\ ConnOf(local'.peer) \in Sockets
           /\ net[ConnOf(local'.peer)] \notin {"none", "connecting"}
  PROVE  SocketInv'
<1>1. \A s, t \in Sockets : t < s /\ net'[s] # "none" => net'[t] # "none"
  BY DEF SocketInv
<1>2. client'.socket # NoSocket =>
        /\ client'.socket \in Sockets
        /\ net'[client'.socket] \in {"connecting", "open", "lost"}
        /\ \A t \in Sockets : t > client'.socket => net'[t] = "none"
        /\ client'.transport \in {"connecting", "open"}
        /\ net'[client'.socket] # "connecting" => client'.transport = "open"
  BY DEF SocketInv, LastSocket, ShapeOK
<1>3. \A s \in Sockets : net'[s] \in {"none", "connecting"} => down'[s] = <<>>
  BY DEF SocketInv, NetGoesOn
<1>4. mounted' /\ local'.fsm \in Admitted =>
        /\ ConnOf(local'.peer) \in Sockets
        /\ net'[ConnOf(local'.peer)] \notin {"none", "connecting"}
  BY DEF NetGoesOn
<1>5. /\ client'.socket # NoSocket =>
           /\ net'[client'.socket] \in {"connecting", "open", "lost"}
           /\ \A t \in Sockets : t > client'.socket => net'[t] = "none"
           /\ client'.transport \in {"connecting", "open"}
           /\ net'[client'.socket] # "connecting" => client'.transport = "open"
      /\ \A s, t \in Sockets : t < s /\ net'[s] # "none" => net'[t] # "none"
      /\ \A s \in Sockets : net'[s] \in {"none", "connecting"} => down'[s] = <<>>
      /\ mounted' /\ local'.fsm \in InFlow => client'.socket # NoSocket
  BY <1>1, <1>2, <1>3
<1> QED
  BY <1>4, <1>5 DEF SocketInv, LastSocket


-----------------------------------------------------------------------------
(* Announcements. *)

Told(q) == \E i \in DOMAIN q : q[i] = "media_ready"

LEMMA ToldFacts ==
  ASSUME NEW q \in Seq(Up), NEW msg \in Up
  PROVE  /\ Told(q) => Told(Append(q, msg))
         /\ msg = "media_ready" => Told(Append(q, msg))
         /\ q # <<>> /\ Head(q) # "media_ready" /\ Told(q) => Told(Tail(q))
<1>1. /\ Append(q, msg) \in Seq(Up) /\ Len(Append(q, msg)) = Len(q) + 1
      /\ \A i \in 1..Len(q) : Append(q, msg)[i] = q[i]
      /\ Append(q, msg)[Len(q) + 1] = msg
      /\ DOMAIN q = 1..Len(q) /\ Len(q) \in Nat
      /\ DOMAIN Append(q, msg) = 1..(Len(q) + 1)
  BY AppendProperties
<1>2. Told(q) => Told(Append(q, msg))
  BY <1>1 DEF Told
<1>3. msg = "media_ready" => Told(Append(q, msg))
  BY <1>1 DEF Told
<1>4. ASSUME q # <<>>, Head(q) # "media_ready", Told(q)  PROVE Told(Tail(q))
  <2>1. /\ DOMAIN Tail(q) = 1..(Len(q) - 1) /\ q[1] = Head(q)
        /\ \A i \in 1..(Len(q) - 1) : Tail(q)[i] = q[i + 1]
    BY <1>1, <1>4, HeadTailProperties
  <2>2. PICK i \in 1..Len(q) : q[i] = "media_ready"
    BY <1>1, <1>4 DEF Told
  <2>3. i # 1 /\ i - 1 \in 1..(Len(q) - 1)
    BY <1>1, <1>4, <2>1, <2>2
  <2>4. Tail(q)[i - 1] = "media_ready"
    BY <1>1, <2>1, <2>2, <2>3
  <2> QED
    BY <2>1, <2>3, <2>4 DEF Told
<1> QED
  BY <1>2, <1>3, <1>4

\* The announcement of the admission p, which the slice shows: it stands as
\* long as the server has read it, or has it to read, or has released p.
Announced(p) ==
  LET s == ConnOf(p)
  IN net[s] # "open" \/ Released(p) \/ server[s].ready \/ Told(up[s])

LEMMA AnnouncedFacts ==
  ReadyIsAnnounced <=>
    (mounted /\ local.fsm = "media-ready" /\ LastSocket(ConnOf(local.peer)) =>
       Announced(local.peer))
BY DEF ReadyIsAnnounced, Announced, Told

\* In a step of the tab or of the network an announcement is not lost.
LEMMA AnnouncementKept ==
  ASSUME IInv, NetGoesOn, UNCHANGED server,
         \A s \in Sockets : net'[s] = "open" =>
           up'[s] = up[s] \/ \E msg \in Up : up'[s] = Append(up[s], msg),
         mounted' /\ local'.fsm = "media-ready" =>
           mounted /\ local.fsm = "media-ready" /\ local'.peer = local.peer
  PROVE  ReadyIsAnnounced'
<1> SUFFICES ASSUME mounted', local'.fsm = "media-ready",
                    \A t \in Sockets : t > ConnOf(local'.peer) => net'[t] = "none",
                    net'[ConnOf(local'.peer)] = "open"
             PROVE  Announced(local.peer)'
  BY DEF ReadyIsAnnounced, LastSocket, Announced, Told
<1> DEFINE p == local.peer
           s == ConnOf(p)
<1>1. /\ mounted /\ local.fsm = "media-ready" /\ local'.peer = p
      /\ s \in Sockets /\ net[s] \notin {"none", "connecting"}
  BY DEF IInv, SocketInv, Admitted
<1>2. LastSocket(s) /\ net[s] = "open"
  BY <1>1 DEF NetGoesOn, LastSocket
<1>3. Announced(p)
  BY <1>1, <1>2, AnnouncedFacts DEF IInv
<1>4. Told(up[s]) => Told(up'[s])
  <2>1. up[s] \in Seq(Up)
    BY <1>1 DEF IInv, ShapeOK
  <2>2. up'[s] = up[s] \/ \E msg \in Up : up'[s] = Append(up[s], msg)
    BY <1>1
  <2> HIDE DEF s
  <2> QED
    BY <2>1, <2>2, ToldFacts
<1> QED
  BY <1>1, <1>2, <1>3, <1>4 DEF Announced, Released

LEMMA DownKept ==
  ASSUME ShapeOK, AdmissionsOK, DownTaken, UNCHANGED server, NEW s \in Sockets,
         NEW k \in 1..Len(down'[s]), down'[s][k].type = "join_accepted"
  PROVE  GivenBy(server', s, down'[s][k].peer)
<1>1. down[s] \in Seq(Answers) /\ down'[s] \in Seq(Answers) /\ Len(down[s]) \in Nat
  BY DEF ShapeOK, DownTaken
<1>2. \E j \in 1..Len(down[s]) : down'[s][k] = down[s][j]
  <2>1. CASE down'[s] = down[s]
    BY <2>1
  <2>2. CASE down'[s] = <<>>
    BY <2>2
  <2>3. CASE down[s] # <<>> /\ down'[s] = Tail(down[s])
    <3>1. /\ Len(down'[s]) = Len(down[s]) - 1 /\ k + 1 \in 1..Len(down[s])
          /\ down'[s][k] = down[s][k + 1]
      BY <1>1, <2>3, HeadTailProperties
    <3> QED
      BY <3>1
  <2> QED
    BY <2>1, <2>2, <2>3 DEF DownTaken
<1>3. GivenBy(server, s, down'[s][k].peer)
  BY <1>2 DEF AdmissionsOK
<1> QED
  BY <1>3 DEF GivenBy

LEMMA AdmissionsKept ==
  ASSUME ShapeOK, AdmissionsOK, DownTaken, UNCHANGED server,
         \/ local'.peer \in {local.peer, NoPeer}
         \/ \E s \in Sockets : /\ down[s] # <<>> /\ Head(down[s]).type = "join_accepted"
                               /\ local'.peer = Head(down[s]).peer
  PROVE  AdmissionsOK'
<1>1. \A s \in Sockets :
        \A k \in 1..Len(down'[s]) :
          down'[s][k].type = "join_accepted" => GivenBy(server', s, down'[s][k].peer)
  BY DownKept
<1>2. \A s \in Sockets : server'[s].peer # NoPeer => GivenBy(server', s, server'[s].peer)
  BY DEF AdmissionsOK, GivenBy
<1>3. local'.peer # NoPeer => GivenBy(server, ConnOf(local'.peer), local'.peer)
  <2>1. CASE local'.peer \in {local.peer, NoPeer}
    BY <2>1 DEF AdmissionsOK
  <2>2. ASSUME NEW s \in Sockets, down[s] # <<>>, Head(down[s]).type = "join_accepted",
               local'.peer = Head(down[s]).peer
        PROVE  GivenBy(server, ConnOf(local'.peer), local'.peer)
    <3>1. down[s] \in Seq(Answers) /\ Len(down[s]) \in Nat \ {0}
      BY <2>2, EmptySeq DEF ShapeOK
    <3>2. 1 \in 1..Len(down[s]) /\ down[s][1] = Head(down[s])
      BY <2>2, <3>1, HeadTailProperties
    <3> QED
      BY <2>2, <3>2 DEF AdmissionsOK, GivenBy
  <2> QED
    BY <2>1, <2>2
<1>4. local'.peer # NoPeer => GivenBy(server', ConnOf(local'.peer), local'.peer)
  BY <1>3 DEF GivenBy
<1> QED
  BY <1>1, <1>2, <1>4 DEF AdmissionsOK

\* A step of the tab or of the network, put together.
LEMMA BrowserStep ==
  ASSUME IInv, CameraInv', SocketInv', UNCHANGED server,
         client' \in Client, local' \in Slice, media' \in Refs,
         camera' \in [Captures -> Camera], mounted' \in BOOLEAN,
         NetGoesOn, UpGrows, DownTaken,
         \/ local'.peer \in {local.peer, NoPeer}
         \/ \E s \in Sockets : /\ down[s] # <<>> /\ Head(down[s]).type = "join_accepted"
                               /\ local'.peer = Head(down[s]).peer,
         mounted' /\ local'.fsm = "media-ready" =>
           mounted /\ local.fsm = "media-ready" /\ local'.peer = local.peer
  PROVE  IInv'
<1>1. ShapeOK'
  BY DEF IInv, ShapeOK, Client, Refs, NetGoesOn, UpGrows, DownTaken
<1>2. ReadyIsAnnounced'
  BY AnnouncementKept DEF UpGrows
<1>3. AdmissionsOK'
  BY AdmissionsKept DEF IInv
<1> QED
  BY <1>1, <1>2, <1>3 DEF IInv


-----------------------------------------------------------------------------
(* One lemma per action. *)

LEMMA InitStep == Init => IInv
<1> SUFFICES ASSUME Init PROVE IInv
  OBVIOUS
<1>1. /\ client \in Client /\ client.socket = NoSocket
      /\ net = [s \in Sockets |-> "none"]
      /\ up = [s \in Sockets |-> <<>>] /\ down = [s \in Sockets |-> <<>>]
      /\ local = InitialLocal /\ local \in Slice /\ local.fsm = "idle"
      /\ local.peer = NoPeer /\ mounted = TRUE
  BY DEF Init, Client, Transports, InitialLocal, Slice, LocalFsms
<1>2. media \in Refs
  <2>1. <<>> \in {<<>>} \cup ((Given \cup {NoPeer}) \X Nat)
    OBVIOUS
  <2> DEFINE T == {<<>>} \cup ((Given \cup {NoPeer}) \X Nat)
  <2> HIDE DEF T
  <2>2. <<>> \in T
    BY <2>1 DEF T
  <2>3. Refs = [stream : Captures \cup {NoStream}, gen : Nat, trigger : T]
    BY DEF Refs, T
  <2> QED
    BY <2>2, <2>3 DEF Init
<1>3. /\ camera \in [Captures -> Camera]
      /\ \A i \in Captures : camera[i].status = "none"
  BY DEF Init, Camera
<1>4. /\ server \in [Sockets -> [peer : Given \cup {NoPeer}, ready : BOOLEAN,
                                 admissions : Nat]]
      /\ \A s \in Sockets : server[s].peer = NoPeer
  BY DEF Init, NoParticipant
<1>5. up \in [Sockets -> Seq(Up)] /\ down \in [Sockets -> Seq(Answers)]
  BY <1>1, EmptySeq
<1>6. ShapeOK
  BY <1>1, <1>2, <1>3, <1>4, <1>5 DEF ShapeOK, Client, Refs, NetStates
<1>7. CameraInv
  BY <1>1, <1>3 DEF CameraInv, CameraFollowsSession, Runs, Pending
<1>8. SocketInv
  BY <1>1 DEF SocketInv, InFlow, Admitted
<1>9. AdmissionsOK
  <2>1. \A s \in Sockets : Len(down[s]) = 0
    BY <1>1
  <2> QED
    BY <1>1, <1>4, <2>1 DEF AdmissionsOK
<1>10. ReadyIsAnnounced
  BY <1>1 DEF ReadyIsAnnounced
<1> QED
  BY <1>6, <1>7, <1>8, <1>9, <1>10 DEF IInv

LEMMA StutterStep ==
  ASSUME IInv, UNCHANGED vars
  PROVE  IInv'
<1>1. /\ UNCHANGED <<client, net, awaiting, submits, up, down, server>>
      /\ UNCHANGED <<local, media, camera, manager, leaveRan, mounted>>
  BY DEF vars, wires, slices, rest
<1>2. ShapeOK' /\ CameraInv' /\ SocketInv'
  BY <1>1 DEF IInv, ShapeOK, CameraInv, CameraFollowsSession, Pending, Runs, SocketInv,
              LastSocket
<1>3. AdmissionsOK' /\ ReadyIsAnnounced'
  BY <1>1 DEF IInv, AdmissionsOK, GivenBy, ReadyIsAnnounced, LastSocket, Released
<1> QED
  BY <1>2, <1>3 DEF IInv

\* Connecting: the new WebSocket is the last.
LEMMA ConnectFacts ==
  ASSUME ShapeOK, SocketInv, NEW s \in Sockets, Connect(s)
  PROVE  /\ client' \in Client /\ client'.socket = s /\ client'.transport = "connecting"
         /\ net[s] = "none" /\ net'[s] = "connecting"
         /\ \A t \in Sockets \ {s} : net'[t] = net[t]
         /\ NetGoesOn
         /\ \A t \in Sockets : t > s => net'[t] = "none"
         /\ \A t \in Sockets : t < s => net'[t] # "none"
<1>1. /\ net \in [Sockets -> NetStates] /\ NoSocket \notin Sockets
      /\ \A t \in Sockets : t \in Nat
  BY DEF ShapeOK, Sockets, NoSocket
<1>2. /\ client' \in Client /\ client'.socket = s /\ client'.transport = "connecting"
  BY DEF Connect, Client, Transports
<1>3. /\ net[s] = "none" /\ net'[s] = "connecting"
      /\ \A t \in Sockets \ {s} : net'[t] = net[t]
      /\ net' \in [Sockets -> NetStates]
  BY <1>1 DEF Connect, NetStates
<1>4. \A t \in Sockets : t > s => net[t] = "none"
  BY <1>1, <1>3 DEF SocketInv
<1>5. \A t \in Sockets : t < s => net[t] # "none"
  BY <1>1 DEF Connect
<1>6. \A t \in Sockets : (t > s \/ t < s) => t # s
  BY <1>1
<1> QED
  BY <1>2, <1>3, <1>4, <1>5, <1>6 DEF NetGoesOn

LEMMA SubmitStep ==
  ASSUME IInv, Submit
  PROVE  IInv'
<1> DEFINE l == JoinRequested(local)
<1>1. ShapeOK /\ SocketInv /\ CameraInv /\ mounted
  BY DEF IInv, Submit
<1>2. /\ UNCHANGED <<down, server, manager, leaveRan, mounted>>
      /\ local.fsm \notin Admitted
  BY DEF Submit, rest, FormDisabled, Admitted
<1>3. Ordinary(l) /\ Ordinary(InitialLocal) /\ l.peer = local.peer
      /\ l.fsm \notin Admitted /\ InitialLocal.fsm = "idle" /\ InitialLocal.peer = NoPeer
  BY <1>1, <1>2, Reduced DEF JoinRequested, Admitted, InitialLocal, ShapeOK, Slice
<1>4. DownTaken /\ UNCHANGED mounted /\ "join_room" \in Up
  BY <1>1, <1>2 DEF DownTaken, ShapeOK, Up
<1>5. CASE client.socket # NoSocket /\ client.transport \in {"connecting", "open"}
  <2>1. SendJoin(l) /\ UNCHANGED <<client, net, awaiting>>
    BY <1>5 DEF Submit
  <2>2. NetGoesOn
    BY <1>1, <2>1 DEF NetGoesOn, ShapeOK
  <2>3. PICK k \in {l, InitialLocal} : Dispatched(k)
    BY <2>1 DEF SendJoin
  <2>4. /\ CameraInv'
        /\ local' \in Slice /\ media' \in Refs /\ camera' \in [Captures -> Camera]
        /\ local'.peer = k.peer /\ local'.fsm \notin Admitted
    <3>1. Ordinary(k) /\ k.fsm # "joined" /\ k.fsm \notin Admitted
      BY <1>3 DEF Admitted
    <3> QED
      BY <1>1, <1>2, <2>3, <3>1, DispatchedKeeps
  <2>5. UpGrows
    BY <1>1, <1>4, <2>1, SentFacts DEF SendJoin, UpGrows, ShapeOK
  <2>6. SocketInv'
    BY <1>1, <1>2, <1>5, <2>1, <2>2, <2>4, SocketsKept DEF SocketInv
  <2> QED
    BY <1>1, <1>2, <1>3, <1>4, <2>1, <2>2, <2>3, <2>4, <2>5, <2>6, BrowserStep
    DEF ShapeOK, Client, Admitted
<1>6. CASE ~ (client.socket # NoSocket /\ client.transport \in {"connecting", "open"})
  <2>1. (\E s \in Sockets : Connect(s)) /\ Dispatched(l) /\ UNCHANGED up
    BY <1>6 DEF Submit
  <2>2. PICK s \in Sockets : Connect(s)
    BY <2>1
  <2>3. /\ client' \in Client /\ client'.socket = s /\ client'.transport = "connecting"
        /\ net[s] = "none" /\ net'[s] = "connecting"
        /\ \A t \in Sockets \ {s} : net'[t] = net[t]
        /\ NetGoesOn
        /\ \A t \in Sockets : t > s => net'[t] = "none"
        /\ \A t \in Sockets : t < s => net'[t] # "none"
    BY <1>1, <2>2, ConnectFacts
  <2>4. /\ CameraInv'
        /\ local' \in Slice /\ media' \in Refs /\ camera' \in [Captures -> Camera]
        /\ local'.peer = l.peer /\ local'.fsm \notin Admitted
    <3>1. l.fsm # "joined"
      BY <1>3 DEF Admitted
    <3> QED
      BY <1>1, <1>2, <1>3, <2>1, <3>1, DispatchedKeeps
  <2>5. UpGrows
    BY <1>1, <2>1 DEF UpGrows, ShapeOK
  <2>6. SocketInv'
    <3>1. \A a, t \in Sockets : t < a /\ net'[a] # "none" => net'[t] # "none"
      <4> SUFFICES ASSUME NEW a \in Sockets, NEW t \in Sockets, t < a, net'[a] # "none"
                   PROVE  net'[t] # "none"
        OBVIOUS
      <4>1. ~ (a > s)
        BY <2>3
      <4>2. t < s
        BY <4>1 DEF Sockets
      <4> QED
        BY <2>3, <4>2
    <3>2. \A a \in Sockets : net'[a] \in {"none", "connecting"} => down'[a] = <<>>
      BY <1>1, <1>2, <2>3 DEF SocketInv
    <3>3. s # NoSocket
      BY DEF Sockets, NoSocket
    <3> QED
      BY <2>3, <2>4, <3>1, <3>2, <3>3 DEF SocketInv, LastSocket
  <2> QED
    BY <1>2, <1>3, <1>4, <2>3, <2>4, <2>5, <2>6, BrowserStep DEF Admitted, IInv, ShapeOK
<1> QED
  BY <1>5, <1>6


\* A dispatch that admits nobody.
LEMMA KeepingDispatch ==
  ASSUME IInv, UNCHANGED mounted, NEW l, Ordinary(l), Keeps(l), Dispatched(l),
         client'.socket \in {client.socket, NoSocket}
  PROVE  /\ CameraInv'
         /\ local' \in Slice /\ media' \in Refs /\ camera' \in [Captures -> Camera]
         /\ local'.peer \in {local.peer, NoPeer}
         /\ local'.fsm \in InFlow => l.fsm \in InFlow /\ local.fsm \in InFlow
         /\ mounted' /\ local'.fsm \in Admitted =>
              /\ ConnOf(local'.peer) \in Sockets
              /\ net[ConnOf(local'.peer)] \notin {"none", "connecting"}
         /\ mounted' /\ local'.fsm = "media-ready" =>
              mounted /\ local.fsm = "media-ready" /\ local'.peer = local.peer
<1>1. ShapeOK /\ CameraInv /\ SocketInv
  BY DEF IInv
<1>2. ~ mounted => client'.socket = NoSocket
  BY <1>1 DEF CameraInv
<1>3. /\ CameraInv'
      /\ local' \in Slice /\ media' \in Refs /\ camera' \in [Captures -> Camera]
      /\ local'.peer = l.peer
      /\ local'.fsm # l.fsm => l.fsm = "joined" /\ local'.fsm = "acquiring-media"
  BY <1>1, <1>2, DispatchedKeeps
<1>4. local'.fsm \in InFlow => l.fsm \in InFlow
  BY <1>3 DEF InFlow, Admitted
<1>5. local'.fsm \in Admitted => l.fsm \in Admitted
  BY <1>3 DEF Admitted
<1>6. local'.fsm = "media-ready" => l.fsm = "media-ready"
  BY <1>3
<1>7. "media-ready" \in Admitted
  BY DEF Admitted
<1> QED
  BY <1>1, <1>3, <1>4, <1>5, <1>6, <1>7 DEF Keeps, SocketInv

\* A step that does not touch the slice, the camera or the references.
LEMMA Untouched ==
  ASSUME IInv, UNCHANGED <<local, media, camera, mounted>>,
         client'.socket \in {client.socket, NoSocket}
  PROVE  /\ CameraInv'
         /\ local' \in Slice /\ media' \in Refs /\ camera' \in [Captures -> Camera]
         /\ mounted' /\ local'.fsm \in Admitted =>
              /\ ConnOf(local'.peer) \in Sockets
              /\ net[ConnOf(local'.peer)] \notin {"none", "connecting"}
<1>1. CameraInv'
  BY DEF IInv, CameraInv, CameraFollowsSession, Pending, Runs
<1> QED
  BY <1>1 DEF IInv, ShapeOK, Refs, SocketInv

LEMMA OpenedStep ==
  ASSUME IInv, NEW s \in Sockets, Opened(s)
  PROVE  IInv'
<1>1. /\ ShapeOK /\ SocketInv /\ NoSocket \notin Sockets /\ "join_room" \in Up
      /\ client \in Client /\ net \in [Sockets -> NetStates]
  BY DEF IInv, ShapeOK, Client, Sockets, NoSocket, Up
<1>2. /\ net[s] = "connecting" /\ net' = [net EXCEPT ![s] = "open"]
      /\ client' = [client EXCEPT !.transport = "open"]
      /\ UNCHANGED <<down, server, manager, leaveRan, mounted>>
  BY DEF Opened, rest
<1>3. /\ net' \in [Sockets -> NetStates] /\ net'[s] = "open"
      /\ \A t \in Sockets \ {s} : net'[t] = net[t]
      /\ NetGoesOn
  BY <1>1, <1>2 DEF NetStates, NetGoesOn
<1>4. /\ client' \in Client /\ client'.socket = client.socket
      /\ client'.transport = "open"
  BY <1>1, <1>2 DEF Client, Transports
<1>5. DownTaken
  BY <1>1, <1>2 DEF DownTaken, ShapeOK
<1>6. UpGrows
  <2>1. CASE client.socket = s
    <3>1. up' = [up EXCEPT ![s] = Append(@, "join_room")]
      BY <2>1 DEF Opened
    <3>2. up \in [Sockets -> Seq(Up)] /\ Append(up[s], "join_room") \in Seq(Up)
      BY <1>1, AppendProperties DEF ShapeOK
    <3> QED
      BY <1>1, <3>1, <3>2 DEF UpGrows
  <2>2. CASE client.socket # s
    BY <1>1, <2>2, SentFacts DEF Opened, SendJoin, UpGrows, ShapeOK
  <2> QED
    BY <2>1, <2>2
<1>7. PICK l \in {local, InitialLocal} :
        /\ Dispatched(l)
        /\ l = local => client.socket # NoSocket \/ local = InitialLocal
  <2>1. CASE client.socket = s
    BY <1>1, <2>1 DEF Opened
  <2>2. CASE client.socket # s
    BY <2>2 DEF Opened, SendJoin, Sendable
  <2> QED
    BY <2>1, <2>2
<1>8. Ordinary(l) /\ Keeps(l) /\ InitialLocal.fsm \notin InFlow
  BY <1>1, Reduced, ReducedKeeps
<1>9. /\ CameraInv'
      /\ local' \in Slice /\ media' \in Refs /\ camera' \in [Captures -> Camera]
      /\ local'.peer \in {local.peer, NoPeer}
      /\ local'.fsm \in InFlow => l.fsm \in InFlow /\ local.fsm \in InFlow
      /\ mounted' /\ local'.fsm \in Admitted =>
           /\ ConnOf(local'.peer) \in Sockets
           /\ net[ConnOf(local'.peer)] \notin {"none", "connecting"}
      /\ mounted' /\ local'.fsm = "media-ready" =>
           mounted /\ local.fsm = "media-ready" /\ local'.peer = local.peer
  BY <1>2, <1>4, <1>7, <1>8, KeepingDispatch
<1>10. local'.fsm \in InFlow => client'.socket # NoSocket
  BY <1>4, <1>7, <1>8, <1>9
<1>11. SocketInv'
  <2>1. client.socket # NoSocket =>
          /\ net'[client.socket] \in {"connecting", "open", "lost"}
          /\ client'.transport \in {"connecting", "open"}
          /\ net'[client.socket] # "connecting" => client'.transport = "open"
    BY <1>1, <1>3, <1>4 DEF SocketInv, Client
  <2>2. \A t \in Sockets : net'[t] = "none" <=> net[t] = "none"
    BY <1>2, <1>3
  <2>3. \A t \in Sockets : net'[t] \in {"none", "connecting"} =>
                             down'[t] = down[t] \/ down'[t] = <<>>
    BY <1>2
  <2> QED
    BY <1>1, <1>3, <1>4, <1>9, <1>10, <2>1, <2>2, <2>3, SocketsKept
<1> QED
  BY <1>2, <1>3, <1>4, <1>5, <1>6, <1>9, <1>11, BrowserStep DEF IInv, ShapeOK

LEMMA OnCloseStep ==
  ASSUME IInv, NEW s \in Sockets, OnClose(s)
  PROVE  IInv'
<1> DEFINE t == IF client.closedByUser THEN "closed" ELSE "error"
           k == IF t = client.transport THEN local ELSE TransportChanged(local, t)
<1>1. /\ ShapeOK /\ SocketInv /\ client \in Client /\ net \in [Sockets -> NetStates]
      /\ t \in Transports /\ t \in {"closed", "error"}
  BY DEF IInv, ShapeOK, Client, Transports
<1>2. /\ net[s] \in {"connecting", "lost", "closing"}
      /\ net' = [net EXCEPT ![s] = "closed"] /\ down' = [down EXCEPT ![s] = <<>>]
      /\ client' = [client EXCEPT !.socket = NoSocket, !.transport = t]
      /\ UNCHANGED <<up, server, manager, leaveRan, mounted>>
      /\ Dispatched(IF s \in awaiting THEN InitialLocal ELSE k)
  BY DEF OnClose, rest
<1> HIDE DEF t
<1>3. NetGoesOn /\ net'[s] = "closed" /\ \A a \in Sockets \ {s} : net'[a] = net[a]
  BY <1>1, <1>2 DEF NetGoesOn, NetStates
<1>4. /\ client' \in Client /\ client'.socket = NoSocket
  BY <1>1, <1>2 DEF Client
<1>5. DownTaken /\ UpGrows
  BY <1>1, <1>2, EmptySeq DEF DownTaken, UpGrows, ShapeOK
<1>6. PICK l \in {local, InitialLocal, TransportChanged(local, t)} :
        /\ Dispatched(l)
        /\ l = local => local = InitialLocal \/ local = TransportChanged(local, t)
                        \/ t = client.transport
  BY <1>2
<1>7. Ordinary(l) /\ Keeps(l) /\ InitialLocal.fsm \notin InFlow
      /\ TransportChanged(local, t).fsm \notin InFlow
  BY <1>1, <1>6, Reduced, ReducedKeeps
<1>8. /\ CameraInv'
      /\ local' \in Slice /\ media' \in Refs /\ camera' \in [Captures -> Camera]
      /\ local'.peer \in {local.peer, NoPeer}
      /\ local'.fsm \in InFlow => l.fsm \in InFlow /\ local.fsm \in InFlow
      /\ mounted' /\ local'.fsm \in Admitted =>
           /\ ConnOf(local'.peer) \in Sockets
           /\ net[ConnOf(local'.peer)] \notin {"none", "connecting"}
      /\ mounted' /\ local'.fsm = "media-ready" =>
           mounted /\ local.fsm = "media-ready" /\ local'.peer = local.peer
  BY <1>2, <1>4, <1>6, <1>7, KeepingDispatch
<1>9. ~ (mounted' /\ local'.fsm \in InFlow)
  BY <1>1, <1>2, <1>6, <1>7, <1>8 DEF SocketInv
<1>10. SocketInv'
  <2>1. \A a \in Sockets : net'[a] = "none" <=> net[a] = "none"
    BY <1>2, <1>3
  <2>2. \A a \in Sockets : net'[a] \in {"none", "connecting"} =>
                             down'[a] = down[a] \/ down'[a] = <<>>
    BY <1>1, <1>2 DEF ShapeOK
  <2> QED
    BY <1>1, <1>3, <1>4, <1>8, <1>9, <2>1, <2>2, SocketsKept
<1> QED
  BY <1>2, <1>3, <1>4, <1>5, <1>8, <1>10, BrowserStep DEF IInv, ShapeOK


\* A frame taken by the dispatcher.
LEMMA ReceiveFacts ==
  ASSUME ShapeOK, NEW s \in Sockets, NEW type, Receive(s, type)
  PROVE  /\ UNCHANGED <<up, server, mounted>>
         /\ DownTaken /\ UpGrows
         /\ down[s] # <<>> /\ Head(down[s]).type = type /\ Head(down[s]) \in Answers
         /\ net[s] \in {"open", "lost"}
         /\ \A t \in Sockets \ {s} : down'[t] = down[t]
<1>1. down \in [Sockets -> Seq(Answers)] /\ down[s] # <<>> /\ down[s] \in Seq(Answers)
  BY DEF ShapeOK, Receive
<1>2. Tail(down[s]) \in Seq(Answers) /\ Head(down[s]) \in Answers
  BY <1>1, HeadTailProperties
<1>3. down' = [down EXCEPT ![s] = Tail(down[s])]
  BY DEF Receive
<1>4. DownTaken
  BY <1>1, <1>2, <1>3 DEF DownTaken
<1> QED
  BY <1>1, <1>2, <1>3, <1>4 DEF Receive, UpGrows, ShapeOK

LEMMA SameNet == ASSUME ShapeOK, UNCHANGED net PROVE NetGoesOn
BY DEF NetGoesOn, ShapeOK

\* A handler that leaves the signaling client alone and admits nobody.
LEMMA HandlerStep ==
  ASSUME IInv, NEW s \in Sockets, NEW type, Receive(s, type), UNCHANGED <<client, net>>,
         CameraInv',
         local' \in Slice, media' \in Refs, camera' \in [Captures -> Camera],
         local'.peer \in {local.peer, NoPeer},
         local'.fsm \in InFlow => local.fsm \in InFlow,
         mounted' /\ local'.fsm \in Admitted =>
           /\ ConnOf(local'.peer) \in Sockets
           /\ net[ConnOf(local'.peer)] \notin {"none", "connecting"},
         mounted' /\ local'.fsm = "media-ready" =>
           mounted /\ local.fsm = "media-ready" /\ local'.peer = local.peer
  PROVE  IInv'
<1>1. ShapeOK /\ SocketInv
  BY DEF IInv
<1>2. /\ UNCHANGED <<up, server, mounted>>
      /\ DownTaken /\ UpGrows /\ NetGoesOn
      /\ net[s] \in {"open", "lost"}
      /\ \A t \in Sockets \ {s} : down'[t] = down[t]
  BY <1>1, ReceiveFacts, SameNet
<1>3. \A t \in Sockets : net'[t] \in {"none", "connecting"} =>
                           down'[t] = down[t] \/ down'[t] = <<>>
  BY <1>2
<1>4. mounted' /\ local'.fsm \in InFlow => client'.socket # NoSocket
  BY <1>1, <1>2 DEF SocketInv
<1>5. client.socket # NoSocket =>
        /\ net'[client.socket] \in {"connecting", "open", "lost"}
        /\ client'.transport \in {"connecting", "open"}
        /\ net'[client.socket] # "connecting" => client'.transport = "open"
  BY <1>1 DEF SocketInv
<1>6. SocketInv'
  BY <1>1, <1>2, <1>3, <1>4, <1>5, SocketsKept
<1> QED
  BY <1>1, <1>2, <1>6, BrowserStep DEF ShapeOK, Client

LEMMA OnParticipantReleasedStep ==
  ASSUME IInv, NEW s \in Sockets, OnParticipantReleased(s)
  PROVE  IInv'
<1>1. /\ ShapeOK /\ Receive(s, "participant_released")
      /\ UNCHANGED <<client, net>>
      /\ Dispatched(ParticipantReleased(local))
  BY DEF IInv, OnParticipantReleased
<1>2. UNCHANGED mounted
  BY <1>1, ReceiveFacts
<1>3. Ordinary(ParticipantReleased(local)) /\ Keeps(ParticipantReleased(local))
  BY <1>1, Reduced, ReducedKeeps
<1>4. /\ CameraInv'
      /\ local' \in Slice /\ media' \in Refs /\ camera' \in [Captures -> Camera]
      /\ local'.peer \in {local.peer, NoPeer}
      /\ local'.fsm \in InFlow => local.fsm \in InFlow
      /\ mounted' /\ local'.fsm \in Admitted =>
           /\ ConnOf(local'.peer) \in Sockets
           /\ net[ConnOf(local'.peer)] \notin {"none", "connecting"}
      /\ mounted' /\ local'.fsm = "media-ready" =>
           mounted /\ local.fsm = "media-ready" /\ local'.peer = local.peer
  BY <1>1, <1>2, <1>3, KeepingDispatch
<1> QED
  BY <1>1, <1>4, HandlerStep

LEMMA OnPairInstructionStep ==
  ASSUME IInv, NEW s \in Sockets, OnPairInstruction(s)
  PROVE  IInv'
<1>1. /\ ShapeOK /\ Receive(s, "pair_negotiation_instruction")
      /\ UNCHANGED <<client, net, local, media, camera>>
  BY DEF IInv, OnPairInstruction
<1>2. UNCHANGED mounted
  BY <1>1, ReceiveFacts
<1>3. /\ CameraInv'
      /\ local' \in Slice /\ media' \in Refs /\ camera' \in [Captures -> Camera]
      /\ mounted' /\ local'.fsm \in Admitted =>
           /\ ConnOf(local'.peer) \in Sockets
           /\ net[ConnOf(local'.peer)] \notin {"none", "connecting"}
  BY <1>1, <1>2, Untouched
<1> QED
  BY <1>1, <1>2, <1>3, HandlerStep

LEMMA OnJoinRejectedStep ==
  ASSUME IInv, NEW s \in Sockets, OnJoinRejected(s)
  PROVE  IInv'
<1> DEFINE j == JoinRejected(local)
<1>1. /\ ShapeOK /\ SocketInv /\ Receive(s, "join_rejected") /\ CloseSocket
      /\ Dispatched(IF client.transport = "closed" THEN j
                    ELSE TransportChanged(j, "closed"))
  BY DEF IInv, OnJoinRejected
<1>2. /\ UNCHANGED <<up, server, mounted>>
      /\ DownTaken /\ UpGrows
      /\ net[s] \in {"open", "lost"}
      /\ \A t \in Sockets \ {s} : down'[t] = down[t]
  BY <1>1, ReceiveFacts
<1>3. /\ client' \in Client /\ client'.socket = NoSocket
      /\ NetGoesOn
      /\ \A t \in Sockets : net'[t] = "none" <=> net[t] = "none"
  BY <1>1, CloseFacts
<1>4. PICK l \in {j, TransportChanged(j, "closed")} :
        /\ Dispatched(l)
        /\ l = j => client.transport = "closed" \/ j = TransportChanged(j, "closed")
  BY <1>1
<1>5. /\ Ordinary(l) /\ Keeps(l) /\ "closed" \in Transports
      /\ TransportChanged(j, "closed").fsm \notin InFlow
  <2>1. "closed" \in Transports
    BY DEF Transports
  <2> QED
    BY <1>1, <1>4, <2>1, Reduced, ReducedKeeps
<1>6. /\ CameraInv'
      /\ local' \in Slice /\ media' \in Refs /\ camera' \in [Captures -> Camera]
      /\ local'.peer \in {local.peer, NoPeer}
      /\ local'.fsm \in InFlow => l.fsm \in InFlow /\ local.fsm \in InFlow
      /\ mounted' /\ local'.fsm \in Admitted =>
           /\ ConnOf(local'.peer) \in Sockets
           /\ net[ConnOf(local'.peer)] \notin {"none", "connecting"}
      /\ mounted' /\ local'.fsm = "media-ready" =>
           mounted /\ local.fsm = "media-ready" /\ local'.peer = local.peer
  BY <1>2, <1>3, <1>4, <1>5, KeepingDispatch
<1>7. ~ (mounted' /\ local'.fsm \in InFlow)
  BY <1>1, <1>2, <1>4, <1>5, <1>6 DEF SocketInv
<1>8. SocketInv'
  <2>1. \A t \in Sockets : net'[t] \in {"none", "connecting"} =>
                             down'[t] = down[t] \/ down'[t] = <<>>
    BY <1>2, <1>3 DEF NetGoesOn
  <2> QED
    BY <1>1, <1>3, <1>6, <1>7, <2>1, SocketsKept
<1> QED
  BY <1>2, <1>3, <1>6, <1>8, BrowserStep DEF IInv, ShapeOK


\* The admission is the one the goroutine of this WebSocket gave.
LEMMA OnJoinAcceptedStep ==
  ASSUME IInv, NEW s \in Sockets, OnJoinAccepted(s)
  PROVE  IInv'
<1> DEFINE p == Head(down[s]).peer
           l == JoinAccepted(local, p)
<1>1. /\ ShapeOK /\ SocketInv /\ AdmissionsOK /\ CameraInv
      /\ Receive(s, "join_accepted") /\ UNCHANGED <<client, net>>
      /\ Dispatched(l)
  BY DEF IInv, OnJoinAccepted
<1>2. /\ UNCHANGED <<up, server, mounted>>
      /\ DownTaken /\ UpGrows /\ NetGoesOn
      /\ down[s] # <<>> /\ Head(down[s]).type = "join_accepted"
      /\ Head(down[s]) \in Answers
      /\ net[s] \in {"open", "lost"}
      /\ \A t \in Sockets \ {s} : down'[t] = down[t]
  BY <1>1, ReceiveFacts, SameNet
<1>3. p \in Given
  BY <1>2 DEF Answers
<1>4. ConnOf(p) = s
  <2>1. down[s] \in Seq(Answers) /\ Len(down[s]) \in Nat \ {0}
    BY <1>1, <1>2, EmptySeq DEF ShapeOK
  <2>2. 1 \in 1..Len(down[s]) /\ down[s][1] = Head(down[s])
    BY <1>2, <2>1, HeadTailProperties
  <2> QED
    BY <1>1, <1>2, <2>2 DEF AdmissionsOK, GivenBy
<1>5. CASE local.fsm # "joining"
  <2>1. l = local /\ Ordinary(local) /\ Keeps(local)
    BY <1>1, <1>5, Reduced, ReducedKeeps DEF JoinAccepted
  <2> HIDE DEF l
  <2>2. /\ CameraInv'
        /\ local' \in Slice /\ media' \in Refs /\ camera' \in [Captures -> Camera]
        /\ local'.peer \in {local.peer, NoPeer}
        /\ local'.fsm \in InFlow => local.fsm \in InFlow
        /\ mounted' /\ local'.fsm \in Admitted =>
             /\ ConnOf(local'.peer) \in Sockets
             /\ net[ConnOf(local'.peer)] \notin {"none", "connecting"}
        /\ mounted' /\ local'.fsm = "media-ready" =>
             mounted /\ local.fsm = "media-ready" /\ local'.peer = local.peer
    BY <1>1, <1>2, <2>1, KeepingDispatch
  <2> QED
    BY <1>1, <2>2, HandlerStep
<1>6. CASE local.fsm = "joining"
  <2>1. l.fsm = "joined" /\ l.peer = p /\ Ordinary(l)
    BY <1>1, <1>3, <1>6, Reduced DEF JoinAccepted, ShapeOK, Slice
  <2> HIDE DEF l, p
  <2>2. /\ CameraInv'
        /\ local' \in Slice /\ media' \in Refs /\ camera' \in [Captures -> Camera]
        /\ local'.peer = p /\ local'.fsm # "media-ready"
    BY <1>1, <1>2, <2>1, DispatchedKeeps DEF CameraInv
  <2>3. SocketInv'
    <3>1. \A t \in Sockets : net'[t] \in {"none", "connecting"} =>
                               down'[t] = down[t] \/ down'[t] = <<>>
      BY <1>1, <1>2
    <3>2. mounted' => client'.socket # NoSocket
      BY <1>1, <1>2, <1>6 DEF SocketInv, InFlow
    <3>3. client.socket # NoSocket =>
            /\ net'[client.socket] \in {"connecting", "open", "lost"}
            /\ client'.transport \in {"connecting", "open"}
            /\ net'[client.socket] # "connecting" => client'.transport = "open"
      BY <1>1 DEF SocketInv
    <3>4. ConnOf(local'.peer) \in Sockets
          /\ net[ConnOf(local'.peer)] \notin {"none", "connecting"}
      BY <1>2, <1>4, <2>2
    <3> QED
      BY <1>1, <1>2, <3>1, <3>2, <3>3, <3>4, SocketsKept
  <2>4. down[s] # <<>> /\ Head(down[s]).type = "join_accepted"
        /\ local'.peer = Head(down[s]).peer
    BY <1>2, <2>2 DEF p
  <2>5. client' \in Client /\ mounted' \in BOOLEAN
    BY <1>1, <1>2 DEF ShapeOK, Client
  <2>6. \E t \in Sockets : /\ down[t] # <<>> /\ Head(down[t]).type = "join_accepted"
                           /\ local'.peer = Head(down[t]).peer
    BY <2>4
  <2> QED
    BY <1>2, <2>2, <2>3, <2>5, <2>6, BrowserStep
<1> QED
  BY <1>5, <1>6

LEMMA RetryStep ==
  ASSUME IInv, Retry
  PROVE  IInv'
<1>1. /\ ShapeOK /\ SocketInv
      /\ UNCHANGED <<client, net, awaiting, submits, up, down, server>>
      /\ UNCHANGED <<manager, leaveRan, mounted>>
  BY DEF IInv, Retry, wires, rest
<1>2. PICK l \in {[local EXCEPT !.fsm = "joined"], InitialLocal} :
        /\ Dispatched(l)
        /\ l = InitialLocal \/ local.fsm = "media-error"
  BY DEF Retry
<1>3. Ordinary(l) /\ Keeps(l)
  BY <1>1, <1>2, Reduced, ReducedKeeps
<1>4. /\ CameraInv'
      /\ local' \in Slice /\ media' \in Refs /\ camera' \in [Captures -> Camera]
      /\ local'.peer \in {local.peer, NoPeer}
      /\ local'.fsm \in InFlow => local.fsm \in InFlow
      /\ mounted' /\ local'.fsm \in Admitted =>
           /\ ConnOf(local'.peer) \in Sockets
           /\ net[ConnOf(local'.peer)] \notin {"none", "connecting"}
      /\ mounted' /\ local'.fsm = "media-ready" =>
           mounted /\ local.fsm = "media-ready" /\ local'.peer = local.peer
  BY <1>1, <1>2, <1>3, KeepingDispatch
<1>5. NetGoesOn /\ DownTaken /\ UpGrows
  BY <1>1, SameNet DEF DownTaken, UpGrows, ShapeOK
<1>6. client.socket # NoSocket =>
        /\ net'[client.socket] \in {"connecting", "open", "lost"}
        /\ client'.transport \in {"connecting", "open"}
        /\ net'[client.socket] # "connecting" => client'.transport = "open"
  BY <1>1 DEF SocketInv
<1>7. mounted' /\ local'.fsm \in InFlow => client'.socket # NoSocket
  BY <1>1, <1>4 DEF SocketInv
<1>8. SocketInv'
  BY <1>1, <1>4, <1>5, <1>6, <1>7, SocketsKept
<1> QED
  BY <1>1, <1>4, <1>5, <1>8, BrowserStep DEF ShapeOK, Client

LEMMA LeaveStep ==
  ASSUME IInv, Leave
  PROVE  IInv'
<1> DEFINE l == [InitialLocal EXCEPT !.fsm = "left"]
<1>1. /\ ShapeOK /\ SocketInv /\ CloseSocket /\ Dispatched(l)
      /\ UNCHANGED <<submits, awaiting, down, server, manager, mounted>>
  BY DEF IInv, Leave, LeaveBody
<1>2. UpGrows
  <2>1. CASE UNCHANGED up
    BY <1>1, <2>1 DEF UpGrows, ShapeOK
  <2>2. CASE Sendable /\ Sent("leave_room")
    BY <1>1, <2>2, SentFacts DEF Up
  <2> QED
    BY <2>1, <2>2 DEF Leave, LeaveBody
<1>3. /\ client' \in Client /\ client'.socket = NoSocket
      /\ NetGoesOn
      /\ \A t \in Sockets : net'[t] = "none" <=> net[t] = "none"
  BY <1>1, CloseFacts
<1>4. Ordinary(l) /\ Keeps(l) /\ l.fsm \notin InFlow
  BY <1>1, Reduced, ReducedKeeps
<1> HIDE DEF l
<1>5. /\ CameraInv'
      /\ local' \in Slice /\ media' \in Refs /\ camera' \in [Captures -> Camera]
      /\ local'.peer \in {local.peer, NoPeer}
      /\ local'.fsm \in InFlow => l.fsm \in InFlow
      /\ mounted' /\ local'.fsm \in Admitted =>
           /\ ConnOf(local'.peer) \in Sockets
           /\ net[ConnOf(local'.peer)] \notin {"none", "connecting"}
      /\ mounted' /\ local'.fsm = "media-ready" =>
           mounted /\ local.fsm = "media-ready" /\ local'.peer = local.peer
  BY <1>1, <1>3, <1>4, KeepingDispatch
<1>6. local'.fsm \notin InFlow
  BY <1>4, <1>5
<1>7. SocketInv'
  BY <1>1, <1>3, <1>5, <1>6, SocketsKept
<1> QED
  BY <1>1, <1>2, <1>3, <1>5, <1>7, BrowserStep DEF ShapeOK, DownTaken

LEMMA UnmountStep ==
  ASSUME IInv, Unmount
  PROVE  IInv'
<1>1. /\ ShapeOK /\ SocketInv /\ CameraInv /\ CloseSocket /\ mounted /\ mounted' = FALSE
      /\ camera' = Stopped(camera, media.stream)
      /\ media' = [media EXCEPT !.stream = NoStream]
      /\ UNCHANGED <<submits, awaiting, up, down, server, local, leaveRan>>
  BY DEF IInv, Unmount
<1>2. /\ client' \in Client /\ client'.socket = NoSocket
      /\ NetGoesOn
      /\ \A t \in Sockets : net'[t] = "none" <=> net[t] = "none"
  BY <1>1, CloseFacts
<1>3. /\ media \in Refs /\ media' \in Refs /\ media'.gen = media.gen
      /\ media.stream \in Captures \cup {NoStream}
  <2>1. media \in Refs
    BY <1>1 DEF ShapeOK
  <2> QED
    BY <1>1, <2>1, RefsFacts
<1>4. /\ camera' \in [Captures -> Camera]
      /\ \A i \in Captures :
           /\ camera'[i].gen = camera[i].gen
           /\ camera'[i].status = IF i = media.stream THEN "stopped"
                                  ELSE camera[i].status
  BY <1>1, <1>3, StoppedFacts
<1>5. CameraInv'
  BY <1>1, <1>2, <1>3, <1>4 DEF CameraInv, CameraFollowsSession
<1>6. UpGrows /\ DownTaken
  BY <1>1 DEF UpGrows, DownTaken, ShapeOK
<1>7. SocketInv'
  BY <1>1, <1>2, SocketsKept
<1> QED
  BY <1>1, <1>2, <1>3, <1>4, <1>5, <1>6, <1>7, BrowserStep DEF ShapeOK


LEMMA LoseStep ==
  ASSUME IInv, NEW s \in Sockets, Lose(s)
  PROVE  IInv'
<1>1. /\ ShapeOK /\ SocketInv /\ AdmissionsOK
      /\ net[s] = "open" /\ net' = [net EXCEPT ![s] = "lost"]
      /\ up' = [up EXCEPT ![s] = <<>>] /\ down' = [down EXCEPT ![s] = <<>>]
      /\ UNCHANGED <<client, server, local, media, camera, mounted>>
  BY DEF IInv, Lose, slices, rest
<1>2. /\ net \in [Sockets -> NetStates] /\ up \in [Sockets -> Seq(Up)]
      /\ down \in [Sockets -> Seq(Answers)]
  BY <1>1 DEF ShapeOK
<1>3. /\ NetGoesOn /\ net'[s] = "lost"
      /\ \A t \in Sockets \ {s} : net'[t] = net[t]
  BY <1>1, <1>2 DEF NetGoesOn, NetStates
<1>4. DownTaken
  BY <1>1, <1>2, EmptySeq DEF DownTaken
<1>5. up' \in [Sockets -> Seq(Up)] /\ \A t \in Sockets \ {s} : up'[t] = up[t]
  BY <1>1, <1>2, EmptySeq
<1>6. /\ CameraInv'
      /\ local' \in Slice /\ media' \in Refs /\ camera' \in [Captures -> Camera]
      /\ mounted' /\ local'.fsm \in Admitted =>
           /\ ConnOf(local'.peer) \in Sockets
           /\ net[ConnOf(local'.peer)] \notin {"none", "connecting"}
  BY <1>1, Untouched
<1>7. SocketInv'
  <2>1. \A t \in Sockets : net'[t] = "none" <=> net[t] = "none"
    BY <1>1, <1>3
  <2>2. client.socket # NoSocket =>
          /\ net'[client.socket] \in {"connecting", "open", "lost"}
          /\ client'.transport \in {"connecting", "open"}
          /\ net'[client.socket] # "connecting" => client'.transport = "open"
    BY <1>1, <1>3 DEF SocketInv, ShapeOK
  <2>3. \A t \in Sockets : down'[t] = down[t] \/ down'[t] = <<>>
    BY <1>4, <1>1, <1>2
  <2>4. mounted' /\ local'.fsm \in InFlow => client'.socket # NoSocket
    BY <1>1 DEF SocketInv
  <2> QED
    BY <1>1, <1>3, <1>6, <2>1, <2>2, <2>3, <2>4, SocketsKept
<1>8. AdmissionsOK'
  BY <1>1, <1>4, AdmissionsKept
<1>9. ReadyIsAnnounced'
  BY <1>1, <1>3, <1>5, AnnouncementKept
<1>10. ShapeOK'
  BY <1>1, <1>3, <1>4, <1>5, <1>6 DEF ShapeOK, NetGoesOn, DownTaken, Refs
<1> QED
  BY <1>6, <1>7, <1>8, <1>9, <1>10 DEF IInv

\* A step of the goroutine of the WebSocket s: the last conjunct is that it
\* loses no announcement.
LEMMA ServerStep ==
  ASSUME IInv, NEW s \in Sockets, UNCHANGED <<wires, slices, rest>>,
         net[s] \notin {"none", "connecting"},
         server' \in [Sockets -> [peer : Given \cup {NoPeer}, ready : BOOLEAN,
                                  admissions : Nat]],
         up' \in [Sockets -> Seq(Up)], down' \in [Sockets -> Seq(Answers)],
         \A t \in Sockets \ {s} :
           server'[t] = server[t] /\ down'[t] = down[t] /\ up'[t] = up[t],
         server'[s].admissions >= server[s].admissions,
         \/ down'[s] = down[s]
         \/ \E m \in Answers :
              /\ down'[s] = Append(down[s], m)
              /\ m.type = "join_accepted" => GivenBy(server', s, m.peer),
         server'[s].peer # NoPeer => GivenBy(server', s, server'[s].peer),
         \A p \in Given :
           /\ GivenBy(server, s, p)
           /\ server[s].peer # p \/ server[s].ready \/ Told(up[s])
           => server'[s].peer # p \/ server'[s].ready \/ Told(up'[s])
  PROVE  IInv'
<1>1. /\ ShapeOK /\ SocketInv /\ AdmissionsOK
      /\ UNCHANGED <<client, net, local, media, camera, mounted>>
  BY DEF IInv, wires, slices, rest
<1>2. ShapeOK'
  BY <1>1 DEF ShapeOK, Refs
<1>3. CameraInv'
  BY <1>1, Untouched
<1>4. SocketInv'
  <2>1. \A t \in Sockets : net[t] \in {"none", "connecting"} => down'[t] = <<>>
    BY <1>1 DEF SocketInv
  <2> QED
    BY <1>1, <2>1 DEF SocketInv, LastSocket
<1>5. \A t \in Sockets, p \in Given : GivenBy(server, t, p) => GivenBy(server', t, p)
  <2> SUFFICES ASSUME NEW t \in Sockets, NEW p \in Given, GivenBy(server, t, p)
               PROVE  GivenBy(server', t, p)
    OBVIOUS
  <2>1. /\ p[2] \in Nat /\ server[t].admissions \in Nat
        /\ server'[t].admissions \in Nat
    BY <1>1 DEF Given, ShapeOK
  <2>2. server'[t].admissions >= server[t].admissions
    <3>1. t # s => server'[t].admissions = server[t].admissions
      OBVIOUS
    <3> QED
      BY <2>1, <3>1
  <2> QED
    BY <2>1, <2>2 DEF GivenBy
<1>6. AdmissionsOK'
  <2>1. ASSUME NEW t \in Sockets, server'[t].peer # NoPeer
        PROVE  GivenBy(server', t, server'[t].peer)
    <3>1. CASE t = s
      BY <2>1, <3>1
    <3>2. CASE t # s
      <4>1. server[t].peer \in Given /\ server'[t].peer = server[t].peer
            /\ GivenBy(server, t, server[t].peer)
        BY <1>1, <2>1, <3>2 DEF ShapeOK, AdmissionsOK
      <4> QED
        BY <1>5, <4>1
    <3> QED
      BY <3>1, <3>2
  <2>2. ASSUME NEW t \in Sockets, NEW k \in 1..Len(down'[t]),
               down'[t][k].type = "join_accepted"
        PROVE  GivenBy(server', t, down'[t][k].peer)
    <3>1. down[t] \in Seq(Answers) /\ Len(down[t]) \in Nat
      BY <1>1 DEF ShapeOK
    <3>2. CASE k \in 1..Len(down[t]) /\ down'[t][k] = down[t][k]
      <4>1. down[t][k] \in Answers /\ down[t][k].type = "join_accepted"
        BY <2>2, <3>1, <3>2, ElementOfSeq
      <4>2. down[t][k].peer \in Given
        BY <4>1 DEF Answers
      <4>3. GivenBy(server, t, down[t][k].peer)
        BY <1>1, <3>2, <4>1 DEF AdmissionsOK
      <4> QED
        BY <1>5, <3>2, <4>2, <4>3
    <3>3. CASE down'[t] = down[t]
      BY <2>2, <3>2, <3>3
    <3>4. ASSUME t = s, NEW m \in Answers, down'[s] = Append(down[s], m),
                 m.type = "join_accepted" => GivenBy(server', s, m.peer)
          PROVE  GivenBy(server', t, down'[t][k].peer)
      <4>1. /\ Len(down'[t]) = Len(down[t]) + 1 /\ down'[t][Len(down[t]) + 1] = m
            /\ \A j \in 1..Len(down[t]) : down'[t][j] = down[t][j]
        BY <3>1, <3>4, AppendProperties
      <4>2. k = Len(down[t]) + 1 \/ k \in 1..Len(down[t])
        BY <3>1, <4>1
      <4> QED
        BY <2>2, <3>2, <3>4, <4>1, <4>2
    <3> QED
      BY <3>3, <3>4
  <2>3. local'.peer # NoPeer => GivenBy(server', ConnOf(local'.peer), local'.peer)
    <3>1. local.peer # NoPeer => local.peer \in Given /\ ConnOf(local.peer) \in Sockets
      BY <1>1 DEF ShapeOK, Slice, Given, ConnOf
    <3> QED
      BY <1>1, <1>5, <3>1 DEF AdmissionsOK
  <2> QED
    BY <2>1, <2>2, <2>3 DEF AdmissionsOK
<1>7. ReadyIsAnnounced'
  <2> SUFFICES ASSUME mounted, local.fsm = "media-ready", LastSocket(ConnOf(local.peer))
               PROVE  Announced(local.peer)'
    BY <1>1 DEF ReadyIsAnnounced, LastSocket, Announced, Told
  <2>1. ConnOf(local.peer) \in Sockets
    BY <1>1 DEF SocketInv, Admitted
  <2>2. local.peer \in Given /\ GivenBy(server, ConnOf(local.peer), local.peer)
    <3>1. local.peer # NoPeer
      BY <2>1 DEF NoPeer, ConnOf, Sockets
    <3> QED
      BY <1>1, <3>1 DEF ShapeOK, Slice, AdmissionsOK
  <2>3. Announced(local.peer)
    BY AnnouncedFacts DEF IInv
  <2>4. CASE ConnOf(local.peer) # s
    BY <1>1, <2>1, <2>3, <2>4 DEF Announced, Released
  <2>5. CASE ConnOf(local.peer) = s
    BY <1>1, <2>2, <2>3, <2>5 DEF Announced, Released
  <2> QED
    BY <2>4, <2>5
<1> QED
  BY <1>2, <1>3, <1>4, <1>6, <1>7 DEF IInv

LEMMA ServerSeesEndStep ==
  ASSUME IInv, NEW s \in Sockets, ServerSeesEnd(s)
  PROVE  IInv'
<1>1. /\ ShapeOK /\ net[s] \notin {"none", "connecting"} /\ up[s] = <<>>
      /\ server' = [server EXCEPT ![s].peer = NoPeer, ![s].ready = FALSE]
      /\ UNCHANGED <<wires, up, down, slices, rest>>
  BY DEF IInv, ServerSeesEnd
<1>2. /\ server' \in [Sockets -> [peer : Given \cup {NoPeer}, ready : BOOLEAN,
                                  admissions : Nat]]
      /\ server'[s].peer = NoPeer /\ server'[s].admissions = server[s].admissions
      /\ server[s].admissions \in Nat
      /\ \A t \in Sockets \ {s} : server'[t] = server[t]
  BY <1>1 DEF ShapeOK
<1>3. \A p \in Given : p # NoPeer
  BY DEF Given, NoPeer, Sockets
<1>4. /\ UNCHANGED <<wires, slices, rest>>
      /\ up' = up /\ down' = down
      /\ up' \in [Sockets -> Seq(Up)] /\ down' \in [Sockets -> Seq(Answers)]
      /\ server'[s].admissions >= server[s].admissions
  BY <1>1, <1>2 DEF ShapeOK
<1>5. \A p \in Given : server'[s].peer # p
  BY <1>2, <1>3
<1>6. \A t \in Sockets \ {s} :
        server'[t] = server[t] /\ down'[t] = down[t] /\ up'[t] = up[t]
  BY <1>2, <1>4
<1>7. down'[s] = down[s]
  BY <1>4
<1> QED
  BY <1>1, <1>2, <1>4, <1>5, <1>6, <1>7, ServerStep


\* What a goroutine does with a frame: an admission; an announcement; a
\* release; or an answer, if any, that changes nothing.
LEMMA ServeFacts ==
  ASSUME ShapeOK, NEW s \in Sockets, NEW msg \in Up, Serve(s, msg)
  PROVE  \/ LET n == server[s].admissions + 1
            IN /\ server[s].peer = NoPeer
               /\ server' = [server EXCEPT ![s] =
                               [peer |-> <<s, n>>, ready |-> FALSE, admissions |-> n]]
               /\ Reply(s, [type |-> "join_accepted", peer |-> <<s, n>>])
         \/ /\ server[s].peer # NoPeer
            /\ server' = [server EXCEPT ![s].ready = TRUE]
            /\ Reply(s, [type |-> "pair_negotiation_instruction"]) \/ UNCHANGED down
         \/ /\ server' = [server EXCEPT ![s].peer = NoPeer, ![s].ready = FALSE]
            /\ Reply(s, [type |-> "participant_released"]) \/ UNCHANGED down
         \/ /\ server' = server
            /\ Reply(s, [type |-> "join_rejected"]) \/ UNCHANGED down
            /\ msg = "media_ready" => server[s].peer = NoPeer \/ server[s].ready
<1>1. CASE msg = "join_room" /\ server[s].peer = NoPeer
  BY <1>1 DEF Serve
<1>2. CASE msg = "media_ready" /\ server[s].peer # NoPeer /\ ~ server[s].ready
  <2>1. /\ server' = [server EXCEPT ![s].ready = TRUE]
        /\ Reply(s, [type |-> "pair_negotiation_instruction"]) \/ UNCHANGED down
    BY <1>2 DEF Serve
  <2> QED
    BY <1>2, <2>1
<1>3. CASE msg = "media_failed" /\ server[s].peer # NoPeer
  BY <1>3 DEF Serve
<1>4. CASE msg = "leave_room" /\ server[s].peer # NoPeer
  BY <1>4 DEF Serve
<1>5. CASE /\ ~ (msg = "join_room" /\ server[s].peer = NoPeer)
           /\ ~ (msg = "media_ready" /\ server[s].peer # NoPeer /\ ~ server[s].ready)
           /\ ~ (msg = "media_failed" /\ server[s].peer # NoPeer)
           /\ ~ (msg = "leave_room" /\ server[s].peer # NoPeer)
  <2>1. UNCHANGED <<server, down>>
    BY <1>5 DEF Serve
  <2> QED
    BY <1>5, <2>1
<1> QED
  BY <1>1, <1>2, <1>3, <1>4, <1>5

LEMMA ReplyFacts ==
  ASSUME ShapeOK, NEW s \in Sockets, NEW m \in Answers, Reply(s, m)
  PROVE  /\ down' \in [Sockets -> Seq(Answers)]
         /\ down'[s] = Append(down[s], m)
         /\ \A t \in Sockets \ {s} : down'[t] = down[t]
<1>1. down \in [Sockets -> Seq(Answers)] /\ Append(down[s], m) \in Seq(Answers)
  BY AppendProperties DEF ShapeOK
<1> QED
  BY <1>1 DEF Reply

LEMMA ServerReadsStep ==
  ASSUME IInv, NEW s \in Sockets, ServerReads(s)
  PROVE  IInv'
<1> DEFINE msg == Head(up[s])
<1>1. /\ ShapeOK /\ AdmissionsOK /\ net[s] \notin {"none", "connecting"}
      /\ up[s] # <<>> /\ up' = [up EXCEPT ![s] = Tail(up[s])]
      /\ Serve(s, msg)
      /\ UNCHANGED <<wires, slices, rest>>
  BY DEF IInv, ServerReads
<1>2. /\ up \in [Sockets -> Seq(Up)] /\ down \in [Sockets -> Seq(Answers)]
      /\ server \in [Sockets -> [peer : Given \cup {NoPeer}, ready : BOOLEAN,
                                 admissions : Nat]]
      /\ server[s].admissions \in Nat
      /\ \A p \in Given : p # NoPeer
  BY <1>1 DEF ShapeOK, Given, NoPeer, Sockets
<1>3. msg \in Up /\ Tail(up[s]) \in Seq(Up)
  BY <1>1, <1>2, HeadTailProperties
<1>4. /\ up' \in [Sockets -> Seq(Up)] /\ up'[s] = Tail(up[s])
      /\ \A t \in Sockets \ {s} : up'[t] = up[t]
  BY <1>1, <1>2, <1>3
<1>5. msg # "media_ready" => (Told(up[s]) => Told(up'[s]))
  BY <1>1, <1>2, <1>3, <1>4, ToldFacts
<1> HIDE DEF msg
<1>6. server[s].peer # NoPeer => GivenBy(server, s, server[s].peer)
  BY <1>1 DEF AdmissionsOK
<1>7. /\ [type |-> "pair_negotiation_instruction"] \in Answers
      /\ [type |-> "participant_released"] \in Answers
      /\ [type |-> "join_rejected"] \in Answers
      /\ \A p \in Given : [type |-> "join_accepted", peer |-> p] \in Answers
  BY DEF Answers
<1>8. ASSUME server[s].peer = NoPeer, NEW n \in Nat, n = server[s].admissions + 1,
             server' = [server EXCEPT ![s] =
                          [peer |-> <<s, n>>, ready |-> FALSE, admissions |-> n]],
             Reply(s, [type |-> "join_accepted", peer |-> <<s, n>>])
      PROVE  IInv'
  <2> DEFINE p == <<s, n>>
  <2>1. p \in Given /\ p[1] = s /\ p[2] = n
    BY DEF Given
  <2> HIDE DEF p
  <2>2. server' = [server EXCEPT ![s] =
                     [peer |-> p, ready |-> FALSE, admissions |-> n]]
    BY <1>8 DEF p
  <2>3. /\ server' \in [Sockets -> [peer : Given \cup {NoPeer}, ready : BOOLEAN,
                                    admissions : Nat]]
        /\ server'[s].peer = p /\ server'[s].admissions = n
        /\ \A t \in Sockets \ {s} : server'[t] = server[t]
    BY <1>2, <2>1, <2>2
  <2>4. GivenBy(server', s, p)
    BY <2>1, <2>3 DEF GivenBy, ConnOf
  <2> DEFINE m == [type |-> "join_accepted", peer |-> p]
  <2>5. m \in Answers /\ m.peer = p
    BY <1>7, <2>1
  <2>6. Reply(s, m)
    BY <1>8 DEF p
  <2> HIDE DEF m
  <2>7. /\ down' \in [Sockets -> Seq(Answers)]
        /\ down'[s] = Append(down[s], m)
        /\ \A t \in Sockets \ {s} : down'[t] = down[t]
    BY <1>1, <2>5, <2>6, ReplyFacts
  <2>8. \A q \in Given : GivenBy(server, s, q) => server'[s].peer # q
    BY <1>2, <1>8, <2>1, <2>3 DEF GivenBy
  <2>9. server'[s].admissions >= server[s].admissions
    BY <1>2, <1>8, <2>3
  <2>10. \/ down'[s] = down[s]
         \/ \E a \in Answers :
              /\ down'[s] = Append(down[s], a)
              /\ a.type = "join_accepted" => GivenBy(server', s, a.peer)
    BY <2>4, <2>5, <2>7
  <2>11. \A t \in Sockets \ {s} :
           server'[t] = server[t] /\ down'[t] = down[t] /\ up'[t] = up[t]
    BY <1>4, <2>3, <2>7
  <2>12. server'[s].peer # NoPeer => GivenBy(server', s, server'[s].peer)
    BY <2>3, <2>4
  <2>13. /\ UNCHANGED <<wires, slices, rest>>
         /\ net[s] \notin {"none", "connecting"}
         /\ up' \in [Sockets -> Seq(Up)] /\ down' \in [Sockets -> Seq(Answers)]
         /\ server' \in [Sockets -> [peer : Given \cup {NoPeer}, ready : BOOLEAN,
                                     admissions : Nat]]
    BY <1>1, <1>4, <2>3, <2>7
  <2> QED
    BY <2>8, <2>9, <2>10, <2>11, <2>12, <2>13, ServerStep
<1>9. ASSUME server[s].peer # NoPeer, server' = [server EXCEPT ![s].ready = TRUE],
             Reply(s, [type |-> "pair_negotiation_instruction"]) \/ UNCHANGED down
      PROVE  IInv'
  <2>1. /\ server' \in [Sockets -> [peer : Given \cup {NoPeer}, ready : BOOLEAN,
                                    admissions : Nat]]
        /\ server'[s].peer = server[s].peer /\ server'[s].ready
        /\ server'[s].admissions = server[s].admissions
        /\ \A t \in Sockets \ {s} : server'[t] = server[t]
    BY <1>2, <1>9
  <2> DEFINE m == [type |-> "pair_negotiation_instruction"]
  <2>2. m \in Answers /\ m.type # "join_accepted"
    BY <1>7
  <2>3. Reply(s, m) \/ UNCHANGED down
    BY <1>9
  <2> HIDE DEF m
  <2>4. /\ down' \in [Sockets -> Seq(Answers)]
        /\ down'[s] = down[s] \/ down'[s] = Append(down[s], m)
        /\ \A t \in Sockets \ {s} : down'[t] = down[t]
    BY <1>1, <1>2, <2>2, <2>3, ReplyFacts
  <2>5. server'[s].peer # NoPeer => GivenBy(server', s, server'[s].peer)
    BY <1>6, <2>1 DEF GivenBy
  <2>6. server'[s].admissions >= server[s].admissions
    BY <1>2, <2>1
  <2> QED
    BY <1>1, <1>4, <2>1, <2>2, <2>4, <2>5, <2>6, ServerStep
<1>10. ASSUME server' = [server EXCEPT ![s].peer = NoPeer, ![s].ready = FALSE],
              Reply(s, [type |-> "participant_released"]) \/ UNCHANGED down
       PROVE  IInv'
  <2>1. /\ server' \in [Sockets -> [peer : Given \cup {NoPeer}, ready : BOOLEAN,
                                    admissions : Nat]]
        /\ server'[s].peer = NoPeer
        /\ server'[s].admissions = server[s].admissions
        /\ \A t \in Sockets \ {s} : server'[t] = server[t]
    BY <1>2, <1>10
  <2> DEFINE m == [type |-> "participant_released"]
  <2>2. m \in Answers /\ m.type # "join_accepted"
    BY <1>7
  <2>3. Reply(s, m) \/ UNCHANGED down
    BY <1>10
  <2> HIDE DEF m
  <2>4. /\ down' \in [Sockets -> Seq(Answers)]
        /\ down'[s] = down[s] \/ down'[s] = Append(down[s], m)
        /\ \A t \in Sockets \ {s} : down'[t] = down[t]
    BY <1>1, <1>2, <2>2, <2>3, ReplyFacts
  <2>5. \A q \in Given : server'[s].peer # q
    BY <1>2, <2>1
  <2>6. server'[s].admissions >= server[s].admissions
    BY <1>2, <2>1
  <2> QED
    BY <1>1, <1>4, <2>1, <2>2, <2>4, <2>5, <2>6, ServerStep
<1>11. ASSUME server' = server,
              Reply(s, [type |-> "join_rejected"]) \/ UNCHANGED down,
              msg = "media_ready" => server[s].peer = NoPeer \/ server[s].ready
       PROVE  IInv'
  <2> DEFINE m == [type |-> "join_rejected"]
  <2>2. m \in Answers /\ m.type # "join_accepted"
    BY <1>7
  <2>3. Reply(s, m) \/ UNCHANGED down
    BY <1>11
  <2> HIDE DEF m
  <2>4. /\ down' \in [Sockets -> Seq(Answers)]
        /\ down'[s] = down[s] \/ down'[s] = Append(down[s], m)
        /\ \A t \in Sockets \ {s} : down'[t] = down[t]
    BY <1>1, <1>2, <2>2, <2>3, ReplyFacts
  <2>5. \A q \in Given :
          (server[s].peer # q \/ server[s].ready \/ Told(up[s])) =>
            (server'[s].peer # q \/ server'[s].ready \/ Told(up'[s]))
    BY <1>2, <1>5, <1>11
  <2>6. server'[s].admissions >= server[s].admissions
    BY <1>2, <1>11
  <2>7. server'[s].peer # NoPeer => GivenBy(server', s, server'[s].peer)
    BY <1>6, <1>11 DEF GivenBy
  <2>8. \A t \in Sockets \ {s} : server'[t] = server[t]
    BY <1>11
  <2> QED
    BY <1>1, <1>2, <1>4, <1>11, <2>2, <2>4, <2>5, <2>6, <2>7, <2>8, ServerStep
<1>12. server[s].admissions + 1 \in Nat
  BY <1>2
<1> QED
  BY <1>1, <1>3, <1>8, <1>9, <1>10, <1>11, <1>12, ServeFacts


-----------------------------------------------------------------------------
(* The answers of getUserMedia. *)

AnswerKeeps ==
  /\ local' \in Slice /\ media' \in Refs /\ camera' \in [Captures -> Camera]
  /\ local'.peer = local.peer
  /\ \/ local'.fsm = local.fsm
     \/ local.fsm = "acquiring-media" /\ local'.fsm \in {"media-ready", "media-error"}

LEMMA AnswerStep ==
  ASSUME IInv, Answering, UpGrows, AnswerKeeps, CameraInv', ReadyIsAnnounced'
  PROVE  IInv'
<1>1. /\ ShapeOK /\ SocketInv /\ AdmissionsOK
      /\ UNCHANGED <<client, net, down, server, mounted>>
  BY DEF IInv, Answering, wires, rest
<1>2. ShapeOK'
  BY <1>1 DEF ShapeOK, Refs, UpGrows, AnswerKeeps
<1>3. /\ local'.fsm \in Admitted => local.fsm \in Admitted
      /\ local'.fsm \in InFlow => local.fsm \in InFlow
  BY DEF AnswerKeeps, InFlow, Admitted
<1>4. SocketInv'
  <2>1. mounted' /\ local'.fsm \in Admitted =>
          /\ ConnOf(local'.peer) \in Sockets
          /\ net[ConnOf(local'.peer)] \notin {"none", "connecting"}
    BY <1>1, <1>3 DEF SocketInv, AnswerKeeps
  <2>2. mounted' /\ local'.fsm \in InFlow => client'.socket # NoSocket
    BY <1>1, <1>3 DEF SocketInv
  <2>3. client.socket # NoSocket =>
          /\ net'[client.socket] \in {"connecting", "open", "lost"}
          /\ client'.transport \in {"connecting", "open"}
          /\ net'[client.socket] # "connecting" => client'.transport = "open"
    BY <1>1 DEF SocketInv
  <2>4. NetGoesOn
    BY <1>1, SameNet
  <2> QED
    BY <1>1, <2>1, <2>2, <2>3, <2>4, SocketsKept
<1>5. AdmissionsOK'
  <2>1. DownTaken
    BY <1>1 DEF DownTaken, ShapeOK
  <2>2. local'.peer \in {local.peer, NoPeer}
    BY DEF AnswerKeeps
  <2> QED
    BY <1>1, <2>1, <2>2, AdmissionsKept
<1> QED
  BY <1>2, <1>4, <1>5 DEF IInv

LEMMA FailedFacts ==
  ASSUME ShapeOK, NEW str \in Captures \cup {NoStream}, FailedWith(str)
  PROVE  /\ local' \in Slice /\ local'.peer = local.peer
         /\ local'.fsm = IF local.fsm = "acquiring-media" THEN "media-error"
                         ELSE local.fsm
         /\ media' \in Refs /\ media'.stream = str
         /\ media.gen \in Nat /\ media'.gen \in {media.gen, media.gen + 1}
<1>1. local \in Slice /\ media \in Refs
  BY DEF ShapeOK
<1>2. /\ local' \in Slice /\ local'.peer = local.peer
      /\ local'.fsm = IF local.fsm = "acquiring-media" THEN "media-error"
                      ELSE local.fsm
  BY <1>1 DEF FailedWith, MediaFailed, Slice, LocalFsms
<1>3. \/ media' = [stream |-> str, gen |-> media.gen + 1, trigger |-> <<>>]
      \/ media' = [media EXCEPT !.stream = str]
  BY DEF FailedWith
<1>4. /\ media.gen \in Nat
      /\ [media EXCEPT !.stream = str] \in Refs
      /\ [media EXCEPT !.stream = str].stream = str
      /\ [media EXCEPT !.stream = str].gen = media.gen
      /\ [stream |-> str, gen |-> media.gen + 1, trigger |-> <<>>] \in Refs
  BY <1>1, RefsFacts
<1>5. CASE media' = [media EXCEPT !.stream = str]
  BY <1>2, <1>4, <1>5
<1>6. CASE media' = [stream |-> str, gen |-> media.gen + 1, trigger |-> <<>>]
  <2>1. media'.stream = str /\ media'.gen = media.gen + 1
    BY <1>6
  <2>2. media' \in Refs
    BY <1>4, <1>6
  <2> QED
    BY <1>2, <1>4, <2>1, <2>2
<1> QED
  BY <1>3, <1>5, <1>6

LEMMA AnsweredCamera ==
  ASSUME ShapeOK, NEW i \in Captures,
         NEW v \in {"adrift", "live", "stopped", "failed"},
         camera' = [camera EXCEPT ![i].status = v]
  PROVE  /\ camera' \in [Captures -> Camera]
         /\ camera'[i].status = v
         /\ \A j \in Captures \ {i} : camera'[j] = camera[j]
         /\ \A j \in Captures : camera[j].gen \in Nat /\ camera'[j].gen = camera[j].gen
BY DEF ShapeOK, Camera

\* A result that came too late changes nothing but the camera.
LEMMA SupersededStep ==
  ASSUME IInv, Answering, NEW i \in Captures, camera[i].status = "prompt",
         Superseded(i), NEW v \in {"adrift", "failed"},
         camera' = [camera EXCEPT ![i].status = v], UNCHANGED <<up, local, media>>
  PROVE  IInv'
<1>1. /\ ShapeOK /\ CameraInv /\ UNCHANGED <<client, net, server, mounted>>
  BY DEF IInv, Answering, wires, rest
<1>2. /\ camera' \in [Captures -> Camera]
      /\ camera'[i].status = v
      /\ \A j \in Captures \ {i} : camera'[j] = camera[j]
      /\ \A j \in Captures : camera[j].gen \in Nat /\ camera'[j].gen = camera[j].gen
  BY <1>1, AnsweredCamera
<1>3. \A j \in Captures : /\ camera'[j].status = "live" => camera[j].status = "live"
                          /\ camera'[j].status = "prompt" => camera[j].status = "prompt"
  BY <1>2
<1>4. CameraInv'
  BY <1>1, <1>2, <1>3 DEF CameraInv, CameraFollowsSession, Runs, Pending
<1>5. UpGrows /\ NetGoesOn /\ AnswerKeeps
  BY <1>1, <1>2, SameNet DEF UpGrows, ShapeOK, AnswerKeeps, Refs
<1>6. ReadyIsAnnounced'
  BY <1>1, <1>5, AnnouncementKept DEF UpGrows
<1> QED
  BY <1>4, <1>5, <1>6, AnswerStep

\* An acquisition that ends without a camera: refused, or obtained when there
\* is no WebSocket to announce it on.
LEMMA NoCameraStep ==
  ASSUME IInv, Answering, NEW i \in Captures, camera[i].status = "prompt",
         ~ Superseded(i), NEW v \in {"stopped", "failed"}, UpGrows,
         camera' = [camera EXCEPT ![i].status = v],
         NEW str \in {media.stream, NoStream}, FailedWith(str)
  PROVE  IInv'
<1>1. /\ ShapeOK /\ CameraInv /\ UNCHANGED <<client, net, server, mounted>>
      /\ Pending(i)
  BY DEF IInv, Answering, wires, rest, Pending, Superseded
<1>2. /\ camera' \in [Captures -> Camera]
      /\ camera'[i].status = v
      /\ \A j \in Captures \ {i} : camera'[j] = camera[j]
      /\ \A j \in Captures : camera[j].gen \in Nat /\ camera'[j].gen = camera[j].gen
  BY <1>1, AnsweredCamera
<1>3. /\ local' \in Slice /\ local'.peer = local.peer
      /\ local'.fsm = IF local.fsm = "acquiring-media" THEN "media-error"
                      ELSE local.fsm
      /\ media' \in Refs
      /\ media.gen \in Nat /\ media'.gen \in {media.gen, media.gen + 1}
  <2>1. media.stream \in Captures \cup {NoStream}
    BY <1>1, RefsFacts DEF ShapeOK
  <2> QED
    BY <1>1, <2>1, FailedFacts
<1>4. \A j \in Captures : ~ Runs(j)
  <2>1. CASE mounted
    BY <1>1, <2>1 DEF CameraInv
  <2>2. CASE ~ mounted
    BY <1>1, <2>2 DEF CameraInv, CameraFollowsSession, Runs
  <2> QED
    BY <2>1, <2>2
<1>5. \A j \in Captures :
        /\ camera'[j].status # "live"
        /\ camera'[j].status = "prompt" =>
             j # i /\ camera[j].status = "prompt" /\ camera'[j].gen <= media'.gen
  BY <1>1, <1>2, <1>3, <1>4 DEF Runs, CameraInv
<1>6. mounted => \A j \in Captures : ~ Pending(j)'
  <2> SUFFICES ASSUME mounted, NEW j \in Captures, Pending(j)'
               PROVE  FALSE
    OBVIOUS
  <2>1. j # i /\ camera[j].status = "prompt" /\ camera[j].gen = media'.gen
    BY <1>2, <1>5 DEF Pending
  <2>2. camera[j].gen <= media.gen
    BY <1>1, <2>1 DEF CameraInv
  <2>3. camera[j].gen = media.gen
    BY <1>2, <1>3, <2>1, <2>2
  <2> QED
    BY <1>1, <2>1, <2>3 DEF CameraInv, Pending
<1>7. CameraInv'
  BY <1>1, <1>5, <1>6 DEF CameraInv, CameraFollowsSession, Runs
<1>8. AnswerKeeps
  BY <1>2, <1>3 DEF AnswerKeeps
<1>9. NetGoesOn
  BY <1>1, SameNet
<1>10. mounted' /\ local'.fsm = "media-ready" =>
         mounted /\ local.fsm = "media-ready" /\ local'.peer = local.peer
  BY <1>1, <1>3
<1>11. ReadyIsAnnounced'
  BY <1>1, <1>9, <1>10, AnnouncementKept DEF UpGrows
<1> QED
  BY <1>7, <1>8, <1>11, AnswerStep


\* An acquisition that ends with a camera: it was the only one, no camera
\* ran, and the tab, mounted, announces it on the WebSocket it was admitted
\* on if that is the last.
LEMMA CameraStep ==
  ASSUME IInv, Answering, NEW i \in Captures, camera[i].status = "prompt",
         ~ Superseded(i), Sendable, Sent("media_ready"),
         camera' = [camera EXCEPT ![i].status = "live"],
         local' = MediaReady(local), media' = [media EXCEPT !.stream = i]
  PROVE  IInv'
<1>1. /\ ShapeOK /\ CameraInv /\ SocketInv
      /\ UNCHANGED <<client, net, server, mounted>>
      /\ Pending(i)
  BY DEF IInv, Answering, wires, rest, Pending, Superseded
<1>2. /\ camera' \in [Captures -> Camera]
      /\ camera'[i].status = "live"
      /\ \A j \in Captures \ {i} : camera'[j] = camera[j]
      /\ \A j \in Captures : camera[j].gen \in Nat /\ camera'[j].gen = camera[j].gen
  BY <1>1, AnsweredCamera
<1>3. /\ mounted
      /\ local.fsm \in {"acquiring-media", "signaling-error"}
      /\ \A j \in Captures : ~ Runs(j) /\ (Pending(j) => j = i)
  BY <1>1 DEF CameraInv, Sendable
<1>4. /\ local' \in Slice /\ local'.peer = local.peer
      /\ local'.fsm = IF local.fsm = "acquiring-media" THEN "media-ready"
                      ELSE local.fsm
  BY <1>1 DEF MediaReady, ShapeOK, Slice, LocalFsms
<1>5. media' \in Refs /\ media'.stream = i /\ media'.gen = media.gen
  BY <1>1, RefsFacts DEF ShapeOK
<1>6. \A j \in Captures :
        /\ camera'[j].status = "live" => j = i
        /\ camera'[j].status = "prompt" => j # i /\ camera[j].status = "prompt"
  BY <1>2, <1>3 DEF Runs
<1>7. \A j \in Captures : ~ Pending(j)'
  BY <1>2, <1>3, <1>5, <1>6 DEF Pending
<1>8. local'.fsm \in {"media-ready", "signaling-error"}
  BY <1>3, <1>4
<1>9. CameraInv'
  BY <1>1, <1>2, <1>3, <1>5, <1>6, <1>7, <1>8 DEF CameraInv, CameraFollowsSession, Runs
<1>10. /\ UpGrows
       /\ net[client.socket] = "open" =>
            up'[client.socket] = Append(up[client.socket], "media_ready")
  BY <1>1, SentFacts DEF Up
<1>11. AnswerKeeps
  BY <1>2, <1>4, <1>5 DEF AnswerKeeps
<1>12. ReadyIsAnnounced'
  <2> DEFINE q == ConnOf(local.peer)
  <2> SUFFICES ASSUME local'.fsm = "media-ready", LastSocket(q), net[q] = "open"
               PROVE  Told(up'[q])
    BY <1>1, <1>4 DEF ReadyIsAnnounced, LastSocket, Told
  <2>1. local.fsm \in Admitted
    BY <1>3, <1>4 DEF Admitted
  <2>2. q \in Sockets /\ net[q] # "none"
    BY <1>1, <1>3, <2>1 DEF SocketInv
  <2>3. client.socket \in Sockets /\ net[client.socket] # "none"
        /\ LastSocket(client.socket)
    BY <1>1 DEF SocketInv, Sendable, ShapeOK
  <2>4. client.socket = q
    BY <2>2, <2>3 DEF LastSocket, Sockets
  <2>5. up'[q] = Append(up[q], "media_ready") /\ up[q] \in Seq(Up)
    BY <1>1, <1>10, <2>2, <2>4 DEF ShapeOK
  <2> HIDE DEF q
  <2> QED
    BY <2>5, ToldFacts DEF Up
<1> QED
  BY <1>9, <1>10, <1>11, <1>12, AnswerStep

LEMMA AcquireSucceedsStep ==
  ASSUME IInv, NEW i \in Captures, AcquireSucceeds(i)
  PROVE  IInv'
<1>1. ShapeOK /\ Answering /\ camera[i].status = "prompt"
  BY DEF IInv, AcquireSucceeds
<1>2. CASE Superseded(i)
  <2>1. camera' = [camera EXCEPT ![i].status = "adrift"] /\ UNCHANGED <<up, local, media>>
    BY <1>2 DEF AcquireSucceeds
  <2> QED
    BY <1>1, <1>2, <2>1, SupersededStep
<1>3. CASE ~ Superseded(i) /\ Sendable
  <2>1. /\ Sent("media_ready")
        /\ camera' = [camera EXCEPT ![i].status = "live"]
        /\ local' = MediaReady(local)
        /\ media' = [media EXCEPT !.stream = i]
    BY <1>3 DEF AcquireSucceeds
  <2> QED
    BY <1>1, <1>3, <2>1, CameraStep
<1>4. CASE ~ Superseded(i) /\ ~ Sendable
  <2>1. /\ camera' = [camera EXCEPT ![i].status = "stopped"]
        /\ FailedWith(NoStream)
        /\ UNCHANGED up
    BY <1>4 DEF AcquireSucceeds
  <2>2. UpGrows
    BY <1>1, <2>1 DEF UpGrows, ShapeOK
  <2> QED
    BY <1>1, <1>4, <2>1, <2>2, NoCameraStep
<1> QED
  BY <1>2, <1>3, <1>4

LEMMA AcquireFailsStep ==
  ASSUME IInv, NEW i \in Captures, AcquireFails(i)
  PROVE  IInv'
<1>1. /\ ShapeOK /\ Answering /\ camera[i].status = "prompt"
      /\ camera' = [camera EXCEPT ![i].status = "failed"]
  BY DEF IInv, AcquireFails
<1>2. CASE Superseded(i)
  <2>1. UNCHANGED <<up, local, media>>
    BY <1>2 DEF AcquireFails
  <2> QED
    BY <1>1, <1>2, <2>1, SupersededStep
<1>3. CASE ~ Superseded(i)
  <2>1. /\ IF Sendable THEN Sent("media_failed") ELSE UNCHANGED up
        /\ FailedWith(media.stream)
    BY <1>3 DEF AcquireFails
  <2>2. UpGrows
    BY <1>1, <2>1, SentFacts DEF UpGrows, ShapeOK, Up
  <2> QED
    BY <1>1, <1>3, <2>1, <2>2, NoCameraStep
<1> QED
  BY <1>2, <1>3

-----------------------------------------------------------------------------
LEMMA NextStep ==
  ASSUME IInv, [Next]_vars
  PROVE  IInv'
<1>1. CASE User
  BY <1>1, SubmitStep, RetryStep, LeaveStep, UnmountStep DEF User
<1>2. ASSUME NEW s \in Sockets,
             \/ Network(s) \/ Lose(s) \/ ServerReads(s) \/ ServerSeesEnd(s) \/ Handle(s)
      PROVE  IInv'
  <2>1. CASE Network(s)
    BY <2>1, OpenedStep, OnCloseStep DEF Network
  <2>2. CASE Handle(s)
    BY <2>2, OnJoinAcceptedStep, OnJoinRejectedStep, OnParticipantReleasedStep,
       OnPairInstructionStep DEF Handle
  <2> QED
    BY <1>2, <2>1, <2>2, LoseStep, ServerReadsStep, ServerSeesEndStep
<1>3. ASSUME NEW i \in Captures, Answer(i)
      PROVE  IInv'
  BY <1>3, AcquireSucceedsStep, AcquireFailsStep DEF Answer
<1>4. CASE UNCHANGED vars
  BY <1>4, StutterStep
<1> QED
  BY <1>1, <1>2, <1>3, <1>4 DEF Next

\* The invariant the properties rest on: an acquisition is pending only while
\* the slice waits for it, the client refers to the last WebSocket opened or
\* to none, and a peer ID belongs to the connection it was given to.
THEOREM Inductive == Spec => []IInv
<1>1. Init => IInv
  BY InitStep
<1>2. IInv /\ [Next]_vars => IInv'
  BY NextStep
<1> QED
  BY <1>1, <1>2, PTL DEF Spec

\* For every order of retries, releases, leaves and late answers of
\* getUserMedia: out of a room no camera runs but one whose acquisition was
\* pending when the room was left, and no two streams the controller took run
\* at once (mediaAcquisition.ts).
THEOREM CameraFollows == Spec => []CameraFollowsSession
<1>1. IInv => CameraFollowsSession
  BY DEF IInv, CameraInv
<1> QED
  BY <1>1, Inductive, PTL

\* An admitted tab talks over the WebSocket it was admitted on, if that is
\* the last it opened, and the client knows it to be open (client.ts).
THEOREM HasItsSocket == Spec => []SessionHasItsSocket
<1>1. IInv => SessionHasItsSocket
  <2> SUFFICES ASSUME IInv, mounted, local.fsm \in Admitted,
                      LastSocket(ConnOf(local.peer))
               PROVE  client.transport = "open" /\ client.socket = ConnOf(local.peer)
    BY DEF SessionHasItsSocket
  <2> DEFINE q == ConnOf(local.peer)
  <2>1. ShapeOK /\ SocketInv
    BY DEF IInv
  <2>2. q \in Sockets /\ net[q] \notin {"none", "connecting"}
    BY <2>1 DEF SocketInv
  <2>3. /\ client.socket \in Sockets /\ LastSocket(client.socket)
        /\ net[client.socket] # "none"
        /\ net[client.socket] # "connecting" => client.transport = "open"
    BY <2>1 DEF SocketInv, InFlow, ShapeOK
  <2>4. client.socket = q
    BY <2>2, <2>3 DEF LastSocket, Sockets
  <2> QED
    BY <2>2, <2>3, <2>4
<1> QED
  BY <1>1, Inductive, PTL

\* A tab that shows itself media-ready has told the server, for the very
\* admission it shows, under the same condition (mediaAcquisition.ts F-2).
THEOREM ReadyAnnounced == Spec => []ReadyIsAnnounced
<1>1. IInv => ReadyIsAnnounced
  BY DEF IInv
<1> QED
  BY <1>1, Inductive, PTL

=============================================================================
