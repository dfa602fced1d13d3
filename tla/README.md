# Formal models of webrtc-lab

TLA+ models of this repository's signaling servers and of the browser code that
talks to them, the TLC runs that check them on small instances, and TLAPS proofs
for every size. `PROJECT.json` lists the runs, which definition models which
lines of the source, the hazards the properties are for, and a place where code
and documents were found to disagree.

- [1. The system](#1-the-system)
- [2. The modules](#2-the-modules)
- [3. How the servers are modelled](#3-how-the-servers-are-modelled)
- [4. How the browsers are modelled](#4-how-the-browsers-are-modelled)
- [5. What the runs check](#5-what-the-runs-check)
- [6. What is proved](#6-what-is-proved)
- [7. Where code and documents disagree](#7-where-code-and-documents-disagree)
- [8. What is not modelled](#8-what-is-not-modelled)
- [9. The plan](#9-the-plan)

## 1. The system

webrtc-lab is two WebRTC call applications behind one Go signaling server:
`one-to-one` (contract v1, `/ws`, rooms of two) and `mesh` (contract v2,
`/ws/mesh`, rooms of four, one peer connection per pair of members). The
browser side is a React/TypeScript frontend with a folder per mode. The two
modes share no state: they have room registries of their own and separate
protocol packages. They share only the WebSocket server and the heartbeat.

### Components, their state and their operations

| Component | State | Operations |
| --- | --- | --- |
| Mesh room (`modes/mesh/room`) | slot table, participants map, `admissionCounter`, `rosterSeq`, pair ledger; under the room's mutex | `Admit`, `Release`, `NextRosterSeq`; ledger `Register`, `Increment`, `Lookup` |
| Mesh registry (`room/manager.go`) | `rooms`, under the manager's mutex | `JoinOrCreate`, `Release` (with collection of emptied rooms), `Room` |
| Mesh service and session (`modes/mesh/signaling`, `handler.go`) | per connection: peer ID, room ID, release latch | `join_room`, `media_ready`, `media_failed`, `leave_room`, `pair_offer`, `pair_answer`, `pair_ice_candidate`, `pair_failed`, `reconnect_pair`, `pair_media_state`, disconnect |
| One-to-one room and registry (`modes/onetoone/room`) | two slots, `rolesAssigned`; per participant: admission order, media readiness, `callPhase` | `Admit`, `Release`, `MarkRolesAssigned`, `CallReadiness`, the `CanSend…` guards |
| One-to-one service and session (`modes/onetoone/signaling`, `handler.go`) | per connection: peer ID, room ID, release latch | `join_room`, `media_ready`, `media_failed`, `offer`, `answer`, `ice_candidate`, `media_state`, `leave_room`, disconnect |
| WebSocket server (`shared/wsserver`) | one goroutine per connection, a write mutex | read loop, `Send`, `Close`, a single `OnDisconnect` |
| Heartbeat (`shared/heartbeat`) | a ticker per connection | ping, close on a missed pong |
| Mesh client: admission, camera, leaving (`signaling/client.ts`, `state/local.ts`, `webrtc/mediaAcquisition.ts`, `webrtc/leavePath.ts`) | the current WebSocket, the local participant's state machine, the refs of the media controller | submit, open, close, dispatch, acquire, retry, leave, unmount |
| Mesh client: roster (`state/roster.ts`, `signaling/dispatcher.ts`) | entries by peer ID, `serverSeq` | apply a snapshot, apply an update |
| Mesh client: pairs (`webrtc/pair_negotiation.ts`, `pair_trickle.ts`, `reconnect.ts`, `pair-manager.ts`, `iceBuffer.ts`) | per pair: connection, epoch, state, ICE buffer | negotiate, trickle, report a failure, reconnect, close |
| Mesh client: screen share (`webrtc/screenShare.ts`, `senders.ts`, `MeshControls.tsx`) | the held capture, `starting` and `stopping`, the video senders | start, stop, the browser's own stop, camera toggle |
| Mesh client: chat (`webrtc/dataChannel.ts`, `state/chat.ts`) | a data channel per pair, messages, fan-out summaries | open, fan out, receive, close |
| One-to-one client: session (`signaling/client.ts`, `provider.tsx`, `state/session.ts`, `local-media-provider.tsx`, `cleanup.tsx`) | the current WebSocket, the session slice, the local stream | join, retry, rejoin, leave, acquire, dispatch |
| One-to-one client: call (`negotiation.ts`, `trickle.ts`, `ice-buffer.ts`, `peer-connection-provider.tsx`) | one connection and its ICE buffer | offer, answer, candidates, clean-up Paths A, B and C |
| One-to-one client: screen share (`screen-share.ts` and its provider) | the held capture, the `stopping` latch | start, stop, the browser's own stop |

### How they interact

A connection has one goroutine, which reads a frame, runs its handler to the
end, and reads the next. A handler looks its room up under the manager's mutex
and changes it under the room's. It never sends under a lock: what it sends it
collects first and writes after. Between two critical sections of one handler
the handlers of all other connections may run, so a handler's local variables
(the targets of a fan-out, the pair whose roles are to be sent, a
classification) can be out of date when they are used, and the messages of two
handlers can reach a client in the opposite order of their critical sections.

A browser tab runs one task at a time. A message's listener runs up to its first
`await`; the continuation is a task of its own, and in between other messages,
clicks and callbacks may have closed, replaced or failed what it works on. Each
mode has a store of slices, written by reducers that a dispatcher drives;
controllers that outlive a call (media, screen share, pair manager) keep refs of
their own beside the store.

### What is hard

- *A handler in several critical sections*: lookup and admission; readiness and
  evaluation of pairs; release and collection of the room; classification and
  release of a departure.
- *Messages numbered or chosen under a lock and sent after it.*
- *Departures in three ways*, `leave_room`, `media_failed` and the end of the
  connection, which must release once and, after `media_failed`, allow a second
  admission on the same WebSocket.
- *Identity over time*: admission indices and pair IDs must not come back, while
  the ledger keeps the pairs of those who left; admission orders of the
  one-to-one mode do come back.
- *Simultaneous requests about one pair* by its two ends.
- *Continuations that come late*: `createAnswer` of an attempt that was replaced,
  `getUserMedia` after the user left, `replaceTrack` on a connection that was
  closed, the close event of an old WebSocket.
- *Loops that await in the middle* while what they loop over changes.

### What makes each component correct

- *Mesh room*: slot table and participants agree; an index names one
  admission; a pair ID names its two endpoints, the lower index first.
- *Mesh registry*: an empty room does not stay registered; a registered room has
  no member whose connection no longer speaks for it; a member's room is
  registered (this one fails, section 7).
- *Mesh service*: two media-ready members have exactly one pair; an epoch begins
  once, out of a failure, with both ends present.
- *One-to-one room and service*: roles are assigned just while both occupants
  are ready, once per pairing; the role a client is told is the role the server
  holds it to.
- *Rosters*: a client shows the room the server holds.
- *Pairs*: both ends of a pair go through the same attempts, in step; an attempt
  that is replaced leaves no connection; failures and requests are answered.
- *Cameras and screens*: nothing is captured that nobody can stop, and who is
  told that a screen is shared is sent one.
- *Chat*: in order, once, and what is counted as delivered is.
- *Sessions*: a tab in a room talks over the WebSocket it was admitted on, and
  every join comes to an end.

## 2. The modules

| Module | What it is |
| --- | --- |
| `MeshRoom` | The data of a mesh room and the operations performed on it under its mutex, as operators. |
| `MeshServer` | `EXTENDS MeshRoom`: registry, rooms, sessions and one goroutine per connection. |
| `MeshRosterClient` | `EXTENDS MeshServer`: the server composed with the roster slice of every client. |
| `PairHandshake` | Abstract: what the epochs of a pair promise. |
| `MeshPairClient` | `EXTENDS MeshRoom`: both ends of a pair and the goroutines that relay for it; implements `PairHandshake` through a refinement mapping. |
| `MeshSession` | One mesh tab: form, WebSockets, local participant, camera, leaving. |
| `MeshScreenShare` | The screen share of a mesh tab towards its remote peers. |
| `MeshChat` | The group chat over the data channels of the pairs. |
| `OneToOneServer` | The one-to-one server: registry, rooms, sessions and goroutines. |
| `OneToOneCall` | The tabs that succeed each other in a one-to-one room, from `media_ready` on, with the server that pairs them. |
| `OneToOneSession` | One one-to-one tab: form, failure panel, WebSockets, session slice, camera. |
| `OneToOneScreenShare` | The screen share of a one-to-one tab through a series of calls. |
| `MC…` | The instances TLC runs, one module per specification; the `.cfg` files give the constants. |
| `MeshServerProofs` | Theorems about the mesh server: rooms and ledgers, then registry, latches and pairings; and, on top of them, about the rosters of its clients. |
| `MeshPairClientProofs` | Theorems about a pair: that its code implements the abstract handshake, and that nothing an end is owed is lost. |
| `MeshSessionProofs`, `OneToOneSessionProofs` | Theorems about one tab's camera and WebSockets, in either mode. |
| `MeshCallProofs` | Theorems about what a mesh tab sends over its pairs: the screen share and the chat. |
| `OneToOneServerProofs`, `OneToOneCallProofs`, `OneToOneScreenShareProofs` | Theorems about the one-to-one server, calls and screen share. |

`MeshRoom` is apart from `MeshServer` because its operators are what the lemmas
about a room's data are stated for, and because `MeshPairClient` uses the ledger
without the rest of the server. `MeshScreenShare` and `MeshChat` share no name, so
that `MeshCallProofs` can extend both.

The browser side is cut where one part's state is the next part's input.
`MeshSession` ends at `media-ready`; `MeshPairClient`, `MeshScreenShare` and
`MeshChat` begin there. `OneToOneSession` ends at `waiting-for-peer` (what a call
does to the session slice is an environment action there); `OneToOneCall` begins
with `media_ready`. A part that another module models in detail appears in a
coarser form: an attempt at a pair in `MeshChat` begins at both ends in any order
and its channel opens once both are in it, a call in `OneToOneScreenShare` begins
and ends in one step, and leaving a one-to-one room is one step in `OneToOneCall` and
`OneToOneSession`: that it awaits the stop of the screen share is in
`OneToOneScreenShare`, and the properties of the other two do not depend on it.

Next to a definition there may be a "variant with a bug". No action uses it: it
is there to be put in the definition's place, to see that the property that
guards against the bug is violated then (the `mutants` of `PROJECT.json`).

## 3. How the servers are modelled

**Identities.** A peer ID is a UUID in the code and a number here, the number of
its admission over all rooms: UUIDs are only compared, and never come back. A
room object is a number too, the number of its creation, because handlers keep
pointers to rooms that have left the registry. `participant[p]` is what the
`*Participant` of peer ID `p` points to. It outlives its entry in the room, as
the pointer does. A pair ID is the ordered pair of its two admission indices.

**Goroutines.** `work[c].at` is the critical section that connection `c`'s
handler takes next, and the other fields of `work[c]` are its local variables.
`out[c]` holds the sends it makes before. One action is one critical section
or one send. `Read(c)` is what may happen when `c` reads: any frame its client
can send, or the end of the connection. `Continue(c)` are the steps of a handler
that has begun. The correspondence, for the mesh server:

| Code | Actions |
| --- | --- |
| `handleJoinRoom` | `JoinExisting` or `JoinCreating`, then `JoinRejected`, or `JoinAccepted`, `SendSnapshot`, `AnnounceJoined` |
| `handleMediaReady` | `MediaReady`, `AnnounceReady`, `Evaluate` |
| `handleMediaFailed` | `MediaFailed`, `CollectRoom`, `ReportReleased`, `AnnounceDeparture`, `Finish` |
| `handleLeaveRoom`, `OnDisconnect` | `LeaveRoom` or `Disconnect`, `CollectRoom`, `AnnounceDeparture`, `Finish` |
| `relayPair`, `relayPairIce` | `RelayPair` |
| `handlePairFailed`, `handleReconnectPair`, `handlePairMediaState` | `PairFailed`, `ReconnectPair`, `PairMediaState` |
| every refusal, every decoding error | `Refuse` |
| `sessionImpl.Send` | `Send` |

and for the one-to-one server:

| Code | Actions |
| --- | --- |
| `handleJoinRoom` | `JoinExisting` or `JoinCreating`, then `JoinRejected`, or `JoinAccepted`, `Accept`, `Announce` |
| `handleMediaReady` | `MediaReady`, `Announce`, `SendRoles` |
| `handleSDPRelay`, `handleIceCandidate`, `handleMediaState` | `Relay` |
| `handleMediaFailed`, `handleLeaveRoom`, `OnDisconnect` | `MediaFailed`, `LeaveRoom` or `Disconnect`, then `Classify`, `Release`, `CollectRoom`, `Finish` |
| every refusal, every decoding error | `Refuse` |
| `sessionImpl.Send` | `Send` |

**Why lookup and critical section are one action.** `Rooms.Room(id)` takes the
manager's mutex and the section after it the room's, so other handlers may run
between. Where the caller's participant is in the room, the room stays
registered until the caller's own goroutine takes it out, so the lookup's answer
cannot change. Where the caller is not in it, the section finds that and does
nothing. The exceptions are kept apart: `JoinOrCreate`, whose caller holds no
slot, and `Release`, which collects the room it emptied.

**Sends.** The order of the sends of one handler is kept. In the mesh server a
fan-out is a set whose elements carry their place in the loop; in the
one-to-one server, where there are at most two receivers, it is a sequence. A
send returns, whether or not it succeeded: failures are logged and ignored by
the callers, except that the sender of an offer or an answer that could not be
forwarded is sent an error, which is the second disjunct of `Send` in
`OneToOneServer`. Nothing reads a client's side of a connection in these
modules: what a client does with messages and in which frames it answers is
left open, so a client here may send any frame at any time.

**Disconnection.** A client may vanish at any time, but its goroutine notices
only when it reads: a handler that has begun runs to its end, and only then
`OnDisconnect` runs, once. So `Disconnect` is one of the things `Read` may be,
and a departure is never concurrent with another handler of the same connection.

**Data left out.** SDP, candidates, texts, timestamps, request IDs, reasons and
the wording of errors. The numbers kept are those that identities and orders
depend on: admission indices, sequence numbers and epochs. Epochs and counters
are `uint64` in the code and are not close to overflow at one per user action.

## 4. How the browsers are modelled

**Steps.** A task of the tab is one action: an event handler or a message's
listener up to its first `await`, with every dispatch it makes and the effects
React runs for them before the next task. Each continuation after an `await` is
an action of its own. What a continuation still refers to after it was replaced
(a `PairContext` that is no longer in the map, a sender of a closed connection, a
WebSocket the client no longer holds) stays in the state for as long as it can
be used.

**The network.** A WebSocket delivers in order and may be lost at any time; the
server's goroutine notices when it reads, the tab when its `close` or `error`
event comes, in either order. What was sent before the loss may still arrive.
Data channels are ordered and reliable while they are open, as the code asks for.
In `MeshRosterClient` a message is handled in the step that writes it: a browser
answers none of those, so only the order in which two goroutines write matters.

**What the browser's API does.** Modelled from how the code uses it and marked
external in the map: operations of one `RTCPeerConnection` are chained;
`replaceTrack` on a connection that is closed when it is called is refused, and
one that was queued when the connection was closed is refused or never settles;
`getUserMedia` answers, with a stream or an error, at any later time, also after
the page no longer wants it; the screen picker stays open as long as the user
likes.

| Module | Code | Actions |
| --- | --- | --- |
| `MeshRosterClient` | the roster part of `dispatchValidated` and the reducer | `Deliver`, composed with the server's `Send`; every other step is `MeshServer`'s |
| `MeshPairClient` | one per server frame | `Read` (relay, `pair_failed`, `reconnect_pair`, end of the connection) and `Send` |
| | `handlePairOffer`, `handlePairAnswer`, `handlePairIceCandidate`, `handlePairFailed`, the two instructions, `peer_left` | `Receive` |
| | the continuations of `emitOffer`, `handlePairOffer`, `handlePairAnswer`, `flushIceBuffer` | `CreatedOffer`, `SetLocalOffer`, `SetRemoteOffer`, `SetRemoteAnswer`, `Flush`, `CreatedAnswer`, `SetLocalAnswer` |
| | the connection's callbacks, the user | `GatherCandidate`, `ConnectionFails`, `ReconnectPair`, `Leave`, `Drop` |
| `MeshSession` | `JoinForm`, `client.ts`, dispatcher | `Submit`, `Opened`, `OnClose`, `Receive` |
| | `mediaAcquisition.ts` | `Rendered` (its effects, after every dispatch), `AcquireSucceeds`, `AcquireFails`, `Retry` |
| | `leavePath.ts`, unmount, the server | `Leave`, `Unmount`, `ServerReads`, `ServerSeesEnd`, `Lose` |
| `MeshScreenShare` | `start`, `stop`, one step per sender they await | `StartClick`, `PickerCancelled`, `PickerChosen`, `StartReplaced`, `StopClick`, `BrowserStop`, `StopReplaced` |
| | pairs under them | `PeerJoins`, `PairRebuilt`, `PeerLeaves`, `CameraToggled`, `Leave` |
| `MeshChat` | `handleSubmit`, `fanOutMeshChat`, receiver | `Submit`, `Arrive` |
| | channel life cycle | `Begin`, `ChannelOpens`, `DataChannelArrives`, `ChannelCloses`, `Fail`, `Reconnect`, `PeerLeft`, `Leave`, `LoseSignaling` |
| `OneToOneCall` | server handlers | `Join`, `Read`, `Release`, `Send` |
| | `handleReadyForOffer`, `handleOffer`, `handleAnswer`, `handleIceCandidate`, `peer_left` | `Receive`; continuations in `Settle` and `Drain` |
| | callbacks, the user | `GatherCandidate`, `Connect`, `Fail`, `Leave`, `Drop`, `TransportError` |
| `OneToOneSession` | form and panel | `Submit`, `Retry`, `Rejoin`, `Leave` |
| | client, dispatcher, media provider, server | `Opened`, `OnClose`, `Handle`, `AcquireSucceeds`, `AcquireFails`, `Unmount`, `ServerReads`, `ServerSeesEnd`, `OtherPeer`, `ConnectionEvent`, `Lose` |
| `OneToOneScreenShare` | `start`, `stop` and their `replaceTrack` | `StartClick`, `PickerCancelled`, `PickerChosen`, `StopClick`, `BrowserStop`, `Replaced`, `Refused` |
| | the call under them | `CallBegins`, `CallEnds`, `LoseSignaling`, `Leave`, `JoinAgain`, `CameraToggled` |

**Auxiliary variables.** Some record what happened so that a property can make an
exception it names, and no action reads them: `order` (`MeshRosterClient`: what
was written to a client out of order, or of a room it had left), `missed`
(`OneToOneCall`: pairings one of whose messages was turned down, or whose description
was applied to a connection of another, which is marked too), `clash` (`OneToOneScreenShare`: two pickers were
open together; a waiting `stop()` ended a later share, told by `stop.of`). Each
exception is a behaviour of the code, described in section 7.

**The refinement.** `MeshPairClient` maps its state to `PairHandshake` by the
last attempt each end has begun and the last one whose remote description it
applied. `ImplementsHandshake` says that every step of the detailed module is a
step of the abstract one or a stutter: an answer is never applied in an attempt
other than the one it was made for, whatever the interleaving of the sends of the
two instructions, the awaits and the relays.

## 5. What the runs check

Every property but the type invariant is about a hazard of `PROJECT.json`, at the
line it names.

| Run | States | Properties | What it shows |
| --- | --- | --- | --- |
| `mesh_rooms` | 2.4 M | `SlotsMatchParticipants`, `NoGhostParticipants`, `EmptyRoomsAreCollected`, `AdmissionIndexNeverReused`, `ReadyPairsRegistered` | Three connections join, leave, vanish, and fail and join again on the same WebSocket, in every interleaving. The slot table and the participants agree; an empty registered room has a goroutine about to fill it or look at it again; every member of a registered room is spoken for by a live connection that can still release it; two ready members with no evaluation outstanding are paired. |
| `mesh_pairs` | 0.64 M | `TypeOK`, `PairIdNamesItsEndpoints`, `EpochDiscipline`, `ReadyPeersGetPaired` | Both ends of a pair report failures, reconnect and relay at once, with departures and re-admissions; under fairness two ready members get their pair unless one goes. |
| `mesh_roster` | 2.8 M | `RosterIsTheRoom` | Two clients, two room IDs. Once the server is quiet, every client whose messages were written in the order of their numbers, and were of its own room, shows that room's participants, each with its presence, and nobody else. |
| `mesh_pair` | 0.22 M | `ImplementsHandshake`, `OneLiveConnection`, `NoCandidateStranded`, `ReconnectIsAnswered`, `FailureIsShared` | A pair through a failure and a reconnection: it implements the abstract handshake, an attempt that was replaced leaves no connection, no candidate stays in the buffer, a failure gets to the other end, and a click on Reconnect is answered. |
| `mesh_session` | 0.27 M | `CameraFollowsSession`, `SessionHasItsSocket`, `ReadyIsAnnounced`, `AcquisitionConcludes` | Joins, retries, leaves and losses with late answers: no camera runs out of a room but the one section 7 names, the tab talks over the socket it was admitted on, a tab that shows itself ready has told the server for that very admission, and an acquisition ends. |
| `mesh_screen` | 0.26 M | `CaptureIsOwned`, `NoFrozenTile`, `ShareReachesEveryPeer`, `ShareConcludes` | Two shares to two remotes whose pairs come, are rebuilt and go between the awaits of the loops. |
| `mesh_chat` | 0.13 M | `OrderedAndOnce`, `CountedMessagesArrive` | Three peers and an author; one pair fails and is rebuilt under the messages. |
| `onetoone_server` | 0.66 M | `RolesAssignedIffPaired`, `ToldRoleIsEnforced`, `OfferOncePerPairing`, `NoGhostParticipants`, `EmptyRoomsAreCollected` | Three clients succeed each other in two slots, with relays and second admissions. |
| `onetoone_call` | 0.11 M | `HandleIffInCall`, `NoCandidateStranded`, `NegotiationConcludes`, `InCallDepartureEndsCall` | Three participants in turn: offers, answers and candidates with their awaits against departures, losses and failures. A tab is out of a call with a peer that has gone for good, also when it has yet to begin that call, unless the departure was announced to it before the pairing. |
| `onetoone_session` | 0.99 M | `CameraFollowsSession`, `SessionHasItsSocket`, `AdmissionConcludes` | Joins, retries, rejoins and losses with late answers and close events. |
| `onetoone_screen` | 1.3 M | `CaptureIsOwned`, `ToldWhatIsSent`, `StopConcludes` | Three shares over three calls that end at any await. |
| `onetoone_screen_leave` | | `LeavingStopsTheScreen` | Violated: see section 7. |

Each ends within three minutes on two workers.

**Type invariants.** Each module has one. `TypeOK` of the mesh server is checked
in `mesh_pairs` and proved; those of `MeshRosterClient`, `OneToOneServer`,
`OneToOneCall`, `MeshPairClient`, `PairHandshake`, `MeshScreenShare`, `MeshChat` and
`OneToOneScreenShare` are proved. The other one (`SessionTypeOK` of both sessions)
holds when it is added to the module's cfg; it is kept out of the runs, which spend
their time on the properties above.

### Bounds

| Bound | Meaning | Why the values are enough |
| --- | --- | --- |
| `MaxSlots` | capacity of a mesh room, 4 in the code | 2 makes rooms fill up and newcomers replace departed members |
| `MaxPeers` | admissions over the run | one more than the slots gives re-admission after a departure, which is when indices, slots and the latch matter; in `OneToOneCall` a third participant meets the survivor of a call |
| `MaxRooms` | room objects ever made | 2 gives a room that was collected and a new one under the same room ID |
| `MaxEpoch` | attempts at a pair | 2 in the clients: one rebuilt pair, with what is left of the first; 3 in the server: a second request while the first is under way, and one after a second failure |
| `Conns`, `RoomIds` | connections, room IDs asked for | 2 or 3, and 1: rooms of different IDs share nothing but the registry map, and the proofs have any set of room IDs; 2 in `mesh_roster`, where a client that moves from one room to another can be sent what was meant for it in the first |
| `Frames` | optional kinds of frames clients send | a kind is left out of a run whose question does not depend on it: relays change no server state but the sender's phase |
| `MaxCandidates`, `Gatherers` | candidates followed | one end's are enough to have one arrive before, during and after the flush; in `mesh_pair` the null candidate that ends the gathering stands for them, as it is buffered, flushed and relayed like any other |
| `Failing` | what may fail | one pair, or one participant, whose failure meets the working rest |
| `MaxSockets`, `MaxSubmits`, `MaxJoins`, `MaxCaptures` | WebSockets, clicks, `getUserMedia` calls of a tab | 3 sockets: one closing late, one in use, one to come; 2 captures: a late answer and its successor |
| `MaxBacklog` | frames to a tab that another peer's coming and going adds | 1: the peer comes or goes at any point, and the tab handles it before it does so again |
| `MaxShares`, `MaxContexts`, `MaxCalls`, `MaxToggles` | shares, pair contexts, calls, camera clicks | 3 shares and 3 calls in the one-to-one mode: a stop that waits, the share after it, and a call after both; in the mesh two shares and a pair rebuilt under either |
| `MaxSends` | messages of an author | 2: order |

The bound on the number of clicks, admissions or attempts is in the guard of the
action that makes one, so what began can always end. Deadlock checking is off in
all runs: tabs leave and connections end, and then the system has stopped, as it
should. `SYMMETRY` over connections is used in runs of safety properties only,
and no action or property orders connections.

### Fairness

- *Servers*: weak fairness of the steps of a handler that has begun. Go's
  scheduler runs every goroutine that can run, mutexes are held for short
  sections that call nothing that blocks, and a send returns within its
  two-second timeout (`session.go:62`). In the modules of the clients also of
  reading a frame that has arrived.
- *Browsers*: weak fairness of handling a message that has arrived and of the
  continuation of an operation of an open connection: the event loop runs every
  task, and these operations are local and settle. `MeshSession` and
  `OneToOneSession` assume that `getUserMedia` is answered at last, and
  `MeshScreenShare` the same of an open picker: the user does not leave the
  prompt alone for ever. Without it nothing could be said about what ends.
- *Connections*: a WebSocket that is being opened or closed gets there. A call
  whose two ends have been through the negotiation connects or fails
  (`OneToOneCall`), and a channel whose ends are both in the attempt opens, if
  the attempt has not failed (`MeshChat`); a message in such a channel arrives.
- *No fairness* of users and of the network: nobody makes a user click, a client
  send a frame, or a connection drop. A `replaceTrack` on a closed connection
  need not settle.

## 6. What is proved

The theorems are of `Spec` (those about rosters of `RosterSpec`,
those about the chat of `ChatSpec`), for every value of the constants that satisfies the
named assumptions.

| Module | Theorem | Property | In words |
| --- | --- | --- | --- |
| `MeshServerProofs` | `Inductive` | `IInv` | the invariant the others rest on |
| | `TypeCorrect` | `TypeOK` | every variable keeps its type |
| | `SlotTable` | `SlotsMatchParticipants` | a room's two views of its members agree |
| | `IndexUniqueness` | `AdmissionIndexNeverReused` | no two admissions to a room share an index |
| | `LedgerEndpoints` | `PairIdNamesItsEndpoints` | a pair ID names its two endpoints, in order |
| | `Epochs` | `EpochDiscipline` | an epoch moves by one, out of a failure, with both ends present, and an entry never changes its endpoints or disappears |
| | `RegistryInvariant` | `RegistryInv` | what registry, second looks and latches rely on |
| | `NoGhosts` | `NoGhostParticipants` | a slot of a registered room belongs to a session that is served |
| | `RoomsCollected` | `EmptyRoomsAreCollected` | no empty room is forgotten in the registry |
| | `ReadyPairs` | `ReadyPairsRegistered` | two ready members whose evaluations are over are paired |
| | `Followed` | `FollowInv` | of everybody a roster is wrong about, its client is owed an update |
| | `RosterTypes` | `RosterTypeOK` | every variable of server and clients keeps its type |
| | `RosterShowsTheRoom` | `RosterIsTheRoom` | with no handler under way, a roster that was written in order is the room |
| `MeshCallProofs` | `Inductive` | `IInv` | the invariant the next four rest on |
| | `ShareTypeCorrect` | `ShareTypeOK` | every variable keeps its type |
| | `CaptureOwned` | `CaptureIsOwned` | in a call a captured screen is the controller's |
| | `NoneFrozen` | `NoFrozenTile` | with no share on, a pair that was there before the stop sends the camera |
| | `ReachesEveryPeer` | `ShareReachesEveryPeer` | with a share on, a pair that was there before it, or was rebuilt, sends the screen, and every peer was told |
| | `ChatInductive` | `ChatInv` | the invariant the next two rest on |
| | `ChatTypeCorrect` | `ChatTypeOK` | every variable keeps its type |
| | `ShownInOrder` | `OrderedAndOnce` | what is shown of an author is in its order, and nothing of it twice |
| | `SummaryInductive` | `CountInv` | the invariant the next one rests on |
| | `CountedUnderWay` | `CountedIsUnderWay` | what a summary counts and its reader does not show is in an open channel between two ends in the same attempt |
| `OneToOneServerProofs` | `Inductive` | `IInv` | the invariant the next four rest on |
| | `TypeCorrect` | `TypeOK` | every variable keeps its type |
| | `Pairing` | `RolesAssignedIffPaired` | roles are assigned exactly while both occupants are ready |
| | `ToldRole` | `ToldRoleIsEnforced` | the role that was told is the one that is enforced |
| | `OfferedOnce` | `OfferOncePerPairing` | whoever has offered offers again only in a new pairing |
| | `RegistryInvariant` | `RegistryInv` | as for the mesh |
| | `NoGhosts` | `NoGhostParticipants` | no slot of a registered room outlives its connection |
| | `RoomsCollected` | `EmptyRoomsAreCollected` | no empty room is forgotten in the registry |
| `MeshPairClientProofs` | `Inductive` | `IInv` | the invariant the next four rest on |
| | `TypeCorrect` | `TypeOK` | every variable keeps its type |
| | `OneLive` | `OneLiveConnection` | an attempt that was replaced leaves no connection |
| | `NoneStranded` | `NoCandidateStranded` | a candidate that was held back is added, once the description is |
| | `Implements` | `ImplementsHandshake` | the code of a pair implements the abstract handshake |
| | `EndsKeepInStep` | `InStep` | the ends of a pair are never two attempts apart, and who has completed one has a partner who took part in it |
| | `OwedInductive` | `OwedInv` | the invariant the next two rest on |
| | `RequestsUnderWay` | `RequestUnderWay` | a request that waits is yet to be read, or its answer is under way |
| | `FailuresUnderWay` | `FailureUnderWay` | a failure one end knows of, the other knows of or will be told of, unless it is told of a newer attempt |
| `MeshSessionProofs` | `Inductive` | `IInv` | the invariant the next three rest on |
| | `CameraFollows` | `CameraFollowsSession` | out of a room no camera runs but one whose acquisition was pending then |
| | `HasItsSocket` | `SessionHasItsSocket` | an admitted tab talks over the WebSocket it was admitted on |
| | `ReadyAnnounced` | `ReadyIsAnnounced` | a tab that shows itself ready has told the server, for that admission |
| `OneToOneSessionProofs` | `Inductive` | `IInv` | the invariant the next two rest on |
| | `CameraFollows` | `CameraFollowsSession` | out of a room no camera runs |
| | `HasItsSocket` | `SessionHasItsSocket` | a tab in a room talks over the WebSocket it was admitted on, or shows an error, unless it left one behind |
| `OneToOneCallProofs` | `Inductive` | `IInv` | the invariant the next three rest on |
| | `TypeCorrect` | `CallTypeOK` | every variable keeps its type |
| | `HandleInCall` | `HandleIffInCall` | a connection and its buffer are there just while the session is in a call |
| | `NoneStranded` | `NoCandidateStranded` | no candidate waits once the remote description is set, nor under a connected call |
| `OneToOneScreenShareProofs` | `ShareTypeCorrect` | `ShareTypeOK` | every variable of the screen share keeps its type |
| | `CaptureOwned` | `CaptureIsOwned` | a captured screen is the controller's, unless two pickers were open together |
| | `ToldIsSent` | `ToldWhatIsSent` | a peer was told "active" exactly when it is sent a screen, with the exceptions the property names |

**Mesh server.** None of its theorems is inductive alone. An index is new because
it is one more than the room's counter, so one has to know that every index given
out is at most its room's counter; the index of a new pair belongs to an endpoint
that was admitted into *this* room, so one has to know that a handler that is
about to evaluate refers to a peer that was admitted, and that the participants of
a room were admitted into it. `IInv` says just that:

- `WorkOK`: what a handler's local variables refer to, by where the handler is;
- `ParticipantsOK`: every peer ID given out belongs to an admission into a room,
  with an index at most the room's counter;
- `RoomsOK`: a room's participants were admitted into it, and its counter is at
  most the number of all admissions, so that indices stay in their range;
- `SessionsOK`: a session speaks for a peer that was admitted;
- `LedgerOK`: an entry's endpoints were admitted to this room with the indices
  the pair ID names.

There is one lemma per action (`JoinAcceptedStep`, `EvaluateStep`, …); they rest
on lemmas about the operators on rooms (`RoomOps`, `LedgerOps`, `NewPairFacts`)
and on frame lemmas for actions that leave parts of the state alone
(`RoomsKept`, `OutOnlyStep`, `WorkWriteStep`, `LedgerWriteStep`). `Epochs` and
`SlotTable` use a second view of a step, the lemma `RoomSteps`: every step changes
a room by at most one of the room's operations, under the operation's guard. An
action property of a room is then a case split over eight operations instead of
twenty actions.

**Registry, latches, pairings.** An empty room that stays registered, or a member
that no connection can release any more, needs two handlers that miss each other
between a critical section of the registry and one of the room, so the invariant
says what a handler may rely on between the two:

- `RegistryOK`: a room object is registered under one ID at most, and one that is
  not made yet is empty; `LooksOK`: the room a handler is about to admit into or
  to look at again is, if registered, the one its room ID names;
- `LatchOK`: a departure is begun by a session that has claimed its release or has
  nothing to release, an admission by one that speaks for nobody.

With these, `NoGhostParticipants` and `EmptyRoomsAreCollected` are inductive: who
empties a room goes on to look at it again, and the second look names the same
room. `ReadyPairsRegistered` is about two handlers that each mark one member ready
and evaluate later: `PairedOnceEvaluated` says that of two ready members the pair
is missing only while one of the two handlers has its evaluation to do. The
one-to-one server has the same registry, and its proofs the same three parts; that
a room is admitted into after it was collected is possible in both (section 7),
and is why the theorems speak of registered rooms.

**Rosters.** `RosterIsTheRoom` speaks of quiet moments only; in between a roster may
be wrong about as many participants as there are handlers under way. What holds
throughout is a debt: of everybody a client's roster is wrong about, the client is
`Owed` an update, which a handler has yet to announce (`Announces`) or has numbered
and not yet sent (`Carries`). `FollowInv` has, of each connection:

- `StepOK`: a handler that has yet to announce somebody speaks of its own
  connection's participant, who is in the room, or out of it, as it will say;
- `SendsOK`: an update under way is *still* true, however late it is sent, because
  only its subject's own handler could make it false, and it is that handler which
  is sending; and a snapshot under way is for the connection that was admitted;
- `SelfOK`: a client knows its own peer ID, which the reducer leaves out, before it
  is sent its snapshot;
- `ViewOK`: what a roster says, and what the snapshot under way to it says, is true
  of everybody but those it is owed an update of, with a number higher than the
  snapshot's.

`SectionTells` is the heart of it: a critical section that changes what is true of
somebody takes on the duty to tell it, and one that gives the duty up has put an
update for every member into its sends. `ToldView` is what the client makes of a
message, and where the two exceptions of the property are used: an update that is
not late is applied, and one that is not of another room is true of this one. The
snapshot's number matters: an update it does not contain yet has a higher one, so
applying the snapshot does not make the client drop it. The server's invariants are
used as they are (`ServerInvariant`), as every step of the composition is one of the
server.

**One-to-one server.** `RolesAssignedIffPaired` is inductive with the types and
`HandlerOK`: the participant a handler has admitted stays in its slot until its own
connection releases it. `ToldRoleIsEnforced` holds of sends that are made after
the lock is released because a role depends on the slot of the remote peer alone,
and a participant keeps its slot: `SlotsOK` ties a slot to the order its
participant was admitted with, and `RolesTold` says it of all that is in `out`.

**One-to-one calls.** `HandleIffInCall` and `DrainedInOrder` are about one tab, but
every step of the tab hangs on what it was sent: a `ready_for_offer` makes a
connection only if it names a pairing, and a candidate is no more than its number.
`MessagesOK` types all that is under way, and pairings are numbered, so a bound on
them is part of the types: `ReadyOnce` (a participant sends one `media_ready`, and
none that is still to be read once it is ready) makes the set of those who were
heard grow with every pairing (`PairingsHeard`). Most steps of a tab then go through
one lemma, `TabStep`: one tab changes and sends no `media_ready`. `DrainedInOrder`
leaves out what the remote description is: a connection that has one has its buffer
marked, which is why `Connect`, which asks both ends for theirs, finds it drained.

**A pair and its refinement.** The refinement maps an attempt that has a context
to one begun and a context with its remote description to one completed; the
abstract steps `ApplyOffer`, `ApplyAnswer` and `Issue` have guards about the
*other* end, which no code of either end looks at. That they hold is a matter
of what was on the wire:

- `ContextsOK`: an answerer that goes on with an offer has a partner that began
  the attempt, an offerer that goes on with an answer one that applied the offer,
  and a context that is not closed is the one in the end's map;
- `MessagesSound`: the same of every message, in the tab's socket, in the hands of
  a server goroutine, or on its way down;
- `FailureSound`: a pair that failed, or went on to another attempt, had been
  completed by the answerer;
- `InstructionsOK`: one `pair_negotiate` or `pair_reconnect` is on its way to an
  end at a time, of the current attempt, and only if the end has not begun it. This
  is why an end never begins an attempt twice, whatever else is delayed.

`ContinueCases` says what a continuation of any await may do to the two contexts;
the lemmas on `None`, `AtMostOne` and `Range` say what a send or a receive does to
a queue. `Implements` then has one lemma per action, most of which are stutters.
`EndsKeepInStep` proves `InStep` of the abstract handshake, and with `Implements`
of the code.
`SeatsAssumption` is that both ends can be admitted, which the capacity of 4 and
the uncapped admissions of the code give.

`NoCandidateStranded` looks like a matter of one end, which sets the flag before it
flushes its buffer. It is not: a second description of the attempt would put the
context into `setRemoteOffer` again, with the flag up and the flush broken off, and
neither handler asks whether one was applied before. `OnceInv` adds to `IInv` why
there is none:

- `Once`: the description an end makes for an attempt is in its socket, or in the
  hands of its goroutine, or in its partner's inbox, in one of them and once; it is
  nowhere before the end has made it (`Made`) nor after its partner has taken it
  up (`Taken`);
- `Tidy`: what a context says by itself, that a description is set only where none
  was applied, and that one which is being made was not sent.

Most steps only move contexts and shorten queues (`QuietStep`); the five that make,
read, pass on, take up or apply a description have lemmas of their own.

`ReconnectIsAnswered` and `FailureIsShared` are liveness properties; what fairness
cannot give them is that nothing is lost on the way. `OwedInv` says that: a request
that disables its button is in the tab's socket (`RequestUnderWay`), or an error or
the instruction of a newer attempt is in the hands of a goroutine or in the end's
inbox; a failure one end has reported is known to the other, or on its way there by
the same route (`FailureUnderWay`), or the other end will be told of a newer attempt.
Neither is inductive alone: a report of an attempt that was replaced before it was
read goes no further than the server, which loses nothing only because an end whose
attempt is replaced is being told so (`Told`); a request that was granted is answered by that
same instruction.
`FailureKnown` gives a report its completed attempt, so that it
finds the far end's context; `Present` gives a connected end its place in the room,
without which its frame would be refused and its pair not found. `Carries` says what
every step must do to each of the four places, `CarriedOn` that such a step keeps the
invariant, and there is one lemma per action.

**Pair handshake.** `InStep` is inductive with the types. What carries it are the
two conditions of the abstract actions: an answer is applied only to an offer the
other end took part in, and a new attempt is issued only when one end has been
through the last. That the code meets both is what `Implements` proves, and the run
`mesh_pair` checks on the instance.

**Mesh session.** Each of the three properties relates what one party holds to what
another did some steps ago, and none is inductive alone:

- `CameraInv`: an acquisition whose result will be used is pending only while the
  slice waits for it, or has lost its transport meanwhile; it is the only one, and
  no camera runs beside it. The generation counter of the controller is what makes
  a result late, so no pending one has a generation to come; and an unmounted tab
  has no WebSocket, which is why what it acquires late is stopped;
- `SocketInv`: the client refers to the last WebSocket it opened, which its slice
  needs as long as it joins or is admitted: a close event that clears the reference
  also takes the slice out of those states, whichever WebSocket it came from;
- `AdmissionsOK`: a peer ID belongs to the connection it was given to and is given
  out once, so an admission that the server has released is not taken for a later
  one, and a `join_accepted` names the socket it arrives on.

The announcement of `ReadyIsAnnounced` is then followed from `Sent` through the
queue of the WebSocket to the goroutine that reads it (`ToldFacts`, `ServeFacts`):
it stands until it is read, and what is read is recorded unless the participant is
gone. `BrowserStep` and `ServerStep` say what any step of either side keeps, and
there is one lemma per action. The invariant does not bound the number of
admissions by that of the clicks, which `SessionTypeOK` does: no property depends
on it, so that conjunct stays with TLC. Without the generation counter, with a lost
transport that goes unnoticed, or with a retry that announces nothing, a step of
the proof fails, as the runs' mutants do.

**One-to-one session.** The provider cancels what it waits for at every change of
the session's state, so `CameraInv` needs no generations: it waits in
`pending-media` only and holds a stream from there to the next `idle` or
`joining`. `HasSocket` is `SessionHasItsSocket` of connected calls too, which
outlive their transport and may find themselves waiting for a peer again. It holds
because every close event either reports an error or comes to a client that was
closed, which is at the form (`SocketInv`), and because a `join_accepted` arrives on
the connection it was given to (`AdmissionsOK`): if none was left behind, that is
the client's. As in the mesh, the bound on admissions in `SessionTypeOK` stays with
TLC.

**Screen share of a mesh tab.** The three properties speak of moments when nothing
is under way, the controller settled; a `start()` or a `stop()` is a loop of
awaits, between which pairs come, go and are rebuilt. `IInv` follows the loop. In
a call it has

- `ControllerOK`, `OneStart`, `OneStop`: the flags let one `start()` or one `stop()`
  go on at a time, and the controller holds its share from the picker's answer to
  the end of the stop; `Captured`: a live track is that share's, and no stop has
  begun. Hence `CaptureIsOwned`;
- `Tile(k)`, of every context `k` in the pairs map: it sends the camera if no share
  goes on and the screen if one does, as the properties say; while a `start()` goes
  on, it sends the screen *or the loop has yet to get to it*, and while a `stop()`
  does, the camera or the same. A loop that is through has nothing left, so the
  settled state gets what it should. A pair that is made or rebuilt under a loop is
  not on its list: `NewContextTile` shows that what `allocateContext` gives it is
  right by itself, or that it is one of the exceptions the properties name;
- `Told`: a peer was told what the slice is, or the defaults.

Outside of the call it says that `PairsOK`: each remote peer has an open context of
its own in the pairs map, used once. That is why a loop that skips closed contexts
skips none of a peer that is there, and why a `replaceTrack` that never settles, on
a connection closed meanwhile, is a pair's that is gone. Leaving resets the
controller under a `start()` or a `stop()` that still waits, so nothing of this is
said after it. A loop takes the first of its contexts; that there is one is the
lemma `Least`, from the well-foundedness of the naturals.

**Mesh chat.** The receiver appends what arrives and looks at no ID
(`state/chat.ts:104`), and a pair that is rebuilt has a second channel while
messages of the first may still be on their way; that the order holds all the same
is due to the channels. `ChatInv` says of what is on its way on a channel (`WireOK`):
it is in order, it is its author's, it is no newer than what the author has written,
and *if the far end still takes messages from that channel* it is newer than all
that end shows of the author. For a message that arrives this gives the order; that
it does not overtake one on another channel of the same pair is `ChannelsOK`: an end
takes messages from the channel of the attempt it is in and no other, as the
instruction of an attempt closes the context of the one before (`TornDown`, lemma
`Torn`), and what was sent to a closed channel is lost (`Delivery`). For a message
that is written it takes that the author numbers its messages (`NumbersOK`, `NewId`)
and that nothing shown or on its way is newer than its author's last (`ShownOK`).
Both are said of authors that have not left: leaving empties the slice, and the
numbers of a later admission are those of another peer.
`ChatKept` serves all steps that write and show nothing.

`CountInv` is about the summary an author keeps of each message, whose liveness
(`CountedMessagesArrive`) is TLC's: a message it counts for a peer is shown there, or
is in the channel it went out on, or an end has closed that channel. Its hard step
is a leaving reader, which forgets what it has shown: then its own end of the channel
closes, as an open one at the author means that the reader is in the same attempt.
`CountedIsUnderWay` is what fairness then has to finish: an open channel at the
author, the reader in the same attempt, and a receiver (`ReceiversOK`) by the time
the reader's end is open, as it is attached where the channel is made.

**Screen share of a one-to-one tab.** `CaptureIsOwned` alone is not inductive: a `replaceTrack` that
is refused stops the capture of the share it was for and forgets *whatever* share
the controller holds by then. The invariant adds why that share is the same one:

- `QueueInv`: a `replaceTrack` that is awaited belongs to a share in its
  `start()`, and no two belong to the same;
- `OneStart`: while no two pickers were open together there is one `start()` at
  most, the controller holds nothing while its picker is open, and nothing or that
  share while its `replaceTrack` is awaited.

`StoppedOwned` says that a `stop()`, however it ends, keeps this; `SettledByStart`
and `SettledByStop` that an awaited call does when it settles or is refused,
whichever of the calls it is. The lemma `Without` is about taking an element out
of the middle of a sequence. The exception is needed: without the guard of
`start()` on a share under way the proof fails, and so does the run.

`ToldWhatIsSent` relates the sender to what the peer was told, two things that
change in different steps and over several calls. `ToldInv` adds to `IInv`:

- `Calling`: the calls are numbered, and a `start()` keeps the one of its click, so
  that a `replaceTrack` of a closed connection can be told from one of the open one
  whatever connections come later (`Awaited`);
- `Stopping`: a `stop()` awaits one call, and after the one of its own share's
  `start()`;
- `Consistent`: while starts and stops do not meet, the sender sends a screen only
  if that share is on, was begun in this call and is the controller's, the slice
  says "active" of such a share and of none that is not on yet, and the peer was
  told what the slice says.

Its one hard case is a `stop()` of a call that has ended, refused while a later
share is on: `Stopping` and `Awaited` show that share to be another one than the
`stop()` was for, which is the exception the property makes.

**Only model-checked.** All liveness properties, as the prover has no rules for
fairness and `ENABLED` (of `ReconnectIsAnswered`, `FailureIsShared` and
`CountedMessagesArrive` the safety half is proved: what is owed is under way), and the bound on admissions in `SessionTypeOK`.

## 7. Where code and documents disagree

**`onetoone_screen_leave`, `LeavingStopsTheScreen`.** Leaving awaits the `stop()`
of the screen share; one that runs while another `stop()` waits for its
`replaceTrack` returns at once on the `stopping` latch (`screen-share.ts:209`), and
`leaveSession` closes the connection under it. The tab is idle, and the screen is
captured until that `replaceTrack` is refused, which need not happen. The spec
(001, lines 743-744) has leaving stop all local media tracks.

Five cfg files beside the runs reproduce further ones, each on a property that
states the document:

- `OneToOneCall_zombie.cfg`, `NoZombieConnection`: `handleMediaReady` sends
  `ready_for_offer` after it has released the room's lock (`media.go:67`), to the
  offerer first. If the offerer leaves at once, its goroutine can release it and
  send `peer_left` before the other's `ready_for_offer`. The other has no connection
  yet and ignores `peer_left` (`cleanup.tsx:236`); then it makes a connection to the
  peer that has gone, and waits in "connecting" until the user leaves, the WebSocket
  is lost, or a newcomer goes again, whose `ready_for_offer` it has turned down. EC-012 (001, lines 510-512) has no zombie
  connection left and the other peer back in the waiting state. This is the
  exception in `InCallDepartureEndsCall` (`Overtaken`), which otherwise holds.
- `MeshPairClient_stuck.cfg`, `AttemptIsNegotiated`: the offer of the lower index
  can overtake the higher one's own instruction (`pair_negotiation.go:107` sends
  one after the other); the answerer drops it as it has no context, and the
  attempt never gets anywhere unless one end's connection fails by itself. FR-026
  has Reconnect begin a new flow, which then does not take place; and the button
  is shown for a failed pair only, not for one that waits.
- `MeshRosterClient_moving.cfg`, `RosterIsTheRoomAfterMoving`: after
  `media_failed` a tab may ask for another room over the WebSocket it has
  (`client.ts:81`). A handler of the room it left may still hold its connection as
  a target (`roster.go:103`), and the dispatcher asks neither an update's room ID
  nor empties the roster, so the new room's roster shows a participant of the
  old one. FR-012b (002, lines 791-800) has it derived from that room's snapshot and
  updates alone.
- `MeshSession_leave.cfg`, `LeavingStopsTheCamera`: when `getUserMedia`
  is answered after the user has left, its stream is dropped without being
  stopped (`mediaAcquisition.ts:97`); FR-081 has leaving stop it.
- `OneToOneSession_rejoin.cfg`, `RejoinIsAFreshJoin`: the close of the socket
  left behind reports a transport error after Rejoin has begun
  (`client.ts:109`), so the join goes out, if at all, from a tab that is not
  joining; the data model (001, lines 586-595) has it be a fresh join.

Met while modelling the servers; the models reach each of them:

- *Orphan rooms.* `JoinOrCreate` (`mesh/room/manager.go:100`) releases the
  manager's mutex before it takes the room's. A `Release` between the two can
  empty the room and collect it; the newcomer is admitted into a room no ID names.
  The one-to-one registry has the same window.
- `participant.go:6-9` has `released` reachable only from `joined`;
  `handleMediaFailed` releases a media-ready member too, without a `peer_left`.
- The contract (002, lines 651-653) has `peer_left` only for a leaver with a pair
  connected or connecting; the code asks whether it was media-ready.
- A one-to-one departure is classified in one critical section and released in
  another (`presence.go:125`): a `media_ready` between them completes the pairing,
  and the peer that was told `ready_for_offer` is told `released`, for which it
  tears nothing down.
- A `peer_left` can also come after the `ready_for_offer` of the next pairing, if
  that of its own was still owed; the listener does not look at whom it names
  (`cleanup.tsx:230`), and tears down the new call, whose other end is told nothing.
- The data model (001, lines 180-184) has the survivor's `callPhase` drop to `idle`
  when its peer leaves; `removeParticipant` (`room.go:192`) leaves it, and the
  survivor's own departure is then announced to a newcomer as the end of a call.
- Roster updates of two handlers can be written to a client out of the order of
  their numbers (`roster.go:87`); the client drops the later one, or takes a
  snapshot older than what it has, and shows the wrong presence until the next
  change. The contract has `serverSeq` strictly greater at every client.
- The contract (002, line 699) has the server mark a leaver's pairs `closed`; no
  code assigns that state.

And the clients:

- *A WebSocket that closes late* clears the client's reference to its successor
  (`client.ts:113`, both modes), which is left open and still delivers what
  arrives. In the mesh the tab goes to `signaling-error`, and if the user joins
  again a late `join_accepted` of the socket left behind is taken for the new
  one's: the tab shows an admission that is not the one of the socket it sends
  over. This is the condition in the mesh's `SessionHasItsSocket` and
  `ReadyIsAnnounced`. In the one-to-one mode the tab itself may be admitted on a
  socket it cannot send over, the condition in that `SessionHasItsSocket`.
- *Mesh*: the pair manager is made once and keeps the room ID of the first join
  (`provider.tsx:79`), also after a join to another room.
- *Mesh chat*: a lone participant's message is not shown even to itself, as no pair
  manager has been made yet (`MeshChat.tsx:83`; FR-052a has it shown locally); the
  `close` event of an old channel can overwrite the state shown for its successor.
- *One-to-one screen*: a second click on Share while the picker is open orphans
  the first capture; a `stop()` that waited ends a share begun meanwhile and
  tells the peer it is inactive, also of a share that is on and is still in the
  sender, or before the share's own continuation says "active"; a share outlives
  Paths B and C, and the next peer is sent the camera while the button says the
  screen is shared.
- *One-to-one session*: unmounting the route leaves the socket open.

## 8. What is not modelled

- *Heartbeat*: its effect, the end of a connection at any moment, is `Disconnect`
  in the servers and `Drop` or `Lose` in the clients.
- *JSON decoding and field validation*: a frame that fails ends in `Refuse`, or is
  dropped by the client.
- *The one-to-one chat and the learning inspector*: one ordered channel of one
  connection, closed with it; and a display.
- *Microphone buttons, remote media state, cost view, event log, components*: they
  render slices that nothing reads back.
- *Configuration, logging, the origin check, routes, command-line programs, TURN
  configuration, build files*: start-up code and wiring whose results do not change
  while the system runs.

The server has no persistent state, so a crash of the server is the end of every
room and every connection, which is the initial state again.

## 9. The plan

Done: the two servers, the composition of the mesh server with its clients'
rosters, the negotiation of both modes with their servers, the sessions, the
screen shares and the mesh chat; the refinement of the pair handshake; the proofs
above. Left, most important first:

| Module | What it adds |
| --- | --- |
| `SessionLifecycle` | `wsserver` and `heartbeat`: read loop, heartbeat goroutine, cancellation, one `OnDisconnect` |
| one-to-one chat | `chat.ts` against the clean-up paths |
