---------------------------- MODULE OneToOneCall ----------------------------
(***************************************************************************)
(* The calls of a one-to-one room: the browser code of every participant   *)
(* from its media_ready on (frontend/src/modes/one-to-one/webrtc:          *)
(* negotiation, trickle, ice-buffer, peer-connection, cleanup, and the     *)
(* session slice), and the server that pairs them, one goroutine per       *)
(* connection.                                                             *)
(*                                                                         *)
(* A participant is one stay in the room: a page that leaves and joins     *)
(* again comes back as another, with all its references reset.             *)
(***************************************************************************)
EXTENDS Naturals, Sequences, FiniteSets

CONSTANTS
  MaxPeers,       \* bound: participants who come to the room, in turn
  MaxCandidates,  \* bound: ICE candidates a connection gathers
  Gatherers,      \* bound: the participants whose candidates are followed
  Failing         \* bound: the participants whose connections may fail

ASSUME BoundsAssumption ==
  /\ MaxPeers \in Nat \ {0} /\ MaxCandidates \in Nat
  /\ Gatherers \subseteq 1..MaxPeers
  /\ Failing \subseteq 1..MaxPeers

Peers == 1..MaxPeers
Slots == 1..2

VARIABLES
  member,    \* per participant: what the server holds of it
  stage,     \* per participant: where its goroutine stands
  pairings,  \* pairings the server has made so far
  sends,     \* per participant: the sends its goroutine still owes, in order
  frames,    \* per participant: sent and not yet read by its goroutine
  inbox,     \* per participant: received and not yet handled
  net,       \* per participant: its WebSocket
  session,   \* per participant: the state of the session slice
  handle,    \* per participant: the PeerConnectionHandle, if any
  buffer,    \* per participant: the IceBuffer, if any
  missed     \* history: pairings one of whose messages was turned down, or that
             \* had a description of theirs and another's mixed up

server == <<member, stage, pairings, sends>>
tab == <<session, handle, buffer>>
vars == <<server, frames, inbox, net, tab, missed>>

\* A handle is made once per pairing, so that names it.
Description == [owner : Peers, pairing : 1..MaxPeers]
NoDescription == [owner |-> 0, pairing |-> 0]

Operation == [op : {"createOffer", "applyOffer", "applyAnswer"},
              remote : Description \cup {NoDescription}]

\* remote: the description applied last; ops: operations under way, in the
\* order of the connection's chain; draining: what markRemoteDescriptionSet
\* still has to apply, <<>> when it does not run; answer: an answer is to be
\* sent after the drain.
Handle ==
  [pairing : 1..MaxPeers, role : {"offerer", "answerer"}, peer : Peers,
   signaling : {"stable", "have-local-offer"}, local : BOOLEAN,
   remote : Description \cup {NoDescription}, ops : Seq(Operation),
   draining : Seq(1..MaxCandidates), answer : BOOLEAN,
   connection : {"new", "connected"}, gathered : 0..MaxCandidates]
NoHandle == [pairing |-> 0]

Buffer == [set : BOOLEAN, pending : Seq(1..MaxCandidates)]
NoBuffer == [set |-> FALSE, pending |-> <<0>>]

\* The session states from the admission on; "left": idle again.
Sessions == {"idle", "pending-media", "waiting-for-peer", "connecting",
             "connected", "failed", "left"}
InCallSessions == {"connecting", "connected"}

Member == [slot : {0} \cup Slots, ready : BOOLEAN,
           phase : {"idle", "role-assigned", "negotiating"}]
NoMember == [slot |-> 0, ready |-> FALSE, phase |-> "idle"]

HasHandle(p) == handle[p].pairing # 0

\* Type correctness.
CallTypeOK ==
  /\ member \in [Peers -> Member]
  /\ stage \in [Peers -> {"serving", "release", "release-in-call", "gone"}]
  /\ pairings \in 0..MaxPeers
  /\ net \in [Peers -> {"none", "open", "lost", "closed"}]
  /\ session \in [Peers -> Sessions]
  /\ \A p \in Peers : HasHandle(p) => handle[p] \in Handle
  /\ \A p \in Peers : buffer[p] \in Buffer \cup {NoBuffer}
  /\ missed \subseteq 1..MaxPeers

Init ==
  /\ member = [p \in Peers |-> NoMember]
  /\ stage = [p \in Peers |-> "serving"]
  /\ pairings = 0
  /\ sends = [p \in Peers |-> <<>>]
  /\ frames = [p \in Peers |-> <<>>]
  /\ inbox = [p \in Peers |-> <<>>]
  /\ net = [p \in Peers |-> "none"]
  /\ session = [p \in Peers |-> "idle"]
  /\ handle = [p \in Peers |-> NoHandle]
  /\ buffer = [p \in Peers |-> NoBuffer]
  /\ missed = {}

-----------------------------------------------------------------------------
(***************************************************************************)
(* The server: a goroutine reads a frame, does its critical section, and   *)
(* makes its sends one at a time before it reads on.                       *)
(***************************************************************************)
Occupants == {p \in Peers : member[p].slot # 0}
Others(p) == Occupants \ {p}
InCall(p) == member[p].phase # "idle"

To(p, msg) == [to |-> p, msg |-> msg]

AssignedRole(p) ==
  IF \A q \in Others(p) : member[p].slot < member[q].slot
  THEN "offerer" ELSE "answerer"

\* The lowest free slot.
NextSlot ==
  IF \E p \in Peers : member[p].slot = 1 THEN 2 ELSE 1

\* The admission, up to the join_accepted that makes the tab pending-media.
Join(p) ==
  /\ net[p] = "none" /\ \A q \in Peers : q < p => net[q] # "none"
  /\ Cardinality(Occupants) < 2
  /\ member' = [member EXCEPT ![p].slot = NextSlot]
  /\ net' = [net EXCEPT ![p] = "open"]
  /\ session' = [session EXCEPT ![p] = "pending-media"]
  /\ UNCHANGED <<stage, pairings, sends, frames, inbox, handle, buffer, missed>>

ReadyForOffer(p, q, n) ==
  To(p, [type |-> "ready_for_offer", role |-> AssignedRole(p), peer |-> q,
         pairing |-> n])

\* handleMediaReady: with another ready occupant there is a pairing, and the
\* offerer is told first.
ReadMediaReady(p, f) ==
  /\ f.type = "media_ready"
  /\ LET pair == {q \in Others(p) : member[q].ready}
         n == pairings + 1
     IN IF pair = {}
        THEN /\ member' = [member EXCEPT ![p].ready = TRUE]
             /\ UNCHANGED <<pairings, sends>>
        ELSE \E q \in pair :
          /\ member' = [x \in Peers |-> IF x \in {p, q}
               THEN [member[x] EXCEPT !.ready = TRUE, !.phase = "role-assigned"]
               ELSE member[x]]
          /\ pairings' = n
          /\ sends' = [sends EXCEPT ![p] =
               IF AssignedRole(p) = "offerer"
               THEN <<ReadyForOffer(p, q, n), ReadyForOffer(q, p, n)>>
               ELSE <<ReadyForOffer(q, p, n), ReadyForOffer(p, q, n)>>]
  /\ UNCHANGED <<stage, missed>>

\* CanSendOffer, CanSendAnswer and CanSendIceCandidate.
CanSend(p, type) ==
  /\ member[p].ready
  /\ CASE type = "offer" -> /\ AssignedRole(p) = "offerer"
                            /\ member[p].phase = "role-assigned"
       [] type = "answer" -> AssignedRole(p) = "answerer" /\ InCall(p)
       [] type = "ice_candidate" -> InCall(p)

Relayed == {"offer", "answer", "ice_candidate"}

\* A relayed frame goes to whoever holds the other slot by then.
ReadRelayed(p, f) ==
  /\ f.type \in Relayed
  /\ IF CanSend(p, f.type) /\ Others(p) # {}
     THEN /\ sends' = [sends EXCEPT ![p] = <<To(CHOOSE q \in Others(p) : TRUE, f)>>]
          /\ member' = [member EXCEPT ![p].phase =
               IF f.type \in {"offer", "answer"} THEN "negotiating" ELSE @]
          /\ UNCHANGED missed
     ELSE /\ missed' = IF f.type = "ice_candidate" THEN missed
                       ELSE missed \cup {f.from.pairing}
          /\ UNCHANGED <<sends, member>>
  /\ UNCHANGED <<stage, pairings>>

\* leave_room, or the connection's end: the departure is classified in one
\* critical section and the slot released in the next.
ReadEnd(p, f) ==
  /\ f.type = "end"
  /\ stage' = [stage EXCEPT ![p] = IF InCall(p) THEN "release-in-call" ELSE "release"]
  /\ UNCHANGED <<member, pairings, sends, missed>>

Read(p) ==
  /\ stage[p] = "serving" /\ sends[p] = <<>> /\ frames[p] # <<>>
  /\ LET f == Head(frames[p])
     IN ReadMediaReady(p, f) \/ ReadRelayed(p, f) \/ ReadEnd(p, f)
  /\ frames' = [frames EXCEPT ![p] = Tail(@)]
  /\ UNCHANGED <<inbox, net, tab>>

\* The phase of the occupant that stays is as it was.
Release(p) ==
  /\ stage[p] \in {"release", "release-in-call"}
  /\ member' = [member EXCEPT ![p] = NoMember]
  /\ stage' = [stage EXCEPT ![p] = "gone"]
  /\ sends' = [sends EXCEPT ![p] =
       IF stage[p] = "release-in-call" /\ Others(p) # {}
       THEN <<To(CHOOSE q \in Others(p) : TRUE, [type |-> "peer_left", peer |-> p])>>
       ELSE <<>>]
  /\ UNCHANGED <<pairings, frames, inbox, net, tab, missed>>

\* A send on a connection that is closed is lost.
Send(p) ==
  /\ sends[p] # <<>>
  /\ LET s == Head(sends[p])
     IN inbox' = IF net[s.to] = "open"
                 THEN [inbox EXCEPT ![s.to] = Append(@, s.msg)] ELSE inbox
  /\ sends' = [sends EXCEPT ![p] = Tail(@)]
  /\ UNCHANGED <<member, stage, pairings, frames, net, tab, missed>>

-----------------------------------------------------------------------------
(***************************************************************************)
(* The browser.  A handler or a continuation runs without interruption,    *)
(* and the store is as it left it when the next one begins.                *)
(***************************************************************************)
Emit(p, f) ==
  frames' = IF net[p] = "open" THEN [frames EXCEPT ![p] = Append(@, f)]
            ELSE frames

\* teardownPeerConnection; the operations of a closed connection never end.
Teardown(p) ==
  /\ handle' = [handle EXCEPT ![p] = NoHandle]
  /\ buffer' = [buffer EXCEPT ![p] = NoBuffer]

\* getUserMedia has succeeded: media_ready, then MEDIA_READY_SENT.
MediaReadySent(p) ==
  /\ session[p] = "pending-media"
  /\ session' = [session EXCEPT ![p] = "waiting-for-peer"]
  /\ Emit(p, [type |-> "media_ready"])
  /\ UNCHANGED <<server, inbox, net, handle, buffer, missed>>

NewHandle(m) ==
  [pairing |-> m.pairing, role |-> m.role, peer |-> m.peer,
   signaling |-> "stable", local |-> FALSE, remote |-> NoDescription,
   ops |-> IF m.role = "offerer"
           THEN <<[op |-> "createOffer", remote |-> NoDescription]>> ELSE <<>>,
   draining |-> <<>>, answer |-> FALSE, connection |-> "new", gathered |-> 0]

MayStart(p) == session[p] = "waiting-for-peer" /\ ~ HasHandle(p)

\* Turned down while there is a connection, or out of waiting-for-peer.
HandleReadyForOffer(p, m) ==
  /\ m.type = "ready_for_offer"
  /\ IF MayStart(p)
     THEN /\ session' = [session EXCEPT ![p] = "connecting"]
          /\ handle' = [handle EXCEPT ![p] = NewHandle(m)]
          /\ buffer' = [buffer EXCEPT ![p] = [set |-> FALSE, pending |-> <<>>]]
          /\ UNCHANGED missed
     ELSE /\ missed' = missed \cup {m.pairing}
          /\ UNCHANGED tab

\* An offer or an answer that finds no handle of the other role is ignored;
\* nothing tells the pairing it was made for, so that one of another pairing
\* is applied all the same, to the detriment of both.
HandleDescription(p, m) ==
  /\ m.type \in {"offer", "answer"}
  /\ LET role == IF m.type = "offer" THEN "answerer" ELSE "offerer"
         op == IF m.type = "offer" THEN "applyOffer" ELSE "applyAnswer"
     IN IF HasHandle(p) /\ handle[p].role = role
        THEN /\ handle' = [handle EXCEPT ![p].ops =
                  Append(@, [op |-> op, remote |-> m.from])]
             /\ missed' = IF m.from.pairing = handle[p].pairing THEN missed
                          ELSE missed \cup {m.from.pairing, handle[p].pairing}
        ELSE /\ missed' = missed \cup {m.from.pairing}
             /\ UNCHANGED handle
  /\ UNCHANGED <<session, buffer>>

\* IceBuffer.add: held back until the remote description is set; after that
\* it is given to the connection, which keeps no record here.
HandleIceCandidate(p, m) ==
  /\ m.type = "ice_candidate"
  /\ buffer' = IF HasHandle(p) /\ ~ buffer[p].set
               THEN [buffer EXCEPT ![p].pending = Append(@, m.candidate)]
               ELSE buffer
  /\ UNCHANGED <<session, handle, missed>>

\* Variant of HandlePeerLeft with a bug: the connection is left open.
HandlePeerLeftKeepingHandle(p, m) ==
  /\ m.type = "peer_left"
  /\ session' = [session EXCEPT ![p] =
       IF @ \in InCallSessions THEN "waiting-for-peer" ELSE @]
  /\ UNCHANGED <<handle, buffer, missed>>

\* Variant of HandlePeerLeft with a bug: only a connected call is given up.
HandlePeerLeftConnected(p, m) ==
  /\ m.type = "peer_left"
  /\ IF session[p] = "connected"
     THEN Teardown(p) /\ session' = [session EXCEPT ![p] = "waiting-for-peer"]
     ELSE UNCHANGED tab
  /\ UNCHANGED missed

\* Path B.
HandlePeerLeft(p, m) ==
  /\ m.type = "peer_left"
  /\ IF HasHandle(p)
     THEN /\ Teardown(p)
          /\ session' = [session EXCEPT ![p] =
               IF @ \in InCallSessions THEN "waiting-for-peer" ELSE @]
     ELSE UNCHANGED tab
  /\ UNCHANGED missed

Receive(p) ==
  /\ inbox[p] # <<>>
  /\ LET m == Head(inbox[p])
     IN \/ HandleReadyForOffer(p, m) \/ HandleDescription(p, m)
        \/ HandleIceCandidate(p, m) \/ HandlePeerLeft(p, m)
  /\ inbox' = [inbox EXCEPT ![p] = Tail(@)]
  /\ UNCHANGED <<server, frames, net>>

-----------------------------------------------------------------------------
(* The continuations of the operations of a connection. *)

Signal(p, type) == Emit(p, [type |-> type,
                            from |-> [owner |-> p, pairing |-> handle[p].pairing]])

\* Variant of Marked with a bug: what was held back is not drained.
MarkedNotDraining(p, h) ==
  /\ handle' = [handle EXCEPT ![p] = h]
  /\ buffer' = [buffer EXCEPT ![p].set = TRUE]
  /\ IF h.role = "answerer" THEN Signal(p, "answer") ELSE UNCHANGED frames

\* Variant of Marked with a bug: a drain makes the answer be forgotten.
MarkedNotAnswering(p, h) ==
  /\ handle' = [handle EXCEPT ![p] = [h EXCEPT !.draining = buffer[p].pending]]
  /\ buffer' = [buffer EXCEPT ![p] = [set |-> TRUE, pending |-> <<>>]]
  /\ IF h.role = "answerer" /\ buffer[p].pending = <<>>
     THEN Signal(p, "answer") ELSE UNCHANGED frames

\* markRemoteDescriptionSet, and then, if an answer is due, sendAnswer.
Marked(p, h) ==
  IF buffer[p].set \/ buffer[p].pending = <<>>
  THEN /\ handle' = [handle EXCEPT ![p] = h]
       /\ buffer' = [buffer EXCEPT ![p].set = TRUE]
       /\ IF h.role = "answerer" THEN Signal(p, "answer") ELSE UNCHANGED frames
  ELSE /\ handle' = [handle EXCEPT ![p] = [h EXCEPT !.draining = buffer[p].pending,
                                             !.answer = h.role = "answerer"]]
       /\ buffer' = [buffer EXCEPT ![p] = [set |-> TRUE, pending |-> <<>>]]
       /\ UNCHANGED frames

\* The operation at the head of the chain ends.
Settle(p) ==
  /\ HasHandle(p) /\ handle[p].ops # <<>>
  /\ LET o == Head(handle[p].ops)
         h == [handle[p] EXCEPT !.ops = Tail(@)]
     IN \/ /\ o.op = "createOffer"
           /\ handle' = [handle EXCEPT ![p] =
                [h EXCEPT !.signaling = "have-local-offer", !.local = TRUE]]
           /\ Signal(p, "offer") /\ UNCHANGED buffer
        \/ /\ o.op = "applyOffer"
           /\ Marked(p, [h EXCEPT !.remote = o.remote, !.local = TRUE])
        \/ /\ o.op = "applyAnswer" /\ h.signaling = "have-local-offer"
           /\ Marked(p, [h EXCEPT !.remote = o.remote, !.signaling = "stable"])
        \/ \* setRemoteDescription rejects an answer nobody waits for
           /\ o.op = "applyAnswer" /\ h.signaling = "stable"
           /\ handle' = [handle EXCEPT ![p] = h]
           /\ UNCHANGED <<frames, buffer>>
  /\ UNCHANGED <<server, inbox, net, session, missed>>

\* One candidate of the drain has been added.
Drain(p) ==
  /\ HasHandle(p) /\ handle[p].draining # <<>>
  /\ LET h == [handle[p] EXCEPT !.draining = Tail(@)]
     IN IF h.draining = <<>> /\ h.answer
        THEN /\ handle' = [handle EXCEPT ![p] = [h EXCEPT !.answer = FALSE]]
             /\ Signal(p, "answer")
        ELSE /\ handle' = [handle EXCEPT ![p] = h]
             /\ UNCHANGED frames
  /\ UNCHANGED <<server, inbox, net, session, buffer, missed>>

\* onicecandidate; the description it belongs to has been set.  The null of
\* the end is ignored by whoever receives it.
GatherCandidate(p) ==
  /\ p \in Gatherers   \* bound
  /\ HasHandle(p)
  /\ handle[p].local /\ handle[p].gathered < MaxCandidates
  /\ handle' = [handle EXCEPT ![p].gathered = @ + 1]
  /\ Emit(p, [type |-> "ice_candidate", candidate |-> handle[p].gathered + 1])
  /\ UNCHANGED <<server, inbox, net, session, buffer, missed>>

\* p has negotiated, and with q.
Negotiated(p) ==
  HasHandle(p) /\ handle[p].signaling = "stable" /\ handle[p].remote # NoDescription

HasDescriptionOf(p, q) ==
  /\ Negotiated(p) /\ HasHandle(q)
  /\ handle[p].remote = [owner |-> q, pairing |-> handle[q].pairing]

\* connectionState "connected": each end has the other's description.
Connect(p) ==
  /\ HasHandle(p) /\ handle[p].connection = "new"
  /\ \E q \in Peers : HasDescriptionOf(p, q) /\ HasDescriptionOf(q, p)
  /\ handle' = [handle EXCEPT ![p].connection = "connected"]
  /\ session' = [session EXCEPT ![p] = IF @ = "connecting" THEN "connected" ELSE @]
  /\ UNCHANGED <<server, frames, inbox, net, buffer, missed>>

\* connectionState "failed", Path C: the WebSocket and the tracks stay.
Fail(p) ==
  /\ p \in Failing   \* bound
  /\ Negotiated(p) /\ session[p] \in InCallSessions
  /\ session' = [session EXCEPT ![p] = "failed"]
  /\ Teardown(p)
  /\ UNCHANGED <<server, frames, inbox, net, missed>>

\* Path A, once the stop of the screen share that it awaits has returned, which
\* OneToOneScreenShare has as a step of its own: teardown, leave_room where it
\* may be sent, and the close, which the server takes as an end in any case.
Leave(p) ==
  /\ session[p] \notin {"idle", "left"}
  /\ Teardown(p)
  /\ Emit(p, [type |-> "end"])
  /\ net' = [net EXCEPT ![p] = "closed"]
  /\ inbox' = [inbox EXCEPT ![p] = <<>>]
  /\ session' = [session EXCEPT ![p] = "left"]
  /\ UNCHANGED <<server, missed>>

\* The WebSocket is lost: what was under way may be too, and the goroutine
\* sees the end after what did arrive.
Drop(p) ==
  /\ p \in Failing   \* bound
  /\ net[p] = "open"
  /\ net' = [net EXCEPT ![p] = "lost"]
  /\ \E n \in 0..Len(frames[p]) :
       frames' = [frames EXCEPT ![p] =
                    Append(SubSeq(@, 1, n), [type |-> "end"])]
  /\ inbox' = [inbox EXCEPT ![p] = <<>>]
  /\ UNCHANGED <<server, tab, missed>>

\* The transport change of a lost WebSocket: before the call is connected the
\* session fails, a connected call goes on.
TransportError(p) ==
  /\ net[p] = "lost"
  /\ net' = [net EXCEPT ![p] = "closed"]
  /\ IF session[p] \in {"pending-media", "waiting-for-peer", "connecting"}
     THEN session' = [session EXCEPT ![p] = "failed"] /\ Teardown(p)
     ELSE UNCHANGED tab
  /\ UNCHANGED <<server, frames, inbox, missed>>

-----------------------------------------------------------------------------
Served(p) == Read(p) \/ Release(p) \/ Send(p)

Browser(p) == Receive(p) \/ Settle(p) \/ Drain(p) \/ TransportError(p)

Next ==
  \E p \in Peers :
    \/ Served(p) \/ Browser(p)
    \/ Join(p) \/ MediaReadySent(p) \/ GatherCandidate(p) \/ Connect(p)
    \/ Fail(p) \/ Leave(p) \/ Drop(p)

Spec == Init /\ [][Next]_vars

\* The goroutines and the event loops run, and the operations of a connection
\* that is not closed end; two ends that have each other's description
\* connect or fail.  Nobody has to join, leave or fail.
FairSpec ==
  Spec /\ \A p \in Peers :
            /\ WF_vars(Served(p))
            /\ WF_vars(Receive(p)) /\ WF_vars(Settle(p) \/ Drain(p))
            /\ WF_vars(TransportError(p)) /\ WF_vars(Connect(p))

-----------------------------------------------------------------------------
(* Properties. *)

\* The connection, its candidate buffer and the session slice go together
\* through all four clean-up paths (cleanup.tsx, negotiation.ts Path C): a tab
\* holds a connection just while its session is in a call.
HandleIffInCall ==
  \A p \in Peers :
    /\ HasHandle(p) <=> session[p] \in InCallSessions
    /\ HasHandle(p) <=> buffer[p] # NoBuffer

\* A candidate that waits in the buffer waits for a remote description still
\* to come: none is left there by the drain (ice-buffer.ts).
NoCandidateStranded ==
  \A p \in Peers :
    HasHandle(p) /\ (buffer[p].set \/ handle[p].connection = "connected") =>
      buffer[p].pending = <<>>

\* Two tabs that have each a connection for the same pairing get to the call,
\* or one of them gives it up, unless a message of that pairing was turned
\* down, or a description of it or for it was applied to a connection of another:
\* no interleaving of offers, answers, candidates and departures loses the
\* negotiation otherwise.
Paired(p, q) ==
  /\ HasHandle(p) /\ HasHandle(q)
  /\ handle[p].pairing = handle[q].pairing

NegotiationConcludes ==
  \A p \in Peers : \A q \in (p + 1)..MaxPeers :
    Paired(p, q) ~> (\/ ~ Paired(p, q)
                     \/ session[p] = "connected" /\ session[q] = "connected"
                     \/ handle[p].pairing \in missed
                     \/ \E x \in {p, q} : net[x] # "open")

InCallWith(q, p) == HasHandle(q) /\ handle[q].peer = p /\ net[q] = "open"

\* The server has yet to send q a message of that type about p.
Owes(q, type, p) ==
  \E x \in Peers : \E i \in DOMAIN sends[x] :
    LET s == sends[x][i]
    IN s.to = q /\ s.msg.type = type /\ s.msg.peer = p

\* The peer_left of p has overtaken the ready_for_offer that pairs q with p.
Overtaken(q, p) ==
  stage[p] = "gone" /\ ~ Owes(q, "peer_left", p) /\ Owes(q, "ready_for_offer", p)

\* When one end of a pairing goes and the server classifies it as in-call, the
\* other end is out of its call with it for good (EC-008, EC-009), also if it
\* has yet to begin it, with one exception: the departure is announced before
\* the pairing is (media.go, presence.go), and ignored as there is nothing to
\* tear down (cleanup.tsx).
InCallDepartureEndsCall ==
  \A p \in Peers : \A q \in Peers \ {p} :
    stage[p] = "release-in-call" ~> ([] ~ InCallWith(q, p)) \/ Overtaken(q, p)

\* What the specification says of a participant who leaves during the
\* negotiation (EC-012): no connection to it is left at the other end.  The
\* exception above violates it.
NoZombieConnection ==
  \A p \in Peers : \A q \in Peers \ {p} :
    <> InCallWith(p, q) /\ <> (session[p] = "left") => <>[] ~ InCallWith(q, p)

=============================================================================
