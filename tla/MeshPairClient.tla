--------------------------- MODULE MeshPairClient ---------------------------
(***************************************************************************)
(* One pair of a mesh room, at both its ends: the browser code that        *)
(* negotiates it (frontend/src/modes/mesh/webrtc: pair_negotiation,        *)
(* pair_trickle, reconnect, pair-manager, iceBuffer), the dispatcher and   *)
(* the pairs slice it goes through, and the server that relays for it,     *)
(* with one goroutine per connection and the room of module MeshRoom.      *)
(*                                                                         *)
(* Peer 1 has the lower admission index and offers, peer 2 answers.        *)
(***************************************************************************)
EXTENDS MeshRoom, Sequences

CONSTANTS
  MaxEpoch,        \* bound: attempts at the pair
  MaxCandidates,   \* bound: ICE candidates an end gathers in an attempt
  Gatherers        \* bound: the ends whose candidates are followed

ASSUME MaxEpochAssumption == MaxEpoch \in Nat \ {0}
ASSUME MaxCandidatesAssumption == MaxCandidates \in Nat
ASSUME GatherersAssumption == Gatherers \subseteq {1, 2}
\* The room has seats for the two ends, and has admitted both.
ASSUME SeatsAssumption == MaxSlots >= 2 /\ MaxPeers >= 2

Ends == {1, 2}
Offerer == 1
Answerer == 2
Epochs == 1..MaxEpoch
PairId == <<1, 2>>
Other(e) == 3 - e

\* The null candidate: end of candidates.
EndOfCandidates == 0
Candidates == 0..MaxCandidates

VARIABLES
  room,    \* the room, as the server holds it
  conn,    \* per end: "open", "dropped" (lost), or "left" (closed by Leave)
  frames,  \* per end: what it sent and its goroutine has not read, in order
  sends,   \* per end: the sends its goroutine still owes, in order
  inbox,   \* per end: what its browser has received and not handled
  ctx,     \* per end and epoch: the PairContext, which continuations keep
           \* a reference to after it left the map
  pairs,   \* per end: the epoch of the context in the pairs map, 0 for none
  view     \* per end: the pair in the React store

vars == <<room, conn, frames, sends, inbox, ctx, pairs, view>>
server == <<room, sends>>
browsers == <<inbox, ctx, pairs, view>>

PairContextStates ==
  {"none", "new", "creating-offer", "have-local-offer", "have-remote-offer",
   "creating-answer", "have-local-answer", "have-remote-answer", "stable",
   "failed", "closed"}

\* The await at which the negotiation of a context is suspended.
Awaits == {"nothing", "createOffer", "setLocalOffer", "setRemoteOffer",
           "flush", "createAnswer", "setLocalAnswer", "setRemoteAnswer"}

PairContext ==
  [state : PairContextStates, await : Awaits,
   signaling : {"stable", "have-local-offer", "have-remote-offer"},
   failing : BOOLEAN,              \* connectionState is "failed"
   remoteDescriptionApplied : BOOLEAN, failedReported : BOOLEAN,
   reconnectRequested : BOOLEAN,
   iceBuffer : Seq(Candidates),    \* remote candidates held back
   added : Seq(Candidates),        \* remote candidates given to the connection
   gathered : 0..MaxCandidates, endOfLocalCandidatesSent : BOOLEAN]

NoContext ==
  [state |-> "none", await |-> "nothing", signaling |-> "stable",
   failing |-> FALSE, remoteDescriptionApplied |-> FALSE,
   failedReported |-> FALSE, reconnectRequested |-> FALSE, iceBuffer |-> <<>>,
   added |-> <<>>, gathered |-> 0, endOfLocalCandidatesSent |-> FALSE]

NoView == [epoch |-> 0, failed |-> FALSE, reconnectRequested |-> FALSE]

Frame(type, k) == [type |-> type, epoch |-> k]
CandidateFrame(k, cand) ==
  [type |-> "pair_ice_candidate", epoch |-> k, candidate |-> cand]
To(e, msg) == [to |-> e, msg |-> msg]

Instructions(type, k) ==
  <<To(Offerer, Frame(type, k)), To(Answerer, Frame(type, k))>>

\* Both peers are media-ready and one of their goroutines has registered the
\* pair; it is about to send the instructions.
Init ==
  /\ room = Register(Admit(Admit(NewRoom, 1, 1), 2, 2),
                     [id \in {PairId} |-> PairPairing(Offerer, Answerer)])
  /\ conn = [e \in Ends |-> "open"]
  /\ frames = [e \in Ends |-> <<>>]
  /\ \E g \in Ends :
       sends = [e \in Ends |-> IF e = g
                 THEN Instructions("pair_negotiation_instruction", 1) ELSE <<>>]
  /\ inbox = [e \in Ends |-> <<>>]
  /\ ctx = [e \in Ends |-> [k \in Epochs |-> NoContext]]
  /\ pairs = [e \in Ends |-> 0]
  /\ view = [e \in Ends |-> NoView]

-----------------------------------------------------------------------------
(***************************************************************************)
(* The server: each goroutine reads a frame, does its critical section and *)
(* then makes its sends, one at a time, before it reads on.                *)
(***************************************************************************)
Epoch == room.pairs[PairId].epoch

\* A frame about the pair goes on to the other end, if it is of the current
\* attempt; an error for a stale one names no pair, and its sender only logs it.
Relay(e, f) ==
  IF f.epoch = Epoch /\ Other(e) \in room.participants
  THEN <<To(Other(e), f)>> ELSE <<>>

\* An error that names the pair.
Refuse(e) == <<To(e, [type |-> "error"])>>

ReadRelayed(e, f) ==
  /\ f.type \in {"pair_offer", "pair_answer", "pair_ice_candidate"}
  /\ sends' = [sends EXCEPT ![e] = Relay(e, f)]
  /\ UNCHANGED room

\* Variant of ReadPairFailed with a bug: the other end is not told.
ReadPairFailedUnrelayed(e, f) ==
  /\ f.type = "pair_failed"
  /\ room' = IF f.epoch = Epoch THEN MarkFailed(room, PairId) ELSE room
  /\ UNCHANGED sends

ReadPairFailed(e, f) ==
  /\ f.type = "pair_failed"
  /\ room' = IF f.epoch = Epoch THEN MarkFailed(room, PairId) ELSE room
  /\ sends' = [sends EXCEPT ![e] = Relay(e, f)]

MayReconnect(f) ==
  /\ f.epoch = Epoch
  /\ room.pairs[PairId].state = "failed"
  /\ Ends \subseteq room.participants

\* Variant of ReadReconnectPair with a bug: only the other end is instructed.
ReadReconnectPairTellingOther(e, f) ==
  /\ f.type = "reconnect_pair"
  /\ IF MayReconnect(f)
     THEN /\ Epoch < MaxEpoch   \* bound
          /\ room' = Increment(room, PairId)
          /\ sends' = [sends EXCEPT ![e] =
               <<To(Other(e), Frame("pair_reconnect_instruction", Epoch + 1))>>]
     ELSE /\ sends' = [sends EXCEPT ![e] = Refuse(e)]
          /\ UNCHANGED room

ReadReconnectPair(e, f) ==
  /\ f.type = "reconnect_pair"
  /\ IF MayReconnect(f)
     THEN /\ Epoch < MaxEpoch   \* bound
          /\ room' = Increment(room, PairId)
          /\ sends' = [sends EXCEPT ![e] =
                         Instructions("pair_reconnect_instruction", Epoch + 1)]
     ELSE /\ sends' = [sends EXCEPT ![e] = Refuse(e)]
          /\ UNCHANGED room

\* leave_room, or the connection's end: the roster update and peer_left.
ReadEnd(e, f) ==
  /\ f.type = "leave_room"
  /\ room' = Release(room, e)
  /\ sends' = [sends EXCEPT ![e] =
       IF Other(e) \in room.participants
       THEN <<To(Other(e), Frame("left", 0)), To(Other(e), Frame("left", 0))>>
       ELSE <<>>]

Read(e) ==
  /\ sends[e] = <<>> /\ frames[e] # <<>>
  /\ LET f == Head(frames[e])
     IN \/ ReadRelayed(e, f) \/ ReadPairFailed(e, f)
        \/ ReadReconnectPair(e, f) \/ ReadEnd(e, f)
  /\ frames' = [frames EXCEPT ![e] = Tail(@)]
  /\ UNCHANGED <<conn, browsers>>

\* One send; it is lost when the connection it goes to is closed.
Send(e) ==
  /\ sends[e] # <<>>
  /\ LET s == Head(sends[e])
     IN inbox' = IF conn[s.to] = "open"
                 THEN [inbox EXCEPT ![s.to] = Append(@, s.msg)] ELSE inbox
  /\ sends' = [sends EXCEPT ![e] = Tail(@)]
  /\ UNCHANGED <<room, conn, frames, ctx, pairs, view>>

-----------------------------------------------------------------------------
(***************************************************************************)
(* The browser.  deps.send throws unless the socket is open; a handler     *)
(* that the exception ends has nothing left to do but log.                 *)
(***************************************************************************)
Emit(e, f) ==
  frames' = IF conn[e] = "open" THEN [frames EXCEPT ![e] = Append(@, f)]
            ELSE frames

Patch(e, k, c) == ctx' = [ctx EXCEPT ![e][k] = c]

\* Variant of NewContext with a bug: the rebuilt context takes over what the
\* last one had applied.
NewContextKeepingFlags(e) ==
  [IF e = Offerer
   THEN [NoContext EXCEPT !.state = "creating-offer", !.await = "createOffer"]
   ELSE [NoContext EXCEPT !.state = "new"]
   EXCEPT !.remoteDescriptionApplied =
     pairs[e] # 0 /\ ctx[e][pairs[e]].remoteDescriptionApplied]

\* allocateContext: the offerer goes on to createOffer.
NewContext(e) ==
  IF e = Offerer
  THEN [NoContext EXCEPT !.state = "creating-offer", !.await = "createOffer"]
  ELSE [NoContext EXCEPT !.state = "new"]

\* A closed connection resolves nothing any more.
Closed(c) ==
  [c EXCEPT !.state = "closed", !.await = "nothing", !.iceBuffer = <<>>]

\* MESH_PAIR_REMOVED, if the pair was there, and MESH_PAIR_REGISTERED.
Allocate(e, k) ==
  /\ ctx' = [ctx EXCEPT ![e][k] = NewContext(e)]
  /\ pairs' = [pairs EXCEPT ![e] = k]
  /\ view' = [view EXCEPT ![e] = [NoView EXCEPT !.epoch = k]]

\* closeAll and closePairByRemotePeerId, of the only pair there is.
ClosePair(e) ==
  /\ ctx' = [ctx EXCEPT ![e] = [k \in Epochs |->
               IF k = pairs[e] THEN Closed(@[k]) ELSE @[k]]]
  /\ pairs' = [pairs EXCEPT ![e] = 0]
  /\ view' = [view EXCEPT ![e] = NoView]

\* An instruction for a pair in the map is a duplicate, or is turned down.
HandleNegotiationInstruction(e, m) ==
  /\ m.type = "pair_negotiation_instruction"
  /\ IF pairs[e] = 0 THEN Allocate(e, m.epoch)
     ELSE UNCHANGED <<ctx, pairs, view>>

\* Variant of HandleReconnectInstruction with a bug: the old context is left
\* as it is.
HandleReconnectKeepingOld(e, m) ==
  /\ m.type = "pair_reconnect_instruction"
  /\ IF m.epoch > pairs[e] THEN Allocate(e, m.epoch)
     ELSE UNCHANGED <<ctx, pairs, view>>

\* The pair's context is torn down and rebuilt, unless it is as new already.
HandleReconnectInstruction(e, m) ==
  /\ m.type = "pair_reconnect_instruction"
  /\ IF m.epoch > pairs[e]
     THEN /\ ctx' = [ctx EXCEPT ![e] = [k \in Epochs |->
                       IF k = m.epoch THEN NewContext(e)
                       ELSE IF k = pairs[e] THEN Closed(@[k]) ELSE @[k]]]
          /\ pairs' = [pairs EXCEPT ![e] = m.epoch]
          /\ view' = [view EXCEPT ![e] = [NoView EXCEPT !.epoch = m.epoch]]
     ELSE UNCHANGED <<ctx, pairs, view>>

\* The message is about the context in the map.
Current(e, m) == pairs[e] # 0 /\ m.epoch = pairs[e]

HandlePairOffer(e, m) ==
  /\ m.type = "pair_offer"
  /\ IF Current(e, m)
     THEN ctx' = [ctx EXCEPT ![e][pairs[e]].state = "have-remote-offer",
                             ![e][pairs[e]].await = "setRemoteOffer"]
     ELSE UNCHANGED ctx
  /\ UNCHANGED <<pairs, view>>

HandlePairAnswer(e, m) ==
  /\ m.type = "pair_answer"
  /\ IF Current(e, m)
     THEN ctx' = [ctx EXCEPT ![e][pairs[e]].state = "have-remote-answer",
                             ![e][pairs[e]].await = "setRemoteAnswer"]
     ELSE UNCHANGED ctx
  /\ UNCHANGED <<pairs, view>>

\* Held back until the remote description is applied, and added at once after.
HandlePairIceCandidate(e, m) ==
  /\ m.type = "pair_ice_candidate"
  /\ ctx' =
       IF ~ Current(e, m) THEN ctx
       ELSE IF ctx[e][pairs[e]].remoteDescriptionApplied
       THEN [ctx EXCEPT ![e][pairs[e]].added = Append(@, m.candidate)]
       ELSE [ctx EXCEPT ![e][pairs[e]].iceBuffer = Append(@, m.candidate)]
  /\ UNCHANGED <<pairs, view>>

HandlePairFailed(e, m) ==
  /\ m.type = "pair_failed"
  /\ IF Current(e, m)
     THEN /\ ctx' = [ctx EXCEPT ![e][pairs[e]].state = "failed",
                                ![e][pairs[e]].failedReported = TRUE]
          /\ view' = [view EXCEPT ![e].failed = TRUE]
     ELSE UNCHANGED <<ctx, view>>
  /\ UNCHANGED pairs

\* An error that names the pair clears its reconnect request.
ClearReconnectRequested(e, m) ==
  /\ m.type = "error"
  /\ IF pairs[e] # 0
     THEN /\ ctx' = [ctx EXCEPT ![e][pairs[e]].reconnectRequested = FALSE]
          /\ view' = [view EXCEPT ![e].reconnectRequested = FALSE]
     ELSE UNCHANGED <<ctx, view>>
  /\ UNCHANGED pairs

\* mesh_roster_update "left" and peer_left.
HandleLeft(e, m) == m.type = "left" /\ ClosePair(e)

\* dispatchValidated, for the messages about the pair.
Receive(e) ==
  /\ inbox[e] # <<>>
  /\ LET m == Head(inbox[e])
     IN \/ HandleNegotiationInstruction(e, m) \/ HandleReconnectInstruction(e, m)
        \/ HandlePairOffer(e, m) \/ HandlePairAnswer(e, m)
        \/ HandlePairIceCandidate(e, m) \/ HandlePairFailed(e, m)
        \/ ClearReconnectRequested(e, m) \/ HandleLeft(e, m)
  /\ inbox' = [inbox EXCEPT ![e] = Tail(@)]
  /\ UNCHANGED <<server, conn, frames>>

-----------------------------------------------------------------------------
(***************************************************************************)
(* The continuations of a negotiation.  None of them looks at whether the  *)
(* pair was marked failed meanwhile.                                       *)
(***************************************************************************)
\* After an await, with what the code does up to the next one.
Continuation(e, k) == UNCHANGED <<server, conn, inbox, pairs, view>>

Awaiting(e, k, op) == ctx[e][k].await = op

CreatedOffer(e, k) ==
  /\ Awaiting(e, k, "createOffer")
  /\ Patch(e, k, [ctx[e][k] EXCEPT !.await = "setLocalOffer"])
  /\ UNCHANGED frames

SetLocalOffer(e, k) ==
  /\ Awaiting(e, k, "setLocalOffer")
  /\ Patch(e, k, [ctx[e][k] EXCEPT !.await = "nothing",
                    !.state = "have-local-offer", !.signaling = "have-local-offer"])
  /\ Emit(e, Frame("pair_offer", k))

\* What follows the flush: the answerer creates its answer; the offerer is
\* stable, as its connection is.
AfterFlush(e, c) ==
  IF e = Answerer
  THEN [c EXCEPT !.state = "creating-answer", !.await = "createAnswer"]
  ELSE [c EXCEPT !.state = "stable", !.await = "nothing"]

\* Variant of BeginFlush with a bug: only one end drains its buffer.
BeginFlushOffererForgets(e, c) ==
  IF c.iceBuffer = <<>> \/ e = Offerer THEN AfterFlush(e, c)
  ELSE [c EXCEPT !.await = "flush"]

\* flushIceBuffer returns at once when there is nothing to flush.
BeginFlush(e, c) ==
  IF c.iceBuffer = <<>> THEN AfterFlush(e, c) ELSE [c EXCEPT !.await = "flush"]

SetRemoteOffer(e, k) ==
  /\ Awaiting(e, k, "setRemoteOffer")
  /\ Patch(e, k, BeginFlush(e, [ctx[e][k] EXCEPT !.signaling = "have-remote-offer",
                                  !.remoteDescriptionApplied = TRUE]))
  /\ UNCHANGED frames

SetRemoteAnswer(e, k) ==
  /\ Awaiting(e, k, "setRemoteAnswer")
  /\ Patch(e, k, BeginFlush(e, [ctx[e][k] EXCEPT !.signaling = "stable",
                                  !.state = "stable",   \* onsignalingstatechange
                                  !.remoteDescriptionApplied = TRUE]))
  /\ UNCHANGED frames

\* The candidate shifted off the buffer is added; a live one may have been
\* added before it.
Flush(e, k) ==
  LET c == [ctx[e][k] EXCEPT !.added = Append(@, Head(ctx[e][k].iceBuffer)),
                             !.iceBuffer = Tail(@)]
  IN /\ Awaiting(e, k, "flush")
     /\ Patch(e, k, BeginFlush(e, c))
     /\ UNCHANGED frames

CreatedAnswer(e, k) ==
  /\ Awaiting(e, k, "createAnswer")
  /\ Patch(e, k, [ctx[e][k] EXCEPT !.await = "setLocalAnswer"])
  /\ UNCHANGED frames

\* The signaling state event sets "stable", the continuation overwrites it.
SetLocalAnswer(e, k) ==
  /\ Awaiting(e, k, "setLocalAnswer")
  /\ Patch(e, k, [ctx[e][k] EXCEPT !.await = "nothing",
                    !.state = "have-local-answer", !.signaling = "stable"])
  /\ Emit(e, Frame("pair_answer", k))

Continue(e, k) ==
  /\ \/ CreatedOffer(e, k) \/ SetLocalOffer(e, k)
     \/ SetRemoteOffer(e, k) \/ SetRemoteAnswer(e, k) \/ Flush(e, k)
     \/ CreatedAnswer(e, k) \/ SetLocalAnswer(e, k)
  /\ Continuation(e, k)

-----------------------------------------------------------------------------
(* Events of the connection, clicks, and the end of the session. *)

Negotiated(c) == c.signaling = "stable" /\ c.remoteDescriptionApplied

\* The local description is set.
Gathering(c) == c.signaling = "have-local-offer" \/ Negotiated(c)

\* onicecandidate, the last time with null; the latch is set before the send.
GatherCandidate(e, k) ==
  LET c == ctx[e][k]
  IN /\ e \in Gatherers   \* bound
     /\ pairs[e] = k /\ Gathering(c) /\ ~ c.endOfLocalCandidatesSent
     /\ IF c.gathered < MaxCandidates
        THEN /\ Patch(e, k, [c EXCEPT !.gathered = @ + 1])
             /\ Emit(e, CandidateFrame(k, c.gathered + 1))
        ELSE /\ Patch(e, k, [c EXCEPT !.endOfLocalCandidatesSent = TRUE])
             /\ Emit(e, CandidateFrame(k, EndOfCandidates))
     /\ UNCHANGED <<server, conn, inbox, pairs, view>>

\* connectionState becomes "failed"; reported unless the other end was first.
ConnectionFails(e, k) ==
  LET c == ctx[e][k]
  IN /\ pairs[e] = k /\ Negotiated(c) /\ ~ c.failing
     /\ view' = [view EXCEPT ![e].failed = TRUE]
     /\ IF c.failedReported
        THEN Patch(e, k, [c EXCEPT !.failing = TRUE]) /\ UNCHANGED frames
        ELSE /\ Patch(e, k, [c EXCEPT !.failing = TRUE, !.failedReported = TRUE,
                                      !.state = "failed"])
             /\ Emit(e, Frame("pair_failed", k))
     /\ UNCHANGED <<server, conn, inbox, pairs>>

\* The Reconnect button is there while the view says failed and no request is
\* out.  When the send fails the request is taken back.
ReconnectPair(e) ==
  LET k == pairs[e]
  IN /\ k # 0 /\ k < MaxEpoch   \* bound
     /\ view[e].failed /\ ~ view[e].reconnectRequested
     /\ ctx[e][k].state = "failed" /\ ~ ctx[e][k].reconnectRequested
     /\ conn[e] = "open"
     /\ ctx' = [ctx EXCEPT ![e][k].reconnectRequested = TRUE]
     /\ view' = [view EXCEPT ![e].reconnectRequested = TRUE]
     /\ Emit(e, Frame("reconnect_pair", k))
     /\ UNCHANGED <<server, conn, inbox, pairs>>

\* leavePath: the pair is closed after leave_room was sent.
Leave(e) ==
  /\ conn = [x \in Ends |-> "open"]   \* bound: one end goes
  /\ Emit(e, Frame("leave_room", 0))
  /\ ClosePair(e)
  /\ conn' = [conn EXCEPT ![e] = "left"]
  /\ inbox' = [inbox EXCEPT ![e] = <<>>]
  /\ UNCHANGED server

\* The WebSocket is lost: the pairs keep running, what was under way is lost,
\* and the goroutine sees the end of the connection after what did arrive.
Drop(e) ==
  /\ conn = [x \in Ends |-> "open"]   \* bound: one end goes
  /\ conn' = [conn EXCEPT ![e] = "dropped"]
  /\ \E n \in 0..Len(frames[e]) :
       frames' = [frames EXCEPT ![e] =
                    Append(SubSeq(@, 1, n), Frame("leave_room", 0))]
  /\ inbox' = [inbox EXCEPT ![e] = <<>>]
  /\ UNCHANGED <<server, ctx, pairs, view>>

-----------------------------------------------------------------------------
Progress(e) ==
  \/ Read(e) \/ Send(e) \/ Receive(e)
  \/ \E k \in Epochs : Continue(e, k) \/ GatherCandidate(e, k)

Next ==
  \E e \in Ends :
    \/ Progress(e)
    \/ \E k \in Epochs : ConnectionFails(e, k)
    \/ ReconnectPair(e) \/ Leave(e) \/ Drop(e)

Spec == Init /\ [][Next]_vars

\* The goroutines and the browsers' event loops run, and every operation of a
\* connection that is not closed ends; nobody has to click, fail or leave.
FairSpec ==
  Spec /\ \A e \in Ends : WF_vars(Read(e)) /\ WF_vars(Send(e))
                          /\ WF_vars(Receive(e))
                          /\ \A k \in Epochs : WF_vars(Continue(e, k))

-----------------------------------------------------------------------------
(* Properties. *)

\* Type correctness.
TypeOK ==
  /\ room \in Room
  /\ conn \in [Ends -> {"open", "dropped", "left"}]
  /\ ctx \in [Ends -> [Epochs -> PairContext]]
  /\ pairs \in [Ends -> 0..MaxEpoch]
  /\ view \in [Ends -> [epoch : 0..MaxEpoch, failed : BOOLEAN,
                        reconnectRequested : BOOLEAN]]

\* What PairHandshake speaks of: the attempt begun last, and the last one
\* whose remote description was applied, at each end.
Begun(e) == {k \in Epochs : ctx[e][k].state # "none"}
AppliedIn(e) == {k \in Epochs : ctx[e][k].remoteDescriptionApplied}
Last(ks) == IF ks = {} THEN 0 ELSE CHOOSE k \in ks : \A j \in ks : j <= k

Handshake ==
  INSTANCE PairHandshake WITH
    issued  <- Epoch,
    attempt <- [e \in Ends |-> Last(Begun(e))],
    applied <- [e \in Ends |-> Last(AppliedIn(e))]

\* The client and the server together implement the abstract handshake:
\* however messages and awaits interleave, a description is applied only in
\* the attempt it was made for (FR-021a).
ImplementsHandshake == Handshake!Spec

\* The contexts an end has not closed: only the one in its map, so a rebuilt
\* pair leaks no connection of an old attempt (reconnect.ts).
OneLiveConnection ==
  \A e \in Ends, k \in Epochs :
    ctx[e][k].state \notin {"none", "closed"} => pairs[e] = k

\* Once a description is applied and its flush is over, no candidate waits in
\* the buffer, where nothing would ever add it (pair_negotiation.ts, the flag
\* is set before the flush).
NoCandidateStranded ==
  \A e \in Ends, k \in Epochs :
    /\ ctx[e][k].remoteDescriptionApplied
    /\ ctx[e][k].await # "flush"
    => ctx[e][k].iceBuffer = <<>>

\* A click on Reconnect is answered, by a new attempt or by an error that
\* names the pair, whoever else clicks, fails or leaves: the button does not
\* stay disabled (reconnect.ts), unless the connection is lost.
ReconnectIsAnswered ==
  \A e \in Ends : view[e].reconnectRequested
                  ~> (~ view[e].reconnectRequested \/ conn[e] # "open")

\* A failure one end has reported is known to the other, or the pair has been
\* rebuilt or given up there, in the end (FR-025, pair_failed).
FailureIsShared ==
  \A e \in Ends, k \in Epochs :
    LET f == Other(e)
    IN (ctx[e][k].failedReported /\ pairs[f] = k)
         ~> (\/ ctx[f][k].failedReported \/ pairs[f] # k
             \/ \E x \in Ends : conn[x] # "open")

\* FR-026: activating Reconnect begins "a new offer/answer/ICE flow", which
\* then takes place: an attempt both ends have begun is negotiated at both,
\* unless it fails, is superseded or an end goes.
AttemptIsNegotiated ==
  \A k \in Epochs :
    (\A e \in Ends : pairs[e] = k)
      ~> (\E e \in Ends : \/ pairs[e] # k \/ conn[e] # "open"
                          \/ ctx[e][k].failedReported)
         \/ (\A e \in Ends : Negotiated(ctx[e][k]))

=============================================================================
