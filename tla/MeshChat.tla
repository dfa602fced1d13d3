------------------------------ MODULE MeshChat ------------------------------
(***************************************************************************)
(* The group chat of a mesh room: frontend/src/modes/mesh/webrtc/          *)
(* dataChannel.ts, state/chat.ts, components/MeshChat.tsx, and the data    *)
(* channels that pair_negotiation.ts and reconnect.ts make and close.      *)
(*                                                                         *)
(* A message is sent once per pair, over the data channel of the pair's    *)
(* current attempt.  A peer is its admission index: the lower one of a     *)
(* pair is the offerer and creates the channel.  How an attempt is         *)
(* negotiated is the subject of MeshPairClient.                            *)
(***************************************************************************)
EXTENDS Naturals, Sequences, FiniteSets, SequencesExt

CONSTANTS
  Peers,       \* the admission indices of the participants
  Authors,     \* bound: the peers that write
  MaxSends,    \* bound: messages of an author
  MaxEpoch,    \* bound: attempts at a pair
  Failing      \* bound: the pairs whose attempts may fail

ASSUME PeersAssumption == Peers \subseteq Nat /\ IsFiniteSet(Peers)
ASSUME AuthorsAssumption == Authors \subseteq Peers
ASSUME ChatBoundsAssumption == MaxSends \in Nat /\ MaxEpoch \in Nat \ {0}

Epochs == 1..MaxEpoch

PairOf(x) == {x[1], x[2]}

\* The pair <<e, o>> as its end e sees it; bound: the pairs of an author.
Ends == {x \in Peers \X Peers : x[1] # x[2] /\ PairOf(x) \cap Authors # {}}
Far(x) == <<x[2], x[1]>>
Pairs == {PairOf(x) : x \in Ends}
IsOfferer(x) == x[1] < x[2]

\* A message, by its author and number; messageId is a fresh UUID.
Ids == Authors \X (1..MaxSends)
Author(id) == id[1]

VARIABLES
  session,   \* per peer: "in-room", "signaling-error" or "left"
  issued,    \* per pair: the last attempt the server has given instructions for
  failed,    \* per pair: the attempts an end has reported failed
  attempt,   \* per end: the attempt of the context in the pairs map, 0 for none
  dc,        \* per end and attempt: the readyState of ctx.dc, and its handler
  wire,      \* per end and attempt: what it sent and the far end has not got
  departed,  \* per peer: those it has been told have left
  chat       \* per peer: the chat slice

chatVars == <<session, issued, failed, attempt, dc, wire, departed, chat>>

ReadyStates == {"none", "connecting", "open", "closed"}
Channel == [readyState : ReadyStates, onmessage : BOOLEAN]
NoChannel == [readyState |-> "none", onmessage |-> FALSE]

\* The summary of a fan-out: to whom the message went, and on which attempt.
FanOut == [Peers -> 0..MaxEpoch]

InitialChat == [messages |-> <<>>, fanOut |-> <<>>]

\* Everybody is media-ready, and the instructions are on their way.
ChatInit ==
  /\ session = [p \in Peers |-> "in-room"]
  /\ issued = [q \in Pairs |-> 1]
  /\ failed = [q \in Pairs |-> {}]
  /\ attempt = [x \in Ends |-> 0]
  /\ dc = [x \in Ends |-> [k \in Epochs |-> NoChannel]]
  /\ wire = [x \in Ends |-> [k \in Epochs |-> <<>>]]
  /\ departed = [p \in Peers |-> {}]
  /\ chat = [p \in Peers |-> InitialChat]

-----------------------------------------------------------------------------
(* The channels. *)

\* Variant of Wired with a bug: only the answerer's channel gets a receiver.
WiredOnAnswerer(x, state) == [readyState |-> state, onmessage |-> ~ IsOfferer(x)]

\* wireDataChannelLifecycle, as soon as the reference exists.
Wired(x, state) == [readyState |-> state, onmessage |-> TRUE]

\* Variant of TornDown with a bug: the channel is left as it is.
TornDownKeepingChannel(xs) == dc

\* dc.close() and pc.close(), of the contexts at the ends xs.
TornDown(xs) ==
  [x \in Ends |-> IF x \in xs /\ attempt[x] # 0
                  THEN [dc[x] EXCEPT ![attempt[x]].readyState = "closed"]
                  ELSE dc[x]]

\* Nothing on its way to a closed channel arrives.
Undelivered == [x \in Ends |-> [k \in Epochs |->
  IF dc'[Far(x)][k].readyState = "closed" THEN <<>> ELSE wire[x][k]]]

\* The instruction of an attempt: the old context is torn down, and the
\* offerer creates the channel before its offer.  It may come after the far
\* end has gone, and then nothing answers.
Begin(x) ==
  LET k == issued[PairOf(x)]
  IN /\ session[x[1]] = "in-room" /\ attempt[x] < k /\ dc[x][k] = NoChannel
     /\ attempt' = [attempt EXCEPT ![x] = k]
     /\ dc' = [TornDown({x}) EXCEPT
          ![x][k] = IF IsOfferer(x) THEN Wired(x, "connecting") ELSE NoChannel]
     /\ wire' = Undelivered
     /\ UNCHANGED <<session, issued, failed, departed, chat>>

\* Both ends are at attempt k, and it works.
Connected(x, k) ==
  /\ k # 0 /\ attempt[x] = k /\ attempt[Far(x)] = k
  /\ k \notin failed[PairOf(x)]

ChannelOpens(x) ==
  LET k == attempt[x]
  IN /\ Connected(x, k) /\ dc[x][k].readyState = "connecting"
     /\ dc' = [dc EXCEPT ![x][k].readyState = "open"]
     /\ UNCHANGED <<session, issued, failed, attempt, wire, departed, chat>>

\* ondatachannel: the first channel is kept.
DataChannelArrives(x) ==
  LET k == attempt[x]
  IN /\ Connected(x, k) /\ ~ IsOfferer(x) /\ dc[x][k].readyState = "none"
     /\ dc' = [dc EXCEPT ![x][k] = Wired(x, "open")]
     /\ UNCHANGED <<session, issued, failed, attempt, wire, departed, chat>>

\* The far end has closed, or the connection fails.
ChannelCloses(x) ==
  \E k \in Epochs :
    /\ dc[x][k].readyState \in {"connecting", "open"}
    /\ dc[Far(x)][k].readyState = "closed" \/ k \in failed[PairOf(x)]
    /\ dc' = [dc EXCEPT ![x][k].readyState = "closed"]
    /\ wire' = Undelivered
    /\ UNCHANGED <<session, issued, failed, attempt, departed, chat>>

\* An end reports its attempt failed (connectionState); its channel may well
\* be open still, and messages may still arrive.
Fail(x) ==
  LET k == attempt[x]
  IN /\ PairOf(x) \in Failing   \* bound
     /\ Connected(x, k)
     /\ failed' = [failed EXCEPT ![PairOf(x)] = @ \cup {k}]
     /\ UNCHANGED <<session, issued, attempt, dc, wire, departed, chat>>

\* The server answers a click on Reconnect with a new attempt.
Reconnect(q) ==
  /\ issued[q] \in failed[q] /\ issued[q] < MaxEpoch   \* bound
  /\ \A p \in q : session[p] = "in-room"
  /\ issued' = [issued EXCEPT ![q] = @ + 1]
  /\ UNCHANGED <<session, failed, attempt, dc, wire, departed, chat>>

-----------------------------------------------------------------------------
(* Messages. *)

\* The channel of the pair in the map is open.
ChannelOpen(x) == attempt[x] # 0 /\ dc[x][attempt[x]].readyState = "open"

\* listChatPairs, whatever the state of their channels.
ChatPairs(p) == {o \in Peers : <<p, o>> \in Ends /\ attempt[<<p, o>>] # 0}

SentTo(p) == {o \in ChatPairs(p) : ChannelOpen(<<p, o>>)}

\* What fanOutMeshChat returns as succeeded; the other chat pairs are skipped.
FannedOut(p) == [o \in Peers |-> IF o \in SentTo(p) THEN attempt[<<p, o>>] ELSE 0]

\* The provider makes its pair manager with the first pair.
HasPairManager(p) ==
  \E x \in Ends : x[1] = p /\ (attempt[x] # 0 \/ \E k \in Epochs : dc[x][k] # NoChannel)

NextId(p) == <<p, Cardinality(DOMAIN chat[p].fanOut) + 1>>

\* MESH_CHAT_LOCAL_APPENDED: the summary of a message joins the others.
Recorded(summaries, id, summary) ==
  [m \in DOMAIN summaries \cup {id} |-> IF m = id THEN summary ELSE summaries[m]]

\* handleSubmit, of a valid draft: fanOutMeshChat, then the local echo.
\* Without a pair manager nothing happens.
Submit(p) ==
  LET id == NextId(p)
  IN /\ id \in Ids   \* bound
     /\ session[p] = "in-room" /\ HasPairManager(p)
     /\ wire' = [x \in Ends |->
          IF x[1] = p /\ x[2] \in SentTo(p)
          THEN [wire[x] EXCEPT ![attempt[x]] = Append(@, id)] ELSE wire[x]]
     /\ chat' = [chat EXCEPT ![p] = [messages |-> Append(@.messages, id),
                                     fanOut |-> Recorded(@.fanOut, id, FannedOut(p))]]
     /\ UNCHANGED <<session, issued, failed, attempt, dc, departed>>

\* dc.onmessage at the far end of x: MESH_CHAT_INBOUND_APPENDED, in arrival
\* order and with no look at the ID.
Arrive(x, k) ==
  LET y == Far(x)
  IN /\ wire[x][k] # <<>> /\ dc[y][k].readyState = "open"
     /\ wire' = [wire EXCEPT ![x][k] = Tail(@)]
     /\ chat' = IF dc[y][k].onmessage
                THEN [chat EXCEPT ![y[1]].messages = Append(@, Head(wire[x][k]))]
                ELSE chat
     /\ UNCHANGED <<session, issued, failed, attempt, dc, departed>>

-----------------------------------------------------------------------------
(* The end of a session. *)

\* closeAll, and closePairByRemotePeerId.
ClosePairs(xs) ==
  /\ attempt' = [x \in Ends |-> IF x \in xs THEN 0 ELSE attempt[x]]
  /\ dc' = TornDown(xs)
  /\ wire' = Undelivered

\* leavePath.run.
LeaveRoom(p) ==
  /\ session[p] # "left"
  /\ \A o \in Peers \ {p} : session[o] = "in-room"   \* bound: one peer goes
  /\ session' = [session EXCEPT ![p] = "left"]
  /\ ClosePairs({x \in Ends : x[1] = p})
  /\ chat' = [chat EXCEPT ![p] = InitialChat]
  /\ UNCHANGED <<issued, failed, departed>>

\* The WebSocket is lost (EC-012): the pairs carry on, the input is disabled.
LoseSignaling(p) ==
  /\ \A o \in Peers : session[o] = "in-room"   \* bound: one peer goes
  /\ session' = [session EXCEPT ![p] = "signaling-error"]
  /\ UNCHANGED <<issued, failed, attempt, dc, wire, departed, chat>>

\* mesh_roster_update "left", and peer_left.
PeerLeft(p, o) ==
  /\ session[p] = "in-room" /\ session[o] # "in-room"
  /\ <<p, o>> \in Ends /\ o \notin departed[p]
  /\ departed' = [departed EXCEPT ![p] = @ \cup {o}]
  /\ ClosePairs({<<p, o>>})
  /\ UNCHANGED <<session, issued, failed, chat>>

-----------------------------------------------------------------------------
ChatNext ==
  \/ \E x \in Ends :
       \/ Begin(x) \/ ChannelOpens(x) \/ DataChannelArrives(x)
       \/ ChannelCloses(x) \/ Fail(x)
       \/ \E k \in Epochs : Arrive(x, k)
  \/ \E q \in Pairs : Reconnect(q)
  \/ \E p \in Peers : Submit(p) \/ LeaveRoom(p) \/ LoseSignaling(p)
  \/ \E p, o \in Peers : PeerLeft(p, o)

ChatSpec == ChatInit /\ [][ChatNext]_chatVars

\* Instructions are handled, and a connection that works opens its channel and
\* delivers what was sent on it; one that has failed need not.
ChatFairSpec ==
  ChatSpec /\ \A x \in Ends :
    /\ WF_chatVars(Begin(x)) /\ WF_chatVars(ChannelOpens(x))
    /\ WF_chatVars(DataChannelArrives(x))
    /\ \A k \in Epochs : WF_chatVars(k \notin failed[PairOf(x)] /\ Arrive(x, k))

-----------------------------------------------------------------------------
(* Properties. *)

\* Type correctness.
ChatTypeOK ==
  /\ session \in [Peers -> {"in-room", "signaling-error", "left"}]
  /\ issued \in [Pairs -> Epochs]
  /\ failed \in [Pairs -> SUBSET Epochs]
  /\ attempt \in [Ends -> 0..MaxEpoch]
  /\ dc \in [Ends -> [Epochs -> Channel]]
  /\ departed \in [Peers -> SUBSET Peers]
  /\ \A p \in Peers : \A id \in DOMAIN chat[p].fanOut :
       id \in Ids /\ chat[p].fanOut[id] \in FanOut

Shown(p, id) == Contains(chat[p].messages, id)

\* FR-055, FR-052a: what anybody shows of one author is in the order it was
\* written, and nothing of it twice, also when the pair was rebuilt in
\* between and a message of the old channel was still on its way.
OrderedAndOnce ==
  \A p \in Peers : \A i, j \in DOMAIN chat[p].messages :
    LET a == chat[p].messages[i]  b == chat[p].messages[j]
    IN i < j /\ Author(a) = Author(b) => a[2] < b[2]

\* The summary says delivered to p, p does not show it, and the attempt it
\* went out on has neither failed nor been closed.
OnItsWay(p, id) ==
  LET a == Author(id)
  IN /\ id \in DOMAIN chat[a].fanOut /\ ~ Shown(p, id)
     /\ LET k == chat[a].fanOut[id][p]
        IN /\ k # 0 /\ k \notin failed[{p, a}]
           /\ \A x \in {<<p, a>>, <<a, p>>} : dc[x][k].readyState # "closed"

\* What the summary calls delivered gets there, unless the attempt it went
\* out on fails or is closed first (FR-052).
CountedMessagesArrive ==
  \A p \in Peers, id \in Ids :
    p # Author(id) => (OnItsWay(p, id) ~> ~ OnItsWay(p, id))

=============================================================================
