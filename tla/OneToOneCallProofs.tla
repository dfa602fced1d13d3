------------------------- MODULE OneToOneCallProofs -------------------------
(***************************************************************************)
(* Proofs about the calls of a one-to-one room, for every number of        *)
(* participants, candidates and failures.  IInv is the inductive           *)
(* invariant: the types, the messages under way, that a participant is     *)
(* ready once and that no more pairings are made than participants became  *)
(* ready, and what ties a connection to its buffer and to the session.     *)
(***************************************************************************)
EXTENDS OneToOneCall, FiniteSetTheorems, TLAPS

Signals == [type : {"offer", "answer"}, from : Description]
Candidates == [type : {"ice_candidate"}, candidate : 1..MaxCandidates]

\* What a tab sends to its goroutine, and a goroutine to a tab.
Frame == [type : {"media_ready", "end"}] \cup Signals \cup Candidates
ToTab ==
  [type : {"ready_for_offer"}, role : {"offerer", "answerer"}, peer : Peers,
   pairing : 1..MaxPeers]
    \cup Signals \cup Candidates \cup [type : {"peer_left"}, peer : Peers]

MessagesOK ==
  /\ sends \in [Peers -> Seq([to : Peers, msg : ToTab])]
  /\ frames \in [Peers -> Seq(Frame)]
  /\ inbox \in [Peers -> Seq(ToTab)]

\* What CallTypeOK leaves unsaid: handle and buffer are functions.
TabTypeOK ==
  /\ handle \in [Peers -> Handle \cup {NoHandle}]
  /\ buffer \in [Peers -> Buffer \cup {NoBuffer}]

\* Who has been heard: its media_ready has been read, or it is gone.
Heard == {p \in Peers : member[p].ready \/ stage[p] = "gone"}

\* A participant sends one media_ready, and none after it was heard.
Quiet(s) == \A i \in 1..Len(s) : s[i].type # "media_ready"

Once(s) ==
  \A i, j \in 1..Len(s) :
    s[i].type = "media_ready" /\ s[j].type = "media_ready" => i = j

ReadyOnce ==
  \A p \in Peers :
    /\ net[p] = "none" <=> session[p] = "idle"
    /\ session[p] \in {"idle", "pending-media"} => ~ member[p].ready
    /\ session[p] \in {"idle", "pending-media"} \/ member[p].ready => Quiet(frames[p])
    /\ Once(frames[p])

\* Every pairing has made one more participant ready.
PairingsHeard == pairings <= Cardinality(Heard)

\* The remote description, the buffer's mark and the connection in order.
DrainedInOrder ==
  \A p \in Peers : HasHandle(p) =>
    /\ handle[p].connection = "connected" => buffer[p].set
    /\ handle[p].remote # NoDescription => buffer[p].set
    /\ buffer[p].set => buffer[p].pending = <<>>

TInv == CallTypeOK /\ TabTypeOK /\ MessagesOK /\ ReadyOnce /\ PairingsHeard

IInv == TInv /\ HandleIffInCall /\ DrainedInOrder

-----------------------------------------------------------------------------
(* The operators. *)

\* A buffer in use is told from none, and so is a connection.
LEMMA InUse ==
  /\ NoBuffer \notin Buffer
  /\ NoHandle \notin Handle
  /\ \A h \in Handle : h.pairing # 0
<1>1. NoBuffer \notin Buffer
  <2> SUFFICES ASSUME NoBuffer \in Buffer
               PROVE  FALSE
    OBVIOUS
  <2>1. <<0>> \in Seq(1..MaxCandidates)
    BY DEF NoBuffer, Buffer
  <2>2. <<0>>[1] \in 1..MaxCandidates
    BY <2>1
  <2> QED
    BY <2>2, BoundsAssumption
<1>2. \A h \in Handle : h.pairing # 0
  BY BoundsAssumption DEF Handle
<1> QED
  BY <1>1, <1>2 DEF NoHandle

\* A queue read from, and written to.
LEMMA HeadTail ==
  ASSUME NEW S, NEW q \in Seq(S), q # <<>>
  PROVE  Head(q) \in S /\ Tail(q) \in Seq(S)
OBVIOUS

LEMMA OneMore ==
  ASSUME NEW S, NEW q \in Seq(S), NEW e \in S
  PROVE  Append(q, e) \in Seq(S)
OBVIOUS

\* A frame that is not media_ready, sent or read, keeps a queue quiet.
LEMMA QueueQuiet ==
  ASSUME NEW s \in Seq(Frame), NEW f \in Frame
  PROVE  /\ f.type # "media_ready" /\ Quiet(s) => Quiet(Append(s, f))
         /\ s # <<>> /\ Quiet(s) => Quiet(Tail(s))
         /\ \A n \in 0..Len(s) : Quiet(s) => Quiet(SubSeq(s, 1, n))
  BY DEF Quiet

LEMMA QueueOnce ==
  ASSUME NEW s \in Seq(Frame), NEW f \in Frame
  PROVE  /\ f.type # "media_ready" /\ Once(s) => Once(Append(s, f))
         /\ Quiet(s) => Once(Append(s, f))
         /\ s # <<>> /\ Once(s) => Once(Tail(s))
         /\ s # <<>> /\ Once(s) /\ Head(s).type = "media_ready" => Quiet(Tail(s))
         /\ \A n \in 0..Len(s) : Once(s) => Once(SubSeq(s, 1, n))
<1>1. f.type # "media_ready" /\ Once(s) => Once(Append(s, f))
  BY DEF Once
<1>2. Quiet(s) => Once(Append(s, f))
  BY DEF Once, Quiet
<1>3. s # <<>> /\ Once(s) => Once(Tail(s))
  BY DEF Once
<1>4. s # <<>> /\ Once(s) /\ Head(s).type = "media_ready" => Quiet(Tail(s))
  BY DEF Once, Quiet
<1>5. \A n \in 0..Len(s) : Once(s) => Once(SubSeq(s, 1, n))
  BY DEF Once
<1> QED
  BY <1>1, <1>2, <1>3, <1>4, <1>5

\* The types of the frames, one by one.
LEMMA FrameTypes ==
  /\ [type |-> "media_ready"] \in Frame
  /\ [type |-> "end"] \in Frame
  /\ \A t \in {"offer", "answer"}, d \in Description :
       [type |-> t, from |-> d] \in Frame
  /\ \A n \in 1..MaxCandidates : [type |-> "ice_candidate", candidate |-> n] \in Frame
  /\ \A f \in Frame : f.type \in Relayed => f \in ToTab
  /\ \A f \in Frame \cup ToTab :
       f.type \in {"offer", "answer"} => f.from \in Description
  /\ \A f \in Frame \cup ToTab :
       f.type = "ice_candidate" => f.candidate \in 1..MaxCandidates
<1>1. \A f \in Signals : f.type \in {"offer", "answer"} /\ f.from \in Description
  BY DEF Signals
<1>2. \A f \in Candidates :
        f.type = "ice_candidate" /\ f.candidate \in 1..MaxCandidates
  BY DEF Candidates
<1>3. \A f \in [type : {"media_ready", "end"}] : f.type \in {"media_ready", "end"}
  OBVIOUS
<1>4. \A f \in [type : {"ready_for_offer"}, role : {"offerer", "answerer"},
                peer : Peers, pairing : 1..MaxPeers]
                 \cup [type : {"peer_left"}, peer : Peers] :
        f.type \in {"ready_for_offer", "peer_left"}
  OBVIOUS
<1>5. /\ [type |-> "media_ready"] \in Frame
      /\ [type |-> "end"] \in Frame
  BY DEF Frame
<1>6. \A t \in {"offer", "answer"}, d \in Description :
        [type |-> t, from |-> d] \in Frame
  BY DEF Frame, Signals
<1>7. \A n \in 1..MaxCandidates :
        [type |-> "ice_candidate", candidate |-> n] \in Frame
  BY DEF Frame, Candidates
<1>8. \A f \in Frame : f.type \in Relayed => f \in ToTab
  BY <1>3 DEF Frame, ToTab, Relayed
<1>9. \A f \in Frame \cup ToTab :
        /\ f.type \in {"offer", "answer"} => f.from \in Description
        /\ f.type = "ice_candidate" => f.candidate \in 1..MaxCandidates
  BY <1>1, <1>2, <1>3, <1>4 DEF Frame, ToTab
<1> QED
  BY <1>5, <1>6, <1>7, <1>8, <1>9

\* The queues of frames a send leaves.
LEMMA EmitStep ==
  ASSUME MessagesOK, NEW p \in Peers, NEW f \in Frame, Emit(p, f)
  PROVE  /\ frames' \in [Peers -> Seq(Frame)]
         /\ frames'[p] \in {frames[p], Append(frames[p], f)}
         /\ \A q \in Peers \ {p} : frames'[q] = frames[q]
  BY DEF Emit, MessagesOK


\* A step of a tab that has been admitted, and sends no media_ready.
LEMMA ReadyOnceKept ==
  ASSUME TInv, MessagesOK', UNCHANGED member,
         \A q \in Peers : net'[q] = "none" <=> net[q] = "none",
         \A q \in Peers :
           \/ session'[q] = session[q]
           \/ session[q] # "idle" /\ session'[q] \notin {"idle", "pending-media"},
         \A q \in Peers :
           \/ frames'[q] = frames[q]
           \/ \E f \in Frame : /\ f.type # "media_ready"
                               /\ frames'[q] = Append(frames[q], f)
  PROVE  ReadyOnce'
<1> SUFFICES ASSUME NEW q \in Peers
             PROVE  /\ net'[q] = "none" <=> session'[q] = "idle"
                    /\ session'[q] \in {"idle", "pending-media"} => ~ member'[q].ready
                    /\ (\/ session'[q] \in {"idle", "pending-media"}
                        \/ member'[q].ready) => Quiet(frames'[q])
                    /\ Once(frames'[q])
  BY DEF ReadyOnce, Quiet, Once
<1>1. frames[q] \in Seq(Frame)
  BY DEF TInv, MessagesOK
<1>2. /\ Quiet(frames[q]) => Quiet(frames'[q])
      /\ Once(frames'[q])
  <2>1. Once(frames[q])
    BY DEF TInv, ReadyOnce
  <2>2. CASE frames'[q] = frames[q]
    BY <2>1, <2>2
  <2>3. ASSUME NEW f \in Frame, f.type # "media_ready",
               frames'[q] = Append(frames[q], f)
        PROVE  /\ Quiet(frames[q]) => Quiet(frames'[q])
               /\ Once(frames'[q])
    BY <1>1, <2>1, <2>3, QueueQuiet, QueueOnce
  <2> QED
    BY <2>2, <2>3
<1> QED
  BY <1>2 DEF TInv, ReadyOnce

\* Nothing of the server changes.
LEMMA HeardKept ==
  ASSUME PairingsHeard, UNCHANGED <<member, stage, pairings>>
  PROVE  PairingsHeard'
<1>1. Heard' = Heard
  BY DEF Heard
<1> QED
  BY <1>1 DEF PairingsHeard

\* One more participant heard.
LEMMA HeardGrows ==
  /\ IsFiniteSet(Heard) /\ Cardinality(Heard) \in 0..MaxPeers
  /\ \A H \in SUBSET Peers : Heard \subseteq H => Cardinality(Heard) <= Cardinality(H)
  /\ \A H \in SUBSET Peers : \A p \in H :
       Heard \subseteq H /\ p \notin Heard => Cardinality(Heard) < Cardinality(H)
<1>1. IsFiniteSet(Peers) /\ Cardinality(Peers) = MaxPeers
  BY FS_Interval, BoundsAssumption DEF Peers
<1>2. ASSUME NEW H \in SUBSET Peers
      PROVE  IsFiniteSet(H) /\ Cardinality(H) \in 0..MaxPeers
  BY <1>1, FS_Subset, FS_CardinalityType, BoundsAssumption
<1>3. Heard \in SUBSET Peers
  BY DEF Heard
<1>4. ASSUME NEW H \in SUBSET Peers, Heard \subseteq H
      PROVE  Cardinality(Heard) <= Cardinality(H)
  BY <1>2, <1>4, FS_Subset
<1>5. ASSUME NEW H \in SUBSET Peers, NEW p \in H, Heard \subseteq H, p \notin Heard
      PROVE  Cardinality(Heard) < Cardinality(H)
  <2>1. Heard # H
    BY <1>5
  <2>2. Cardinality(Heard) <= Cardinality(H) /\ Cardinality(Heard) # Cardinality(H)
    BY <1>2, <1>5, <2>1, FS_Subset
  <2> QED
    BY <1>2, <1>3, <2>2
<1> QED
  BY <1>2, <1>3, <1>4, <1>5

\* The connections, buffers and sessions of the others stay as they are.
TabOK(p) ==
  /\ HasHandle(p) <=> session[p] \in InCallSessions
  /\ HasHandle(p) <=> buffer[p] # NoBuffer
  /\ HasHandle(p) =>
       /\ handle[p].connection = "connected" => buffer[p].set
       /\ handle[p].remote # NoDescription => buffer[p].set
       /\ buffer[p].set => buffer[p].pending = <<>>

LEMMA OneTab ==
  ASSUME HandleIffInCall, DrainedInOrder, NEW p \in Peers, TabOK(p)',
         \A q \in Peers \ {p} : /\ handle'[q] = handle[q]
                                /\ buffer'[q] = buffer[q]
                                /\ session'[q] = session[q]
  PROVE  HandleIffInCall' /\ DrainedInOrder'
<1> SUFFICES ASSUME NEW q \in Peers
             PROVE  TabOK(q)'
  BY DEF HandleIffInCall, DrainedInOrder, TabOK
<1>1. CASE q = p
  BY <1>1
<1>2. CASE q # p
  <2>1. TabOK(q)
    BY DEF HandleIffInCall, DrainedInOrder, TabOK
  <2> QED
    BY <1>2, <2>1 DEF TabOK, HasHandle
<1> QED
  BY <1>1, <1>2

-----------------------------------------------------------------------------
(* The initial states. *)

LEMMA Initially == Init => IInv
<1> SUFFICES ASSUME Init
             PROVE  IInv
  OBVIOUS
<1>1. CallTypeOK
  BY BoundsAssumption
     DEF Init, CallTypeOK, Member, NoMember, Sessions, HasHandle, NoHandle
<1>2. TabTypeOK
  BY DEF Init, TabTypeOK
<1>3. MessagesOK
  BY DEF Init, MessagesOK
<1>4. ReadyOnce
  BY DEF Init, ReadyOnce, NoMember, Quiet, Once
<1>5. PairingsHeard
  <2>1. Cardinality(Heard) \in 0..MaxPeers
    BY HeardGrows
  <2> QED
    BY <2>1, BoundsAssumption DEF Init, PairingsHeard
<1>6. HandleIffInCall /\ DrainedInOrder
  BY DEF Init, HandleIffInCall, DrainedInOrder, HasHandle, NoHandle, InCallSessions
<1> QED
  BY <1>1, <1>2, <1>3, <1>4, <1>5, <1>6 DEF IInv, TInv


-----------------------------------------------------------------------------
(* The steps of the server. *)

LEMMA JoinStep ==
  ASSUME IInv, NEW p \in Peers, Join(p)
  PROVE  IInv'
<1> USE DEF IInv, TInv
<1>1. /\ net[p] = "none" /\ session[p] = "idle"
      /\ member' = [member EXCEPT ![p].slot = NextSlot]
      /\ net' = [net EXCEPT ![p] = "open"]
      /\ session' = [session EXCEPT ![p] = "pending-media"]
  BY DEF Join, ReadyOnce
<1>2. UNCHANGED <<stage, pairings, sends, frames, inbox, handle, buffer, missed>>
  BY DEF Join
<1>3. NextSlot \in Slots
  BY DEF NextSlot, Slots
<1>4. /\ member' \in [Peers -> Member]
      /\ \A q \in Peers : member'[q].ready = member[q].ready
  BY <1>1, <1>3 DEF CallTypeOK, Member
<1>5. CallTypeOK'
  BY <1>1, <1>2, <1>4 DEF CallTypeOK, Sessions, HasHandle
<1>6. TabTypeOK' /\ MessagesOK'
  BY <1>2 DEF TabTypeOK, MessagesOK
<1>7. ReadyOnce'
  BY <1>1, <1>2, <1>4 DEF ReadyOnce, CallTypeOK
<1>8. PairingsHeard'
  <2>1. Heard' = Heard
    BY <1>2, <1>4 DEF Heard
  <2> QED
    BY <1>2, <2>1 DEF PairingsHeard
<1>9. HandleIffInCall' /\ DrainedInOrder'
  <2>1. TabOK(p)'
    BY <1>1, <1>2
       DEF TabOK, HandleIffInCall, InCallSessions, HasHandle, CallTypeOK
  <2>2. \A q \in Peers \ {p} : session'[q] = session[q]
    BY <1>1 DEF CallTypeOK
  <2> QED
    BY <1>2, <2>1, <2>2, OneTab
<1> QED
  BY <1>5, <1>6, <1>7, <1>8, <1>9

\* The tab is not touched.
LEMMA TabKept ==
  ASSUME IInv, UNCHANGED tab
  PROVE  HandleIffInCall' /\ DrainedInOrder' /\ TabTypeOK'
  BY DEF IInv, TInv, tab, HandleIffInCall, DrainedInOrder, HasHandle, TabTypeOK

LEMMA ReadMediaReadyStep ==
  ASSUME IInv, NEW p \in Peers, stage[p] = "serving", frames[p] # <<>>,
         ReadMediaReady(p, Head(frames[p])),
         frames' = [frames EXCEPT ![p] = Tail(@)],
         UNCHANGED <<inbox, net, tab>>
  PROVE  IInv'
<1> USE DEF IInv, TInv
<1>1. /\ Head(frames[p]).type = "media_ready"
      /\ UNCHANGED <<stage, missed>>
  BY DEF ReadMediaReady
<1>2. frames[p] \in Seq(Frame)
  BY DEF MessagesOK
<1>3. /\ ~ Quiet(frames[p])
      /\ Quiet(Tail(frames[p]))
      /\ Once(Tail(frames[p]))
  <2>1. Once(frames[p])
    BY DEF ReadyOnce
  <2>2. ~ Quiet(frames[p])
    BY <1>1, <1>2 DEF Quiet
  <2>3. Head(frames[p]) \in Frame
    BY <1>2
  <2> QED
    BY <1>1, <1>2, <2>1, <2>2, <2>3, QueueOnce
<1>4. ~ member[p].ready /\ session[p] \notin {"idle", "pending-media"}
  BY <1>3 DEF ReadyOnce
<1>5. PICK q \in Peers :
        /\ \A x \in Peers \ {p, q} : member'[x] = member[x]
        /\ member'[p].ready /\ (q = p \/ member[q].ready)
        /\ member'[q].ready
        /\ member' \in [Peers -> Member]
        /\ pairings' \in {pairings, pairings + 1}
        /\ \/ sends' = sends /\ pairings' = pairings
           \/ /\ pairings' = pairings + 1
              /\ sends' = [sends EXCEPT ![p] =
                   <<ReadyForOffer(p, q, pairings'), ReadyForOffer(q, p, pairings')>>]
           \/ /\ pairings' = pairings + 1
              /\ sends' = [sends EXCEPT ![p] =
                   <<ReadyForOffer(q, p, pairings'), ReadyForOffer(p, q, pairings')>>]
  <2>1. CASE {x \in Others(p) : member[x].ready} = {}
    <3>1. /\ member' = [member EXCEPT ![p].ready = TRUE]
          /\ UNCHANGED <<pairings, sends>>
      BY <2>1 DEF ReadMediaReady
    <3>2. /\ member' \in [Peers -> Member] /\ member'[p].ready
          /\ \A x \in Peers \ {p} : member'[x] = member[x]
      BY <3>1 DEF CallTypeOK, Member
    <3> QED
      BY <3>1, <3>2
  <2>2. CASE {x \in Others(p) : member[x].ready} # {}
    <3>1. PICK y \in {x \in Others(p) : member[x].ready} :
            /\ member' = [x \in Peers |-> IF x \in {p, y}
                 THEN [member[x] EXCEPT !.ready = TRUE, !.phase = "role-assigned"]
                 ELSE member[x]]
            /\ pairings' = pairings + 1
            /\ sends' = [sends EXCEPT ![p] =
                 IF AssignedRole(p) = "offerer"
                 THEN <<ReadyForOffer(p, y, pairings + 1),
                        ReadyForOffer(y, p, pairings + 1)>>
                 ELSE <<ReadyForOffer(y, p, pairings + 1),
                        ReadyForOffer(p, y, pairings + 1)>>]
      BY <2>2 DEF ReadMediaReady
    <3>2. y \in Peers /\ member[y].ready
      BY DEF Others, Occupants
    <3>3. /\ member' \in [Peers -> Member]
          /\ member'[p].ready /\ member'[y].ready
          /\ \A x \in Peers \ {p, y} : member'[x] = member[x]
      <4>1. \A m \in Member :
              /\ [m EXCEPT !.ready = TRUE, !.phase = "role-assigned"] \in Member
              /\ [m EXCEPT !.ready = TRUE, !.phase = "role-assigned"].ready
        BY DEF Member
      <4>2. \A x \in Peers : member[x] \in Member
        BY DEF CallTypeOK
      <4> QED
        BY <3>1, <3>2, <4>1, <4>2
    <3>4. \/ sends' = [sends EXCEPT ![p] =
               <<ReadyForOffer(p, y, pairings'), ReadyForOffer(y, p, pairings')>>]
          \/ sends' = [sends EXCEPT ![p] =
               <<ReadyForOffer(y, p, pairings'), ReadyForOffer(p, y, pairings')>>]
      BY <3>1
    <3> QED
      BY <3>1, <3>2, <3>3, <3>4
  <2> QED
    BY <2>1, <2>2
<1>6. PairingsHeard' /\ pairings' \in 0..MaxPeers
  <2>1. Heard' \in SUBSET Peers /\ Heard \subseteq Heard'
    BY <1>1, <1>5 DEF Heard
  <2>2. p \notin Heard /\ p \in Heard'
    BY <1>1, <1>4, <1>5 DEF Heard
  <2>3. Cardinality(Heard) < Cardinality(Heard') /\ Cardinality(Heard) \in 0..MaxPeers
    BY <2>1, <2>2, HeardGrows
  <2>4. IsFiniteSet(Peers) /\ Cardinality(Peers) = MaxPeers
    BY FS_Interval, BoundsAssumption DEF Peers
  <2>5. Cardinality(Heard') \in 0..MaxPeers
    BY <2>1, <2>4, FS_Subset, FS_CardinalityType, BoundsAssumption
  <2>6. pairings \in 0..MaxPeers /\ pairings <= Cardinality(Heard)
    BY DEF CallTypeOK, PairingsHeard
  <2> QED
    BY <1>5, <2>3, <2>5, <2>6, BoundsAssumption DEF PairingsHeard
<1>7. CallTypeOK'
  BY <1>1, <1>5, <1>6 DEF CallTypeOK, tab, HasHandle
<1>8. MessagesOK'
  <2>1. frames' \in [Peers -> Seq(Frame)] /\ UNCHANGED inbox
    BY <1>2 DEF MessagesOK
  <2>2. ASSUME pairings' = pairings + 1, NEW x \in Peers, NEW y \in Peers
        PROVE  ReadyForOffer(x, y, pairings') \in [to : Peers, msg : ToTab]
    <3>1. AssignedRole(x) \in {"offerer", "answerer"}
      BY DEF AssignedRole
    <3>2. pairings' \in 1..MaxPeers
      BY <1>6, <2>2 DEF CallTypeOK
    <3> QED
      BY <3>1, <3>2 DEF ReadyForOffer, To, ToTab
  <2>3. sends' \in [Peers -> Seq([to : Peers, msg : ToTab])]
    <3>1. CASE sends' = sends
      BY <3>1 DEF MessagesOK
    <3>2. ASSUME NEW a \in [to : Peers, msg : ToTab],
                 NEW b \in [to : Peers, msg : ToTab],
                 sends' = [sends EXCEPT ![p] = <<a, b>>]
          PROVE  sends' \in [Peers -> Seq([to : Peers, msg : ToTab])]
      <4>1. <<a, b>> \in Seq([to : Peers, msg : ToTab])
        OBVIOUS
      <4> QED
        BY <3>2, <4>1 DEF MessagesOK
    <3> QED
      BY <1>5, <2>2, <3>1, <3>2
  <2> QED
    BY <2>1, <2>3 DEF MessagesOK
<1>9. ReadyOnce'
  <2> SUFFICES ASSUME NEW x \in Peers
               PROVE  /\ net'[x] = "none" <=> session'[x] = "idle"
                      /\ session'[x] \in {"idle", "pending-media"} => ~ member'[x].ready
                      /\ (\/ session'[x] \in {"idle", "pending-media"}
                          \/ member'[x].ready) => Quiet(frames'[x])
                      /\ Once(frames'[x])
    BY DEF ReadyOnce, Quiet, Once
  <2>1. session'[x] = session[x] /\ net'[x] = net[x]
    BY DEF tab
  <2>2. CASE x = p
    <3>1. frames'[x] = Tail(frames[p])
      BY <2>2 DEF MessagesOK
    <3> QED
      BY <1>3, <1>4, <2>1, <2>2, <3>1 DEF ReadyOnce
  <2>3. CASE x # p
    <3>1. frames'[x] = frames[x] /\ (member'[x].ready => member[x].ready)
      BY <1>5, <2>3 DEF MessagesOK
    <3> QED
      BY <2>1, <3>1 DEF ReadyOnce
  <2> QED
    BY <2>2, <2>3
<1> QED
  BY <1>6, <1>7, <1>8, <1>9, TabKept


\* A goroutine reads a frame that leaves nobody more ready than before.
LEMMA ReadOn ==
  ASSUME TInv, NEW p \in Peers, frames[p] # <<>>,
         frames' = [frames EXCEPT ![p] = Tail(@)],
         UNCHANGED <<net, session>>,
         \A x \in Peers : member'[x].ready = member[x].ready
  PROVE  frames' \in [Peers -> Seq(Frame)] /\ ReadyOnce'
<1> USE DEF TInv
<1>1. frames' \in [Peers -> Seq(Frame)]
  BY DEF MessagesOK
<1>2. SUFFICES ASSUME NEW x \in Peers
               PROVE  /\ net'[x] = "none" <=> session'[x] = "idle"
                      /\ session'[x] \in {"idle", "pending-media"} => ~ member'[x].ready
                      /\ (\/ session'[x] \in {"idle", "pending-media"}
                          \/ member'[x].ready) => Quiet(frames'[x])
                      /\ Once(frames'[x])
  BY <1>1 DEF ReadyOnce, Quiet, Once
<1>3. /\ Quiet(frames[x]) => Quiet(frames'[x])
      /\ Once(frames'[x])
  <2>1. Once(frames[x]) /\ frames[x] \in Seq(Frame)
    BY DEF ReadyOnce, MessagesOK
  <2>2. CASE x = p
    <3>1. frames'[x] = Tail(frames[x]) /\ Head(frames[x]) \in Frame
      BY <2>1, <2>2 DEF MessagesOK
    <3> QED
      BY <2>1, <2>2, <3>1, QueueQuiet, QueueOnce
  <2>3. CASE x # p
    BY <2>1, <2>3 DEF MessagesOK
  <2> QED
    BY <2>2, <2>3
<1> QED
  BY <1>1, <1>3 DEF ReadyOnce

LEMMA ReadRelayedStep ==
  ASSUME IInv, NEW p \in Peers, stage[p] = "serving", frames[p] # <<>>,
         ReadRelayed(p, Head(frames[p])),
         frames' = [frames EXCEPT ![p] = Tail(@)],
         UNCHANGED <<inbox, net, tab>>
  PROVE  IInv'
<1> USE DEF IInv, TInv
<1> DEFINE f == Head(frames[p])
<1>1. f \in Frame /\ f.type \in Relayed
  BY DEF MessagesOK, ReadRelayed
<1>2. UNCHANGED <<stage, pairings>>
  BY DEF ReadRelayed
<1>3. /\ member' \in [Peers -> Member]
      /\ \A x \in Peers : member'[x].ready = member[x].ready
  <2>1. CASE member' = member
    BY <2>1 DEF CallTypeOK
  <2>2. CASE member' = [member EXCEPT ![p].phase =
               IF f.type \in {"offer", "answer"} THEN "negotiating" ELSE @]
    BY <2>2 DEF CallTypeOK, Member
  <2> QED
    BY <2>1, <2>2 DEF ReadRelayed
<1>4. sends' \in [Peers -> Seq([to : Peers, msg : ToTab])]
  <2>1. CASE sends' = sends
    BY <2>1 DEF MessagesOK
  <2>2. ASSUME Others(p) # {},
               sends' = [sends EXCEPT ![p] = <<To(CHOOSE q \in Others(p) : TRUE, f)>>]
        PROVE  sends' \in [Peers -> Seq([to : Peers, msg : ToTab])]
    <3>1. (CHOOSE q \in Others(p) : TRUE) \in Peers
      BY <2>2 DEF Others, Occupants
    <3>2. PICK q \in Peers : q = (CHOOSE x \in Others(p) : TRUE)
      BY <3>1
    <3>3. f \in ToTab
      BY <1>1, FrameTypes
    <3>4. <<To(q, f)>> \in Seq([to : Peers, msg : ToTab])
      BY <3>3 DEF To
    <3> QED
      BY <2>2, <3>2, <3>4 DEF MessagesOK
  <2> QED
    BY <2>1, <2>2 DEF ReadRelayed
<1>5. missed' \subseteq 1..MaxPeers
  <2>1. CASE missed' = missed
    BY <2>1 DEF CallTypeOK
  <2>2. CASE f.type # "ice_candidate" /\ missed' = missed \cup {f.from.pairing}
    <3>1. f.from \in Description
      BY <1>1, <2>2, FrameTypes DEF Relayed
    <3> QED
      BY <2>2, <3>1 DEF CallTypeOK, Description
  <2> QED
    BY <2>1, <2>2 DEF ReadRelayed
<1>6. CallTypeOK'
  BY <1>2, <1>3, <1>5 DEF CallTypeOK, tab, HasHandle
<1>7. UNCHANGED <<net, session>>
  BY DEF tab
<1>8. MessagesOK' /\ ReadyOnce'
  BY <1>3, <1>4, <1>7, ReadOn DEF MessagesOK
<1>9. PairingsHeard'
  <2>1. Heard' = Heard
    BY <1>2, <1>3 DEF Heard
  <2> QED
    BY <1>2, <2>1 DEF PairingsHeard
<1> QED
  BY <1>6, <1>8, <1>9, TabKept

LEMMA ReadEndStep ==
  ASSUME IInv, NEW p \in Peers, stage[p] = "serving", frames[p] # <<>>,
         ReadEnd(p, Head(frames[p])),
         frames' = [frames EXCEPT ![p] = Tail(@)],
         UNCHANGED <<inbox, net, tab>>
  PROVE  IInv'
<1> USE DEF IInv, TInv
<1>1. UNCHANGED <<member, pairings, sends, missed>>
  BY DEF ReadEnd
<1>2. /\ stage' = [stage EXCEPT ![p] =
           IF InCall(p) THEN "release-in-call" ELSE "release"]
      /\ stage' \in [Peers -> {"serving", "release", "release-in-call", "gone"}]
  BY DEF ReadEnd, CallTypeOK
<1>3. CallTypeOK'
  BY <1>1, <1>2 DEF CallTypeOK, tab, HasHandle
<1>4. UNCHANGED <<net, session>>
  BY DEF tab
<1>5. MessagesOK' /\ ReadyOnce'
  BY <1>1, <1>4, ReadOn DEF MessagesOK
<1>6. PairingsHeard'
  <2>1. Heard' = Heard
    BY <1>1, <1>2 DEF Heard, CallTypeOK
  <2> QED
    BY <1>1, <2>1 DEF PairingsHeard
<1> QED
  BY <1>3, <1>5, <1>6, TabKept

LEMMA ReadStep ==
  ASSUME IInv, NEW p \in Peers, Read(p)
  PROVE  IInv'
BY ReadMediaReadyStep, ReadRelayedStep, ReadEndStep DEF Read

LEMMA ReleaseStep ==
  ASSUME IInv, NEW p \in Peers, Release(p)
  PROVE  IInv'
<1> USE DEF IInv, TInv
<1>1. /\ stage[p] \in {"release", "release-in-call"}
      /\ member' = [member EXCEPT ![p] = NoMember]
      /\ stage' = [stage EXCEPT ![p] = "gone"]
      /\ UNCHANGED <<pairings, frames, inbox, net, tab, missed>>
  BY DEF Release
<1>2. NoMember \in Member
  BY DEF NoMember, Member
<1>3. /\ member' \in [Peers -> Member]
      /\ \A x \in Peers : member'[x].ready => member[x].ready
  BY <1>1, <1>2 DEF CallTypeOK, NoMember
<1>4. CallTypeOK'
  BY <1>1, <1>3 DEF CallTypeOK, tab, HasHandle
<1>5. sends' \in [Peers -> Seq([to : Peers, msg : ToTab])]
  <2>1. CASE sends' = [sends EXCEPT ![p] = <<>>]
    <3>1. <<>> \in Seq([to : Peers, msg : ToTab])
      OBVIOUS
    <3> QED
      BY <2>1, <3>1 DEF MessagesOK
  <2>2. ASSUME Others(p) # {},
               sends' = [sends EXCEPT ![p] =
                 <<To(CHOOSE q \in Others(p) : TRUE, [type |-> "peer_left", peer |-> p])>>]
        PROVE  sends' \in [Peers -> Seq([to : Peers, msg : ToTab])]
    <3>1. (CHOOSE q \in Others(p) : TRUE) \in Peers
      BY <2>2 DEF Others, Occupants
    <3>2. PICK q \in Peers : q = (CHOOSE x \in Others(p) : TRUE)
      BY <3>1
    <3>3. [type |-> "peer_left", peer |-> p] \in ToTab
      BY DEF ToTab
    <3>4. <<To(q, [type |-> "peer_left", peer |-> p])>>
            \in Seq([to : Peers, msg : ToTab])
      BY <3>3 DEF To
    <3> QED
      BY <2>2, <3>2, <3>4 DEF MessagesOK
  <2> QED
    BY <2>1, <2>2 DEF Release
<1>6. MessagesOK'
  BY <1>1, <1>5 DEF MessagesOK
<1>7. ReadyOnce'
  BY <1>1, <1>3 DEF ReadyOnce, tab
<1>8. PairingsHeard'
  <2>1. Heard' \in SUBSET Peers /\ Heard \subseteq Heard'
    BY <1>1 DEF Heard, CallTypeOK
  <2>2. Cardinality(Heard) <= Cardinality(Heard') /\ Cardinality(Heard) \in 0..MaxPeers
    BY <2>1, HeardGrows
  <2>3. IsFiniteSet(Peers)
    BY FS_Interval, BoundsAssumption DEF Peers
  <2>4. Cardinality(Heard') \in Nat
    BY <2>1, <2>3, FS_Subset, FS_CardinalityType
  <2> QED
    BY <1>1, <2>2, <2>4 DEF PairingsHeard, CallTypeOK
<1> QED
  BY <1>1, <1>4, <1>6, <1>7, <1>8, TabKept

LEMMA SendStep ==
  ASSUME IInv, NEW p \in Peers, Send(p)
  PROVE  IInv'
<1> USE DEF IInv, TInv
<1> DEFINE s == Head(sends[p])
<1>1. /\ s \in [to : Peers, msg : ToTab]
      /\ sends' \in [Peers -> Seq([to : Peers, msg : ToTab])]
  <2>1. sends[p] \in Seq([to : Peers, msg : ToTab]) /\ sends[p] # <<>>
    BY DEF Send, MessagesOK
  <2>2. /\ s \in [to : Peers, msg : ToTab]
        /\ Tail(sends[p]) \in Seq([to : Peers, msg : ToTab])
    BY <2>1, HeadTail
  <2> QED
    BY <2>2 DEF Send, MessagesOK
<1>2. PICK q \in Peers, m \in ToTab : s.to = q /\ s.msg = m
  BY <1>1
<1>3. \/ inbox' = inbox
      \/ inbox' = [inbox EXCEPT ![q] = Append(@, m)]
  BY <1>2 DEF Send
<1>4. inbox' \in [Peers -> Seq(ToTab)]
  <2>1. Append(inbox[q], m) \in Seq(ToTab)
    BY DEF MessagesOK
  <2> QED
    BY <1>3, <2>1 DEF MessagesOK
<1>5. UNCHANGED <<member, stage, pairings, frames, net, tab, missed>>
  BY DEF Send
<1>6. CallTypeOK' /\ MessagesOK' /\ ReadyOnce' /\ PairingsHeard'
  <2>1. CallTypeOK'
    BY <1>5 DEF CallTypeOK, tab, HasHandle
  <2>2. MessagesOK'
    BY <1>1, <1>4, <1>5 DEF MessagesOK
  <2>3. ReadyOnce'
    BY <1>5 DEF ReadyOnce, tab
  <2> QED
    BY <1>5, <2>1, <2>2, <2>3, HeardKept
<1> QED
  BY <1>5, <1>6, TabKept


-----------------------------------------------------------------------------
(* The steps of the tabs. *)

\* What a step of p's tab may rely on.
LEMMA TabFacts ==
  ASSUME IInv, NEW p \in Peers
  PROVE  /\ TabOK(p)
         /\ session[p] \in Sessions
         /\ frames[p] \in Seq(Frame) /\ inbox[p] \in Seq(ToTab)
         /\ HasHandle(p) => /\ handle[p] \in Handle
                            /\ buffer[p] \in Buffer
                            /\ session[p] \in InCallSessions
         /\ ~ HasHandle(p) => handle[p] = NoHandle /\ buffer[p] = NoBuffer
<1> USE DEF IInv, TInv
<1>1. TabOK(p)
  BY DEF TabOK, HandleIffInCall, DrainedInOrder
<1>2. /\ handle[p] \in Handle \cup {NoHandle}
      /\ buffer[p] \in Buffer \cup {NoBuffer}
  BY DEF TabTypeOK
<1>3. session[p] \in Sessions /\ frames[p] \in Seq(Frame) /\ inbox[p] \in Seq(ToTab)
  BY DEF CallTypeOK, MessagesOK
<1>4. ~ HasHandle(p) => handle[p] = NoHandle
  BY <1>2, InUse DEF HasHandle
<1>5. HasHandle(p) => handle[p] \in Handle
  BY DEF CallTypeOK
<1> QED
  BY <1>1, <1>2, <1>3, <1>4, <1>5 DEF TabOK

\* A step of p's tab that sends no media_ready.
LEMMA TabStep ==
  ASSUME IInv, NEW p \in Peers, UNCHANGED server, MessagesOK',
         handle' \in [Peers -> Handle \cup {NoHandle}],
         buffer' \in [Peers -> Buffer \cup {NoBuffer}],
         session' \in [Peers -> Sessions],
         net' \in [Peers -> {"none", "open", "lost", "closed"}],
         missed' \subseteq 1..MaxPeers,
         \A q \in Peers \ {p} : /\ handle'[q] = handle[q]
                                /\ buffer'[q] = buffer[q]
                                /\ session'[q] = session[q],
         \A q \in Peers : net'[q] = "none" <=> net[q] = "none",
         \/ session'[p] = session[p]
         \/ session[p] # "idle" /\ session'[p] \notin {"idle", "pending-media"},
         \A q \in Peers :
           \/ frames'[q] = frames[q]
           \/ \E f \in Frame : /\ f.type # "media_ready"
                               /\ frames'[q] = Append(frames[q], f),
         TabOK(p)'
  PROVE  IInv'
<1> USE DEF IInv, TInv
<1>1. UNCHANGED <<member, stage, pairings, sends>>
  BY DEF server
<1>2. CallTypeOK'
  <2>1. \A q \in Peers : HasHandle(q)' => handle'[q] \in Handle
    BY DEF HasHandle, NoHandle
  <2> QED
    BY <1>1, <2>1 DEF CallTypeOK
<1>3. TabTypeOK'
  BY DEF TabTypeOK
<1>4. ReadyOnce'
  <2>1. \A q \in Peers :
           \/ session'[q] = session[q]
           \/ session[q] # "idle" /\ session'[q] \notin {"idle", "pending-media"}
    OBVIOUS
  <2> QED
    BY <1>1, <2>1, ReadyOnceKept
<1>5. PairingsHeard'
  BY <1>1, HeardKept
<1>6. HandleIffInCall' /\ DrainedInOrder'
  BY OneTab
<1> QED
  BY <1>2, <1>3, <1>4, <1>5, <1>6

\* The frames a tab's step adds, from a signal or from nothing.
LEMMA SignalStep ==
  ASSUME IInv, NEW p \in Peers, HasHandle(p), NEW t \in {"offer", "answer"},
         Signal(p, t) \/ UNCHANGED frames
  PROVE  /\ frames' \in [Peers -> Seq(Frame)]
         /\ \A q \in Peers :
              \/ frames'[q] = frames[q]
              \/ \E f \in Frame : /\ f.type # "media_ready"
                                  /\ frames'[q] = Append(frames[q], f)
<1>1. MessagesOK
  BY DEF IInv, TInv
<1>2. CASE UNCHANGED frames
  BY <1>1, <1>2 DEF MessagesOK
<1>3. CASE Signal(p, t)
  <2>1. [owner |-> p, pairing |-> handle[p].pairing] \in Description
    <3>1. handle[p] \in Handle
      BY TabFacts
    <3> QED
      BY <3>1 DEF Description, Handle
  <2>2. PICK f \in Frame :
          f = [type |-> t, from |-> [owner |-> p, pairing |-> handle[p].pairing]]
    BY <2>1, FrameTypes
  <2>3. Emit(p, f) /\ f.type # "media_ready"
    BY <1>3, <2>2 DEF Signal
  <2> QED
    BY <1>1, <2>3, EmitStep
<1> QED
  BY <1>2, <1>3

\* A connection torn down.
LEMMA TornDown ==
  ASSUME IInv, NEW p \in Peers, Teardown(p)
  PROVE  /\ handle' \in [Peers -> Handle \cup {NoHandle}]
         /\ buffer' \in [Peers -> Buffer \cup {NoBuffer}]
         /\ \A q \in Peers \ {p} : handle'[q] = handle[q] /\ buffer'[q] = buffer[q]
         /\ session'[p] \notin InCallSessions => TabOK(p)'
  BY DEF IInv, TInv, Teardown, TabTypeOK, TabOK, HasHandle, NoHandle

LEMMA MediaReadySentStep ==
  ASSUME IInv, NEW p \in Peers, MediaReadySent(p)
  PROVE  IInv'
<1> USE DEF IInv, TInv
<1>1. /\ session[p] = "pending-media"
      /\ session' = [session EXCEPT ![p] = "waiting-for-peer"]
      /\ UNCHANGED <<member, stage, pairings, sends, inbox, net, handle, buffer, missed>>
  BY DEF MediaReadySent, server
<1>2. PICK f \in Frame : f.type = "media_ready" /\ Emit(p, f)
  BY FrameTypes DEF MediaReadySent
<1>3. /\ frames' \in [Peers -> Seq(Frame)]
      /\ frames'[p] \in {frames[p], Append(frames[p], f)}
      /\ \A q \in Peers \ {p} : frames'[q] = frames[q]
  BY <1>2, EmitStep
<1>4. CallTypeOK'
  BY <1>1 DEF CallTypeOK, Sessions, HasHandle
<1>5. TabTypeOK' /\ MessagesOK'
  BY <1>1, <1>3 DEF TabTypeOK, MessagesOK
<1>6. ReadyOnce'
  <2> SUFFICES ASSUME NEW x \in Peers
               PROVE  /\ net'[x] = "none" <=> session'[x] = "idle"
                      /\ session'[x] \in {"idle", "pending-media"} => ~ member'[x].ready
                      /\ (\/ session'[x] \in {"idle", "pending-media"}
                          \/ member'[x].ready) => Quiet(frames'[x])
                      /\ Once(frames'[x])
    BY <1>5 DEF ReadyOnce, Quiet, Once
  <2>1. CASE x # p
    <3>1. session'[x] = session[x] /\ frames'[x] = frames[x]
      BY <1>1, <1>3, <2>1 DEF CallTypeOK
    <3> QED
      BY <1>1, <3>1 DEF ReadyOnce
  <2>2. CASE x = p
    <3>1. session'[x] = "waiting-for-peer" /\ net[x] # "none"
      BY <1>1, <2>2 DEF CallTypeOK, ReadyOnce
    <3>2. Quiet(frames[p]) /\ ~ member[p].ready /\ Once(frames[p])
      BY <1>1 DEF ReadyOnce
    <3>3. Once(frames'[x])
      BY <1>3, <2>2, <3>2, QueueOnce DEF MessagesOK
    <3> QED
      BY <1>1, <2>2, <3>1, <3>2, <3>3
  <2> QED
    BY <2>1, <2>2
<1>7. PairingsHeard'
  BY <1>1, HeardKept
<1>8. HandleIffInCall' /\ DrainedInOrder'
  BY <1>1 DEF HandleIffInCall, DrainedInOrder, HasHandle, InCallSessions, CallTypeOK
<1> QED
  BY <1>4, <1>5, <1>6, <1>7, <1>8


\* A message handled: its queue and the types that depend on it.
LEMMA Received ==
  ASSUME IInv, NEW p \in Peers, inbox[p] # <<>>,
         inbox' = [inbox EXCEPT ![p] = Tail(@)],
         UNCHANGED <<server, frames, net>>
  PROVE  /\ MessagesOK' /\ Head(inbox[p]) \in ToTab
         /\ UNCHANGED server /\ net' \in [Peers -> {"none", "open", "lost", "closed"}]
         /\ UNCHANGED frames /\ UNCHANGED net
<1>1. inbox[p] \in Seq(ToTab)
  BY TabFacts
<1>2. Head(inbox[p]) \in ToTab /\ Tail(inbox[p]) \in Seq(ToTab)
  BY <1>1, HeadTail
<1> QED
  BY <1>2 DEF IInv, TInv, MessagesOK, server, CallTypeOK

LEMMA ReadyForOfferStep ==
  ASSUME IInv, NEW p \in Peers, inbox[p] # <<>>,
         HandleReadyForOffer(p, Head(inbox[p])),
         inbox' = [inbox EXCEPT ![p] = Tail(@)],
         UNCHANGED <<server, frames, net>>
  PROVE  IInv'
<1> DEFINE m == Head(inbox[p])
<1>1. MessagesOK' /\ m \in ToTab /\ m.type = "ready_for_offer"
  BY Received DEF HandleReadyForOffer
<1>2. m.role \in {"offerer", "answerer"} /\ m.peer \in Peers /\ m.pairing \in 1..MaxPeers
  BY <1>1 DEF ToTab, Signals, Candidates
<1>3. CASE MayStart(p)
  <2>1. /\ session' = [session EXCEPT ![p] = "connecting"]
        /\ handle' = [handle EXCEPT ![p] = NewHandle(m)]
        /\ buffer' = [buffer EXCEPT ![p] = [set |-> FALSE, pending |-> <<>>]]
        /\ missed' = missed /\ session[p] = "waiting-for-peer"
    BY <1>3 DEF HandleReadyForOffer, MayStart
  <2>2. NewHandle(m) \in Handle
    <3>1. (IF m.role = "offerer"
           THEN <<[op |-> "createOffer", remote |-> NoDescription]>> ELSE <<>>)
             \in Seq(Operation)
      <4>1. [op |-> "createOffer", remote |-> NoDescription] \in Operation
        BY DEF Operation
      <4>2. PICK o \in Operation : o = [op |-> "createOffer", remote |-> NoDescription]
        BY <4>1
      <4>3. <<o>> \in Seq(Operation) /\ <<>> \in Seq(Operation)
        OBVIOUS
      <4> QED
        BY <4>2, <4>3
    <3>2. <<>> \in Seq(1..MaxCandidates) /\ 0 \in 0..MaxCandidates
      BY BoundsAssumption
    <3> QED
      BY <1>2, <3>1, <3>2 DEF NewHandle, Handle
  <2>3. [set |-> FALSE, pending |-> <<>>] \in Buffer
    BY DEF Buffer
  <2>4. /\ handle' \in [Peers -> Handle \cup {NoHandle}]
        /\ buffer' \in [Peers -> Buffer \cup {NoBuffer}]
        /\ session' \in [Peers -> Sessions]
        /\ missed' \subseteq 1..MaxPeers
    BY <2>1, <2>2, <2>3 DEF IInv, TInv, TabTypeOK, CallTypeOK, Sessions
  <2>5. TabOK(p)'
    <3>1. handle'[p] = NewHandle(m) /\ buffer'[p] = [set |-> FALSE, pending |-> <<>>]
          /\ session'[p] = "connecting"
      BY <2>1 DEF IInv, TInv, TabTypeOK, CallTypeOK
    <3>2. handle'[p].pairing # 0 /\ buffer'[p] # NoBuffer
      BY <2>2, <2>3, <3>1, InUse
    <3> QED
      BY <3>1, <3>2 DEF TabOK, HasHandle, InCallSessions, NewHandle
  <2>6. \A q \in Peers \ {p} : /\ handle'[q] = handle[q]
                               /\ buffer'[q] = buffer[q]
                               /\ session'[q] = session[q]
    BY <2>1 DEF IInv, TInv, TabTypeOK, CallTypeOK
  <2>7. session'[p] = "connecting"
    BY <2>1 DEF IInv, TInv, CallTypeOK
  <2> QED
    BY <1>1, <2>1, <2>4, <2>5, <2>6, <2>7, Received, TabStep
<1>4. CASE ~ MayStart(p)
  <2>1. /\ UNCHANGED tab
        /\ missed' = missed \cup {m.pairing}
    BY <1>4 DEF HandleReadyForOffer
  <2>2. /\ missed' \subseteq 1..MaxPeers
        /\ UNCHANGED <<handle, buffer, session>>
        /\ handle' \in [Peers -> Handle \cup {NoHandle}]
        /\ buffer' \in [Peers -> Buffer \cup {NoBuffer}]
        /\ session' \in [Peers -> Sessions]
    BY <1>2, <2>1 DEF IInv, TInv, CallTypeOK, TabTypeOK, tab
  <2>3. TabOK(p)'
    BY <2>2, TabFacts DEF TabOK, HasHandle
  <2> QED
    BY <1>1, <2>2, <2>3, Received, TabStep
<1> QED
  BY <1>3, <1>4

LEMMA DescriptionStep ==
  ASSUME IInv, NEW p \in Peers, inbox[p] # <<>>,
         HandleDescription(p, Head(inbox[p])),
         inbox' = [inbox EXCEPT ![p] = Tail(@)],
         UNCHANGED <<server, frames, net>>
  PROVE  IInv'
<1> DEFINE m == Head(inbox[p])
<1>1. /\ MessagesOK' /\ m \in ToTab /\ m.type \in {"offer", "answer"}
      /\ UNCHANGED <<session, buffer>>
  BY Received DEF HandleDescription
<1>2. m.from \in Description /\ m.from.pairing \in 1..MaxPeers
  BY <1>1, FrameTypes DEF Description
<1>3. PICK h :
        /\ h \in Handle \cup {NoHandle}
        /\ handle' = [handle EXCEPT ![p] = h]
        /\ h.pairing = handle[p].pairing
        /\ HasHandle(p) => /\ h.remote = handle[p].remote
                           /\ h.connection = handle[p].connection
        /\ missed' \subseteq 1..MaxPeers
  <2>1. ASSUME HasHandle(p), NEW o \in {"applyOffer", "applyAnswer"},
               handle' = [handle EXCEPT ![p].ops =
                            Append(@, [op |-> o, remote |-> m.from])],
               \/ missed' = missed
               \/ missed' = missed \cup {m.from.pairing, handle[p].pairing}
        PROVE  \E h :
                 /\ h \in Handle \cup {NoHandle}
                 /\ handle' = [handle EXCEPT ![p] = h]
                 /\ h.pairing = handle[p].pairing
                 /\ HasHandle(p) => /\ h.remote = handle[p].remote
                                    /\ h.connection = handle[p].connection
                 /\ missed' \subseteq 1..MaxPeers
    <3>1. handle[p] \in Handle
      BY <2>1, TabFacts
    <3>2. [op |-> o, remote |-> m.from] \in Operation
      BY <1>2 DEF Operation
    <3>3. Append(handle[p].ops, [op |-> o, remote |-> m.from]) \in Seq(Operation)
      BY <3>1, <3>2 DEF Handle
    <3>4. [handle[p] EXCEPT !.ops = Append(@, [op |-> o, remote |-> m.from])] \in Handle
      BY <3>1, <3>3 DEF Handle
    <3>5. missed' \subseteq 1..MaxPeers
      BY <1>2, <2>1, <3>1 DEF Handle, IInv, TInv, CallTypeOK
    <3> WITNESS [handle[p] EXCEPT !.ops = Append(@, [op |-> o, remote |-> m.from])]
    <3> QED
      BY <2>1, <3>1, <3>4, <3>5 DEF Handle
  <2>2. CASE UNCHANGED handle /\ missed' = missed \cup {m.from.pairing}
    <3>1. handle' = [handle EXCEPT ![p] = handle[p]] /\ handle[p] \in Handle \cup {NoHandle}
      BY <2>2 DEF IInv, TInv, TabTypeOK
    <3>2. missed' \subseteq 1..MaxPeers
      BY <1>2, <2>2 DEF IInv, TInv, CallTypeOK
    <3> QED
      BY <3>1, <3>2
  <2>3. \/ /\ HasHandle(p)
           /\ \E o \in {"applyOffer", "applyAnswer"} :
                handle' = [handle EXCEPT ![p].ops =
                             Append(@, [op |-> o, remote |-> m.from])]
           /\ \/ missed' = missed
              \/ missed' = missed \cup {m.from.pairing, handle[p].pairing}
        \/ UNCHANGED handle /\ missed' = missed \cup {m.from.pairing}
    BY DEF HandleDescription
  <2> HIDE DEF m
  <2> QED
    BY <2>1, <2>2, <2>3
<1>4. /\ handle' \in [Peers -> Handle \cup {NoHandle}]
      /\ buffer' \in [Peers -> Buffer \cup {NoBuffer}]
      /\ session' \in [Peers -> Sessions]
      /\ \A q \in Peers \ {p} : handle'[q] = handle[q]
      /\ handle'[p] = h
  BY <1>1, <1>3 DEF IInv, TInv, TabTypeOK, CallTypeOK
<1>5. TabOK(p)'
  BY <1>1, <1>3, <1>4, TabFacts DEF TabOK, HasHandle
<1> QED
  BY <1>1, <1>3, <1>4, <1>5, Received, TabStep

LEMMA IceCandidateStep ==
  ASSUME IInv, NEW p \in Peers, inbox[p] # <<>>,
         HandleIceCandidate(p, Head(inbox[p])),
         inbox' = [inbox EXCEPT ![p] = Tail(@)],
         UNCHANGED <<server, frames, net>>
  PROVE  IInv'
<1> DEFINE m == Head(inbox[p])
<1>1. /\ MessagesOK' /\ m \in ToTab /\ m.type = "ice_candidate"
      /\ UNCHANGED <<session, handle, missed>>
  BY Received DEF HandleIceCandidate
<1>2. m.candidate \in 1..MaxCandidates
  BY <1>1, FrameTypes
<1>3. /\ buffer' \in [Peers -> Buffer \cup {NoBuffer}]
      /\ \A q \in Peers \ {p} : buffer'[q] = buffer[q]
      /\ \/ buffer'[p] = buffer[p]
         \/ /\ HasHandle(p) /\ buffer'[p] \in Buffer
            /\ ~ buffer[p].set /\ ~ buffer'[p].set
  <2>1. CASE HasHandle(p) /\ ~ buffer[p].set
    <3>1. buffer[p] \in Buffer
      BY <2>1, TabFacts
    <3>2. Append(buffer[p].pending, m.candidate) \in Seq(1..MaxCandidates)
      BY <1>2, <3>1 DEF Buffer
    <3>3. PICK b \in Buffer : b.set = FALSE /\ buffer' = [buffer EXCEPT ![p] = b]
      <4>1. [buffer[p] EXCEPT !.pending = Append(@, m.candidate)] \in Buffer
        BY <3>1, <3>2 DEF Buffer
      <4>2. buffer[p].set = FALSE
        BY <2>1, <3>1 DEF Buffer
      <4> QED
        BY <2>1, <3>1, <4>1, <4>2 DEF HandleIceCandidate, Buffer
    <3> QED
      BY <2>1, <3>3 DEF IInv, TInv, TabTypeOK
  <2>2. CASE ~ (HasHandle(p) /\ ~ buffer[p].set)
    BY <2>2 DEF HandleIceCandidate, IInv, TInv, TabTypeOK
  <2> QED
    BY <2>1, <2>2
<1>4. /\ handle' \in [Peers -> Handle \cup {NoHandle}]
      /\ session' \in [Peers -> Sessions]
      /\ missed' \subseteq 1..MaxPeers
  BY <1>1 DEF IInv, TInv, TabTypeOK, CallTypeOK
<1>5. TabOK(p)'
  BY <1>1, <1>3, TabFacts, InUse DEF TabOK, HasHandle
<1> QED
  BY <1>1, <1>3, <1>4, <1>5, Received, TabStep

LEMMA PeerLeftStep ==
  ASSUME IInv, NEW p \in Peers, inbox[p] # <<>>,
         HandlePeerLeft(p, Head(inbox[p])),
         inbox' = [inbox EXCEPT ![p] = Tail(@)],
         UNCHANGED <<server, frames, net>>
  PROVE  IInv'
<1>1. MessagesOK' /\ UNCHANGED missed
  BY Received DEF HandlePeerLeft
<1>2. missed' \subseteq 1..MaxPeers
  BY <1>1 DEF IInv, TInv, CallTypeOK
<1>3. CASE HasHandle(p)
  <2>1. Teardown(p) /\ session' = [session EXCEPT ![p] = "waiting-for-peer"]
    BY <1>3, TabFacts DEF HandlePeerLeft
  <2>2. /\ session' \in [Peers -> Sessions]
        /\ session'[p] = "waiting-for-peer" /\ session[p] # "idle"
        /\ \A q \in Peers \ {p} : session'[q] = session[q]
    BY <1>3, <2>1, TabFacts DEF IInv, TInv, CallTypeOK, Sessions, InCallSessions
  <2>3. /\ handle' \in [Peers -> Handle \cup {NoHandle}]
        /\ buffer' \in [Peers -> Buffer \cup {NoBuffer}]
        /\ \A q \in Peers \ {p} : handle'[q] = handle[q] /\ buffer'[q] = buffer[q]
        /\ TabOK(p)'
    BY <2>1, <2>2, TornDown DEF InCallSessions
  <2> QED
    BY <1>1, <1>2, <2>2, <2>3, Received, TabStep
<1>4. CASE ~ HasHandle(p)
  <2>1. UNCHANGED <<handle, buffer, session>>
    BY <1>4 DEF HandlePeerLeft, tab
  <2>2. /\ handle' \in [Peers -> Handle \cup {NoHandle}]
        /\ buffer' \in [Peers -> Buffer \cup {NoBuffer}]
        /\ session' \in [Peers -> Sessions]
    BY <2>1 DEF IInv, TInv, CallTypeOK, TabTypeOK
  <2>3. TabOK(p)'
    BY <2>1, TabFacts DEF TabOK, HasHandle
  <2> QED
    BY <1>1, <1>2, <2>1, <2>2, <2>3, Received, TabStep
<1> QED
  BY <1>3, <1>4

LEMMA ReceiveStep ==
  ASSUME IInv, NEW p \in Peers, Receive(p)
  PROVE  IInv'
BY ReadyForOfferStep, DescriptionStep, IceCandidateStep, PeerLeftStep DEF Receive


\* The marking of a remote description.
LEMMA MarkedStep ==
  ASSUME IInv, NEW p \in Peers, HasHandle(p), NEW h \in Handle, Marked(p, h),
         h.pairing = handle[p].pairing,
         UNCHANGED <<server, inbox, net, session, missed>>
  PROVE  IInv'
<1>1. /\ handle[p] \in Handle /\ buffer[p] \in Buffer /\ session[p] \in InCallSessions
      /\ TabOK(p)
  BY TabFacts
<1>2. PICK k \in Handle, b \in Buffer :
        /\ handle' = [handle EXCEPT ![p] = k]
        /\ buffer' = [buffer EXCEPT ![p] = b]
        /\ k.pairing = handle[p].pairing
        /\ b.set /\ b.pending = <<>>
        /\ Signal(p, "answer") \/ UNCHANGED frames
  <2>1. CASE buffer[p].set \/ buffer[p].pending = <<>>
    <3>1. buffer[p].pending = <<>>
      BY <1>1, <2>1 DEF TabOK
    <3>2. [buffer[p] EXCEPT !.set = TRUE] \in Buffer
      BY <1>1 DEF Buffer
    <3>3. PICK b \in Buffer : b.set /\ b.pending = <<>> /\ b = [buffer[p] EXCEPT !.set = TRUE]
      BY <1>1, <3>1, <3>2 DEF Buffer
    <3>4. buffer' = [buffer EXCEPT ![p] = b]
      BY <2>1, <3>3 DEF Marked
    <3> QED
      BY <2>1, <3>3, <3>4 DEF Marked
  <2>2. CASE ~ (buffer[p].set \/ buffer[p].pending = <<>>)
    <3>1. PICK k \in Handle :
            /\ k = [h EXCEPT !.draining = buffer[p].pending, !.answer = h.role = "answerer"]
            /\ k.pairing = h.pairing
      <4>1. [h EXCEPT !.draining = buffer[p].pending, !.answer = h.role = "answerer"]
              \in Handle
        BY <1>1 DEF Handle, Buffer
      <4> QED
        BY <4>1 DEF Handle
    <3>2. PICK b \in Buffer : b = [set |-> TRUE, pending |-> <<>>]
      <4>1. [set |-> TRUE, pending |-> <<>>] \in Buffer
        BY DEF Buffer
      <4> QED
        BY <4>1
    <3>3. /\ handle' = [handle EXCEPT ![p] = k]
          /\ buffer' = [buffer EXCEPT ![p] = b]
          /\ UNCHANGED frames
      BY <2>2, <3>1, <3>2 DEF Marked
    <3> QED
      BY <3>1, <3>2, <3>3
  <2> QED
    BY <2>1, <2>2
<1>3. /\ handle'[p] = k /\ buffer'[p] = b
      /\ handle' \in [Peers -> Handle \cup {NoHandle}]
      /\ buffer' \in [Peers -> Buffer \cup {NoBuffer}]
      /\ \A q \in Peers \ {p} : handle'[q] = handle[q] /\ buffer'[q] = buffer[q]
  BY <1>2 DEF IInv, TInv, TabTypeOK
<1>4. /\ session' \in [Peers -> Sessions]
      /\ net' \in [Peers -> {"none", "open", "lost", "closed"}]
      /\ missed' \subseteq 1..MaxPeers
  BY DEF IInv, TInv, CallTypeOK
<1>5. TabOK(p)'
  BY <1>1, <1>2, <1>3, InUse DEF TabOK, HasHandle
<1>6. /\ frames' \in [Peers -> Seq(Frame)]
      /\ \A q \in Peers :
           \/ frames'[q] = frames[q]
           \/ \E f \in Frame : /\ f.type # "media_ready"
                               /\ frames'[q] = Append(frames[q], f)
  BY <1>2, SignalStep
<1>7. MessagesOK'
  BY <1>6 DEF IInv, TInv, MessagesOK, server
<1> QED
  BY <1>3, <1>4, <1>5, <1>6, <1>7, TabStep

\* A step that leaves the buffer and the session alone, and of the connection
\* what the invariant speaks of.
LEMMA HandleOnlyStep ==
  ASSUME IInv, NEW p \in Peers, HasHandle(p), NEW h \in Handle,
         NEW t \in {"offer", "answer"}, Signal(p, t) \/ UNCHANGED frames,
         handle' = [handle EXCEPT ![p] = h],
         h.pairing = handle[p].pairing, h.remote = handle[p].remote,
         h.connection = handle[p].connection,
         UNCHANGED <<server, inbox, net, session, buffer, missed>>
  PROVE  IInv'
<1>1. /\ handle'[p] = h
      /\ handle' \in [Peers -> Handle \cup {NoHandle}]
      /\ buffer' \in [Peers -> Buffer \cup {NoBuffer}]
      /\ \A q \in Peers \ {p} : handle'[q] = handle[q]
  BY DEF IInv, TInv, TabTypeOK
<1>2. /\ session' \in [Peers -> Sessions]
      /\ net' \in [Peers -> {"none", "open", "lost", "closed"}]
      /\ missed' \subseteq 1..MaxPeers
  BY DEF IInv, TInv, CallTypeOK
<1>3. TabOK(p)'
  BY <1>1, TabFacts DEF TabOK, HasHandle
<1>4. /\ frames' \in [Peers -> Seq(Frame)]
      /\ \A q \in Peers :
           \/ frames'[q] = frames[q]
           \/ \E f \in Frame : /\ f.type # "media_ready"
                               /\ frames'[q] = Append(frames[q], f)
  BY SignalStep
<1>5. MessagesOK'
  BY <1>4 DEF IInv, TInv, MessagesOK, server
<1> QED
  BY <1>1, <1>2, <1>3, <1>4, <1>5, TabStep

LEMMA SettleStep ==
  ASSUME IInv, NEW p \in Peers, Settle(p)
  PROVE  IInv'
<1> DEFINE o == Head(handle[p].ops)
           h == [handle[p] EXCEPT !.ops = Tail(@)]
<1>1. /\ HasHandle(p) /\ handle[p] \in Handle /\ handle[p].ops # <<>>
      /\ UNCHANGED <<server, inbox, net, session, missed>>
  BY TabFacts DEF Settle
<1>2. o \in Operation /\ Tail(handle[p].ops) \in Seq(Operation)
  <2>1. handle[p].ops \in Seq(Operation)
    BY <1>1 DEF Handle
  <2> QED
    BY <1>1, <2>1, HeadTail
<1>3. PICK k \in Handle :
        /\ k = h
        /\ k.pairing = handle[p].pairing /\ k.remote = handle[p].remote
        /\ k.connection = handle[p].connection
  <2>1. h \in Handle
    BY <1>1, <1>2 DEF Handle
  <2> QED
    BY <1>1, <2>1 DEF Handle
<1>4. ASSUME o.op = "createOffer",
             handle' = [handle EXCEPT ![p] =
               [k EXCEPT !.signaling = "have-local-offer", !.local = TRUE]],
             Signal(p, "offer"), UNCHANGED buffer
      PROVE  IInv'
  <2>1. PICK x \in Handle :
          /\ x = [k EXCEPT !.signaling = "have-local-offer", !.local = TRUE]
          /\ x.pairing = k.pairing /\ x.remote = k.remote /\ x.connection = k.connection
    <3>1. [k EXCEPT !.signaling = "have-local-offer", !.local = TRUE] \in Handle
      BY DEF Handle
    <3> QED
      BY <3>1 DEF Handle
  <2> QED
    BY <1>1, <1>3, <1>4, <2>1, HandleOnlyStep
<1>5. ASSUME NEW x \in Handle, x.pairing = k.pairing, Marked(p, x)
      PROVE  IInv'
  BY <1>1, <1>3, <1>5, MarkedStep
<1>6. ASSUME handle' = [handle EXCEPT ![p] = k], UNCHANGED <<frames, buffer>>
      PROVE  IInv'
  BY <1>1, <1>3, <1>6, HandleOnlyStep
<1>7. PICK x \in Handle :
        /\ x = [k EXCEPT !.remote = o.remote, !.local = TRUE]
        /\ x.pairing = k.pairing
  <2>1. [k EXCEPT !.remote = o.remote, !.local = TRUE] \in Handle
    BY <1>2 DEF Handle, Operation
  <2> QED
    BY <2>1 DEF Handle
<1>8. PICK y \in Handle :
        /\ y = [k EXCEPT !.remote = o.remote, !.signaling = "stable"]
        /\ y.pairing = k.pairing
  <2>1. [k EXCEPT !.remote = o.remote, !.signaling = "stable"] \in Handle
    BY <1>2 DEF Handle, Operation
  <2> QED
    BY <2>1 DEF Handle
<1>9. \/ /\ o.op = "createOffer"
         /\ handle' = [handle EXCEPT ![p] =
              [h EXCEPT !.signaling = "have-local-offer", !.local = TRUE]]
         /\ Signal(p, "offer") /\ UNCHANGED buffer
      \/ Marked(p, [h EXCEPT !.remote = o.remote, !.local = TRUE])
      \/ Marked(p, [h EXCEPT !.remote = o.remote, !.signaling = "stable"])
      \/ handle' = [handle EXCEPT ![p] = h] /\ UNCHANGED <<frames, buffer>>
  BY DEF Settle
<1> HIDE DEF o, h
<1>10. \/ /\ o.op = "createOffer"
          /\ handle' = [handle EXCEPT ![p] =
               [k EXCEPT !.signaling = "have-local-offer", !.local = TRUE]]
          /\ Signal(p, "offer") /\ UNCHANGED buffer
       \/ Marked(p, x) \/ Marked(p, y)
       \/ handle' = [handle EXCEPT ![p] = k] /\ UNCHANGED <<frames, buffer>>
  BY <1>3, <1>7, <1>8, <1>9
<1> QED
  BY <1>4, <1>5, <1>6, <1>7, <1>8, <1>10

LEMMA DrainStep ==
  ASSUME IInv, NEW p \in Peers, Drain(p)
  PROVE  IInv'
<1> DEFINE h == [handle[p] EXCEPT !.draining = Tail(@)]
<1>1. /\ HasHandle(p) /\ handle[p] \in Handle /\ handle[p].draining # <<>>
      /\ UNCHANGED <<server, inbox, net, session, buffer, missed>>
  BY TabFacts DEF Drain
<1>2. Tail(handle[p].draining) \in Seq(1..MaxCandidates)
  <2>1. handle[p].draining \in Seq(1..MaxCandidates)
    BY <1>1 DEF Handle
  <2> QED
    BY <1>1, <2>1, HeadTail
<1>3. PICK k \in Handle :
        /\ k = h
        /\ k.pairing = handle[p].pairing /\ k.remote = handle[p].remote
        /\ k.connection = handle[p].connection
  <2>1. h \in Handle
    BY <1>1, <1>2 DEF Handle
  <2> QED
    BY <1>1, <2>1 DEF Handle
<1>4. PICK x \in Handle :
        /\ x = [k EXCEPT !.answer = FALSE]
        /\ x.pairing = k.pairing /\ x.remote = k.remote /\ x.connection = k.connection
  <2>1. [k EXCEPT !.answer = FALSE] \in Handle
    BY DEF Handle
  <2> QED
    BY <2>1 DEF Handle
<1>5. \/ handle' = [handle EXCEPT ![p] = [h EXCEPT !.answer = FALSE]] /\ Signal(p, "answer")
      \/ handle' = [handle EXCEPT ![p] = h] /\ UNCHANGED frames
  BY DEF Drain
<1> HIDE DEF h
<1>6. \/ handle' = [handle EXCEPT ![p] = x] /\ Signal(p, "answer")
      \/ handle' = [handle EXCEPT ![p] = k] /\ UNCHANGED frames
  BY <1>3, <1>4, <1>5
<1>7. CASE handle' = [handle EXCEPT ![p] = x] /\ Signal(p, "answer")
  BY <1>1, <1>3, <1>4, <1>7, HandleOnlyStep
<1>8. CASE handle' = [handle EXCEPT ![p] = k] /\ UNCHANGED frames
  BY <1>1, <1>3, <1>8, HandleOnlyStep
<1> QED
  BY <1>6, <1>7, <1>8

LEMMA GatherCandidateStep ==
  ASSUME IInv, NEW p \in Peers, GatherCandidate(p)
  PROVE  IInv'
<1>1. /\ HasHandle(p) /\ handle[p] \in Handle
      /\ handle[p].gathered < MaxCandidates
      /\ UNCHANGED <<server, inbox, net, session, buffer, missed>>
      /\ TabOK(p) /\ MessagesOK
  BY TabFacts DEF GatherCandidate, IInv, TInv
<1>2. handle[p].gathered + 1 \in 1..MaxCandidates
  BY <1>1, BoundsAssumption DEF Handle
<1>3. PICK f \in Frame :
        f = [type |-> "ice_candidate", candidate |-> handle[p].gathered + 1]
  BY <1>2, FrameTypes
<1>4. Emit(p, f) /\ f.type # "media_ready"
  BY <1>3 DEF GatherCandidate
<1>5. /\ frames' \in [Peers -> Seq(Frame)]
      /\ \A q \in Peers :
           \/ frames'[q] = frames[q]
           \/ \E g \in Frame : /\ g.type # "media_ready"
                               /\ frames'[q] = Append(frames[q], g)
  BY <1>1, <1>4, EmitStep
<1>6. PICK h \in Handle :
        /\ handle' = [handle EXCEPT ![p] = h]
        /\ h.pairing = handle[p].pairing /\ h.remote = handle[p].remote
        /\ h.connection = handle[p].connection
  <2>1. [handle[p] EXCEPT !.gathered = @ + 1] \in Handle
    BY <1>1, <1>2 DEF Handle
  <2> QED
    BY <1>1, <2>1 DEF GatherCandidate, Handle
<1>7. /\ handle'[p] = h
      /\ handle' \in [Peers -> Handle \cup {NoHandle}]
      /\ buffer' \in [Peers -> Buffer \cup {NoBuffer}]
      /\ \A q \in Peers \ {p} : handle'[q] = handle[q]
  BY <1>1, <1>6 DEF IInv, TInv, TabTypeOK
<1>8. /\ session' \in [Peers -> Sessions]
      /\ net' \in [Peers -> {"none", "open", "lost", "closed"}]
      /\ missed' \subseteq 1..MaxPeers
  BY <1>1 DEF IInv, TInv, CallTypeOK
<1>9. TabOK(p)'
  BY <1>1, <1>6, <1>7 DEF TabOK, HasHandle
<1>10. MessagesOK'
  BY <1>1, <1>5 DEF MessagesOK, server
<1> QED
  BY <1>1, <1>5, <1>7, <1>8, <1>9, <1>10, TabStep

LEMMA ConnectStep ==
  ASSUME IInv, NEW p \in Peers, Connect(p)
  PROVE  IInv'
<1>1. /\ HasHandle(p) /\ handle[p] \in Handle /\ buffer[p] \in Buffer
      /\ session[p] \in InCallSessions /\ TabOK(p) /\ MessagesOK
      /\ UNCHANGED <<server, frames, inbox, net, buffer, missed>>
  BY TabFacts DEF Connect, IInv, TInv
<1>2. handle[p].remote # NoDescription
  BY DEF Connect, HasDescriptionOf, Negotiated
<1>3. PICK h \in Handle :
        /\ handle' = [handle EXCEPT ![p] = h]
        /\ h.pairing = handle[p].pairing /\ h.remote = handle[p].remote
  <2>1. [handle[p] EXCEPT !.connection = "connected"] \in Handle
    BY <1>1 DEF Handle
  <2> QED
    BY <1>1, <2>1 DEF Connect, Handle
<1>4. /\ session' \in [Peers -> Sessions] /\ session'[p] \in InCallSessions
      /\ session[p] # "idle" /\ session'[p] \notin {"idle", "pending-media"}
      /\ \A q \in Peers \ {p} : session'[q] = session[q]
  BY <1>1 DEF IInv, TInv, CallTypeOK, Connect, Sessions, InCallSessions
<1>5. /\ handle'[p] = h
      /\ handle' \in [Peers -> Handle \cup {NoHandle}]
      /\ buffer' \in [Peers -> Buffer \cup {NoBuffer}]
      /\ \A q \in Peers \ {p} : handle'[q] = handle[q]
  BY <1>1, <1>3 DEF IInv, TInv, TabTypeOK
<1>6. /\ net' \in [Peers -> {"none", "open", "lost", "closed"}]
      /\ missed' \subseteq 1..MaxPeers
  BY <1>1 DEF IInv, TInv, CallTypeOK
<1>7. TabOK(p)'
  BY <1>1, <1>2, <1>3, <1>4, <1>5 DEF TabOK, HasHandle
<1>8. MessagesOK'
  BY <1>1 DEF MessagesOK, server
<1> QED
  BY <1>1, <1>4, <1>5, <1>6, <1>7, <1>8, TabStep

LEMMA FailStep ==
  ASSUME IInv, NEW p \in Peers, Fail(p)
  PROVE  IInv'
<1>1. /\ session' = [session EXCEPT ![p] = "failed"]
      /\ Teardown(p) /\ MessagesOK
      /\ UNCHANGED <<server, frames, inbox, net, missed>>
  BY DEF Fail, IInv, TInv
<1>2. /\ session' \in [Peers -> Sessions] /\ session'[p] = "failed"
      /\ session[p] # "idle"
      /\ \A q \in Peers \ {p} : session'[q] = session[q]
      /\ net' \in [Peers -> {"none", "open", "lost", "closed"}]
      /\ missed' \subseteq 1..MaxPeers
  BY <1>1 DEF IInv, TInv, CallTypeOK, Sessions, InCallSessions, Fail
<1>3. /\ handle' \in [Peers -> Handle \cup {NoHandle}]
      /\ buffer' \in [Peers -> Buffer \cup {NoBuffer}]
      /\ \A q \in Peers \ {p} : handle'[q] = handle[q] /\ buffer'[q] = buffer[q]
      /\ TabOK(p)'
  BY <1>1, <1>2, TornDown DEF InCallSessions
<1>4. MessagesOK'
  BY <1>1 DEF MessagesOK, server
<1> QED
  BY <1>1, <1>2, <1>3, <1>4, TabStep

LEMMA LeaveStep ==
  ASSUME IInv, NEW p \in Peers, Leave(p)
  PROVE  IInv'
<1>1. /\ session' = [session EXCEPT ![p] = "left"]
      /\ net' = [net EXCEPT ![p] = "closed"]
      /\ inbox' = [inbox EXCEPT ![p] = <<>>]
      /\ Teardown(p) /\ session[p] # "idle"
      /\ UNCHANGED <<server, missed>> /\ MessagesOK
  BY DEF Leave, IInv, TInv
<1>2. /\ session' \in [Peers -> Sessions] /\ session'[p] = "left"
      /\ \A q \in Peers \ {p} : session'[q] = session[q]
      /\ missed' \subseteq 1..MaxPeers
  BY <1>1 DEF IInv, TInv, CallTypeOK, Sessions
<1>3. /\ net' \in [Peers -> {"none", "open", "lost", "closed"}]
      /\ \A q \in Peers : net'[q] = "none" <=> net[q] = "none"
  BY <1>1 DEF IInv, TInv, CallTypeOK, ReadyOnce
<1>4. /\ handle' \in [Peers -> Handle \cup {NoHandle}]
      /\ buffer' \in [Peers -> Buffer \cup {NoBuffer}]
      /\ \A q \in Peers \ {p} : handle'[q] = handle[q] /\ buffer'[q] = buffer[q]
      /\ TabOK(p)'
  BY <1>1, <1>2, TornDown DEF InCallSessions
<1>5. PICK f \in Frame : f.type = "end" /\ Emit(p, f)
  BY FrameTypes DEF Leave
<1>6. /\ frames' \in [Peers -> Seq(Frame)]
      /\ \A q \in Peers :
           \/ frames'[q] = frames[q]
           \/ \E g \in Frame : /\ g.type # "media_ready"
                               /\ frames'[q] = Append(frames[q], g)
  BY <1>1, <1>5, EmitStep
<1>7. MessagesOK'
  <2>1. inbox' \in [Peers -> Seq(ToTab)]
    BY <1>1 DEF MessagesOK
  <2> QED
    BY <1>1, <1>6, <2>1 DEF MessagesOK, server
<1> QED
  BY <1>1, <1>2, <1>3, <1>4, <1>6, <1>7, TabStep

LEMMA TransportErrorStep ==
  ASSUME IInv, NEW p \in Peers, TransportError(p)
  PROVE  IInv'
<1>1. /\ net[p] = "lost" /\ net' = [net EXCEPT ![p] = "closed"]
      /\ UNCHANGED <<server, frames, inbox, missed>> /\ MessagesOK
  BY DEF TransportError, IInv, TInv
<1>2. /\ net' \in [Peers -> {"none", "open", "lost", "closed"}]
      /\ \A q \in Peers : net'[q] = "none" <=> net[q] = "none"
      /\ missed' \subseteq 1..MaxPeers
  BY <1>1 DEF IInv, TInv, CallTypeOK
<1>3. MessagesOK'
  BY <1>1 DEF MessagesOK, server
<1>4. CASE session[p] \in {"pending-media", "waiting-for-peer", "connecting"}
  <2>1. session' = [session EXCEPT ![p] = "failed"] /\ Teardown(p)
    BY <1>4 DEF TransportError
  <2>2. /\ session' \in [Peers -> Sessions] /\ session'[p] = "failed"
        /\ \A q \in Peers \ {p} : session'[q] = session[q]
    BY <2>1 DEF IInv, TInv, CallTypeOK, Sessions
  <2>3. /\ handle' \in [Peers -> Handle \cup {NoHandle}]
        /\ buffer' \in [Peers -> Buffer \cup {NoBuffer}]
        /\ \A q \in Peers \ {p} : handle'[q] = handle[q] /\ buffer'[q] = buffer[q]
        /\ TabOK(p)'
    BY <2>1, <2>2, TornDown DEF InCallSessions
  <2> QED
    BY <1>1, <1>2, <1>3, <1>4, <2>2, <2>3, TabStep
<1>5. CASE UNCHANGED tab
  <2>1. UNCHANGED <<handle, buffer, session>>
    BY <1>5 DEF tab
  <2>2. /\ handle' \in [Peers -> Handle \cup {NoHandle}]
        /\ buffer' \in [Peers -> Buffer \cup {NoBuffer}]
        /\ session' \in [Peers -> Sessions]
    BY <2>1 DEF IInv, TInv, TabTypeOK, CallTypeOK
  <2>3. TabOK(p)'
    BY <2>1, TabFacts DEF TabOK, HasHandle
  <2> QED
    BY <1>1, <1>2, <1>3, <2>1, <2>2, <2>3, TabStep
<1> QED
  BY <1>4, <1>5 DEF TransportError

\* A lost WebSocket loses the end of what was sent over it.
LEMMA DropStep ==
  ASSUME IInv, NEW p \in Peers, Drop(p)
  PROVE  IInv'
<1> USE DEF IInv, TInv
<1>1. /\ net[p] = "open" /\ net' = [net EXCEPT ![p] = "lost"]
      /\ inbox' = [inbox EXCEPT ![p] = <<>>]
      /\ UNCHANGED <<member, stage, pairings, sends, tab, missed>>
  BY DEF Drop, server
<1>2. frames[p] \in Seq(Frame) /\ Once(frames[p])
  BY DEF MessagesOK, ReadyOnce
<1>3. PICK f \in Frame : f.type = "end" /\ f = [type |-> "end"]
  BY FrameTypes
<1>4. PICK n \in 0..Len(frames[p]) :
        frames' = [frames EXCEPT ![p] = Append(SubSeq(@, 1, n), f)]
  BY <1>3 DEF Drop
<1>5. PICK r \in Seq(Frame) : /\ r = SubSeq(frames[p], 1, n)
                              /\ Quiet(frames[p]) => Quiet(r)
                              /\ Once(r)
  <2>1. SubSeq(frames[p], 1, n) \in Seq(Frame)
    BY <1>2
  <2> QED
    BY <1>2, <1>3, <2>1, QueueQuiet, QueueOnce
<1>6. PICK s \in Seq(Frame) : s = Append(r, f)
  <2>1. Append(r, f) \in Seq(Frame)
    BY OneMore
  <2> QED
    BY <2>1
<1>7. (Quiet(frames[p]) => Quiet(s)) /\ Once(s)
  BY <1>3, <1>5, <1>6, QueueQuiet, QueueOnce
<1>8. /\ frames' \in [Peers -> Seq(Frame)] /\ frames'[p] = s
      /\ \A q \in Peers \ {p} : frames'[q] = frames[q]
  BY <1>4, <1>5, <1>6 DEF MessagesOK
<1>9. CallTypeOK'
  BY <1>1 DEF CallTypeOK, tab, HasHandle
<1>10. MessagesOK'
  <2>1. inbox' \in [Peers -> Seq(ToTab)]
    BY <1>1 DEF MessagesOK
  <2> QED
    BY <1>1, <1>8, <2>1 DEF MessagesOK
<1>11. ReadyOnce'
  <2> SUFFICES ASSUME NEW x \in Peers
               PROVE  /\ net'[x] = "none" <=> session'[x] = "idle"
                      /\ session'[x] \in {"idle", "pending-media"} => ~ member'[x].ready
                      /\ (\/ session'[x] \in {"idle", "pending-media"}
                          \/ member'[x].ready) => Quiet(frames'[x])
                      /\ Once(frames'[x])
    BY <1>10 DEF ReadyOnce, Quiet, Once
  <2>1. /\ net'[x] = "none" <=> net[x] = "none"
        /\ session' = session /\ member' = member
    BY <1>1 DEF tab, CallTypeOK
  <2>2. (Quiet(frames[x]) => Quiet(frames'[x])) /\ Once(frames'[x])
    <3>1. Once(frames[x])
      BY DEF ReadyOnce
    <3> QED
      BY <1>7, <1>8, <3>1
  <2> QED
    BY <2>1, <2>2 DEF ReadyOnce
<1>12. PairingsHeard'
  BY <1>1, HeardKept
<1> QED
  BY <1>1, <1>9, <1>10, <1>11, <1>12, TabKept

-----------------------------------------------------------------------------
(* The theorems. *)

\* Whatever the participants, the network and the goroutines do, in whatever
\* order, the invariant holds: in particular no more pairings are made than
\* participants come.
THEOREM Inductive == Spec => []IInv
<1>1. IInv /\ [Next]_vars => IInv'
  <2> SUFFICES ASSUME IInv, [Next]_vars
               PROVE  IInv'
    OBVIOUS
  <2>1. ASSUME NEW p \in Peers, Served(p)
        PROVE  IInv'
    BY <2>1, ReadStep, ReleaseStep, SendStep DEF Served
  <2>2. ASSUME NEW p \in Peers, Browser(p)
        PROVE  IInv'
    BY <2>2, ReceiveStep, SettleStep, DrainStep, TransportErrorStep DEF Browser
  <2>3. ASSUME NEW p \in Peers,
               \/ Join(p) \/ MediaReadySent(p) \/ GatherCandidate(p) \/ Connect(p)
               \/ Fail(p) \/ Leave(p) \/ Drop(p)
        PROVE  IInv'
    BY <2>3, JoinStep, MediaReadySentStep, GatherCandidateStep, ConnectStep, FailStep,
       LeaveStep, DropStep
  <2>4. CASE UNCHANGED vars
    <3>1. UNCHANGED <<member, stage, pairings, sends, frames, inbox, net, session,
                      handle, buffer, missed>>
      BY <2>4 DEF vars, server, tab
    <3>2. Heard' = Heard
      BY <3>1 DEF Heard
    <3> QED
      BY <3>1, <3>2
         DEF IInv, TInv, CallTypeOK, TabTypeOK, MessagesOK, ReadyOnce, PairingsHeard,
             HandleIffInCall, DrainedInOrder, HasHandle
  <2> QED
    BY <2>1, <2>2, <2>3, <2>4 DEF Next
<1> QED
  BY <1>1, Initially, PTL DEF Spec

\* Every variable keeps its type.
THEOREM TypeCorrect == Spec => []CallTypeOK
<1>1. IInv => CallTypeOK
  BY DEF IInv, TInv
<1> QED
  BY <1>1, Inductive, PTL

\* Through all four clean-up paths a tab holds a connection, with its buffer of
\* candidates, just while its session is in a call (cleanup.tsx, negotiation.ts).
THEOREM HandleInCall == Spec => []HandleIffInCall
<1>1. IInv => HandleIffInCall
  BY DEF IInv
<1> QED
  BY <1>1, Inductive, PTL

\* No candidate is left in the buffer once the remote description is set, and
\* none under a connected call (ice-buffer.ts).
THEOREM NoneStranded == Spec => []NoCandidateStranded
<1>1. IInv => NoCandidateStranded
  BY DEF IInv, DrainedInOrder, NoCandidateStranded
<1> QED
  BY <1>1, Inductive, PTL

=============================================================================
