------------------------ MODULE MeshPairClientProofs ------------------------
(***************************************************************************)
(* The client and the server of a mesh pair implement PairHandshake, for   *)
(* any number of attempts and of candidates.  IInv is the inductive        *)
(* invariant: the messages that are under way, the contexts, and what they *)
(* say about each other.  OnceInv adds that a description is sent once,    *)
(* OwedInv that nothing one end is owed is lost on the way.                *)
(***************************************************************************)
EXTENDS MeshPairClient, SequenceTheorems, TLAPS

(* Types of what is under way. *)

\* What a browser sends, and its connection's goroutine reads.
Upward ==
  [type : {"pair_offer", "pair_answer", "pair_failed", "reconnect_pair"}, epoch : Epochs]
  \cup [type : {"pair_ice_candidate"}, epoch : Epochs, candidate : Candidates]
  \cup [type : {"leave_room"}, epoch : {0}]

\* The instructions to begin an attempt.
Instruction ==
  [type : {"pair_negotiation_instruction", "pair_reconnect_instruction"}, epoch : Epochs]

\* What a browser receives.
Downward ==
  [type : {"pair_offer", "pair_answer", "pair_failed"}, epoch : Epochs]
  \cup [type : {"pair_ice_candidate"}, epoch : Epochs, candidate : Candidates]
  \cup [type : {"left"}, epoch : {0}] \cup [type : {"error"}] \cup Instruction

Delivery == [to : Ends, msg : Downward]

MessagesOK ==
  /\ frames \in [Ends -> Seq(Upward)]
  /\ sends \in [Ends -> Seq(Delivery)]
  /\ inbox \in [Ends -> Seq(Downward)]

RoomOK == room \in Room /\ Epoch \in Epochs

(* What the contexts, here cs, say of an attempt. *)

Live(c) == c.state \notin {"none", "closed"}
HasBegun(cs, e, k) == cs[e][k].state # "none"
HasApplied(cs, e, k) == cs[e][k].remoteDescriptionApplied

\* A context that is not begun is blank, one that is closed waits for
\* nothing, and one that is flushed has a candidate to flush; the answerer
\* goes on with an offer its partner has made, and the offerer with an answer
\* to a description its partner has applied.
ContextOK(e, k) ==
  LET c == ctx[e][k]
  IN /\ c.state = "none" => c = NoContext
     /\ c.state = "closed" => c.await = "nothing"
     /\ c.await = "flush" => c.remoteDescriptionApplied /\ c.iceBuffer # <<>>
     /\ c.state # "none" => k <= Epoch
     /\ Live(c) => pairs[e] = k
     /\ e = Offerer =>
          /\ c.await \in {"nothing", "createOffer", "setLocalOffer",
                          "setRemoteAnswer", "flush"}
          /\ c.await = "setRemoteAnswer" \/ c.remoteDescriptionApplied =>
               HasApplied(ctx, Answerer, k)
     /\ e = Answerer =>
          /\ c.await \in {"nothing", "setRemoteOffer", "flush", "createAnswer",
                          "setLocalAnswer"}
          /\ c.await # "nothing" \/ c.remoteDescriptionApplied =>
               HasBegun(ctx, Offerer, k)
          /\ c.await \in {"createAnswer", "setLocalAnswer"} =>
               c.remoteDescriptionApplied

ContextsOK == \A e \in Ends, k \in Epochs : ContextOK(e, k)

\* The context in the map is the live one, of the attempt begun last.
PairsOK ==
  \A e \in Ends : pairs[e] # 0 =>
    /\ Live(ctx[e][pairs[e]])
    /\ \A k \in Epochs : HasBegun(ctx, e, k) => k <= pairs[e]

\* A message m that end e has sent: an offer is of an attempt the offerer has
\* begun, an answer follows a description the answerer has applied, and a
\* failure is of an attempt that was completed at one end.
Sound(cs, e, m) ==
  /\ m.type = "pair_offer" => e = Offerer /\ HasBegun(cs, Offerer, m.epoch)
  /\ m.type = "pair_answer" => e = Answerer /\ HasApplied(cs, Answerer, m.epoch)
  /\ m.type = "pair_failed" => HasApplied(cs, Answerer, m.epoch)

MessagesSound ==
  \A e \in Ends :
    /\ \A m \in Range(frames[e]) : Sound(ctx, e, m)
    /\ \A d \in Range(sends[e]) : Sound(ctx, Other(d.to), d.msg)
    /\ \A m \in Range(inbox[e]) : Sound(ctx, Other(e), m)

\* The room says failed only of an attempt that was completed, and the
\* server goes on to a new attempt only from one that failed.
FailureSound ==
  /\ room.pairs[PairId].state = "failed" => HasApplied(ctx, Answerer, Epoch)
  /\ \A k \in Epochs : k < Epoch => HasApplied(ctx, Answerer, k)

\* At most one instruction is on its way to an end, of the current attempt,
\* and only as long as the end has not begun it.
InstructionsTo(e) == {To(e, m) : m \in Instruction}

AtMostOne(s, S) == \A i, j \in 1..Len(s) : s[i] \in S /\ s[j] \in S => i = j
None(s, S) == \A i \in 1..Len(s) : s[i] \notin S

InstructionsOK ==
  \A e \in Ends :
    /\ AtMostOne(inbox[e], Instruction)
    /\ \A g \in Ends :
         /\ AtMostOne(sends[g], InstructionsTo(e))
         /\ ~ None(sends[g], InstructionsTo(e)) =>
              /\ None(sends[Other(g)], InstructionsTo(e))
              /\ None(inbox[e], Instruction)
         /\ \A d \in Range(sends[g]) : d \in InstructionsTo(e) =>
              d.msg.epoch = Epoch /\ ~ HasBegun(ctx, e, Epoch)
    /\ \A m \in Range(inbox[e]) : m \in Instruction =>
         m.epoch = Epoch /\ ~ HasBegun(ctx, e, Epoch)

IInv ==
  /\ TypeOK /\ MessagesOK /\ RoomOK
  /\ ContextsOK /\ PairsOK /\ MessagesSound /\ FailureSound /\ InstructionsOK

-----------------------------------------------------------------------------
(* Sequences. *)

LEMMA EmptyFacts ==
  ASSUME NEW S, NEW T
  PROVE  <<>> \in Seq(S) /\ Range(<<>>) = {} /\ None(<<>>, T) /\ AtMostOne(<<>>, T)
BY DEF Range, None, AtMostOne

LEMMA OneFacts ==
  ASSUME NEW S, NEW m \in S, NEW T
  PROVE  /\ <<m>> \in Seq(S) /\ Range(<<m>>) = {m}
         /\ None(<<m>>, T) <=> m \notin T
         /\ AtMostOne(<<m>>, T)
BY DEF Range, None, AtMostOne

LEMMA TwoFacts ==
  ASSUME NEW S, NEW a \in S, NEW b \in S, NEW T
  PROVE  /\ <<a, b>> \in Seq(S) /\ Range(<<a, b>>) = {a, b}
         /\ None(<<a, b>>, T) <=> a \notin T /\ b \notin T
         /\ ~ (a \in T /\ b \in T) => AtMostOne(<<a, b>>, T)
<1>1. Len(<<a, b>>) = 2 /\ <<a, b>>[1] = a /\ <<a, b>>[2] = b /\ DOMAIN <<a, b>> = 1..2
      /\ <<a, b>> \in Seq(S)
  OBVIOUS
<1> DEFINE s == <<a, b>>
<1> HIDE DEF s
<1>2. /\ Range(s) = {a, b}
      /\ None(s, T) <=> a \notin T /\ b \notin T
      /\ ~ (a \in T /\ b \in T) => AtMostOne(s, T)
  BY <1>1 DEF Range, None, AtMostOne, s
<1> QED
  BY <1>1, <1>2 DEF s

LEMMA AppendFacts ==
  ASSUME NEW S, NEW s \in Seq(S), NEW m \in S, NEW T
  PROVE  /\ Append(s, m) \in Seq(S) /\ Range(Append(s, m)) = Range(s) \cup {m}
         /\ None(Append(s, m), T) <=> None(s, T) /\ m \notin T
         /\ AtMostOne(s, T) /\ (m \in T => None(s, T)) => AtMostOne(Append(s, m), T)
<1> DEFINE t == Append(s, m)
<1>1. /\ t \in Seq(S) /\ Len(s) \in Nat /\ Len(t) = Len(s) + 1 /\ t[Len(s) + 1] = m
      /\ DOMAIN s = 1..Len(s) /\ DOMAIN t = 1..Len(t)
      /\ \A i \in 1..Len(s) : t[i] = s[i]
  BY AppendProperties, LenProperties
<1> HIDE DEF t
<1>2. \A i \in 1..Len(t) : i \in 1..Len(s) \/ i = Len(s) + 1
  BY <1>1
<1>3. /\ 1..Len(s) \subseteq 1..Len(t)
      /\ Len(s) + 1 \in 1..Len(t) /\ Len(s) + 1 \notin 1..Len(s)
  BY <1>1
<1>4. Range(t) = Range(s) \cup {m}
  BY <1>1, <1>2, <1>3 DEF Range
<1>5. None(t, T) <=> None(s, T) /\ m \notin T
  BY <1>1, <1>2, <1>3 DEF None
<1>6. AtMostOne(s, T) /\ (m \in T => None(s, T)) => AtMostOne(t, T)
  BY <1>1, <1>2, <1>3 DEF None, AtMostOne
<1> QED
  BY <1>1, <1>4, <1>5, <1>6 DEF t

LEMMA HeadFacts ==
  ASSUME NEW S, NEW s \in Seq(S), s # <<>>, NEW T
  PROVE  /\ Head(s) \in S /\ Head(s) \in Range(s)
         /\ Tail(s) \in Seq(S) /\ Range(Tail(s)) \subseteq Range(s)
         /\ None(s, T) => None(Tail(s), T) /\ Head(s) \notin T
         /\ AtMostOne(s, T) => /\ AtMostOne(Tail(s), T)
                               /\ Head(s) \in T => None(Tail(s), T)
<1> DEFINE t == Tail(s)
<1>1. /\ t \in Seq(S) /\ Len(s) \in Nat /\ Len(s) # 0 /\ Len(t) = Len(s) - 1
      /\ Head(s) = s[1] /\ Head(s) \in S
      /\ DOMAIN s = 1..Len(s) /\ DOMAIN t = 1..Len(t)
      /\ \A i \in 1..Len(t) : t[i] = s[i + 1]
  BY HeadTailProperties, LenProperties, EmptySeq
<1> HIDE DEF t
<1>2. 1 \in 1..Len(s) /\ \A i \in 1..Len(t) : i + 1 \in 1..Len(s) /\ i + 1 # 1
  BY <1>1
<1>3. Head(s) \in Range(s) /\ Range(t) \subseteq Range(s)
  BY <1>1, <1>2 DEF Range
<1>4. None(s, T) => None(t, T) /\ Head(s) \notin T
  BY <1>1, <1>2 DEF None
<1>5. AtMostOne(s, T) => AtMostOne(t, T)
  <2> SUFFICES ASSUME AtMostOne(s, T), NEW i \in 1..Len(t), NEW j \in 1..Len(t),
                      t[i] \in T, t[j] \in T
               PROVE  i = j
    BY DEF AtMostOne
  <2>1. i + 1 = j + 1
    BY <1>1, <1>2 DEF AtMostOne
  <2> QED
    BY <1>1, <2>1
<1>6. AtMostOne(s, T) /\ Head(s) \in T => None(t, T)
  BY <1>1, <1>2 DEF AtMostOne, None
<1> QED
  BY <1>1, <1>3, <1>4, <1>5, <1>6 DEF t

LEMMA PrefixFacts ==
  ASSUME NEW S, NEW s \in Seq(S), NEW n \in 0..Len(s), NEW m \in S
  PROVE  /\ Append(SubSeq(s, 1, n), m) \in Seq(S)
         /\ Range(Append(SubSeq(s, 1, n), m)) \subseteq Range(s) \cup {m}
<1> DEFINE t == SubSeq(s, 1, n)
<1>1. /\ Len(s) \in Nat /\ DOMAIN s = 1..Len(s) /\ n \in Nat /\ n <= Len(s)
  BY LenProperties
<1>2. t \in Seq(S) /\ Len(t) = n /\ \A i \in 1..n : t[i] = s[i]
  BY <1>1, SubSeqProperties
<1> HIDE DEF t
<1>3. Range(t) \subseteq Range(s)
  BY <1>1, <1>2, LenProperties DEF Range
<1>4. Append(t, m) \in Seq(S) /\ Range(Append(t, m)) = Range(t) \cup {m}
  BY <1>2, AppendFacts
<1> QED
  BY <1>3, <1>4 DEF t

-----------------------------------------------------------------------------
(* What a step does to the contexts. *)

\* Attempts stay begun, and descriptions applied.
Grows(cs, ds) ==
  \A e \in Ends, k \in Epochs : /\ HasBegun(cs, e, k) => HasBegun(ds, e, k)
                                /\ HasApplied(cs, e, k) => HasApplied(ds, e, k)

\* The attempts that are begun, and the descriptions applied, stay the same.
Steady ==
  /\ Epoch' = Epoch
  /\ \A e \in Ends, k \in Epochs : /\ HasBegun(ctx', e, k) <=> HasBegun(ctx, e, k)
                                   /\ HasApplied(ctx', e, k) <=> HasApplied(ctx, e, k)

\* End e applies the remote description of its attempt k, which its partner
\* takes part in; it may have applied one before.
Applies(e, k) ==
  /\ Epoch' = Epoch /\ pairs[e] = k /\ HasBegun(ctx, e, k)
  /\ \A x \in Ends, j \in Epochs :
       /\ HasBegun(ctx', x, j) <=> HasBegun(ctx, x, j)
       /\ HasApplied(ctx', x, j) <=> HasApplied(ctx, x, j) \/ (x = e /\ j = k)
  /\ e = Offerer => HasApplied(ctx, Answerer, k)
  /\ e = Answerer => HasBegun(ctx, Offerer, k)

LEMMA SoundKept ==
  ASSUME NEW cs, NEW ds, Grows(cs, ds), NEW e \in Ends, NEW m \in Upward \cup Downward,
         Sound(cs, e, m)
  PROVE  Sound(ds, e, m)
<1>1. m.type \in {"pair_offer", "pair_answer", "pair_failed"} => m.epoch \in Epochs
  BY DEF Upward, Downward, Instruction
<1> QED
  BY <1>1 DEF Sound, Grows, Ends, Offerer, Answerer

LEMMA Ranges ==
  ASSUME MessagesOK, NEW e \in Ends
  PROVE  /\ Range(frames[e]) \subseteq Upward /\ Range(sends[e]) \subseteq Delivery
         /\ Range(inbox[e]) \subseteq Downward
<1>1. frames[e] \in Seq(Upward) /\ sends[e] \in Seq(Delivery) /\ inbox[e] \in Seq(Downward)
  BY DEF MessagesOK
<1> QED
  BY <1>1, RangeOfSeq

\* An attempt whose description is applied has begun at both ends.
LEMMA AppliedFacts ==
  ASSUME IInv, NEW e \in Ends, NEW k \in Epochs, HasApplied(ctx, e, k)
  PROVE  /\ HasBegun(ctx, Offerer, k) /\ HasBegun(ctx, Answerer, k)
         /\ HasApplied(ctx, Answerer, k) /\ k <= Epoch
<1>1. \A x \in Ends, j \in Epochs : ContextOK(x, j)
  BY DEF IInv, ContextsOK
<1>2. \A x \in Ends, j \in Epochs : HasApplied(ctx, x, j) => HasBegun(ctx, x, j)
  BY <1>1 DEF ContextOK, HasApplied, HasBegun, NoContext
<1>3. Offerer \in Ends /\ Answerer \in Ends /\ Ends = {Offerer, Answerer}
  BY DEF Ends, Offerer, Answerer
<1>4. HasApplied(ctx, Answerer, k)
  BY <1>1, <1>3 DEF ContextOK, HasApplied
<1>5. HasBegun(ctx, Offerer, k)
  BY <1>1, <1>3, <1>4 DEF ContextOK, HasApplied
<1> QED
  BY <1>1, <1>2, <1>3, <1>4, <1>5 DEF ContextOK, HasBegun

\* One live context is patched: what it must keep to.
Patchable(e, k, c) ==
  /\ c \in PairContext /\ Live(c)
  /\ c.await = "flush" => c.remoteDescriptionApplied /\ c.iceBuffer # <<>>
  /\ HasApplied(ctx, e, k) => c.remoteDescriptionApplied
  /\ e = Offerer =>
       /\ c.await \in {"nothing", "createOffer", "setLocalOffer", "setRemoteAnswer",
                       "flush"}
       /\ c.await = "setRemoteAnswer" \/ c.remoteDescriptionApplied =>
            HasApplied(ctx, Answerer, k)
  /\ e = Answerer =>
       /\ c.await \in {"nothing", "setRemoteOffer", "flush", "createAnswer",
                       "setLocalAnswer"}
       /\ c.await # "nothing" \/ c.remoteDescriptionApplied =>
            HasBegun(ctx, Offerer, k)
       /\ c.await \in {"createAnswer", "setLocalAnswer"} => c.remoteDescriptionApplied

LEMMA PatchKeeps ==
  ASSUME IInv, NEW e \in Ends, NEW k \in Epochs, NEW c, Patchable(e, k, c),
         Live(ctx[e][k]), ctx' = [ctx EXCEPT ![e][k] = c],
         UNCHANGED <<room, pairs>>
  PROVE  /\ ctx' \in [Ends -> [Epochs -> PairContext]]
         /\ ctx'[e][k] = c
         /\ \A x \in Ends, j \in Epochs : ~ (x = e /\ j = k) => ctx'[x][j] = ctx[x][j]
         /\ Grows(ctx, ctx')
         /\ \A x \in Ends, j \in Epochs : HasBegun(ctx', x, j) <=> HasBegun(ctx, x, j)
         /\ ContextsOK' /\ PairsOK'
<1>1. /\ ctx \in [Ends -> [Epochs -> PairContext]] /\ c \in PairContext
      /\ pairs \in [Ends -> 0..MaxEpoch]
  BY DEF IInv, TypeOK, Patchable
<1>2. /\ ctx' \in [Ends -> [Epochs -> PairContext]]
      /\ ctx'[e][k] = c
      /\ \A x \in Ends, j \in Epochs : ~ (x = e /\ j = k) => ctx'[x][j] = ctx[x][j]
  BY <1>1
<1>3. \A x \in Ends, j \in Epochs :
        /\ HasBegun(ctx', x, j) <=> HasBegun(ctx, x, j)
        /\ HasApplied(ctx, x, j) => HasApplied(ctx', x, j)
        /\ Live(ctx'[x][j]) <=> Live(ctx[x][j])
  <2> TAKE x \in Ends, j \in Epochs
  <2>1. CASE x = e /\ j = k
    BY <1>2, <2>1 DEF HasBegun, HasApplied, Live, Patchable
  <2>2. CASE ~ (x = e /\ j = k)
    BY <1>2, <2>2 DEF HasBegun, HasApplied, Live
  <2> QED
    BY <2>1, <2>2
<1>4. Grows(ctx, ctx')
  BY <1>3 DEF Grows
<1>5. ContextsOK'
  <2>1. Offerer \in Ends /\ Answerer \in Ends /\ Epoch' = Epoch /\ Offerer # Answerer
    BY DEF Ends, Offerer, Answerer, Epoch
  <2> SUFFICES ASSUME NEW x \in Ends, NEW j \in Epochs
               PROVE  ContextOK(x, j)'
    BY DEF ContextsOK
  <2>2. ContextOK(x, j) /\ ContextOK(e, k)
    BY DEF IInv, ContextsOK
  <2>3. CASE x = e /\ j = k
    <3>1. c.state \notin {"none", "closed"} /\ ctx[e][k].state \notin {"none", "closed"}
      BY DEF Patchable, Live
    <3>2. k <= Epoch /\ pairs[e] = k
      BY <2>2, <3>1 DEF ContextOK, Live
    <3>3. e = Offerer =>
            /\ c.await \in {"nothing", "createOffer", "setLocalOffer",
                            "setRemoteAnswer", "flush"}
            /\ c.await = "setRemoteAnswer" \/ c.remoteDescriptionApplied =>
                 HasApplied(ctx', Answerer, k)
      BY <1>3, <2>1 DEF Patchable
    <3>4. e = Answerer =>
            /\ c.await \in {"nothing", "setRemoteOffer", "flush", "createAnswer",
                            "setLocalAnswer"}
            /\ c.await # "nothing" \/ c.remoteDescriptionApplied =>
                 HasBegun(ctx', Offerer, k)
            /\ c.await \in {"createAnswer", "setLocalAnswer"} =>
                 c.remoteDescriptionApplied
      BY <1>3, <2>1 DEF Patchable
    <3>5. c.await = "flush" => c.remoteDescriptionApplied /\ c.iceBuffer # <<>>
      BY DEF Patchable
    <3> QED
      BY <1>2, <2>1, <2>3, <3>1, <3>2, <3>3, <3>4, <3>5
      DEF ContextOK, HasApplied, HasBegun
  <2>4. CASE ~ (x = e /\ j = k)
    <3>1. ctx'[x][j] = ctx[x][j]
      BY <1>2, <2>4
    <3>2. /\ HasApplied(ctx, Answerer, j) => HasApplied(ctx', Answerer, j)
          /\ HasBegun(ctx, Offerer, j) => HasBegun(ctx', Offerer, j)
      BY <1>3, <2>1
    <3> QED
      BY <2>1, <2>2, <3>1, <3>2 DEF ContextOK, HasApplied, HasBegun, Live
  <2> QED
    BY <2>3, <2>4
<1>6. PairsOK'
  <2> SUFFICES ASSUME NEW x \in Ends, pairs[x] # 0
               PROVE  /\ Live(ctx'[x][pairs[x]])
                      /\ \A j \in Epochs : HasBegun(ctx', x, j) => j <= pairs[x]
    BY DEF PairsOK
  <2>1. pairs[x] \in Epochs
    BY <1>1 DEF Epochs
  <2> QED
    BY <1>3, <2>1 DEF IInv, PairsOK
<1> QED
  BY <1>2, <1>3, <1>4, <1>5, <1>6

-----------------------------------------------------------------------------
(* The browser's steps, and the messages. *)

\* What a browser's step does to the messages: it may send one, and take one;
\* with the connection, the last ones sent are lost, and its end is seen.
SendsUp(e) ==
  \/ frames' = frames
  \/ \E f \in Upward : Sound(ctx', e, f) /\ frames' = [frames EXCEPT ![e] = Append(@, f)]
  \/ \E n \in 0..Len(frames[e]) :
       frames' = [frames EXCEPT ![e] = Append(SubSeq(@, 1, n), Frame("leave_room", 0))]

TakesIn(e) ==
  \/ inbox' = inbox
  \/ inbox[e] # <<>> /\ inbox' = [inbox EXCEPT ![e] = Tail(@)]
  \/ inbox' = [inbox EXCEPT ![e] = <<>>]

LEMMA FramesKept ==
  ASSUME IInv, NEW e \in Ends, Grows(ctx, ctx'), SendsUp(e)
  PROVE  /\ frames' \in [Ends -> Seq(Upward)]
         /\ \A x \in Ends : \A m \in Range(frames'[x]) : Sound(ctx', x, m)
<1>1. frames \in [Ends -> Seq(Upward)]
  BY DEF IInv, MessagesOK
<1>2. \A x \in Ends : \A m \in Range(frames[x]) : Sound(ctx', x, m)
  <2> TAKE x \in Ends
  <2> TAKE m \in Range(frames[x])
  <2>1. m \in Upward /\ Sound(ctx, x, m)
    BY Ranges DEF IInv, MessagesSound
  <2> QED
    BY <2>1, SoundKept
<1>3. CASE frames' = frames
  BY <1>1, <1>2, <1>3
<1>4. ASSUME NEW f \in Upward, Sound(ctx', e, f),
             frames' = [frames EXCEPT ![e] = Append(@, f)]
      PROVE  /\ frames' \in [Ends -> Seq(Upward)]
             /\ \A x \in Ends : \A m \in Range(frames'[x]) : Sound(ctx', x, m)
  <2>1. /\ Append(frames[e], f) \in Seq(Upward)
        /\ Range(Append(frames[e], f)) = Range(frames[e]) \cup {f}
    BY <1>1, AppendFacts
  <2>2. /\ frames'[e] = Append(frames[e], f)
        /\ \A x \in Ends \ {e} : frames'[x] = frames[x]
        /\ frames' \in [Ends -> Seq(Upward)]
    BY <1>1, <1>4, <2>1
  <2> QED
    BY <1>2, <1>4, <2>1, <2>2
<1>5. ASSUME NEW n \in 0..Len(frames[e]),
             frames' = [frames EXCEPT ![e] = Append(SubSeq(@, 1, n), Frame("leave_room", 0))]
      PROVE  /\ frames' \in [Ends -> Seq(Upward)]
             /\ \A x \in Ends : \A m \in Range(frames'[x]) : Sound(ctx', x, m)
  <2> DEFINE f == Frame("leave_room", 0)
             s == Append(SubSeq(frames[e], 1, n), f)
  <2>1. f \in Upward /\ Sound(ctx', e, f)
    BY DEF Frame, Upward, Sound
  <2>2. s \in Seq(Upward) /\ Range(s) \subseteq Range(frames[e]) \cup {f}
    BY <1>1, <2>1, PrefixFacts
  <2>3. /\ frames'[e] = s /\ \A x \in Ends \ {e} : frames'[x] = frames[x]
        /\ frames' \in [Ends -> Seq(Upward)]
    BY <1>1, <1>5, <2>2
  <2> HIDE DEF f, s
  <2> QED
    BY <1>2, <2>1, <2>2, <2>3
<1> QED
  BY <1>3, <1>4, <1>5 DEF SendsUp

LEMMA InboxKept ==
  ASSUME IInv, NEW e \in Ends, TakesIn(e)
  PROVE  /\ inbox' \in [Ends -> Seq(Downward)]
         /\ \A x \in Ends : Range(inbox'[x]) \subseteq Range(inbox[x])
         /\ \A x \in Ends : AtMostOne(inbox[x], Instruction) =>
              AtMostOne(inbox'[x], Instruction)
         /\ \A x \in Ends : None(inbox[x], Instruction) => None(inbox'[x], Instruction)
<1>1. inbox \in [Ends -> Seq(Downward)] /\ inbox[e] \in Seq(Downward)
  BY DEF IInv, MessagesOK
<1>2. CASE inbox' = inbox
  BY <1>1, <1>2
<1>3. CASE inbox[e] # <<>> /\ inbox' = [inbox EXCEPT ![e] = Tail(@)]
  <2>1. /\ Tail(inbox[e]) \in Seq(Downward)
        /\ Range(Tail(inbox[e])) \subseteq Range(inbox[e])
        /\ None(inbox[e], Instruction) => None(Tail(inbox[e]), Instruction)
        /\ AtMostOne(inbox[e], Instruction) => AtMostOne(Tail(inbox[e]), Instruction)
    BY <1>1, <1>3, HeadFacts
  <2>2. /\ inbox'[e] = Tail(inbox[e])
        /\ \A x \in Ends \ {e} : inbox'[x] = inbox[x]
        /\ inbox' \in [Ends -> Seq(Downward)]
    BY <1>1, <1>3, <2>1
  <2> QED
    BY <2>1, <2>2
<1>4. CASE inbox' = [inbox EXCEPT ![e] = <<>>]
  <2>1. /\ <<>> \in Seq(Downward) /\ Range(<<>>) = {} /\ None(<<>>, Instruction)
        /\ AtMostOne(<<>>, Instruction)
    BY EmptyFacts
  <2>2. /\ inbox'[e] = <<>>
        /\ \A x \in Ends \ {e} : inbox'[x] = inbox[x]
        /\ inbox' \in [Ends -> Seq(Downward)]
    BY <1>1, <1>4, <2>1
  <2> QED
    BY <2>1, <2>2
<1> QED
  BY <1>2, <1>3, <1>4 DEF TakesIn

\* The messages on the server's side and those in the inboxes stay sound.
LEMMA DownwardKept ==
  ASSUME IInv, NEW e \in Ends, Grows(ctx, ctx'), TakesIn(e), UNCHANGED sends
  PROVE  \A x \in Ends :
           /\ \A d \in Range(sends'[x]) : Sound(ctx', Other(d.to), d.msg)
           /\ \A m \in Range(inbox'[x]) : Sound(ctx', Other(x), m)
<1> SUFFICES ASSUME NEW x \in Ends
             PROVE  /\ \A d \in Range(sends[x]) : Sound(ctx', Other(d.to), d.msg)
                    /\ \A m \in Range(inbox'[x]) : Sound(ctx', Other(x), m)
  OBVIOUS
<1>1. \A t \in Ends : Other(t) \in Ends
  BY DEF Other, Ends
<1>2. \A d \in Range(sends[x]) : Sound(ctx', Other(d.to), d.msg)
  <2> TAKE d \in Range(sends[x])
  <2>1. d.to \in Ends /\ d.msg \in Downward /\ Sound(ctx, Other(d.to), d.msg)
    BY Ranges DEF IInv, MessagesSound, Delivery
  <2> QED
    BY <1>1, <2>1, SoundKept
<1>3. \A m \in Range(inbox'[x]) : Sound(ctx', Other(x), m)
  <2> TAKE m \in Range(inbox'[x])
  <2>1. m \in Range(inbox[x])
    BY InboxKept
  <2>2. m \in Downward /\ Sound(ctx, Other(x), m)
    BY <2>1, Ranges DEF IInv, MessagesSound
  <2> QED
    BY <1>1, <2>2, SoundKept
<1> QED
  BY <1>2, <1>3

\* A browser's step that begins no attempt.
LEMMA BrowserStep ==
  ASSUME IInv, NEW e \in Ends, UNCHANGED <<room, sends>>,
         ctx' \in [Ends -> [Epochs -> PairContext]],
         conn' \in [Ends -> {"open", "dropped", "left"}],
         pairs' \in [Ends -> 0..MaxEpoch],
         view' \in [Ends -> [epoch : 0..MaxEpoch, failed : BOOLEAN,
                             reconnectRequested : BOOLEAN]],
         Grows(ctx, ctx'),
         \A x \in Ends, j \in Epochs : HasBegun(ctx', x, j) <=> HasBegun(ctx, x, j),
         ContextsOK', PairsOK', SendsUp(e), TakesIn(e)
  PROVE  IInv'
<1>1. Epoch' = Epoch /\ RoomOK' /\ Epoch \in Epochs
  BY DEF IInv, RoomOK, Epoch
<1>2. TypeOK'
  BY DEF IInv, TypeOK
<1>3. MessagesOK'
  BY FramesKept, InboxKept DEF IInv, MessagesOK
<1>4. MessagesSound'
  BY FramesKept, DownwardKept DEF MessagesSound
<1>5. FailureSound'
  <2>1. Answerer \in Ends /\ room' = room
    BY DEF Ends, Answerer
  <2> QED
    BY <1>1, <2>1 DEF IInv, FailureSound, Grows
<1>6. InstructionsOK'
  <2> SUFFICES ASSUME NEW x \in Ends
               PROVE  /\ AtMostOne(inbox'[x], Instruction)
                      /\ \A g \in Ends :
                           /\ AtMostOne(sends[g], InstructionsTo(x))
                           /\ ~ None(sends[g], InstructionsTo(x)) =>
                                /\ None(sends[Other(g)], InstructionsTo(x))
                                /\ None(inbox'[x], Instruction)
                           /\ \A d \in Range(sends[g]) : d \in InstructionsTo(x) =>
                                d.msg.epoch = Epoch /\ ~ HasBegun(ctx', x, Epoch)
                      /\ \A m \in Range(inbox'[x]) : m \in Instruction =>
                           m.epoch = Epoch /\ ~ HasBegun(ctx', x, Epoch)
    BY <1>1 DEF InstructionsOK
  <2>1. /\ Range(inbox'[x]) \subseteq Range(inbox[x])
        /\ AtMostOne(inbox[x], Instruction) => AtMostOne(inbox'[x], Instruction)
        /\ None(inbox[x], Instruction) => None(inbox'[x], Instruction)
    BY InboxKept
  <2> QED
    BY <1>1, <2>1 DEF IInv, InstructionsOK
<1> QED
  BY <1>1, <1>2, <1>3, <1>4, <1>5, <1>6 DEF IInv


Views == [Ends -> [epoch : 0..MaxEpoch, failed : BOOLEAN, reconnectRequested : BOOLEAN]]

\* One live context is patched.
LEMMA PatchStep ==
  ASSUME IInv, NEW e \in Ends, NEW k \in Epochs, NEW c, Patchable(e, k, c),
         Live(ctx[e][k]), ctx' = [ctx EXCEPT ![e][k] = c],
         UNCHANGED <<room, sends, conn, pairs>>, view' \in Views,
         SendsUp(e), TakesIn(e)
  PROVE  /\ IInv'
         /\ c.remoteDescriptionApplied = ctx[e][k].remoteDescriptionApplied => Steady
         /\ Epoch' = Epoch
         /\ \A x \in Ends, j \in Epochs : HasBegun(ctx', x, j) <=> HasBegun(ctx, x, j)
         /\ \A x \in Ends, j \in Epochs :
              ~ (x = e /\ j = k) => (HasApplied(ctx', x, j) <=> HasApplied(ctx, x, j))
         /\ HasApplied(ctx', e, k) <=> c.remoteDescriptionApplied
<1>1. /\ ctx' \in [Ends -> [Epochs -> PairContext]] /\ Grows(ctx, ctx')
      /\ \A x \in Ends, j \in Epochs : HasBegun(ctx', x, j) <=> HasBegun(ctx, x, j)
      /\ ContextsOK' /\ PairsOK'
  BY PatchKeeps
<1>2. /\ conn' \in [Ends -> {"open", "dropped", "left"}]
      /\ pairs' \in [Ends -> 0..MaxEpoch]
  BY DEF IInv, TypeOK
<1>3. IInv'
  BY <1>1, <1>2, BrowserStep DEF Views
<1>4. /\ ctx'[e][k] = c
      /\ \A x \in Ends, j \in Epochs : ~ (x = e /\ j = k) => ctx'[x][j] = ctx[x][j]
  BY ZenonT(30), PatchKeeps
<1>5. Epoch' = Epoch
  BY DEF Epoch
<1>6. c.remoteDescriptionApplied = ctx[e][k].remoteDescriptionApplied =>
        \A x \in Ends, j \in Epochs : HasApplied(ctx', x, j) <=> HasApplied(ctx, x, j)
  BY <1>4 DEF HasApplied
<1>7. /\ \A x \in Ends, j \in Epochs :
           ~ (x = e /\ j = k) => (HasApplied(ctx', x, j) <=> HasApplied(ctx, x, j))
      /\ HasApplied(ctx', e, k) <=> c.remoteDescriptionApplied
  BY <1>4 DEF HasApplied
<1> QED
  BY <1>1, <1>3, <1>5, <1>6, <1>7 DEF Steady

\* The contexts are left alone.
LEMMA IgnoreStep ==
  ASSUME IInv, NEW e \in Ends, UNCHANGED <<room, sends, ctx, pairs, view>>,
         conn' \in [Ends -> {"open", "dropped", "left"}],
         SendsUp(e), TakesIn(e)
  PROVE  IInv' /\ Steady
<1>1. /\ ctx' \in [Ends -> [Epochs -> PairContext]] /\ Grows(ctx, ctx')
      /\ \A x \in Ends, j \in Epochs : HasBegun(ctx', x, j) <=> HasBegun(ctx, x, j)
  BY DEF IInv, TypeOK, Grows
<1>2. ContextsOK' /\ PairsOK'
  BY DEF IInv, ContextsOK, ContextOK, PairsOK, Epoch, HasBegun, HasApplied, Live
<1>3. pairs' \in [Ends -> 0..MaxEpoch] /\ view' \in Views
  BY DEF IInv, TypeOK, Views
<1>4. Steady
  BY DEF Steady, Epoch
<1> QED
  BY <1>1, <1>2, <1>3, <1>4, BrowserStep DEF Views

\* A live context keeps to what is asked of it, and so does one that differs
\* from it in neither await nor description.
LEMMA LiveFacts ==
  ASSUME IInv, NEW e \in Ends, NEW k \in Epochs, Live(ctx[e][k])
  PROVE  /\ Patchable(e, k, ctx[e][k]) /\ pairs[e] = k /\ k <= Epoch
         /\ HasBegun(ctx, e, k)
<1>1. ContextOK(e, k) /\ ctx[e][k] \in PairContext
  BY DEF IInv, ContextsOK, TypeOK
<1> QED
  BY <1>1 DEF ContextOK, Patchable, HasApplied, HasBegun, Live

LEMMA SamePatchable ==
  ASSUME NEW e \in Ends, NEW k \in Epochs, NEW c, NEW d, Patchable(e, k, c),
         d \in PairContext, Live(d), d.await = c.await,
         c.iceBuffer # <<>> => d.iceBuffer # <<>>,
         d.remoteDescriptionApplied = c.remoteDescriptionApplied
  PROVE  Patchable(e, k, d)
BY DEF Patchable

\* The context in the map, and one whose negotiation is suspended, are live.
LEMMA InTheMap ==
  ASSUME IInv, NEW e \in Ends, pairs[e] # 0
  PROVE  /\ pairs[e] \in Epochs /\ Live(ctx[e][pairs[e]])
         /\ ctx[e][pairs[e]] \in PairContext
<1>1. pairs[e] \in Epochs
  BY DEF IInv, TypeOK, Epochs
<1> QED
  BY <1>1 DEF IInv, PairsOK, TypeOK

LEMMA Suspended ==
  ASSUME IInv, NEW e \in Ends, NEW k \in Epochs, ctx[e][k].await # "nothing"
  PROVE  Live(ctx[e][k]) /\ ctx[e][k] \in PairContext
<1>1. ContextOK(e, k) /\ ctx[e][k] \in PairContext
  BY DEF IInv, ContextsOK, TypeOK
<1> QED
  BY <1>1 DEF ContextOK, Live, NoContext

-----------------------------------------------------------------------------
(* The messages about the pair. *)

LEMMA Received ==
  ASSUME IInv, NEW e \in Ends, inbox[e] # <<>>
  PROVE  /\ Head(inbox[e]) \in Downward /\ Sound(ctx, Other(e), Head(inbox[e]))
         /\ Head(inbox[e]) \in Range(inbox[e])
<1>1. inbox[e] \in Seq(Downward)
  BY DEF IInv, MessagesOK
<1>2. Head(inbox[e]) \in Downward /\ Head(inbox[e]) \in Range(inbox[e])
  BY <1>1, HeadFacts
<1> QED
  BY <1>2 DEF IInv, MessagesSound

LEMMA OfferStep ==
  ASSUME IInv, NEW e \in Ends, Receive(e), HandlePairOffer(e, Head(inbox[e]))
  PROVE  IInv' /\ Steady
<1> DEFINE m == Head(inbox[e])
           k == pairs[e]
           c == [ctx[e][k] EXCEPT !.state = "have-remote-offer", !.await = "setRemoteOffer"]
<1>1. /\ m \in Downward /\ Sound(ctx, Other(e), m) /\ inbox[e] # <<>>
      /\ UNCHANGED <<room, sends, conn, frames, pairs, view>>
      /\ SendsUp(e) /\ TakesIn(e)
  BY Received DEF Receive, server, HandlePairOffer, SendsUp, TakesIn
<1>2. view' \in Views /\ conn' \in [Ends -> {"open", "dropped", "left"}]
  BY <1>1 DEF IInv, TypeOK, Views
<1>3. CASE Current(e, m)
  <2>1. /\ k \in Epochs /\ Live(ctx[e][k]) /\ ctx[e][k] \in PairContext /\ m.epoch = k
        /\ ctx \in [Ends -> [Epochs -> PairContext]]
    BY <1>3, InTheMap DEF Current, IInv, TypeOK
  <2>2. e = Answerer /\ HasBegun(ctx, Offerer, k) /\ Answerer # Offerer
    BY <1>1, <2>1 DEF HandlePairOffer, Sound, Other, Ends, Offerer, Answerer
  <2>3. Patchable(e, k, ctx[e][k])
    BY <2>1, LiveFacts
  <2>4. ctx' = [ctx EXCEPT ![e][k] = c]
    BY <1>3, <2>1 DEF HandlePairOffer
  <2>5. /\ c \in PairContext /\ c.state = "have-remote-offer" /\ c.await = "setRemoteOffer"
        /\ c.remoteDescriptionApplied = ctx[e][k].remoteDescriptionApplied
    BY <2>1 DEF PairContext, PairContextStates, Awaits
  <2> HIDE DEF c, k
  <2>6. Patchable(e, k, c)
    BY <2>2, <2>3, <2>5 DEF Patchable, Live, HasApplied
  <2> QED
    BY <1>1, <1>2, <2>1, <2>4, <2>5, <2>6, PatchStep
<1>4. CASE ~ Current(e, m)
  BY <1>1, <1>2, <1>4, IgnoreStep DEF HandlePairOffer
<1> QED
  BY <1>3, <1>4

LEMMA AnswerStep ==
  ASSUME IInv, NEW e \in Ends, Receive(e), HandlePairAnswer(e, Head(inbox[e]))
  PROVE  IInv' /\ Steady
<1> DEFINE m == Head(inbox[e])
           k == pairs[e]
           c == [ctx[e][k] EXCEPT !.state = "have-remote-answer",
                                  !.await = "setRemoteAnswer"]
<1>1. /\ m \in Downward /\ Sound(ctx, Other(e), m) /\ inbox[e] # <<>>
      /\ UNCHANGED <<room, sends, conn, frames, pairs, view>>
      /\ SendsUp(e) /\ TakesIn(e)
  BY Received DEF Receive, server, HandlePairAnswer, SendsUp, TakesIn
<1>2. view' \in Views /\ conn' \in [Ends -> {"open", "dropped", "left"}]
  BY <1>1 DEF IInv, TypeOK, Views
<1>3. CASE Current(e, m)
  <2>1. /\ k \in Epochs /\ Live(ctx[e][k]) /\ ctx[e][k] \in PairContext /\ m.epoch = k
        /\ ctx \in [Ends -> [Epochs -> PairContext]]
    BY <1>3, InTheMap DEF Current, IInv, TypeOK
  <2>2. e = Offerer /\ HasApplied(ctx, Answerer, k) /\ Answerer # Offerer
    BY <1>1, <2>1 DEF HandlePairAnswer, Sound, Other, Ends, Offerer, Answerer
  <2>3. Patchable(e, k, ctx[e][k])
    BY <2>1, LiveFacts
  <2>4. ctx' = [ctx EXCEPT ![e][k] = c]
    BY <1>3, <2>1 DEF HandlePairAnswer
  <2>5. /\ c \in PairContext /\ c.state = "have-remote-answer"
        /\ c.await = "setRemoteAnswer"
        /\ c.remoteDescriptionApplied = ctx[e][k].remoteDescriptionApplied
    BY <2>1 DEF PairContext, PairContextStates, Awaits
  <2> HIDE DEF c, k
  <2>6. Patchable(e, k, c)
    BY <2>2, <2>3, <2>5 DEF Patchable, Live, HasApplied
  <2> QED
    BY <1>1, <1>2, <2>1, <2>4, <2>5, <2>6, PatchStep
<1>4. CASE ~ Current(e, m)
  BY <1>1, <1>2, <1>4, IgnoreStep DEF HandlePairAnswer
<1> QED
  BY <1>3, <1>4

LEMMA CandidateStep ==
  ASSUME IInv, NEW e \in Ends, Receive(e), HandlePairIceCandidate(e, Head(inbox[e]))
  PROVE  IInv' /\ Steady
<1> DEFINE m == Head(inbox[e])
           k == pairs[e]
           c == ctx[e][k]
<1>1. /\ m \in Downward /\ inbox[e] # <<>>
      /\ UNCHANGED <<room, sends, conn, frames, pairs, view>>
      /\ SendsUp(e) /\ TakesIn(e)
  BY Received DEF Receive, server, HandlePairIceCandidate, SendsUp, TakesIn
<1>2. view' \in Views /\ conn' \in [Ends -> {"open", "dropped", "left"}]
  BY <1>1 DEF IInv, TypeOK, Views
<1>3. CASE Current(e, m)
  <2>1. /\ k \in Epochs /\ Live(c) /\ c \in PairContext
        /\ ctx \in [Ends -> [Epochs -> PairContext]]
    BY <1>3, InTheMap DEF Current, IInv, TypeOK
  <2>2. m.candidate \in Candidates
    BY <1>1 DEF HandlePairIceCandidate, Downward, Instruction
  <2>3. /\ Append(c.added, m.candidate) \in Seq(Candidates)
        /\ Append(c.iceBuffer, m.candidate) \in Seq(Candidates)
    BY <2>1, <2>2 DEF PairContext
  <2>4. \E d \in {[c EXCEPT !.added = Append(@, m.candidate)],
                  [c EXCEPT !.iceBuffer = Append(@, m.candidate)]} :
          ctx' = [ctx EXCEPT ![e][k] = d]
    BY <1>3, <2>1 DEF HandlePairIceCandidate
  <2>5. PICK d \in {[c EXCEPT !.added = Append(@, m.candidate)],
                    [c EXCEPT !.iceBuffer = Append(@, m.candidate)]} :
          ctx' = [ctx EXCEPT ![e][k] = d]
    BY <2>4
  <2>6. /\ d \in PairContext /\ d.state = c.state /\ d.await = c.await
        /\ d.remoteDescriptionApplied = c.remoteDescriptionApplied
        /\ c.iceBuffer # <<>> => d.iceBuffer # <<>>
    <3>1. Append(c.iceBuffer, m.candidate) # <<>>
      <4>1. c.iceBuffer \in Seq(Candidates)
        BY <2>1 DEF PairContext
      <4> QED
        BY <2>2, <4>1, AppendProperties
    <3> QED
      BY <2>1, <2>3, <3>1 DEF PairContext
  <2>7. Patchable(e, k, d)
    BY <2>1, <2>6, LiveFacts, SamePatchable DEF Live
  <2> HIDE DEF k
  <2> QED
    BY <1>1, <1>2, <2>1, <2>5, <2>6, <2>7, PatchStep
<1>4. CASE ~ Current(e, m)
  BY <1>1, <1>2, <1>4, IgnoreStep DEF HandlePairIceCandidate
<1> QED
  BY <1>3, <1>4

LEMMA FailedStep ==
  ASSUME IInv, NEW e \in Ends, Receive(e), HandlePairFailed(e, Head(inbox[e]))
  PROVE  IInv' /\ Steady
<1> DEFINE m == Head(inbox[e])
           k == pairs[e]
           c == [ctx[e][k] EXCEPT !.state = "failed", !.failedReported = TRUE]
<1>1. /\ inbox[e] # <<>> /\ UNCHANGED <<room, sends, conn, frames, pairs>>
      /\ SendsUp(e) /\ TakesIn(e)
  BY DEF Receive, server, HandlePairFailed, SendsUp, TakesIn
<1>2. view \in Views /\ conn' \in [Ends -> {"open", "dropped", "left"}]
  BY <1>1 DEF IInv, TypeOK, Views
<1>3. CASE Current(e, m)
  <2>1. /\ k \in Epochs /\ Live(ctx[e][k]) /\ ctx[e][k] \in PairContext
        /\ ctx \in [Ends -> [Epochs -> PairContext]]
    BY <1>3, InTheMap DEF Current, IInv, TypeOK
  <2>2. ctx' = [ctx EXCEPT ![e][k] = c] /\ view' = [view EXCEPT ![e].failed = TRUE]
    BY <1>3, <2>1 DEF HandlePairFailed
  <2>3. /\ c \in PairContext /\ c.state = "failed" /\ c.await = ctx[e][k].await
        /\ c.iceBuffer = ctx[e][k].iceBuffer
        /\ c.remoteDescriptionApplied = ctx[e][k].remoteDescriptionApplied
    BY <2>1 DEF PairContext, PairContextStates
  <2>4. view' \in Views
    BY <1>2, <2>2 DEF Views
  <2>5. Patchable(e, k, c)
    <3> HIDE DEF c, k
    <3> QED
      BY <2>1, <2>3, LiveFacts, SamePatchable DEF Live
  <2> HIDE DEF c, k
  <2> QED
    BY <1>1, <1>2, <2>1, <2>2, <2>3, <2>4, <2>5, PatchStep
<1>4. CASE ~ Current(e, m)
  BY <1>1, <1>2, <1>4, IgnoreStep DEF HandlePairFailed
<1> QED
  BY <1>3, <1>4

LEMMA ErrorStep ==
  ASSUME IInv, NEW e \in Ends, Receive(e), ClearReconnectRequested(e, Head(inbox[e]))
  PROVE  IInv' /\ Steady
<1> DEFINE k == pairs[e]
           c == [ctx[e][k] EXCEPT !.reconnectRequested = FALSE]
<1>1. /\ inbox[e] # <<>> /\ UNCHANGED <<room, sends, conn, frames, pairs>>
      /\ SendsUp(e) /\ TakesIn(e)
  BY DEF Receive, server, ClearReconnectRequested, SendsUp, TakesIn
<1>2. view \in Views /\ conn' \in [Ends -> {"open", "dropped", "left"}]
  BY <1>1 DEF IInv, TypeOK, Views
<1>3. CASE pairs[e] # 0
  <2>1. /\ k \in Epochs /\ Live(ctx[e][k]) /\ ctx[e][k] \in PairContext
        /\ ctx \in [Ends -> [Epochs -> PairContext]]
    BY <1>3, InTheMap DEF IInv, TypeOK
  <2>2. /\ ctx' = [ctx EXCEPT ![e][k] = c]
        /\ view' = [view EXCEPT ![e].reconnectRequested = FALSE]
    BY <1>3, <2>1 DEF ClearReconnectRequested
  <2>3. /\ c \in PairContext /\ c.state = ctx[e][k].state /\ c.await = ctx[e][k].await
        /\ c.iceBuffer = ctx[e][k].iceBuffer
        /\ c.remoteDescriptionApplied = ctx[e][k].remoteDescriptionApplied
    BY <2>1 DEF PairContext
  <2>4. view' \in Views
    BY <1>2, <2>2 DEF Views
  <2>5. Patchable(e, k, c)
    <3> HIDE DEF c, k
    <3> QED
      BY <2>1, <2>3, LiveFacts, SamePatchable DEF Live
  <2> HIDE DEF c, k
  <2> QED
    BY <1>1, <1>2, <2>1, <2>2, <2>3, <2>4, <2>5, PatchStep
<1>4. CASE pairs[e] = 0
  BY <1>1, <1>2, <1>4, IgnoreStep DEF ClearReconnectRequested
<1> QED
  BY <1>3, <1>4

-----------------------------------------------------------------------------
(* A pair is closed: the other end left, or this one leaves. *)

LEMMA ClosedKeeps ==
  ASSUME IInv, NEW e \in Ends, ClosePair(e), UNCHANGED room
  PROVE  /\ ctx' \in [Ends -> [Epochs -> PairContext]]
         /\ pairs' \in [Ends -> 0..MaxEpoch] /\ view' \in Views
         /\ Grows(ctx, ctx')
         /\ \A x \in Ends, j \in Epochs :
              /\ HasBegun(ctx', x, j) <=> HasBegun(ctx, x, j)
              /\ HasApplied(ctx', x, j) <=> HasApplied(ctx, x, j)
         /\ ContextsOK' /\ PairsOK'
<1>1. /\ ctx \in [Ends -> [Epochs -> PairContext]] /\ pairs \in [Ends -> 0..MaxEpoch]
      /\ view \in Views /\ MaxEpoch \in Nat
  BY MaxEpochAssumption DEF IInv, TypeOK, Views
<1>2. /\ ctx' \in [Ends -> [Epochs -> PairContext]]
      /\ \A j \in Epochs : ctx'[e][j] =
           IF j = pairs[e] THEN Closed(ctx[e][j]) ELSE ctx[e][j]
      /\ \A x \in Ends \ {e} : ctx'[x] = ctx[x]
  <2>1. \A c \in PairContext : Closed(c) \in PairContext
    BY ZenonT(30), EmptyFacts DEF Closed, PairContext, PairContextStates, Awaits
  <2> QED
    BY <1>1, <2>1 DEF ClosePair
<1>3. /\ pairs' \in [Ends -> 0..MaxEpoch] /\ pairs'[e] = 0
      /\ \A x \in Ends \ {e} : pairs'[x] = pairs[x]
  BY <1>1 DEF ClosePair
<1>4. view' \in Views
  <2>1. NoView \in [epoch : 0..MaxEpoch, failed : BOOLEAN, reconnectRequested : BOOLEAN]
    BY <1>1 DEF NoView
  <2> QED
    BY <1>1, <2>1 DEF ClosePair, Views
<1>5. \A c \in PairContext :
        /\ Closed(c).state = "closed" /\ Closed(c).await = "nothing"
        /\ Closed(c).remoteDescriptionApplied = c.remoteDescriptionApplied
  BY DEF Closed, PairContext
<1>6. \A j \in Epochs : ctx'[e][j].state \in {"none", "closed"}
  <2> TAKE j \in Epochs
  <2>1. ContextOK(e, j)
    BY DEF IInv, ContextsOK
  <2> QED
    BY <1>1, <1>2, <1>5, <2>1 DEF ContextOK, Live
<1>7. \A x \in Ends, j \in Epochs :
        /\ HasBegun(ctx', x, j) <=> HasBegun(ctx, x, j)
        /\ HasApplied(ctx', x, j) <=> HasApplied(ctx, x, j)
  <2> TAKE x \in Ends, j \in Epochs
  <2>1. CASE x = e /\ j = pairs[e]
    <3>1. Live(ctx[e][j]) /\ ctx[e][j] \in PairContext
      <4>1. pairs[e] # 0
        BY <2>1, <1>1 DEF Epochs
      <4> QED
        BY <4>1, <2>1, InTheMap
    <3> QED
      BY <1>2, <1>5, <2>1, <3>1 DEF HasBegun, HasApplied, Live
  <2>2. CASE ~ (x = e /\ j = pairs[e])
    <3>1. ctx'[x][j] = ctx[x][j]
      BY <1>2, <2>2
    <3> QED
      BY <3>1 DEF HasBegun, HasApplied
  <2> QED
    BY <2>1, <2>2
<1>8. Grows(ctx, ctx')
  BY <1>7 DEF Grows
<1>9. ContextsOK'
  <2> SUFFICES ASSUME NEW x \in Ends, NEW j \in Epochs
               PROVE  ContextOK(x, j)'
    BY DEF ContextsOK
  <2>1. /\ ContextOK(x, j) /\ Epoch' = Epoch /\ ctx[x][j] \in PairContext
        /\ Offerer \in Ends /\ Answerer \in Ends
    BY <1>1 DEF IInv, ContextsOK, Epoch, Ends, Offerer, Answerer
  <2>2. /\ HasBegun(ctx', Offerer, j) <=> HasBegun(ctx, Offerer, j)
        /\ HasApplied(ctx', Answerer, j) <=> HasApplied(ctx, Answerer, j)
        /\ HasBegun(ctx', x, j) <=> HasBegun(ctx, x, j)
    BY <1>7, <2>1
  <2>3. CASE x = e /\ j = pairs[e]
    <3>1. ctx'[x][j] = Closed(ctx[x][j])
      BY <1>2, <2>3
    <3>2. /\ ctx'[x][j].state = "closed" /\ ctx'[x][j].await = "nothing"
          /\ ctx'[x][j].remoteDescriptionApplied = ctx[x][j].remoteDescriptionApplied
      BY <1>5, <2>1, <3>1
    <3> QED
      BY <2>1, <2>2, <3>2 DEF ContextOK, HasBegun, Live
  <2>4. CASE ~ (x = e /\ j = pairs[e])
    <3>1. ctx'[x][j] = ctx[x][j]
      BY <1>2, <2>4
    <3>2. Live(ctx'[x][j]) => pairs'[x] = j
      BY <1>3, <1>6, <2>1, <3>1 DEF ContextOK, Live
    <3> QED
      BY <2>1, <2>2, <3>1, <3>2 DEF ContextOK
  <2> QED
    BY <2>3, <2>4
<1>10. PairsOK'
  <2> SUFFICES ASSUME NEW x \in Ends, pairs'[x] # 0
               PROVE  /\ Live(ctx'[x][pairs'[x]])
                      /\ \A j \in Epochs : HasBegun(ctx', x, j) => j <= pairs'[x]
    BY DEF PairsOK
  <2>1. x # e
    BY <1>3
  <2>2. pairs'[x] = pairs[x] /\ ctx'[x] = ctx[x]
    BY <1>2, <1>3, <2>1
  <2> QED
    BY <1>7, <2>2 DEF IInv, PairsOK
<1> QED
  BY <1>2, <1>3, <1>4, <1>7, <1>8, <1>9, <1>10

LEMMA LeftStep ==
  ASSUME IInv, NEW e \in Ends, Receive(e), HandleLeft(e, Head(inbox[e]))
  PROVE  IInv' /\ Steady
<1>1. /\ inbox[e] # <<>> /\ UNCHANGED <<room, sends, conn, frames>> /\ ClosePair(e)
      /\ SendsUp(e) /\ TakesIn(e) /\ conn' \in [Ends -> {"open", "dropped", "left"}]
  BY DEF Receive, server, HandleLeft, SendsUp, TakesIn, IInv, TypeOK
<1> QED
  BY <1>1, ClosedKeeps, BrowserStep DEF Views, Steady, Epoch

LEMMA LeaveStep ==
  ASSUME IInv, NEW e \in Ends, Leave(e)
  PROVE  IInv' /\ Steady
<1>1. /\ UNCHANGED <<room, sends>> /\ ClosePair(e) /\ TakesIn(e)
      /\ conn' \in [Ends -> {"open", "dropped", "left"}]
  BY DEF Leave, server, TakesIn, IInv, TypeOK
<1>2. SendsUp(e)
  <2>1. Frame("leave_room", 0) \in Upward /\ Sound(ctx', e, Frame("leave_room", 0))
    BY DEF Frame, Upward, Sound
  <2> QED
    BY <2>1 DEF Leave, Emit, SendsUp
<1> QED
  BY <1>1, <1>2, ClosedKeeps, BrowserStep DEF Views, Steady, Epoch


-----------------------------------------------------------------------------
(* An end begins an attempt, as it is instructed to. *)

\* What the two handlers do when they do not turn the instruction down.
Begins(e) ==
  /\ ctx' \in [Ends -> [Epochs -> PairContext]]
  /\ \A x \in Ends \ {e} : ctx'[x] = ctx[x]
  /\ \A j \in Epochs : ctx'[e][j] =
       IF j = Epoch THEN NewContext(e)
       ELSE IF j = pairs[e] THEN Closed(ctx[e][j]) ELSE ctx[e][j]
  /\ pairs' = [pairs EXCEPT ![e] = Epoch]
  /\ view' \in Views
  /\ ~ HasBegun(ctx, e, Epoch)

LEMMA NewFacts ==
  ASSUME NEW e \in Ends
  PROVE  /\ NewContext(e) \in PairContext /\ Live(NewContext(e))
         /\ ~ NewContext(e).remoteDescriptionApplied
         /\ e = Offerer => NewContext(e).await = "createOffer"
         /\ e = Answerer => NewContext(e).await = "nothing"
         /\ NewContext(e).await # "flush"
<1>1. NoContext \in PairContext
  BY EmptyFacts, MaxCandidatesAssumption
  DEF NoContext, PairContext, PairContextStates, Awaits
<1>2. /\ NoContext.remoteDescriptionApplied = FALSE /\ NoContext.await = "nothing"
      /\ Offerer # Answerer
  BY DEF NoContext, Offerer, Answerer
<1> QED
  BY <1>1, <1>2 DEF NewContext, PairContext, PairContextStates, Awaits, Live

LEMMA BeginKeeps ==
  ASSUME IInv, NEW e \in Ends, Begins(e), UNCHANGED room
  PROVE  /\ Grows(ctx, ctx') /\ pairs' \in [Ends -> 0..MaxEpoch]
         /\ \A x \in Ends, j \in Epochs : ~ (x = e /\ j = Epoch) =>
              (HasBegun(ctx', x, j) <=> HasBegun(ctx, x, j))
         /\ \A x \in Ends, j \in Epochs :
              HasApplied(ctx', x, j) <=> HasApplied(ctx, x, j)
         /\ HasBegun(ctx', e, Epoch)
         /\ ContextsOK' /\ PairsOK'
<1>1. /\ ctx \in [Ends -> [Epochs -> PairContext]] /\ pairs \in [Ends -> 0..MaxEpoch]
      /\ MaxEpoch \in Nat /\ Epoch \in Epochs /\ Epoch' = Epoch
      /\ Epochs \subseteq 0..MaxEpoch /\ 0 \notin Epochs
      /\ Offerer \in Ends /\ Answerer \in Ends /\ Offerer # Answerer
  BY MaxEpochAssumption DEF IInv, TypeOK, RoomOK, Epoch, Epochs, Ends, Offerer, Answerer
<1>2. /\ pairs' \in [Ends -> 0..MaxEpoch] /\ pairs'[e] = Epoch
      /\ \A x \in Ends \ {e} : pairs'[x] = pairs[x]
  BY <1>1 DEF Begins
<1>3. \A c \in PairContext :
        /\ Closed(c).state = "closed" /\ Closed(c).await = "nothing"
        /\ Closed(c).remoteDescriptionApplied = c.remoteDescriptionApplied
  BY DEF Closed, PairContext
<1>4. \A j \in Epochs \ {Epoch} : ctx'[e][j].state \in {"none", "closed"}
  <2> TAKE j \in Epochs \ {Epoch}
  <2>1. ContextOK(e, j)
    BY DEF IInv, ContextsOK
  <2> QED
    BY <1>1, <1>3, <2>1 DEF ContextOK, Live, Begins
<1>5. /\ ctx'[e][Epoch] = NewContext(e) /\ HasBegun(ctx', e, Epoch)
      /\ ~ HasApplied(ctx', e, Epoch) /\ ~ HasApplied(ctx, e, Epoch)
  <2>1. ContextOK(e, Epoch)
    BY <1>1 DEF IInv, ContextsOK
  <2> QED
    BY <1>1, <2>1, NewFacts DEF ContextOK, HasBegun, HasApplied, Live, NoContext, Begins
<1>6. \A x \in Ends, j \in Epochs : ~ (x = e /\ j = Epoch) =>
        /\ HasBegun(ctx', x, j) <=> HasBegun(ctx, x, j)
        /\ HasApplied(ctx', x, j) <=> HasApplied(ctx, x, j)
  <2> SUFFICES ASSUME NEW x \in Ends, NEW j \in Epochs, ~ (x = e /\ j = Epoch)
               PROVE  /\ HasBegun(ctx', x, j) <=> HasBegun(ctx, x, j)
                      /\ HasApplied(ctx', x, j) <=> HasApplied(ctx, x, j)
    OBVIOUS
  <2>1. CASE x = e /\ j = pairs[e]
    <3>1. Live(ctx[e][j]) /\ ctx[e][j] \in PairContext
      <4>1. pairs[e] # 0
        BY <2>1, <1>1
      <4> QED
        BY <4>1, <2>1, InTheMap
    <3>2. ctx'[e][j] = Closed(ctx[e][j])
      BY <2>1 DEF Begins
    <3> QED
      BY <1>3, <2>1, <3>1, <3>2 DEF HasBegun, HasApplied, Live
  <2>2. CASE ~ (x = e /\ j = pairs[e])
    <3>1. ctx'[x][j] = ctx[x][j]
      BY <2>2 DEF Begins
    <3> QED
      BY <3>1 DEF HasBegun, HasApplied
  <2> QED
    BY <2>1, <2>2
<1>7. /\ Grows(ctx, ctx')
      /\ \A x \in Ends, j \in Epochs : HasApplied(ctx', x, j) <=> HasApplied(ctx, x, j)
  <2> SUFFICES ASSUME NEW x \in Ends, NEW j \in Epochs
               PROVE  /\ HasBegun(ctx, x, j) => HasBegun(ctx', x, j)
                      /\ HasApplied(ctx', x, j) <=> HasApplied(ctx, x, j)
    BY DEF Grows
  <2>1. CASE x = e /\ j = Epoch
    BY <1>5, <2>1
  <2>2. CASE ~ (x = e /\ j = Epoch)
    BY <1>6, <2>2
  <2> QED
    BY <2>1, <2>2
<1>8. ContextsOK'
  <2> SUFFICES ASSUME NEW x \in Ends, NEW j \in Epochs
               PROVE  ContextOK(x, j)'
    BY DEF ContextsOK
  <2>1. /\ ContextOK(x, j) /\ ctx[x][j] \in PairContext
        /\ HasBegun(ctx, Offerer, j) => HasBegun(ctx', Offerer, j)
        /\ HasApplied(ctx', Answerer, j) <=> HasApplied(ctx, Answerer, j)
    BY <1>1, <1>7 DEF IInv, ContextsOK, Grows
  <2>2. CASE x = e /\ j = Epoch
    <3>1. /\ ctx'[x][j] = NewContext(e) /\ pairs'[e] = Epoch
          /\ NewContext(e).state \notin {"none", "closed"}
      BY <1>2, <1>5, <2>2, NewFacts DEF Live
    <3>2. /\ ~ NewContext(e).remoteDescriptionApplied
          /\ e = Offerer => NewContext(e).await = "createOffer"
          /\ e = Answerer => NewContext(e).await = "nothing"
          /\ NewContext(e).await # "flush"
      BY NewFacts
    <3>3. j <= Epoch
      BY <1>1, <2>2 DEF Epochs
    <3> QED
      BY <1>1, <2>2, <3>1, <3>2, <3>3 DEF ContextOK
  <2>3. CASE x = e /\ j = pairs[e] /\ j # Epoch
    <3>1. ctx'[x][j] = Closed(ctx[x][j])
      BY <2>3 DEF Begins
    <3>2. /\ ctx'[x][j].state = "closed" /\ ctx'[x][j].await = "nothing"
          /\ ctx'[x][j].remoteDescriptionApplied = ctx[x][j].remoteDescriptionApplied
      BY <1>3, <2>1, <3>1
    <3>3. ctx[x][j].state # "none"
      <4>1. pairs[e] # 0
        BY <2>3, <1>1
      <4> QED
        BY <4>1, <2>3, InTheMap DEF Live
    <3> QED
      BY <1>1, <2>1, <3>2, <3>3 DEF ContextOK, Live
  <2>4. CASE ~ (x = e /\ j = pairs[e]) /\ ~ (x = e /\ j = Epoch)
    <3>1. ctx'[x][j] = ctx[x][j]
      BY <2>4 DEF Begins
    <3>2. Live(ctx'[x][j]) => pairs'[x] = j
      BY <1>2, <1>4, <2>1, <2>4, <3>1 DEF ContextOK, Live
    <3> QED
      BY <1>1, <2>1, <3>1, <3>2 DEF ContextOK
  <2> QED
    BY <2>2, <2>3, <2>4
<1>9. PairsOK'
  <2> SUFFICES ASSUME NEW x \in Ends, pairs'[x] # 0
               PROVE  /\ Live(ctx'[x][pairs'[x]])
                      /\ \A j \in Epochs : HasBegun(ctx', x, j) => j <= pairs'[x]
    BY DEF PairsOK
  <2>1. CASE x = e
    <3>1. Live(ctx'[x][pairs'[x]])
      BY <1>2, <1>5, <2>1, NewFacts
    <3>2. \A j \in Epochs : HasBegun(ctx', x, j) => j <= Epoch
      BY <1>1, <1>8 DEF ContextsOK, ContextOK, HasBegun
    <3> QED
      BY <1>2, <2>1, <3>1, <3>2
  <2>2. CASE x # e
    <3>1. pairs'[x] = pairs[x] /\ ctx'[x] = ctx[x]
      BY <1>2, <2>2 DEF Begins
    <3> QED
      BY <3>1 DEF IInv, PairsOK, HasBegun
  <2> QED
    BY <2>1, <2>2
<1> QED
  BY <1>2, <1>5, <1>6, <1>7, <1>8, <1>9

LEMMA BeginStep ==
  ASSUME IInv, NEW e \in Ends, inbox[e] # <<>>, Head(inbox[e]) \in Instruction,
         Begins(e), UNCHANGED <<room, sends, conn, frames>>,
         inbox' = [inbox EXCEPT ![e] = Tail(@)]
  PROVE  IInv'
<1>1. /\ Epoch' = Epoch /\ RoomOK' /\ Epoch \in Epochs /\ SendsUp(e) /\ TakesIn(e)
  BY DEF IInv, RoomOK, Epoch, SendsUp, TakesIn
<1>2. TypeOK'
  BY BeginKeeps DEF IInv, TypeOK, Views, Begins
<1>3. MessagesOK'
  BY <1>1, BeginKeeps, FramesKept, InboxKept DEF IInv, MessagesOK
<1>4. MessagesSound'
  BY <1>1, BeginKeeps, FramesKept, DownwardKept DEF MessagesSound
<1>5. FailureSound'
  <2>1. Answerer \in Ends /\ room' = room /\ Grows(ctx, ctx')
    BY BeginKeeps DEF Ends, Answerer
  <2> QED
    BY <1>1, <2>1 DEF IInv, FailureSound, Grows
<1>6. \* the instruction was the only one
      None(inbox'[e], Instruction) /\ \A g \in Ends : None(sends[g], InstructionsTo(e))
  <2>1. inbox[e] \in Seq(Downward) /\ inbox \in [Ends -> Seq(Downward)]
    BY DEF IInv, MessagesOK
  <2>2. AtMostOne(inbox[e], Instruction)
    BY DEF IInv, InstructionsOK
  <2>3. None(Tail(inbox[e]), Instruction) /\ ~ None(inbox[e], Instruction)
    BY <2>1, <2>2, HeadFacts
  <2> QED
    BY <2>1, <2>3 DEF IInv, InstructionsOK
<1>7. InstructionsOK'
  <2> SUFFICES ASSUME NEW x \in Ends
               PROVE  /\ AtMostOne(inbox'[x], Instruction)
                      /\ \A g \in Ends :
                           /\ AtMostOne(sends[g], InstructionsTo(x))
                           /\ ~ None(sends[g], InstructionsTo(x)) =>
                                /\ None(sends[Other(g)], InstructionsTo(x))
                                /\ None(inbox'[x], Instruction)
                           /\ \A d \in Range(sends[g]) : d \in InstructionsTo(x) =>
                                d.msg.epoch = Epoch /\ ~ HasBegun(ctx', x, Epoch)
                      /\ \A m \in Range(inbox'[x]) : m \in Instruction =>
                           m.epoch = Epoch /\ ~ HasBegun(ctx', x, Epoch)
    BY <1>1 DEF InstructionsOK
  <2>1. /\ Range(inbox'[x]) \subseteq Range(inbox[x])
        /\ AtMostOne(inbox[x], Instruction) => AtMostOne(inbox'[x], Instruction)
        /\ None(inbox[x], Instruction) => None(inbox'[x], Instruction)
    BY <1>1, InboxKept
  <2>2. CASE x # e
    <3>1. HasBegun(ctx', x, Epoch) <=> HasBegun(ctx, x, Epoch)
      BY <1>1, <2>2, BeginKeeps
    <3> QED
      BY <2>1, <3>1 DEF IInv, InstructionsOK
  <2>3. CASE x = e
    <3>1. \A g \in Ends : \A d \in Range(sends[g]) : d \notin InstructionsTo(x)
      <4> TAKE g \in Ends
      <4>1. sends[g] \in Seq(Delivery)
        BY DEF IInv, MessagesOK
      <4> QED
        BY <1>6, <2>3, <4>1 DEF None, Range
    <3>2. \A m \in Range(inbox'[x]) : m \notin Instruction
      <4>1. inbox'[x] \in Seq(Downward)
        BY <1>3 DEF MessagesOK
      <4> QED
        BY <1>6, <2>3, <4>1 DEF None, Range
    <3> QED
      BY <1>6, <2>1, <2>3, <3>1, <3>2 DEF IInv, InstructionsOK
  <2> QED
    BY <2>2, <2>3
<1> QED
  BY <1>1, <1>2, <1>3, <1>4, <1>5, <1>7, BeginKeeps DEF IInv

\* Both handlers begin the attempt, or turn the instruction down.
LEMMA InstructionStep ==
  ASSUME IInv, NEW e \in Ends, Receive(e),
         \/ HandleNegotiationInstruction(e, Head(inbox[e]))
         \/ HandleReconnectInstruction(e, Head(inbox[e]))
  PROVE  \/ Begins(e) /\ Head(inbox[e]) \in Instruction
         \/ UNCHANGED <<ctx, pairs, view>>
<1> DEFINE m == Head(inbox[e])
<1>1. m \in Downward /\ m \in Range(inbox[e])
  BY Received DEF Receive
<1>2. m \in Instruction /\ m.epoch = Epoch /\ ~ HasBegun(ctx, e, Epoch) /\ Epoch \in Epochs
  <2>1. m \in Instruction
    BY <1>1 DEF HandleNegotiationInstruction, HandleReconnectInstruction, Downward,
                Instruction
  <2> QED
    BY <1>1, <2>1 DEF IInv, InstructionsOK, RoomOK
<1>3. /\ ctx \in [Ends -> [Epochs -> PairContext]] /\ pairs \in [Ends -> 0..MaxEpoch]
      /\ view \in Views /\ 0 \notin Epochs /\ Epochs \subseteq 0..MaxEpoch
      /\ NewContext(e) \in PairContext
      /\ \A c \in PairContext : Closed(c) \in PairContext
  <2>1. \A c \in PairContext : Closed(c) \in PairContext
    BY ZenonT(30), EmptyFacts DEF Closed, PairContext, PairContextStates, Awaits
  <2>2. NewContext(e) \in PairContext
    BY NewFacts
  <2>3. 0 \notin Epochs /\ Epochs \subseteq 0..MaxEpoch
    BY MaxEpochAssumption DEF Epochs
  <2> QED
    BY <2>1, <2>2, <2>3 DEF IInv, TypeOK, Views
<1>4. [view EXCEPT ![e] = [NoView EXCEPT !.epoch = Epoch]] \in Views
  BY <1>2, <1>3 DEF Views, NoView
<1>5. CASE HandleNegotiationInstruction(e, m) /\ pairs[e] = 0
  <2>1. /\ ctx' = [ctx EXCEPT ![e][Epoch] = NewContext(e)]
        /\ pairs' = [pairs EXCEPT ![e] = Epoch]
        /\ view' = [view EXCEPT ![e] = [NoView EXCEPT !.epoch = Epoch]]
    BY <1>2, <1>5 DEF HandleNegotiationInstruction, Allocate
  <2>2. /\ ctx' \in [Ends -> [Epochs -> PairContext]]
        /\ \A x \in Ends \ {e} : ctx'[x] = ctx[x]
        /\ \A j \in Epochs : ctx'[e][j] = IF j = Epoch THEN NewContext(e) ELSE ctx[e][j]
    BY <1>2, <1>3, <2>1
  <2>3. \A j \in Epochs : j # pairs[e]
    BY <1>3, <1>5
  <2> QED
    BY <1>2, <1>4, <2>1, <2>2, <2>3 DEF Begins
<1>6. CASE HandleReconnectInstruction(e, m) /\ m.epoch > pairs[e]
  <2>1. /\ ctx' = [ctx EXCEPT ![e] = [k \in Epochs |->
                     IF k = Epoch THEN NewContext(e)
                     ELSE IF k = pairs[e] THEN Closed(@[k]) ELSE @[k]]]
        /\ pairs' = [pairs EXCEPT ![e] = Epoch]
        /\ view' = [view EXCEPT ![e] = [NoView EXCEPT !.epoch = Epoch]]
    BY <1>2, <1>6 DEF HandleReconnectInstruction
  <2>2. /\ ctx' \in [Ends -> [Epochs -> PairContext]]
        /\ \A x \in Ends \ {e} : ctx'[x] = ctx[x]
        /\ \A j \in Epochs : ctx'[e][j] =
             IF j = Epoch THEN NewContext(e)
             ELSE IF j = pairs[e] THEN Closed(ctx[e][j]) ELSE ctx[e][j]
    BY <1>2, <1>3, <2>1
  <2> QED
    BY <1>2, <1>4, <2>1, <2>2 DEF Begins
<1>7. CASE \/ HandleNegotiationInstruction(e, m) /\ pairs[e] # 0
           \/ HandleReconnectInstruction(e, m) /\ ~ (m.epoch > pairs[e])
  BY <1>7 DEF HandleNegotiationInstruction, HandleReconnectInstruction
<1> QED
  BY <1>2, <1>5, <1>6, <1>7

LEMMA ReceiveStep ==
  ASSUME IInv, NEW e \in Ends, Receive(e)
  PROVE  IInv'
<1> DEFINE m == Head(inbox[e])
<1>1. /\ inbox[e] # <<>> /\ UNCHANGED <<room, sends, conn, frames>>
      /\ inbox' = [inbox EXCEPT ![e] = Tail(@)]
      /\ SendsUp(e) /\ TakesIn(e) /\ conn' \in [Ends -> {"open", "dropped", "left"}]
  BY DEF Receive, server, SendsUp, TakesIn, IInv, TypeOK
<1>2. CASE HandleNegotiationInstruction(e, m) \/ HandleReconnectInstruction(e, m)
  BY <1>1, <1>2, InstructionStep, BeginStep, IgnoreStep
<1> QED
  BY <1>2, OfferStep, AnswerStep, CandidateStep, FailedStep, ErrorStep, LeftStep
  DEF Receive


-----------------------------------------------------------------------------
(* The continuations. *)

\* What the continuations have in common.
Continues(e, k, c) ==
  /\ ctx' = [ctx EXCEPT ![e][k] = c]
  /\ UNCHANGED <<room, sends, conn, inbox, pairs, view>>

LEMMA ContinueStep ==
  ASSUME IInv, NEW e \in Ends, NEW k \in Epochs, NEW c, Live(ctx[e][k]),
         Patchable(e, k, c), Continues(e, k, c), SendsUp(e)
  PROVE  /\ IInv'
         /\ c.remoteDescriptionApplied = ctx[e][k].remoteDescriptionApplied => Steady
         /\ Epoch' = Epoch
         /\ \A x \in Ends, j \in Epochs : HasBegun(ctx', x, j) <=> HasBegun(ctx, x, j)
         /\ \A x \in Ends, j \in Epochs :
              ~ (x = e /\ j = k) => (HasApplied(ctx', x, j) <=> HasApplied(ctx, x, j))
         /\ HasApplied(ctx', e, k) <=> c.remoteDescriptionApplied
<1>1. view' \in Views /\ TakesIn(e)
  BY DEF IInv, TypeOK, Views, Continues, TakesIn
<1> QED
  BY <1>1, PatchStep DEF Continues

\* createOffer resolves.
LEMMA CreatedOfferStep ==
  ASSUME IInv, NEW e \in Ends, NEW k \in Epochs, CreatedOffer(e, k), Continuation(e, k)
  PROVE  IInv' /\ Steady
<1> DEFINE c == [ctx[e][k] EXCEPT !.await = "setLocalOffer"]
<1>1. /\ Live(ctx[e][k]) /\ ctx[e][k] \in PairContext /\ ctx[e][k].await = "createOffer"
      /\ Patchable(e, k, ctx[e][k])
  BY Suspended, LiveFacts DEF CreatedOffer, Awaiting
<1>2. /\ c \in PairContext /\ c.state = ctx[e][k].state /\ c.await = "setLocalOffer"
      /\ c.remoteDescriptionApplied = ctx[e][k].remoteDescriptionApplied
  BY <1>1 DEF PairContext, Awaits
<1>3. Continues(e, k, c) /\ SendsUp(e)
  BY DEF CreatedOffer, Continuation, Patch, Continues, SendsUp, server
<1> HIDE DEF c
<1>4. Patchable(e, k, c)
  BY <1>1, <1>2 DEF Patchable, Live, Answerer, Offerer
<1> QED
  BY <1>1, <1>2, <1>3, <1>4, ContinueStep

\* setLocalDescription of the offer resolves, and the offer is sent.
LEMMA SetLocalOfferStep ==
  ASSUME IInv, NEW e \in Ends, NEW k \in Epochs, SetLocalOffer(e, k), Continuation(e, k)
  PROVE  IInv' /\ Steady
<1> DEFINE c == [ctx[e][k] EXCEPT !.await = "nothing", !.state = "have-local-offer",
                                  !.signaling = "have-local-offer"]
<1>1. /\ Live(ctx[e][k]) /\ ctx[e][k] \in PairContext /\ ctx[e][k].await = "setLocalOffer"
      /\ Patchable(e, k, ctx[e][k])
  BY Suspended, LiveFacts DEF SetLocalOffer, Awaiting
<1>2. /\ c \in PairContext /\ c.state = "have-local-offer" /\ c.await = "nothing"
      /\ c.remoteDescriptionApplied = ctx[e][k].remoteDescriptionApplied
  BY <1>1 DEF PairContext, Awaits, PairContextStates
<1>3. Continues(e, k, c)
  BY DEF SetLocalOffer, Continuation, Patch, Continues, server
<1>4. e = Offerer
  BY <1>1 DEF Patchable, Ends, Offerer, Answerer
<1>5. SendsUp(e)
  <2> DEFINE f == Frame("pair_offer", k)
  <2>1. /\ ctx \in [Ends -> [Epochs -> PairContext]]
        /\ ctx' = [ctx EXCEPT ![e][k] = c]
    BY <1>3 DEF IInv, TypeOK, Continues
  <2>2. ctx'[e][k] = c
    BY <2>1
  <2>3. f \in Upward /\ Sound(ctx', e, f)
    BY <1>2, <1>4, <2>2 DEF Frame, Upward, Sound, HasBegun
  <2> QED
    BY <2>3 DEF SetLocalOffer, Emit, SendsUp
<1> HIDE DEF c
<1>6. Patchable(e, k, c)
  BY <1>1, <1>2 DEF Patchable, Live
<1> QED
  BY <1>1, <1>2, <1>3, <1>5, <1>6, ContinueStep

\* A buffer is drained, or the flush goes on; either is a patch, if the
\* description is applied and the partner has done its part.
LEMMA FlushPatch ==
  ASSUME IInv, NEW e \in Ends, NEW k \in Epochs, NEW c \in PairContext, Live(c),
         c.remoteDescriptionApplied,
         e = Offerer => HasApplied(ctx, Answerer, k),
         e = Answerer => HasBegun(ctx, Offerer, k)
  PROVE  Patchable(e, k, BeginFlush(e, c)) /\ BeginFlush(e, c).remoteDescriptionApplied
<1>1. Offerer # Answerer /\ Ends = {Offerer, Answerer}
  BY DEF Ends, Offerer, Answerer
<1>2. CASE c.iceBuffer # <<>>
  <2> DEFINE d == [c EXCEPT !.await = "flush"]
  <2>1. /\ d \in PairContext /\ d.state = c.state /\ d.await = "flush"
        /\ d.remoteDescriptionApplied = c.remoteDescriptionApplied
        /\ d.iceBuffer = c.iceBuffer
    BY DEF PairContext, Awaits
  <2>2. BeginFlush(e, c) = d
    BY <1>2 DEF BeginFlush
  <2> HIDE DEF d
  <2> QED
    BY <1>2, <2>1, <2>2 DEF Patchable, Live
<1>3. CASE c.iceBuffer = <<>> /\ e = Answerer
  <2> DEFINE d == [c EXCEPT !.state = "creating-answer", !.await = "createAnswer"]
  <2>1. /\ d \in PairContext /\ d.state = "creating-answer" /\ d.await = "createAnswer"
        /\ d.remoteDescriptionApplied = c.remoteDescriptionApplied
    BY DEF PairContext, Awaits, PairContextStates
  <2>2. BeginFlush(e, c) = d
    BY <1>3 DEF BeginFlush, AfterFlush
  <2> HIDE DEF d
  <2> QED
    BY <1>1, <1>3, <2>1, <2>2 DEF Patchable, Live
<1>4. CASE c.iceBuffer = <<>> /\ e = Offerer
  <2> DEFINE d == [c EXCEPT !.state = "stable", !.await = "nothing"]
  <2>1. /\ d \in PairContext /\ d.state = "stable" /\ d.await = "nothing"
        /\ d.remoteDescriptionApplied = c.remoteDescriptionApplied
    BY DEF PairContext, Awaits, PairContextStates
  <2>2. BeginFlush(e, c) = d
    BY <1>1, <1>4 DEF BeginFlush, AfterFlush
  <2> HIDE DEF d
  <2> QED
    BY <1>1, <1>4, <2>1, <2>2 DEF Patchable, Live
<1> QED
  BY <1>1, <1>2, <1>3, <1>4

\* setRemoteDescription of the offer resolves.
LEMMA SetRemoteOfferStep ==
  ASSUME IInv, NEW e \in Ends, NEW k \in Epochs, SetRemoteOffer(e, k), Continuation(e, k)
  PROVE  IInv' /\ Applies(e, k)
<1> DEFINE c == [ctx[e][k] EXCEPT !.signaling = "have-remote-offer",
                                  !.remoteDescriptionApplied = TRUE]
<1>1. /\ Live(ctx[e][k]) /\ ctx[e][k] \in PairContext /\ ctx[e][k].await = "setRemoteOffer"
      /\ Patchable(e, k, ctx[e][k])
  BY Suspended, LiveFacts DEF SetRemoteOffer, Awaiting
<1>2. /\ c \in PairContext /\ c.state = ctx[e][k].state /\ c.remoteDescriptionApplied
  BY <1>1 DEF PairContext
<1>3. Continues(e, k, BeginFlush(e, c)) /\ SendsUp(e)
  BY DEF SetRemoteOffer, Continuation, Patch, Continues, SendsUp, server
<1>4. e = Answerer /\ e # Offerer /\ HasBegun(ctx, Offerer, k)
  BY <1>1 DEF Patchable, Ends, Offerer, Answerer
<1> HIDE DEF c
<1>5. Patchable(e, k, BeginFlush(e, c)) /\ BeginFlush(e, c).remoteDescriptionApplied
  BY <1>1, <1>2, <1>4, FlushPatch DEF Live
<1>6. pairs[e] = k /\ HasBegun(ctx, e, k)
  BY <1>1, LiveFacts
<1> QED
  BY <1>1, <1>3, <1>4, <1>5, <1>6, ContinueStep DEF Applies

\* setRemoteDescription of the answer resolves.
LEMMA SetRemoteAnswerStep ==
  ASSUME IInv, NEW e \in Ends, NEW k \in Epochs, SetRemoteAnswer(e, k), Continuation(e, k)
  PROVE  IInv' /\ Applies(e, k)
<1> DEFINE c == [ctx[e][k] EXCEPT !.signaling = "stable", !.state = "stable",
                                  !.remoteDescriptionApplied = TRUE]
<1>1. /\ Live(ctx[e][k]) /\ ctx[e][k] \in PairContext
      /\ ctx[e][k].await = "setRemoteAnswer" /\ Patchable(e, k, ctx[e][k])
  BY Suspended, LiveFacts DEF SetRemoteAnswer, Awaiting
<1>2. /\ c \in PairContext /\ c.state = "stable" /\ c.remoteDescriptionApplied
  BY <1>1 DEF PairContext, PairContextStates
<1>3. Continues(e, k, BeginFlush(e, c)) /\ SendsUp(e)
  BY DEF SetRemoteAnswer, Continuation, Patch, Continues, SendsUp, server
<1>4. e = Offerer /\ e # Answerer /\ HasApplied(ctx, Answerer, k)
  BY <1>1 DEF Patchable, Ends, Offerer, Answerer
<1> HIDE DEF c
<1>5. Patchable(e, k, BeginFlush(e, c)) /\ BeginFlush(e, c).remoteDescriptionApplied
  BY <1>2, <1>4, FlushPatch DEF Live
<1>6. pairs[e] = k /\ HasBegun(ctx, e, k)
  BY <1>1, LiveFacts
<1> QED
  BY <1>1, <1>3, <1>4, <1>5, <1>6, ContinueStep DEF Applies

\* A candidate has been flushed.
LEMMA FlushStep ==
  ASSUME IInv, NEW e \in Ends, NEW k \in Epochs, Flush(e, k), Continuation(e, k)
  PROVE  IInv' /\ Steady
<1> DEFINE c == [ctx[e][k] EXCEPT !.added = Append(@, Head(ctx[e][k].iceBuffer)),
                                  !.iceBuffer = Tail(@)]
<1>1. /\ Live(ctx[e][k]) /\ ctx[e][k] \in PairContext /\ ctx[e][k].await = "flush"
      /\ Patchable(e, k, ctx[e][k]) /\ ctx[e][k].iceBuffer # <<>>
  BY Suspended, LiveFacts DEF Flush, Awaiting, Patchable
<1>2. /\ c \in PairContext /\ c.state = ctx[e][k].state
      /\ c.remoteDescriptionApplied = ctx[e][k].remoteDescriptionApplied
  <2>1. /\ ctx[e][k].iceBuffer \in Seq(Candidates) /\ ctx[e][k].added \in Seq(Candidates)
    BY <1>1 DEF PairContext
  <2>2. /\ Head(ctx[e][k].iceBuffer) \in Candidates
        /\ Tail(ctx[e][k].iceBuffer) \in Seq(Candidates)
    BY <1>1, <2>1, HeadFacts
  <2>3. Append(ctx[e][k].added, Head(ctx[e][k].iceBuffer)) \in Seq(Candidates)
    BY <2>1, <2>2
  <2> QED
    BY <1>1, <2>2, <2>3 DEF PairContext
<1>3. Continues(e, k, BeginFlush(e, c)) /\ SendsUp(e)
  BY DEF Flush, Continuation, Patch, Continues, SendsUp, server
<1>4. /\ e = Offerer => HasApplied(ctx, Answerer, k)
      /\ e = Answerer => HasBegun(ctx, Offerer, k)
      /\ ctx[e][k].remoteDescriptionApplied
  BY <1>1 DEF Patchable
<1> HIDE DEF c
<1>5. Patchable(e, k, BeginFlush(e, c)) /\ BeginFlush(e, c).remoteDescriptionApplied
  BY <1>1, <1>2, <1>4, FlushPatch DEF Live
<1> QED
  BY <1>1, <1>2, <1>3, <1>4, <1>5, ContinueStep


\* createAnswer resolves.
LEMMA CreatedAnswerStep ==
  ASSUME IInv, NEW e \in Ends, NEW k \in Epochs, CreatedAnswer(e, k), Continuation(e, k)
  PROVE  IInv' /\ Steady
<1> DEFINE c == [ctx[e][k] EXCEPT !.await = "setLocalAnswer"]
<1>1. /\ Live(ctx[e][k]) /\ ctx[e][k] \in PairContext /\ ctx[e][k].await = "createAnswer"
      /\ Patchable(e, k, ctx[e][k])
  BY Suspended, LiveFacts DEF CreatedAnswer, Awaiting
<1>2. /\ c \in PairContext /\ c.state = ctx[e][k].state /\ c.await = "setLocalAnswer"
      /\ c.remoteDescriptionApplied = ctx[e][k].remoteDescriptionApplied
  BY <1>1 DEF PairContext, Awaits
<1>3. Continues(e, k, c) /\ SendsUp(e)
  BY DEF CreatedAnswer, Continuation, Patch, Continues, SendsUp, server
<1> HIDE DEF c
<1>4. Patchable(e, k, c)
  BY <1>1, <1>2 DEF Patchable, Live, Answerer, Offerer
<1> QED
  BY <1>1, <1>2, <1>3, <1>4, ContinueStep

\* setLocalDescription of the answer resolves, and the answer is sent.
LEMMA SetLocalAnswerStep ==
  ASSUME IInv, NEW e \in Ends, NEW k \in Epochs, SetLocalAnswer(e, k), Continuation(e, k)
  PROVE  IInv' /\ Steady
<1> DEFINE c == [ctx[e][k] EXCEPT !.await = "nothing", !.state = "have-local-answer",
                                  !.signaling = "stable"]
<1>1. /\ Live(ctx[e][k]) /\ ctx[e][k] \in PairContext
      /\ ctx[e][k].await = "setLocalAnswer" /\ Patchable(e, k, ctx[e][k])
  BY Suspended, LiveFacts DEF SetLocalAnswer, Awaiting
<1>2. /\ c \in PairContext /\ c.state = "have-local-answer" /\ c.await = "nothing"
      /\ c.remoteDescriptionApplied = ctx[e][k].remoteDescriptionApplied
  BY <1>1 DEF PairContext, Awaits, PairContextStates
<1>3. Continues(e, k, c)
  BY DEF SetLocalAnswer, Continuation, Patch, Continues, server
<1>4. e = Answerer /\ ctx[e][k].remoteDescriptionApplied
  BY <1>1 DEF Patchable, Ends, Offerer, Answerer
<1>5. SendsUp(e)
  <2> DEFINE f == Frame("pair_answer", k)
  <2>1. /\ ctx \in [Ends -> [Epochs -> PairContext]]
        /\ ctx' = [ctx EXCEPT ![e][k] = c]
    BY <1>3 DEF IInv, TypeOK, Continues
  <2>2. ctx'[e][k] = c
    BY <2>1
  <2>3. f \in Upward /\ Sound(ctx', e, f)
    BY <1>2, <1>4, <2>2 DEF Frame, Upward, Sound, HasApplied
  <2> QED
    BY <2>3 DEF SetLocalAnswer, Emit, SendsUp
<1> HIDE DEF c
<1>6. Patchable(e, k, c)
  BY <1>1, <1>2, <1>4 DEF Patchable, Live
<1> QED
  BY <1>1, <1>2, <1>3, <1>5, <1>6, ContinueStep

LEMMA ContinueKeeps ==
  ASSUME IInv, NEW e \in Ends, NEW k \in Epochs, Continue(e, k)
  PROVE  IInv'
BY CreatedOfferStep, SetLocalOfferStep, SetRemoteOfferStep, SetRemoteAnswerStep, FlushStep,
   CreatedAnswerStep, SetLocalAnswerStep
DEF Continue

-----------------------------------------------------------------------------
(* Events of the connection, clicks, and the loss of a connection. *)

LEMMA GatherStep ==
  ASSUME IInv, NEW e \in Ends, NEW k \in Epochs, GatherCandidate(e, k)
  PROVE  IInv' /\ Steady
<1> DEFINE c == ctx[e][k]
           d1 == [c EXCEPT !.gathered = @ + 1]
           d2 == [c EXCEPT !.endOfLocalCandidatesSent = TRUE]
<1>1. /\ c \in PairContext /\ Live(c) /\ pairs[e] = k /\ k # 0
      /\ UNCHANGED <<room, sends, conn, inbox, pairs, view>>
  <2>1. k # 0 /\ pairs[e] = k
    BY MaxEpochAssumption DEF GatherCandidate, Epochs
  <2> QED
    BY <2>1, InTheMap DEF GatherCandidate, server
<1>2. Patchable(e, k, c) /\ c.gathered \in Nat /\ view' \in Views /\ TakesIn(e)
  BY <1>1, LiveFacts, MaxCandidatesAssumption
  DEF PairContext, IInv, TypeOK, Views, TakesIn
<1>3. CASE c.gathered < MaxCandidates
  <2>1. ctx' = [ctx EXCEPT ![e][k] = d1] /\ Emit(e, CandidateFrame(k, c.gathered + 1))
    BY <1>3 DEF GatherCandidate, Patch
  <2>2. /\ d1 \in PairContext /\ d1.state = c.state /\ d1.await = c.await
        /\ d1.iceBuffer = c.iceBuffer
        /\ d1.remoteDescriptionApplied = c.remoteDescriptionApplied
    BY <1>1, <1>2, <1>3, MaxCandidatesAssumption DEF PairContext
  <2>3. SendsUp(e)
    <3> DEFINE f == CandidateFrame(k, c.gathered + 1)
    <3>1. c.gathered + 1 \in Candidates
      BY <1>2, <1>3, MaxCandidatesAssumption DEF Candidates
    <3>2. f \in Upward /\ Sound(ctx', e, f)
      BY <3>1 DEF CandidateFrame, Upward, Sound
    <3> QED
      BY <2>1, <3>2 DEF Emit, SendsUp
  <2> HIDE DEF d1
  <2>4. Patchable(e, k, d1)
    BY <1>1, <1>2, <2>2, SamePatchable DEF Live
  <2> QED
    BY <1>1, <1>2, <2>1, <2>2, <2>3, <2>4, PatchStep
<1>4. CASE ~ (c.gathered < MaxCandidates)
  <2>1. ctx' = [ctx EXCEPT ![e][k] = d2] /\ Emit(e, CandidateFrame(k, EndOfCandidates))
    BY <1>4 DEF GatherCandidate, Patch
  <2>2. /\ d2 \in PairContext /\ d2.state = c.state /\ d2.await = c.await
        /\ d2.iceBuffer = c.iceBuffer
        /\ d2.remoteDescriptionApplied = c.remoteDescriptionApplied
    BY <1>1 DEF PairContext
  <2>3. SendsUp(e)
    <3> DEFINE f == CandidateFrame(k, EndOfCandidates)
    <3>1. f \in Upward /\ Sound(ctx', e, f)
      BY MaxCandidatesAssumption
      DEF CandidateFrame, Upward, Sound, Candidates, EndOfCandidates
    <3> QED
      BY <2>1, <3>1 DEF Emit, SendsUp
  <2> HIDE DEF d2
  <2>4. Patchable(e, k, d2)
    BY <1>1, <1>2, <2>2, SamePatchable DEF Live
  <2> QED
    BY <1>1, <1>2, <2>1, <2>2, <2>3, <2>4, PatchStep
<1> QED
  BY <1>3, <1>4

LEMMA FailsStep ==
  ASSUME IInv, NEW e \in Ends, NEW k \in Epochs, ConnectionFails(e, k)
  PROVE  IInv' /\ Steady
<1> DEFINE c == ctx[e][k]
           d1 == [c EXCEPT !.failing = TRUE]
           d2 == [c EXCEPT !.failing = TRUE, !.failedReported = TRUE, !.state = "failed"]
<1>1. /\ c \in PairContext /\ Live(c) /\ c.remoteDescriptionApplied
      /\ UNCHANGED <<room, sends, conn, inbox, pairs>>
  <2>1. k # 0 /\ pairs[e] = k /\ c.remoteDescriptionApplied
    BY MaxEpochAssumption DEF ConnectionFails, Negotiated, Epochs
  <2> QED
    BY <2>1, InTheMap DEF ConnectionFails, server
<1>2. Patchable(e, k, c) /\ view' \in Views /\ TakesIn(e)
  <2>1. view \in Views /\ view' = [view EXCEPT ![e].failed = TRUE]
    BY DEF IInv, TypeOK, Views, ConnectionFails
  <2>2. view' \in Views
    BY <2>1 DEF Views
  <2> QED
    BY <1>1, <2>2, LiveFacts DEF TakesIn
<1>3. CASE c.failedReported
  <2>1. ctx' = [ctx EXCEPT ![e][k] = d1] /\ SendsUp(e)
    BY <1>3 DEF ConnectionFails, Patch, SendsUp
  <2>2. /\ d1 \in PairContext /\ d1.state = c.state /\ d1.await = c.await
        /\ d1.iceBuffer = c.iceBuffer
        /\ d1.remoteDescriptionApplied = c.remoteDescriptionApplied
    BY <1>1 DEF PairContext
  <2> HIDE DEF d1
  <2>3. Patchable(e, k, d1)
    BY <1>1, <1>2, <2>2, SamePatchable DEF Live
  <2> QED
    BY <1>1, <1>2, <2>1, <2>2, <2>3, PatchStep
<1>4. CASE ~ c.failedReported
  <2>1. ctx' = [ctx EXCEPT ![e][k] = d2] /\ Emit(e, Frame("pair_failed", k))
    BY <1>4 DEF ConnectionFails, Patch
  <2>2. /\ d2 \in PairContext /\ d2.state = "failed" /\ d2.await = c.await
        /\ d2.iceBuffer = c.iceBuffer
        /\ d2.remoteDescriptionApplied = c.remoteDescriptionApplied
    BY <1>1 DEF PairContext, PairContextStates
  <2>3. Patchable(e, k, d2)
    <3> HIDE DEF d2
    <3> QED
      BY <1>1, <1>2, <2>2, SamePatchable DEF Live
  <2>4. SendsUp(e)
    <3> DEFINE f == Frame("pair_failed", k)
    <3>1. HasApplied(ctx, Answerer, k)
      BY <1>1, AppliedFacts DEF HasApplied
    <3>2. Grows(ctx, ctx')
      BY <1>1, <2>1, <2>3, PatchKeeps
    <3>3. HasApplied(ctx', Answerer, k)
      BY <3>1, <3>2 DEF Grows, Ends, Answerer
    <3>4. f \in Upward /\ Sound(ctx', e, f)
      BY <3>3 DEF Frame, Upward, Sound
    <3> QED
      BY <2>1, <3>4 DEF Emit, SendsUp
  <2> HIDE DEF d2
  <2> QED
    BY <1>1, <1>2, <2>1, <2>2, <2>3, <2>4, PatchStep
<1> QED
  BY <1>3, <1>4

LEMMA ReconnectStep ==
  ASSUME IInv, NEW e \in Ends, ReconnectPair(e)
  PROVE  IInv' /\ Steady
<1> DEFINE k == pairs[e]
           c == ctx[e][k]
           d == [c EXCEPT !.reconnectRequested = TRUE]
<1>1. /\ k \in Epochs /\ c \in PairContext /\ Live(c)
      /\ ctx \in [Ends -> [Epochs -> PairContext]] /\ view \in Views
      /\ UNCHANGED <<room, sends, conn, inbox, pairs>>
  BY InTheMap DEF ReconnectPair, server, IInv, TypeOK, Views
<1>2. Patchable(e, k, c) /\ TakesIn(e)
  BY <1>1, LiveFacts DEF TakesIn
<1>3. view' \in Views
  BY <1>1 DEF ReconnectPair, Views
<1>4. ctx' = [ctx EXCEPT ![e][k] = d] /\ Emit(e, Frame("reconnect_pair", k))
  BY <1>1 DEF ReconnectPair
<1>5. SendsUp(e)
  <2> DEFINE f == Frame("reconnect_pair", k)
  <2>1. f \in Upward /\ Sound(ctx', e, f)
    BY <1>1 DEF Frame, Upward, Sound
  <2> QED
    BY <1>4, <2>1 DEF Emit, SendsUp
<1>6. /\ d \in PairContext /\ d.state = c.state /\ d.await = c.await
      /\ d.iceBuffer = c.iceBuffer
      /\ d.remoteDescriptionApplied = c.remoteDescriptionApplied
  BY <1>1 DEF PairContext
<1> HIDE DEF d
<1>7. Patchable(e, k, d)
  BY <1>1, <1>2, <1>6, SamePatchable DEF Live
<1> HIDE DEF c, k
<1> QED
  BY <1>1, <1>2, <1>3, <1>4, <1>5, <1>6, <1>7, PatchStep DEF c


LEMMA DropStep ==
  ASSUME IInv, NEW e \in Ends, Drop(e)
  PROVE  IInv' /\ Steady
<1>1. /\ UNCHANGED <<room, sends, ctx, pairs, view>> /\ SendsUp(e) /\ TakesIn(e)
      /\ conn' \in [Ends -> {"open", "dropped", "left"}]
  BY DEF Drop, server, SendsUp, TakesIn, IInv, TypeOK
<1> QED
  BY <1>1, IgnoreStep


-----------------------------------------------------------------------------
(* The goroutines of the server read frames. *)

LEMMA RoomFacts ==
  ASSUME NEW rm \in Room, NEW e \in Ends
  PROVE  /\ rm.pairs[PairId].epoch \in Nat
         /\ MarkFailed(rm, PairId) \in Room
         /\ MarkFailed(rm, PairId).pairs[PairId].epoch = rm.pairs[PairId].epoch
         /\ Increment(rm, PairId) \in Room
         /\ Increment(rm, PairId).pairs[PairId].epoch = rm.pairs[PairId].epoch + 1
         /\ Increment(rm, PairId).pairs[PairId].state = "reconnecting"
         /\ Release(rm, e) \in Room
         /\ Release(rm, e).pairs = rm.pairs
<1>1. /\ rm.pairs \in [PairIds -> Pair] /\ rm.participants \in SUBSET Peers
      /\ rm.slots \in [1..MaxSlots -> Peers \cup {NoPeer}]
  BY DEF Room
<1>2. PairId \in PairIds
  BY MaxPeersAssumption, SeatsAssumption DEF PairId, PairIds, Indices
<1>3. rm.pairs[PairId] \in Pair /\ rm.pairs[PairId].epoch \in Nat
  BY <1>1, <1>2 DEF Pair
<1>4. /\ MarkFailed(rm, PairId) \in Room
      /\ MarkFailed(rm, PairId).pairs[PairId].epoch = rm.pairs[PairId].epoch
  <2> DEFINE q == [rm.pairs[PairId] EXCEPT !.state = "failed"]
  <2>1. q \in Pair /\ q.epoch = rm.pairs[PairId].epoch
    BY <1>3 DEF Pair, PairStates
  <2>2. /\ MarkFailed(rm, PairId).pairs = [rm.pairs EXCEPT ![PairId] = q]
        /\ MarkFailed(rm, PairId) = [rm EXCEPT !.pairs = [rm.pairs EXCEPT ![PairId] = q]]
    BY DEF MarkFailed, Room
  <2> HIDE DEF q
  <2>3. [rm.pairs EXCEPT ![PairId] = q] \in [PairIds -> Pair]
    BY <1>1, <2>1
  <2> QED
    BY <1>1, <1>2, <2>1, <2>2, <2>3 DEF Room
<1>5. /\ Increment(rm, PairId) \in Room
      /\ Increment(rm, PairId).pairs[PairId].epoch = rm.pairs[PairId].epoch + 1
      /\ Increment(rm, PairId).pairs[PairId].state = "reconnecting"
  <2> DEFINE p == rm.pairs[PairId]
             q == [state |-> "reconnecting", epoch |-> p.epoch + 1,
                   lo |-> p.lo, hi |-> p.hi]
  <2>1. q \in Pair /\ q.epoch = p.epoch + 1 /\ q.state = "reconnecting"
    BY <1>3 DEF Pair, PairStates
  <2>2. /\ Increment(rm, PairId).pairs = [rm.pairs EXCEPT ![PairId] = q]
        /\ Increment(rm, PairId) = [rm EXCEPT !.pairs = [rm.pairs EXCEPT ![PairId] = q]]
    BY DEF Increment, Room
  <2> HIDE DEF q
  <2>3. [rm.pairs EXCEPT ![PairId] = q] \in [PairIds -> Pair]
    BY <1>1, <2>1
  <2> QED
    BY <1>1, <1>2, <2>1, <2>2, <2>3 DEF Room
<1>6. Release(rm, e) \in Room /\ Release(rm, e).pairs = rm.pairs
  BY <1>1 DEF Release, Room
<1> QED
  BY <1>3, <1>4, <1>5, <1>6

\* A frame that is read, with the sends it leads to.
Reads(e) ==
  /\ frames[e] # <<>> /\ frames' = [frames EXCEPT ![e] = Tail(@)]
  /\ UNCHANGED <<conn, inbox, ctx, pairs, view>>
  /\ sends[e] = <<>>
  /\ sends' \in [Ends -> Seq(Delivery)]
  /\ \A x \in Ends \ {e} : sends'[x] = sends[x]
  /\ \A d \in Range(sends'[e]) : Sound(ctx, Other(d.to), d.msg)

LEMMA ReadKeeps ==
  ASSUME IInv, NEW e \in Ends, Reads(e), RoomOK', Epoch <= Epoch', FailureSound',
         InstructionsOK'
  PROVE  IInv'
<1>1. TypeOK'
  BY DEF IInv, TypeOK, RoomOK, Reads
<1>2. /\ Tail(frames[e]) \in Seq(Upward)
      /\ Range(Tail(frames[e])) \subseteq Range(frames[e])
      /\ frames \in [Ends -> Seq(Upward)]
  <2>1. frames \in [Ends -> Seq(Upward)] /\ frames[e] \in Seq(Upward)
    BY DEF IInv, MessagesOK
  <2> QED
    BY <2>1, HeadFacts DEF Reads
<1>3. /\ frames' \in [Ends -> Seq(Upward)] /\ frames'[e] = Tail(frames[e])
      /\ \A x \in Ends \ {e} : frames'[x] = frames[x]
  BY <1>2 DEF Reads
<1>4. MessagesOK'
  BY <1>3 DEF IInv, MessagesOK, Reads
<1>5. MessagesSound'
  <2> SUFFICES ASSUME NEW x \in Ends
               PROVE  /\ \A m \in Range(frames'[x]) : Sound(ctx, x, m)
                      /\ \A d \in Range(sends'[x]) : Sound(ctx, Other(d.to), d.msg)
                      /\ \A m \in Range(inbox[x]) : Sound(ctx, Other(x), m)
    BY DEF MessagesSound, Reads
  <2>1. /\ \A m \in Range(frames[x]) : Sound(ctx, x, m)
        /\ \A d \in Range(sends[x]) : Sound(ctx, Other(d.to), d.msg)
        /\ \A m \in Range(inbox[x]) : Sound(ctx, Other(x), m)
    BY DEF IInv, MessagesSound
  <2> QED
    BY <1>2, <1>3, <2>1 DEF Reads
<1>6. ContextsOK'
  <2> SUFFICES ASSUME NEW x \in Ends, NEW k \in Epochs
               PROVE  ContextOK(x, k)'
    BY DEF ContextsOK
  <2>1. ContextOK(x, k) /\ Epoch \in Int /\ Epoch' \in Int /\ k \in Int
    BY DEF IInv, ContextsOK, RoomOK, Epochs
  <2> QED
    BY <2>1 DEF ContextOK, Reads, HasApplied, HasBegun, Live
<1>7. PairsOK'
  BY DEF IInv, PairsOK, Reads, HasBegun, Live
<1> QED
  BY <1>1, <1>4, <1>5, <1>6, <1>7 DEF IInv

\* Sends that hold no instruction leave the instructions under way alone.
LEMMA NoneSent ==
  ASSUME IInv, NEW e \in Ends, Reads(e), Epoch' = Epoch,
         \A d \in Range(sends'[e]) : d.msg \notin Instruction
  PROVE  InstructionsOK'
<1>1. \A x \in Ends : None(sends'[e], InstructionsTo(x))
  <2>1. sends'[e] \in Seq(Delivery)
    BY DEF Reads
  <2> QED
    BY <2>1 DEF None, InstructionsTo, To, Range
<1> SUFFICES ASSUME NEW x \in Ends
             PROVE  /\ AtMostOne(inbox[x], Instruction)
                    /\ \A g \in Ends :
                         /\ AtMostOne(sends'[g], InstructionsTo(x))
                         /\ ~ None(sends'[g], InstructionsTo(x)) =>
                              /\ None(sends'[Other(g)], InstructionsTo(x))
                              /\ None(inbox[x], Instruction)
                         /\ \A d \in Range(sends'[g]) : d \in InstructionsTo(x) =>
                              d.msg.epoch = Epoch /\ ~ HasBegun(ctx, x, Epoch)
                    /\ \A m \in Range(inbox[x]) : m \in Instruction =>
                         m.epoch = Epoch /\ ~ HasBegun(ctx, x, Epoch)
  BY DEF InstructionsOK, Reads
<1>2. /\ AtMostOne(inbox[x], Instruction)
      /\ \A m \in Range(inbox[x]) : m \in Instruction =>
           m.epoch = Epoch /\ ~ HasBegun(ctx, x, Epoch)
  BY DEF IInv, InstructionsOK
<1>3. ASSUME NEW g \in Ends
      PROVE  /\ AtMostOne(sends'[g], InstructionsTo(x))
             /\ ~ None(sends'[g], InstructionsTo(x)) =>
                  /\ None(sends'[Other(g)], InstructionsTo(x))
                  /\ None(inbox[x], Instruction)
             /\ \A d \in Range(sends'[g]) : d \in InstructionsTo(x) =>
                  d.msg.epoch = Epoch /\ ~ HasBegun(ctx, x, Epoch)
  <2>1. CASE g = e
    <3>1. AtMostOne(sends'[e], InstructionsTo(x))
      BY <1>1 DEF None, AtMostOne
    <3>2. \A d \in Range(sends'[e]) : d \notin InstructionsTo(x)
      BY DEF InstructionsTo, To
    <3> QED
      BY <1>1, <2>1, <3>1, <3>2
  <2>2. CASE g # e
    <3>1. sends'[g] = sends[g] /\ Other(g) = e
      BY <2>2 DEF Reads, Other, Ends
    <3> QED
      BY <1>1, <3>1 DEF IInv, InstructionsOK
  <2> QED
    BY <2>1, <2>2
<1> QED
  BY <1>2, <1>3


\* A frame is passed on, or nothing is sent.
LEMMA RelayFacts ==
  ASSUME IInv, NEW e \in Ends, NEW f \in Upward \cap Downward, Sound(ctx, e, f)
  PROVE  /\ Relay(e, f) \in Seq(Delivery)
         /\ \A d \in Range(Relay(e, f)) :
              Sound(ctx, Other(d.to), d.msg) /\ d.msg \notin Instruction
<1>1. Other(e) \in Ends /\ Other(Other(e)) = e
  BY DEF Other, Ends
<1>2. f \notin Instruction
  BY DEF Upward, Instruction
<1>3. /\ To(Other(e), f) \in Delivery /\ To(Other(e), f).to = Other(e)
      /\ To(Other(e), f).msg = f
  BY <1>1 DEF To, Delivery
<1> DEFINE d == To(Other(e), f)
<1>4. <<d>> \in Seq(Delivery) /\ Range(<<d>>) = {d}
  BY <1>3, OneFacts
<1>5. <<>> \in Seq(Delivery) /\ Range(<<>>) = {}
  BY EmptyFacts
<1> HIDE DEF d
<1>6. Relay(e, f) = <<d>> \/ Relay(e, f) = <<>>
  BY DEF Relay, d
<1> QED
  BY <1>1, <1>2, <1>3, <1>4, <1>5, <1>6 DEF d

\* What a read has in common with every other.
LEMMA ReadFacts ==
  ASSUME IInv, NEW e \in Ends, Read(e)
  PROVE  /\ Head(frames[e]) \in Upward /\ Sound(ctx, e, Head(frames[e]))
         /\ frames[e] # <<>> /\ frames' = [frames EXCEPT ![e] = Tail(@)]
         /\ UNCHANGED <<conn, inbox, ctx, pairs, view>> /\ sends[e] = <<>>
         /\ sends \in [Ends -> Seq(Delivery)]
<1>1. /\ frames[e] # <<>> /\ frames' = [frames EXCEPT ![e] = Tail(@)]
      /\ UNCHANGED <<conn, inbox, ctx, pairs, view>> /\ sends[e] = <<>>
  BY DEF Read, browsers
<1>2. frames[e] \in Seq(Upward) /\ sends \in [Ends -> Seq(Delivery)]
  BY DEF IInv, MessagesOK
<1>3. Head(frames[e]) \in Upward /\ Head(frames[e]) \in Range(frames[e])
  BY <1>1, <1>2, HeadFacts
<1> QED
  BY <1>1, <1>2, <1>3 DEF IInv, MessagesSound

LEMMA ReadRelayedStep ==
  ASSUME IInv, NEW e \in Ends, Read(e), ReadRelayed(e, Head(frames[e]))
  PROVE  IInv' /\ Steady
<1> DEFINE f == Head(frames[e])
<1>1. /\ f \in Upward /\ Sound(ctx, e, f) /\ UNCHANGED room
      /\ sends' = [sends EXCEPT ![e] = Relay(e, f)]
      /\ sends \in [Ends -> Seq(Delivery)]
  BY ReadFacts DEF ReadRelayed
<1>2. f \in Upward \cap Downward
  BY <1>1 DEF ReadRelayed, Upward, Downward
<1>3. /\ Relay(e, f) \in Seq(Delivery)
      /\ \A d \in Range(Relay(e, f)) :
           Sound(ctx, Other(d.to), d.msg) /\ d.msg \notin Instruction
  BY <1>1, <1>2, RelayFacts
<1>4. /\ sends' \in [Ends -> Seq(Delivery)] /\ sends'[e] = Relay(e, f)
      /\ \A x \in Ends \ {e} : sends'[x] = sends[x]
  BY <1>1, <1>3
<1> HIDE DEF f
<1>5. Reads(e) /\ \A d \in Range(sends'[e]) : d.msg \notin Instruction
  BY <1>3, <1>4, ReadFacts DEF Reads
<1>6. Epoch' = Epoch /\ RoomOK' /\ FailureSound'
  BY <1>1, <1>5 DEF IInv, RoomOK, FailureSound, Epoch, Reads
<1>7. InstructionsOK'
  BY <1>5, <1>6, NoneSent
<1>8. Epoch <= Epoch'
  BY <1>6 DEF IInv, RoomOK, Epochs
<1> QED
  BY <1>5, <1>6, <1>7, <1>8, ReadKeeps DEF Steady, Reads

\* pair_failed: the pair is failed, and it was completed.
LEMMA ReadPairFailedStep ==
  ASSUME IInv, NEW e \in Ends, Read(e), ReadPairFailed(e, Head(frames[e]))
  PROVE  IInv' /\ Steady
<1> DEFINE f == Head(frames[e])
<1>1. /\ f \in Upward /\ Sound(ctx, e, f) /\ f.type = "pair_failed"
      /\ room' = IF f.epoch = Epoch THEN MarkFailed(room, PairId) ELSE room
      /\ sends' = [sends EXCEPT ![e] = Relay(e, f)]
      /\ sends \in [Ends -> Seq(Delivery)]
  BY ReadFacts DEF ReadPairFailed
<1>2. f \in Upward \cap Downward
  BY <1>1 DEF Upward, Downward
<1>3. /\ Relay(e, f) \in Seq(Delivery)
      /\ \A d \in Range(Relay(e, f)) :
           Sound(ctx, Other(d.to), d.msg) /\ d.msg \notin Instruction
  BY <1>1, <1>2, RelayFacts
<1>4. /\ sends' \in [Ends -> Seq(Delivery)] /\ sends'[e] = Relay(e, f)
      /\ \A x \in Ends \ {e} : sends'[x] = sends[x]
  BY <1>1, <1>3
<1> HIDE DEF f
<1>5. Reads(e) /\ \A d \in Range(sends'[e]) : d.msg \notin Instruction
  BY <1>3, <1>4, ReadFacts DEF Reads
<1>6. room \in Room /\ Epoch \in Epochs
  BY DEF IInv, RoomOK
<1>7. Epoch' = Epoch /\ room' \in Room
  BY <1>1, <1>6, RoomFacts DEF Epoch
<1>8. RoomOK' /\ Epoch <= Epoch'
  BY <1>6, <1>7 DEF RoomOK, Epochs
<1>9. FailureSound'
  <2>1. FailureSound /\ ctx' = ctx
    BY <1>5 DEF IInv, Reads
  <2>2. f.epoch = Epoch => HasApplied(ctx, Answerer, Epoch)
    BY <1>1 DEF Sound
  <2>3. room'.pairs[PairId].state = "failed" => HasApplied(ctx, Answerer, Epoch)
    BY <1>1, <2>1, <2>2 DEF FailureSound
  <2> QED
    BY <1>7, <2>1, <2>3 DEF FailureSound
<1>10. InstructionsOK'
  BY <1>5, <1>7, NoneSent
<1> QED
  BY <1>5, <1>7, <1>8, <1>9, <1>10, ReadKeeps DEF Steady, Reads

\* leave_room: the other end is told.
LEMMA ReadEndStep ==
  ASSUME IInv, NEW e \in Ends, Read(e), ReadEnd(e, Head(frames[e]))
  PROVE  IInv' /\ Steady
<1> DEFINE d == To(Other(e), Frame("left", 0))
<1>1. /\ room' = Release(room, e)
      /\ sends' = [sends EXCEPT ![e] =
                     IF Other(e) \in room.participants THEN <<d, d>> ELSE <<>>]
      /\ sends \in [Ends -> Seq(Delivery)]
  BY ReadFacts DEF ReadEnd
<1>2. /\ d \in Delivery /\ Sound(ctx, Other(d.to), d.msg) /\ d.msg \notin Instruction
      /\ Other(e) \in Ends
  BY DEF To, Frame, Delivery, Downward, Instruction, Sound, Other, Ends
<1> HIDE DEF d
<1>3. /\ <<d, d>> \in Seq(Delivery) /\ Range(<<d, d>>) = {d}
      /\ <<>> \in Seq(Delivery) /\ Range(<<>>) = {}
  BY <1>2, TwoFacts, EmptyFacts
<1>4. /\ sends' \in [Ends -> Seq(Delivery)] /\ Range(sends'[e]) \subseteq {d}
      /\ \A x \in Ends \ {e} : sends'[x] = sends[x]
  BY <1>1, <1>3
<1>5. Reads(e) /\ \A s \in Range(sends'[e]) : s.msg \notin Instruction
  BY <1>2, <1>4, ReadFacts DEF Reads
<1>6. room \in Room /\ Epoch \in Epochs
  BY DEF IInv, RoomOK
<1>7. room'.pairs = room.pairs /\ Epoch' = Epoch /\ room' \in Room
  BY <1>1, <1>6, RoomFacts DEF Epoch
<1>8. RoomOK' /\ Epoch <= Epoch' /\ FailureSound'
  BY <1>5, <1>6, <1>7 DEF IInv, RoomOK, Epochs, FailureSound, Reads
<1>9. InstructionsOK'
  BY <1>5, <1>7, NoneSent
<1> QED
  BY <1>5, <1>7, <1>8, <1>9, ReadKeeps DEF Steady, Reads

\* A reconnect_pair that is turned down.
LEMMA ReadRefusedStep ==
  ASSUME IInv, NEW e \in Ends, Read(e), ReadReconnectPair(e, Head(frames[e])),
         ~ MayReconnect(Head(frames[e]))
  PROVE  IInv' /\ Steady
<1> DEFINE d == To(e, [type |-> "error"])
<1>1. /\ UNCHANGED room /\ sends' = [sends EXCEPT ![e] = <<d>>]
      /\ sends \in [Ends -> Seq(Delivery)]
  BY ReadFacts DEF ReadReconnectPair, Refuse
<1>2. d \in Delivery /\ Sound(ctx, Other(d.to), d.msg) /\ d.msg \notin Instruction
  BY DEF To, Delivery, Downward, Instruction, Sound
<1> HIDE DEF d
<1>3. /\ <<d>> \in Seq(Delivery) /\ Range(<<d>>) = {d}
  BY <1>2, OneFacts
<1>4. /\ sends' \in [Ends -> Seq(Delivery)] /\ Range(sends'[e]) = {d}
      /\ \A x \in Ends \ {e} : sends'[x] = sends[x]
  BY <1>1, <1>3
<1>5. Reads(e) /\ \A s \in Range(sends'[e]) : s.msg \notin Instruction
  BY <1>2, <1>4, ReadFacts DEF Reads
<1>6. Epoch' = Epoch /\ RoomOK' /\ FailureSound'
  BY <1>1, <1>5 DEF IInv, RoomOK, FailureSound, Epoch, Reads
<1>7. InstructionsOK'
  BY <1>5, <1>6, NoneSent
<1>8. Epoch <= Epoch'
  BY <1>6 DEF IInv, RoomOK, Epochs
<1> QED
  BY <1>5, <1>6, <1>7, <1>8, ReadKeeps DEF Steady, Reads


\* A reconnect_pair that is granted: the attempt it ends was completed, so
\* both ends have begun it and no instruction is under way any more.
LEMMA ReadGrantedStep ==
  ASSUME IInv, NEW e \in Ends, Read(e), ReadReconnectPair(e, Head(frames[e])),
         MayReconnect(Head(frames[e]))
  PROVE  /\ IInv'
         /\ Epoch' = Epoch + 1 /\ HasApplied(ctx, Answerer, Epoch)
<1> DEFINE f == Frame("pair_reconnect_instruction", Epoch + 1)
           a == To(Offerer, f)
           b == To(Answerer, f)
<1>1. /\ Epoch < MaxEpoch /\ room' = Increment(room, PairId)
      /\ sends' = [sends EXCEPT ![e] = <<a, b>>] /\ sends \in [Ends -> Seq(Delivery)]
      /\ room.pairs[PairId].state = "failed"
  BY ReadFacts DEF ReadReconnectPair, MayReconnect, Instructions
<1>2. /\ room \in Room /\ Epoch \in Epochs /\ Epoch \in Nat /\ Epoch + 1 \in Epochs
      /\ Offerer \in Ends /\ Answerer \in Ends /\ Ends = {Offerer, Answerer}
      /\ Offerer # Answerer
  BY <1>1, MaxEpochAssumption DEF IInv, RoomOK, Epochs, Ends, Offerer, Answerer
<1>3. /\ Epoch' = Epoch + 1 /\ room' \in Room /\ room'.pairs[PairId].state # "failed"
  BY <1>1, <1>2, RoomFacts DEF Epoch
<1>4. HasApplied(ctx, Answerer, Epoch) /\ \A x \in Ends : HasBegun(ctx, x, Epoch)
  <2>1. HasApplied(ctx, Answerer, Epoch)
    BY <1>1 DEF IInv, FailureSound
  <2> QED
    BY <1>2, <2>1, AppliedFacts
<1>5. /\ f \in Instruction /\ f.epoch = Epoch + 1
      /\ f.type = "pair_reconnect_instruction" /\ a \in Delivery /\ b \in Delivery
      /\ a.to = Offerer /\ b.to = Answerer /\ a.msg = f /\ b.msg = f
  BY <1>2 DEF To, Frame, Delivery, Downward, Instruction
<1> HIDE DEF f, a, b
<1>6. <<a, b>> \in Seq(Delivery) /\ Range(<<a, b>>) = {a, b}
  BY <1>5, TwoFacts
<1>7. /\ sends' \in [Ends -> Seq(Delivery)] /\ sends'[e] = <<a, b>>
      /\ \A x \in Ends \ {e} : sends'[x] = sends[x]
  BY <1>1, <1>6
<1>8. Reads(e)
  BY <1>5, <1>6, <1>7, ReadFacts DEF Reads, Sound
<1>9. RoomOK' /\ Epoch <= Epoch'
  BY <1>2, <1>3 DEF RoomOK
<1>10. FailureSound'
  <2>1. \A k \in Epochs : k < Epoch => HasApplied(ctx, Answerer, k)
    BY DEF IInv, FailureSound
  <2>2. \A k \in Epochs : k < Epoch + 1 => k < Epoch \/ k = Epoch
    BY <1>2 DEF Epochs
  <2> QED
    BY <1>3, <1>4, <1>8, <2>1, <2>2 DEF FailureSound, Reads
<1>11. \A x \in Ends : /\ None(inbox[x], Instruction)
                       /\ \A g \in Ends : None(sends[g], InstructionsTo(x))
  <2> TAKE x \in Ends
  <2>1. inbox[x] \in Seq(Downward) /\ \A g \in Ends : sends[g] \in Seq(Delivery)
    BY DEF IInv, MessagesOK
  <2>2. /\ \A m \in Range(inbox[x]) : m \notin Instruction
        /\ \A g \in Ends : \A d \in Range(sends[g]) : d \notin InstructionsTo(x)
    BY <1>4 DEF IInv, InstructionsOK
  <2> QED
    BY <2>1, <2>2 DEF None, Range
<1>12. \A x \in Ends : ~ HasBegun(ctx, x, Epoch + 1)
  <2> TAKE x \in Ends
  <2>1. ContextOK(x, Epoch + 1)
    BY <1>2 DEF IInv, ContextsOK
  <2> QED
    BY <1>2, <2>1 DEF ContextOK, HasBegun
<1>13. InstructionsOK'
  <2> SUFFICES ASSUME NEW x \in Ends
               PROVE  /\ AtMostOne(inbox[x], Instruction)
                      /\ \A g \in Ends :
                           /\ AtMostOne(sends'[g], InstructionsTo(x))
                           /\ ~ None(sends'[g], InstructionsTo(x)) =>
                                /\ None(sends'[Other(g)], InstructionsTo(x))
                                /\ None(inbox[x], Instruction)
                           /\ \A d \in Range(sends'[g]) : d \in InstructionsTo(x) =>
                                d.msg.epoch = Epoch + 1 /\ ~ HasBegun(ctx, x, Epoch + 1)
                      /\ \A m \in Range(inbox[x]) : m \in Instruction =>
                           m.epoch = Epoch + 1 /\ ~ HasBegun(ctx, x, Epoch + 1)
    BY <1>3, <1>8 DEF InstructionsOK, Reads
  <2>1. /\ AtMostOne(inbox[x], Instruction)
        /\ \A m \in Range(inbox[x]) : m \notin Instruction
    <3>1. inbox[x] \in Seq(Downward)
      BY DEF IInv, MessagesOK
    <3> QED
      BY <1>11, <3>1 DEF None, AtMostOne, Range
  <2>2. ASSUME NEW g \in Ends
        PROVE  /\ AtMostOne(sends'[g], InstructionsTo(x))
               /\ ~ None(sends'[g], InstructionsTo(x)) =>
                    /\ None(sends'[Other(g)], InstructionsTo(x))
                    /\ None(inbox[x], Instruction)
               /\ \A d \in Range(sends'[g]) : d \in InstructionsTo(x) =>
                    d.msg.epoch = Epoch + 1 /\ ~ HasBegun(ctx, x, Epoch + 1)
    <3>1. Other(g) \in Ends /\ Other(g) # g
      BY DEF Other, Ends
    <3>2. CASE g = e
      <4>1. ~ (a \in InstructionsTo(x) /\ b \in InstructionsTo(x))
        BY <1>2, <1>5 DEF InstructionsTo, To
      <4>2. AtMostOne(sends'[g], InstructionsTo(x))
        <5> DEFINE T == InstructionsTo(x)
        <5>1. ~ (a \in T /\ b \in T)
          BY <4>1
        <5> HIDE DEF T
        <5>2. AtMostOne(<<a, b>>, T)
          BY <1>5, <5>1, TwoFacts
        <5> QED
          BY <1>7, <3>2, <5>2 DEF T
      <4>3. None(sends'[Other(g)], InstructionsTo(x)) /\ None(inbox[x], Instruction)
        BY <1>7, <1>11, <3>1, <3>2
      <4>4. \A d \in Range(sends'[g]) : d.msg.epoch = Epoch + 1
        BY <1>5, <1>6, <1>7, <3>2
      <4> QED
        BY <1>12, <4>2, <4>3, <4>4
    <3>3. CASE g # e
      <4>1. None(sends'[g], InstructionsTo(x)) /\ sends'[g] \in Seq(Delivery)
        BY <1>7, <1>11, <3>3
      <4> QED
        BY <4>1 DEF None, AtMostOne, Range
    <3> QED
      BY <3>2, <3>3
  <2> QED
    BY <2>1, <2>2
<1> QED
  BY <1>3, <1>4, <1>8, <1>9, <1>10, <1>13, ReadKeeps

LEMMA ReadStep ==
  ASSUME IInv, NEW e \in Ends, Read(e)
  PROVE  IInv'
BY ReadRelayedStep, ReadPairFailedStep, ReadEndStep, ReadRefusedStep, ReadGrantedStep
DEF Read

-----------------------------------------------------------------------------
(* A goroutine makes a send. *)

LEMMA SendStep ==
  ASSUME IInv, NEW e \in Ends, Send(e)
  PROVE  IInv' /\ Steady
<1> DEFINE s == Head(sends[e])
<1>1. /\ sends[e] # <<>> /\ sends' = [sends EXCEPT ![e] = Tail(@)]
      /\ inbox' = IF conn[s.to] = "open" THEN [inbox EXCEPT ![s.to] = Append(@, s.msg)]
                  ELSE inbox
      /\ UNCHANGED <<room, conn, frames, ctx, pairs, view>>
  BY DEF Send
<1>2. /\ sends \in [Ends -> Seq(Delivery)] /\ inbox \in [Ends -> Seq(Downward)]
      /\ sends[e] \in Seq(Delivery)
  BY DEF IInv, MessagesOK
<1>3. /\ s \in Delivery /\ s \in Range(sends[e])
      /\ Tail(sends[e]) \in Seq(Delivery) /\ Range(Tail(sends[e])) \subseteq Range(sends[e])
  BY <1>1, <1>2, HeadFacts
<1> HIDE DEF s
<1>4. s.to \in Ends /\ s.msg \in Downward /\ s = To(s.to, s.msg)
  BY <1>3 DEF Delivery, To
<1>5. /\ sends' \in [Ends -> Seq(Delivery)] /\ sends'[e] = Tail(sends[e])
      /\ \A x \in Ends \ {e} : sends'[x] = sends[x]
  BY <1>1, <1>2, <1>3
<1>6. /\ inbox' \in [Ends -> Seq(Downward)]
      /\ \A x \in Ends : \/ inbox'[x] = inbox[x]
                         \/ x = s.to /\ inbox'[x] = Append(inbox[x], s.msg)
  <2>1. Append(inbox[s.to], s.msg) \in Seq(Downward)
    BY <1>2, <1>4
  <2> QED
    BY <1>1, <1>2, <2>1
<1>7. \A x \in Ends : Range(inbox'[x]) \subseteq
                        Range(inbox[x]) \cup (IF x = s.to THEN {s.msg} ELSE {})
  <2> TAKE x \in Ends
  <2>1. Range(Append(inbox[x], s.msg)) = Range(inbox[x]) \cup {s.msg}
    BY <1>2, <1>4, AppendFacts
  <2> QED
    BY <1>6, <2>1
<1>8. TypeOK' /\ MessagesOK' /\ RoomOK' /\ FailureSound' /\ Epoch' = Epoch
  BY <1>1, <1>5, <1>6 DEF IInv, TypeOK, MessagesOK, RoomOK, FailureSound, Epoch
<1>9. ContextsOK' /\ PairsOK'
  BY <1>1, <1>8 DEF IInv, ContextsOK, ContextOK, PairsOK, HasBegun, HasApplied, Live
<1>10. MessagesSound'
  <2> SUFFICES ASSUME NEW x \in Ends
               PROVE  /\ \A m \in Range(frames[x]) : Sound(ctx, x, m)
                      /\ \A d \in Range(sends'[x]) : Sound(ctx, Other(d.to), d.msg)
                      /\ \A m \in Range(inbox'[x]) : Sound(ctx, Other(x), m)
    BY <1>1 DEF MessagesSound
  <2>1. /\ \A m \in Range(frames[x]) : Sound(ctx, x, m)
        /\ \A d \in Range(sends[x]) : Sound(ctx, Other(d.to), d.msg)
        /\ \A m \in Range(inbox[x]) : Sound(ctx, Other(x), m)
        /\ Sound(ctx, Other(s.to), s.msg)
    BY <1>3 DEF IInv, MessagesSound
  <2>2. \A m \in Range(inbox'[x]) : m \in Range(inbox[x]) \/ (x = s.to /\ m = s.msg)
    BY <1>7
  <2> QED
    BY <1>3, <1>5, <2>1, <2>2
<1>11. InstructionsOK'
  <2> SUFFICES ASSUME NEW x \in Ends
               PROVE  /\ AtMostOne(inbox'[x], Instruction)
                      /\ \A g \in Ends :
                           /\ AtMostOne(sends'[g], InstructionsTo(x))
                           /\ ~ None(sends'[g], InstructionsTo(x)) =>
                                /\ None(sends'[Other(g)], InstructionsTo(x))
                                /\ None(inbox'[x], Instruction)
                           /\ \A d \in Range(sends'[g]) : d \in InstructionsTo(x) =>
                                d.msg.epoch = Epoch /\ ~ HasBegun(ctx, x, Epoch)
                      /\ \A m \in Range(inbox'[x]) : m \in Instruction =>
                           m.epoch = Epoch /\ ~ HasBegun(ctx, x, Epoch)
    BY <1>1, <1>8 DEF InstructionsOK
  <2> DEFINE T == InstructionsTo(x)
  <2>1. /\ AtMostOne(inbox[x], Instruction)
        /\ \A g \in Ends :
             /\ AtMostOne(sends[g], T)
             /\ ~ None(sends[g], T) => /\ None(sends[Other(g)], T)
                                       /\ None(inbox[x], Instruction)
             /\ \A d \in Range(sends[g]) : d \in T =>
                  d.msg.epoch = Epoch /\ ~ HasBegun(ctx, x, Epoch)
        /\ \A m \in Range(inbox[x]) : m \in Instruction =>
             m.epoch = Epoch /\ ~ HasBegun(ctx, x, Epoch)
    BY DEF IInv, InstructionsOK
  <2>2. (x = s.to /\ s.msg \in Instruction) <=> s \in T
    BY <1>4 DEF InstructionsTo, To
  <2>3. Other(e) \in Ends /\ Ends = {e, Other(e)} /\ e # Other(e) /\ Other(Other(e)) = e
    BY DEF Other, Ends
  <2> HIDE DEF T
  <2>4. /\ None(sends[e], T) => None(sends'[e], T) /\ s \notin T
        /\ AtMostOne(sends'[e], T)
        /\ s \in T => None(sends'[e], T)
    BY <1>1, <1>2, <1>5, <2>1, HeadFacts DEF s
  <2>5. /\ \A g \in Ends : AtMostOne(sends'[g], T)
        /\ \A g \in Ends : None(sends[g], T) => None(sends'[g], T)
        /\ \A g \in Ends : Range(sends'[g]) \subseteq Range(sends[g])
    BY <1>3, <1>5, <2>1, <2>4
  <2>6. \A m \in Range(inbox'[x]) : m \in Instruction =>
          m.epoch = Epoch /\ ~ HasBegun(ctx, x, Epoch)
    <3>1. s \in T => s.msg.epoch = Epoch /\ ~ HasBegun(ctx, x, Epoch)
      BY <1>3, <2>1
    <3>2. \A m \in Range(inbox'[x]) : m \in Range(inbox[x]) \/ (x = s.to /\ m = s.msg)
      BY <1>7
    <3> QED
      BY <2>1, <2>2, <3>1, <3>2
  <2>7. CASE s \in T
    <3>1. None(inbox[x], Instruction) /\ \A g \in Ends : None(sends'[g], T)
      BY <2>1, <2>3, <2>4, <2>5, <2>7
    <3>2. AtMostOne(inbox'[x], Instruction)
      <4> DEFINE I == Instruction
      <4>1. AtMostOne(inbox[x], I) /\ None(inbox[x], I) /\ inbox[x] \in Seq(Downward)
        BY <1>2, <2>1, <3>1
      <4> HIDE DEF I
      <4>2. AtMostOne(Append(inbox[x], s.msg), I)
        BY <1>4, <4>1, AppendFacts
      <4> QED
        BY <1>6, <4>1, <4>2 DEF I
    <3> QED
      BY <2>1, <2>5, <2>6, <3>1, <3>2 DEF T
  <2>8. CASE s \notin T
    <3>1. /\ AtMostOne(inbox'[x], Instruction)
          /\ None(inbox[x], Instruction) => None(inbox'[x], Instruction)
      <4>1. CASE x = s.to /\ s.msg \notin Instruction
        <5> DEFINE I == Instruction
        <5>1. AtMostOne(inbox[x], I) /\ s.msg \notin I /\ inbox[x] \in Seq(Downward)
          BY <1>2, <2>1, <4>1
        <5> HIDE DEF I
        <5>2. /\ AtMostOne(Append(inbox[x], s.msg), I)
              /\ None(inbox[x], I) => None(Append(inbox[x], s.msg), I)
          BY <1>4, <5>1, AppendFacts
        <5> QED
          BY <1>6, <5>1, <5>2 DEF I
      <4>2. CASE x # s.to
        BY <1>6, <2>1, <4>2
      <4> QED
        BY <2>2, <2>8, <4>1, <4>2
    <3> QED
      BY <2>1, <2>3, <2>5, <2>6, <3>1 DEF T
  <2> QED
    BY <2>7, <2>8
<1> QED
  BY <1>1, <1>8, <1>9, <1>10, <1>11 DEF IInv, Steady


-----------------------------------------------------------------------------
(* The initial states, and the theorem. *)

LEMMA InitStep == Init => IInv /\ Epoch = 1
<1> SUFFICES ASSUME Init PROVE IInv /\ Epoch = 1
  OBVIOUS
<1> DEFINE new == [id \in {PairId} |-> PairPairing(Offerer, Answerer)]
           rm == Admit(Admit(NewRoom, 1, 1), 2, 2)
<1>1. /\ PairId \in PairIds /\ 1 \in Peers /\ 2 \in Peers
      /\ 1 \in 1..MaxSlots /\ 2 \in 1..MaxSlots
  BY MaxPeersAssumption, MaxSlotsAssumption, SeatsAssumption
  DEF PairId, PairIds, Indices, Peers
<1>2. /\ NewRoom \in Room /\ NewRoom.pairs = [id \in PairIds |-> NoPair]
      /\ NewRoom.slots \in [1..MaxSlots -> Peers \cup {NoPeer}]
  BY DEF NewRoom, Room, Pair, NoPair, PairStates, NoPeer
<1>3. ASSUME NEW r \in Room, NEW p \in Peers, NEW i \in 1..MaxSlots
      PROVE  Admit(r, p, i) \in Room /\ Admit(r, p, i).pairs = r.pairs
  <2>1. /\ r.slots \in [1..MaxSlots -> Peers \cup {NoPeer}]
        /\ r.participants \in SUBSET Peers /\ r.admissionCounter \in Nat
    BY DEF Room
  <2> DEFINE sl == [r.slots EXCEPT ![i] = p]
             ps == r.participants \cup {p}
             n == r.admissionCounter + 1
  <2>2. sl \in [1..MaxSlots -> Peers \cup {NoPeer}] /\ ps \in SUBSET Peers /\ n \in Nat
    BY <2>1
  <2>3. Admit(r, p, i) = [r EXCEPT !.slots = sl, !.participants = ps,
                                   !.admissionCounter = n]
    BY DEF Admit, Room
  <2> HIDE DEF sl, ps, n
  <2> QED
    BY <2>2, <2>3 DEF Room
<1>4. rm \in Room /\ rm.pairs = [id \in PairIds |-> NoPair]
  BY <1>1, <1>2, <1>3
<1>5. PairPairing(Offerer, Answerer) \in Pair
  BY <1>1 DEF PairPairing, Pair, PairStates, Offerer, Answerer
<1> HIDE DEF rm
<1>6. /\ room.pairs \in [PairIds -> Pair]
      /\ room.pairs[PairId] = PairPairing(Offerer, Answerer)
      /\ room = [rm EXCEPT !.pairs = room.pairs]
  <2> DEFINE ps == [id \in PairIds |-> IF id \in DOMAIN new /\ ~ Has(rm, id)
                                       THEN new[id] ELSE rm.pairs[id]]
  <2>1. room = [rm EXCEPT !.pairs = ps]
    BY DEF Init, Register, rm
  <2>2. \A id \in PairIds : NoPair \in Pair /\ rm.pairs[id] = NoPair /\ ~ Has(rm, id)
    BY <1>4 DEF Has, NoPair, Pair, PairStates, NoPeer
  <2>3. \A id \in PairIds : id \in DOMAIN new => new[id] = PairPairing(Offerer, Answerer)
    OBVIOUS
  <2>4. PairId \in DOMAIN new
    OBVIOUS
  <2> HIDE DEF new
  <2>5. ps \in [PairIds -> Pair] /\ ps[PairId] = PairPairing(Offerer, Answerer)
    BY <1>1, <1>5, <2>2, <2>3, <2>4
  <2> HIDE DEF ps
  <2>6. room.pairs = ps
    BY <1>4, <2>1 DEF Room
  <2> QED
    BY <2>1, <2>5, <2>6
<1>7. RoomOK /\ Epoch = 1 /\ room.pairs[PairId].state # "failed"
  <2>1. room \in Room
    BY <1>4, <1>6 DEF Room
  <2>2. Epoch = 1 /\ room.pairs[PairId].state = "pairing"
    BY <1>6 DEF Epoch, PairPairing
  <2> QED
    BY <2>1, <2>2, MaxEpochAssumption DEF RoomOK, Epochs
<1>8. TypeOK
  <2>1. NoContext \in PairContext
    BY EmptyFacts, MaxCandidatesAssumption
    DEF NoContext, PairContext, PairContextStates, Awaits
  <2>2. NoView \in [epoch : 0..MaxEpoch, failed : BOOLEAN, reconnectRequested : BOOLEAN]
    BY MaxEpochAssumption DEF NoView
  <2> QED
    BY <1>7, <2>1, <2>2, MaxEpochAssumption DEF Init, TypeOK, RoomOK
<1>9. PICK g \in Ends :
        sends = [e \in Ends |-> IF e = g
                   THEN Instructions("pair_negotiation_instruction", 1) ELSE <<>>]
  BY DEF Init
<1> DEFINE f == Frame("pair_negotiation_instruction", 1)
           a == To(Offerer, f)
           b == To(Answerer, f)
<1>10. /\ f \in Instruction /\ f.epoch = 1 /\ f.type = "pair_negotiation_instruction"
       /\ a \in Delivery /\ b \in Delivery
       /\ a.to = Offerer /\ b.to = Answerer /\ a.msg = f /\ b.msg = f
       /\ Offerer # Answerer /\ Ends = {Offerer, Answerer}
  BY MaxEpochAssumption
  DEF To, Frame, Delivery, Downward, Instruction, Epochs, Ends, Offerer, Answerer
<1>11. /\ sends[g] = <<a, b>> /\ \A e \in Ends \ {g} : sends[e] = <<>>
       /\ sends \in [Ends -> {<<a, b>>, <<>>}]
  BY <1>9 DEF Instructions
<1>12. \A e \in Ends : /\ inbox[e] = <<>> /\ frames[e] = <<>> /\ pairs[e] = 0
                       /\ \A k \in Epochs : ctx[e][k] = NoContext
  BY DEF Init
<1> HIDE DEF f, a, b
<1>13. /\ <<a, b>> \in Seq(Delivery) /\ Range(<<a, b>>) = {a, b}
       /\ <<>> \in Seq(Delivery) /\ Range(<<>>) = {}
       /\ <<>> \in Seq(Upward) /\ <<>> \in Seq(Downward)
       /\ None(<<>>, Instruction) /\ AtMostOne(<<>>, Instruction)
  BY <1>10, TwoFacts, EmptyFacts
<1>14. MessagesOK
  BY <1>11, <1>13 DEF MessagesOK, Init
<1>15. MessagesSound
  <2>1. \A e \in Ends : Range(sends[e]) \subseteq {a, b}
    BY <1>11, <1>13
  <2> QED
    BY <1>10, <1>12, <1>13, <2>1 DEF MessagesSound, Sound
<1>16. \A e \in Ends, k \in Epochs : ~ HasBegun(ctx, e, k) /\ ~ HasApplied(ctx, e, k)
  BY <1>12 DEF HasBegun, HasApplied, NoContext
<1>17. ContextsOK /\ PairsOK /\ FailureSound
  <2>1. FailureSound
    BY <1>7 DEF FailureSound, Epochs
  <2>2. PairsOK
    BY <1>12 DEF PairsOK
  <2>3. ContextsOK
    BY <1>12 DEF ContextsOK, ContextOK, NoContext, Live
  <2> QED
    BY <2>1, <2>2, <2>3
<1>18. InstructionsOK
  <2> SUFFICES ASSUME NEW x \in Ends
               PROVE  /\ AtMostOne(inbox[x], Instruction)
                      /\ \A h \in Ends :
                           /\ AtMostOne(sends[h], InstructionsTo(x))
                           /\ ~ None(sends[h], InstructionsTo(x)) =>
                                /\ None(sends[Other(h)], InstructionsTo(x))
                                /\ None(inbox[x], Instruction)
                           /\ \A d \in Range(sends[h]) : d \in InstructionsTo(x) =>
                                d.msg.epoch = Epoch /\ ~ HasBegun(ctx, x, Epoch)
                      /\ \A m \in Range(inbox[x]) : m \in Instruction =>
                           m.epoch = Epoch /\ ~ HasBegun(ctx, x, Epoch)
    BY DEF InstructionsOK
  <2> DEFINE T == InstructionsTo(x)
  <2>1. ~ (a \in T /\ b \in T)
    BY <1>10 DEF InstructionsTo, To
  <2> HIDE DEF T
  <2>2. AtMostOne(<<a, b>>, T) /\ AtMostOne(<<>>, T) /\ None(<<>>, T)
    BY <1>10, <2>1, TwoFacts, EmptyFacts
  <2>3. \A h \in Ends : Other(h) \in Ends /\ Other(h) # h
    BY DEF Other, Ends
  <2>4. ASSUME NEW h \in Ends
        PROVE  /\ AtMostOne(sends[h], T)
               /\ ~ None(sends[h], T) => /\ None(sends[Other(h)], T)
                                         /\ None(inbox[x], Instruction)
               /\ \A d \in Range(sends[h]) : d.msg.epoch = 1
    <3>1. CASE h = g
      BY <1>10, <1>11, <1>12, <1>13, <2>2, <2>3, <3>1
    <3>2. CASE h # g
      BY <1>11, <1>13, <2>2, <3>2
    <3> QED
      BY <3>1, <3>2
  <2>5. ~ HasBegun(ctx, x, Epoch)
    BY <1>7, <1>16 DEF RoomOK
  <2> QED
    BY <1>7, <1>12, <1>13, <2>4, <2>5 DEF T
<1> QED
  BY <1>7, <1>8, <1>14, <1>15, <1>17, <1>18 DEF IInv

LEMMA NextStep == IInv /\ [Next]_vars => IInv'
<1> SUFFICES ASSUME IInv, [Next]_vars PROVE IInv'
  OBVIOUS
<1>1. CASE UNCHANGED vars
  <2>1. Epoch' = Epoch
    BY <1>1 DEF vars, Epoch
  <2> QED
    BY <1>1, <2>1
    DEF vars, IInv, TypeOK, MessagesOK, RoomOK, ContextsOK, ContextOK, PairsOK,
        MessagesSound, FailureSound, InstructionsOK
<1>2. CASE Next
  BY <1>2, ReadStep, SendStep, ReceiveStep, ContinueKeeps, GatherStep, FailsStep,
     ReconnectStep, LeaveStep, DropStep
  DEF Next, Progress
<1> QED
  BY <1>1, <1>2

\* The invariant holds in every reachable state, for any number of attempts
\* and candidates, and whichever ends' candidates are followed.
THEOREM Inductive == Spec => []IInv
BY InitStep, NextStep, PTL DEF Spec

\* Type correctness, in every reachable state.
THEOREM TypeCorrect == Spec => []TypeOK
<1>1. IInv => TypeOK
  BY DEF IInv
<1> QED
  BY <1>1, Inductive, PTL

\* The only context an end has not closed is the one in its map: however
\* reconnects, late continuations and departures interleave, a rebuilt pair
\* leaks no connection of an old attempt.
THEOREM OneLive == Spec => []OneLiveConnection
<1>1. IInv => OneLiveConnection
  BY DEF IInv, ContextsOK, ContextOK, Live, OneLiveConnection
<1> QED
  BY <1>1, Inductive, PTL


-----------------------------------------------------------------------------
(***************************************************************************)
(* No candidate is stranded, because an end sends one offer or answer per  *)
(* attempt and the other end takes it once: a second one would break off   *)
(* a flush.                                                                *)
(***************************************************************************)

\* The description an end sends in attempt k, and its relay to the other end.
Description(e, k) == Frame(IF e = Offerer THEN "pair_offer" ELSE "pair_answer", k)
Descriptions(e, k) == {Description(e, k)}
Relayed(e, k) == {To(Other(e), Description(e, k))}

\* With context c, end e has sent its description.
Made(e, c) ==
  IF e = Offerer THEN c.remoteDescriptionApplied \/ c.signaling # "stable"
  ELSE c.remoteDescriptionApplied /\ c.signaling = "stable"

\* With context c, an end has taken up its partner's.
Taken(c) ==
  c.remoteDescriptionApplied \/ c.await \in {"setRemoteOffer", "setRemoteAnswer"}

\* What a context says by itself: a description is applied once, one that is
\* being made was not sent, and what is left in the buffer is being flushed.
Tidy(e, c) ==
  /\ c.await \in {"setRemoteOffer", "setRemoteAnswer"} => ~ c.remoteDescriptionApplied
  /\ c.await \in {"createOffer", "setLocalOffer", "createAnswer", "setLocalAnswer"} =>
       ~ Made(e, c)
  /\ c.await = "flush" /\ e = Answerer => ~ Made(e, c)
  /\ c.remoteDescriptionApplied /\ c.await # "flush" => c.iceBuffer = <<>>

\* The description of an attempt is in one place at most, from the end that
\* made it to the one that takes it, and in none before or after.
Once(e, k) ==
  /\ AtMostOne(frames[e], Descriptions(e, k)) /\ AtMostOne(sends[e], Relayed(e, k))
  /\ AtMostOne(inbox[Other(e)], Descriptions(e, k))
  /\ None(sends[Other(e)], Relayed(e, k))
  /\ \/ None(frames[e], Descriptions(e, k))
     \/ None(sends[e], Relayed(e, k)) /\ None(inbox[Other(e)], Descriptions(e, k))
  /\ None(sends[e], Relayed(e, k)) \/ None(inbox[Other(e)], Descriptions(e, k))
  /\ ~ Made(e, ctx[e][k]) \/ Taken(ctx[Other(e)][k]) =>
       /\ None(frames[e], Descriptions(e, k)) /\ None(sends[e], Relayed(e, k))
       /\ None(inbox[Other(e)], Descriptions(e, k))

SentOnce ==
  \A e \in Ends, k \in Epochs :
    Once(e, k) /\ (Taken(ctx[Other(e)][k]) => Made(e, ctx[e][k]))

AllTidy == \A e \in Ends, k \in Epochs : Tidy(e, ctx[e][k])

OnceInv == IInv /\ SentOnce /\ AllTidy

-----------------------------------------------------------------------------
(* Steps that send and take no description. *)

\* A context goes on without taking up a description.
Moves(e, c, d) ==
  (Made(e, c) => Made(e, d)) /\ (Taken(d) => Taken(c)) /\ (Tidy(e, c) => Tidy(e, d))

\* A sequence gains none of S.
Fewer(s, t, S) ==
  (None(s, S) => None(t, S)) /\ (AtMostOne(s, S) => AtMostOne(t, S))

ContextsMove == \A e \in Ends, k \in Epochs : Moves(e, ctx[e][k], ctx'[e][k])
FramesFewer ==
  \A e \in Ends, k \in Epochs : Fewer(frames[e], frames'[e], Descriptions(e, k))
SendsFewer ==
  \A e, g \in Ends, k \in Epochs : Fewer(sends[g], sends'[g], Relayed(e, k))
InboxFewer ==
  \A e \in Ends, k \in Epochs : Fewer(inbox[Other(e)], inbox'[Other(e)], Descriptions(e, k))

LEMMA OnceKept ==
  ASSUME NEW e \in Ends, NEW k \in Epochs, Once(e, k),
         Fewer(frames[e], frames'[e], Descriptions(e, k)),
         Fewer(sends[e], sends'[e], Relayed(e, k)),
         Fewer(sends[Other(e)], sends'[Other(e)], Relayed(e, k)),
         Fewer(inbox[Other(e)], inbox'[Other(e)], Descriptions(e, k)),
         Made(e, ctx[e][k]) => Made(e, ctx'[e][k]),
         Taken(ctx'[Other(e)][k]) => Taken(ctx[Other(e)][k])
  PROVE  Once(e, k)'
BY DEF Once, Fewer

LEMMA QuietStep ==
  ASSUME OnceInv, ContextsMove, FramesFewer, SendsFewer, InboxFewer
  PROVE  SentOnce' /\ AllTidy'
<1>1. AllTidy'
  BY DEF OnceInv, AllTidy, ContextsMove, Moves
<1>2. ASSUME NEW e \in Ends, NEW k \in Epochs
      PROVE  Once(e, k)' /\ (Taken(ctx'[Other(e)][k]) => Made(e, ctx'[e][k]))
  <2>1. Other(e) \in Ends
    BY DEF Other, Ends
  <2>2. /\ Made(e, ctx[e][k]) => Made(e, ctx'[e][k])
        /\ Taken(ctx'[Other(e)][k]) => Taken(ctx[Other(e)][k])
    BY <2>1 DEF ContextsMove, Moves
  <2>3. Once(e, k) /\ (Taken(ctx[Other(e)][k]) => Made(e, ctx[e][k]))
    BY DEF OnceInv, SentOnce
  <2>4. /\ Fewer(frames[e], frames'[e], Descriptions(e, k))
        /\ Fewer(sends[e], sends'[e], Relayed(e, k))
        /\ Fewer(sends[Other(e)], sends'[Other(e)], Relayed(e, k))
        /\ Fewer(inbox[Other(e)], inbox'[Other(e)], Descriptions(e, k))
    BY <2>1 DEF FramesFewer, SendsFewer, InboxFewer
  <2>5. Once(e, k)'
    BY <2>2, <2>3, <2>4, OnceKept
  <2> QED
    BY <2>2, <2>3, <2>5
<1> QED
  BY <1>1, <1>2 DEF SentOnce

LEMMA FewerFacts ==
  ASSUME NEW S, NEW s \in Seq(S), NEW T
  PROVE  /\ Fewer(s, s, T) /\ Fewer(s, <<>>, T)
         /\ s # <<>> => Fewer(s, Tail(s), T)
         /\ \A m \in S \ T : Fewer(s, Append(s, m), T)
         /\ \A n \in 0..Len(s), m \in S \ T : Fewer(s, Append(SubSeq(s, 1, n), m), T)
<1>1. Fewer(s, s, T)
  BY DEF Fewer
<1>2. Fewer(s, <<>>, T)
  BY EmptyFacts DEF Fewer
<1>3. s # <<>> => Fewer(s, Tail(s), T)
  BY HeadFacts DEF Fewer
<1>4. ASSUME NEW r \in Seq(S), NEW m \in S \ T PROVE Fewer(r, Append(r, m), T)
  BY AppendFacts DEF Fewer
<1>5. ASSUME NEW n \in 0..Len(s), NEW m \in S \ T
      PROVE  Fewer(s, Append(SubSeq(s, 1, n), m), T)
  <2> DEFINE t == SubSeq(s, 1, n)
  <2>1. Len(s) \in Nat /\ n \in Nat /\ n <= Len(s)
    BY LenProperties
  <2>2. t \in Seq(S) /\ Len(t) = n /\ \A i \in 1..n : t[i] = s[i]
    BY <2>1, SubSeqProperties
  <2> HIDE DEF t
  <2>3. Fewer(s, t, T)
    BY <2>1, <2>2 DEF Fewer, None, AtMostOne
  <2>4. Fewer(t, Append(t, m), T)
    BY <1>4, <2>2
  <2> QED
    BY <2>3, <2>4 DEF Fewer, t
<1> QED
  BY <1>1, <1>2, <1>3, <1>4, <1>5

\* What else is said is no description.
LEMMA NoDescription ==
  ASSUME NEW m, m.type \notin {"pair_offer", "pair_answer"}, NEW e \in Ends, NEW k,
         NEW x
  PROVE  m \notin Descriptions(e, k) /\ To(x, m) \notin Relayed(e, k)
<1>1. Description(e, k).type \in {"pair_offer", "pair_answer"}
  BY DEF Description, Frame
<1>2. m # Description(e, k)
  BY <1>1
<1>3. To(x, m) = To(Other(e), Description(e, k)) => m = Description(e, k)
  BY DEF To
<1> QED
  BY <1>2, <1>3 DEF Descriptions, Relayed

LEMMA SameFewer ==
  ASSUME TRUE
  PROVE  /\ frames' = frames => FramesFewer
         /\ sends' = sends => SendsFewer
         /\ inbox' = inbox => InboxFewer
         /\ ctx' = ctx => ContextsMove
BY DEF FramesFewer, SendsFewer, InboxFewer, ContextsMove, Fewer, Moves

LEMMA EmitFewer ==
  ASSUME IInv, NEW e \in Ends, NEW f \in Upward,
         f.type \notin {"pair_offer", "pair_answer"}, Emit(e, f)
  PROVE  FramesFewer
<1>1. frames \in [Ends -> Seq(Upward)]
  BY DEF IInv, MessagesOK
<1>2. ASSUME NEW x \in Ends, NEW k \in Epochs
      PROVE  Fewer(frames[x], frames'[x], Descriptions(x, k))
  <2>1. f \in Upward \ Descriptions(x, k)
    BY NoDescription
  <2>2. frames'[x] \in {frames[x], Append(frames[x], f)}
    BY <1>1 DEF Emit
  <2>3. frames[x] \in Seq(Upward)
    BY <1>1
  <2> QED
    BY <2>1, <2>2, <2>3, FewerFacts
<1> QED
  BY <1>2 DEF FramesFewer

\* A browser that handles what has arrived, or closes, has less of it.
LEMMA InboxLess ==
  ASSUME IInv, NEW e \in Ends, TakesIn(e)
  PROVE  InboxFewer
<1>1. inbox \in [Ends -> Seq(Downward)]
  BY DEF IInv, MessagesOK
<1>2. ASSUME NEW x \in Ends, NEW k \in Epochs
      PROVE  Fewer(inbox[Other(x)], inbox'[Other(x)], Descriptions(x, k))
  <2> DEFINE y == Other(x)
  <2>1. y \in Ends /\ inbox[y] \in Seq(Downward)
    BY <1>1 DEF Other, Ends
  <2> HIDE DEF y
  <2>2. \/ inbox'[y] = inbox[y] \/ inbox'[y] = <<>>
        \/ inbox[y] # <<>> /\ inbox'[y] = Tail(inbox[y])
    BY <1>1, <2>1 DEF TakesIn
  <2> QED
    BY <2>1, <2>2, FewerFacts DEF y
<1> QED
  BY <1>2 DEF InboxFewer

\* One context is patched.
LEMMA PatchMoves ==
  ASSUME IInv, NEW e \in Ends, NEW k \in Epochs, NEW c,
         ctx' = [ctx EXCEPT ![e][k] = c], Moves(e, ctx[e][k], c)
  PROVE  ContextsMove
<1>1. ctx \in [Ends -> [Epochs -> PairContext]]
  BY DEF IInv, TypeOK
<1>2. ASSUME NEW x \in Ends, NEW j \in Epochs PROVE Moves(x, ctx[x][j], ctx'[x][j])
  <2>1. CASE x = e /\ j = k
    BY <1>1, <2>1
  <2>2. CASE ~ (x = e /\ j = k)
    <3>1. ctx'[x][j] = ctx[x][j]
      BY <1>1, <2>2
    <3> QED
      BY <3>1 DEF Moves
  <2> QED
    BY <2>1, <2>2
<1> QED
  BY <1>2 DEF ContextsMove

\* What is no part of the negotiation does not move it.
LEMMA SameMoves ==
  ASSUME NEW e, NEW c, NEW d, d.await = c.await, d.signaling = c.signaling,
         d.remoteDescriptionApplied = c.remoteDescriptionApplied,
         d.iceBuffer = c.iceBuffer
  PROVE  Moves(e, c, d)
BY DEF Moves, Made, Taken, Tidy

LEMMA ClosedMoves ==
  ASSUME NEW e, NEW c \in PairContext
  PROVE  Moves(e, c, Closed(c))
<1>1. /\ Closed(c).await = "nothing" /\ Closed(c).iceBuffer = <<>>
      /\ Closed(c).signaling = c.signaling
      /\ Closed(c).remoteDescriptionApplied = c.remoteDescriptionApplied
  BY DEF Closed, PairContext
<1> QED
  BY <1>1 DEF Moves, Made, Taken, Tidy

LEMMA NewMoves ==
  ASSUME NEW e \in Ends
  PROVE  Moves(e, NoContext, NewContext(e))
<1>1. /\ NewContext(e).signaling = "stable" /\ ~ NewContext(e).remoteDescriptionApplied
      /\ NewContext(e).await \in {"nothing", "createOffer"}
      /\ NoContext.signaling = "stable" /\ ~ NoContext.remoteDescriptionApplied
  BY DEF NewContext, NoContext
<1> QED
  BY <1>1 DEF Moves, Made, Taken, Tidy, Ends, Offerer, Answerer

-----------------------------------------------------------------------------
(* The browser's steps. *)

\* The continuations that send nothing.
LEMMA ContinueMoves ==
  ASSUME OnceInv, NEW e \in Ends, NEW k \in Epochs, Continuation(e, k),
         \/ CreatedOffer(e, k) \/ SetRemoteOffer(e, k) \/ SetRemoteAnswer(e, k)
         \/ Flush(e, k) \/ CreatedAnswer(e, k)
  PROVE  ContextsMove /\ frames' = frames
<1> DEFINE c == ctx[e][k]
<1>1. IInv /\ Tidy(e, c) /\ ContextOK(e, k) /\ c \in PairContext
  BY DEF OnceInv, AllTidy, IInv, ContextsOK, TypeOK
<1>2. frames' = frames
  BY DEF CreatedOffer, SetRemoteOffer, SetRemoteAnswer, Flush, CreatedAnswer
<1>3. e \in {Offerer, Answerer} /\ Offerer # Answerer
  BY DEF Ends, Offerer, Answerer
<1>4. CASE CreatedOffer(e, k) \/ CreatedAnswer(e, k)
  <2>1. PICK aw \in {"setLocalOffer", "setLocalAnswer"} :
          /\ ctx' = [ctx EXCEPT ![e][k] = [c EXCEPT !.await = aw]]
          /\ c.await \in {"createOffer", "createAnswer"}
    BY <1>4 DEF CreatedOffer, CreatedAnswer, Patch, Awaiting
  <2> DEFINE d == [c EXCEPT !.await = aw]
  <2>2. /\ d.await = aw /\ d.signaling = c.signaling /\ d.iceBuffer = c.iceBuffer
        /\ d.remoteDescriptionApplied = c.remoteDescriptionApplied
    BY <1>1 DEF PairContext
  <2> HIDE DEF d
  <2>3. Moves(e, c, d)
    BY <1>1, <2>1, <2>2 DEF Moves, Made, Taken, Tidy
  <2> QED
    BY <1>1, <1>2, <2>1, <2>3, PatchMoves DEF d
<1>5. CASE SetRemoteOffer(e, k)
  <2> DEFINE d == [c EXCEPT !.signaling = "have-remote-offer",
                            !.remoteDescriptionApplied = TRUE]
  <2>1. c.await = "setRemoteOffer" /\ ctx' = [ctx EXCEPT ![e][k] = BeginFlush(e, d)]
    BY <1>5 DEF SetRemoteOffer, Patch, Awaiting
  <2>2. e = Answerer
    BY <1>1, <1>3, <2>1 DEF ContextOK
  <2>3. /\ d.signaling = "have-remote-offer" /\ d.remoteDescriptionApplied
        /\ d.iceBuffer = c.iceBuffer /\ d \in PairContext
    BY <1>1 DEF PairContext
  <2> HIDE DEF d
  <2> DEFINE b == BeginFlush(e, d)
  <2>4. /\ b.signaling = "have-remote-offer" /\ b.remoteDescriptionApplied
        /\ b.iceBuffer = c.iceBuffer
        /\ b.await = IF b.iceBuffer = <<>> THEN "createAnswer" ELSE "flush"
    BY <2>2, <2>3 DEF BeginFlush, AfterFlush, PairContext
  <2> HIDE DEF b
  <2>5. Moves(e, c, b)
    BY <1>1, <1>3, <2>1, <2>2, <2>4 DEF Moves, Made, Taken, Tidy
  <2> QED
    BY <1>1, <1>2, <2>1, <2>5, PatchMoves DEF b
<1>6. CASE SetRemoteAnswer(e, k)
  <2> DEFINE d == [c EXCEPT !.signaling = "stable", !.state = "stable",
                            !.remoteDescriptionApplied = TRUE]
  <2>1. c.await = "setRemoteAnswer" /\ ctx' = [ctx EXCEPT ![e][k] = BeginFlush(e, d)]
    BY <1>6 DEF SetRemoteAnswer, Patch, Awaiting
  <2>2. e = Offerer
    BY <1>1, <1>3, <2>1 DEF ContextOK
  <2>3. /\ d.remoteDescriptionApplied /\ d.iceBuffer = c.iceBuffer
        /\ d \in PairContext
    BY <1>1 DEF PairContext, PairContextStates
  <2> HIDE DEF d
  <2> DEFINE b == BeginFlush(e, d)
  <2>4. /\ b.remoteDescriptionApplied /\ b.iceBuffer = c.iceBuffer
        /\ b.await = IF b.iceBuffer = <<>> THEN "nothing" ELSE "flush"
    BY <1>3, <2>2, <2>3 DEF BeginFlush, AfterFlush, PairContext
  <2> HIDE DEF b
  <2>5. Moves(e, c, b)
    BY <1>1, <1>3, <2>1, <2>2, <2>4 DEF Moves, Made, Taken, Tidy
  <2> QED
    BY <1>1, <1>2, <2>1, <2>5, PatchMoves DEF b
<1>7. CASE Flush(e, k)
  <2> DEFINE d == [c EXCEPT !.added = Append(@, Head(c.iceBuffer)), !.iceBuffer = Tail(@)]
  <2>1. c.await = "flush" /\ ctx' = [ctx EXCEPT ![e][k] = BeginFlush(e, d)]
    BY <1>7 DEF Flush, Patch, Awaiting
  <2>2. c.remoteDescriptionApplied
    BY <1>1, <2>1 DEF ContextOK
  <2>3. /\ d.remoteDescriptionApplied = c.remoteDescriptionApplied
        /\ d.signaling = c.signaling /\ d.await = c.await
        /\ d = [d EXCEPT !.await = d.await]
        /\ DOMAIN d = DOMAIN c
    BY <1>1 DEF PairContext
  <2>4. /\ "await" \in DOMAIN d /\ "state" \in DOMAIN d /\ "signaling" \in DOMAIN d
        /\ "iceBuffer" \in DOMAIN d /\ "remoteDescriptionApplied" \in DOMAIN d
    BY <1>1, <2>3 DEF PairContext
  <2> HIDE DEF d
  <2> DEFINE b == BeginFlush(e, d)
  <2>5. /\ b.remoteDescriptionApplied = c.remoteDescriptionApplied
        /\ b.signaling = c.signaling
        /\ \/ b.await = "flush"
           \/ b.iceBuffer = <<>> /\ b.await = IF e = Answerer THEN "createAnswer"
                                              ELSE "nothing"
    BY <2>1, <2>3, <2>4 DEF BeginFlush, AfterFlush
  <2> HIDE DEF b
  <2>6. Moves(e, c, b)
    BY <1>1, <1>3, <2>1, <2>2, <2>5 DEF Moves, Made, Taken, Tidy
  <2> QED
    BY <1>1, <1>2, <2>1, <2>6, PatchMoves DEF b
<1> QED
  BY <1>4, <1>5, <1>6, <1>7

\* A description that is made is sent: it is the first of its attempt, and the
\* other end has taken none.
LEMMA MadeOnce ==
  ASSUME OnceInv, NEW e \in Ends, NEW k \in Epochs, NEW c,
         ctx' = [ctx EXCEPT ![e][k] = c], ~ Made(e, ctx[e][k]), Made(e, c),
         Taken(c) => Taken(ctx[e][k]), Tidy(e, c),
         Emit(e, Description(e, k)), UNCHANGED <<sends, inbox>>
  PROVE  SentOnce' /\ AllTidy'
<1>1. /\ ctx \in [Ends -> [Epochs -> PairContext]]
      /\ frames \in [Ends -> Seq(Upward)]
  BY DEF OnceInv, IInv, TypeOK, MessagesOK
<1>2. /\ ctx'[e][k] = c
      /\ \A x \in Ends, j \in Epochs : ~ (x = e /\ j = k) => ctx'[x][j] = ctx[x][j]
  BY <1>1
<1>3. AllTidy'
  BY <1>2 DEF OnceInv, AllTidy
<1>4. \A x \in Ends, j \in Epochs : /\ Made(x, ctx[x][j]) => Made(x, ctx'[x][j])
                                    /\ Taken(ctx'[x][j]) => Taken(ctx[x][j])
  BY <1>2
<1>5. Description(e, k) \in Upward
  BY DEF Description, Frame, Upward
<1>6. /\ frames'[e] \in {frames[e], Append(frames[e], Description(e, k))}
      /\ \A x \in Ends \ {e} : frames'[x] = frames[x]
  BY <1>1 DEF Emit
<1>7. ASSUME NEW x \in Ends, NEW j \in Epochs
      PROVE  Once(x, j)' /\ (Taken(ctx'[Other(x)][j]) => Made(x, ctx'[x][j]))
  <2>1. Once(x, j) /\ (Taken(ctx[Other(x)][j]) => Made(x, ctx[x][j]))
    BY DEF OnceInv, SentOnce
  <2>2. Other(x) \in Ends
    BY DEF Other, Ends
  <2>3. /\ Fewer(sends[x], sends'[x], Relayed(x, j))
        /\ Fewer(sends[Other(x)], sends'[Other(x)], Relayed(x, j))
        /\ Fewer(inbox[Other(x)], inbox'[Other(x)], Descriptions(x, j))
    BY DEF Fewer
  <2>4. CASE x = e /\ j = k
    <3>1. ~ Taken(ctx[Other(x)][j])
      BY <2>1, <2>4
    <3>2. ~ Taken(ctx'[Other(x)][j])
      BY <1>4, <2>2, <3>1
    <3>3. /\ None(frames[x], Descriptions(x, j)) /\ None(sends[x], Relayed(x, j))
          /\ None(inbox[Other(x)], Descriptions(x, j))
      BY <2>1, <2>4 DEF Once
    <3>4. AtMostOne(frames'[x], Descriptions(x, j))
      <4>1. AtMostOne(frames[x], Descriptions(x, j)) /\ frames[x] \in Seq(Upward)
        BY <1>1, <2>1 DEF Once
      <4>2. PICK m \in Upward : m = Description(e, k)
        BY <1>5
      <4>3. frames'[x] \in {frames[x], Append(frames[x], m)}
        BY <1>6, <2>4, <4>2
      <4>4. AtMostOne(Append(frames[x], m), Descriptions(x, j))
        BY <3>3, <4>1, AppendFacts
      <4> QED
        BY <4>1, <4>3, <4>4
    <3>5. Made(x, ctx'[x][j])
      BY <1>2, <2>4
    <3> QED
      BY <2>1, <3>2, <3>3, <3>4, <3>5 DEF Once
  <2>5. CASE ~ (x = e /\ j = k)
    <3>1. Fewer(frames[x], frames'[x], Descriptions(x, j))
      <4>1. CASE x # e
        BY <1>6, <4>1 DEF Fewer
      <4>2. CASE x = e
        <5>1. Description(e, k) \notin Descriptions(x, j)
          BY <2>5, <4>2 DEF Description, Descriptions, Frame
        <5>2. PICK m \in Upward : m = Description(e, k)
          BY <1>5
        <5>3. frames'[x] \in {frames[x], Append(frames[x], m)} /\ frames[x] \in Seq(Upward)
          BY <1>1, <1>6, <4>2, <5>2
        <5>4. m \in Upward \ Descriptions(x, j)
          BY <5>1, <5>2
        <5> QED
          BY <5>3, <5>4, FewerFacts
      <4> QED
        BY <4>1, <4>2
    <3> QED
      BY <1>4, <2>1, <2>2, <2>3, <3>1, OnceKept
  <2> QED
    BY <2>4, <2>5
<1> QED
  BY <1>3, <1>7 DEF SentOnce

LEMMA ContinueOnce ==
  ASSUME OnceInv, NEW e \in Ends, NEW k \in Epochs, Continue(e, k)
  PROVE  SentOnce' /\ AllTidy'
<1> DEFINE c == ctx[e][k]
<1>1. IInv /\ Tidy(e, c) /\ ContextOK(e, k) /\ c \in PairContext
  BY DEF OnceInv, AllTidy, IInv, ContextsOK, TypeOK
<1>2. e \in {Offerer, Answerer} /\ Offerer # Answerer
  BY DEF Ends, Offerer, Answerer
<1>3. Continuation(e, k) /\ UNCHANGED <<sends, inbox>>
  BY DEF Continue, Continuation, server
<1>4. CASE \/ CreatedOffer(e, k) \/ SetRemoteOffer(e, k) \/ SetRemoteAnswer(e, k)
           \/ Flush(e, k) \/ CreatedAnswer(e, k)
  <2>1. ContextsMove /\ frames' = frames
    BY <1>3, <1>4, ContinueMoves
  <2> QED
    BY <1>3, <2>1, SameFewer, QuietStep
<1>5. CASE SetLocalOffer(e, k)
  <2> DEFINE d == [c EXCEPT !.await = "nothing", !.state = "have-local-offer",
                            !.signaling = "have-local-offer"]
  <2>1. /\ c.await = "setLocalOffer" /\ ctx' = [ctx EXCEPT ![e][k] = d]
        /\ Emit(e, Frame("pair_offer", k))
    BY <1>5 DEF SetLocalOffer, Patch, Awaiting
  <2>2. e = Offerer
    BY <1>1, <1>2, <2>1 DEF ContextOK
  <2>3. /\ d.signaling = "have-local-offer" /\ d.await = "nothing"
        /\ d.iceBuffer = c.iceBuffer
        /\ d.remoteDescriptionApplied = c.remoteDescriptionApplied
    BY <1>1 DEF PairContext
  <2> HIDE DEF d
  <2>4. /\ ~ Made(e, c) /\ Made(e, d) /\ Tidy(e, d)
        /\ Taken(d) => Taken(c)
    BY <1>1, <1>2, <2>1, <2>2, <2>3 DEF Made, Tidy, Taken
  <2>5. Description(e, k) = Frame("pair_offer", k)
    BY <2>2 DEF Description
  <2> QED
    BY <1>3, <2>1, <2>4, <2>5, MadeOnce
<1>6. CASE SetLocalAnswer(e, k)
  <2> DEFINE d == [c EXCEPT !.await = "nothing", !.state = "have-local-answer",
                            !.signaling = "stable"]
  <2>1. /\ c.await = "setLocalAnswer" /\ ctx' = [ctx EXCEPT ![e][k] = d]
        /\ Emit(e, Frame("pair_answer", k))
    BY <1>6 DEF SetLocalAnswer, Patch, Awaiting
  <2>2. e = Answerer /\ c.remoteDescriptionApplied
    BY <1>1, <1>2, <2>1 DEF ContextOK
  <2>3. /\ d.signaling = "stable" /\ d.await = "nothing"
        /\ d.iceBuffer = c.iceBuffer
        /\ d.remoteDescriptionApplied = c.remoteDescriptionApplied
    BY <1>1 DEF PairContext
  <2> HIDE DEF d
  <2>4. /\ ~ Made(e, c) /\ Made(e, d) /\ Tidy(e, d)
        /\ Taken(d) => Taken(c)
    BY <1>1, <1>2, <2>1, <2>2, <2>3 DEF Made, Tidy, Taken
  <2>5. Description(e, k) = Frame("pair_answer", k)
    BY <1>2, <2>2 DEF Description
  <2> QED
    BY <1>3, <2>1, <2>4, <2>5, MadeOnce
<1> QED
  BY <1>4, <1>5, <1>6 DEF Continue


\* The events of the connection, the clicks, and the ends of a connection.
LEMMA GatherOnce ==
  ASSUME OnceInv, NEW e \in Ends, NEW k \in Epochs, GatherCandidate(e, k)
  PROVE  SentOnce' /\ AllTidy'
<1> DEFINE c == ctx[e][k]
           d1 == [c EXCEPT !.gathered = @ + 1]
           d2 == [c EXCEPT !.endOfLocalCandidatesSent = TRUE]
<1>1. IInv /\ c \in PairContext /\ UNCHANGED <<sends, inbox>>
  BY DEF OnceInv, IInv, TypeOK, GatherCandidate, server
<1>2. PICK f \in {CandidateFrame(k, c.gathered + 1), CandidateFrame(k, EndOfCandidates)} :
        Emit(e, f) /\ f \in Upward
  <2>1. c.gathered \in 0..MaxCandidates
    BY <1>1 DEF PairContext
  <2>2. /\ c.gathered < MaxCandidates => c.gathered + 1 \in Candidates
        /\ EndOfCandidates \in Candidates
    BY <2>1, MaxCandidatesAssumption DEF Candidates, EndOfCandidates
  <2>3. \A cand \in Candidates : CandidateFrame(k, cand) \in Upward
    BY DEF CandidateFrame, Upward
  <2> QED
    BY <2>2, <2>3 DEF GatherCandidate
<1>3. f.type = "pair_ice_candidate"
  BY DEF CandidateFrame
<1>4. FramesFewer
  BY <1>1, <1>2, <1>3, EmitFewer
<1>5. PICK d \in {d1, d2} : ctx' = [ctx EXCEPT ![e][k] = d]
  BY DEF GatherCandidate, Patch
<1>6. /\ d.await = c.await /\ d.signaling = c.signaling /\ d.iceBuffer = c.iceBuffer
      /\ d.remoteDescriptionApplied = c.remoteDescriptionApplied
  BY <1>1 DEF PairContext
<1> HIDE DEF c, d1, d2
<1>7. Moves(e, c, d)
  BY <1>6, SameMoves
<1>8. ContextsMove
  BY <1>1, <1>5, <1>7, PatchMoves DEF c
<1> QED
  BY <1>1, <1>4, <1>8, SameFewer, QuietStep

LEMMA FailsOnce ==
  ASSUME OnceInv, NEW e \in Ends, NEW k \in Epochs, ConnectionFails(e, k)
  PROVE  SentOnce' /\ AllTidy'
<1> DEFINE c == ctx[e][k]
           d1 == [c EXCEPT !.failing = TRUE]
           d2 == [c EXCEPT !.failing = TRUE, !.failedReported = TRUE, !.state = "failed"]
<1>1. IInv /\ c \in PairContext /\ UNCHANGED <<sends, inbox>>
  BY DEF OnceInv, IInv, TypeOK, ConnectionFails, server
<1>2. FramesFewer
  <2>1. CASE frames' = frames
    BY <2>1, SameFewer
  <2>2. CASE Emit(e, Frame("pair_failed", k))
    <3> DEFINE f == Frame("pair_failed", k)
    <3>1. f \in Upward /\ f.type = "pair_failed"
      BY DEF Frame, Upward
    <3> QED
      BY <1>1, <2>2, <3>1, EmitFewer
  <2> QED
    BY <2>1, <2>2 DEF ConnectionFails
<1>3. PICK d \in {d1, d2} : ctx' = [ctx EXCEPT ![e][k] = d]
  BY DEF ConnectionFails, Patch
<1>4. /\ d.await = c.await /\ d.signaling = c.signaling /\ d.iceBuffer = c.iceBuffer
      /\ d.remoteDescriptionApplied = c.remoteDescriptionApplied
  BY <1>1 DEF PairContext
<1> HIDE DEF c, d1, d2
<1>5. Moves(e, c, d)
  BY <1>4, SameMoves
<1>6. ContextsMove
  BY <1>1, <1>3, <1>5, PatchMoves DEF c
<1> QED
  BY <1>1, <1>2, <1>6, SameFewer, QuietStep

LEMMA ReconnectOnce ==
  ASSUME OnceInv, NEW e \in Ends, ReconnectPair(e)
  PROVE  SentOnce' /\ AllTidy'
<1> DEFINE k == pairs[e]
           c == ctx[e][k]
           d == [c EXCEPT !.reconnectRequested = TRUE]
<1>1. /\ IInv /\ k \in Epochs /\ c \in PairContext /\ UNCHANGED <<sends, inbox>>
      /\ ctx \in [Ends -> [Epochs -> PairContext]]
  BY InTheMap DEF OnceInv, IInv, TypeOK, ReconnectPair, server
<1>2. ctx' = [ctx EXCEPT ![e][k] = d] /\ Emit(e, Frame("reconnect_pair", k))
  BY <1>1 DEF ReconnectPair
<1>3. FramesFewer
  <2> DEFINE f == Frame("reconnect_pair", k)
  <2>1. f \in Upward /\ f.type = "reconnect_pair"
    BY <1>1 DEF Frame, Upward
  <2> QED
    BY <1>1, <1>2, <2>1, EmitFewer
<1>4. /\ d.await = c.await /\ d.signaling = c.signaling /\ d.iceBuffer = c.iceBuffer
      /\ d.remoteDescriptionApplied = c.remoteDescriptionApplied
  BY <1>1 DEF PairContext
<1> HIDE DEF d, c, k
<1>5. Moves(e, c, d)
  BY <1>4, SameMoves
<1>6. ContextsMove
  BY <1>1, <1>2, <1>5, PatchMoves DEF c
<1> QED
  BY <1>1, <1>3, <1>6, SameFewer, QuietStep

LEMMA ClosePairMoves ==
  ASSUME IInv, NEW e \in Ends, ClosePair(e)
  PROVE  ContextsMove
<1>1. ctx \in [Ends -> [Epochs -> PairContext]]
  BY DEF IInv, TypeOK
<1>2. ASSUME NEW x \in Ends, NEW j \in Epochs PROVE Moves(x, ctx[x][j], ctx'[x][j])
  <2>1. ctx'[x][j] \in {ctx[x][j], Closed(ctx[x][j])} /\ ctx[x][j] \in PairContext
    BY <1>1 DEF ClosePair
  <2>2. Moves(x, ctx[x][j], ctx[x][j])
    BY DEF Moves
  <2> QED
    BY <2>1, <2>2, ClosedMoves
<1> QED
  BY <1>2 DEF ContextsMove

LEMMA EndsOnce ==
  ASSUME OnceInv, NEW e \in Ends, Leave(e) \/ Drop(e)
  PROVE  SentOnce' /\ AllTidy'
<1> DEFINE f == Frame("leave_room", 0)
<1>1. IInv /\ sends' = sends /\ TakesIn(e)
  BY DEF OnceInv, Leave, Drop, server, TakesIn
<1>2. f \in Upward /\ f.type = "leave_room"
  BY DEF Frame, Upward
<1>3. CASE Leave(e)
  <2>1. FramesFewer
    <3>1. Emit(e, f)
      BY <1>3 DEF Leave
    <3> HIDE DEF f
    <3> QED
      BY <1>1, <1>2, <3>1, EmitFewer
  <2>2. ContextsMove
    BY <1>1, <1>3, ClosePairMoves DEF Leave
  <2> QED
    BY <1>1, <2>1, <2>2, SameFewer, InboxLess, QuietStep
<1>4. CASE Drop(e)
  <2>1. frames \in [Ends -> Seq(Upward)]
    BY <1>1 DEF IInv, MessagesOK
  <2>2. PICK n \in 0..Len(frames[e]) :
          frames' = [frames EXCEPT ![e] = Append(SubSeq(@, 1, n), f)]
    BY <1>4 DEF Drop
  <2> HIDE DEF f
  <2>3. ASSUME NEW x \in Ends, NEW k \in Epochs
        PROVE  Fewer(frames[x], frames'[x], Descriptions(x, k))
    <3>1. frames[x] \in Seq(Upward)
      BY <2>1
    <3>2. f \in Upward \ Descriptions(x, k)
      BY <1>2, NoDescription
    <3>3. CASE x = e
      <4>1. frames'[x] = Append(SubSeq(frames[x], 1, n), f) /\ n \in 0..Len(frames[x])
        BY <2>1, <2>2, <3>3
      <4> QED
        BY <3>1, <3>2, <4>1, FewerFacts
    <3>4. CASE x # e
      <4>1. frames'[x] = frames[x]
        BY <2>1, <2>2, <3>4
      <4> QED
        BY <3>1, <4>1, FewerFacts
    <3> QED
      BY <3>3, <3>4
  <2>4. FramesFewer
    BY <2>3 DEF FramesFewer
  <2>5. ctx' = ctx
    BY <1>4 DEF Drop
  <2> QED
    BY <1>1, <2>4, <2>5, SameFewer, InboxLess, QuietStep
<1> QED
  BY <1>3, <1>4


\* The messages that are no description.
LEMMA QuietReceipt ==
  ASSUME OnceInv, NEW e \in Ends, Receive(e), ContextsMove
  PROVE  SentOnce' /\ AllTidy'
<1>1. IInv /\ TakesIn(e) /\ sends' = sends /\ frames' = frames
  BY DEF OnceInv, Receive, TakesIn, server
<1> QED
  BY <1>1, SameFewer, InboxLess, QuietStep

LEMMA InstructionOnce ==
  ASSUME OnceInv, NEW e \in Ends, Receive(e),
         \/ HandleNegotiationInstruction(e, Head(inbox[e]))
         \/ HandleReconnectInstruction(e, Head(inbox[e]))
  PROVE  SentOnce' /\ AllTidy'
<1>1. IInv
  BY DEF OnceInv
<1>2. CASE UNCHANGED <<ctx, pairs, view>>
  <2>1. ctx' = ctx
    BY <1>2
  <2> QED
    BY <2>1, SameFewer, QuietReceipt
<1>3. CASE Begins(e)
  <2>1. ASSUME NEW x \in Ends, NEW j \in Epochs PROVE Moves(x, ctx[x][j], ctx'[x][j])
    <3>1. ctx[x][j] \in PairContext /\ ContextOK(x, j) /\ Epoch \in Epochs
      BY <1>1 DEF IInv, TypeOK, ContextsOK, RoomOK
    <3>2. CASE x = e /\ j = Epoch
      <4>1. ctx[x][j] = NoContext
        BY <1>3, <3>1, <3>2 DEF Begins, HasBegun, ContextOK
      <4>2. ctx'[x][j] = NewContext(x)
        BY <1>3, <3>2 DEF Begins
      <4> QED
        BY <4>1, <4>2, NewMoves
    <3>3. CASE ~ (x = e /\ j = Epoch)
      <4>1. ctx'[x][j] \in {ctx[x][j], Closed(ctx[x][j])}
        BY <1>3, <3>3 DEF Begins
      <4>2. Moves(x, ctx[x][j], ctx[x][j])
        BY DEF Moves
      <4> QED
        BY <3>1, <4>1, <4>2, ClosedMoves
    <3> QED
      BY <3>2, <3>3
  <2>2. ContextsMove
    BY <2>1 DEF ContextsMove
  <2> QED
    BY <2>2, QuietReceipt
<1> QED
  BY <1>1, <1>2, <1>3, InstructionStep

LEMMA CandidateOnce ==
  ASSUME OnceInv, NEW e \in Ends, Receive(e), HandlePairIceCandidate(e, Head(inbox[e]))
  PROVE  SentOnce' /\ AllTidy'
<1> DEFINE m == Head(inbox[e])
           k == pairs[e]
           c == ctx[e][k]
<1>1. IInv
  BY DEF OnceInv
<1>2. CASE Current(e, m)
  <2>1. k \in Epochs /\ c \in PairContext /\ ctx \in [Ends -> [Epochs -> PairContext]]
    BY <1>1, <1>2, InTheMap DEF Current, IInv, TypeOK
  <2>2. PICK d : /\ ctx' = [ctx EXCEPT ![e][k] = d]
                 /\ \/ d = [c EXCEPT !.added = Append(@, m.candidate)]
                    \/ /\ ~ c.remoteDescriptionApplied
                       /\ d = [c EXCEPT !.iceBuffer = Append(@, m.candidate)]
    BY <1>2, <2>1 DEF HandlePairIceCandidate
  <2>3. /\ d.await = c.await /\ d.signaling = c.signaling
        /\ d.remoteDescriptionApplied = c.remoteDescriptionApplied
        /\ d.iceBuffer = c.iceBuffer \/ ~ c.remoteDescriptionApplied
    BY <2>1, <2>2 DEF PairContext
  <2> HIDE DEF c, k, m
  <2>4. Moves(e, c, d)
    BY <2>3 DEF Moves, Made, Taken, Tidy
  <2>5. ContextsMove
    BY <1>1, <2>1, <2>2, <2>4, PatchMoves DEF c
  <2> QED
    BY <2>5, QuietReceipt
<1>3. CASE ~ Current(e, m)
  <2>1. ctx' = ctx
    BY <1>3 DEF HandlePairIceCandidate
  <2> QED
    BY <2>1, SameFewer, QuietReceipt
<1> QED
  BY <1>2, <1>3

LEMMA NoticeOnce ==
  ASSUME OnceInv, NEW e \in Ends, Receive(e),
         \/ HandlePairFailed(e, Head(inbox[e]))
         \/ ClearReconnectRequested(e, Head(inbox[e]))
         \/ HandleLeft(e, Head(inbox[e]))
  PROVE  SentOnce' /\ AllTidy'
<1> DEFINE k == pairs[e]
           c == ctx[e][k]
           d1 == [c EXCEPT !.state = "failed", !.failedReported = TRUE]
           d2 == [c EXCEPT !.reconnectRequested = FALSE]
<1>1. IInv
  BY DEF OnceInv
<1>2. CASE HandleLeft(e, Head(inbox[e]))
  BY <1>1, <1>2, ClosePairMoves, QuietReceipt DEF HandleLeft
<1>3. CASE ctx' = ctx
  BY <1>3, SameFewer, QuietReceipt
<1>4. CASE ctx' # ctx /\ ~ HandleLeft(e, Head(inbox[e]))
  <2>1. pairs[e] # 0
    BY <1>4 DEF HandlePairFailed, ClearReconnectRequested, Current
  <2>2. k \in Epochs /\ c \in PairContext /\ ctx \in [Ends -> [Epochs -> PairContext]]
    BY <1>1, <2>1, InTheMap DEF IInv, TypeOK
  <2>3. PICK d \in {d1, d2} : ctx' = [ctx EXCEPT ![e][k] = d]
    BY <1>4, <2>1, <2>2 DEF HandlePairFailed, ClearReconnectRequested
  <2>4. /\ d.await = c.await /\ d.signaling = c.signaling /\ d.iceBuffer = c.iceBuffer
        /\ d.remoteDescriptionApplied = c.remoteDescriptionApplied
    BY <2>2 DEF PairContext
  <2> HIDE DEF d1, d2, c, k
  <2>5. Moves(e, c, d)
    BY <2>4, SameMoves
  <2>6. ContextsMove
    BY <1>1, <2>2, <2>3, <2>5, PatchMoves DEF c
  <2> QED
    BY <2>6, QuietReceipt
<1> QED
  BY <1>2, <1>3, <1>4

\* The description is taken up by the attempt it is of: its partner has made
\* it, and nothing of the kind is on the way any more.
LEMMA TakenOnce ==
  ASSUME OnceInv, NEW e \in Ends, NEW k \in Epochs, NEW c,
         inbox[e] # <<>>, Head(inbox[e]) = Description(Other(e), k),
         inbox' = [inbox EXCEPT ![e] = Tail(@)], UNCHANGED <<frames, sends>>,
         ctx' = [ctx EXCEPT ![e][k] = c],
         c.await \in {"setRemoteOffer", "setRemoteAnswer"},
         c.signaling = ctx[e][k].signaling, c.iceBuffer = ctx[e][k].iceBuffer,
         c.remoteDescriptionApplied = ctx[e][k].remoteDescriptionApplied
  PROVE  SentOnce' /\ AllTidy'
<1>1. /\ ctx \in [Ends -> [Epochs -> PairContext]]
      /\ inbox \in [Ends -> Seq(Downward)] /\ inbox[e] \in Seq(Downward)
  BY DEF OnceInv, IInv, TypeOK, MessagesOK
<1>2. /\ Other(e) \in Ends /\ Other(Other(e)) = e
      /\ \A x \in Ends : Other(x) = e => x = Other(e)
  BY DEF Other, Ends
<1>3. /\ ctx'[e][k] = c
      /\ \A x \in Ends, j \in Epochs : ~ (x = e /\ j = k) => ctx'[x][j] = ctx[x][j]
  BY <1>1
<1> DEFINE o == Other(e)
<1>4. Once(o, k) /\ (Taken(ctx[e][k]) => Made(o, ctx[o][k]))
  BY <1>2 DEF OnceInv, SentOnce
<1>5. Head(inbox[e]) \in Descriptions(o, k)
  BY DEF Descriptions
<1>6. ~ None(inbox[e], Descriptions(o, k))
  BY <1>1, <1>5, HeadFacts
<1>7. Made(o, ctx[o][k]) /\ ~ Taken(ctx[e][k])
  BY <1>2, <1>4, <1>6 DEF Once
<1>8. AllTidy'
  <2>1. Tidy(e, ctx[e][k])
    BY DEF OnceInv, AllTidy
  <2>2. ~ c.remoteDescriptionApplied
    BY <1>7 DEF Taken
  <2>3. Tidy(e, c)
    BY <2>2 DEF Tidy, Made
  <2> QED
    BY <1>3, <2>3 DEF OnceInv, AllTidy
<1>9. \A x \in Ends, j \in Epochs : Made(x, ctx'[x][j]) <=> Made(x, ctx[x][j])
  BY <1>3 DEF Made
<1>10. ASSUME NEW x \in Ends, NEW j \in Epochs
       PROVE  Once(x, j)' /\ (Taken(ctx'[Other(x)][j]) => Made(x, ctx'[x][j]))
  <2>1. Once(x, j) /\ (Taken(ctx[Other(x)][j]) => Made(x, ctx[x][j]))
    BY DEF OnceInv, SentOnce
  <2>2. Other(x) \in Ends
    BY DEF Other, Ends
  <2>3. CASE x = o /\ j = k
    <3>1. /\ Made(x, ctx'[x][j]) /\ Other(x) = e
      BY <1>2, <1>7, <1>9, <2>3
    <3>2. inbox'[e] = Tail(inbox[e])
      BY <1>1
    <3>3. AtMostOne(inbox[e], Descriptions(o, k))
      BY <1>2, <1>4 DEF Once
    <3>4. /\ None(inbox'[e], Descriptions(o, k))
          /\ AtMostOne(inbox'[e], Descriptions(o, k))
      BY <1>1, <1>5, <3>2, <3>3, HeadFacts
    <3>5. /\ None(frames[o], Descriptions(o, k)) /\ None(sends[o], Relayed(o, k))
      BY <1>2, <1>4, <1>6 DEF Once
    <3> QED
      BY <2>1, <2>3, <3>1, <3>4, <3>5 DEF Once
  <2>4. CASE ~ (x = o /\ j = k)
    <3>1. ctx'[Other(x)][j] = ctx[Other(x)][j]
      BY <1>2, <1>3, <2>2, <2>4
    <3>2. Fewer(inbox[Other(x)], inbox'[Other(x)], Descriptions(x, j))
      <4>1. inbox[Other(x)] \in Seq(Downward)
        BY <1>1, <2>2
      <4>2. \/ inbox'[Other(x)] = inbox[Other(x)]
            \/ inbox[Other(x)] # <<>> /\ inbox'[Other(x)] = Tail(inbox[Other(x)])
        BY <1>1, <2>2
      <4> QED
        BY <4>1, <4>2, FewerFacts
    <3>3. /\ Fewer(frames[x], frames'[x], Descriptions(x, j))
          /\ Fewer(sends[x], sends'[x], Relayed(x, j))
          /\ Fewer(sends[Other(x)], sends'[Other(x)], Relayed(x, j))
      BY DEF Fewer
    <3> QED
      BY <1>9, <2>1, <3>1, <3>2, <3>3, OnceKept
  <2> QED
    BY <2>3, <2>4
<1> QED
  BY <1>8, <1>10 DEF SentOnce

LEMMA DescriptionOnce ==
  ASSUME OnceInv, NEW e \in Ends, Receive(e),
         HandlePairOffer(e, Head(inbox[e])) \/ HandlePairAnswer(e, Head(inbox[e]))
  PROVE  SentOnce' /\ AllTidy'
<1> DEFINE m == Head(inbox[e])
           k == pairs[e]
           d1 == [ctx[e][k] EXCEPT !.state = "have-remote-offer",
                                   !.await = "setRemoteOffer"]
           d2 == [ctx[e][k] EXCEPT !.state = "have-remote-answer",
                                   !.await = "setRemoteAnswer"]
<1>1. /\ IInv /\ inbox[e] # <<>> /\ UNCHANGED <<frames, sends>>
      /\ inbox' = [inbox EXCEPT ![e] = Tail(@)]
  BY DEF OnceInv, Receive, server
<1>2. m \in Downward /\ Sound(ctx, Other(e), m)
  BY <1>1, Received
<1>3. CASE Current(e, m)
  <2>1. /\ k \in Epochs /\ ctx[e][k] \in PairContext /\ m.epoch = k
        /\ ctx \in [Ends -> [Epochs -> PairContext]]
    BY <1>1, <1>3, InTheMap DEF Current, IInv, TypeOK
  <2>2. PICK c \in {d1, d2} : ctx' = [ctx EXCEPT ![e][k] = c]
    BY <1>3, <2>1 DEF HandlePairOffer, HandlePairAnswer
  <2>3. /\ c.await \in {"setRemoteOffer", "setRemoteAnswer"}
        /\ c.signaling = ctx[e][k].signaling /\ c.iceBuffer = ctx[e][k].iceBuffer
        /\ c.remoteDescriptionApplied = ctx[e][k].remoteDescriptionApplied
    BY <2>1 DEF PairContext
  <2>4. m = Description(Other(e), k)
    <3>1. \/ m.type = "pair_offer" /\ Other(e) = Offerer
          \/ m.type = "pair_answer" /\ Other(e) = Answerer
      BY <1>2 DEF HandlePairOffer, HandlePairAnswer, Sound
    <3>2. m = [type |-> m.type, epoch |-> m.epoch]
      BY <1>2, <3>1 DEF Downward, Instruction
    <3>3. Offerer # Answerer
      BY DEF Offerer, Answerer
    <3> QED
      BY <2>1, <3>1, <3>2, <3>3 DEF Description, Frame
  <2> HIDE DEF d1, d2, k
  <2> QED
    BY <1>1, <2>1, <2>2, <2>3, <2>4, TakenOnce
<1>4. CASE ~ Current(e, m)
  <2>1. ctx' = ctx
    BY <1>4 DEF HandlePairOffer, HandlePairAnswer
  <2> QED
    BY <2>1, SameFewer, QuietReceipt
<1> QED
  BY <1>3, <1>4


-----------------------------------------------------------------------------
(* The server's steps. *)

\* What a goroutine sends of its own, or of a frame that is no description.
LEMMA SpokenNone ==
  ASSUME IInv, NEW e \in Ends, Read(e),
         Head(frames[e]).type \notin {"pair_offer", "pair_answer"},
         NEW x \in Ends, NEW j \in Epochs
  PROVE  None(sends'[e], Relayed(x, j))
<1> DEFINE f == Head(frames[e])
           T == Relayed(x, j)
           Said == {To(y, m) : y \in Ends,
                     m \in {n \in Downward : n.type \notin {"pair_offer", "pair_answer"}}}
<1>1. /\ f \in Upward /\ sends \in [Ends -> Seq(Delivery)] /\ Other(e) \in Ends
      /\ Offerer \in Ends /\ Answerer \in Ends /\ Epoch \in Epochs
  BY ReadFacts DEF Other, Ends, Offerer, Answerer, IInv, RoomOK
<1>2. \A d \in Said : d \notin T
  BY NoDescription
<1>3. f \in Downward => To(Other(e), f) \in Said
  BY <1>1
<1>4. To(e, [type |-> "error"]) \in Said
  BY DEF Downward
<1>5. To(Other(e), Frame("left", 0)) \in Said
  BY <1>1 DEF Downward, Frame
<1>6. Epoch < MaxEpoch => \A y \in Ends :
        To(y, Frame("pair_reconnect_instruction", Epoch + 1)) \in Said
  <2>1. Epoch < MaxEpoch => Epoch + 1 \in Epochs
    BY <1>1, MaxEpochAssumption DEF Epochs
  <2> QED
    BY <2>1 DEF Downward, Instruction, Frame
<1>7. /\ <<>> \in Seq(Said) /\ None(<<>>, T)
      /\ \A a \in Said : <<a>> \in Seq(Said) /\ None(<<a>>, T)
      /\ \A a, b \in Said : None(<<a, b>>, T)
  <2> HIDE DEF Said, T
  <2> QED
    BY <1>2, EmptyFacts, OneFacts, TwoFacts
<1>8. CASE ReadRelayed(e, f) \/ ReadPairFailed(e, f)
  <2>1. f \in Downward
    BY <1>1, <1>8 DEF ReadRelayed, ReadPairFailed, Upward, Downward
  <2>2. sends'[e] = Relay(e, f)
    BY <1>1, <1>8 DEF ReadRelayed, ReadPairFailed
  <2>3. sends'[e] = <<To(Other(e), f)>> \/ sends'[e] = <<>>
    BY <2>2 DEF Relay
  <2> HIDE DEF f, Said, T
  <2> QED
    BY <1>3, <1>7, <2>1, <2>3 DEF T
<1>9. CASE ReadReconnectPair(e, f)
  <2>1. \/ sends'[e] = <<To(e, [type |-> "error"])>>
        \/ /\ Epoch < MaxEpoch
           /\ sends'[e] = Instructions("pair_reconnect_instruction", Epoch + 1)
    BY <1>1, <1>9 DEF ReadReconnectPair, Refuse
  <2> DEFINE a == To(Offerer, Frame("pair_reconnect_instruction", Epoch + 1))
             b == To(Answerer, Frame("pair_reconnect_instruction", Epoch + 1))
             r == To(e, [type |-> "error"])
  <2>2. sends'[e] = <<r>> \/ (Epoch < MaxEpoch /\ sends'[e] = <<a, b>>)
    BY <2>1 DEF Instructions
  <2>3. r \in Said /\ (Epoch < MaxEpoch => a \in Said /\ b \in Said)
    <3> HIDE DEF Said
    <3> QED
      BY <1>1, <1>4, <1>6
  <2> HIDE DEF f, Said, T, a, b, r
  <2> QED
    BY <1>7, <2>2, <2>3 DEF T
<1>10. CASE ReadEnd(e, f)
  <2> DEFINE a == To(Other(e), Frame("left", 0))
  <2>1. sends'[e] = <<a, a>> \/ sends'[e] = <<>>
    BY <1>1, <1>10 DEF ReadEnd
  <2>2. a \in Said
    BY <1>5
  <2> HIDE DEF f, Said, T, a
  <2> QED
    BY <1>7, <2>1, <2>2 DEF T
<1> QED
  BY <1>8, <1>9, <1>10 DEF Read

LEMMA ReadOnce ==
  ASSUME OnceInv, NEW e \in Ends, Read(e)
  PROVE  SentOnce' /\ AllTidy'
<1> DEFINE f == Head(frames[e])
<1>1. /\ IInv /\ frames \in [Ends -> Seq(Upward)] /\ sends \in [Ends -> Seq(Delivery)]
      /\ frames[e] \in Seq(Upward)
  BY DEF OnceInv, IInv, MessagesOK
<1>2. /\ f \in Upward /\ Sound(ctx, e, f) /\ frames[e] # <<>>
      /\ frames' = [frames EXCEPT ![e] = Tail(@)] /\ ctx' = ctx /\ inbox' = inbox
      /\ sends[e] = <<>>
  BY <1>1, ReadFacts
<1>3. frames'[e] = Tail(frames[e]) /\ \A g \in Ends \ {e} : frames'[g] = frames[g]
  BY <1>1, <1>2
<1>4. \A g \in Ends \ {e} : sends'[g] = sends[g]
  BY <1>1 DEF Read, ReadRelayed, ReadPairFailed, ReadReconnectPair, ReadEnd
<1>5. Other(e) \in Ends /\ Other(e) # e /\ Other(Other(e)) = e
  BY DEF Other, Ends
<1>6. FramesFewer
  <2> SUFFICES ASSUME NEW x \in Ends, NEW j \in Epochs
               PROVE  Fewer(frames[x], frames'[x], Descriptions(x, j))
    BY DEF FramesFewer
  <2>1. frames[x] \in Seq(Upward)
    BY <1>1
  <2>2. frames'[x] = frames[x] \/ (frames[x] # <<>> /\ frames'[x] = Tail(frames[x]))
    <3>1. CASE x = e
      BY <1>2, <1>3, <3>1
    <3>2. CASE x # e
      BY <1>3, <3>2
    <3> QED
      BY <3>1, <3>2
  <2> QED
    BY <2>1, <2>2, FewerFacts
<1>7. CASE f.type \notin {"pair_offer", "pair_answer"}
  <2>1. SendsFewer
    <3> SUFFICES ASSUME NEW x \in Ends, NEW g \in Ends, NEW j \in Epochs
                 PROVE  Fewer(sends[g], sends'[g], Relayed(x, j))
      BY DEF SendsFewer
    <3>1. CASE g = e
      <4>1. None(sends'[g], Relayed(x, j))
        BY <1>1, <1>7, <3>1, SpokenNone
      <4> QED
        BY <4>1 DEF Fewer, None, AtMostOne
    <3>2. CASE g # e
      BY <1>4, <3>2 DEF Fewer
    <3> QED
      BY <3>1, <3>2
  <2> QED
    BY <1>2, <1>6, <2>1, SameFewer, QuietStep
<1>8. CASE f.type \in {"pair_offer", "pair_answer"}
  <2> DEFINE k == f.epoch
             s == To(Other(e), f)
  <2>1. k \in Epochs /\ f = Description(e, k)
    <3>1. k \in Epochs /\ f = [type |-> f.type, epoch |-> k]
      BY <1>2, <1>8 DEF Upward
    <3>2. \/ f.type = "pair_offer" /\ e = Offerer
          \/ f.type = "pair_answer" /\ e = Answerer
      BY <1>2, <1>8 DEF Sound
    <3>3. Offerer # Answerer
      BY DEF Offerer, Answerer
    <3> QED
      BY <3>1, <3>2, <3>3 DEF Description, Frame
  <2>2. sends'[e] = <<s>> \/ sends'[e] = <<>>
    <3>1. ReadRelayed(e, f)
      BY <1>8 DEF Read, ReadPairFailed, ReadReconnectPair, ReadEnd
    <3> QED
      BY <1>1, <3>1 DEF ReadRelayed, Relay
  <2>3. ASSUME NEW x \in Ends, NEW j \in Epochs
        PROVE  /\ s \in Relayed(x, j) <=> x = e /\ j = k
               /\ AtMostOne(sends'[e], Relayed(x, j))
               /\ ~ (x = e /\ j = k) => None(sends'[e], Relayed(x, j))
    <3>1. s \in Relayed(x, j) <=>
            Other(e) = Other(x) /\ Description(e, k) = Description(x, j)
      BY <2>1 DEF Relayed, To
    <3>2. Other(e) = Other(x) => x = e
      BY DEF Other, Ends
    <3>3. Description(e, k) = Description(e, j) => j = k
      BY DEF Description, Frame
    <3>4. s \in Relayed(x, j) <=> x = e /\ j = k
      BY <2>1, <3>1, <3>2, <3>3
    <3>5. /\ AtMostOne(sends'[e], Relayed(x, j))
          /\ s \notin Relayed(x, j) => None(sends'[e], Relayed(x, j))
      <4> DEFINE T == Relayed(x, j)
      <4> HIDE DEF s, T
      <4>1. None(<<>>, T) /\ AtMostOne(<<>>, T)
        BY EmptyFacts
      <4>2. s \in {s}
        OBVIOUS
      <4>3. (None(<<s>>, T) <=> s \notin T) /\ AtMostOne(<<s>>, T)
        BY <4>2, OneFacts
      <4> QED
        BY <2>2, <4>1, <4>3 DEF T
    <3> QED
      BY <3>4, <3>5
  <2> HIDE DEF s
  <2>4. AllTidy'
    BY <1>2 DEF OnceInv, AllTidy
  <2>5. ASSUME NEW x \in Ends, NEW j \in Epochs
        PROVE  Once(x, j)' /\ (Taken(ctx'[Other(x)][j]) => Made(x, ctx'[x][j]))
    <3>1. Once(x, j) /\ (Taken(ctx[Other(x)][j]) => Made(x, ctx[x][j]))
      BY DEF OnceInv, SentOnce
    <3>2. CASE x = e /\ j = k
      <4>1. f \in Descriptions(e, k)
        BY <2>1 DEF Descriptions
      <4>2. ~ None(frames[e], Descriptions(e, k))
        BY <1>1, <1>2, <4>1, HeadFacts
      <4>3. /\ None(inbox[Other(e)], Descriptions(e, k))
            /\ AtMostOne(frames[e], Descriptions(e, k))
            /\ Made(e, ctx[e][k]) /\ ~ Taken(ctx[Other(e)][k])
            /\ AtMostOne(inbox[Other(e)], Descriptions(e, k))
            /\ None(sends[Other(e)], Relayed(e, k))
        BY <3>1, <3>2, <4>2 DEF Once
      <4>4. /\ None(frames'[e], Descriptions(e, k))
            /\ AtMostOne(frames'[e], Descriptions(e, k))
        BY <1>1, <1>2, <1>3, <4>1, <4>3, HeadFacts
      <4>5. AtMostOne(sends'[e], Relayed(e, k)) /\ sends'[Other(e)] = sends[Other(e)]
        BY <1>4, <1>5, <2>1, <2>3
      <4> QED
        BY <1>2, <3>2, <4>3, <4>4, <4>5 DEF Once
    <3>3. CASE ~ (x = e /\ j = k)
      <4>1. None(sends'[e], Relayed(x, j)) /\ sends[e] = <<>>
        BY <1>2, <2>3, <3>3
      <4>2. \A g \in Ends : Fewer(sends[g], sends'[g], Relayed(x, j))
        BY <1>4, <4>1 DEF Fewer, None, AtMostOne
      <4>3. Fewer(frames[x], frames'[x], Descriptions(x, j)) /\ Other(x) \in Ends
        BY <1>6 DEF FramesFewer, Other, Ends
      <4>4. Fewer(inbox[Other(x)], inbox'[Other(x)], Descriptions(x, j))
        BY <1>2 DEF Fewer
      <4> QED
        BY <1>2, <3>1, <4>2, <4>3, <4>4, OnceKept
    <3> QED
      BY <3>2, <3>3
  <2> QED
    BY <2>4, <2>5 DEF SentOnce
<1> QED
  BY <1>7, <1>8

LEMMA SendOnce ==
  ASSUME OnceInv, NEW e \in Ends, Send(e)
  PROVE  SentOnce' /\ AllTidy'
<1> DEFINE s == Head(sends[e])
<1>1. /\ sends[e] # <<>> /\ sends' = [sends EXCEPT ![e] = Tail(@)]
      /\ inbox' \in {inbox, [inbox EXCEPT ![s.to] = Append(@, s.msg)]}
      /\ UNCHANGED <<frames, ctx>>
  BY DEF Send
<1>2. /\ sends \in [Ends -> Seq(Delivery)] /\ inbox \in [Ends -> Seq(Downward)]
      /\ sends[e] \in Seq(Delivery)
  BY DEF OnceInv, IInv, MessagesOK
<1>3. s \in Delivery
  BY <1>1, <1>2, HeadFacts
<1>4. s.to \in Ends /\ s.msg \in Downward /\ s = To(s.to, s.msg)
  BY <1>3 DEF Delivery, To
<1>5. sends'[e] = Tail(sends[e]) /\ \A g \in Ends \ {e} : sends'[g] = sends[g]
  BY <1>1, <1>2
<1>6. \A y \in Ends : \/ inbox'[y] = inbox[y]
                      \/ y = s.to /\ inbox'[y] = Append(inbox[y], s.msg)
  BY <1>1, <1>2, <1>4
<1>7. AllTidy'
  BY <1>1 DEF OnceInv, AllTidy
<1>8. ASSUME NEW x \in Ends, NEW j \in Epochs
      PROVE  Once(x, j)' /\ (Taken(ctx'[Other(x)][j]) => Made(x, ctx'[x][j]))
  <2> DEFINE y == Other(x)
             D == Descriptions(x, j)
             R == Relayed(x, j)
  <2>1. Once(x, j) /\ (Taken(ctx[Other(x)][j]) => Made(x, ctx[x][j]))
    BY DEF OnceInv, SentOnce
  <2>2. y \in Ends /\ inbox[y] \in Seq(Downward) /\ Ends = {x, y} /\ x # y
    BY <1>2 DEF Other, Ends
  <2>3. s \in R <=> s.to = y /\ s.msg \in D
    <3>1. s = To(s.to, s.msg)
      BY <1>4
    <3> HIDE DEF s, y
    <3> QED
      BY <3>1 DEF Relayed, Descriptions, To, y
  <2>4. \A g \in Ends : Fewer(sends[g], sends'[g], R)
    <3> TAKE g \in Ends
    <3>1. sends[g] \in Seq(Delivery)
      BY <1>2
    <3>2. sends'[g] = sends[g] \/ (sends[g] # <<>> /\ sends'[g] = Tail(sends[g]))
      <4>1. CASE g = e
        BY <1>1, <1>5, <4>1
      <4>2. CASE g # e
        BY <1>5, <4>2
      <4> QED
        BY <4>1, <4>2
    <3> HIDE DEF R, s
    <3> QED
      BY <3>1, <3>2, FewerFacts
  <2>5. CASE s \in R
    <3>1. ~ None(sends[e], R)
      <4> HIDE DEF R
      <4> QED
        BY <1>1, <1>2, <2>5, HeadFacts
    <3>2. x = e
      BY <2>1, <2>2, <3>1 DEF Once
    <3>3. /\ None(inbox[y], D) /\ None(frames[x], D) /\ Made(x, ctx[x][j])
          /\ ~ Taken(ctx[y][j]) /\ AtMostOne(sends[x], R) /\ None(sends[y], R)
          /\ AtMostOne(frames[x], D) /\ AtMostOne(inbox[y], D)
      BY <2>1, <3>1, <3>2 DEF Once
    <3>4. None(sends'[x], R) /\ AtMostOne(sends'[x], R)
      <4> HIDE DEF R
      <4> QED
        BY <1>1, <1>2, <1>5, <2>5, <3>2, <3>3, HeadFacts
    <3>5. AtMostOne(inbox'[y], D)
      <4> HIDE DEF D
      <4>1. AtMostOne(Append(inbox[y], s.msg), D)
        BY <1>4, <2>2, <3>3, AppendFacts
      <4> QED
        BY <1>6, <2>2, <3>3, <4>1
    <3>6. None(sends'[y], R)
      BY <1>5, <2>2, <3>2, <3>3
    <3> QED
      BY <1>1, <3>3, <3>4, <3>5, <3>6 DEF Once
  <2>6. CASE s \notin R
    <3>1. Fewer(inbox[y], inbox'[y], D)
      <4>1. \/ inbox'[y] = inbox[y]
            \/ s.msg \notin D /\ inbox'[y] = Append(inbox[y], s.msg)
        <5> HIDE DEF D, R, s, y
        <5> QED
          BY <1>6, <2>2, <2>3, <2>6
      <4> HIDE DEF D, s, y
      <4> QED
        BY <1>4, <2>2, <4>1, FewerFacts
    <3>2. Fewer(frames[x], frames'[x], D)
      BY <1>1 DEF Fewer
    <3> QED
      BY <1>1, <2>1, <2>2, <2>4, <3>1, <3>2, OnceKept
  <2> QED
    BY <2>5, <2>6
<1> QED
  BY <1>7, <1>8 DEF SentOnce

-----------------------------------------------------------------------------
LEMMA OnceInit == Init => OnceInv
<1> SUFFICES ASSUME Init PROVE OnceInv
  OBVIOUS
<1>1. IInv
  BY InitStep
<1>2. \A e \in Ends, k \in Epochs :
        /\ frames[e] = <<>> /\ inbox[e] = <<>> /\ ctx[e][k] = NoContext
        /\ Other(e) \in Ends
  BY DEF Init, Other, Ends
<1>3. /\ NoContext.await = "nothing" /\ ~ NoContext.remoteDescriptionApplied
      /\ NoContext.signaling = "stable"
  BY DEF NoContext
<1>4. AllTidy
  BY <1>2, <1>3 DEF AllTidy, Tidy
<1>5. ASSUME NEW e \in Ends, NEW k \in Epochs
      PROVE  \A x \in Ends : None(sends[x], Relayed(e, k))
  <2> TAKE x \in Ends
  <2> DEFINE f == Frame("pair_negotiation_instruction", 1)
             a == To(Offerer, f)
             b == To(Answerer, f)
  <2>1. sends[x] = <<>> \/ sends[x] = <<a, b>>
    BY DEF Init, Instructions
  <2>2. f.type \notin {"pair_offer", "pair_answer"}
    BY DEF Frame
  <2>3. a \notin Relayed(e, k) /\ b \notin Relayed(e, k)
    <3> HIDE DEF f
    <3> QED
      BY <2>2, NoDescription
  <2> HIDE DEF a, b
  <2>4. None(<<a, b>>, Relayed(e, k))
    <3> DEFINE S == {a, b}
    <3>1. a \in S /\ b \in S
      OBVIOUS
    <3> HIDE DEF S
    <3> QED
      BY <2>3, <3>1, TwoFacts
  <2>5. None(<<>>, Relayed(e, k))
    BY EmptyFacts
  <2> QED
    BY <2>1, <2>4, <2>5
<1>6. ASSUME NEW e \in Ends, NEW k \in Epochs
      PROVE  Once(e, k) /\ ~ Taken(ctx[Other(e)][k])
  <2>1. /\ None(sends[e], Relayed(e, k)) /\ None(sends[Other(e)], Relayed(e, k))
        /\ None(<<>>, Descriptions(e, k))
    BY <1>2, <1>5, EmptyFacts
  <2>2. \A s, S : None(s, S) => AtMostOne(s, S)
    BY DEF None, AtMostOne
  <2>3. ~ Taken(NoContext)
    BY <1>3 DEF Taken
  <2> QED
    BY <1>2, <2>1, <2>2, <2>3 DEF Once
<1> QED
  BY <1>1, <1>4, <1>6 DEF OnceInv, SentOnce

LEMMA OnceNext == OnceInv /\ [Next]_vars => OnceInv'
<1> SUFFICES ASSUME OnceInv, [Next]_vars PROVE SentOnce' /\ AllTidy'
  BY NextStep DEF OnceInv
<1>1. CASE UNCHANGED vars
  <2>1. UNCHANGED <<frames, sends, inbox, ctx>>
    BY <1>1 DEF vars
  <2> QED
    BY <2>1, SameFewer, QuietStep
<1>2. ASSUME NEW e \in Ends, Receive(e) PROVE SentOnce' /\ AllTidy'
  BY <1>2, InstructionOnce, CandidateOnce, NoticeOnce, DescriptionOnce DEF Receive
<1>3. CASE Next
  BY <1>2, <1>3, ReadOnce, SendOnce, ContinueOnce, GatherOnce, FailsOnce,
     ReconnectOnce, EndsOnce
  DEF Next, Progress
<1> QED
  BY <1>1, <1>3

\* A candidate that overtakes the description it belongs to is held back and
\* then added: once the description is applied and its flush is over, none is
\* left in the buffer.  No second description can break the flush off, for an
\* end sends one offer or answer per attempt, which is nowhere twice, whatever
\* is lost, clicked or superseded.
THEOREM NoneStranded == Spec => []NoCandidateStranded
<1>1. OnceInv => NoCandidateStranded
  BY DEF OnceInv, AllTidy, Tidy, NoCandidateStranded
<1> QED
  BY <1>1, OnceInit, OnceNext, PTL DEF Spec

-----------------------------------------------------------------------------
(***************************************************************************)
(* The refinement: what a step does to the attempts, and the step of       *)
(* PairHandshake it is.                                                    *)
(***************************************************************************)

\* The server goes on to a new attempt.
Issues == Epoch' = Epoch + 1 /\ HasApplied(ctx, Answerer, Epoch) /\ UNCHANGED ctx

LEMMA GrantedIssues ==
  ASSUME IInv, NEW e \in Ends, Read(e), ReadReconnectPair(e, Head(frames[e])),
         MayReconnect(Head(frames[e]))
  PROVE  Issues
BY ReadGrantedStep DEF Issues, Read, browsers

LEMMA StepKinds ==
  ASSUME IInv, [Next]_vars
  PROVE  \/ Steady \/ Issues
         \/ \E e \in Ends : Begins(e) /\ UNCHANGED room
         \/ \E e \in Ends, k \in Epochs : Applies(e, k)
<1>1. CASE UNCHANGED vars
  BY <1>1 DEF vars, Steady, Epoch
<1>2. ASSUME NEW e \in Ends, Read(e)
      PROVE  Steady \/ Issues
  BY <1>2, ReadRelayedStep, ReadPairFailedStep, ReadEndStep, ReadRefusedStep,
     GrantedIssues
  DEF Read
<1>3. ASSUME NEW e \in Ends, Receive(e)
      PROVE  Steady \/ (Begins(e) /\ UNCHANGED room)
  <2> DEFINE m == Head(inbox[e])
  <2>1. CASE HandleNegotiationInstruction(e, m) \/ HandleReconnectInstruction(e, m)
    BY <1>3, <2>1, InstructionStep DEF Receive, server, Steady, Epoch
  <2> QED
    BY <1>3, <2>1, OfferStep, AnswerStep, CandidateStep, FailedStep, ErrorStep, LeftStep
    DEF Receive
<1>4. ASSUME NEW e \in Ends, NEW k \in Epochs, Continue(e, k)
      PROVE  Steady \/ Applies(e, k)
  BY <1>4, CreatedOfferStep, SetLocalOfferStep, SetRemoteOfferStep, SetRemoteAnswerStep,
     FlushStep, CreatedAnswerStep, SetLocalAnswerStep
  DEF Continue
<1> QED
  BY <1>1, <1>2, <1>3, <1>4, SendStep, GatherStep, FailsStep, ReconnectStep, LeaveStep,
     DropStep
  DEF Next, Progress

-----------------------------------------------------------------------------
(* Last, and what the two functions of the refinement are. *)

LEMMA LastIs ==
  ASSUME NEW ks \in SUBSET Epochs, NEW k \in ks, \A j \in ks : j <= k
  PROVE  Last(ks) = k
<1>1. \A j \in ks : (\A i \in ks : i <= j) => j = k
  BY MaxEpochAssumption DEF Epochs
<1> QED
  BY <1>1 DEF Last

LEMMA LastOfNone == Last({}) = 0
BY DEF Last

\* All attempts before the current one were begun at both ends and applied by
\* the answerer; the offerer may have been told of a failure instead.
LEMMA BegunIs ==
  ASSUME IInv, NEW e \in Ends
  PROVE  Last(Begun(e)) = IF HasBegun(ctx, e, Epoch) THEN Epoch ELSE Epoch - 1
<1>1. /\ Epoch \in Epochs /\ Epoch \in Nat /\ Epoch >= 1 /\ Epoch <= MaxEpoch
      /\ MaxEpoch \in Nat /\ Begun(e) \in SUBSET Epochs /\ Epochs = 1..MaxEpoch
  BY MaxEpochAssumption DEF IInv, RoomOK, Epochs, Begun
<1>2. \A k \in Epochs : k \in Begun(e) <=> HasBegun(ctx, e, k)
  BY DEF Begun, HasBegun
<1>3. \A k \in Epochs : k < Epoch => k \in Begun(e)
  BY <1>2, AppliedFacts DEF IInv, FailureSound, Ends, Offerer, Answerer
<1>4. \A k \in Begun(e) : k <= Epoch
  BY <1>1, <1>2 DEF IInv, ContextsOK, ContextOK, HasBegun
<1>5. CASE HasBegun(ctx, e, Epoch)
  BY <1>1, <1>2, <1>4, <1>5, LastIs
<1>6. CASE ~ HasBegun(ctx, e, Epoch)
  <2>1. \A k \in Begun(e) : k <= Epoch - 1
    BY <1>1, <1>2, <1>4, <1>6
  <2>2. CASE Epoch = 1
    <3>1. Begun(e) = {}
      BY <1>1, <2>1, <2>2
    <3> QED
      BY <1>6, <2>2, <3>1, LastOfNone
  <2>3. CASE Epoch # 1
    <3>1. Epoch - 1 \in Begun(e)
      BY <1>1, <1>3, <2>3
    <3> QED
      BY <1>1, <1>6, <2>1, <3>1, LastIs
  <2> QED
    BY <2>2, <2>3
<1> QED
  BY <1>5, <1>6

LEMMA AnswererAppliedIs ==
  ASSUME IInv
  PROVE  Last(AppliedIn(Answerer)) =
           IF HasApplied(ctx, Answerer, Epoch) THEN Epoch ELSE Epoch - 1
<1>1. /\ Epoch \in Epochs /\ Epoch \in Nat /\ Epoch >= 1 /\ Epoch <= MaxEpoch
      /\ MaxEpoch \in Nat /\ AppliedIn(Answerer) \in SUBSET Epochs
      /\ Epochs = 1..MaxEpoch /\ Answerer \in Ends
  BY MaxEpochAssumption DEF IInv, RoomOK, Epochs, AppliedIn, Ends, Answerer
<1>2. \A k \in Epochs : k \in AppliedIn(Answerer) <=> HasApplied(ctx, Answerer, k)
  BY DEF AppliedIn, HasApplied
<1>3. \A k \in Epochs : k < Epoch => k \in AppliedIn(Answerer)
  BY <1>2 DEF IInv, FailureSound
<1>4. \A k \in AppliedIn(Answerer) : k <= Epoch
  BY <1>1, <1>2, AppliedFacts
<1>5. CASE HasApplied(ctx, Answerer, Epoch)
  BY <1>1, <1>2, <1>4, <1>5, LastIs
<1>6. CASE ~ HasApplied(ctx, Answerer, Epoch)
  <2>1. \A k \in AppliedIn(Answerer) : k <= Epoch - 1
    BY <1>1, <1>2, <1>4, <1>6
  <2>2. CASE Epoch = 1
    <3>1. AppliedIn(Answerer) = {}
      BY <1>1, <2>1, <2>2
    <3> QED
      BY <1>6, <2>2, <3>1, LastOfNone
  <2>3. CASE Epoch # 1
    <3>1. Epoch - 1 \in AppliedIn(Answerer)
      BY <1>1, <1>3, <2>3
    <3> QED
      BY <1>1, <1>6, <2>1, <3>1, LastIs
  <2> QED
    BY <2>2, <2>3
<1> QED
  BY <1>5, <1>6

\* The attempts the offerer has applied have a last one.  This is an invariant
\* of its own: that a set of attempts has a greatest element is an induction,
\* and here the induction is over the steps.
OffererHasLast ==
  AppliedIn(Offerer) # {} =>
    \E k \in AppliedIn(Offerer) : \A j \in AppliedIn(Offerer) : j <= k

\* How the sets of the refinement change in the steps that change them.
LEMMA SteadySets ==
  ASSUME NEW e \in Ends,
         \A k \in Epochs : HasApplied(ctx', e, k) <=> HasApplied(ctx, e, k)
  PROVE  AppliedIn(e)' = AppliedIn(e)
BY DEF AppliedIn, HasApplied

LEMMA SteadyBegun ==
  ASSUME NEW e \in Ends,
         \A k \in Epochs : HasBegun(ctx', e, k) <=> HasBegun(ctx, e, k)
  PROVE  Begun(e)' = Begun(e)
BY DEF Begun, HasBegun

LEMMA OffererKeepsLast ==
  ASSUME IInv, OffererHasLast, [Next]_vars
  PROVE  OffererHasLast'
<1>1. Offerer \in Ends
  BY DEF Ends, Offerer
<1>2. CASE Steady
  BY <1>1, <1>2, SteadySets DEF Steady, OffererHasLast
<1>3. CASE Issues
  BY <1>1, <1>3 DEF Issues, OffererHasLast, AppliedIn
<1>4. ASSUME NEW e \in Ends, Begins(e), UNCHANGED room
      PROVE  OffererHasLast'
  BY <1>1, <1>4, BeginKeeps, SteadySets DEF OffererHasLast
<1>5. ASSUME NEW e \in Ends, NEW k \in Epochs, Applies(e, k)
      PROVE  OffererHasLast'
  <2>1. CASE e # Offerer
    BY <1>1, <1>5, <2>1, SteadySets DEF Applies, OffererHasLast
  <2>2. CASE e = Offerer
    <3>1. \A j \in Epochs : HasApplied(ctx', Offerer, j) => j <= k
      <4> SUFFICES ASSUME NEW j \in Epochs, HasApplied(ctx', Offerer, j)
                   PROVE  j <= k
        OBVIOUS
      <4>1. j = k \/ HasApplied(ctx, Offerer, j)
        BY <1>1, <1>5, <2>2 DEF Applies
      <4>2. CASE j = k
        BY <4>2 DEF Epochs
      <4>3. CASE HasApplied(ctx, Offerer, j)
        <5>1. HasBegun(ctx, Offerer, j)
          BY <1>1, <4>3, AppliedFacts
        <5>2. pairs[Offerer] = k /\ k # 0
          BY <1>5, <2>2 DEF Applies, Epochs
        <5> QED
          BY <1>1, <5>1, <5>2 DEF IInv, PairsOK
      <4> QED
        BY <4>1, <4>2, <4>3
    <3>2. HasApplied(ctx', Offerer, k)
      BY <1>1, <1>5, <2>2 DEF Applies
    <3> QED
      BY <3>1, <3>2 DEF OffererHasLast, AppliedIn, HasApplied
  <2> QED
    BY <2>1, <2>2
<1> QED
  BY <1>2, <1>3, <1>4, <1>5, StepKinds


-----------------------------------------------------------------------------
(* The steps of PairHandshake. *)

\* The sides of the refinement mapping, so that they can be named.
Attempts == [e \in Ends |-> Last(Begun(e))]
Applieds == [e \in Ends |-> Last(AppliedIn(e))]

LEMMA SteadyStutters ==
  ASSUME Steady
  PROVE  UNCHANGED <<Epoch, Attempts, Applieds>>
<1>1. \A e \in Ends : AppliedIn(e)' = AppliedIn(e) /\ Begun(e)' = Begun(e)
  BY SteadySets, SteadyBegun DEF Steady
<1> QED
  BY <1>1 DEF Steady, Attempts, Applieds

LEMMA IssueRefines ==
  ASSUME IInv, Issues
  PROVE  /\ Applieds[Answerer] = Epoch /\ Epoch' = Epoch + 1
         /\ UNCHANGED <<Attempts, Applieds>>
<1>1. Answerer \in Ends
  BY DEF Ends, Answerer
<1>2. Applieds[Answerer] = Epoch
  BY <1>1, AnswererAppliedIs DEF Issues, Applieds
<1> QED
  BY <1>2 DEF Issues, Attempts, Applieds, Begun, AppliedIn

LEMMA BeginRefines ==
  ASSUME IInv, IInv', NEW e \in Ends, Begins(e), UNCHANGED room
  PROVE  /\ Attempts[e] < Epoch
         /\ Attempts' = [Attempts EXCEPT ![e] = Epoch]
         /\ UNCHANGED <<Epoch, Applieds>>
<1>1. Epoch' = Epoch /\ Epoch \in Nat /\ Epoch \in Epochs
  BY DEF Epoch, IInv, RoomOK, Epochs
<1>2. Attempts[e] = Epoch - 1
  BY BegunIs DEF Begins, Attempts
<1>3. Last(Begun(e)') = Epoch
  <2>1. HasBegun(ctx', e, Epoch')
    BY <1>1, BeginKeeps
  <2>2. (Last(Begun(e)) = IF HasBegun(ctx, e, Epoch) THEN Epoch ELSE Epoch - 1)'
    BY BegunIs, PTL
  <2> QED
    BY <1>1, <2>1, <2>2
<1>4. \A x \in Ends \ {e} : Begun(x)' = Begun(x)
  BY BeginKeeps, SteadyBegun
<1>5. \A x \in Ends : AppliedIn(x)' = AppliedIn(x)
  BY BeginKeeps, SteadySets
<1>6. Attempts' = [Attempts EXCEPT ![e] = Epoch]
  BY <1>3, <1>4 DEF Attempts
<1>7. UNCHANGED <<Epoch, Applieds>>
  BY <1>1, <1>5 DEF Applieds
<1> QED
  BY <1>1, <1>2, <1>6, <1>7

LEMMA AppliedOne ==
  ASSUME IInv, NEW e \in Ends, NEW k \in Epochs, Applies(e, k)
  PROVE  /\ AppliedIn(e)' = AppliedIn(e) \cup {k}
         /\ \A x \in Ends \ {e} : AppliedIn(x)' = AppliedIn(x)
         /\ \A x \in Ends : Begun(x)' = Begun(x)
<1>1. \A x \in Ends : Begun(x)' = Begun(x)
  BY SteadyBegun DEF Applies
<1>2. \A x \in Ends \ {e} : AppliedIn(x)' = AppliedIn(x)
  BY SteadySets DEF Applies
<1>3. \A j \in Epochs : HasApplied(ctx', e, j) <=> HasApplied(ctx, e, j) \/ j = k
  BY DEF Applies
<1>4. AppliedIn(e)' = {j \in Epochs : HasApplied(ctx', e, j)}
  BY DEF AppliedIn, HasApplied
<1>5. AppliedIn(e) = {j \in Epochs : HasApplied(ctx, e, j)}
  BY DEF AppliedIn, HasApplied
<1> QED
  BY <1>1, <1>2, <1>3, <1>4, <1>5

\* The attempt in the map is the one begun last.
LEMMA LastInMap ==
  ASSUME IInv, NEW e \in Ends, NEW k \in Epochs, pairs[e] = k, HasBegun(ctx, e, k)
  PROVE  Last(Begun(e)) = k /\ \A j \in Begun(e) : j <= k
<1>1. Begun(e) \in SUBSET Epochs /\ k \in Begun(e) /\ k # 0
  BY DEF Begun, HasBegun, Epochs
<1>2. \A j \in Begun(e) : j <= k
  BY <1>1 DEF IInv, PairsOK, Begun, HasBegun
<1> QED
  BY <1>1, <1>2, LastIs

LEMMA OfferRefines ==
  ASSUME IInv, NEW k \in Epochs, Applies(Answerer, k), ~ HasApplied(ctx, Answerer, k)
  PROVE  /\ Applieds[Answerer] < Attempts[Answerer]
         /\ Attempts[Offerer] = Attempts[Answerer]
         /\ Applieds' = [Applieds EXCEPT ![Answerer] = Attempts[Answerer]]
         /\ UNCHANGED <<Epoch, Attempts>>
<1>1. /\ Answerer \in Ends /\ Offerer \in Ends /\ Answerer # Offerer
      /\ Ends = {Offerer, Answerer} /\ Epoch \in Epochs /\ Epoch \in Nat
  BY DEF Ends, Offerer, Answerer, IInv, RoomOK, Epochs
<1>2. k = Epoch
  <2>1. k <= Epoch
    BY <1>1 DEF Applies, IInv, ContextsOK, ContextOK, HasBegun
  <2>2. ~ (k < Epoch)
    BY DEF IInv, FailureSound
  <2> QED
    BY <1>1, <2>1, <2>2 DEF Epochs
<1>3. HasBegun(ctx, Answerer, Epoch) /\ HasBegun(ctx, Offerer, Epoch)
  BY <1>1, <1>2 DEF Applies
<1>4. Attempts[Answerer] = Epoch /\ Attempts[Offerer] = Epoch
  BY <1>1, <1>3, BegunIs DEF Attempts
<1>5. Applieds[Answerer] = Epoch - 1
  BY <1>1, <1>2, AnswererAppliedIs DEF Applieds
<1>6. Last(AppliedIn(Answerer)') = k
  <2>1. \A j \in AppliedIn(Answerer) : j \in Epochs /\ j <= Epoch
    BY <1>1, AppliedFacts DEF AppliedIn, HasApplied
  <2>2. AppliedIn(Answerer)' = AppliedIn(Answerer) \cup {k}
    BY <1>1, AppliedOne
  <2>3. AppliedIn(Answerer)' \in SUBSET Epochs /\ k \in AppliedIn(Answerer)'
    BY <2>1, <2>2
  <2>4. \A j \in AppliedIn(Answerer)' : j <= k
    BY <1>1, <1>2, <2>1, <2>2
  <2> QED
    BY <2>3, <2>4, LastIs
<1>7. /\ AppliedIn(Offerer)' = AppliedIn(Offerer)
      /\ \A x \in Ends : Begun(x)' = Begun(x)
  BY <1>1, AppliedOne
<1>8. Applieds' = [Applieds EXCEPT ![Answerer] = Attempts[Answerer]]
  BY <1>1, <1>2, <1>4, <1>6, <1>7 DEF Applieds
<1>9. UNCHANGED <<Epoch, Attempts>>
  BY <1>7 DEF Applies, Attempts
<1> QED
  BY <1>1, <1>4, <1>5, <1>8, <1>9

LEMMA AnswerRefines ==
  ASSUME IInv, OffererHasLast, NEW k \in Epochs, Applies(Offerer, k),
         ~ HasApplied(ctx, Offerer, k)
  PROVE  /\ Applieds[Offerer] < Attempts[Offerer]
         /\ Applieds[Answerer] = Attempts[Offerer]
         /\ Applieds' = [Applieds EXCEPT ![Offerer] = Attempts[Offerer]]
         /\ UNCHANGED <<Epoch, Attempts>>
<1>1. /\ Answerer \in Ends /\ Offerer \in Ends /\ Answerer # Offerer
      /\ Ends = {Offerer, Answerer} /\ k \in Nat /\ k > 0
  BY DEF Ends, Offerer, Answerer, Epochs
<1>2. /\ Attempts[Offerer] = k /\ \A j \in Begun(Offerer) : j <= k
  BY <1>1, LastInMap DEF Applies, Attempts
<1>3. \A x \in Ends : \A j \in AppliedIn(x) : j \in Epochs /\ j <= k
  <2> TAKE x \in Ends
  <2> TAKE j \in AppliedIn(x)
  <2>1. j \in Epochs /\ HasApplied(ctx, x, j)
    BY DEF AppliedIn, HasApplied
  <2>2. HasBegun(ctx, Offerer, j)
    BY <2>1, AppliedFacts
  <2> QED
    BY <1>2, <2>1, <2>2 DEF Begun, HasBegun
<1>4. Applieds[Answerer] = k
  <2>1. AppliedIn(Answerer) \in SUBSET Epochs /\ k \in AppliedIn(Answerer)
    BY DEF Applies, AppliedIn, HasApplied
  <2> QED
    BY <1>1, <1>3, <2>1, LastIs DEF Applieds
<1>5. Applieds[Offerer] < k
  <2>1. AppliedIn(Offerer) \in SUBSET Epochs /\ k \notin AppliedIn(Offerer)
    BY DEF AppliedIn, HasApplied
  <2>2. CASE AppliedIn(Offerer) = {}
    BY <1>1, <2>2, LastOfNone DEF Applieds
  <2>3. CASE AppliedIn(Offerer) # {}
    <3>1. PICK j \in AppliedIn(Offerer) : \A i \in AppliedIn(Offerer) : i <= j
      BY <2>3 DEF OffererHasLast
    <3>2. Last(AppliedIn(Offerer)) = j
      BY <2>1, <3>1, LastIs
    <3> QED
      BY <1>1, <1>3, <2>1, <3>2 DEF Applieds, Epochs
  <2> QED
    BY <2>2, <2>3
<1>6. AppliedIn(Offerer)' = AppliedIn(Offerer) \cup {k}
  BY <1>1, AppliedOne
<1>7. Last(AppliedIn(Offerer)') = k
  <2>1. AppliedIn(Offerer)' \in SUBSET Epochs /\ k \in AppliedIn(Offerer)'
    BY <1>1, <1>3, <1>6
  <2>2. \A j \in AppliedIn(Offerer)' : j <= k
    BY <1>1, <1>3, <1>6
  <2> QED
    BY <2>1, <2>2, LastIs
<1>8. /\ AppliedIn(Answerer)' = AppliedIn(Answerer)
      /\ \A x \in Ends : Begun(x)' = Begun(x)
  BY <1>1, AppliedOne
<1>9. Applieds' = [Applieds EXCEPT ![Offerer] = Attempts[Offerer]]
  BY <1>1, <1>2, <1>7, <1>8 DEF Applieds
<1>10. UNCHANGED <<Epoch, Attempts>>
  BY <1>8 DEF Applies, Attempts
<1> QED
  BY <1>2, <1>4, <1>5, <1>9, <1>10

\* Every step of the client and the server is a step of the handshake, or
\* changes nothing that the handshake speaks of.
LEMMA StepRefines ==
  ASSUME IInv, IInv', OffererHasLast, [Next]_vars
  PROVE  [Handshake!Next]_(Handshake!vars)
<1> USE DEF Handshake!vars, Handshake!Ends
<1>1. /\ Answerer \in Ends /\ Offerer \in Ends /\ Ends = {Offerer, Answerer}
  BY DEF Ends, Offerer, Answerer
<1>2. CASE Steady
  BY <1>2, SteadyStutters DEF Attempts, Applieds
<1>3. CASE Issues
  <2>1. Handshake!Issue
    BY <1>1, <1>3, IssueRefines DEF Handshake!Issue, Attempts, Applieds
  <2> QED
    BY <2>1 DEF Handshake!Next
<1>4. ASSUME NEW e \in Ends, Begins(e), UNCHANGED room
      PROVE  Handshake!Next
  <2>1. Handshake!Begin(e)
    BY <1>4, BeginRefines DEF Handshake!Begin, Attempts, Applieds
  <2> QED
    BY <1>1, <2>1 DEF Handshake!Next
<1>5. ASSUME NEW k \in Epochs, Applies(Answerer, k)
      PROVE  [Handshake!Next]_(Handshake!vars)
  <2>1. CASE HasApplied(ctx, Answerer, k)
    <3>1. Steady
      BY <1>5, <2>1 DEF Applies, Steady
    <3> QED
      BY <1>2, <3>1
  <2>2. CASE ~ HasApplied(ctx, Answerer, k)
    <3>1. Handshake!ApplyOffer
      BY <1>5, <2>2, OfferRefines DEF Handshake!ApplyOffer, Attempts, Applieds
    <3> QED
      BY <3>1 DEF Handshake!Next
  <2> QED
    BY <2>1, <2>2
<1>6. ASSUME NEW k \in Epochs, Applies(Offerer, k)
      PROVE  [Handshake!Next]_(Handshake!vars)
  <2>1. CASE HasApplied(ctx, Offerer, k)
    <3>1. Steady
      BY <1>6, <2>1 DEF Applies, Steady
    <3> QED
      BY <1>2, <3>1
  <2>2. CASE ~ HasApplied(ctx, Offerer, k)
    <3>1. Handshake!ApplyAnswer
      BY <1>6, <2>2, AnswerRefines DEF Handshake!ApplyAnswer, Attempts, Applieds
    <3> QED
      BY <3>1 DEF Handshake!Next
  <2> QED
    BY <2>1, <2>2
<1> QED
  BY <1>1, <1>2, <1>3, <1>4, <1>5, <1>6, StepKinds

LEMMA InitRefines == Init => Handshake!Init /\ OffererHasLast
<1> SUFFICES ASSUME Init PROVE Handshake!Init /\ OffererHasLast
  OBVIOUS
<1>1. \A e \in Ends : Begun(e) = {} /\ AppliedIn(e) = {}
  BY DEF Init, Begun, AppliedIn, NoContext
<1>2. Epoch = 1
  BY InitStep
<1> QED
  BY <1>1, <1>2, LastOfNone
  DEF Handshake!Init, Handshake!Ends, Ends, Offerer, Answerer, OffererHasLast

\* The code of a pair implements the abstract handshake, for any number of
\* attempts and candidates: whatever the order of the messages, the awaits,
\* the failures and the departures, a description is applied only in the
\* attempt it was made for, and a new attempt is issued only after the last.
THEOREM Implements == Spec => ImplementsHandshake
<1>1. Init => IInv /\ OffererHasLast /\ Handshake!Init
  BY InitStep, InitRefines
<1>2. (IInv /\ OffererHasLast) /\ [Next]_vars => (IInv /\ OffererHasLast)'
  BY NextStep, OffererKeepsLast
<1>3. (IInv /\ OffererHasLast) /\ (IInv /\ OffererHasLast)' /\ [Next]_vars
        => [Handshake!Next]_(Handshake!vars)
  BY StepRefines
<1> QED
  BY <1>1, <1>2, <1>3, PTL DEF Spec, ImplementsHandshake, Handshake!Spec

-----------------------------------------------------------------------------
(***************************************************************************)
(* What the abstract handshake promises of the two ends, and with it the   *)
(* code: the ends keep in step.                                            *)
(***************************************************************************)

LEMMA HandshakeStarts == Handshake!Init => Handshake!TypeOK /\ Handshake!InStep
BY DEF Handshake!Init, Handshake!TypeOK, Handshake!InStep, Handshake!Ends, Ends,
       Offerer, Answerer

LEMMA HandshakeTypes ==
  Handshake!TypeOK /\ [Handshake!Next]_(Handshake!vars) => Handshake!TypeOK'
<1> SUFFICES ASSUME Handshake!TypeOK, [Handshake!Next]_(Handshake!vars)
             PROVE  Handshake!TypeOK'
  OBVIOUS
<1> USE DEF Handshake!TypeOK
<1>1. CASE Handshake!Issue
  BY <1>1 DEF Handshake!Issue
<1>2. ASSUME NEW e \in Handshake!Ends, Handshake!Begin(e) PROVE Handshake!TypeOK'
  BY <1>2 DEF Handshake!Begin
<1>3. CASE Handshake!ApplyOffer
  BY <1>3 DEF Handshake!ApplyOffer, Handshake!Ends
<1>4. CASE Handshake!ApplyAnswer
  BY <1>4 DEF Handshake!ApplyAnswer, Handshake!Ends
<1>5. CASE UNCHANGED Handshake!vars
  BY <1>5 DEF Handshake!vars
<1> QED
  BY <1>1, <1>2, <1>3, <1>4, <1>5 DEF Handshake!Next

\* The two conditions of ApplyAnswer and Issue are what carries the proof: an
\* answer is applied only to an offer the other end took part in, and a new
\* attempt is issued only when one end has been through the last.
LEMMA HandshakeInStep ==
  Handshake!TypeOK /\ Handshake!InStep /\ [Handshake!Next]_(Handshake!vars)
    => Handshake!InStep'
<1> SUFFICES ASSUME Handshake!TypeOK, Handshake!InStep,
                    [Handshake!Next]_(Handshake!vars)
             PROVE  Handshake!InStep'
  OBVIOUS
<1> USE DEF Handshake!TypeOK, Handshake!InStep
<1>1. CASE Handshake!Issue
  <2>1. PICK e \in Handshake!Ends : Applieds[e] = Epoch
    BY <1>1 DEF Handshake!Issue, Applieds
  <2>2. \A f \in Handshake!Ends : Epoch <= Attempts[f]
    BY <2>1 DEF Applieds, Attempts
  <2> QED
    BY <1>1, <2>2 DEF Handshake!Issue, Attempts
<1>2. ASSUME NEW e \in Handshake!Ends, Handshake!Begin(e) PROVE Handshake!InStep'
  <2>1. /\ Attempts[e] < Epoch
        /\ Attempts' = [Attempts EXCEPT ![e] = Epoch]
        /\ Applieds' = Applieds /\ Epoch' = Epoch
    BY <1>2 DEF Handshake!Begin, Attempts, Applieds
  <2>2. /\ Attempts \in [Handshake!Ends -> Nat] /\ Applieds \in [Handshake!Ends -> Nat]
        /\ Epoch \in Nat
    BY DEF Attempts, Applieds
  <2>3. \A f \in Handshake!Ends :
           /\ Applieds[f] <= Attempts[f] /\ Attempts[f] <= Epoch
           /\ Epoch <= Attempts[f] + 1
           /\ \A g \in Handshake!Ends : Applieds[f] <= Attempts[g]
    BY DEF Attempts, Applieds
  <2>4. \A f \in Handshake!Ends :
           /\ Applieds'[f] <= Attempts'[f] /\ Attempts'[f] <= Epoch'
           /\ Epoch' <= Attempts'[f] + 1
           /\ \A g \in Handshake!Ends : Applieds'[f] <= Attempts'[g]
    <3> HIDE DEF Handshake!TypeOK, Handshake!InStep
    <3> QED
      BY <2>1, <2>2, <2>3
  <2> QED
    BY <2>4 DEF Attempts, Applieds
<1>3. CASE Handshake!ApplyOffer
  BY <1>3 DEF Handshake!ApplyOffer, Handshake!Ends
<1>4. CASE Handshake!ApplyAnswer
  BY <1>4 DEF Handshake!ApplyAnswer, Handshake!Ends
<1>5. CASE UNCHANGED Handshake!vars
  BY <1>5 DEF Handshake!vars
<1> QED
  BY <1>1, <1>2, <1>3, <1>4, <1>5 DEF Handshake!Next

\* The two ends of a pair, clients and server together, are never two attempts
\* apart, and none has completed an attempt its partner has not begun
\* (the epochs of reconnect.go and reconnect.ts), for any number of attempts.
THEOREM EndsKeepInStep == Spec => []Handshake!InStep
<1>1. Handshake!Init => Handshake!TypeOK /\ Handshake!InStep
  BY HandshakeStarts
<1>2. /\ Handshake!TypeOK /\ Handshake!InStep
      /\ [Handshake!Next]_(Handshake!vars)
      => (Handshake!TypeOK /\ Handshake!InStep)'
  BY HandshakeTypes, HandshakeInStep
<1> QED
  BY <1>1, <1>2, Implements, PTL DEF ImplementsHandshake, Handshake!Spec


-----------------------------------------------------------------------------
(***************************************************************************)
(* Nothing that is owed is lost: a request waits for an answer that is on  *)
(* its way, a failure that one end knows of reaches the other, and an end  *)
(* is told of a new attempt.  This is the safety half of                   *)
(* ReconnectIsAnswered and FailureIsShared, which add that what is under   *)
(* way arrives.                                                            *)
(***************************************************************************)
Failure(k) == Frame("pair_failed", k)
Request(k) == Frame("reconnect_pair", k)
Rebuild == Frame("pair_reconnect_instruction", Epoch)
Refusal == [type |-> "error"]

Open(e) == conn[e] = "open"
Reported(e, k) == ctx[e][k].failedReported
Requested(e) == view[e].reconnectRequested

\* What has arrived at an end or is about to be sent to it.
Arriving(e) ==
  Range(inbox[e]) \cup {m \in Downward : \E x \in Ends : To(e, m) \in Range(sends[x])}

\* A newer attempt than the one end e has is on its way to it.
Summoned(e) == pairs[e] < Epoch /\ Rebuild \in Arriving(e)

\* A request that waits, its button disabled, has not been read yet, or is
\* answered by an error or by a new attempt that is on its way.
RequestUnderWay ==
  \A e \in Ends : Requested(e) /\ Open(e) =>
    /\ pairs[e] # 0
    /\ Request(pairs[e]) \in Range(frames[e]) \/ Refusal \in Arriving(e) \/ Summoned(e)

\* A failure one end knows of, the other knows of, or will be told of, unless
\* it will be told of a newer attempt.
FailureUnderWay ==
  \A e \in Ends, k \in Epochs :
    Reported(e, k) /\ pairs[Other(e)] = k /\ (\A x \in Ends : Open(x)) =>
      \/ Reported(Other(e), k) \/ Failure(k) \in Range(frames[e])
      \/ Failure(k) \in Arriving(Other(e)) \/ Summoned(Other(e))

\* An end whose attempt is superseded is told so.
Told ==
  \A e \in Ends : Open(e) /\ pairs[e] # 0 /\ pairs[e] < Epoch => Rebuild \in Arriving(e)

\* A failure is of an attempt that was completed, and its sender knows of it.
FailureKnown ==
  \A e \in Ends, k \in Epochs :
    /\ Reported(e, k) => HasApplied(ctx, Answerer, k)
    /\ Failure(k) \in Range(frames[e]) => Reported(e, k)
    /\ Failure(k) \in Arriving(Other(e)) => Reported(e, k)

\* An end with a connection is in the room, and is not taking leave.
Present ==
  \A e \in Ends : Open(e) =>
    e \in room.participants /\ \A m \in Range(frames[e]) : m.type # "leave_room"

OwedInv ==
  /\ IInv /\ RequestUnderWay /\ FailureUnderWay /\ Told /\ FailureKnown /\ Present

-----------------------------------------------------------------------------
(* What every step does to what is owed. *)

\* To the ends: a pair is kept, closed or of a new attempt, and a request or
\* a report that is new is sent, or comes from the other end.
EndCarries(e) ==
  /\ Open(e)' => Open(e)
  /\ \/ pairs'[e] = pairs[e] \/ pairs'[e] = 0
     \/ pairs'[e] = Epoch' /\ Epoch' = Epoch /\ ~ HasBegun(ctx, e, Epoch)
  /\ Requested(e)' =>
       \/ Requested(e) /\ pairs'[e] = pairs[e]
       \/ pairs'[e] # 0 /\ (Open(e)' => Request(pairs'[e]) \in Range(frames'[e]))
  /\ \A k \in Epochs :
       /\ HasApplied(ctx, e, k) => HasApplied(ctx', e, k)
       /\ Reported(e, k) => Reported(e, k)'
       /\ Reported(e, k)' /\ ~ Reported(e, k) =>
            /\ HasApplied(ctx, Answerer, k)
            /\ Open(e)' => Failure(k) \in Range(frames'[e]) \/ Reported(Other(e), k)'

\* To what an end has sent: it is read in the end, and answered or passed on.
FramesCarry(e) ==
  /\ Open(e)' => \A k \in Epochs :
       /\ Request(k) \in Range(frames[e]) =>
            \/ Request(k) \in Range(frames'[e]) \/ Refusal \in Arriving(e)'
            \/ k < Epoch'
       /\ Failure(k) \in Range(frames[e]) =>
            \/ Failure(k) \in Range(frames'[e]) \/ k < Epoch'
            \/ Open(Other(e))' => Failure(k) \in Arriving(Other(e))'
  /\ \A m \in Range(frames'[e]) :
       \/ m \in Range(frames[e])
       \/ /\ m.type = "leave_room" => ~ Open(e)'
          /\ \A k \in Epochs : m = Failure(k) => Reported(e, k)'

\* To what is on its way to an end: it gets there, and is heeded.
ArrivalsCarry(e) ==
  /\ Open(e)' =>
       /\ Refusal \in Arriving(e) => Refusal \in Arriving(e)' \/ ~ Requested(e)'
       /\ Epoch' = Epoch /\ Rebuild \in Arriving(e) =>
            Rebuild \in Arriving(e)' \/ pairs'[e] \in {0, Epoch}
       /\ \A k \in Epochs : Failure(k) \in Arriving(e) =>
            Failure(k) \in Arriving(e)' \/ pairs'[e] # k \/ Reported(e, k)'
  /\ \A k \in Epochs : Failure(k) \in Arriving(e)' =>
       Failure(k) \in Arriving(e) \/ Failure(k) \in Range(frames[Other(e)])

\* To the room: a new attempt is told to the ends.
RoomCarries(e) ==
  /\ \/ Epoch' = Epoch
     \/ Epoch' = Epoch + 1 /\ (Open(e)' => Rebuild' \in Arriving(e)')
  /\ Open(e)' /\ e \in room.participants => e \in room'.participants

Carries ==
  \A e \in Ends : EndCarries(e) /\ FramesCarry(e) /\ ArrivalsCarry(e) /\ RoomCarries(e)

\* A step that does so loses nothing.
LEMMA CarriedOn ==
  ASSUME OwedInv, IInv', Carries
  PROVE  OwedInv'
<1>1. /\ Epoch \in Nat /\ Epoch' \in Nat /\ \A k \in Epochs : k \in Nat /\ k # 0
      /\ \A e \in Ends : pairs[e] \in Nat /\ pairs'[e] \in Nat
      /\ \A e \in Ends : Other(e) \in Ends /\ Other(Other(e)) = e
      /\ Answerer \in Ends
  BY MaxEpochAssumption
  DEF OwedInv, IInv, TypeOK, RoomOK, Epochs, Ends, Other, Answerer
<1>2. Epoch' = Epoch \/ Epoch' = Epoch + 1
  BY <1>1 DEF Carries, RoomCarries
<1>3. Told'
  <2> SUFFICES ASSUME NEW e \in Ends, Open(e)', pairs'[e] # 0, pairs'[e] < Epoch'
               PROVE  Rebuild' \in Arriving(e)'
    BY DEF Told
  <2>1. CASE Epoch' = Epoch
    <3>1. pairs'[e] = pairs[e] /\ Open(e)
      BY <1>1, <2>1 DEF Carries, EndCarries
    <3>2. Rebuild \in Arriving(e)
      BY <2>1, <3>1 DEF OwedInv, Told
    <3>3. Rebuild \in Arriving(e)' \/ pairs'[e] \in {0, Epoch}
      BY <2>1, <3>2 DEF Carries, ArrivalsCarry
    <3>4. Rebuild' = Rebuild
      BY <2>1 DEF Rebuild
    <3> QED
      BY <1>1, <2>1, <3>3, <3>4
  <2>2. CASE Epoch' = Epoch + 1
    BY <1>1, <2>2 DEF Carries, RoomCarries
  <2> QED
    BY <1>2, <2>1, <2>2
<1>4. \A e \in Ends : Open(e)' /\ pairs'[e] # 0 /\ pairs'[e] < Epoch' => Summoned(e)'
  BY <1>3 DEF Told, Summoned
<1>5. RequestUnderWay'
  <2> SUFFICES ASSUME NEW e \in Ends, Requested(e)', Open(e)'
               PROVE  /\ pairs'[e] # 0
                      /\ \/ Request(pairs'[e]) \in Range(frames'[e])
                         \/ Refusal \in Arriving(e)' \/ Summoned(e)'
    BY DEF RequestUnderWay, Request, Frame, Refusal
  <2>1. CASE pairs'[e] # 0 /\ Request(pairs'[e]) \in Range(frames'[e])
    BY <2>1
  <2>2. CASE Requested(e) /\ pairs'[e] = pairs[e]
    <3>1. /\ pairs[e] # 0 /\ pairs[e] \in Epochs
          /\ Request(pairs[e]) \in Range(frames[e]) \/ Refusal \in Arriving(e)
             \/ pairs[e] < Epoch
      BY <2>2 DEF OwedInv, RequestUnderWay, Carries, EndCarries, Summoned, IInv, TypeOK,
                  Epochs
    <3>2. \/ Request(pairs'[e]) \in Range(frames'[e]) \/ Refusal \in Arriving(e)'
          \/ pairs'[e] < Epoch'
      BY <1>1, <1>2, <2>2, <3>1 DEF Carries, FramesCarry, ArrivalsCarry
    <3> QED
      BY <1>4, <2>2, <3>1, <3>2
  <2> QED
    BY <2>1, <2>2 DEF Carries, EndCarries
<1>6. FailureUnderWay'
  <2> SUFFICES ASSUME NEW e \in Ends, NEW k \in Epochs, Reported(e, k)',
                      pairs'[Other(e)] = k, \A x \in Ends : Open(x)'
               PROVE  \/ Reported(Other(e), k)' \/ Failure(k) \in Range(frames'[e])
                      \/ Failure(k) \in Arriving(Other(e))' \/ Summoned(Other(e))'
    BY DEF FailureUnderWay, Failure, Frame
  <2> DEFINE f == Other(e)
  <2>1. f \in Ends
    BY <1>1
  <2>2. CASE ~ Reported(e, k)
    BY <2>2 DEF Carries, EndCarries
  <2>3. CASE Reported(e, k)
    <3>1. HasBegun(ctx, f, k)
      <4>1. HasApplied(ctx, Answerer, k)
        BY <2>3 DEF OwedInv, FailureKnown
      <4>2. HasBegun(ctx, Offerer, k) /\ HasBegun(ctx, Answerer, k)
        BY <1>1, <4>1, AppliedFacts DEF OwedInv
      <4> QED
        BY <2>1, <4>2 DEF Ends, Offerer, Answerer
    <3>2. pairs[f] = k /\ \A x \in Ends : Open(x)
      <4> HIDE DEF f
      <4>1. /\ \A x \in Ends : Open(x)
            /\ \/ pairs'[f] = pairs[f] \/ pairs'[f] = 0
               \/ pairs'[f] = Epoch' /\ Epoch' = Epoch /\ ~ HasBegun(ctx, f, Epoch)
        BY <2>1 DEF Carries, EndCarries
      <4>2. pairs'[f] = k
        BY DEF f
      <4> QED
        BY <1>1, <3>1, <4>1, <4>2
    <3>3. \/ Reported(f, k) \/ Failure(k) \in Range(frames[e])
          \/ Failure(k) \in Arriving(f) \/ k < Epoch
      BY <2>3, <3>2 DEF OwedInv, FailureUnderWay, Summoned
    <3>4. \/ Reported(f, k)' \/ Failure(k) \in Range(frames'[e])
          \/ Failure(k) \in Arriving(f)' \/ k < Epoch'
      <4>1. Reported(f, k) => Reported(f, k)'
        BY <2>1 DEF Carries, EndCarries
      <4>2. Failure(k) \in Range(frames[e]) =>
              \/ Failure(k) \in Range(frames'[e]) \/ k < Epoch'
              \/ Failure(k) \in Arriving(f)'
        BY <2>1 DEF Carries, FramesCarry
      <4>3. Failure(k) \in Arriving(f) => Failure(k) \in Arriving(f)' \/ Reported(f, k)'
        BY <2>1 DEF Carries, ArrivalsCarry
      <4>4. k < Epoch => k < Epoch'
        BY <1>1, <1>2
      <4> QED
        BY <3>3, <4>1, <4>2, <4>3, <4>4
    <3> QED
      BY <1>1, <1>4, <2>1, <3>4
  <2> QED
    BY <2>2, <2>3
<1>7. FailureKnown'
  <2> SUFFICES ASSUME NEW e \in Ends, NEW k \in Epochs
               PROVE  /\ Reported(e, k)' => HasApplied(ctx', Answerer, k)
                      /\ Failure(k) \in Range(frames'[e]) => Reported(e, k)'
                      /\ Failure(k) \in Arriving(Other(e))' => Reported(e, k)'
    BY DEF FailureKnown, Failure, Frame
  <2>1. /\ Reported(e, k) => HasApplied(ctx, Answerer, k)
        /\ Failure(k) \in Range(frames[e]) => Reported(e, k)
        /\ Failure(k) \in Arriving(Other(e)) => Reported(e, k)
    BY DEF OwedInv, FailureKnown
  <2>2. Reported(e, k) => Reported(e, k)'
    BY DEF Carries, EndCarries
  <2>3. Reported(e, k)' => HasApplied(ctx, Answerer, k)
    BY <2>1 DEF Carries, EndCarries
  <2>4. HasApplied(ctx, Answerer, k) => HasApplied(ctx', Answerer, k)
    BY <1>1 DEF Carries, EndCarries
  <2>5. Failure(k) \in Range(frames'[e]) => Reported(e, k)'
    BY <2>1, <2>2 DEF Carries, FramesCarry
  <2>6. Failure(k) \in Arriving(Other(e))' =>
          Failure(k) \in Arriving(Other(e)) \/ Failure(k) \in Range(frames[e])
    BY <1>1 DEF Carries, ArrivalsCarry
  <2> QED
    BY <2>1, <2>2, <2>3, <2>4, <2>5, <2>6
<1>8. Present'
  <2> SUFFICES ASSUME NEW e \in Ends, Open(e)'
               PROVE  /\ e \in room'.participants
                      /\ \A m \in Range(frames'[e]) : m.type # "leave_room"
    BY DEF Present
  <2>1. e \in room.participants /\ \A m \in Range(frames[e]) : m.type # "leave_room"
    BY DEF OwedInv, Present, Carries, EndCarries
  <2> QED
    BY <2>1 DEF Carries, RoomCarries, FramesCarry
<1> QED
  BY <1>3, <1>5, <1>6, <1>7, <1>8 DEF OwedInv

-----------------------------------------------------------------------------
(* What is on its way. *)

LEMMA MessageFacts ==
  ASSUME IInv
  PROVE  /\ Refusal \in Downward /\ Rebuild \in Downward
         /\ \A k \in Epochs : /\ Failure(k) \in Downward /\ Failure(k) \in Upward
                              /\ Request(k) \in Upward
BY DEF IInv, RoomOK, Refusal, Rebuild, Failure, Request, Frame, Downward, Upward,
       Instruction

LEMMA HeadOrTail ==
  ASSUME NEW S, NEW s \in Seq(S), s # <<>>
  PROVE  Range(s) = {Head(s)} \cup Range(Tail(s))
<1> DEFINE t == Tail(s)
<1>1. /\ t \in Seq(S) /\ Len(s) \in Nat /\ Len(s) # 0 /\ Len(t) = Len(s) - 1
      /\ Head(s) = s[1] /\ DOMAIN s = 1..Len(s) /\ DOMAIN t = 1..Len(t)
      /\ \A i \in 1..Len(t) : t[i] = s[i + 1]
  BY HeadTailProperties, LenProperties, EmptySeq
<1> HIDE DEF t
<1>2. \A i \in 1..Len(s) : i = 1 \/ i - 1 \in 1..Len(t)
  BY <1>1
<1>3. Range(s) \subseteq {Head(s)} \cup Range(t)
  <2> SUFFICES ASSUME NEW i \in 1..Len(s), i # 1 PROVE s[i] \in Range(t)
    BY <1>1 DEF Range
  <2>1. i - 1 \in 1..Len(t) /\ t[i - 1] = s[(i - 1) + 1] /\ (i - 1) + 1 = i
    BY <1>1, <1>2
  <2> QED
    BY <1>1, <2>1 DEF Range
<1>4. Head(s) \in Range(s) /\ Range(t) \subseteq Range(s)
  BY HeadFacts DEF t
<1> QED
  BY <1>3, <1>4 DEF t

\* Messages that are left alone carry on.
LEMMA SameArriving ==
  ASSUME UNCHANGED <<sends, inbox>>, NEW e \in Ends
  PROVE  Arriving(e)' = Arriving(e)
BY DEF Arriving

LEMMA ArrivalsKept ==
  ASSUME NEW e \in Ends, Open(e)' => Arriving(e) \subseteq Arriving(e)',
         Arriving(e)' \subseteq Arriving(e)
  PROVE  ArrivalsCarry(e)
BY DEF ArrivalsCarry

LEMMA FramesLeft ==
  ASSUME NEW e \in Ends, frames'[e] = frames[e]
  PROVE  FramesCarry(e)
BY DEF FramesCarry

\* One more frame is sent.
LEMMA EmitCarries ==
  ASSUME IInv, NEW e \in Ends, NEW f \in Upward, Emit(e, f), UNCHANGED conn,
         f.type # "leave_room", \A k \in Epochs : f = Failure(k) => Reported(e, k)'
  PROVE  /\ \A x \in Ends : FramesCarry(x)
         /\ Open(e)' => f \in Range(frames'[e])
<1>1. frames \in [Ends -> Seq(Upward)]
  BY DEF IInv, MessagesOK
<1>2. \A x \in Ends \ {e} : frames'[x] = frames[x]
  BY <1>1 DEF Emit
<1>3. /\ frames'[e] = frames[e] \/ frames'[e] = Append(frames[e], f)
      /\ Open(e)' => frames'[e] = Append(frames[e], f)
  BY <1>1 DEF Emit, Open
<1>4. Range(Append(frames[e], f)) = Range(frames[e]) \cup {f}
  BY <1>1, AppendFacts
<1>5. FramesCarry(e)
  BY <1>3, <1>4 DEF FramesCarry
<1> QED
  BY <1>2, <1>3, <1>4, <1>5, FramesLeft

-----------------------------------------------------------------------------
(* The steps of the ends. *)

\* An end and the room as they were.
LEMMA RoomKept ==
  ASSUME UNCHANGED room, NEW e \in Ends
  PROVE  RoomCarries(e)
<1>1. Epoch' = Epoch
  BY DEF Epoch
<1> QED
  BY <1>1 DEF RoomCarries

LEMMA EndKept ==
  ASSUME NEW e \in Ends, Open(e)' => Open(e), pairs'[e] = pairs[e],
         Requested(e)' => Requested(e),
         \A k \in Epochs : /\ HasApplied(ctx, e, k) => HasApplied(ctx', e, k)
                           /\ Reported(e, k)' <=> Reported(e, k)
  PROVE  EndCarries(e)
BY DEF EndCarries

\* A context is patched that keeps its reports.
LEMMA PatchReports ==
  ASSUME IInv, NEW e \in Ends, NEW k \in Epochs, NEW c,
         ctx' = [ctx EXCEPT ![e][k] = c],
         HasApplied(ctx, e, k) => c.remoteDescriptionApplied,
         c.failedReported = ctx[e][k].failedReported
  PROVE  \A x \in Ends, j \in Epochs :
           /\ HasApplied(ctx, x, j) => HasApplied(ctx', x, j)
           /\ Reported(x, j)' <=> Reported(x, j)
<1>1. ctx \in [Ends -> [Epochs -> PairContext]]
  BY DEF IInv, TypeOK
<1>2. /\ ctx'[e][k] = c
      /\ \A x \in Ends, j \in Epochs : ~ (x = e /\ j = k) => ctx'[x][j] = ctx[x][j]
  BY <1>1
<1> TAKE x \in Ends, j \in Epochs
<1>3. CASE x = e /\ j = k
  BY <1>2, <1>3 DEF HasApplied, Reported
<1>4. CASE ~ (x = e /\ j = k)
  <2>1. ctx'[x][j] = ctx[x][j]
    BY <1>2, <1>4
  <2>2. HasApplied(ctx, x, j) => HasApplied(ctx', x, j)
    BY <2>1 DEF HasApplied
  <2>3. Reported(x, j)' <=> Reported(x, j)
    BY <2>1 DEF Reported
  <2> QED
    BY <2>2, <2>3
<1> QED
  BY <1>3, <1>4

\* One context goes on, and a frame may be sent.
LEMMA PatchCarries ==
  ASSUME OwedInv, NEW e \in Ends, NEW k \in Epochs, NEW c,
         ctx' = [ctx EXCEPT ![e][k] = c],
         HasApplied(ctx, e, k) => c.remoteDescriptionApplied,
         c.failedReported = ctx[e][k].failedReported,
         UNCHANGED <<room, sends, conn, inbox, pairs, view>>,
         \A x \in Ends : FramesCarry(x)
  PROVE  Carries
<1> SUFFICES ASSUME NEW x \in Ends
             PROVE  EndCarries(x) /\ FramesCarry(x) /\ ArrivalsCarry(x) /\ RoomCarries(x)
  BY DEF Carries
<1>1. \A j \in Epochs : /\ HasApplied(ctx, x, j) => HasApplied(ctx', x, j)
                        /\ Reported(x, j)' <=> Reported(x, j)
  BY PatchReports DEF OwedInv
<1>2. EndCarries(x)
  <2>1. (Open(x)' => Open(x)) /\ (Requested(x)' => Requested(x)) /\ pairs'[x] = pairs[x]
    BY DEF Open, Requested
  <2> QED
    BY <1>1, <2>1, EndKept
<1>3. ArrivalsCarry(x)
  BY SameArriving, ArrivalsKept
<1> QED
  BY <1>2, <1>3, RoomKept

LEMMA BeginFlushFacts ==
  ASSUME NEW e, NEW d,
         {"failedReported", "remoteDescriptionApplied"} \subseteq DOMAIN d
  PROVE  /\ BeginFlush(e, d).failedReported = d.failedReported
         /\ BeginFlush(e, d).remoteDescriptionApplied = d.remoteDescriptionApplied
<1>1. BeginFlush(e, d) \in
        {[d EXCEPT !.await = "flush"],
         [d EXCEPT !.state = "creating-answer", !.await = "createAnswer"],
         [d EXCEPT !.state = "stable", !.await = "nothing"]}
  BY DEF BeginFlush, AfterFlush
<1> QED
  BY <1>1

LEMMA ContinueCarries ==
  ASSUME OwedInv, NEW e \in Ends, NEW k \in Epochs, Continue(e, k)
  PROVE  Carries
<1> DEFINE c == ctx[e][k]
<1>1. /\ IInv /\ c \in PairContext
      /\ UNCHANGED <<room, sends, conn, inbox, pairs, view>>
  BY DEF OwedInv, IInv, TypeOK, Continue, Continuation, server
<1>2. \/ frames' = frames
      \/ \E type \in {"pair_offer", "pair_answer"} : Emit(e, Frame(type, k))
  BY DEF Continue, CreatedOffer, SetLocalOffer, SetRemoteOffer, SetRemoteAnswer, Flush,
         CreatedAnswer, SetLocalAnswer
<1>3. \A x \in Ends : FramesCarry(x)
  <2>1. CASE frames' = frames
    BY <2>1, FramesLeft
  <2>2. ASSUME NEW type \in {"pair_offer", "pair_answer"}, Emit(e, Frame(type, k))
        PROVE  \A x \in Ends : FramesCarry(x)
    <3> DEFINE f == Frame(type, k)
    <3>1. f \in Upward /\ f.type # "leave_room" /\ \A j \in Epochs : f # Failure(j)
      BY DEF Frame, Upward, Failure
    <3>2. Emit(e, f)
      BY <2>2
    <3> HIDE DEF f
    <3> QED
      BY <1>1, <3>1, <3>2, EmitCarries
  <2> QED
    BY <1>2, <2>1, <2>2
<1>4. \E d : /\ ctx' = [ctx EXCEPT ![e][k] = d] /\ d.failedReported = c.failedReported
             /\ c.remoteDescriptionApplied => d.remoteDescriptionApplied
  <2>1. CASE CreatedOffer(e, k)
    <3> DEFINE d == [c EXCEPT !.await = "setLocalOffer"]
    <3>1. ctx' = [ctx EXCEPT ![e][k] = d]
      BY <2>1 DEF CreatedOffer, Patch
    <3>2. /\ d.failedReported = c.failedReported
          /\ c.remoteDescriptionApplied => d.remoteDescriptionApplied
      BY <1>1 DEF PairContext
    <3> QED
      BY <3>1, <3>2
  <2>2. CASE SetLocalOffer(e, k)
    <3> DEFINE d == [c EXCEPT !.await = "nothing", !.state = "have-local-offer",
                              !.signaling = "have-local-offer"]
    <3>1. ctx' = [ctx EXCEPT ![e][k] = d]
      BY <2>2 DEF SetLocalOffer, Patch
    <3>2. /\ d.failedReported = c.failedReported
          /\ c.remoteDescriptionApplied => d.remoteDescriptionApplied
      BY <1>1 DEF PairContext
    <3> QED
      BY <3>1, <3>2
  <2>3. CASE SetRemoteOffer(e, k)
    <3> DEFINE b == [c EXCEPT !.signaling = "have-remote-offer",
                              !.remoteDescriptionApplied = TRUE]
    <3>1. ctx' = [ctx EXCEPT ![e][k] = BeginFlush(e, b)]
      BY <2>3 DEF SetRemoteOffer, Patch
    <3>2. /\ b.failedReported = c.failedReported /\ b.remoteDescriptionApplied
          /\ {"failedReported", "remoteDescriptionApplied"} \subseteq DOMAIN b
      BY <1>1 DEF PairContext
    <3> HIDE DEF b, c
    <3>3. /\ BeginFlush(e, b).failedReported = b.failedReported
          /\ BeginFlush(e, b).remoteDescriptionApplied = b.remoteDescriptionApplied
      BY <3>2, BeginFlushFacts
    <3> QED
      BY <3>1, <3>2, <3>3
  <2>4. CASE SetRemoteAnswer(e, k)
    <3> DEFINE b == [c EXCEPT !.signaling = "stable", !.state = "stable",
                              !.remoteDescriptionApplied = TRUE]
    <3>1. ctx' = [ctx EXCEPT ![e][k] = BeginFlush(e, b)]
      BY <2>4 DEF SetRemoteAnswer, Patch
    <3>2. /\ b.failedReported = c.failedReported /\ b.remoteDescriptionApplied
          /\ {"failedReported", "remoteDescriptionApplied"} \subseteq DOMAIN b
      BY <1>1 DEF PairContext
    <3> HIDE DEF b, c
    <3>3. /\ BeginFlush(e, b).failedReported = b.failedReported
          /\ BeginFlush(e, b).remoteDescriptionApplied = b.remoteDescriptionApplied
      BY <3>2, BeginFlushFacts
    <3> QED
      BY <3>1, <3>2, <3>3
  <2>5. CASE Flush(e, k)
    <3> DEFINE b == [c EXCEPT !.added = Append(@, Head(c.iceBuffer)),
                              !.iceBuffer = Tail(@)]
    <3>1. ctx' = [ctx EXCEPT ![e][k] = BeginFlush(e, b)]
      BY <2>5 DEF Flush, Patch
    <3>2. /\ b.failedReported = c.failedReported
          /\ b.remoteDescriptionApplied = c.remoteDescriptionApplied
          /\ {"failedReported", "remoteDescriptionApplied"} \subseteq DOMAIN b
      BY <1>1 DEF PairContext
    <3> HIDE DEF b, c
    <3>3. /\ BeginFlush(e, b).failedReported = b.failedReported
          /\ BeginFlush(e, b).remoteDescriptionApplied = b.remoteDescriptionApplied
      BY <3>2, BeginFlushFacts
    <3> QED
      BY <3>1, <3>2, <3>3
  <2>6. CASE CreatedAnswer(e, k)
    <3> DEFINE d == [c EXCEPT !.await = "setLocalAnswer"]
    <3>1. ctx' = [ctx EXCEPT ![e][k] = d]
      BY <2>6 DEF CreatedAnswer, Patch
    <3>2. /\ d.failedReported = c.failedReported
          /\ c.remoteDescriptionApplied => d.remoteDescriptionApplied
      BY <1>1 DEF PairContext
    <3> QED
      BY <3>1, <3>2
  <2>7. CASE SetLocalAnswer(e, k)
    <3> DEFINE d == [c EXCEPT !.await = "nothing", !.state = "have-local-answer",
                              !.signaling = "stable"]
    <3>1. ctx' = [ctx EXCEPT ![e][k] = d]
      BY <2>7 DEF SetLocalAnswer, Patch
    <3>2. /\ d.failedReported = c.failedReported
          /\ c.remoteDescriptionApplied => d.remoteDescriptionApplied
      BY <1>1 DEF PairContext
    <3> QED
      BY <3>1, <3>2
  <2> QED
    BY <2>1, <2>2, <2>3, <2>4, <2>5, <2>6, <2>7 DEF Continue
<1>5. HasApplied(ctx, e, k) => c.remoteDescriptionApplied
  BY DEF HasApplied
<1> HIDE DEF c
<1>6. PICK d : /\ ctx' = [ctx EXCEPT ![e][k] = d] /\ d.failedReported = c.failedReported
               /\ c.remoteDescriptionApplied => d.remoteDescriptionApplied
  BY <1>4
<1> QED
  BY <1>1, <1>3, <1>5, <1>6, PatchCarries DEF c

LEMMA GatherCarries ==
  ASSUME OwedInv, NEW e \in Ends, NEW k \in Epochs, GatherCandidate(e, k)
  PROVE  Carries
<1> DEFINE c == ctx[e][k]
           d1 == [c EXCEPT !.gathered = @ + 1]
           d2 == [c EXCEPT !.endOfLocalCandidatesSent = TRUE]
<1>1. /\ IInv /\ c \in PairContext
      /\ UNCHANGED <<room, sends, conn, inbox, pairs, view>>
  BY DEF OwedInv, IInv, TypeOK, GatherCandidate, server
<1>2. PICK f \in {CandidateFrame(k, c.gathered + 1), CandidateFrame(k, EndOfCandidates)} :
        Emit(e, f) /\ f \in Upward
  <2>1. c.gathered \in 0..MaxCandidates
    BY <1>1 DEF PairContext
  <2>2. /\ c.gathered < MaxCandidates => c.gathered + 1 \in Candidates
        /\ EndOfCandidates \in Candidates
    BY <2>1, MaxCandidatesAssumption DEF Candidates, EndOfCandidates
  <2>3. \A cand \in Candidates : CandidateFrame(k, cand) \in Upward
    BY DEF CandidateFrame, Upward
  <2> QED
    BY <2>2, <2>3 DEF GatherCandidate
<1>3. f.type = "pair_ice_candidate" /\ \A j \in Epochs : Failure(j).type = "pair_failed"
  BY DEF CandidateFrame, Failure, Frame
<1>4. \A x \in Ends : FramesCarry(x)
  BY <1>1, <1>2, <1>3, EmitCarries
<1>5. PICK d \in {d1, d2} : ctx' = [ctx EXCEPT ![e][k] = d]
  BY DEF GatherCandidate, Patch
<1>6. /\ d.failedReported = c.failedReported
      /\ HasApplied(ctx, e, k) => d.remoteDescriptionApplied
  BY <1>1 DEF PairContext, HasApplied
<1> HIDE DEF d1, d2, c
<1> QED
  BY <1>1, <1>4, <1>5, <1>6, PatchCarries DEF c

\* A failure that is not reported yet is reported now.
LEMMA FailsCarries ==
  ASSUME OwedInv, NEW e \in Ends, NEW k \in Epochs, ConnectionFails(e, k)
  PROVE  Carries
<1> DEFINE c == ctx[e][k]
           d1 == [c EXCEPT !.failing = TRUE]
           d2 == [c EXCEPT !.failing = TRUE, !.failedReported = TRUE, !.state = "failed"]
<1>1. /\ IInv /\ c \in PairContext /\ ctx \in [Ends -> [Epochs -> PairContext]]
      /\ UNCHANGED <<room, sends, conn, inbox, pairs>>
      /\ view \in Views /\ view' = [view EXCEPT ![e].failed = TRUE]
      /\ c.remoteDescriptionApplied
  BY DEF OwedInv, IInv, TypeOK, Views, ConnectionFails, server, Negotiated
<1>2. HasApplied(ctx, e, k) /\ HasApplied(ctx, Answerer, k)
  BY <1>1, AppliedFacts DEF HasApplied
<1>3. \/ c.failedReported /\ ctx' = [ctx EXCEPT ![e][k] = d1] /\ frames' = frames
      \/ ~ c.failedReported /\ ctx' = [ctx EXCEPT ![e][k] = d2] /\ Emit(e, Failure(k))
  BY DEF ConnectionFails, Patch, Failure
<1>4. PICK d : /\ ctx' = [ctx EXCEPT ![e][k] = d]
               /\ d.failedReported /\ d.remoteDescriptionApplied
  <2>1. d1.failedReported = c.failedReported /\ d1.remoteDescriptionApplied
        /\ d2.failedReported /\ d2.remoteDescriptionApplied
    BY <1>1 DEF PairContext
  <2> HIDE DEF d1, d2
  <2> QED
    BY <1>3, <2>1
<1>5. /\ Reported(e, k)' /\ HasApplied(ctx', e, k)
      /\ \A x \in Ends, j \in Epochs : ~ (x = e /\ j = k) => ctx'[x][j] = ctx[x][j]
  BY <1>1, <1>4 DEF Reported, HasApplied
<1>6. /\ \A x \in Ends : FramesCarry(x)
      /\ Reported(e, k) \/ (Open(e)' => Failure(k) \in Range(frames'[e]))
  <2>1. CASE c.failedReported /\ frames' = frames
    BY <2>1, FramesLeft DEF Reported
  <2>2. CASE Emit(e, Failure(k))
    <3>1. Failure(k) \in Upward /\ Failure(k).type # "leave_room"
          /\ \A j \in Epochs : Failure(k) = Failure(j) => j = k
      BY <1>1, MessageFacts DEF Failure, Frame
    <3> QED
      BY <1>1, <1>5, <2>2, <3>1, EmitCarries
  <2> QED
    BY <1>3, <2>1, <2>2
<1>7. ASSUME NEW x \in Ends PROVE EndCarries(x)
  <2>1. /\ Open(x)' => Open(x)
        /\ Requested(x)' => Requested(x)
        /\ pairs'[x] = pairs[x]
    BY <1>1 DEF Open, Requested, Views
  <2>2. ASSUME NEW j \in Epochs
        PROVE  /\ HasApplied(ctx, x, j) => HasApplied(ctx', x, j)
               /\ Reported(x, j) => Reported(x, j)'
               /\ Reported(x, j)' /\ ~ Reported(x, j) => x = e /\ j = k
    <3>1. CASE x = e /\ j = k
      BY <1>5, <3>1
    <3>2. CASE ~ (x = e /\ j = k)
      BY <1>5, <3>2 DEF HasApplied, Reported
    <3> QED
      BY <3>1, <3>2
  <2> QED
    BY <1>2, <1>6, <2>1, <2>2 DEF EndCarries
<1>8. \A x \in Ends : ArrivalsCarry(x) /\ RoomCarries(x)
  BY <1>1, SameArriving, ArrivalsKept, RoomKept
<1> QED
  BY <1>6, <1>7, <1>8 DEF Carries

\* A request that is new is sent.
LEMMA ReconnectCarries ==
  ASSUME OwedInv, NEW e \in Ends, ReconnectPair(e)
  PROVE  Carries
<1> DEFINE k == pairs[e]
           c == ctx[e][k]
           d == [c EXCEPT !.reconnectRequested = TRUE]
<1>1. /\ IInv /\ k \in Epochs /\ c \in PairContext /\ k # 0
      /\ ctx \in [Ends -> [Epochs -> PairContext]] /\ view \in Views
      /\ UNCHANGED <<room, sends, conn, inbox, pairs>>
  BY InTheMap DEF ReconnectPair, server, OwedInv, IInv, TypeOK, Views
<1>2. /\ ctx' = [ctx EXCEPT ![e][k] = d] /\ Emit(e, Request(k))
      /\ view' = [view EXCEPT ![e].reconnectRequested = TRUE]
  BY <1>1 DEF ReconnectPair, Request
<1>3. /\ d.failedReported = c.failedReported
      /\ HasApplied(ctx, e, k) => d.remoteDescriptionApplied
  BY <1>1 DEF PairContext, HasApplied
<1> HIDE DEF d
<1>4. \A x \in Ends, j \in Epochs :
        /\ HasApplied(ctx, x, j) => HasApplied(ctx', x, j)
        /\ Reported(x, j)' <=> Reported(x, j)
  BY <1>1, <1>2, <1>3, PatchReports
<1>5. /\ \A x \in Ends : FramesCarry(x)
      /\ Open(e)' => Request(k) \in Range(frames'[e])
  <2>1. /\ Request(k) \in Upward /\ Request(k).type = "reconnect_pair"
        /\ \A j \in Epochs : Failure(j).type = "pair_failed"
    BY <1>1, MessageFacts DEF Request, Failure, Frame
  <2> QED
    BY <1>1, <1>2, <2>1, EmitCarries
<1>6. ASSUME NEW x \in Ends PROVE EndCarries(x)
  <2>1. /\ Open(x)' => Open(x)
        /\ pairs'[x] = pairs[x]
        /\ x # e => (Requested(x)' => Requested(x))
    BY <1>1, <1>2 DEF Open, Requested, Views
  <2>2. pairs'[e] # 0 /\ (Open(e)' => Request(pairs'[e]) \in Range(frames'[e]))
    BY <1>1, <1>5
  <2> QED
    BY <1>4, <2>1, <2>2 DEF EndCarries
<1>7. \A x \in Ends : ArrivalsCarry(x) /\ RoomCarries(x)
  BY <1>1, SameArriving, ArrivalsKept, RoomKept
<1> QED
  BY <1>5, <1>6, <1>7 DEF Carries

\* A pair that is closed keeps what it has applied and reported.
LEMMA CloseReports ==
  ASSUME IInv, NEW e \in Ends, ClosePair(e)
  PROVE  /\ \A x \in Ends, j \in Epochs :
              /\ HasApplied(ctx, x, j) => HasApplied(ctx', x, j)
              /\ Reported(x, j)' <=> Reported(x, j)
         /\ pairs'[e] = 0 /\ ~ Requested(e)'
         /\ \A x \in Ends \ {e} : pairs'[x] = pairs[x] /\ view'[x] = view[x]
<1>1. /\ ctx \in [Ends -> [Epochs -> PairContext]] /\ view \in Views
      /\ pairs \in [Ends -> 0..MaxEpoch]
  BY DEF IInv, TypeOK, Views
<1>2. ASSUME NEW x \in Ends, NEW j \in Epochs
      PROVE  /\ HasApplied(ctx, x, j) => HasApplied(ctx', x, j)
             /\ Reported(x, j)' <=> Reported(x, j)
  <2>1. ctx'[x][j] \in {ctx[x][j], Closed(ctx[x][j])} /\ ctx[x][j] \in PairContext
    BY <1>1 DEF ClosePair
  <2>2. /\ Closed(ctx[x][j]).remoteDescriptionApplied = ctx[x][j].remoteDescriptionApplied
        /\ Closed(ctx[x][j]).failedReported = ctx[x][j].failedReported
    BY <2>1 DEF Closed, PairContext
  <2>3. /\ ctx'[x][j].remoteDescriptionApplied = ctx[x][j].remoteDescriptionApplied
        /\ ctx'[x][j].failedReported = ctx[x][j].failedReported
    BY <2>1, <2>2
  <2> QED
    BY <2>3 DEF HasApplied, Reported
<1>3. /\ pairs'[e] = 0 /\ view'[e] = NoView
      /\ \A x \in Ends \ {e} : pairs'[x] = pairs[x] /\ view'[x] = view[x]
  BY <1>1 DEF ClosePair, Views
<1> QED
  BY <1>2, <1>3 DEF Requested, NoView

\* One end goes: what it is owed is owed no more.
LEMMA GoneCarries ==
  ASSUME OwedInv, NEW e \in Ends, UNCHANGED <<room, sends>>, ~ Open(e)',
         \A x \in Ends \ {e} :
           /\ conn'[x] = conn[x] /\ inbox'[x] = inbox[x] /\ frames'[x] = frames[x]
           /\ pairs'[x] = pairs[x] /\ view'[x] = view[x],
         conn[e] = "open", inbox'[e] = <<>>,
         \A m \in Range(frames'[e]) : m \in Range(frames[e]) \/ m.type = "leave_room",
         \/ pairs'[e] = pairs[e] /\ view'[e] = view[e]
         \/ pairs'[e] = 0 /\ ~ Requested(e)',
         \A x \in Ends, j \in Epochs :
           /\ HasApplied(ctx, x, j) => HasApplied(ctx', x, j)
           /\ Reported(x, j)' <=> Reported(x, j)
  PROVE  Carries
<1>1. Open(e)
  BY DEF Open
<1>2. ASSUME NEW x \in Ends PROVE EndCarries(x)
  <2>1. CASE x = e
    BY <1>1, <2>1 DEF EndCarries, Requested
  <2>2. CASE x # e
    <3>1. (Open(x)' => Open(x)) /\ (Requested(x)' => Requested(x)) /\ pairs'[x] = pairs[x]
      BY <2>2 DEF Open, Requested
    <3> QED
      BY <3>1, EndKept
  <2> QED
    BY <2>1, <2>2
<1>3. ASSUME NEW x \in Ends PROVE FramesCarry(x)
  <2>1. CASE x = e
    <3>1. \A k \in Epochs : Failure(k).type = "pair_failed"
      BY DEF Failure, Frame
    <3> QED
      BY <2>1, <3>1 DEF FramesCarry
  <2>2. CASE x # e
    BY <2>2, FramesLeft
  <2> QED
    BY <2>1, <2>2
<1>4. ASSUME NEW x \in Ends PROVE ArrivalsCarry(x)
  <2>1. CASE x = e
    <3>1. Range(<<>>) = {}
      BY DEF Range
    <3>2. Arriving(e)' \subseteq Arriving(e)
      BY <3>1 DEF Arriving
    <3> QED
      BY <2>1, <3>2, ArrivalsKept
  <2>2. CASE x # e
    <3>1. Arriving(x)' = Arriving(x)
      BY <2>2 DEF Arriving
    <3> QED
      BY <3>1, ArrivalsKept
  <2> QED
    BY <2>1, <2>2
<1> QED
  BY <1>2, <1>3, <1>4, RoomKept DEF Carries

LEMMA EndsCarry ==
  ASSUME OwedInv, NEW e \in Ends, Leave(e) \/ Drop(e)
  PROVE  Carries
<1> DEFINE f == Frame("leave_room", 0)
<1>1. /\ IInv /\ frames \in [Ends -> Seq(Upward)] /\ f \in Upward /\ f.type = "leave_room"
      /\ inbox \in [Ends -> Seq(Downward)] /\ conn \in [Ends -> {"open", "dropped", "left"}]
  BY DEF OwedInv, IInv, TypeOK, MessagesOK, Frame, Upward
<1>2. /\ UNCHANGED <<room, sends>> /\ conn = [x \in Ends |-> "open"]
      /\ inbox' = [inbox EXCEPT ![e] = <<>>]
      /\ conn' = [conn EXCEPT ![e] = "left"] \/ conn' = [conn EXCEPT ![e] = "dropped"]
  BY DEF Leave, Drop, server
<1>3. /\ ~ Open(e)' /\ conn[e] = "open" /\ inbox'[e] = <<>>
      /\ \A x \in Ends \ {e} : conn'[x] = conn[x] /\ inbox'[x] = inbox[x]
  BY <1>1, <1>2 DEF Open
<1>4. CASE Leave(e)
  <2>1. frames' = [frames EXCEPT ![e] = Append(@, f)]
    BY <1>3, <1>4 DEF Leave, Emit
  <2>2. Range(Append(frames[e], f)) = Range(frames[e]) \cup {f}
    BY <1>1, AppendFacts
  <2> HIDE DEF f
  <2>3. /\ \A x \in Ends \ {e} : frames'[x] = frames[x]
        /\ \A m \in Range(frames'[e]) : m \in Range(frames[e]) \/ m.type = "leave_room"
    BY <1>1, <2>1, <2>2
  <2>4. /\ \A x \in Ends, j \in Epochs :
             /\ HasApplied(ctx, x, j) => HasApplied(ctx', x, j)
             /\ Reported(x, j)' <=> Reported(x, j)
        /\ pairs'[e] = 0 /\ ~ Requested(e)'
        /\ \A x \in Ends \ {e} : pairs'[x] = pairs[x] /\ view'[x] = view[x]
    BY <1>1, <1>4, CloseReports DEF Leave
  <2>5. \A x \in Ends \ {e} :
          /\ conn'[x] = conn[x] /\ inbox'[x] = inbox[x] /\ frames'[x] = frames[x]
          /\ pairs'[x] = pairs[x] /\ view'[x] = view[x]
    BY <1>3, <2>3, <2>4
  <2>6. UNCHANGED <<room, sends>> /\ ~ Open(e)' /\ conn[e] = "open" /\ inbox'[e] = <<>>
    BY <1>2, <1>3
  <2> QED
    BY <2>3, <2>4, <2>5, <2>6, GoneCarries
<1>5. CASE Drop(e)
  <2>1. /\ UNCHANGED <<ctx, pairs, view>>
        /\ \E n \in 0..Len(frames[e]) :
             frames' = [frames EXCEPT ![e] = Append(SubSeq(@, 1, n), f)]
    BY <1>5 DEF Drop
  <2> HIDE DEF f
  <2>2. PICK n \in 0..Len(frames[e]) :
          frames' = [frames EXCEPT ![e] = Append(SubSeq(@, 1, n), f)]
    BY <2>1
  <2>3. Range(Append(SubSeq(frames[e], 1, n), f)) \subseteq Range(frames[e]) \cup {f}
    BY <1>1, PrefixFacts
  <2>4. /\ \A x \in Ends \ {e} : frames'[x] = frames[x]
        /\ \A m \in Range(frames'[e]) : m \in Range(frames[e]) \/ m.type = "leave_room"
    BY <1>1, <2>2, <2>3
  <2>5. \A x \in Ends, j \in Epochs :
          /\ HasApplied(ctx, x, j) => HasApplied(ctx', x, j)
          /\ Reported(x, j)' <=> Reported(x, j)
    BY <2>1 DEF HasApplied, Reported
  <2>6. \A x \in Ends : pairs'[x] = pairs[x] /\ view'[x] = view[x]
    BY <2>1
  <2>7. \A x \in Ends \ {e} :
          /\ conn'[x] = conn[x] /\ inbox'[x] = inbox[x] /\ frames'[x] = frames[x]
          /\ pairs'[x] = pairs[x] /\ view'[x] = view[x]
    BY <1>3, <2>4, <2>6
  <2>8. \/ pairs'[e] = pairs[e] /\ view'[e] = view[e]
        \/ pairs'[e] = 0 /\ ~ Requested(e)'
    BY <2>6
  <2>9. UNCHANGED <<room, sends>> /\ ~ Open(e)' /\ conn[e] = "open" /\ inbox'[e] = <<>>
    BY <1>2, <1>3
  <2> QED
    BY <2>4, <2>5, <2>7, <2>8, <2>9, GoneCarries
<1> QED
  BY <1>4, <1>5

-----------------------------------------------------------------------------
(* What arrives is heeded. *)

\* The message handled is the only one that goes.
LEMMA ReceivedFrom ==
  ASSUME IInv, NEW e \in Ends, Receive(e)
  PROVE  /\ \A x \in Ends : Arriving(x)' \subseteq Arriving(x)
         /\ \A x \in Ends \ {e} : Arriving(x)' = Arriving(x)
         /\ \A m \in Arriving(e) : m \in Arriving(e)' \/ m = Head(inbox[e])
         /\ Head(inbox[e]) \in Arriving(e) /\ Head(inbox[e]) \in Downward
<1>1. /\ inbox \in [Ends -> Seq(Downward)] /\ inbox[e] # <<>> /\ UNCHANGED sends
      /\ inbox' = [inbox EXCEPT ![e] = Tail(@)]
  BY DEF IInv, MessagesOK, Receive, server
<1>2. /\ Range(inbox[e]) = {Head(inbox[e])} \cup Range(Tail(inbox[e]))
      /\ Head(inbox[e]) \in Downward
  BY <1>1, HeadOrTail, HeadFacts
<1>3. inbox'[e] = Tail(inbox[e]) /\ \A x \in Ends \ {e} : inbox'[x] = inbox[x]
  BY <1>1
<1>4. \A x \in Ends : Range(inbox'[x]) \subseteq Range(inbox[x])
  BY <1>2, <1>3
<1> QED
  BY <1>1, <1>2, <1>3, <1>4 DEF Arriving

LEMMA ReceiptCarries ==
  ASSUME OwedInv, NEW e \in Ends, Receive(e), \A x \in Ends : EndCarries(x),
         NEW m, m = Head(inbox[e]),
         Open(e) /\ m = Refusal => ~ Requested(e)',
         m = Rebuild => pairs'[e] \in {0, Epoch},
         \A k \in Epochs : m = Failure(k) => pairs'[e] # k \/ Reported(e, k)'
  PROVE  Carries
<1>1. IInv /\ UNCHANGED <<room, conn, frames>>
  BY DEF OwedInv, Receive, server
<1>2. \A x \in Ends : FramesCarry(x) /\ RoomCarries(x)
  BY <1>1, FramesLeft, RoomKept
<1>3. ASSUME NEW x \in Ends PROVE ArrivalsCarry(x)
  <2>1. CASE x = e
    <3>1. /\ Arriving(e)' \subseteq Arriving(e)
          /\ \A a \in Arriving(e) : a \in Arriving(e)' \/ a = m
      BY <1>1, ReceivedFrom
    <3>2. Open(e)' => Open(e)
      BY <1>1 DEF Open
    <3> QED
      BY <2>1, <3>1, <3>2 DEF ArrivalsCarry
  <2>2. CASE x # e
    <3>1. Arriving(x)' = Arriving(x)
      BY <1>1, <2>2, ReceivedFrom
    <3> QED
      BY <3>1, ArrivalsKept
  <2> QED
    BY <2>1, <2>2
<1> QED
  BY <1>2, <1>3 DEF Carries

\* The kinds of messages differ in their types.
LEMMA TypesDiffer ==
  ASSUME NEW m
  PROVE  /\ m = Refusal => m.type = "error"
         /\ m = Rebuild => m.type = "pair_reconnect_instruction" /\ m.epoch = Epoch
         /\ \A k \in Epochs : m = Failure(k) => m.type = "pair_failed" /\ m.epoch = k
BY DEF Refusal, Rebuild, Failure, Frame

\* A description or a candidate is nothing that is owed here.
LEMMA TrickleCarries ==
  ASSUME OwedInv, NEW e \in Ends, Receive(e),
         \/ HandlePairOffer(e, Head(inbox[e])) \/ HandlePairAnswer(e, Head(inbox[e]))
         \/ HandlePairIceCandidate(e, Head(inbox[e]))
  PROVE  Carries
<1> DEFINE m == Head(inbox[e])
           c == ctx[e][pairs[e]]
<1>1. /\ IInv /\ UNCHANGED <<conn, pairs, view>>
      /\ m.type \in {"pair_offer", "pair_answer", "pair_ice_candidate"}
  BY DEF OwedInv, Receive, HandlePairOffer, HandlePairAnswer, HandlePairIceCandidate
<1>2. m # Refusal /\ m # Rebuild /\ \A k \in Epochs : m # Failure(k)
  BY <1>1, TypesDiffer
<1>3. \A x \in Ends, j \in Epochs :
        /\ HasApplied(ctx, x, j) => HasApplied(ctx', x, j)
        /\ Reported(x, j)' <=> Reported(x, j)
  <2>1. CASE ctx' = ctx
    BY <2>1 DEF HasApplied, Reported
  <2>2. CASE Current(e, m)
    <3>1. /\ pairs[e] \in Epochs /\ c \in PairContext
          /\ ctx \in [Ends -> [Epochs -> PairContext]]
      BY <1>1, <2>2, InTheMap DEF Current, IInv, TypeOK
    <3> DEFINE d1 == [c EXCEPT !.state = "have-remote-offer", !.await = "setRemoteOffer"]
               d2 == [c EXCEPT !.state = "have-remote-answer",
                               !.await = "setRemoteAnswer"]
               d3 == [c EXCEPT !.added = Append(@, m.candidate)]
               d4 == [c EXCEPT !.iceBuffer = Append(@, m.candidate)]
    <3>2. PICK d \in {d1, d2, d3, d4} : ctx' = [ctx EXCEPT ![e][pairs[e]] = d]
      <4>1. CASE HandlePairOffer(e, m)
        <5>1. ctx' = [ctx EXCEPT ![e][pairs[e]] = d1]
          BY <2>2, <3>1, <4>1 DEF HandlePairOffer
        <5> QED
          BY <5>1
      <4>2. CASE HandlePairAnswer(e, m)
        <5>1. ctx' = [ctx EXCEPT ![e][pairs[e]] = d2]
          BY <2>2, <3>1, <4>2 DEF HandlePairAnswer
        <5> QED
          BY <5>1
      <4>3. CASE HandlePairIceCandidate(e, m)
        <5>1. \/ ctx' = [ctx EXCEPT ![e][pairs[e]] = d3]
              \/ ctx' = [ctx EXCEPT ![e][pairs[e]] = d4]
          BY <2>2, <3>1, <4>3 DEF HandlePairIceCandidate
        <5> QED
          BY <5>1
      <4> QED
        BY <4>1, <4>2, <4>3
    <3>3. /\ d.failedReported = c.failedReported
          /\ HasApplied(ctx, e, pairs[e]) => d.remoteDescriptionApplied
      BY <3>1 DEF PairContext, HasApplied
    <3> HIDE DEF d1, d2, d3, d4
    <3> QED
      BY <1>1, <3>1, <3>2, <3>3, PatchReports
  <2>3. Current(e, m) \/ ctx' = ctx
    BY DEF HandlePairOffer, HandlePairAnswer, HandlePairIceCandidate
  <2> QED
    BY <2>1, <2>2, <2>3
<1>4. ASSUME NEW x \in Ends PROVE EndCarries(x)
  <2>1. (Open(x)' => Open(x)) /\ (Requested(x)' => Requested(x)) /\ pairs'[x] = pairs[x]
    BY <1>1 DEF Open, Requested
  <2> QED
    BY <1>3, <2>1, EndKept
<1> HIDE DEF m
<1> QED
  BY <1>2, <1>4, ReceiptCarries DEF m

\* A failure is noted, if it is of the attempt in the map.
LEMMA FailedCarries ==
  ASSUME OwedInv, NEW e \in Ends, Receive(e), HandlePairFailed(e, Head(inbox[e]))
  PROVE  Carries
<1> DEFINE m == Head(inbox[e])
<1>1. /\ IInv /\ UNCHANGED <<conn, pairs>> /\ m.type = "pair_failed" /\ view \in Views
      /\ m \in Downward /\ m \in Arriving(e)
      /\ Other(e) \in Ends /\ Other(Other(e)) = e
  <2>1. /\ IInv /\ UNCHANGED <<conn, pairs>> /\ m.type = "pair_failed" /\ view \in Views
    BY DEF OwedInv, Receive, HandlePairFailed, IInv, TypeOK, Views
  <2>2. m \in Downward /\ m \in Arriving(e)
    BY <2>1, ReceivedFrom
  <2>3. Other(e) \in Ends /\ Other(Other(e)) = e
    BY DEF Other, Ends
  <2> QED
    BY <2>1, <2>2, <2>3
<1>2. m = Failure(m.epoch) /\ m.epoch \in Epochs
  BY <1>1 DEF Downward, Instruction, Failure, Frame
<1>3. HasApplied(ctx, Answerer, m.epoch) /\ Reported(Other(e), m.epoch)
  BY <1>1, <1>2 DEF OwedInv, FailureKnown
<1>4. \A x \in Ends : Requested(x)' <=> Requested(x)
  <2>1. view' = view \/ view' = [view EXCEPT ![e].failed = TRUE]
    BY DEF HandlePairFailed
  <2> QED
    BY <1>1, <2>1 DEF Requested, Views
<1>5. CASE Current(e, m)
  <2>1. PICK k \in Epochs :
          /\ k = pairs[e] /\ k = m.epoch /\ ctx[e][k] \in PairContext
          /\ ctx \in [Ends -> [Epochs -> PairContext]]
    BY <1>1, <1>5, InTheMap DEF Current, IInv, TypeOK
  <2> DEFINE c == ctx[e][k]
             d == [c EXCEPT !.state = "failed", !.failedReported = TRUE]
  <2>2. ctx' = [ctx EXCEPT ![e][k] = d]
    <3>1. pairs[e] \in Epochs
      BY <2>1
    <3>2. ctx' = [ctx EXCEPT ![e][pairs[e]] =
                    [ctx[e][pairs[e]] EXCEPT !.state = "failed", !.failedReported = TRUE]]
      BY <1>5, <2>1, <3>1 DEF HandlePairFailed
    <3> QED
      BY <2>1, <3>2
  <2>3. /\ d.failedReported
        /\ d.remoteDescriptionApplied = c.remoteDescriptionApplied
    BY <2>1 DEF PairContext
  <2> HIDE DEF d
  <2>4. /\ Reported(e, k)' /\ (HasApplied(ctx, e, k) => HasApplied(ctx', e, k))
        /\ \A x \in Ends, j \in Epochs : ~ (x = e /\ j = k) => ctx'[x][j] = ctx[x][j]
    BY <2>1, <2>2, <2>3 DEF Reported, HasApplied
  <2>5. \A x \in Ends, j \in Epochs :
          /\ HasApplied(ctx, x, j) => HasApplied(ctx', x, j)
          /\ Reported(x, j) => Reported(x, j)'
          /\ Reported(x, j)' /\ ~ Reported(x, j) => x = e /\ j = k
    <3> TAKE x \in Ends, j \in Epochs
    <3>1. CASE x = e /\ j = k
      BY <2>4, <3>1
    <3>2. CASE ~ (x = e /\ j = k)
      BY <2>4, <3>2 DEF HasApplied, Reported
    <3> QED
      BY <3>1, <3>2
  <2>6. Reported(Other(e), k)'
    BY <1>1, <1>3, <2>1, <2>5
  <2>7. ASSUME NEW x \in Ends PROVE EndCarries(x)
    <3>1. (Open(x)' => Open(x)) /\ pairs'[x] = pairs[x]
      BY <1>1 DEF Open
    <3> HIDE DEF c, m
    <3> QED
      BY <1>3, <1>4, <2>1, <2>5, <2>6, <3>1 DEF EndCarries
  <2>8. /\ m # Refusal /\ m # Rebuild
        /\ \A j \in Epochs : m = Failure(j) => Reported(e, j)'
    BY <1>1, <2>1, <2>4, TypesDiffer
  <2> HIDE DEF m
  <2> QED
    BY <2>7, <2>8, ReceiptCarries DEF m
<1>6. CASE ~ Current(e, m)
  <2>1. ctx' = ctx
    BY <1>6 DEF HandlePairFailed
  <2>2. ASSUME NEW x \in Ends PROVE EndCarries(x)
    <3>1. (Open(x)' => Open(x)) /\ pairs'[x] = pairs[x]
      BY <1>1 DEF Open
    <3>2. \A j \in Epochs : /\ HasApplied(ctx, x, j) => HasApplied(ctx', x, j)
                            /\ Reported(x, j)' <=> Reported(x, j)
      BY <2>1 DEF HasApplied, Reported
    <3> QED
      BY <1>4, <3>1, <3>2, EndKept
  <2>3. /\ m # Refusal /\ m # Rebuild
        /\ \A j \in Epochs : m = Failure(j) => pairs'[e] # j
    <3>1. \A j \in Epochs : j # 0
      BY DEF Epochs
    <3> QED
      BY <1>1, <1>6, <3>1, TypesDiffer DEF Current
  <2> HIDE DEF m
  <2> QED
    BY <2>2, <2>3, ReceiptCarries DEF m
<1> QED
  BY <1>5, <1>6

\* An error clears the request: there is one only for a pair in the map.
LEMMA ErrorCarries ==
  ASSUME OwedInv, NEW e \in Ends, Receive(e),
         ClearReconnectRequested(e, Head(inbox[e]))
  PROVE  Carries
<1> DEFINE m == Head(inbox[e])
<1>1. /\ IInv /\ UNCHANGED <<conn, pairs>> /\ m.type = "error" /\ view \in Views
  BY DEF OwedInv, Receive, ClearReconnectRequested, IInv, TypeOK, Views
<1>2. m # Rebuild /\ \A k \in Epochs : m # Failure(k)
  BY <1>1, TypesDiffer
<1>3. /\ \A x \in Ends : Requested(x)' => Requested(x)
      /\ Open(e) => ~ Requested(e)'
  <2>1. CASE pairs[e] = 0
    <3>1. view' = view
      BY <2>1 DEF ClearReconnectRequested
    <3>2. Requested(e) /\ Open(e) => pairs[e] # 0
      BY DEF OwedInv, RequestUnderWay
    <3> QED
      BY <2>1, <3>1, <3>2 DEF Requested
  <2>2. CASE pairs[e] # 0
    <3>1. view' = [view EXCEPT ![e].reconnectRequested = FALSE]
      BY <2>2 DEF ClearReconnectRequested
    <3> QED
      BY <1>1, <3>1 DEF Requested, Views
  <2> QED
    BY <2>1, <2>2
<1>4. \A x \in Ends, j \in Epochs :
        /\ HasApplied(ctx, x, j) => HasApplied(ctx', x, j)
        /\ Reported(x, j)' <=> Reported(x, j)
  <2>1. CASE pairs[e] = 0
    <3>1. ctx' = ctx
      BY <2>1 DEF ClearReconnectRequested
    <3> QED
      BY <3>1 DEF HasApplied, Reported
  <2>2. CASE pairs[e] # 0
    <3> DEFINE c == ctx[e][pairs[e]]
               d == [c EXCEPT !.reconnectRequested = FALSE]
    <3>1. /\ pairs[e] \in Epochs /\ c \in PairContext
          /\ ctx \in [Ends -> [Epochs -> PairContext]]
      BY <1>1, <2>2, InTheMap DEF IInv, TypeOK
    <3>2. ctx' = [ctx EXCEPT ![e][pairs[e]] = d]
      BY <2>2, <3>1 DEF ClearReconnectRequested
    <3>3. /\ d.failedReported = c.failedReported
          /\ HasApplied(ctx, e, pairs[e]) => d.remoteDescriptionApplied
      BY <3>1 DEF PairContext, HasApplied
    <3> HIDE DEF d
    <3> QED
      BY <1>1, <3>1, <3>2, <3>3, PatchReports
  <2> QED
    BY <2>1, <2>2
<1>5. ASSUME NEW x \in Ends PROVE EndCarries(x)
  <2>1. (Open(x)' => Open(x)) /\ pairs'[x] = pairs[x]
    BY <1>1 DEF Open
  <2> QED
    BY <1>3, <1>4, <2>1, EndKept
<1> HIDE DEF m
<1> QED
  BY <1>2, <1>3, <1>5, ReceiptCarries DEF m

\* With the pair, what it was owed is given up.
LEMMA LeftCarries ==
  ASSUME OwedInv, NEW e \in Ends, Receive(e), HandleLeft(e, Head(inbox[e]))
  PROVE  Carries
<1> DEFINE m == Head(inbox[e])
<1>1. IInv /\ UNCHANGED conn /\ m.type = "left" /\ ClosePair(e)
  BY DEF OwedInv, Receive, HandleLeft
<1>2. m # Refusal /\ m # Rebuild /\ \A k \in Epochs : m # Failure(k)
  BY <1>1, TypesDiffer
<1>3. /\ \A x \in Ends, j \in Epochs :
           /\ HasApplied(ctx, x, j) => HasApplied(ctx', x, j)
           /\ Reported(x, j)' <=> Reported(x, j)
      /\ pairs'[e] = 0 /\ ~ Requested(e)'
      /\ \A x \in Ends \ {e} : pairs'[x] = pairs[x] /\ view'[x] = view[x]
  BY <1>1, CloseReports
<1>4. ASSUME NEW x \in Ends PROVE EndCarries(x)
  <2>1. Open(x)' => Open(x)
    BY <1>1 DEF Open
  <2>2. CASE x = e
    BY <1>3, <2>1, <2>2 DEF EndCarries
  <2>3. CASE x # e
    <3>1. (Requested(x)' => Requested(x)) /\ pairs'[x] = pairs[x]
      BY <1>3, <2>3 DEF Requested
    <3> QED
      BY <1>3, <2>1, <3>1, EndKept
  <2> QED
    BY <2>2, <2>3
<1> HIDE DEF m
<1> QED
  BY <1>2, <1>4, ReceiptCarries DEF m

\* An instruction begins the attempt, or the end is in it.
LEMMA InstructionCarries ==
  ASSUME OwedInv, NEW e \in Ends, Receive(e),
         \/ HandleNegotiationInstruction(e, Head(inbox[e]))
         \/ HandleReconnectInstruction(e, Head(inbox[e]))
  PROVE  Carries
<1> DEFINE m == Head(inbox[e])
<1>1. /\ IInv /\ UNCHANGED <<room, conn>> /\ view \in Views
      /\ m.type \in {"pair_negotiation_instruction", "pair_reconnect_instruction"}
  BY DEF OwedInv, Receive, server, HandleNegotiationInstruction,
         HandleReconnectInstruction, IInv, TypeOK, Views
<1>2. m # Refusal /\ \A k \in Epochs : m # Failure(k)
  BY <1>1, TypesDiffer
<1>3. Epoch' = Epoch
  BY <1>1 DEF Epoch
<1>4. CASE UNCHANGED <<ctx, pairs, view>>
  <2>1. ASSUME NEW x \in Ends PROVE EndCarries(x)
    <3>1. /\ (Open(x)' => Open(x)) /\ (Requested(x)' => Requested(x))
          /\ pairs'[x] = pairs[x]
      BY <1>1, <1>4 DEF Open, Requested
    <3>2. \A j \in Epochs : /\ HasApplied(ctx, x, j) => HasApplied(ctx', x, j)
                            /\ Reported(x, j)' <=> Reported(x, j)
      BY <1>4 DEF HasApplied, Reported
    <3> QED
      BY <3>1, <3>2, EndKept
  <2>2. m = Rebuild => pairs'[e] \in {0, Epoch}
    <3> SUFFICES ASSUME m = Rebuild, pairs[e] # 0 PROVE pairs[e] = Epoch
      BY <1>4
    <3>1. m.type = "pair_reconnect_instruction" /\ m.epoch = Epoch
      BY TypesDiffer
    <3>2. HandleReconnectInstruction(e, m)
      BY <3>1 DEF HandleNegotiationInstruction
    <3>3. pairs[e] \in Epochs /\ pairs[e] <= Epoch /\ Epoch \in Epochs
      BY <1>1, InTheMap, LiveFacts DEF IInv, RoomOK
    <3>4. ~ (Epoch > pairs[e])
      <4>1. CASE Epoch > pairs[e]
        <5>1. pairs' = [pairs EXCEPT ![e] = Epoch] /\ pairs \in [Ends -> 0..MaxEpoch]
          BY <1>1, <3>1, <3>2, <4>1 DEF HandleReconnectInstruction, IInv, TypeOK
        <5>2. pairs[e] = Epoch
          BY <1>4, <5>1
        <5> QED
          BY <3>3, <4>1, <5>2 DEF Epochs
      <4> QED
        BY <4>1
    <3> QED
      BY <3>3, <3>4 DEF Epochs
  <2> HIDE DEF m
  <2> QED
    BY <1>2, <2>1, <2>2, ReceiptCarries DEF m
<1>5. CASE Begins(e) /\ ~ UNCHANGED <<ctx, pairs, view>>
  <2>1. /\ \A x \in Ends \ {e} : ctx'[x] = ctx[x] /\ pairs'[x] = pairs[x]
        /\ pairs'[e] = Epoch /\ ~ HasBegun(ctx, e, Epoch)
        /\ \A j \in Epochs : ctx'[e][j] =
             IF j = Epoch THEN NewContext(e)
             ELSE IF j = pairs[e] THEN Closed(ctx[e][j]) ELSE ctx[e][j]
    BY <1>1, <1>5 DEF Begins, IInv, TypeOK
  <2>2. ~ Requested(e)' /\ \A x \in Ends \ {e} : view'[x] = view[x]
    <3>1. \E n \in Epochs : view' = [view EXCEPT ![e] = [NoView EXCEPT !.epoch = n]]
      <4>1. m \in Downward
        BY <1>1, ReceivedFrom
      <4>2. m.epoch \in Epochs
        BY <1>1, <4>1 DEF Downward, Instruction
      <4>3. view' = [view EXCEPT ![e] = [NoView EXCEPT !.epoch = m.epoch]]
        BY <1>5 DEF HandleNegotiationInstruction, HandleReconnectInstruction, Allocate
      <4> QED
        BY <4>2, <4>3
    <3> QED
      BY <1>1, <3>1 DEF Views, NoView, Requested
  <2>3. ASSUME NEW j \in Epochs
        PROVE  /\ HasApplied(ctx, e, j) => HasApplied(ctx', e, j)
               /\ Reported(e, j)' <=> Reported(e, j)
    <3>1. ctx[e][j] \in PairContext /\ ContextOK(e, j)
      BY <1>1 DEF IInv, TypeOK, ContextsOK
    <3>2. CASE j = Epoch
      <4>1. ctx[e][j] = NoContext
        BY <2>1, <3>1, <3>2 DEF HasBegun, ContextOK
      <4>2. /\ ~ NoContext.failedReported /\ ~ NoContext.remoteDescriptionApplied
            /\ ~ NewContext(e).failedReported
        BY DEF NewContext, NoContext
      <4> QED
        BY <2>1, <3>2, <4>1, <4>2 DEF HasApplied, Reported
    <3>3. CASE j # Epoch
      <4>1. ctx'[e][j] \in {ctx[e][j], Closed(ctx[e][j])}
        BY <2>1, <3>3
      <4>2. /\ Closed(ctx[e][j]).remoteDescriptionApplied =
                 ctx[e][j].remoteDescriptionApplied
            /\ Closed(ctx[e][j]).failedReported = ctx[e][j].failedReported
        BY <3>1 DEF Closed, PairContext
      <4>3. /\ ctx'[e][j].remoteDescriptionApplied = ctx[e][j].remoteDescriptionApplied
            /\ ctx'[e][j].failedReported = ctx[e][j].failedReported
        BY <4>1, <4>2
      <4> QED
        BY <4>3 DEF HasApplied, Reported
    <3> QED
      BY <3>2, <3>3
  <2>4. ASSUME NEW x \in Ends PROVE EndCarries(x)
    <3>1. Open(x)' => Open(x)
      BY <1>1 DEF Open
    <3>2. CASE x = e
      BY <1>3, <2>1, <2>2, <2>3, <3>1, <3>2 DEF EndCarries
    <3>3. CASE x # e
      <4>1. (Requested(x)' => Requested(x)) /\ pairs'[x] = pairs[x]
        BY <2>1, <2>2, <3>3 DEF Requested
      <4>2. \A j \in Epochs : /\ HasApplied(ctx, x, j) => HasApplied(ctx', x, j)
                              /\ Reported(x, j)' <=> Reported(x, j)
        BY <2>1, <3>3 DEF HasApplied, Reported
      <4> QED
        BY <3>1, <4>1, <4>2, EndKept
    <3> QED
      BY <3>2, <3>3
  <2> HIDE DEF m
  <2> QED
    BY <1>2, <2>1, <2>4, ReceiptCarries DEF m
<1> QED
  BY <1>1, <1>4, <1>5, InstructionStep

LEMMA ReceiveCarries ==
  ASSUME OwedInv, NEW e \in Ends, Receive(e)
  PROVE  Carries
BY InstructionCarries, TrickleCarries, FailedCarries, ErrorCarries, LeftCarries DEF Receive

-----------------------------------------------------------------------------
(* The server answers, passes on and sends. *)

\* A send gets where it goes, if that end has a connection.
LEMMA SendCarries ==
  ASSUME OwedInv, NEW e \in Ends, Send(e)
  PROVE  Carries
<1> DEFINE s == Head(sends[e])
<1>1. /\ IInv /\ sends[e] # <<>> /\ sends' = [sends EXCEPT ![e] = Tail(@)]
      /\ inbox' = IF conn[s.to] = "open" THEN [inbox EXCEPT ![s.to] = Append(@, s.msg)]
                  ELSE inbox
      /\ UNCHANGED <<room, conn, frames, ctx, pairs, view>>
      /\ sends \in [Ends -> Seq(Delivery)] /\ inbox \in [Ends -> Seq(Downward)]
  BY DEF OwedInv, IInv, MessagesOK, Send
<1>2. s \in Delivery /\ Range(sends[e]) = {s} \cup Range(Tail(sends[e]))
  BY <1>1, HeadOrTail, HeadFacts
<1> HIDE DEF s
<1>3. s.to \in Ends /\ s.msg \in Downward /\ s = To(s.to, s.msg)
  BY <1>2 DEF Delivery, To
<1>4. /\ \A x \in Ends \ {e} : sends'[x] = sends[x]
      /\ sends'[e] = Tail(sends[e])
  BY <1>1
<1>5. /\ \A x \in Ends : Range(sends'[x]) \subseteq Range(sends[x])
      /\ \A x \in Ends : \A d \in Range(sends[x]) : d \in Range(sends'[x]) \/ d = s
      /\ s \in Range(sends[e])
  BY <1>2, <1>4
<1>6. Range(Append(inbox[s.to], s.msg)) = Range(inbox[s.to]) \cup {s.msg}
  BY <1>1, <1>3, AppendFacts
<1>7. /\ \A x \in Ends \ {s.to} : inbox'[x] = inbox[x]
      /\ conn[s.to] = "open" => Range(inbox'[s.to]) = Range(inbox[s.to]) \cup {s.msg}
      /\ conn[s.to] # "open" => inbox'[s.to] = inbox[s.to]
  BY <1>1, <1>3, <1>6
<1>8. ASSUME NEW x \in Ends PROVE ArrivalsCarry(x)
  <2>1. ASSUME NEW m \in Downward, NEW y \in Ends, To(x, m) \in Range(sends[y]), Open(x)
        PROVE  m \in Arriving(x)'
    <3>1. CASE To(x, m) = s
      <4>1. x = s.to /\ m = s.msg
        BY <3>1 DEF To
      <4> QED
        BY <1>7, <2>1, <4>1 DEF Arriving, Open
    <3>2. CASE To(x, m) # s
      BY <1>5, <2>1, <3>2 DEF Arriving
    <3> QED
      BY <3>1, <3>2
  <2>2. \A m \in Range(inbox[x]) : m \in Range(inbox'[x])
    BY <1>7
  <2>3. Open(x)' => Arriving(x) \subseteq Arriving(x)'
    BY <1>1, <2>1, <2>2 DEF Arriving, Open
  <2>4. Arriving(x)' \subseteq Arriving(x)
    <3>1. \A m \in Range(inbox'[x]) : \/ m \in Range(inbox[x])
                                      \/ x = s.to /\ m = s.msg
      BY <1>7
    <3>2. x = s.to => s.msg \in Arriving(x)
      BY <1>3, <1>5 DEF Arriving
    <3> QED
      BY <1>5, <3>1, <3>2 DEF Arriving
  <2> QED
    BY <2>3, <2>4, ArrivalsKept
<1>9. ASSUME NEW x \in Ends PROVE EndCarries(x) /\ FramesCarry(x) /\ RoomCarries(x)
  <2>1. (Open(x)' => Open(x)) /\ (Requested(x)' => Requested(x)) /\ pairs'[x] = pairs[x]
    BY <1>1 DEF Open, Requested
  <2>2. \A j \in Epochs : /\ HasApplied(ctx, x, j) => HasApplied(ctx', x, j)
                          /\ Reported(x, j)' <=> Reported(x, j)
    BY <1>1 DEF HasApplied, Reported
  <2>3. EndCarries(x)
    BY <2>1, <2>2, EndKept
  <2> QED
    BY <1>1, <2>3, FramesLeft, RoomKept
<1> QED
  BY <1>8, <1>9 DEF Carries

\* A frame that is read is answered, or passed on.
LEMMA ReadCarries ==
  ASSUME OwedInv, NEW e \in Ends, Reads(e), NEW f, f = Head(frames[e]),
         \A x \in Ends : RoomCarries(x),
         \A k \in Epochs : f = Request(k) /\ Open(e) =>
           To(e, Refusal) \in Range(sends'[e]) \/ k < Epoch',
         \A k \in Epochs : f = Failure(k) =>
           \/ k < Epoch'
           \/ Open(Other(e)) => To(Other(e), Failure(k)) \in Range(sends'[e]),
         \A x \in Ends, k \in Epochs :
           To(x, Failure(k)) \in Range(sends'[e]) => x = Other(e) /\ f = Failure(k)
  PROVE  Carries
<1>1. /\ IInv /\ frames \in [Ends -> Seq(Upward)] /\ frames[e] # <<>>
      /\ frames' = [frames EXCEPT ![e] = Tail(@)]
      /\ UNCHANGED <<conn, inbox, ctx, pairs, view>>
      /\ sends[e] = <<>> /\ \A x \in Ends \ {e} : sends'[x] = sends[x]
  BY DEF OwedInv, IInv, MessagesOK, Reads
<1>2. /\ Range(frames[e]) = {f} \cup Range(frames'[e])
      /\ \A x \in Ends \ {e} : frames'[x] = frames[x]
  BY <1>1, HeadOrTail
<1>3. \A x \in Ends : /\ Arriving(x) \subseteq Arriving(x)'
                      /\ \A m \in Arriving(x)' :
                           m \in Arriving(x) \/ To(x, m) \in Range(sends'[e])
  <2>1. Range(<<>>) = {}
    BY DEF Range
  <2> QED
    BY <1>1, <2>1 DEF Arriving
<1>4. \A m \in Downward, x \in Ends : To(x, m) \in Range(sends'[e]) => m \in Arriving(x)'
  BY DEF Arriving
<1>5. /\ Refusal \in Downward /\ \A k \in Epochs : Failure(k) \in Downward
      /\ Other(e) \in Ends /\ Other(Other(e)) = e
      /\ \A x \in Ends : Other(x) = e => x = Other(e)
  BY <1>1, MessageFacts DEF Other, Ends
<1>6. \A x \in Ends : Open(x)' <=> Open(x)
  BY <1>1 DEF Open
<1>7. ASSUME NEW x \in Ends PROVE EndCarries(x)
  <2>1. (Open(x)' => Open(x)) /\ (Requested(x)' => Requested(x)) /\ pairs'[x] = pairs[x]
    BY <1>1 DEF Open, Requested
  <2>2. \A j \in Epochs : /\ HasApplied(ctx, x, j) => HasApplied(ctx', x, j)
                          /\ Reported(x, j)' <=> Reported(x, j)
    BY <1>1 DEF HasApplied, Reported
  <2> QED
    BY <2>1, <2>2, EndKept
<1>8. ASSUME NEW x \in Ends PROVE FramesCarry(x)
  <2>1. CASE x # e
    BY <1>2, <2>1, FramesLeft
  <2>2. CASE x = e
    <3>1. ASSUME Open(e), NEW k \in Epochs, Request(k) \in Range(frames[e])
          PROVE  \/ Request(k) \in Range(frames'[e]) \/ Refusal \in Arriving(e)'
                 \/ k < Epoch'
      BY <1>2, <1>4, <1>5, <3>1
    <3>2. ASSUME NEW k \in Epochs, Failure(k) \in Range(frames[e])
          PROVE  \/ Failure(k) \in Range(frames'[e]) \/ k < Epoch'
                 \/ Open(Other(e))' => Failure(k) \in Arriving(Other(e))'
      <4>1. CASE f = Failure(k)
        BY <1>4, <1>5, <1>6, <4>1
      <4>2. CASE f # Failure(k)
        BY <1>2, <3>2, <4>2
      <4> QED
        BY <4>1, <4>2
    <3>3. \A m \in Range(frames'[e]) : m \in Range(frames[e])
      BY <1>2
    <3> QED
      BY <1>6, <2>2, <3>1, <3>2, <3>3 DEF FramesCarry
  <2> QED
    BY <2>1, <2>2
<1>9. ASSUME NEW x \in Ends PROVE ArrivalsCarry(x)
  <2>1. ASSUME NEW k \in Epochs, Failure(k) \in Arriving(x)'
        PROVE  Failure(k) \in Arriving(x) \/ Failure(k) \in Range(frames[Other(x)])
    <3>1. CASE To(x, Failure(k)) \in Range(sends'[e])
      <4>1. x = Other(e) /\ f = Failure(k)
        BY <3>1
      <4> QED
        BY <1>2, <1>5, <4>1
    <3> QED
      BY <1>3, <2>1, <3>1
  <2>2. Arriving(x) \subseteq Arriving(x)'
    BY <1>3
  <2> QED
    BY <2>1, <2>2 DEF ArrivalsCarry
<1> QED
  BY <1>7, <1>8, <1>9 DEF Carries

\* The room's participants, but for one that is released.
LEMMA ParticipantsKept ==
  ASSUME NEW rm \in Room, NEW e \in Ends
  PROVE  /\ MarkFailed(rm, PairId).participants = rm.participants
         /\ Increment(rm, PairId).participants = rm.participants
         /\ Release(rm, e).participants = rm.participants \ {e}
BY DEF MarkFailed, Increment, Release, Room

LEMMA RelaySends ==
  ASSUME NEW e \in Ends, NEW f
  PROVE  /\ \A d \in Range(Relay(e, f)) : d = To(Other(e), f)
         /\ f.epoch = Epoch /\ Other(e) \in room.participants =>
              To(Other(e), f) \in Range(Relay(e, f))
<1> DEFINE d == To(Other(e), f)
<1>1. Range(<<d>>) = {d} /\ Range(<<>>) = {}
  BY DEF Range
<1> QED
  BY <1>1 DEF Relay

\* Two deliveries are the same only if they say the same to the same end.
LEMMA ToEach ==
  ASSUME NEW x, NEW y, NEW a, NEW b, To(x, a) = To(y, b)
  PROVE  x = y /\ a = b
BY DEF To

LEMMA RelayedCarries ==
  ASSUME OwedInv, NEW e \in Ends, Read(e), Reads(e),
         \/ ReadRelayed(e, Head(frames[e])) \/ ReadPairFailed(e, Head(frames[e]))
  PROVE  Carries
<1> DEFINE f == Head(frames[e])
<1>1. IInv /\ f \in Upward /\ Sound(ctx, e, f) /\ sends \in [Ends -> Seq(Delivery)]
  BY ReadFacts DEF OwedInv
<1>2. sends'[e] = Relay(e, f)
  BY <1>1 DEF ReadRelayed, ReadPairFailed
<1>3. /\ f.type \in {"pair_offer", "pair_answer", "pair_ice_candidate", "pair_failed"}
      /\ f.type = "pair_failed" => f = Failure(f.epoch)
      /\ \A k \in Epochs : /\ f # Request(k)
                           /\ f = Failure(k) => f.type = "pair_failed" /\ f.epoch = k
  BY <1>1 DEF ReadRelayed, ReadPairFailed, Failure, Request, Frame, Upward
<1>4. /\ room' = room \/ room' = MarkFailed(room, PairId)
      /\ room \in Room
  BY <1>1 DEF ReadRelayed, ReadPairFailed, IInv, RoomOK
<1>5. Epoch' = Epoch /\ room'.participants = room.participants
  BY <1>4, RoomFacts, ParticipantsKept DEF Epoch
<1>6. \A x \in Ends : RoomCarries(x)
  BY <1>5 DEF RoomCarries
<1>7. ASSUME NEW k \in Epochs, f = Failure(k), ~ (k < Epoch'), Open(Other(e))
      PROVE  To(Other(e), Failure(k)) \in Range(sends'[e])
  <2>1. HasApplied(ctx, Answerer, k)
    BY <1>1, <1>3, <1>7 DEF Sound
  <2>2. k <= Epoch /\ k \in Nat /\ Epoch \in Nat
    BY <1>1, <2>1, AppliedFacts DEF IInv, RoomOK, Epochs, Ends, Answerer
  <2>3. f.epoch = Epoch
    BY <1>3, <1>5, <1>7, <2>2
  <2>4. Other(e) \in room.participants
    <3>1. Other(e) \in Ends
      BY DEF Other, Ends
    <3> QED
      BY <1>7, <3>1 DEF OwedInv, Present
  <2> QED
    BY <1>2, <1>7, <2>3, <2>4, RelaySends
<1>8. ASSUME NEW x \in Ends, NEW k \in Epochs, To(x, Failure(k)) \in Range(sends'[e])
      PROVE  x = Other(e) /\ f = Failure(k)
  <2>1. To(x, Failure(k)) = To(Other(e), f)
    BY <1>2, <1>8, RelaySends
  <2> QED
    BY <2>1, ToEach
<1> HIDE DEF f
<1>9. /\ \A k \in Epochs : f # Request(k)
      /\ \A k \in Epochs : f = Failure(k) =>
           \/ k < Epoch'
           \/ Open(Other(e)) => To(Other(e), Failure(k)) \in Range(sends'[e])
  BY <1>3, <1>7
<1> QED
  BY <1>6, <1>8, <1>9, ReadCarries DEF f

LEMMA EndReadCarries ==
  ASSUME OwedInv, NEW e \in Ends, Read(e), Reads(e), ReadEnd(e, Head(frames[e]))
  PROVE  Carries
<1> DEFINE f == Head(frames[e])
           d == To(Other(e), Frame("left", 0))
<1>1. IInv /\ f.type = "leave_room" /\ sends \in [Ends -> Seq(Delivery)]
  BY ReadFacts DEF OwedInv, ReadEnd
<1>2. \A b \in Range(sends'[e]) : b = d
  <2>1. sends'[e] = <<d, d>> \/ sends'[e] = <<>>
    BY <1>1 DEF ReadEnd
  <2>2. Range(<<d, d>>) = {d} /\ Range(<<>>) = {}
    BY DEF Range
  <2> QED
    BY <2>1, <2>2
<1>3. room' = Release(room, e) /\ room \in Room
  BY <1>1 DEF ReadEnd, IInv, RoomOK
<1>4. Epoch' = Epoch /\ room'.participants = room.participants \ {e}
  BY <1>3, RoomFacts, ParticipantsKept DEF Epoch
<1>5. ~ Open(e) /\ ~ Open(e)'
  <2>1. f \in Range(frames[e])
    <3>1. frames[e] \in Seq(Upward) /\ frames[e] # <<>>
      BY <1>1 DEF IInv, MessagesOK, Reads
    <3> QED
      BY <3>1, HeadFacts
  <2>2. ~ Open(e)
    BY <1>1, <2>1 DEF OwedInv, Present
  <2> QED
    BY <2>2 DEF Reads, Open
<1>6. ASSUME NEW x \in Ends PROVE RoomCarries(x)
  BY <1>4, <1>5 DEF RoomCarries
<1>7. \A k \in Epochs : f # Request(k) /\ f # Failure(k)
  BY <1>1 DEF Request, Failure, Frame
<1>8. ASSUME NEW x \in Ends, NEW k \in Epochs, To(x, Failure(k)) \in Range(sends'[e])
      PROVE  FALSE
  <2>1. Failure(k) = Frame("left", 0)
    BY <1>2, <1>8, ToEach
  <2> QED
    BY <2>1 DEF Failure, Frame
<1> HIDE DEF f, d
<1> QED
  BY <1>6, <1>7, <1>8, ReadCarries DEF f

\* A request is refused, or a new attempt is on its way to both ends.
LEMMA RequestCarries ==
  ASSUME OwedInv, NEW e \in Ends, Read(e), Reads(e),
         ReadReconnectPair(e, Head(frames[e]))
  PROVE  Carries
<1> DEFINE f == Head(frames[e])
<1>1. /\ IInv /\ f.type = "reconnect_pair" /\ sends \in [Ends -> Seq(Delivery)]
      /\ room \in Room /\ Epoch \in Epochs
  BY ReadFacts DEF OwedInv, ReadReconnectPair, IInv, RoomOK
<1>2. \A k \in Epochs : f # Failure(k) /\ (f = Request(k) => f.epoch = k)
  BY <1>1 DEF Failure, Request, Frame
<1>3. CASE MayReconnect(f)
  <2> DEFINE m == Frame("pair_reconnect_instruction", Epoch + 1)
             a == To(Offerer, m)
             b == To(Answerer, m)
  <2>1. sends'[e] = <<a, b>> /\ room' = Increment(room, PairId) /\ f.epoch = Epoch
    BY <1>1, <1>3 DEF ReadReconnectPair, Instructions, MayReconnect
  <2>2. Range(<<a, b>>) = {a, b}
    BY DEF Range
  <2>3. /\ Epoch' = Epoch + 1 /\ room'.participants = room.participants
        /\ Epoch \in Nat /\ Rebuild' = m
    BY <1>1, <2>1, RoomFacts, ParticipantsKept DEF Epoch, Rebuild, Epochs
  <2>4. IInv'
    BY <1>1, <1>3, ReadGrantedStep
  <2>5. m \in Downward
    BY <2>3, <2>4 DEF IInv, RoomOK, m, Frame, Downward, Instruction
  <2>6. \A x \in Ends : m \in Arriving(x)'
    BY <2>1, <2>2, <2>5 DEF Arriving, Ends, Offerer, Answerer
  <2>7. m.type = "pair_reconnect_instruction"
    BY DEF Frame
  <2> HIDE DEF m
  <2>8. \A x \in Ends : RoomCarries(x)
    BY <2>3, <2>6 DEF RoomCarries
  <2>9. ASSUME NEW x \in Ends, NEW k \in Epochs, To(x, Failure(k)) \in Range(sends'[e])
        PROVE  FALSE
    <3>1. Failure(k) = m
      BY <2>1, <2>2, <2>9, ToEach
    <3> QED
      BY <2>7, <3>1 DEF Failure, Frame
  <2>10. \A k \in Epochs : f = Request(k) => k < Epoch'
    BY <1>2, <2>1, <2>3
  <2> HIDE DEF f
  <2> QED
    BY <1>2, <2>8, <2>9, <2>10, ReadCarries DEF f
<1>4. CASE ~ MayReconnect(f)
  <2> DEFINE d == To(e, Refusal)
  <2>1. sends'[e] = <<d>> /\ UNCHANGED room
    BY <1>1, <1>4 DEF ReadReconnectPair, Refuse, Refusal
  <2>2. Range(<<d>>) = {d}
    BY DEF Range
  <2>3. \A x \in Ends : RoomCarries(x)
    BY <2>1, RoomKept
  <2>4. ASSUME NEW x \in Ends, NEW k \in Epochs, To(x, Failure(k)) \in Range(sends'[e])
        PROVE  FALSE
    <3>1. Failure(k) = Refusal
      BY <2>1, <2>2, <2>4, ToEach
    <3> QED
      BY <3>1, TypesDiffer DEF Failure, Frame
  <2>5. To(e, Refusal) \in Range(sends'[e])
    BY <2>1, <2>2
  <2> HIDE DEF f, d
  <2> QED
    BY <1>2, <2>3, <2>4, <2>5, ReadCarries DEF f
<1> QED
  BY <1>3, <1>4

LEMMA ReadsCarry ==
  ASSUME OwedInv, NEW e \in Ends, Read(e)
  PROVE  Carries
<1>1. Reads(e)
  <2>1. /\ frames[e] # <<>> /\ frames' = [frames EXCEPT ![e] = Tail(@)]
        /\ UNCHANGED <<conn, inbox, ctx, pairs, view>> /\ sends[e] = <<>>
        /\ sends \in [Ends -> Seq(Delivery)]
    BY ReadFacts DEF OwedInv
  <2>2. /\ sends' \in [Ends -> Seq(Delivery)]
        /\ \A d \in Range(sends'[e]) : Sound(ctx, Other(d.to), d.msg)
    BY ReadStep, <2>1, Ranges DEF OwedInv, IInv, MessagesOK, MessagesSound
  <2>3. \A x \in Ends \ {e} : sends'[x] = sends[x]
    BY <2>1 DEF Read, ReadRelayed, ReadPairFailed, ReadReconnectPair, ReadEnd
  <2> QED
    BY <2>1, <2>2, <2>3 DEF Reads
<1> QED
  BY <1>1, RelayedCarries, EndReadCarries, RequestCarries DEF Read

-----------------------------------------------------------------------------
LEMMA OwedInit == Init => OwedInv
<1> SUFFICES ASSUME Init PROVE OwedInv
  OBVIOUS
<1>1. IInv /\ Epoch = 1
  BY InitStep
<1>2. \A e \in Ends : /\ pairs[e] = 0 /\ frames[e] = <<>> /\ inbox[e] = <<>>
                      /\ ~ Requested(e)
                      /\ \A k \in Epochs : ~ Reported(e, k)
  BY DEF Init, NoView, NoContext, Requested, Reported
<1>3. Range(<<>>) = {}
  BY DEF Range
<1>4. RequestUnderWay /\ FailureUnderWay /\ Told
  BY <1>2 DEF RequestUnderWay, FailureUnderWay, Told
<1>5. FailureKnown
  <2>1. PICK g \in Ends :
          sends = [e \in Ends |-> IF e = g
                     THEN Instructions("pair_negotiation_instruction", 1) ELSE <<>>]
    BY DEF Init
  <2> DEFINE f == Frame("pair_negotiation_instruction", 1)
             a == To(Offerer, f)
             b == To(Answerer, f)
  <2>2. Range(<<a, b>>) = {a, b}
    BY DEF Range
  <2>3. \A x \in Ends : Range(sends[x]) \subseteq {a, b}
    BY <1>3, <2>1, <2>2 DEF Instructions
  <2>4. ASSUME NEW e \in Ends, NEW k \in Epochs, Failure(k) \in Arriving(Other(e))
        PROVE  FALSE
    <3>1. Other(e) \in Ends
      BY DEF Other, Ends
    <3>2. PICK x \in Ends : To(Other(e), Failure(k)) \in Range(sends[x])
      BY <1>2, <1>3, <2>4, <3>1 DEF Arriving
    <3>3. Failure(k) = f
      BY <2>3, <3>2, ToEach
    <3> QED
      BY <3>3 DEF Failure, Frame
  <2> QED
    BY <1>2, <1>3, <2>4 DEF FailureKnown
<1>6. Present
  <2>1. room.participants = {1, 2}
    BY DEF Init, Register, Admit, NewRoom
  <2> QED
    BY <1>2, <1>3, <2>1 DEF Present, Ends
<1> QED
  BY <1>1, <1>4, <1>5, <1>6 DEF OwedInv

LEMMA OwedNext == OwedInv /\ [Next]_vars => OwedInv'
<1> SUFFICES ASSUME OwedInv, [Next]_vars PROVE OwedInv'
  OBVIOUS
<1>1. IInv'
  BY NextStep DEF OwedInv
<1>2. CASE UNCHANGED vars
  <2>1. /\ UNCHANGED <<room, conn, frames, sends, inbox, ctx, pairs, view>>
        /\ Epoch' = Epoch
    BY <1>2 DEF vars, Epoch
  <2> QED
    BY <1>1, <2>1
    DEF OwedInv, RequestUnderWay, FailureUnderWay, Told, FailureKnown, Present, Summoned,
        Arriving, Open, Reported, Requested, Rebuild
<1>3. CASE Next
  <2>1. Carries
    BY <1>3, ReadsCarry, SendCarries, ReceiveCarries, ContinueCarries, GatherCarries,
       FailsCarries, ReconnectCarries, EndsCarry
    DEF Next, Progress
  <2> QED
    BY <1>1, <2>1, CarriedOn
<1> QED
  BY <1>2, <1>3

\* OwedInv holds in every reachable state: nothing that one end of the pair is
\* owed is lost on the way, however clicks, failures and departures interleave.
THEOREM OwedInductive == Spec => []OwedInv
BY OwedInit, OwedNext, PTL DEF Spec

\* The safety half of ReconnectIsAnswered: as long as a Reconnect button is
\* disabled, the request, or what answers it, is under way.
THEOREM RequestsUnderWay == Spec => []RequestUnderWay
<1>1. OwedInv => RequestUnderWay
  BY DEF OwedInv
<1> QED
  BY <1>1, OwedInductive, PTL

\* The safety half of FailureIsShared: a failure one end knows of is known to
\* the other, or the notice of it, or of a newer attempt, is under way.
THEOREM FailuresUnderWay == Spec => []FailureUnderWay
<1>1. OwedInv => FailureUnderWay
  BY DEF OwedInv
<1> QED
  BY <1>1, OwedInductive, PTL

=============================================================================
