----------------------- MODULE OneToOneScreenShareProofs -----------------------
(***************************************************************************)
(* The controller of a one-to-one screen share never loses a capture: for  *)
(* every number of shares, calls and camera clicks.                        *)
(***************************************************************************)
EXTENDS OneToOneScreenShare, SequenceTheorems, TLAPS

-----------------------------------------------------------------------------
(* The inductive invariant. *)

\* A share whose replaceTrack is awaited is in its start(), and awaits one.
QueueInv ==
  /\ \A n \in 1..Len(queue) :
       queue[n].who # NoShare => start[queue[n].who].at = "replacing"
  /\ \A m, n \in 1..Len(queue) :
       queue[m].who = queue[n].who /\ queue[m].who # NoShare => m = n

\* While no two pickers were open together, there is one start() at most; the
\* controller holds no share while its picker is open, and no other one after.
OneStart ==
  /\ \A i, j \in Starting : i = j
  /\ \A i \in Shares : start[i].at = "picker" => screenTrack = NoShare
  /\ \A i \in Shares :
       start[i].at = "replacing" => screenTrack \in {NoShare, i}

Owned == \A i \in Shares : screen[i] => screenTrack = i

IInv == ShareTypeOK /\ QueueInv /\ ("pickers" \notin clash => OneStart /\ Owned)

-----------------------------------------------------------------------------
(* Lemmas. *)

\* A replaceTrack call appended to those awaited is the last of them.
LEMMA AwaitAppends ==
  ASSUME ShareTypeOK, NEW who \in Shares \cup {NoShare}, NEW track \in Tracks,
         Await(who, track)
  PROVE  /\ queue' \in Seq(Operation) /\ Len(queue') = Len(queue) + 1
         /\ \A n \in 1..Len(queue) : queue'[n] = queue[n]
         /\ queue'[Len(queue) + 1].who = who
<1> DEFINE op == [who |-> who, track |-> track, call |-> handle]
<1>1. op \in Operation
  BY DEF ShareTypeOK, Operation
<1>2. queue' = Append(queue, op)
  BY DEF Await
<1>3. queue \in Seq(Operation) /\ op.who = who
  BY DEF ShareTypeOK
<1> HIDE DEF op
<1> QED
  BY <1>1, <1>2, <1>3, AppendProperties

\* The awaited calls without the n-th one: those after it move up.
LEMMA Without ==
  ASSUME NEW q \in Seq(Operation), NEW n \in 1..Len(q),
         NEW r, r = SubSeq(q, 1, n - 1) \o SubSeq(q, n + 1, Len(q))
  PROVE  /\ r \in Seq(Operation) /\ Len(r) = Len(q) - 1
         /\ \A m \in 1..Len(r) : r[m] = q[IF m < n THEN m ELSE m + 1]
<1> DEFINE a == SubSeq(q, 1, n - 1)
           b == SubSeq(q, n + 1, Len(q))
<1>1. /\ Len(q) \in Nat /\ n \in Nat /\ n <= Len(q)
      /\ \A i \in 1..Len(q) : q[i] \in Operation
  BY ElementOfSeq, LenProperties
<1>2. /\ a \in Seq(Operation) /\ Len(a) = n - 1
      /\ \A i \in 1..(n - 1) : a[i] = q[i]
  BY <1>1, SubSeqProperties
<1>3. /\ b \in Seq(Operation) /\ Len(b) = Len(q) - n
      /\ \A i \in 1..(Len(q) - n) : b[i] = q[n + i]
  BY <1>1, SubSeqProperties
<1> HIDE DEF a, b
<1>4. r = a \o b
  BY DEF a, b
<1>5. /\ r \in Seq(Operation) /\ Len(r) = Len(a) + Len(b)
      /\ \A i \in 1..(Len(a) + Len(b)) :
           r[i] = IF i <= Len(a) THEN a[i] ELSE b[i - Len(a)]
  <2>1. a \in Seq(Operation) /\ b \in Seq(Operation)
    BY <1>2, <1>3
  <2> QED
    BY <2>1, <1>4, ConcatProperties, ZenonT(30)
<1>6. Len(r) = Len(q) - 1
  <2>1. Len(r) = (n - 1) + (Len(q) - n)
    BY <1>2, <1>3, <1>5, Zenon
  <2>2. (n - 1) + (Len(q) - n) = Len(q) - 1
    BY <1>1
  <2> QED
    BY <2>1, <2>2, Zenon
<1>7. ASSUME NEW m \in 1..Len(r)
      PROVE  r[m] = q[IF m < n THEN m ELSE m + 1]
  <2>1. CASE m < n
    <3>1. m \in 1..(n - 1) /\ m \in 1..(Len(a) + Len(b)) /\ m <= Len(a)
      BY <2>1, <1>1, <1>2, <1>3, <1>6
    <3>2. r[m] = a[m]
      BY <1>5, <3>1
    <3> QED
      BY <2>1, <1>2, <3>1, <3>2
  <2>2. CASE ~ (m < n)
    <3> DEFINE k == m - (n - 1)
    <3>1. Len(a) = n - 1 /\ Len(b) = Len(q) - n /\ Len(r) = Len(q) - 1
      BY <1>2, <1>3, <1>6
    <3>2. m \in 1..(Len(q) - 1) /\ ~ (m <= n - 1) /\ Len(q) \in Nat
      <4>1. m \in 1..(Len(q) - 1)
        BY <3>1, Zenon
      <4> QED
        BY <4>1, <2>2, <1>1
    <3>3. k \in 1..(Len(q) - n) /\ n + k = m + 1
      BY <3>2
    <3>4. r[m] = b[m - Len(a)]
      BY <1>5, <3>1, <3>2
    <3> HIDE DEF k
    <3>5. r[m] = b[k] /\ b[k] = q[n + k]
      BY <1>3, <3>1, <3>3, <3>4 DEF k
    <3> QED
      BY <2>2, <3>3, <3>5
  <2> QED
    BY <2>1, <2>2
<1> QED
  BY <1>5, <1>6, <1>7

\* Settling one awaited call, by which its start() moves on, leaves the others.
LEMMA QueueWithout ==
  ASSUME ShareTypeOK, QueueInv, NEW n \in 1..Len(queue),
         /\ queue' \in Seq(Operation) /\ Len(queue') = Len(queue) - 1
         /\ \A m \in 1..Len(queue') :
              queue'[m] = queue[IF m < n THEN m ELSE m + 1],
         \A i \in Shares : i # queue[n].who => start'[i] = start[i]
  PROVE  QueueInv'
<1> DEFINE at(m) == IF m < n THEN m ELSE m + 1
<1>1. Len(queue) \in Nat /\ \A m \in 1..Len(queue) : queue[m] \in Operation
  BY ElementOfSeq, LenProperties DEF ShareTypeOK
<1>2. \A m \in 1..Len(queue') :
        at(m) \in 1..Len(queue) /\ at(m) # n /\ queue'[m] = queue[at(m)]
  BY <1>1
<1>3. \A k, m \in 1..Len(queue') : at(k) = at(m) => k = m
  BY <1>1
<1> HIDE DEF at
<1>4. ASSUME NEW m \in 1..Len(queue'), queue'[m].who # NoShare
      PROVE  start'[queue'[m].who].at = "replacing"
  <2>1. queue[at(m)].who \in Shares
    BY <1>1, <1>2, <1>4 DEF Operation
  <2>2. queue[at(m)].who # queue[n].who
    BY <1>2, <1>4 DEF QueueInv
  <2> QED
    BY <1>2, <1>4, <2>1, <2>2 DEF QueueInv
<1>5. ASSUME NEW k \in 1..Len(queue'), NEW m \in 1..Len(queue'),
             queue'[k].who = queue'[m].who, queue'[k].who # NoShare
      PROVE  k = m
  BY <1>2, <1>3, <1>5 DEF QueueInv
<1> QED
  BY <1>4, <1>5 DEF QueueInv

\* What a stop() under way or ended does to the controller and the captures.
Stopped(scr) ==
  /\ screen' \in [Shares -> BOOLEAN]
  /\ \/ screenTrack' = screenTrack /\ screen' = scr
     \/ screenTrack' = NoShare /\ screen' = Ended(scr)

StopTypeOK ==
  /\ session' \in {"waiting-for-peer", "connected", "failed", "idle"}
  /\ handle' \in Calls \cup {NoCall}
  /\ stream' \in [held : BOOLEAN, enabled : BOOLEAN]
  /\ screenTrack' \in Shares \cup {NoShare}
  /\ stop' \in [on : BOOLEAN, leaving : BOOLEAN, of : Shares \cup {NoShare}]
  /\ slice' \in MediaState /\ told' \in MediaState \cup {Nothing}

LEMMA StopDoneStops ==
  ASSUME ShareTypeOK, NEW scr \in [Shares -> BOOLEAN],
         NEW str \in [held : BOOLEAN, enabled : BOOLEAN],
         NEW leaving \in BOOLEAN, StopDone(scr, str, leaving)
  PROVE  /\ Stopped(scr) /\ StopTypeOK
<1>1. Stopped(scr) /\ screenTrack' \in Shares \cup {NoShare}
  BY DEF StopDone, Stopped, Ended
<1>2. stop' \in [on : BOOLEAN, leaving : BOOLEAN, of : Shares \cup {NoShare}]
  BY DEF StopDone, Idle
<1>3. CASE leaving
  <2>1. LeaveDone
    BY <1>3 DEF StopDone
  <2>2. /\ session' = "idle" /\ handle' = NoCall
        /\ stream' = Released /\ slice' = Defaults /\ told' = Nothing
    BY <2>1 DEF LeaveDone
  <2>3. Released \in [held : BOOLEAN, enabled : BOOLEAN]
    BY DEF Released
  <2>4. Defaults \in MediaState
    BY DEF Defaults, MediaState
  <2> QED
    BY <1>1, <1>2, <2>2, <2>3, <2>4 DEF StopTypeOK
<1>4. CASE ~ leaving
  BY <1>1, <1>2, <1>4
     DEF StopDone, Publish, MediaState, ShareTypeOK, StopTypeOK
<1> QED
  BY <1>3, <1>4

LEMMA StopStops ==
  ASSUME ShareTypeOK, QueueInv, NEW scr \in [Shares -> BOOLEAN],
         NEW str \in [held : BOOLEAN, enabled : BOOLEAN],
         NEW leaving \in BOOLEAN, Stop(scr, str, leaving), start' = start
  PROVE  /\ Stopped(scr) /\ StopTypeOK
         /\ queue' \in Seq(Operation) /\ QueueInv'
<1>1. CASE handle = NoCall
  <2>1. StopDone(scr, str, leaving) /\ queue' = queue
    BY <1>1 DEF Stop
  <2>2. queue' \in Seq(Operation) /\ QueueInv'
    BY <2>1 DEF QueueInv, ShareTypeOK
  <2> QED
    BY <2>1, <2>2, StopDoneStops
<1>2. CASE handle # NoCall
  <2>1. /\ Stopped(scr) /\ StopTypeOK
    <3>1. /\ stop' = [on |-> TRUE, leaving |-> leaving, of |-> screenTrack]
          /\ screen' = scr /\ stream' = str
          /\ UNCHANGED <<session, handle, screenTrack, slice, told>>
      BY <1>2 DEF Stop
    <3>2. stop' \in [on : BOOLEAN, leaving : BOOLEAN, of : Shares \cup {NoShare}]
      BY <3>1 DEF ShareTypeOK
    <3>3. Stopped(scr)
      BY <3>1 DEF Stopped
    <3> QED
      BY <3>1, <3>2, <3>3 DEF ShareTypeOK, StopTypeOK
  <2>2. PICK track \in Tracks : Await(NoShare, track)
    <3>1. (IF str.held THEN Camera ELSE NoTrack) \in Tracks
      BY DEF Tracks
    <3> QED
      BY <1>2, <3>1 DEF Stop
  <2>3. /\ queue' \in Seq(Operation) /\ Len(queue') = Len(queue) + 1
        /\ \A n \in 1..Len(queue) : queue'[n] = queue[n]
        /\ queue'[Len(queue) + 1].who = NoShare
    BY <2>2, AwaitAppends
  <2>4. Len(queue) \in Nat
    BY LenProperties DEF ShareTypeOK
  <2>5. QueueInv'
    BY <2>3, <2>4 DEF QueueInv
  <2> QED
    BY <2>1, <2>3, <2>5
<1> QED
  BY <1>1, <1>2

\* A stop() leaves the starts, and the ownership of the captures, as they are.
LEMMA StoppedOwned ==
  ASSUME ShareTypeOK, NEW scr \in [Shares -> BOOLEAN],
         \A i \in Shares : scr[i] => screen[i],
         Stopped(scr), start' = start, clash \subseteq clash',
         "pickers" \notin clash => OneStart /\ Owned
  PROVE  "pickers" \notin clash' => OneStart' /\ Owned'
<1> SUFFICES ASSUME "pickers" \notin clash'
             PROVE  OneStart' /\ Owned'
  OBVIOUS
<1>1. OneStart /\ Owned
  OBVIOUS
<1>2. OneStart'
  BY <1>1 DEF OneStart, Starting, Stopped
<1>3. Owned'
  BY <1>1 DEF Owned, Stopped, Ended
<1> QED
  BY <1>2, <1>3

-----------------------------------------------------------------------------
(* The invariant is inductive: one step per action. *)

LEMMA InitIInv == Init => IInv
<1> SUFFICES ASSUME Init PROVE IInv
  OBVIOUS
<1>1. ShareTypeOK
  <2>1. <<>> \in Seq(Operation)
    OBVIOUS
  <2> QED
    BY <2>1, BoundsAssumption
       DEF Init, ShareTypeOK, Tracks, Camera, NoTrack, Shares, Calls, NoCall,
           NoShare, Idle, MediaState, Defaults, Nothing
<1>2. QueueInv
  BY DEF Init, QueueInv
<1>3. OneStart /\ Owned
  BY DEF Init, OneStart, Owned, Starting
<1> QED
  BY <1>1, <1>2, <1>3 DEF IInv

\* The steps that concern neither the starts nor the captures nor the queue.
LEMMA ControllerKept ==
  ASSUME IInv, ShareTypeOK', UNCHANGED <<screen, controller>>
  PROVE  IInv'
<1>1. UNCHANGED <<screen, start, screenTrack, queue, clash>>
  BY DEF controller
<1>2. QueueInv'
  BY <1>1 DEF IInv, QueueInv
<1>3. "pickers" \notin clash' => OneStart' /\ Owned'
  BY <1>1 DEF IInv, OneStart, Owned, Starting
<1> QED
  BY <1>2, <1>3 DEF IInv

\* The state is published as one of the slice's values, to a peer or to nobody.
LEMMA PublishTypeOK ==
  ASSUME ShareTypeOK, NEW str, NEW share \in {"active", "inactive"},
         Publish(str, share)
  PROVE  slice' \in MediaState /\ told' \in MediaState \cup {Nothing}
<1> DEFINE m == [camera |-> IF str.held /\ str.enabled THEN "on" ELSE "off",
                 screenShare |-> share]
<1>1. m \in MediaState
  BY DEF MediaState
<1>2. slice' = m /\ told' = IF CanEmit THEN m ELSE told
  BY DEF Publish
<1> HIDE DEF m
<1> QED
  BY <1>1, <1>2 DEF ShareTypeOK

LEMMA StartClickIInv == IInv /\ StartClick => IInv'
<1> SUFFICES ASSUME IInv, StartClick PROVE IInv'
  OBVIOUS
<1>1. PICK i \in Shares :
        /\ start[i].at = "none"
        /\ start' = [start EXCEPT ![i] = [at |-> "picker", call |-> handle]]
  BY DEF StartClick
<1>2. /\ screenTrack = NoShare /\ UNCHANGED <<screen, screenTrack, queue>>
      /\ clash' = clash \cup {c \in {"pickers"} : Starting # {}}
  BY DEF StartClick
<1>3. ShareTypeOK'
  BY <1>1, <1>2 DEF IInv, StartClick, ShareTypeOK
<1>4. QueueInv'
  BY <1>1, <1>2 DEF IInv, QueueInv, ShareTypeOK
<1>5. ASSUME "pickers" \notin clash' PROVE OneStart' /\ Owned'
  <2>1. Starting = {} /\ "pickers" \notin clash
    BY <1>2, <1>5
  <2>2. \A j \in Shares : start'[j].at \in {"picker", "replacing"} => j = i
    BY <1>1, <2>1 DEF IInv, ShareTypeOK, Starting
  <2>3. OneStart'
    BY <1>2, <2>2 DEF OneStart, Starting
  <2>4. Owned'
    BY <1>2, <2>1 DEF IInv, Owned
  <2> QED
    BY <2>3, <2>4
<1> QED
  BY <1>3, <1>4, <1>5 DEF IInv

LEMMA StopClickIInv == IInv /\ StopClick => IInv'
<1> SUFFICES ASSUME IInv, StopClick PROVE IInv'
  OBVIOUS
<1>1. /\ Stop(screen, stream, FALSE)
      /\ UNCHANGED <<transport, calls, sender, start, toggles, clash>>
  BY DEF StopClick
<1>2. /\ screen \in [Shares -> BOOLEAN]
      /\ stream \in [held : BOOLEAN, enabled : BOOLEAN]
  BY DEF IInv, ShareTypeOK
<1>3. /\ Stopped(screen) /\ StopTypeOK
      /\ queue' \in Seq(Operation) /\ QueueInv'
  BY <1>1, <1>2, StopStops DEF IInv
<1>4. ShareTypeOK'
  BY <1>1, <1>3 DEF IInv, ShareTypeOK, Stopped, StopTypeOK
<1>5. "pickers" \notin clash' => OneStart' /\ Owned'
  BY <1>1, <1>2, <1>3, StoppedOwned DEF IInv
<1> QED
  BY <1>3, <1>4, <1>5 DEF IInv

LEMMA PickerCancelledIInv ==
  ASSUME IInv, NEW i \in Shares, PickerCancelled(i)
  PROVE  IInv'
<1>1. /\ start[i].at = "picker" /\ start' = [start EXCEPT ![i].at = "over"]
      /\ UNCHANGED <<screen, screenTrack, queue, clash>>
  BY DEF PickerCancelled
<1>2. ShareTypeOK'
  BY <1>1 DEF IInv, PickerCancelled, ShareTypeOK
<1>3. QueueInv'
  BY <1>1 DEF IInv, QueueInv, ShareTypeOK
<1>4. "pickers" \notin clash' => OneStart' /\ Owned'
  BY <1>1 DEF IInv, OneStart, Owned, Starting, ShareTypeOK
<1> QED
  BY <1>2, <1>3, <1>4 DEF IInv

\* While the only picker is open the controller holds nothing, so the chosen
\* screen is the only one; a refused one is stopped at once.
LEMMA PickerChosenIInv ==
  ASSUME IInv, NEW i \in Shares, PickerChosen(i)
  PROVE  IInv'
<1>1. /\ start[i].at = "picker" /\ UNCHANGED clash
      /\ UNCHANGED <<session, transport, handle, calls, sender, stream, stop,
                     slice, told, toggles>>
  BY DEF PickerChosen
<1>2. CASE start[i].call = handle
  <2>1. /\ start' = [start EXCEPT ![i].at = "replacing"]
        /\ screen' = [screen EXCEPT ![i] = TRUE] /\ screenTrack' = i
        /\ Await(i, i)
    BY <1>2 DEF PickerChosen
  <2>2. i \in Tracks
    BY DEF Tracks
  <2>3. /\ queue' \in Seq(Operation) /\ Len(queue') = Len(queue) + 1
        /\ \A n \in 1..Len(queue) : queue'[n] = queue[n]
        /\ queue'[Len(queue) + 1].who = i
    BY <2>1, <2>2, AwaitAppends DEF IInv
  <2>4. ShareTypeOK'
    <3>1. /\ screen' \in [Shares -> BOOLEAN]
          /\ screenTrack' \in Shares \cup {NoShare}
      BY <2>1 DEF IInv, ShareTypeOK
    <3>2. start' \in [Shares ->
                      [at : {"none", "picker", "replacing", "on", "over"},
                       call : Calls \cup {NoCall}]]
      BY <2>1 DEF IInv, ShareTypeOK
    <3> QED
      BY <1>1, <2>3, <3>1, <3>2 DEF IInv, ShareTypeOK
  <2>5. Len(queue) \in Nat /\ \A n \in 1..Len(queue) : queue[n] \in Operation
    BY ElementOfSeq, LenProperties DEF IInv, ShareTypeOK
  <2>6. ASSUME NEW n \in 1..Len(queue) PROVE queue[n].who # i
    <3>1. i # NoShare
      BY BoundsAssumption DEF Shares, NoShare
    <3> QED
      BY <1>1, <3>1 DEF IInv, QueueInv
  <2>7. QueueInv'
    <3>1. ASSUME NEW n \in 1..Len(queue'), queue'[n].who # NoShare
          PROVE  start'[queue'[n].who].at = "replacing"
      <4>1. CASE n = Len(queue) + 1
        BY <2>1, <2>3, <4>1 DEF IInv, ShareTypeOK
      <4>2. CASE n # Len(queue) + 1
        <5>1. n \in 1..Len(queue)
          BY <2>3, <2>5, <4>2
        <5>2. queue[n].who \in Shares
          BY <2>3, <2>5, <3>1, <5>1 DEF Operation
        <5> QED
          BY <2>1, <2>3, <3>1, <5>1, <5>2 DEF IInv, QueueInv, ShareTypeOK
      <4> QED
        BY <4>1, <4>2
    <3>2. ASSUME NEW m \in 1..Len(queue'), NEW n \in 1..Len(queue'),
                 queue'[m].who = queue'[n].who, queue'[m].who # NoShare
          PROVE  m = n
      <4>1. \A k \in 1..Len(queue') : k \in 1..Len(queue) \/ k = Len(queue) + 1
        BY <2>3, <2>5
      <4>2. CASE m \in 1..Len(queue) /\ n \in 1..Len(queue)
        BY <2>3, <3>2, <4>2 DEF IInv, QueueInv
      <4>3. CASE m \in 1..Len(queue) /\ n = Len(queue) + 1
        BY <2>3, <2>6, <3>2, <4>3
      <4>4. CASE m = Len(queue) + 1 /\ n \in 1..Len(queue)
        BY <2>3, <2>6, <3>2, <4>4
      <4> QED
        BY <4>1, <4>2, <4>3, <4>4
    <3> QED
      BY <3>1, <3>2 DEF QueueInv
  <2>8. ASSUME "pickers" \notin clash' PROVE OneStart' /\ Owned'
    <3>1. OneStart /\ Owned
      BY <1>1, <2>8 DEF IInv
    <3>2. \A j \in Shares : start'[j].at \in {"picker", "replacing"} => j = i
      BY <1>1, <2>1, <3>1 DEF IInv, ShareTypeOK, OneStart, Starting
    <3>3. OneStart'
      BY <2>1, <3>2 DEF IInv, ShareTypeOK, OneStart, Starting
    <3>4. \A j \in Shares : ~ screen[j]
      BY <1>1, <3>1, BoundsAssumption DEF OneStart, Owned, Shares, NoShare
    <3>5. Owned'
      BY <2>1, <3>4 DEF IInv, ShareTypeOK, Owned
    <3> QED
      BY <3>3, <3>5
  <2> QED
    BY <2>4, <2>7, <2>8 DEF IInv
<1>3. CASE start[i].call # handle
  <2>1. /\ start' = [start EXCEPT ![i].at = "over"]
        /\ screenTrack' = NoShare /\ UNCHANGED <<screen, queue>>
    BY <1>3 DEF PickerChosen
  <2>2. ShareTypeOK'
    BY <1>1, <2>1 DEF IInv, ShareTypeOK
  <2>3. QueueInv'
    BY <1>1, <2>1 DEF IInv, QueueInv, ShareTypeOK
  <2>4. "pickers" \notin clash' => OneStart' /\ Owned'
    BY <1>1, <2>1 DEF IInv, OneStart, Owned, Starting, ShareTypeOK
  <2> QED
    BY <2>2, <2>3, <2>4 DEF IInv
<1> QED
  BY <1>2, <1>3

\* Settled, an awaited call ends its start() or the stop() under way.
LEMMA SettledByStop ==
  ASSUME IInv, NEW n \in 1..Len(queue), queue[n].who = NoShare,
         /\ queue' \in Seq(Operation) /\ Len(queue') = Len(queue) - 1
         /\ \A m \in 1..Len(queue') :
              queue'[m] = queue[IF m < n THEN m ELSE m + 1],
         StopDone(screen, stream, stop.leaving), StopMeetsStart,
         UNCHANGED <<transport, calls, start, toggles>>, sender' \in Tracks
  PROVE  IInv'
<1>1. /\ screen \in [Shares -> BOOLEAN] /\ stop.leaving \in BOOLEAN
      /\ stream \in [held : BOOLEAN, enabled : BOOLEAN]
  BY DEF IInv, ShareTypeOK
<1>2. /\ Stopped(screen) /\ StopTypeOK
  BY <1>1, StopDoneStops DEF IInv
<1>3. clash \subseteq clash' /\ clash' \subseteq {"pickers", "stops"}
  BY DEF IInv, ShareTypeOK, StopMeetsStart
<1>4. ShareTypeOK'
  BY <1>2, <1>3 DEF IInv, ShareTypeOK, Stopped, StopTypeOK
<1>5. QueueInv'
  BY QueueWithout DEF IInv
<1>6. "pickers" \notin clash' => OneStart' /\ Owned'
  BY <1>1, <1>2, <1>3, StoppedOwned DEF IInv
<1> QED
  BY <1>4, <1>5, <1>6 DEF IInv

\* What is left of a start() once its replaceTrack is settled: the share is on,
\* or its capture is stopped and the controller holds none.
LEMMA SettledByStart ==
  ASSUME IInv, NEW n \in 1..Len(queue), NEW i, i = queue[n].who, i # NoShare,
         /\ queue' \in Seq(Operation) /\ Len(queue') = Len(queue) - 1
         /\ \A m \in 1..Len(queue') :
              queue'[m] = queue[IF m < n THEN m ELSE m + 1],
         \/ /\ start' = [start EXCEPT ![i].at = "on"]
            /\ UNCHANGED <<screen, screenTrack>>
         \/ /\ start' = [start EXCEPT ![i].at = "over"]
            /\ screen' = [screen EXCEPT ![i] = FALSE] /\ screenTrack' = NoShare,
         UNCHANGED <<session, transport, handle, calls, stream, stop, toggles,
                     clash>>,
         sender' \in Tracks,
         slice' \in MediaState /\ told' \in MediaState \cup {Nothing}
  PROVE  IInv'
<1>1. queue[n] \in Operation
  BY ElementOfSeq DEF IInv, ShareTypeOK
<1>2. i \in Shares /\ start[i].at = "replacing"
  BY <1>1 DEF Operation, IInv, QueueInv
<1>3. start' \in [Shares ->
                  [at : {"none", "picker", "replacing", "on", "over"},
                   call : Calls \cup {NoCall}]]
  <2>1. PICK at \in {"on", "over"} : start' = [start EXCEPT ![i].at = at]
    OBVIOUS
  <2>2. start \in [Shares ->
                   [at : {"none", "picker", "replacing", "on", "over"},
                    call : Calls \cup {NoCall}]]
    BY DEF IInv, ShareTypeOK
  <2> QED
    BY <1>2, <2>1, <2>2
<1>4. /\ screen' \in [Shares -> BOOLEAN]
      /\ screenTrack' \in Shares \cup {NoShare}
  BY <1>2 DEF IInv, ShareTypeOK
<1>5. ShareTypeOK'
  BY <1>3, <1>4 DEF IInv, ShareTypeOK
<1>6. \A j \in Shares : j # i => start'[j] = start[j]
  BY DEF IInv, ShareTypeOK
<1>7. QueueInv'
  BY <1>6, QueueWithout DEF IInv
<1>8. ASSUME "pickers" \notin clash' PROVE OneStart' /\ Owned'
  <2>1. OneStart /\ Owned
    BY <1>8 DEF IInv
  <2>2. start'[i].at \notin {"picker", "replacing"}
    BY <1>2 DEF IInv, ShareTypeOK
  <2>3. \A j \in Shares : start'[j].at \notin {"picker", "replacing"}
    BY <1>2, <1>6, <2>1, <2>2 DEF OneStart, Starting
  <2>4. OneStart'
    BY <2>3 DEF OneStart, Starting
  <2>5. screenTrack \in {NoShare, i}
    BY <1>2, <2>1 DEF OneStart
  <2>6. Owned'
    BY <1>2, <2>1, <2>5 DEF Owned, IInv, ShareTypeOK
  <2> QED
    BY <2>4, <2>6
<1> QED
  BY <1>5, <1>7, <1>8 DEF IInv

\* The call that is settled is no longer awaited, the others are.
LEMMA SettledQueue ==
  ASSUME ShareTypeOK, NEW n \in 1..Len(queue), Settled(n)
  PROVE  /\ queue' \in Seq(Operation) /\ Len(queue') = Len(queue) - 1
         /\ \A m \in 1..Len(queue') :
              queue'[m] = queue[IF m < n THEN m ELSE m + 1]
<1>1. queue \in Seq(Operation)
  BY DEF ShareTypeOK
<1>2. queue' = SubSeq(queue, 1, n - 1) \o SubSeq(queue, n + 1, Len(queue))
  BY DEF Settled
<1> QED
  BY <1>1, <1>2, Without

LEMMA ReplacedIInv == IInv /\ Replaced => IInv'
<1> SUFFICES ASSUME IInv, Replaced PROVE IInv'
  OBVIOUS
<1>1. DOMAIN queue = 1..Len(queue)
  BY LenProperties DEF IInv, ShareTypeOK
<1>2. PICK n \in 1..Len(queue) :
        /\ Settled(n) /\ sender' = queue[n].track
        /\ IF queue[n].who # NoShare
           THEN /\ start' = [start EXCEPT ![queue[n].who].at = "on"]
                /\ Publish(stream, "active")
                /\ UNCHANGED <<session, handle, stream, screen, screenTrack,
                               stop, clash>>
           ELSE /\ StopDone(screen, stream, stop.leaving)
                /\ StopMeetsStart /\ UNCHANGED start
        /\ UNCHANGED <<transport, calls, toggles>>
  BY <1>1 DEF Replaced
<1> DEFINE op == queue[n]
<1>3. /\ queue' \in Seq(Operation) /\ Len(queue') = Len(queue) - 1
      /\ \A m \in 1..Len(queue') :
           queue'[m] = queue[IF m < n THEN m ELSE m + 1]
  BY <1>2, SettledQueue DEF IInv
<1>4. op \in Operation
  BY ElementOfSeq DEF IInv, ShareTypeOK
<1>5. sender' \in Tracks
  BY <1>2, <1>4 DEF Operation
<1>6. CASE op.who # NoShare
  <2>1. /\ start' = [start EXCEPT ![op.who].at = "on"]
        /\ Publish(stream, "active")
        /\ UNCHANGED <<session, handle, stream, screen, screenTrack, stop,
                       clash>>
    BY <1>2, <1>6
  <2>2. slice' \in MediaState /\ told' \in MediaState \cup {Nothing}
    BY <2>1, PublishTypeOK DEF IInv
  <2> QED
    BY <1>2, <1>3, <1>5, <1>6, <2>1, <2>2, SettledByStart
<1>7. CASE op.who = NoShare
  <2>1. /\ StopDone(screen, stream, stop.leaving) /\ StopMeetsStart
        /\ UNCHANGED start
    BY <1>2, <1>7
  <2> QED
    BY <1>2, <1>3, <1>5, <1>7, <2>1, SettledByStop
<1> QED
  BY <1>6, <1>7

LEMMA RefusedIInv ==
  ASSUME IInv, NEW n, Refused(n)
  PROVE  IInv'
<1> DEFINE op == queue[n]
<1>1. queue \in Seq(Operation) /\ n \in 1..Len(queue)
  BY LenProperties DEF Refused, IInv, ShareTypeOK
<1>2. Settled(n) /\ UNCHANGED <<transport, calls, sender, toggles>>
  BY DEF Refused
<1>3. /\ queue' \in Seq(Operation) /\ Len(queue') = Len(queue) - 1
      /\ \A m \in 1..Len(queue') :
           queue'[m] = queue[IF m < n THEN m ELSE m + 1]
  BY <1>1, <1>2, SettledQueue DEF IInv
<1>4. sender' \in Tracks
  <2>1. sender' = sender /\ sender \in Tracks
    BY <1>2 DEF IInv, ShareTypeOK
  <2> QED
    BY <2>1
<1>5. CASE op.who # NoShare
  <2>1. /\ start' = [start EXCEPT ![op.who].at = "over"]
        /\ screen' = [screen EXCEPT ![op.who] = FALSE]
        /\ screenTrack' = NoShare
        /\ UNCHANGED <<session, handle, stream, stop, slice, told, clash>>
    BY <1>5 DEF Refused
  <2>2. slice' \in MediaState /\ told' \in MediaState \cup {Nothing}
    BY <2>1 DEF IInv, ShareTypeOK
  <2> QED
    BY <1>1, <1>2, <1>3, <1>4, <1>5, <2>1, <2>2, SettledByStart
<1>6. CASE op.who = NoShare
  <2>1. /\ StopDone(screen, stream, stop.leaving) /\ StopMeetsStart
        /\ UNCHANGED start
    BY <1>6 DEF Refused
  <2> QED
    BY <1>1, <1>2, <1>3, <1>4, <1>6, <2>1, SettledByStop
<1> QED
  BY <1>5, <1>6

\* Ending a capture outside stop() can only help.
LEMMA BrowserStopIInv ==
  ASSUME IInv, NEW i \in Shares, BrowserStop(i)
  PROVE  IInv'
<1> DEFINE scr == [screen EXCEPT ![i] = FALSE]
<1>1. /\ scr \in [Shares -> BOOLEAN] /\ \A j \in Shares : scr[j] => screen[j]
      /\ stream \in [held : BOOLEAN, enabled : BOOLEAN]
  BY DEF IInv, ShareTypeOK
<1>2. UNCHANGED <<transport, calls, sender, start, toggles, clash>>
  BY DEF BrowserStop
<1>3. CASE start[i].at = "on" /\ screenTrack = i /\ MayStop
  <2>1. Stop(scr, stream, FALSE)
    BY <1>3 DEF BrowserStop
  <2> HIDE DEF scr
  <2>2. /\ Stopped(scr) /\ StopTypeOK
        /\ queue' \in Seq(Operation) /\ QueueInv'
    BY <1>1, <1>2, <2>1, StopStops DEF IInv
  <2>3. ShareTypeOK'
    BY <1>2, <2>2 DEF IInv, ShareTypeOK, Stopped, StopTypeOK
  <2>4. "pickers" \notin clash' => OneStart' /\ Owned'
    BY <1>1, <1>2, <2>2, StoppedOwned DEF IInv
  <2> QED
    BY <2>2, <2>3, <2>4 DEF IInv
<1>4. CASE ~ (start[i].at = "on" /\ screenTrack = i /\ MayStop)
  <2>1. /\ screen' = scr
        /\ UNCHANGED <<session, handle, stream, screenTrack, stop, queue,
                       slice, told>>
    BY <1>4 DEF BrowserStop
  <2>2. ShareTypeOK'
    BY <1>1, <1>2, <2>1 DEF IInv, ShareTypeOK
  <2>3. QueueInv'
    BY <1>2, <2>1 DEF IInv, QueueInv
  <2>4. "pickers" \notin clash' => OneStart' /\ Owned'
    BY <1>1, <1>2, <2>1 DEF IInv, OneStart, Owned, Starting
  <2> QED
    BY <2>2, <2>3, <2>4 DEF IInv
<1> QED
  BY <1>3, <1>4

LEMMA LeaveIInv == IInv /\ Leave => IInv'
<1> SUFFICES ASSUME IInv, Leave PROVE IInv'
  OBVIOUS
<1>1. UNCHANGED <<transport, calls, sender, start, toggles, clash>>
  BY DEF Leave
<1>2. /\ screen \in [Shares -> BOOLEAN]
      /\ Released \in [held : BOOLEAN, enabled : BOOLEAN]
  BY DEF IInv, ShareTypeOK, Released
<1>3. CASE MayStop
  <2>1. Stop(screen, Released, TRUE)
    BY <1>3 DEF Leave
  <2>2. /\ Stopped(screen) /\ StopTypeOK
        /\ queue' \in Seq(Operation) /\ QueueInv'
    BY <1>1, <1>2, <2>1, StopStops DEF IInv
  <2>3. ShareTypeOK'
    BY <1>1, <2>2 DEF IInv, ShareTypeOK, Stopped, StopTypeOK
  <2>4. "pickers" \notin clash' => OneStart' /\ Owned'
    BY <1>1, <1>2, <2>2, StoppedOwned DEF IInv
  <2> QED
    BY <2>2, <2>3, <2>4 DEF IInv
<1>4. CASE ~ MayStop
  <2>1. LeaveDone /\ UNCHANGED <<screen, screenTrack, stop, queue>>
    BY <1>4 DEF Leave
  <2>2. ShareTypeOK'
    BY <1>1, <1>2, <2>1
       DEF IInv, ShareTypeOK, LeaveDone, Defaults, MediaState
  <2>3. UNCHANGED <<screen, controller>>
    BY <1>1, <2>1 DEF controller
  <2> QED
    BY <2>2, <2>3, ControllerKept
<1> QED
  BY <1>3, <1>4

LEMMA CameraToggledIInv == IInv /\ CameraToggled => IInv'
<1> SUFFICES ASSUME IInv, CameraToggled PROVE IInv'
  OBVIOUS
<1> DEFINE str == [stream EXCEPT !.enabled = ~ @]
<1>1. /\ stream' = str /\ Publish(str, slice.screenShare)
      /\ toggles < MaxToggles /\ toggles' = toggles + 1
      /\ UNCHANGED <<session, transport, handle, calls, sender, screen,
                     controller>>
  BY DEF CameraToggled
<1>2. str \in [held : BOOLEAN, enabled : BOOLEAN]
  BY DEF IInv, ShareTypeOK
<1>3. slice.screenShare \in {"active", "inactive"}
  BY DEF IInv, ShareTypeOK, MediaState
<1>4. toggles' \in 0..MaxToggles
  BY <1>1, BoundsAssumption DEF IInv, ShareTypeOK
<1> HIDE DEF str
<1>5. slice' \in MediaState /\ told' \in MediaState \cup {Nothing}
  BY <1>1, <1>3, PublishTypeOK DEF IInv
<1>6. ShareTypeOK'
  BY <1>1, <1>2, <1>4, <1>5 DEF IInv, ShareTypeOK, controller
<1> QED
  BY <1>1, <1>6, ControllerKept

\* How calls begin and end is nothing to the controller.
LEMMA CallsIInv ==
  IInv /\ (\/ CallBegins \/ CallEnds("waiting-for-peer") \/ CallEnds("failed")
           \/ LoseSignaling \/ JoinAgain) => IInv'
<1>1. ASSUME IInv, CallBegins PROVE IInv'
  <2>1. /\ calls < MaxCalls /\ calls' = calls + 1 /\ handle' = calls'
        /\ session' = "connected" /\ told' = Nothing
        /\ sender' = IF stream.held THEN Camera ELSE NoTrack
        /\ UNCHANGED <<transport, stream, screen, controller, slice, toggles>>
    BY <1>1 DEF CallBegins
  <2>2. calls' \in 0..MaxCalls /\ handle' \in Calls
    BY <1>1, <2>1, BoundsAssumption DEF IInv, ShareTypeOK, Calls
  <2>3. sender' \in Tracks
    BY <2>1 DEF Tracks
  <2>4. ShareTypeOK'
    BY <1>1, <2>1, <2>2, <2>3 DEF IInv, ShareTypeOK, controller
  <2> QED
    BY <1>1, <2>1, <2>4, ControllerKept
<1>2. ASSUME IInv, NEW next \in {"waiting-for-peer", "failed"}, CallEnds(next)
      PROVE  IInv'
  <2>1. /\ session' = next /\ handle' = NoCall /\ told' = Nothing
        /\ UNCHANGED <<transport, calls, sender, stream, screen, controller,
                       slice, toggles>>
    BY <1>2 DEF CallEnds
  <2>2. ShareTypeOK'
    BY <1>2, <2>1 DEF IInv, ShareTypeOK, controller
  <2> QED
    BY <1>2, <2>1, <2>2, ControllerKept
<1>3. ASSUME IInv, LoseSignaling PROVE IInv'
  <2>1. ShareTypeOK' /\ UNCHANGED <<screen, controller>>
    BY <1>3 DEF LoseSignaling, IInv, ShareTypeOK, controller
  <2> QED
    BY <1>3, <2>1, ControllerKept
<1>4. ASSUME IInv, JoinAgain PROVE IInv'
  <2>1. ShareTypeOK' /\ UNCHANGED <<screen, controller>>
    BY <1>4 DEF JoinAgain, IInv, ShareTypeOK, controller, Defaults, MediaState
  <2> QED
    BY <1>4, <2>1, ControllerKept
<1> QED
  BY <1>1, <1>2, <1>3, <1>4

LEMMA NextIInv == IInv /\ [Next]_vars => IInv'
<1> SUFFICES ASSUME IInv, [Next]_vars PROVE IInv'
  OBVIOUS
<1>1. CASE StartClick \/ StopClick \/ CameraToggled
  BY <1>1, StartClickIInv, StopClickIInv, CameraToggledIInv
<1>2. ASSUME NEW i \in Shares,
             PickerCancelled(i) \/ PickerChosen(i) \/ BrowserStop(i)
      PROVE  IInv'
  BY <1>2, PickerCancelledIInv, PickerChosenIInv, BrowserStopIInv
<1>3. CASE Replaced
  BY <1>3, ReplacedIInv
<1>4. ASSUME NEW n \in 1..(MaxShares + MaxCalls), Refused(n) PROVE IInv'
  BY <1>4, RefusedIInv
<1>5. CASE \/ CallBegins \/ CallEnds("waiting-for-peer") \/ CallEnds("failed")
           \/ LoseSignaling \/ JoinAgain
  BY <1>5, CallsIInv
<1>6. CASE Leave
  BY <1>6, LeaveIInv
<1>7. CASE UNCHANGED vars
  <2>1. UNCHANGED <<screen, controller>> /\ ShareTypeOK'
    BY <1>7 DEF vars, controller, IInv, ShareTypeOK
  <2> QED
    BY <2>1, ControllerKept
<1> QED
  BY <1>1, <1>2, <1>3, <1>4, <1>5, <1>6, <1>7 DEF Next

-----------------------------------------------------------------------------
(* What the peer is told: the inductive invariant. *)

\* The calls are numbered; a start() keeps the one of its click.
Calling ==
  /\ handle \in {NoCall, calls}
  /\ session = "connected" <=> handle # NoCall
  /\ \A i \in Shares : start[i].call <= calls
  /\ \A i \in Shares : start[i].at # "none" => start[i].call # NoCall
  /\ \A i \in Shares : screenTrack = i => start[i].at \in {"replacing", "on"}

\* A stop() is of a share that was chosen; it awaits one replaceTrack, after
\* that of the start() of its share.
Stopping ==
  /\ stop.on => /\ stop.of \in Shares
                /\ start[stop.of].at \in {"replacing", "on", "over"}
  /\ \A m, n \in 1..Len(queue) :
       queue[m].who = NoShare /\ queue[n].who = NoShare => m = n
  /\ \A m, n \in 1..Len(queue) :
       queue[m].who = NoShare /\ queue[n].who = stop.of => n < m

\* A call that is awaited is of a connection there was: of the click's, or not
\* of one before it.
Awaited ==
  \A n \in 1..Len(queue) :
    /\ queue[n].call \in 1..calls
    /\ queue[n].who # NoShare => /\ queue[n].call = start[queue[n].who].call
                                 /\ queue[n].track = queue[n].who
    /\ queue[n].who = NoShare => /\ stop.on /\ queue[n].track \notin Shares
                                 /\ start[stop.of].call <= queue[n].call

\* While starts and stops do not meet, the slice says "active" when the share
\* of this call is on, the sender sends that share and no other one, and the
\* peer was told what the slice says.
Consistent ==
  /\ screenTrack = NoShare => slice.screenShare = "inactive"
  /\ \A i \in Shares : screenTrack = i /\ start[i].at = "replacing" =>
       slice.screenShare = "inactive"
  /\ session = "connected" /\ sender \in Shares =>
       /\ screenTrack = sender /\ start[sender].at = "on"
       /\ start[sender].call = handle
  /\ \A n \in 1..Len(queue) :
       queue[n].who # NoShare /\ queue[n].call = handle =>
         screenTrack = queue[n].who
  /\ \A i \in Shares :
       screenTrack = i /\ start[i].at = "on" /\ start[i].call = handle =>
         slice.screenShare = "active" /\ sender = i
  /\ CanEmit /\ told # Nothing => told = slice

Telling == Calling /\ Stopping /\ Awaited /\ (clash = {} => Consistent)

ToldInv == IInv /\ Telling

-----------------------------------------------------------------------------
(* Lemmas. *)

LEMMA Ranges ==
  ASSUME ShareTypeOK
  PROVE  /\ Len(queue) \in Nat /\ \A n \in 1..Len(queue) : queue[n] \in Operation
         /\ calls \in Nat /\ handle \in Nat
         /\ \A i \in Shares : start[i].call \in Nat /\ i # NoShare
         /\ NoTrack \notin Shares /\ Camera \notin Shares
<1>1. Len(queue) \in Nat /\ \A n \in 1..Len(queue) : queue[n] \in Operation
  BY ElementOfSeq, LenProperties DEF ShareTypeOK
<1>2. calls \in Nat /\ handle \in Nat
  BY BoundsAssumption DEF ShareTypeOK, Calls, NoCall
<1>3. \A i \in Shares : start[i].call \in Nat
  BY BoundsAssumption DEF ShareTypeOK, Calls, NoCall
<1>4. /\ \A i \in Shares : i # NoShare
      /\ NoTrack \notin Shares /\ Camera \notin Shares
  BY BoundsAssumption DEF Shares, NoShare, NoTrack, Camera
<1> QED
  BY <1>1, <1>2, <1>3, <1>4

\* The calls awaited after one is settled are others, in the order they had.
LEMMA SettledOrder ==
  ASSUME ShareTypeOK, NEW n \in 1..Len(queue), Settled(n)
  PROVE  \E at \in [1..Len(queue') -> 1..Len(queue)] :
           /\ \A m \in 1..Len(queue') : at[m] # n /\ queue'[m] = queue[at[m]]
           /\ \A k, m \in 1..Len(queue') : k < m <=> at[k] < at[m]
<1>1. /\ Len(queue') = Len(queue) - 1
      /\ \A m \in 1..Len(queue') :
           queue'[m] = queue[IF m < n THEN m ELSE m + 1]
  BY SettledQueue
<1>2. Len(queue) \in Nat
  BY Ranges
<1> DEFINE at == [m \in 1..Len(queue') |-> IF m < n THEN m ELSE m + 1]
<1>3. at \in [1..Len(queue') -> 1..Len(queue)]
  BY <1>1, <1>2
<1>4. \A m \in 1..Len(queue') : at[m] # n /\ queue'[m] = queue[at[m]]
  BY <1>1, <1>2
<1>5. \A k, m \in 1..Len(queue') : k < m <=> at[k] < at[m]
  BY <1>1, <1>2
<1> HIDE DEF at
<1> QED
  BY <1>3, <1>4, <1>5

\* What StopDone does to the session, the controller and the state published.
LEMMA StopDoneTells ==
  ASSUME ShareTypeOK, NEW scr, NEW str, NEW leaving \in BOOLEAN,
         StopDone(scr, str, leaving), transport' = transport
  PROVE  /\ screenTrack' = NoShare /\ stop' = Idle
         /\ slice'.screenShare = "inactive"
         /\ \/ session' = session /\ handle' = handle
            \/ session' = "idle" /\ handle' = NoCall
         /\ CanEmit' /\ told' # Nothing => told' = slice'
<1>1. screenTrack' = NoShare /\ stop' = Idle
  BY DEF StopDone
<1>2. CASE leaving
  <2>1. /\ session' = "idle" /\ handle' = NoCall
        /\ slice' = Defaults /\ told' = Nothing
    BY <1>2 DEF StopDone, LeaveDone
  <2> QED
    BY <1>1, <2>1 DEF Defaults
<1>3. CASE ~ leaving
  <2>1. Publish(str, "inactive") /\ UNCHANGED <<session, handle>>
    BY <1>3 DEF StopDone
  <2>2. slice'.screenShare = "inactive" /\ (CanEmit => told' = slice')
    BY <2>1 DEF Publish
  <2>3. CanEmit' <=> CanEmit
    BY <2>1 DEF CanEmit
  <2> QED
    BY <1>1, <2>1, <2>2, <2>3
<1> QED
  BY <1>2, <1>3

\* A stop() that is through: no other one awaits, and unless a share was
\* started meanwhile nothing else of this connection is sent or awaited.
LEMMA StopSettledTold ==
  ASSUME ToldInv, NEW n \in 1..Len(queue), queue[n].who = NoShare, Settled(n),
         StopDone(screen, stream, stop.leaving), StopMeetsStart,
         UNCHANGED <<transport, calls, start>>,
         \/ /\ queue[n].call = handle /\ sender' = queue[n].track
            /\ \A m \in 1..(n - 1) : queue[m].call # handle
         \/ queue[n].call # handle /\ sender' = sender
  PROVE  Telling'
<1>1. ShareTypeOK /\ Calling /\ Stopping /\ Awaited
  BY DEF ToldInv, IInv, Telling
<1>2. /\ screenTrack' = NoShare /\ stop' = Idle
      /\ slice'.screenShare = "inactive"
      /\ \/ session' = session /\ handle' = handle
         \/ session' = "idle" /\ handle' = NoCall
      /\ CanEmit' /\ told' # Nothing => told' = slice'
  BY <1>1, StopDoneTells DEF ShareTypeOK
<1>3. PICK at \in [1..Len(queue') -> 1..Len(queue)] :
        /\ \A m \in 1..Len(queue') : at[m] # n /\ queue'[m] = queue[at[m]]
        /\ \A k, m \in 1..Len(queue') : k < m <=> at[k] < at[m]
  BY <1>1, SettledOrder
<1>4. /\ Len(queue) \in Nat
      /\ \A m \in 1..Len(queue) : queue[m] \in Operation
      /\ calls \in Nat /\ handle \in Nat
      /\ \A i \in Shares : start[i].call \in Nat /\ i # NoShare
  BY <1>1, Ranges
<1>5. \A m \in 1..Len(queue') : queue'[m].who # NoShare
  BY <1>1, <1>3 DEF Stopping
<1>6. Calling'
  <2>1. \A i \in Shares : screenTrack' # i
    BY <1>2, <1>4
  <2> QED
    BY <1>1, <1>2, <2>1 DEF Calling
<1>7. Stopping'
  BY <1>2, <1>5 DEF Stopping, Idle
<1>8. Awaited'
  BY <1>1, <1>3, <1>5 DEF Awaited
<1>9. ASSUME clash' = {} PROVE Consistent'
  <2>1. clash = {} /\ Consistent /\ screenTrack \in {NoShare, stop.of}
    BY <1>9 DEF StopMeetsStart, ToldInv, Telling
  <2>2. /\ stop.on /\ stop.of \in Shares /\ start[stop.of].call <= queue[n].call
        /\ queue[n].track \notin Shares /\ queue[n].call \in 1..calls
    BY <1>1 DEF Awaited, Stopping
  <2>3. ASSUME session' = "connected", sender' \in Shares
        PROVE  FALSE
    <3>1. handle' = handle /\ session = "connected" /\ handle = calls
      BY <1>1, <1>2, <2>3 DEF Calling
    <3>2. queue[n].call # handle /\ sender = sender' /\ sender \in Shares
      BY <2>2, <2>3
    <3>3. /\ screenTrack = sender /\ start[sender].call = handle
      BY <2>1, <3>1, <3>2 DEF Consistent
    <3>4. sender = stop.of
      BY <1>4, <2>1, <3>2, <3>3
    <3> QED
      BY <1>4, <2>2, <3>1, <3>2, <3>3, <3>4
  <2>4. ASSUME NEW m \in 1..Len(queue'), queue'[m].call = handle' PROVE FALSE
    <3> DEFINE k == at[m]
    <3>1. k \in 1..Len(queue) /\ k # n /\ queue[k].call = handle'
      BY <1>3, <2>4
    <3>2. queue[k].who # NoShare /\ queue[k].who \in Shares
      BY <1>3, <1>4, <1>5, <3>1 DEF Operation
    <3>3. queue[k].call \in 1..calls
      BY <1>1, <3>1 DEF Awaited
    <3>4. handle' = handle /\ handle = calls
      BY <1>1, <1>2, <1>4, <3>1, <3>3 DEF Calling, NoCall
    <3>5. queue[k].who = stop.of
      <4>1. screenTrack = queue[k].who
        BY <2>1, <3>1, <3>2, <3>4 DEF Consistent
      <4> QED
        BY <2>1, <3>2, <4>1
    <3>6. k < n
      BY <1>1, <3>1, <3>5 DEF Stopping
    <3>7. start[stop.of].call = handle
      BY <1>1, <3>1, <3>2, <3>4, <3>5 DEF Awaited
    <3>8. queue[n].call = handle
      BY <1>4, <2>2, <3>4, <3>7
    <3>9. k \in 1..(n - 1)
      BY <3>1, <3>6
    <3> QED
      BY <3>1, <3>4, <3>8, <3>9
  <2>5. \A i \in Shares : screenTrack' # i
    BY <1>2, <1>4
  <2>6. /\ slice'.screenShare = "inactive" /\ screenTrack' = NoShare
        /\ CanEmit' /\ told' # Nothing => told' = slice'
    BY <1>2
  <2> QED
    BY <2>3, <2>4, <2>5, <2>6 DEF Consistent
<1> QED
  BY <1>6, <1>7, <1>8, <1>9 DEF Telling

\* A start() whose replaceTrack is settled: the share of this call is on and
\* sent, or one of an earlier call is over.
LEMMA StartSettledTold ==
  ASSUME ToldInv, NEW n \in 1..Len(queue), NEW i \in Shares,
         i = queue[n].who, Settled(n),
         \/ /\ queue[n].call = handle /\ sender' = queue[n].track
            /\ start' = [start EXCEPT ![i].at = "on"]
            /\ Publish(stream, "active") /\ UNCHANGED <<screenTrack>>
         \/ /\ queue[n].call # handle /\ sender' = sender
            /\ start' = [start EXCEPT ![i].at = "over"]
            /\ screenTrack' = NoShare /\ UNCHANGED <<slice, told>>,
         UNCHANGED <<session, transport, handle, calls, stop, clash>>
  PROVE  Telling'
<1>1. ShareTypeOK /\ QueueInv /\ Calling /\ Stopping /\ Awaited
  BY DEF ToldInv, IInv, Telling
<1>2. PICK at \in [1..Len(queue') -> 1..Len(queue)] :
        /\ \A m \in 1..Len(queue') : at[m] # n /\ queue'[m] = queue[at[m]]
        /\ \A k, m \in 1..Len(queue') : k < m <=> at[k] < at[m]
  BY <1>1, SettledOrder
<1>3. /\ Len(queue) \in Nat
      /\ \A m \in 1..Len(queue) : queue[m] \in Operation
      /\ calls \in Nat /\ handle \in Nat
      /\ \A j \in Shares : start[j].call \in Nat /\ j # NoShare
  BY <1>1, Ranges
<1>4. \A j \in Shares : start'[j].call = start[j].call
  BY <1>1 DEF ShareTypeOK
<1>5. \A j \in Shares : j # i => start'[j] = start[j]
  BY <1>1 DEF ShareTypeOK
<1>6. start'[i].at \in {"on", "over"}
  BY <1>1 DEF ShareTypeOK
<1>7. start[i].at = "replacing" /\ start[i].call = queue[n].call
  BY <1>1, <1>3 DEF QueueInv, Awaited
<1>8. start[i].call # NoCall
  BY <1>1, <1>7 DEF Calling
<1>9. Calling'
  <2>1. \A j \in Shares : start'[j].at # "none" => start'[j].call # NoCall
    BY <1>1, <1>4, <1>5, <1>8 DEF Calling
  <2>2. \A j \in Shares : start'[j].call <= calls
    BY <1>1, <1>4 DEF Calling
  <2>3. ASSUME NEW j \in Shares, screenTrack' = j
        PROVE  start'[j].at \in {"replacing", "on"}
    <3>1. /\ screenTrack' = screenTrack
          /\ start' = [start EXCEPT ![i].at = "on"]
      BY <1>3, <2>3
    <3>2. start'[i].at = "on"
      BY <1>1, <3>1 DEF ShareTypeOK
    <3> QED
      BY <1>1, <1>5, <2>3, <3>1, <3>2 DEF Calling
  <2> QED
    BY <1>1, <2>1, <2>2, <2>3 DEF Calling
<1>10. Stopping'
  <2>1. stop.on => /\ stop.of \in Shares
                   /\ start'[stop.of].at \in {"replacing", "on", "over"}
    BY <1>1, <1>5, <1>6 DEF Stopping
  <2>2. \A k, m \in 1..Len(queue') :
          queue'[k].who = NoShare /\ queue'[m].who = NoShare => k = m
    <3> SUFFICES ASSUME NEW k \in 1..Len(queue'), NEW m \in 1..Len(queue'),
                        queue'[k].who = NoShare, queue'[m].who = NoShare
                 PROVE  k = m
      OBVIOUS
    <3>1. at[k] = at[m]
      BY <1>1, <1>2 DEF Stopping
    <3>2. at[k] \in Int /\ at[m] \in Int
      BY <1>2, <1>3
    <3>3. ~ (k < m) /\ ~ (m < k)
      BY <1>2, <3>1, <3>2
    <3> QED
      BY <3>3
  <2>3. \A k, m \in 1..Len(queue') :
          queue'[k].who = NoShare /\ queue'[m].who = stop.of => m < k
    <3> SUFFICES ASSUME NEW k \in 1..Len(queue'), NEW m \in 1..Len(queue'),
                        queue'[k].who = NoShare, queue'[m].who = stop.of
                 PROVE  m < k
      OBVIOUS
    <3>1. /\ at[k] \in 1..Len(queue) /\ queue[at[k]].who = NoShare
          /\ at[m] \in 1..Len(queue) /\ queue[at[m]].who = stop.of
      BY <1>2
    <3>2. at[m] < at[k]
      BY <1>1, <3>1 DEF Stopping
    <3> QED
      BY <1>2, <3>2
  <2> QED
    BY <2>1, <2>2, <2>3 DEF Stopping
<1>11. Awaited'
  <2> SUFFICES ASSUME NEW m \in 1..Len(queue')
               PROVE  /\ queue'[m].call \in 1..calls
                      /\ queue'[m].who # NoShare =>
                           /\ queue'[m].call = start'[queue'[m].who].call
                           /\ queue'[m].track = queue'[m].who
                      /\ queue'[m].who = NoShare =>
                           /\ stop.on /\ queue'[m].track \notin Shares
                           /\ start'[stop.of].call <= queue'[m].call
    BY DEF Awaited
  <2>1. at[m] \in 1..Len(queue) /\ queue'[m] = queue[at[m]]
    BY <1>2
  <2>2. queue'[m].who \in Shares \cup {NoShare}
    BY <1>3, <2>1 DEF Operation
  <2>3. stop.on => stop.of \in Shares
    BY <1>1 DEF Stopping
  <2> QED
    BY <1>1, <1>4, <2>1, <2>2, <2>3 DEF Awaited
<1>12. ASSUME clash' = {} PROVE Consistent'
  <2>1. Consistent /\ OneStart
    BY <1>12 DEF ToldInv, IInv, Telling
  <2>2. screenTrack \in {NoShare, i} /\ i \in Starting
    BY <1>7, <2>1 DEF OneStart, Starting
  <2>3. ASSUME NEW m \in 1..Len(queue'), queue'[m].who # NoShare
        PROVE  FALSE
    <3>1. at[m] \in 1..Len(queue) /\ at[m] # n /\ queue'[m] = queue[at[m]]
      BY <1>2
    <3>2. queue[at[m]].who \in Starting
      BY <1>1, <1>3, <2>3, <3>1 DEF QueueInv, Starting, Operation
    <3>3. queue[at[m]].who = i
      BY <2>1, <2>2, <3>2 DEF OneStart
    <3> QED
      BY <1>1, <1>3, <3>1, <3>3 DEF QueueInv
  <2>4. CASE queue[n].call = handle
    <3>1. /\ sender' = queue[n].track /\ start' = [start EXCEPT ![i].at = "on"]
          /\ Publish(stream, "active") /\ screenTrack' = screenTrack
      BY <2>4
    <3>2. screenTrack = i /\ queue[n].track = i
      BY <1>1, <1>3, <2>1, <2>4 DEF Consistent, Awaited
    <3>3. start'[i].at = "on" /\ start'[i].call = handle
      BY <1>1, <1>4, <1>7, <2>4, <3>1 DEF ShareTypeOK
    <3>4. slice'.screenShare = "active" /\ (CanEmit => told' = slice')
      BY <3>1 DEF Publish
    <3>5. CanEmit' <=> CanEmit
      BY DEF CanEmit
    <3> QED
      BY <1>3, <2>3, <3>1, <3>2, <3>3, <3>4, <3>5 DEF Consistent
  <2>5. CASE queue[n].call # handle
    <3>1. /\ sender' = sender /\ screenTrack' = NoShare
          /\ UNCHANGED <<slice, told>>
      BY <2>5
    <3>2. slice'.screenShare = "inactive"
      BY <1>7, <2>1, <2>2, <3>1 DEF Consistent
    <3>3. ~ (session = "connected" /\ sender \in Shares)
      BY <1>3, <1>7, <2>1, <2>2 DEF Consistent
    <3>4. (CanEmit' <=> CanEmit) /\ (CanEmit /\ told # Nothing => told = slice)
      BY <2>1 DEF CanEmit, Consistent
    <3>5. \A j \in Shares : screenTrack' # j
      BY <1>3, <3>1
    <3> QED
      BY <2>3, <3>1, <3>2, <3>3, <3>4, <3>5 DEF Consistent
  <2> QED
    BY <2>4, <2>5
<1> QED
  BY <1>9, <1>10, <1>11, <1>12 DEF Telling

\* A stop() that begins, or is through at once.
LEMMA StopTold ==
  ASSUME ToldInv, NEW scr, NEW str, NEW leaving \in BOOLEAN, MayStop,
         Stop(scr, str, leaving),
         UNCHANGED <<transport, calls, sender, start, clash>>
  PROVE  Telling'
<1>1. ShareTypeOK /\ QueueInv /\ Calling /\ Stopping /\ Awaited
  BY DEF ToldInv, IInv, Telling
<1>2. /\ Len(queue) \in Nat
      /\ \A m \in 1..Len(queue) : queue[m] \in Operation
      /\ calls \in Nat /\ handle \in Nat
      /\ \A j \in Shares : start[j].call \in Nat /\ j # NoShare
      /\ NoTrack \notin Shares /\ Camera \notin Shares
  BY <1>1, Ranges
<1>3. ~ stop.on /\ screenTrack \in Shares
  BY <1>1 DEF MayStop, ShareTypeOK
<1>4. \A m \in 1..Len(queue) : queue[m].who # NoShare
  BY <1>1, <1>3 DEF Awaited
<1>5. CASE handle = NoCall
  <2>1. StopDone(scr, str, leaving) /\ queue' = queue
    BY <1>5 DEF Stop
  <2>2. /\ screenTrack' = NoShare /\ stop' = Idle
        /\ slice'.screenShare = "inactive"
        /\ \/ session' = session /\ handle' = handle
           \/ session' = "idle" /\ handle' = NoCall
        /\ CanEmit' /\ told' # Nothing => told' = slice'
    BY <1>1, <2>1, StopDoneTells
  <2>3. handle' = NoCall /\ session' # "connected"
    BY <1>1, <1>5, <2>2 DEF Calling
  <2>4. \A j \in Shares : screenTrack' # j
    BY <1>2, <2>2
  <2>5. Calling'
    BY <1>1, <2>3, <2>4 DEF Calling
  <2>6. Stopping'
    BY <1>4, <2>1, <2>2 DEF Stopping, Idle
  <2>7. Awaited'
    BY <1>1, <1>4, <2>1 DEF Awaited
  <2>8. \A m \in 1..Len(queue) : queue[m].call # NoCall
    BY <1>1, <1>2 DEF Awaited, NoCall
  <2>9. Consistent'
    BY <2>1, <2>2, <2>3, <2>4, <2>8 DEF Consistent
  <2> QED
    BY <2>5, <2>6, <2>7, <2>9 DEF Telling
<1>6. CASE handle # NoCall
  <2>1. /\ stop' = [on |-> TRUE, leaving |-> leaving, of |-> screenTrack]
        /\ UNCHANGED <<session, handle, screenTrack, slice, told>>
    BY <1>6 DEF Stop
  <2>2. PICK track \in {Camera, NoTrack} : Await(NoShare, track)
    BY <1>6 DEF Stop
  <2>3. /\ Len(queue') = Len(queue) + 1
        /\ \A m \in 1..Len(queue) : queue'[m] = queue[m]
        /\ queue'[Len(queue) + 1] =
             [who |-> NoShare, track |-> track, call |-> handle]
    BY <1>1, <2>2, AppendProperties DEF Await, ShareTypeOK
  <2>4. \A m \in 1..Len(queue') : m \in 1..Len(queue) \/ m = Len(queue) + 1
    BY <1>2, <2>3
  <2>5. Calling'
    BY <1>1, <2>1 DEF Calling
  <2>6. Stopping'
    <3>1. stop'.on /\ stop'.of = screenTrack
      BY <2>1
    <3>2. start[screenTrack].at \in {"replacing", "on"}
      BY <1>1, <1>3 DEF Calling
    <3>3. \A m \in 1..Len(queue') :
            queue'[m].who = NoShare => m = Len(queue) + 1
      BY <1>4, <2>3, <2>4
    <3>4. \A m \in 1..Len(queue') : queue'[m].who \in Shares => m \in 1..Len(queue)
      BY <1>2, <2>3, <2>4
    <3>5. \A k, m \in 1..Len(queue') :
            queue'[k].who = NoShare /\ queue'[m].who = screenTrack => m < k
      BY <1>2, <1>3, <3>3, <3>4
    <3> QED
      BY <1>3, <3>1, <3>2, <3>3, <3>5 DEF Stopping
  <2>7. Awaited'
    <3>1. stop'.on /\ stop'.of = screenTrack
      BY <2>1
    <3>2. handle \in 1..calls
      BY <1>1, <1>2, <1>6 DEF Calling, NoCall
    <3>3. start[screenTrack].call <= handle
      BY <1>1, <1>3, <1>6 DEF Calling
    <3> SUFFICES ASSUME NEW m \in 1..Len(queue')
                 PROVE  /\ queue'[m].call \in 1..calls
                        /\ queue'[m].who # NoShare =>
                             /\ queue'[m].call = start[queue'[m].who].call
                             /\ queue'[m].track = queue'[m].who
                        /\ queue'[m].who = NoShare =>
                             /\ queue'[m].track \notin Shares
                             /\ start[screenTrack].call <= queue'[m].call
      BY <3>1 DEF Awaited
    <3>4. CASE m \in 1..Len(queue)
      BY <1>1, <1>4, <2>3, <3>4 DEF Awaited
    <3>5. CASE m = Len(queue) + 1
      BY <1>2, <2>3, <3>2, <3>3, <3>5
    <3> QED
      BY <2>4, <3>4, <3>5
  <2>8. ASSUME clash' = {} PROVE Consistent'
    <3>1. Consistent
      BY <2>8 DEF ToldInv, Telling
    <3>2. \A m \in 1..Len(queue') :
            queue'[m].who # NoShare => m \in 1..Len(queue)
      BY <2>3, <2>4
    <3>3. CanEmit' <=> CanEmit
      BY <2>1 DEF CanEmit
    <3> QED
      BY <2>1, <2>3, <3>1, <3>2, <3>3 DEF Consistent
  <2> QED
    BY <2>5, <2>6, <2>7, <2>8 DEF Telling
<1> QED
  BY <1>5, <1>6

\* What the other starts do while one is clicked, cancelled or refused.
LEMMA StartKept ==
  ASSUME ToldInv, NEW i \in Shares, start[i].at \in {"none", "picker"},
         \A j \in Shares : j # i => start'[j] = start[j],
         start'[i].at \in {"picker", "over"}, start'[i].call <= calls,
         start'[i].call # NoCall,
         screenTrack = NoShare \/ clash # {},
         screenTrack' \in {screenTrack, NoShare}, clash \subseteq clash',
         UNCHANGED <<session, transport, handle, calls, sender, stop, queue,
                     slice, told>>
  PROVE  Telling'
<1>1. ShareTypeOK /\ QueueInv /\ Calling /\ Stopping /\ Awaited
  BY DEF ToldInv, IInv, Telling
<1>2. /\ Len(queue) \in Nat
      /\ \A m \in 1..Len(queue) : queue[m] \in Operation
      /\ \A j \in Shares : j # NoShare
  BY <1>1, Ranges
<1>3. screenTrack # i
  BY <1>1 DEF Calling
<1>4. Calling'
  BY <1>1, <1>2, <1>3 DEF Calling
<1>5. Stopping'
  <2>1. stop.on => stop.of # i
    BY <1>1 DEF Stopping
  <2> QED
    BY <1>1, <2>1 DEF Stopping
<1>6. Awaited'
  <2>1. \A m \in 1..Len(queue) : /\ queue[m].who # i
                                 /\ queue[m].who \in Shares \cup {NoShare}
    BY <1>1, <1>2 DEF QueueInv, Operation
  <2>2. stop.on => stop.of \in Shares /\ stop.of # i
    BY <1>1 DEF Stopping
  <2> QED
    BY <1>1, <2>1, <2>2 DEF Awaited
<1>7. ASSUME clash' = {} PROVE Consistent'
  <2>1. Consistent /\ screenTrack = NoShare /\ screenTrack' = NoShare
    BY <1>7 DEF ToldInv, Telling
  <2>2. CanEmit' <=> CanEmit
    BY DEF CanEmit
  <2> QED
    BY <1>2, <2>1, <2>2 DEF Consistent
<1> QED
  BY <1>4, <1>5, <1>6, <1>7 DEF Telling

\* A chosen screen: nothing is sent or awaited of this call before it.
LEMMA PickerChosenTold ==
  ASSUME ToldInv, NEW i \in Shares, PickerChosen(i)
  PROVE  Telling'
<1>1. ShareTypeOK /\ QueueInv /\ Calling /\ Stopping /\ Awaited
  BY DEF ToldInv, IInv, Telling
<1>2. /\ Len(queue) \in Nat
      /\ \A m \in 1..Len(queue) : queue[m] \in Operation
      /\ calls \in Nat /\ handle \in Nat
      /\ \A j \in Shares : start[j].call \in Nat /\ j # NoShare
  BY <1>1, Ranges
<1>3. /\ start[i].at = "picker"
      /\ UNCHANGED <<session, transport, handle, calls, sender, stream, stop,
                     slice, told, toggles, clash>>
  BY DEF PickerChosen
<1>4. /\ start[i].call # NoCall /\ start[i].call <= calls
      /\ \A j \in Shares : screenTrack = j => j # i
  BY <1>1, <1>3 DEF Calling
<1>5. clash = {} => screenTrack = NoShare
  BY <1>3 DEF ToldInv, IInv, OneStart
<1>6. CASE start[i].call = handle
  <2>1. /\ start' = [start EXCEPT ![i].at = "replacing"]
        /\ screenTrack' = i /\ Await(i, i)
    BY <1>6 DEF PickerChosen
  <2>2. /\ Len(queue') = Len(queue) + 1
        /\ \A m \in 1..Len(queue) : queue'[m] = queue[m]
        /\ queue'[Len(queue) + 1] = [who |-> i, track |-> i, call |-> handle]
    BY <1>1, <2>1, AppendProperties DEF Await, ShareTypeOK
  <2>3. \A m \in 1..Len(queue') : m \in 1..Len(queue) \/ m = Len(queue) + 1
    BY <1>2, <2>2
  <2>4. /\ start'[i].at = "replacing" /\ start'[i].call = handle
        /\ \A j \in Shares : j # i => start'[j] = start[j]
    BY <1>1, <1>6, <2>1 DEF ShareTypeOK
  <2>5. Calling'
    BY <1>1, <1>3, <1>4, <1>6, <2>1, <2>4 DEF Calling
  <2>6. \A m \in 1..Len(queue') :
          queue'[m].who = NoShare =>
            m \in 1..Len(queue) /\ queue[m].who = NoShare /\ stop.on
    BY <1>1, <1>2, <2>2, <2>3 DEF Awaited
  <2>7. stop.on => stop.of \in Shares /\ stop.of # i
    BY <1>1, <1>3 DEF Stopping
  <2>8. Stopping'
    <3>1. stop.on => start'[stop.of].at \in {"replacing", "on", "over"}
      BY <1>1, <2>4, <2>7 DEF Stopping
    <3>2. \A k, m \in 1..Len(queue') :
            queue'[k].who = NoShare /\ queue'[m].who = NoShare => k = m
      BY <1>1, <2>6 DEF Stopping
    <3>3. ASSUME NEW k \in 1..Len(queue'), NEW m \in 1..Len(queue'),
                 queue'[k].who = NoShare, queue'[m].who = stop.of
          PROVE  m < k
      <4>1. stop.of # i /\ k \in 1..Len(queue) /\ queue[k].who = NoShare
        BY <2>6, <2>7, <3>3
      <4>2. m \in 1..Len(queue) /\ queue[m].who = stop.of
        BY <2>2, <2>3, <3>3, <4>1
      <4> QED
        BY <1>1, <4>1, <4>2 DEF Stopping
    <3> QED
      BY <1>3, <2>7, <3>1, <3>2, <3>3 DEF Stopping
  <2>9. Awaited'
    <3> SUFFICES ASSUME NEW m \in 1..Len(queue')
                 PROVE  /\ queue'[m].call \in 1..calls
                        /\ queue'[m].who # NoShare =>
                             /\ queue'[m].call = start'[queue'[m].who].call
                             /\ queue'[m].track = queue'[m].who
                        /\ queue'[m].who = NoShare =>
                             /\ stop.on /\ queue'[m].track \notin Shares
                             /\ start'[stop.of].call <= queue'[m].call
      BY <1>3 DEF Awaited
    <3>1. CASE m \in 1..Len(queue)
      <4>1. queue[m].who \in Shares \cup {NoShare}
        BY <1>2, <3>1 DEF Operation
      <4>2. queue[m].who # i
        BY <1>1, <1>2, <1>3, <3>1 DEF QueueInv
      <4> QED
        BY <1>1, <2>2, <2>4, <2>7, <3>1, <4>1, <4>2 DEF Awaited
    <3>2. CASE m = Len(queue) + 1
      <4>1. handle \in 1..calls
        BY <1>2, <1>4, <1>6 DEF NoCall
      <4> QED
        BY <1>2, <2>2, <2>4, <3>2, <4>1
    <3> QED
      BY <2>3, <3>1, <3>2
  <2>10. ASSUME clash' = {} PROVE Consistent'
    <3>1. Consistent /\ screenTrack = NoShare
      BY <1>3, <1>5, <2>10 DEF ToldInv, Telling
    <3>2. slice'.screenShare = "inactive"
      BY <1>3, <3>1 DEF Consistent
    <3>3. ~ (session = "connected" /\ sender \in Shares)
      BY <1>2, <3>1 DEF Consistent
    <3>4. \A m \in 1..Len(queue') :
            queue'[m].who # NoShare /\ queue'[m].call = handle =>
              queue'[m].who = i
      <4> SUFFICES ASSUME NEW m \in 1..Len(queue'),
                          queue'[m].who # NoShare, queue'[m].call = handle,
                          m \in 1..Len(queue)
                   PROVE  FALSE
        BY <2>2, <2>3
      <4> QED
        BY <2>2, <3>1 DEF Consistent
    <3>5. (CanEmit' <=> CanEmit) /\ (CanEmit /\ told # Nothing => told = slice)
      BY <1>3, <3>1 DEF CanEmit, Consistent
    <3> QED
      BY <1>2, <1>3, <2>1, <2>4, <3>2, <3>3, <3>4, <3>5 DEF Consistent
  <2> QED
    BY <2>5, <2>8, <2>9, <2>10 DEF Telling
<1>7. CASE start[i].call # handle
  <2>1. /\ start' = [start EXCEPT ![i].at = "over"]
        /\ screenTrack' = NoShare /\ UNCHANGED queue
    BY <1>7 DEF PickerChosen
  <2>2. /\ start'[i].at = "over" /\ start'[i].call = start[i].call
        /\ \A j \in Shares : j # i => start'[j] = start[j]
    BY <1>1, <2>1 DEF ShareTypeOK
  <2> QED
    BY <1>3, <1>4, <1>5, <2>1, <2>2, StartKept
<1> QED
  BY <1>6, <1>7

LEMMA StartClickTold == ToldInv /\ StartClick => Telling'
<1> SUFFICES ASSUME ToldInv, StartClick PROVE Telling'
  OBVIOUS
<1>1. ShareTypeOK /\ Calling
  BY DEF ToldInv, IInv, Telling
<1>2. PICK i \in Shares :
        /\ start[i].at = "none"
        /\ start' = [start EXCEPT ![i] = [at |-> "picker", call |-> handle]]
  BY DEF StartClick
<1>3. /\ start'[i].at = "picker" /\ start'[i].call = handle
      /\ \A j \in Shares : j # i => start'[j] = start[j]
  BY <1>1, <1>2 DEF ShareTypeOK
<1>4. /\ session = "connected" /\ screenTrack = NoShare /\ clash \subseteq clash'
      /\ UNCHANGED <<session, transport, handle, calls, sender, screenTrack,
                     stop, queue, slice, told>>
  BY DEF StartClick, ButtonEnabled
<1>5. handle # NoCall /\ handle <= calls
  <2>1. handle = calls /\ handle # NoCall
    BY <1>1, <1>4 DEF Calling
  <2> QED
    BY <1>1, <2>1, Ranges
<1> QED
  BY <1>2, <1>3, <1>4, <1>5, StartKept

LEMMA PickerCancelledTold ==
  ASSUME ToldInv, NEW i \in Shares, PickerCancelled(i)
  PROVE  Telling'
<1>1. ShareTypeOK /\ Calling
  BY DEF ToldInv, IInv, Telling
<1>2. /\ start[i].at = "picker" /\ start' = [start EXCEPT ![i].at = "over"]
      /\ UNCHANGED <<session, transport, handle, calls, sender, screenTrack,
                     stop, queue, slice, told, clash>>
  BY DEF PickerCancelled
<1>3. /\ start'[i].at = "over" /\ start'[i].call = start[i].call
      /\ \A j \in Shares : j # i => start'[j] = start[j]
  BY <1>1, <1>2 DEF ShareTypeOK
<1>4. start[i].call # NoCall /\ start[i].call <= calls
  BY <1>1, <1>2 DEF Calling
<1>5. screenTrack = NoShare \/ clash # {}
  BY <1>2 DEF ToldInv, IInv, OneStart
<1> QED
  BY <1>2, <1>3, <1>4, <1>5, StartKept

\* The steps that concern neither the starts nor the stops: the calls may move
\* on, the slice is reset or published, the sender is that of a new connection.
LEMMA ControllerKeptTold ==
  ASSUME ToldInv, UNCHANGED controller,
         calls' \in Nat, calls <= calls', handle' \in {NoCall, calls'},
         session' = "connected" <=> handle' # NoCall,
         handle' \in {NoCall, handle} \/ calls < handle',
         slice'.screenShare \in {slice.screenShare, "inactive"},
         handle' # NoCall /\ handle' = handle =>
           slice'.screenShare = slice.screenShare,
         session' = "connected" =>
           \/ sender' \notin Shares
           \/ sender' = sender /\ handle' = handle,
         handle' = handle /\ handle' # NoCall => sender' = sender,
         CanEmit' /\ told' # Nothing =>
           \/ told' = slice'
           \/ CanEmit /\ UNCHANGED <<slice, told>>
  PROVE  Telling'
<1>1. ShareTypeOK /\ QueueInv /\ Calling /\ Stopping /\ Awaited
  BY DEF ToldInv, IInv, Telling
<1>2. UNCHANGED <<start, screenTrack, stop, queue, clash>>
  BY DEF controller
<1>3. /\ Len(queue) \in Nat
      /\ \A m \in 1..Len(queue) : queue[m] \in Operation
      /\ calls \in Nat /\ handle \in Nat
      /\ \A j \in Shares : start[j].call \in Nat /\ j # NoShare
  BY <1>1, Ranges
<1>4. Calling'
  BY <1>1, <1>2, <1>3 DEF Calling
<1>5. Stopping'
  BY <1>1, <1>2 DEF Stopping
<1>6. Awaited'
  <2>1. \A m \in 1..Len(queue) : queue[m].call \in 1..calls'
    BY <1>1, <1>3 DEF Awaited
  <2> QED
    BY <1>1, <1>2, <2>1 DEF Awaited
<1>7. ASSUME clash' = {} PROVE Consistent'
  <2>1. Consistent
    BY <1>2, <1>7 DEF ToldInv, Telling
  <2>2. \A m \in 1..Len(queue) : queue[m].call = handle' => handle' = handle
    BY <1>1, <1>3 DEF Awaited, NoCall
  <2>3. \A i \in Shares : start[i].at = "on" /\ start[i].call = handle' =>
                            handle' = handle /\ handle' # NoCall
    BY <1>1, <1>3 DEF Calling
  <2>4. /\ screenTrack' = NoShare => slice'.screenShare = "inactive"
        /\ \A i \in Shares : screenTrack' = i /\ start'[i].at = "replacing" =>
             slice'.screenShare = "inactive"
    BY <1>2, <2>1 DEF Consistent
  <2>5. session' = "connected" /\ sender' \in Shares =>
          /\ screenTrack' = sender' /\ start'[sender'].at = "on"
          /\ start'[sender'].call = handle'
    <3> SUFFICES ASSUME session' = "connected", sender' \in Shares
                 PROVE  /\ screenTrack' = sender' /\ start'[sender'].at = "on"
                        /\ start'[sender'].call = handle'
      OBVIOUS
    <3>1. sender' = sender /\ handle' = handle /\ session = "connected"
      BY <1>1 DEF Calling
    <3> QED
      BY <1>2, <2>1, <3>1 DEF Consistent
  <2>6. \A m \in 1..Len(queue') :
          queue'[m].who # NoShare /\ queue'[m].call = handle' =>
            screenTrack' = queue'[m].who
    BY <1>2, <2>1, <2>2 DEF Consistent
  <2>7. \A i \in Shares :
          screenTrack' = i /\ start'[i].at = "on" /\ start'[i].call = handle' =>
            slice'.screenShare = "active" /\ sender' = i
    BY <1>2, <2>1, <2>3 DEF Consistent
  <2>8. CanEmit' /\ told' # Nothing => told' = slice'
    BY <2>1 DEF Consistent
  <2> QED
    BY <2>4, <2>5, <2>6, <2>7, <2>8 DEF Consistent
<1> QED
  BY <1>4, <1>5, <1>6, <1>7 DEF Telling

\* How calls begin and end, the camera button and a leave that stops nothing.
LEMMA CallsTold ==
  ASSUME ToldInv,
         \/ CallBegins \/ CallEnds("waiting-for-peer") \/ CallEnds("failed")
         \/ LoseSignaling \/ JoinAgain \/ CameraToggled
         \/ (Leave /\ ~ MayStop)
  PROVE  Telling'
<1>1. /\ ShareTypeOK /\ Calling
      /\ handle \in {NoCall, calls}
      /\ session = "connected" <=> handle # NoCall
      /\ slice.screenShare \in {"active", "inactive"}
  BY DEF ToldInv, IInv, Telling, Calling, ShareTypeOK, MediaState
<1>2. calls \in Nat /\ handle \in Nat /\ NoTrack \notin Shares /\ Camera \notin Shares
  BY <1>1, Ranges
<1>3. ASSUME CallBegins PROVE Telling'
  <2>1. /\ calls' = calls + 1 /\ handle' = calls' /\ session' = "connected"
        /\ sender' = (IF stream.held THEN Camera ELSE NoTrack)
        /\ told' = Nothing /\ UNCHANGED <<controller, slice>>
    BY <1>3 DEF CallBegins
  <2>2. /\ calls' \in Nat /\ calls <= calls' /\ calls < handle'
        /\ handle' # NoCall /\ handle' # handle /\ sender' \notin Shares
    BY <1>1, <1>2, <2>1 DEF NoCall
  <2> QED
    BY <2>1, <2>2, ControllerKeptTold
<1>4. ASSUME NEW next \in {"waiting-for-peer", "failed"}, CallEnds(next)
      PROVE  Telling'
  <2>1. /\ session' = next /\ handle' = NoCall /\ told' = Nothing
        /\ UNCHANGED <<calls, controller, slice>>
    BY <1>4 DEF CallEnds
  <2> QED
    BY <1>2, <2>1, ControllerKeptTold
<1>5. ASSUME LoseSignaling PROVE Telling'
  <2>1. /\ session' = "connected" <=> session = "connected"
        /\ transport' = "error"
        /\ UNCHANGED <<handle, calls, sender, controller, slice, told>>
    BY <1>5 DEF LoseSignaling
  <2>2. ~ CanEmit'
    BY <2>1 DEF CanEmit
  <2> QED
    BY <1>1, <1>2, <2>1, <2>2, ControllerKeptTold
<1>6. ASSUME JoinAgain PROVE Telling'
  <2>1. /\ session = "idle" /\ session' = "waiting-for-peer" /\ slice' = Defaults
        /\ UNCHANGED <<handle, calls, sender, controller, told>>
    BY <1>6 DEF JoinAgain
  <2>2. ~ CanEmit' /\ handle' = NoCall /\ slice'.screenShare = "inactive"
    BY <1>1, <2>1 DEF CanEmit, Defaults
  <2> QED
    BY <1>2, <2>1, <2>2, ControllerKeptTold
<1>7. ASSUME CameraToggled PROVE Telling'
  <2>1. /\ Publish([stream EXCEPT !.enabled = ~ @], slice.screenShare)
        /\ UNCHANGED <<session, transport, handle, calls, sender, controller>>
    BY <1>7 DEF CameraToggled
  <2>2. slice'.screenShare = slice.screenShare /\ (CanEmit => told' = slice')
    BY <2>1 DEF Publish
  <2>3. UNCHANGED <<session, handle, calls, sender, controller>>
    BY <2>1
  <2>4. CanEmit' /\ told' # Nothing => told' = slice'
    <3>1. CanEmit' <=> CanEmit
      BY <2>1 DEF CanEmit
    <3> QED
      BY <2>2, <3>1
  <2>5. slice'.screenShare = slice.screenShare
    BY <2>2
  <2> QED
    BY <1>1, <1>2, <2>3, <2>4, <2>5, ControllerKeptTold
<1>8. ASSUME Leave, ~ MayStop PROVE Telling'
  <2>1. /\ LeaveDone /\ UNCHANGED <<screenTrack, stop, queue>>
        /\ UNCHANGED <<calls, sender, start, clash>>
    BY <1>8 DEF Leave
  <2>2. /\ session' = "idle" /\ handle' = NoCall
        /\ slice'.screenShare = "inactive" /\ told' = Nothing
    BY <2>1 DEF LeaveDone, Defaults
  <2>3. UNCHANGED controller
    BY <2>1 DEF controller
  <2> QED
    BY <1>2, <2>1, <2>2, <2>3, ControllerKeptTold
<1> QED
  BY <1>3, <1>4, <1>5, <1>6, <1>7, <1>8

LEMMA InitTold == Init => Telling
<1> SUFFICES ASSUME Init PROVE Telling
  OBVIOUS
<1>1. /\ session = "waiting-for-peer" /\ handle = NoCall /\ calls = 0
      /\ sender = NoTrack /\ screenTrack = NoShare /\ stop = Idle
      /\ start = [i \in Shares |-> [at |-> "none", call |-> NoCall]]
      /\ queue = <<>> /\ slice = Defaults /\ told = Nothing
  BY DEF Init
<1>2. \A i \in Shares : i # NoShare
  BY BoundsAssumption DEF Shares, NoShare
<1>3. Calling
  BY <1>1, <1>2 DEF Calling, NoCall
<1>4. Stopping /\ Awaited
  BY <1>1 DEF Stopping, Awaited, Idle
<1>5. Consistent
  BY <1>1, <1>2 DEF Consistent, Defaults, CanEmit
<1> QED
  BY <1>3, <1>4, <1>5 DEF Telling

LEMMA ReplacedTold == ToldInv /\ Replaced => Telling'
<1> SUFFICES ASSUME ToldInv, Replaced PROVE Telling'
  OBVIOUS
<1>1. /\ DOMAIN queue = 1..Len(queue)
      /\ \A m \in 1..Len(queue) : queue[m] \in Operation
  BY LenProperties, Ranges DEF ToldInv, IInv, ShareTypeOK
<1>2. PICK n \in 1..Len(queue) :
        /\ queue[n].call = handle /\ \A m \in 1..(n - 1) : queue[m].call # handle
        /\ Settled(n) /\ sender' = queue[n].track
        /\ IF queue[n].who # NoShare
           THEN /\ start' = [start EXCEPT ![queue[n].who].at = "on"]
                /\ Publish(stream, "active")
                /\ UNCHANGED <<session, handle, stream, screen, screenTrack,
                               stop, clash>>
           ELSE /\ StopDone(screen, stream, stop.leaving)
                /\ StopMeetsStart /\ UNCHANGED start
        /\ UNCHANGED <<transport, calls, toggles>>
  BY <1>1 DEF Replaced
<1>3. CASE queue[n].who = NoShare
  BY <1>2, <1>3, StopSettledTold
<1>4. CASE queue[n].who # NoShare
  <2>1. queue[n].who \in Shares
    BY <1>1, <1>4 DEF Operation
  <2> QED
    BY <1>2, <1>4, <2>1, StartSettledTold
<1> QED
  BY <1>3, <1>4

LEMMA RefusedTold ==
  ASSUME ToldInv, NEW n, Refused(n)
  PROVE  Telling'
<1>1. /\ DOMAIN queue = 1..Len(queue)
      /\ \A m \in 1..Len(queue) : queue[m] \in Operation
  BY LenProperties, Ranges DEF ToldInv, IInv, ShareTypeOK
<1>2. /\ n \in 1..Len(queue) /\ queue[n].call # handle /\ Settled(n)
      /\ UNCHANGED <<transport, calls, sender, toggles>>
  BY <1>1 DEF Refused
<1>3. CASE queue[n].who = NoShare
  <2>1. /\ StopDone(screen, stream, stop.leaving)
        /\ StopMeetsStart /\ UNCHANGED start
    BY <1>3 DEF Refused
  <2> QED
    BY <1>2, <1>3, <2>1, StopSettledTold
<1>4. CASE queue[n].who # NoShare
  <2>1. /\ start' = [start EXCEPT ![queue[n].who].at = "over"]
        /\ screenTrack' = NoShare
        /\ UNCHANGED <<session, handle, stream, stop, slice, told, clash>>
    BY <1>4 DEF Refused
  <2>2. queue[n].who \in Shares
    BY <1>1, <1>2, <1>4 DEF Operation
  <2> QED
    BY <1>2, <1>4, <2>1, <2>2, StartSettledTold
<1> QED
  BY <1>3, <1>4

\* The clicks that stop a share, and the browser's own button.
LEMMA StopsTold ==
  ASSUME ToldInv,
         \/ StopClick \/ (Leave /\ MayStop)
         \/ \E i \in Shares : BrowserStop(i)
  PROVE  Telling'
<1>1. CASE StopClick
  <2>1. /\ MayStop /\ Stop(screen, stream, FALSE)
        /\ UNCHANGED <<transport, calls, sender, start, toggles, clash>>
    BY <1>1 DEF StopClick
  <2> QED
    BY <2>1, StopTold
<1>2. CASE Leave /\ MayStop
  <2>1. /\ Stop(screen, Released, TRUE)
        /\ UNCHANGED <<transport, calls, sender, start, toggles, clash>>
    BY <1>2 DEF Leave
  <2> QED
    BY <1>2, <2>1, StopTold
<1>3. ASSUME NEW i \in Shares, BrowserStop(i) PROVE Telling'
  <2> DEFINE scr == [screen EXCEPT ![i] = FALSE]
  <2>1. UNCHANGED <<transport, calls, sender, start, toggles, clash>>
    BY <1>3 DEF BrowserStop
  <2>2. CASE start[i].at = "on" /\ screenTrack = i /\ MayStop
    <3>1. Stop(scr, stream, FALSE)
      BY <1>3, <2>2 DEF BrowserStop
    <3> HIDE DEF scr
    <3> QED
      BY <2>1, <2>2, <3>1, StopTold
  <2>3. CASE ~ (start[i].at = "on" /\ screenTrack = i /\ MayStop)
    <3>1. UNCHANGED <<session, handle, stream, screenTrack, stop, queue, slice,
                      told>>
      BY <1>3, <2>3 DEF BrowserStop
    <3>2. UNCHANGED controller /\ (CanEmit' <=> CanEmit)
      BY <2>1, <3>1 DEF controller, CanEmit
    <3>3. /\ calls \in Nat /\ handle \in {NoCall, calls}
          /\ session = "connected" <=> handle # NoCall
      BY Ranges DEF ToldInv, IInv, Telling, Calling
    <3> QED
      BY <2>1, <3>1, <3>2, <3>3, ControllerKeptTold
  <2> QED
    BY <2>2, <2>3
<1> QED
  BY <1>1, <1>2, <1>3

LEMMA NextTold == ToldInv /\ [Next]_vars => ToldInv'
<1> SUFFICES ASSUME ToldInv, [Next]_vars PROVE Telling'
  BY NextIInv DEF ToldInv
<1>1. CASE StartClick
  BY <1>1, StartClickTold
<1>2. CASE StopClick \/ (Leave /\ MayStop)
  BY <1>2, StopsTold
<1>3. ASSUME NEW i \in Shares, BrowserStop(i) PROVE Telling'
  BY <1>3, StopsTold
<1>4. ASSUME NEW i \in Shares, PickerCancelled(i) PROVE Telling'
  BY <1>4, PickerCancelledTold
<1>5. ASSUME NEW i \in Shares, PickerChosen(i) PROVE Telling'
  BY <1>5, PickerChosenTold
<1>6. CASE Replaced
  BY <1>6, ReplacedTold
<1>7. ASSUME NEW n \in 1..(MaxShares + MaxCalls), Refused(n) PROVE Telling'
  BY <1>7, RefusedTold
<1>8. CASE \/ CallBegins \/ CallEnds("waiting-for-peer") \/ CallEnds("failed")
           \/ LoseSignaling \/ JoinAgain \/ CameraToggled
           \/ (Leave /\ ~ MayStop)
  BY <1>8, CallsTold
<1>9. CASE UNCHANGED vars
  <2>1. UNCHANGED <<session, transport, handle, calls, sender, slice, told>>
    BY <1>9 DEF vars
  <2>2. UNCHANGED controller /\ (CanEmit' <=> CanEmit)
    BY <1>9 DEF vars, controller, CanEmit
  <2>3. /\ calls \in Nat /\ handle \in {NoCall, calls}
        /\ session = "connected" <=> handle # NoCall
    BY Ranges DEF ToldInv, IInv, Telling, Calling
  <2> QED
    BY <2>1, <2>2, <2>3, ControllerKeptTold
<1> QED
  BY <1>1, <1>2, <1>3, <1>4, <1>5, <1>6, <1>7, <1>8, <1>9 DEF Next

-----------------------------------------------------------------------------
(* The theorems. *)

\* What the session, the controller and the awaited calls range over, through
\* every call and every end of one.
THEOREM ShareTypeCorrect == Spec => []ShareTypeOK
<1>1. IInv => ShareTypeOK
  BY DEF IInv
<1> QED
  BY <1>1, InitIInv, NextIInv, PTL DEF Spec

\* Unless two pickers were open together, a captured screen is the one the
\* controller holds, whatever ends, fails or is left (screen-share.ts).
THEOREM CaptureOwned == Spec => []CaptureIsOwned
<1>1. IInv => CaptureIsOwned
  BY DEF IInv, Owned, CaptureIsOwned
<1> QED
  BY <1>1, InitIInv, NextIInv, PTL DEF Spec

\* With nothing under way a peer that was told anything was told "active"
\* exactly when it is sent a screen, unless the share began in an earlier call,
\* two pickers were open, or a stop() ended a share started meanwhile (FR-014a).
THEOREM ToldIsSent == Spec => []ToldWhatIsSent
<1>1. Init => ToldInv
  BY InitIInv, InitTold DEF ToldInv
<1>2. ToldInv => ToldWhatIsSent
  <2> SUFFICES ASSUME ToldInv, CanEmit, queue = <<>>, told # Nothing, clash = {},
                      screenTrack # NoShare => start[screenTrack].call = handle
               PROVE  told.screenShare = "active" <=> sender \in Shares
    BY DEF ToldWhatIsSent
  <2>1. Consistent /\ Calling /\ told = slice /\ session = "connected"
    BY DEF ToldInv, Telling, Consistent, CanEmit
  <2>2. screenTrack \in Shares \cup {NoShare} /\ \A i \in Shares : i # NoShare
    BY Ranges DEF ToldInv, IInv, ShareTypeOK
  <2>3. CASE sender \in Shares
    BY <2>1, <2>3 DEF Consistent
  <2>4. CASE sender \notin Shares
    <3>1. CASE screenTrack = NoShare
      BY <2>1, <2>4, <3>1 DEF Consistent
    <3>2. CASE screenTrack \in Shares
      <4>1. start[screenTrack].at \in {"replacing", "on"}
        BY <2>1, <3>2 DEF Calling
      <4>2. start[screenTrack].call = handle
        BY <2>2, <3>2
      <4> QED
        BY <2>1, <2>4, <3>2, <4>1, <4>2 DEF Consistent
    <3> QED
      BY <2>2, <3>1, <3>2
  <2> QED
    BY <2>3, <2>4
<1> QED
  BY <1>1, <1>2, NextTold, PTL DEF Spec

=============================================================================
