--------------------------- MODULE MeshCallProofs ---------------------------
(***************************************************************************)
(* What a participant of a mesh call sends over its pairs.  The screen     *)
(* share: who owns a captured screen, what the pairs are sent and what     *)
(* their peers are told, for every number of remote peers, shares and      *)
(* rebuilt pairs.  The chat: in which order messages are shown, for every  *)
(* number of peers, messages and attempts at a pair.                       *)
(***************************************************************************)
EXTENDS MeshScreenShare, MeshChat, WellFoundedInduction, SequenceTheorems,
        FiniteSetTheorems, TLAPS

-----------------------------------------------------------------------------
(***************************************************************************)
(* The screen share.  IInv is the inductive invariant.                     *)
(***************************************************************************)

\* start() and stop() of a share, from their first await to their end.
Starting(i) == start[i].at \in {"picker", "replacing", "hung"}
Stopping(i) == stop[i].at \in {"replacing", "hung"}

\* The contexts a loop has not got through yet.
Left(call) == call.todo \cup {call.cur}

\* The pairs map names a context of its own for each remote peer, open as long
\* as it is there.
PairsOK ==
  /\ \A r \in Remotes : pairs[r] # NoContext =>
       ctx[pairs[r]].open /\ ctx[pairs[r]].during # "none"
  /\ \A r, s \in Remotes : pairs[r] = pairs[s] /\ pairs[r] # NoContext => r = s

\* The controller's flags: one start or one stop goes on at a time, a share is
\* held from the choice of its screen until its stop is through.
ControllerOK ==
  /\ ~ (ctl.starting /\ ctl.active)
  /\ ctl.stopping => ctl.active
  /\ ctl.active => ctl.share # NoShare /\ ctl.activeScreenTrack = ctl.share
  /\ ~ ctl.active => ctl.activeScreenTrack = NoShare
  /\ ~ ctl.active /\ ~ ctl.starting => ctl.share = NoShare

OneStart ==
  /\ \A i \in Shares : Starting(i) =>
       /\ ctl.starting
       /\ ctl.share = IF start[i].at = "picker" THEN NoShare ELSE i
  /\ \A i, j \in Shares : Starting(i) /\ Starting(j) => i = j

OneStop ==
  /\ \A i \in Shares : Stopping(i) => ctl.stopping
  /\ \A i, j \in Shares : Stopping(i) /\ Stopping(j) => i = j

Captured ==
  \A i \in Shares : screen[i].live => ctl.share = i /\ ~ ctl.stopping

Told == \A r \in Remotes : told[r] \in {slice, Defaults}

\* What the contexts in the map send: while no share goes on, while a start
\* awaits a replaceTrack, while a share goes on, and while a stop does.
Restored(k) == ctx[k].video = Camera \/ ctx[k].during = "stop"

Sends(k, i) ==
  \/ ctx[k].video = i
  \/ ctx[k].during = "start"
  \/ ctx[k].during = "share" /\ ctx[k].mode = "fresh"

Tile(k) ==
  /\ ~ ctl.active /\ ~ ctl.starting => Restored(k)
  /\ ctl.active /\ ~ ctl.stopping => Sends(k, ctl.share)
  /\ \A i \in Shares :
       /\ start[i].at = "picker" => Restored(k)
       /\ start[i].at = "replacing" =>
            ctx[k].video = i \/ ctx[k].during = "start" \/ k \in Left(start[i])
       /\ stop[i].at = "replacing" => Restored(k) \/ k \in Left(stop[i])

Tiles == \A k \in Listed : Tile(k)

\* The part that holds in a call: leaving it resets the controller under
\* whatever start or stop goes on.
CallInv ==
  ControllerOK /\ OneStart /\ OneStop /\ Captured /\ Told /\ Tiles

IInv == ShareTypeOK /\ PairsOK /\ (inCall => CallInv)

-----------------------------------------------------------------------------
(* The loops over the senders. *)

\* A set of naturals has a least element.
LEMMA Least ==
  ASSUME NEW S, S \subseteq Nat, S # {}
  PROVE  \E x \in S : \A y \in S : x <= y
<1> DEFINE R == {ss \in Nat \X Nat : ss[1] < ss[2]}
<1>1. IsWellFoundedOn(R, Nat)
  BY NatLessThanWellFounded DEF OpToRel
<1> HIDE DEF R
<1>2. PICK x \in S : \A y \in S : ~ (<<y, x>> \in R)
  BY <1>1, WFMin
<1>3. ASSUME NEW y \in S  PROVE x <= y
  <2>1. x \in Nat /\ y \in Nat
    OBVIOUS
  <2>2. PICK z : z = <<y, x>>
    OBVIOUS
  <2>3. z \in Nat \X Nat /\ z[1] = y /\ z[2] = x
    BY <2>1, <2>2
  <2>4. ~ (z[1] < z[2])
    BY <1>2, <2>2, <2>3, Zenon DEF R
  <2> QED
    BY <2>1, <2>3, <2>4
<1> QED
  BY <1>3

LEMMA LoopFacts ==
  ASSUME NEW ks \in SUBSET Contexts, NEW call, call = LoopOn(ks)
  PROVE  /\ call \in Call
         /\ \/ call.at = "done" /\ ks = {}
            \/ call.at = "replacing" /\ ks # {}
         /\ call.at = "replacing" => call.cur \in Contexts /\ Left(call) = ks
<1>1. CASE ks = {}
  BY <1>1 DEF LoopOn, Call
<1>2. CASE ks # {}
  <2>1. First(ks) \in ks
    <3>1. ks \subseteq Nat
      BY BoundsAssumption DEF Contexts
    <3>2. \E x \in ks : \A y \in ks : x <= y
      BY <1>2, <3>1, Least
    <3> QED
      BY <3>2 DEF First
  <2>2. call = [at |-> "replacing", cur |-> First(ks), todo |-> ks \ {First(ks)}]
    BY <1>2 DEF LoopOn
  <2> HIDE DEF First
  <2> QED
    BY <1>2, <2>1, <2>2 DEF Call, Left
<1> QED
  BY <1>1, <1>2

LEMMA ListedType == ShareTypeOK => Listed \subseteq Contexts
BY DEF ShareTypeOK, Listed

-----------------------------------------------------------------------------
(* Types. *)

CtlType == [active : BOOLEAN, starting : BOOLEAN, stopping : BOOLEAN,
            share : Shares \cup {NoShare},
            activeScreenTrack : Shares \cup {NoShare}]
ScreenType == [live : BOOLEAN, onended : BOOLEAN]
CtxType == [open : BOOLEAN, video : Tracks,
            during : {"none", "idle", "start", "share", "stop"},
            mode : {"none", "fresh", "reconnect"}]

Types ==
  /\ inCall \in BOOLEAN /\ ctl \in CtlType
  /\ start \in [Shares -> Call] /\ stop \in [Shares -> Call]
  /\ screen \in [Shares -> ScreenType]
  /\ ctx \in [Contexts -> CtxType]
  /\ pairs \in [Remotes -> Contexts \cup {NoContext}]
  /\ slice \in MediaState /\ told \in [Remotes -> MediaState]
  /\ toggles \in 0..MaxToggles

LEMMA TypesNamed == ShareTypeOK <=> Types
BY DEF ShareTypeOK, Types, CtlType, ScreenType, CtxType

LEMMA CallType ==
  ASSUME NEW c \in Call, NEW a \in {"picker", "hung", "done"}
  PROVE  [c EXCEPT !.at = a] \in Call
BY DEF Call

LEMMA VideoType ==
  ASSUME ctx \in [Contexts -> CtxType], NEW k, NEW v \in Tracks
  PROVE  [ctx EXCEPT ![k].video = v] \in [Contexts -> CtxType]
<1>1. \A j \in Contexts : [ctx[j] EXCEPT !.video = v] \in CtxType
  BY DEF CtxType
<1> QED
  BY <1>1

LEMMA TellType ==
  ASSUME Types, NEW m \in MediaState, Tell(m)
  PROVE  told' \in [Remotes -> MediaState]
BY DEF Types, Tell

LEMMA StartedType ==
  ASSUME Types, NEW i \in Shares, NEW share \in Shares \cup {NoShare},
         NEW live \in BOOLEAN, Started(i, share, live)
  PROVE  /\ ctl' \in CtlType /\ screen' \in [Shares -> ScreenType]
         /\ slice' \in MediaState /\ told' \in [Remotes -> MediaState]
<1>1. ctl' \in CtlType
  BY DEF Started, Types, CtlType
<1>2. screen' \in [Shares -> ScreenType]
  BY DEF Started, Types, ScreenType
<1>3. [slice EXCEPT !.screenShare = "active"] \in MediaState
  BY DEF Types, MediaState
<1> QED
  BY <1>1, <1>2, <1>3, TellType DEF Started

LEMMA StopDoneType ==
  ASSUME Types, StopDone
  PROVE  /\ ctl' \in CtlType /\ slice' \in MediaState
         /\ told' \in [Remotes -> MediaState]
<1>1. ctl' \in CtlType
  BY DEF StopDone, Types, CtlType
<1>2. [slice EXCEPT !.screenShare = "inactive"] \in MediaState
  BY DEF Types, MediaState
<1> QED
  BY <1>1, <1>2, TellType DEF StopDone

LEMMA StopFromType ==
  ASSUME Types, NEW i \in Shares, StopFrom(i)
  PROVE  Types'
<1>1. LoopOn(Listed) \in Call
  BY ListedType, TypesNamed, LoopFacts
<1>2. stop' \in [Shares -> Call]
  BY <1>1 DEF StopFrom, Types
<1>3. screen' \in [Shares -> ScreenType]
  BY DEF StopFrom, Types, ScreenType
<1>4. ctl' \in CtlType /\ slice' \in MediaState /\ told' \in [Remotes -> MediaState]
  <2>1. CASE StopDone
    BY <2>1, StopDoneType
  <2>2. CASE ctl' = [ctl EXCEPT !.stopping = TRUE] /\ UNCHANGED <<slice, told>>
    BY <2>2 DEF Types, CtlType
  <2> QED
    BY <2>1, <2>2 DEF StopFrom
<1> QED
  BY <1>2, <1>3, <1>4 DEF StopFrom, Types

LEMMA AllocateType ==
  ASSUME Types, NEW r \in Remotes, NEW mode \in {"fresh", "reconnect"},
         Allocate(r, mode)
  PROVE  /\ ctx' \in [Contexts -> CtxType]
         /\ pairs' \in [Remotes -> Contexts \cup {NoContext}]
<1>1. VideoFor(mode) \in Tracks /\ During \in {"idle", "start", "share", "stop"}
  BY DEF VideoFor, During, Tracks, Types, CtlType
<1>2. [open |-> TRUE, video |-> VideoFor(mode), during |-> During, mode |-> mode]
        \in CtxType
  BY <1>1 DEF CtxType
<1>3. \A j \in Contexts : [ctx[j] EXCEPT !.open = FALSE] \in CtxType /\ ctx[j] \in CtxType
  BY DEF Types, CtxType
<1> QED
  BY <1>2, <1>3 DEF Allocate, Types

LEMMA TypesInit == Init => Types
<1> SUFFICES ASSUME Init  PROVE Types
  OBVIOUS
<1>1. NoCall \in Call /\ Defaults \in MediaState
  BY DEF NoCall, Call, Defaults, MediaState
<1>2. /\ ctl \in CtlType /\ screen \in [Shares -> ScreenType]
  BY DEF Init, CtlType, ScreenType
<1>3. ctx \in [Contexts -> CtxType]
  BY DEF Init, CtxType, Tracks
<1>4. 0 \in 0..MaxToggles
  BY BoundsAssumption
<1>5. inCall \in BOOLEAN /\ toggles \in 0..MaxToggles
  BY <1>4 DEF Init
<1>6. start \in [Shares -> Call] /\ stop \in [Shares -> Call]
  BY <1>1 DEF Init
<1>7. /\ pairs \in [Remotes -> Contexts \cup {NoContext}]
      /\ slice \in MediaState /\ told \in [Remotes -> MediaState]
  BY <1>1 DEF Init
<1> QED
  BY <1>2, <1>3, <1>5, <1>6, <1>7 DEF Types

LEMMA TypesStep == Types /\ [Next]_vars => Types'
<1> SUFFICES ASSUME Types, [Next]_vars  PROVE Types'
  OBVIOUS
<1> USE DEF Types
<1>1. Listed \subseteq Contexts
  BY ListedType, TypesNamed
<1>2. CASE StartClick
  <2>1. PICK i \in Shares : start' = [start EXCEPT ![i].at = "picker"]
    BY <1>2 DEF StartClick
  <2>2. [start[i] EXCEPT !.at = "picker"] \in Call
    BY CallType
  <2>3. start' \in [Shares -> Call]
    BY <2>1, <2>2
  <2>4. ctl' \in CtlType
    BY <1>2 DEF StartClick, CtlType
  <2> QED
    BY <1>2, <2>3, <2>4 DEF StartClick
<1>3. ASSUME NEW i \in Shares, PickerCancelled(i)  PROVE Types'
  <2>1. [start[i] EXCEPT !.at = "done"] \in Call
    BY CallType
  <2>2. start' \in [Shares -> Call]
    BY <1>3, <2>1 DEF PickerCancelled
  <2>3. ctl' \in CtlType
    BY <1>3 DEF PickerCancelled, CtlType
  <2> QED
    BY <1>3, <2>2, <2>3 DEF PickerCancelled
<1>4. ASSUME NEW i \in Shares, PickerChosen(i)  PROVE Types'
  <2>1. LoopOn(Listed) \in Call
    BY <1>1, LoopFacts
  <2>2. start' \in [Shares -> Call]
    BY <1>4, <2>1 DEF PickerChosen
  <2>3. CASE LoopOn(Listed).at = "done"
    BY <1>4, <2>2, <2>3, StartedType DEF PickerChosen
  <2>4. CASE LoopOn(Listed).at # "done"
    <3>1. /\ ctl' = [ctl EXCEPT !.share = i]
          /\ screen' = [screen EXCEPT ![i].live = TRUE]
          /\ UNCHANGED <<slice, told>>
      BY <1>4, <2>4 DEF PickerChosen
    <3>2. ctl' \in CtlType
      BY <3>1 DEF CtlType
    <3>3. [screen[i] EXCEPT !.live = TRUE] \in ScreenType
      BY DEF ScreenType
    <3>4. screen' \in [Shares -> ScreenType]
      BY <3>1, <3>3
    <3> QED
      BY <1>4, <2>2, <3>1, <3>2, <3>4 DEF PickerChosen
  <2> QED
    BY <2>3, <2>4
<1>5. ASSUME NEW i \in Shares, StartReplaced(i)  PROVE Types'
  <2>1. ctx' \in [Contexts -> CtxType]
    BY <1>5, VideoType DEF StartReplaced, Tracks
  <2>2. start' \in [Shares -> Call]
    <3>1. LoopOn(Open(start[i].todo)) \in Call
      BY LoopFacts DEF Call, Open
    <3>2. [start[i] EXCEPT !.at = "hung"] \in Call
      BY DEF Call
    <3> QED
      BY <1>5, <3>1, <3>2 DEF StartReplaced
  <2>3. CASE Started(i, ctl.share, screen[i].live)
    <3>1. ctl.share \in Shares \cup {NoShare} /\ screen[i].live \in BOOLEAN
      BY DEF CtlType, ScreenType
    <3>2. UNCHANGED <<inCall, stop, pairs, toggles>>
      BY <1>5 DEF StartReplaced
    <3>3. PICK held, live : held = ctl.share /\ live = screen[i].live
      OBVIOUS
    <3>4. Started(i, held, live) /\ held \in Shares \cup {NoShare} /\ live \in BOOLEAN
      BY <2>3, <3>1, <3>3
    <3> QED
      BY <2>1, <2>2, <3>2, <3>4, StartedType
  <2>4. CASE UNCHANGED <<ctl, screen, slice, told>>
    BY <1>5, <2>1, <2>2, <2>4 DEF StartReplaced
  <2> QED
    BY <1>5, <2>3, <2>4 DEF StartReplaced
<1>6. CASE StopClick
  <2>1. ctl.share \in Shares
    BY <1>6 DEF StopClick, CtlType
  <2> QED
    BY <1>6, <2>1, StopFromType DEF StopClick
<1>7. ASSUME NEW i \in Shares, BrowserStop(i)  PROVE Types'
  <2>1. CASE StopFrom(i)
    BY <2>1, StopFromType
  <2>2. CASE ~ StopFrom(i)
    <3>1. [screen[i] EXCEPT !.live = FALSE] \in ScreenType
      BY DEF ScreenType
    <3>2. screen' = [screen EXCEPT ![i].live = FALSE]
      BY <1>7, <2>2 DEF BrowserStop
    <3>3. screen' \in [Shares -> ScreenType]
      BY <3>1, <3>2
    <3> QED
      BY <1>7, <2>2, <3>3 DEF BrowserStop, calls
  <2> QED
    BY <2>1, <2>2
<1>8. ASSUME NEW i \in Shares, StopReplaced(i)  PROVE Types'
  <2>1. CameraTrack \in Tracks
    BY DEF CameraTrack, Tracks
  <2>5. ctx' \in [Contexts -> CtxType]
    BY <1>8, <2>1, VideoType DEF StopReplaced
  <2>2. stop' \in [Shares -> Call]
    <3>1. LoopOn(stop[i].todo) \in Call
      BY LoopFacts DEF Call
    <3>2. [stop[i] EXCEPT !.at = "hung"] \in Call
      BY DEF Call
    <3> QED
      BY <1>8, <3>1, <3>2 DEF StopReplaced
  <2>3. CASE StopDone
    BY <1>8, <2>5, <2>2, <2>3, StopDoneType DEF StopReplaced
  <2>4. CASE UNCHANGED <<ctl, slice, told>>
    BY <1>8, <2>5, <2>2, <2>4 DEF StopReplaced
  <2> QED
    BY <1>8, <2>3, <2>4 DEF StopReplaced
<1>9. ASSUME NEW r \in Remotes, PeerJoins(r) \/ PairRebuilt(r)  PROVE Types'
  <2>1. told' \in [Remotes -> MediaState]
    BY <1>9 DEF PeerJoins, PairRebuilt, MediaState, Defaults
  <2>2. /\ ctx' \in [Contexts -> CtxType]
        /\ pairs' \in [Remotes -> Contexts \cup {NoContext}]
    BY <1>9, AllocateType DEF PeerJoins, PairRebuilt
  <2> QED
    BY <1>9, <2>1, <2>2 DEF PeerJoins, PairRebuilt, calls
<1>10. ASSUME NEW r \in Remotes, PeerLeaves(r)  PROVE Types'
  <2>0. PICK k \in Contexts : k = pairs[r]
    BY <1>10 DEF PeerLeaves
  <2>1. ctx' \in [Contexts -> CtxType]
    <3>1. [ctx[k] EXCEPT !.open = FALSE] \in CtxType
      BY DEF CtxType
    <3>2. ctx' = [ctx EXCEPT ![k].open = FALSE]
      BY <1>10, <2>0 DEF PeerLeaves
    <3> QED
      BY <3>1, <3>2
  <2> QED
    BY <1>10, <2>1 DEF PeerLeaves, calls
<1>11. CASE CameraToggled
  <2>1. slice' \in MediaState
    BY <1>11 DEF CameraToggled, MediaState
  <2>2. told' \in [Remotes -> MediaState]
    BY <1>11, <2>1, TellType DEF CameraToggled
  <2> QED
    BY <1>11, <2>1, <2>2, BoundsAssumption DEF CameraToggled, calls
<1>12. CASE Leave
  <2>1. screen' \in [Shares -> ScreenType] /\ ctl' \in CtlType
    BY <1>12 DEF Leave, ScreenType, CtlType
  <2>2. ctx' \in [Contexts -> CtxType]
    <3>1. \A k \in Contexts : [ctx[k] EXCEPT !.open = FALSE] \in CtxType
      BY DEF CtxType
    <3> QED
      BY <1>12, <3>1 DEF Leave
  <2>3. slice' \in MediaState /\ pairs' \in [Remotes -> Contexts \cup {NoContext}]
    BY <1>12 DEF Leave, MediaState, Defaults
  <2> QED
    BY <1>12, <2>1, <2>2, <2>3 DEF Leave, calls
<1>13. CASE UNCHANGED vars
  BY <1>13 DEF vars
<1> QED
  BY <1>2, <1>3, <1>4, <1>5, <1>6, <1>7, <1>8, <1>9, <1>10, <1>11, <1>12, <1>13
  DEF Next, Picker

-----------------------------------------------------------------------------
(* The pairs map. *)

NewContext(mode) ==
  [open |-> TRUE, video |-> VideoFor(mode), during |-> During, mode |-> mode]

\* What an allocation does: a context that was never used takes the peer's
\* place in the map, and the contexts of the other peers are left alone.
LEMMA Allocated ==
  ASSUME Types, PairsOK, NEW r \in Remotes,
         NEW mode \in {"fresh", "reconnect"}, Allocate(r, mode)
  PROVE  \E k \in Contexts :
           /\ ctx[k].during = "none"
           /\ pairs' = [pairs EXCEPT ![r] = k]
           /\ ctx'[k] = NewContext(mode)
           /\ \A s \in Remotes : s # r /\ pairs[s] # NoContext =>
                pairs[s] # k /\ ctx'[pairs[s]] = ctx[pairs[s]]
<1>1. PICK k \in Contexts :
        /\ ctx[k].during = "none"
        /\ ctx' = [j \in Contexts |->
             IF j = k THEN NewContext(mode)
             ELSE IF j = pairs[r] THEN [ctx[j] EXCEPT !.open = FALSE] ELSE ctx[j]]
        /\ pairs' = [pairs EXCEPT ![r] = k]
  BY DEF Allocate, NewContext
<1>2. ctx'[k] = NewContext(mode)
  BY <1>1
<1>3. ASSUME NEW s \in Remotes, s # r, pairs[s] # NoContext
      PROVE  pairs[s] # k /\ ctx'[pairs[s]] = ctx[pairs[s]]
  <2>1. pairs[s] \in Contexts /\ pairs[s] # k
    BY <1>1, <1>3 DEF Types, PairsOK
  <2>2. pairs[s] # pairs[r]
    BY <1>3 DEF PairsOK
  <2> QED
    BY <1>1, <2>1, <2>2
<1> QED
  BY <1>1, <1>2, <1>3

\* Hence what the map lists after it.
LEMMA AllocateListed ==
  ASSUME Types, PairsOK, NEW r \in Remotes,
         NEW mode \in {"fresh", "reconnect"}, Allocate(r, mode),
         NEW k \in Listed'
  PROVE  \/ k \in Listed /\ ctx'[k] = ctx[k]
         \/ ctx'[k] = NewContext(mode)
<1>1. PICK n \in Contexts :
        /\ pairs' = [pairs EXCEPT ![r] = n]
        /\ ctx'[n] = NewContext(mode)
        /\ \A s \in Remotes : s # r /\ pairs[s] # NoContext =>
             pairs[s] # n /\ ctx'[pairs[s]] = ctx[pairs[s]]
  BY Allocated
<1>2. PICK s \in Remotes : k = pairs'[s] /\ k # NoContext
  BY DEF Listed
<1>3. CASE s = r
  BY <1>1, <1>2, <1>3 DEF Types
<1>4. CASE s # r
  BY <1>1, <1>2, <1>4 DEF Types, Listed
<1> QED
  BY <1>3, <1>4

LEMMA PairsStep == Types /\ PairsOK /\ [Next]_vars => PairsOK'
<1> SUFFICES ASSUME Types, PairsOK, [Next]_vars  PROVE PairsOK'
  OBVIOUS
<1>1. ASSUME NEW r \in Remotes, NEW mode \in {"fresh", "reconnect"},
             Allocate(r, mode)
      PROVE  PairsOK'
  <2>1. PICK n \in Contexts :
          /\ pairs' = [pairs EXCEPT ![r] = n]
          /\ ctx'[n] = NewContext(mode)
          /\ \A s \in Remotes : s # r /\ pairs[s] # NoContext =>
               pairs[s] # n /\ ctx'[pairs[s]] = ctx[pairs[s]]
    BY <1>1, Allocated
  <2>2. ctx'[n].open /\ ctx'[n].during # "none"
    BY <2>1 DEF NewContext, During
  <2>3. \A s \in Remotes : pairs'[s] = IF s = r THEN n ELSE pairs[s]
    BY <2>1 DEF Types
  <2>4. ASSUME NEW s \in Remotes, pairs'[s] # NoContext
        PROVE  ctx'[pairs'[s]].open /\ ctx'[pairs'[s]].during # "none"
    BY <2>1, <2>2, <2>3, <2>4 DEF PairsOK
  <2>5. ASSUME NEW s \in Remotes, NEW t \in Remotes,
               pairs'[s] = pairs'[t], pairs'[s] # NoContext
        PROVE  s = t
    BY <2>1, <2>3, <2>5 DEF PairsOK
  <2> QED
    BY <2>4, <2>5 DEF PairsOK
<1>2. CASE UNCHANGED <<ctx, pairs>>
  BY <1>2 DEF PairsOK
\* A replaceTrack changes what is sent and nothing else of a context.
<1>3. ASSUME UNCHANGED pairs, NEW k, NEW v, ctx' = [ctx EXCEPT ![k].video = v]
      PROVE  PairsOK'
  <2>1. \A j \in Contexts :
          ctx'[j].open = ctx[j].open /\ ctx'[j].during = ctx[j].during
    BY <1>3 DEF Types, CtxType
  <2>2. \A r \in Remotes : pairs[r] # NoContext => pairs[r] \in Contexts
    BY DEF Types
  <2> QED
    BY <1>3, <2>1, <2>2 DEF PairsOK
<1>4. ASSUME NEW i \in Shares, StartReplaced(i) \/ StopReplaced(i)
      PROVE  PairsOK'
  BY <1>2, <1>3, <1>4 DEF StartReplaced, StopReplaced
<1>5. ASSUME NEW r \in Remotes, PeerJoins(r) \/ PairRebuilt(r)
      PROVE  PairsOK'
  BY <1>1, <1>5 DEF PeerJoins, PairRebuilt
<1>6. ASSUME NEW r \in Remotes, PeerLeaves(r)  PROVE PairsOK'
  <2>1. \A s \in Remotes : pairs'[s] = IF s = r THEN NoContext ELSE pairs[s]
    BY <1>6 DEF PeerLeaves, Types
  <2>2. \A s \in Remotes : pairs'[s] # NoContext => ctx'[pairs'[s]] = ctx[pairs[s]]
    BY <1>6, <2>1 DEF PeerLeaves, Types, PairsOK
  <2> QED
    BY <2>1, <2>2 DEF PairsOK
<1>7. CASE Leave
  <2>1. \A r \in Remotes : pairs'[r] = NoContext
    BY <1>7 DEF Leave
  <2> QED
    BY <2>1 DEF PairsOK
<1>8. ASSUME NEW i \in Shares, StopFrom(i)  PROVE UNCHANGED <<ctx, pairs>>
  BY <1>8 DEF StopFrom
<1>9. CASE StartClick \/ StopClick \/ CameraToggled \/ UNCHANGED vars
  BY <1>2, <1>9 DEF StartClick, StopClick, StopFrom, CameraToggled, vars
<1>10. ASSUME NEW i \in Shares, Picker(i) \/ BrowserStop(i)  PROVE PairsOK'
  BY <1>2, <1>8, <1>10 DEF Picker, PickerCancelled, PickerChosen, BrowserStop
<1> QED
  BY <1>4, <1>5, <1>6, <1>7, <1>9, <1>10 DEF Next

-----------------------------------------------------------------------------
(* Who starts, who stops, who owns the screen. *)

\* While no start goes on, no start() awaits anything; likewise a stop.
LEMMA NoneStarts ==
  ASSUME CallInv, ~ ctl.starting, NEW i \in Shares
  PROVE  start[i].at \notin {"picker", "replacing", "hung"}
BY DEF CallInv, OneStart, Starting

LEMMA NoneStops ==
  ASSUME CallInv, ~ ctl.stopping, NEW i \in Shares
  PROVE  stop[i].at \notin {"replacing", "hung"}
BY DEF CallInv, OneStop, Stopping

\* A start at its picker or at its loop is the only one, and there is no stop.
LEMMA TheStart ==
  ASSUME Types, CallInv, NEW i \in Shares, start[i].at \in {"picker", "replacing"}
  PROVE  /\ ctl.starting /\ ~ ctl.active /\ ~ ctl.stopping
         /\ ctl.activeScreenTrack = NoShare
         /\ ctl.share = IF start[i].at = "picker" THEN NoShare ELSE i
         /\ \A j \in Shares \ {i} :
              start[j].at \notin {"picker", "replacing", "hung"}
         /\ \A j \in Shares : stop[j].at \notin {"replacing", "hung"}
<1>1. Starting(i)
  BY DEF Starting
<1>2. /\ ctl.starting
      /\ ctl.share = IF start[i].at = "picker" THEN NoShare ELSE i
      /\ \A j \in Shares : Starting(j) => i = j
  BY <1>1 DEF CallInv, OneStart
<1>3. ~ ctl.active /\ ~ ctl.stopping /\ ctl.activeScreenTrack = NoShare
  BY <1>2 DEF CallInv, ControllerOK
<1> QED
  BY <1>2, <1>3, NoneStops DEF Starting

\* A stop at its loop is the only one, and no start goes on.
LEMMA TheStop ==
  ASSUME Types, CallInv, NEW i \in Shares, stop[i].at = "replacing"
  PROVE  /\ ctl.stopping /\ ctl.active /\ ~ ctl.starting
         /\ \A j \in Shares \ {i} : stop[j].at \notin {"replacing", "hung"}
         /\ \A j \in Shares : start[j].at \notin {"picker", "replacing", "hung"}
<1>1. Stopping(i)
  BY DEF Stopping
<1>2. ctl.stopping /\ \A j \in Shares : Stopping(j) => i = j
  BY <1>1 DEF CallInv, OneStop
<1>3. ctl.active /\ ~ ctl.starting
  BY <1>2 DEF CallInv, ControllerOK
<1> QED
  BY <1>2, <1>3, NoneStarts DEF Stopping

-----------------------------------------------------------------------------
(* The call, one action at a time. *)

LEMMA StartClickStep ==
  ASSUME Types, CallInv, StartClick
  PROVE  CallInv'
<1>1. PICK i \in Shares : start' = [start EXCEPT ![i].at = "picker"]
  BY DEF StartClick
<1>2. /\ ~ ctl.active /\ ~ ctl.starting /\ ~ ctl.stopping
      /\ ctl' = [ctl EXCEPT !.starting = TRUE]
      /\ UNCHANGED <<inCall, stop, screen, ctx, pairs, slice, told>>
  BY DEF StartClick
<1>3. ctl.share = NoShare /\ ctl.activeScreenTrack = NoShare
  BY <1>2 DEF CallInv, ControllerOK
<1>4. /\ ctl'.starting /\ ~ ctl'.active /\ ~ ctl'.stopping
      /\ ctl'.share = NoShare /\ ctl'.activeScreenTrack = NoShare
  BY <1>2, <1>3 DEF Types, CtlType
<1>5. /\ start'[i].at = "picker"
      /\ \A j \in Shares \ {i} :
           start'[j].at \notin {"picker", "replacing", "hung"}
  BY <1>1, <1>2, NoneStarts DEF Types, Call
<1>6. \A j \in Shares : stop'[j].at \notin {"replacing", "hung"}
  BY <1>2, NoneStops
<1>7. ControllerOK' /\ OneStart' /\ OneStop'
  BY <1>4, <1>5, <1>6 DEF ControllerOK, OneStart, OneStop, Starting, Stopping
<1>8. Captured' /\ Told'
  BY <1>2, <1>3, <1>4 DEF CallInv, Captured, Told
<1>9. ASSUME NEW k \in Listed'  PROVE Tile(k)'
  <2>1. Restored(k)
    BY <1>2, <1>9 DEF CallInv, Tiles, Tile, Listed
  <2>2. Restored(k)'
    BY <1>2, <2>1 DEF Restored
  <2> QED
    BY <1>4, <1>5, <1>6, <2>2 DEF Tile
<1> QED
  BY <1>7, <1>8, <1>9 DEF CallInv, Tiles

LEMMA PickerCancelledStep ==
  ASSUME Types, CallInv, NEW i \in Shares, PickerCancelled(i)
  PROVE  CallInv'
<1>1. /\ start[i].at = "picker"
      /\ start' = [start EXCEPT ![i].at = "done"]
      /\ ctl' = [ctl EXCEPT !.starting = FALSE]
      /\ UNCHANGED <<inCall, stop, screen, ctx, pairs, slice, told>>
  BY DEF PickerCancelled
<1>2. /\ ~ ctl.active /\ ~ ctl.stopping
      /\ ctl.share = NoShare /\ ctl.activeScreenTrack = NoShare
      /\ \A j \in Shares \ {i} :
           start[j].at \notin {"picker", "replacing", "hung"}
      /\ \A j \in Shares : stop[j].at \notin {"replacing", "hung"}
  BY <1>1, TheStart
<1>3. /\ ~ ctl'.starting /\ ~ ctl'.active /\ ~ ctl'.stopping
      /\ ctl'.share = NoShare /\ ctl'.activeScreenTrack = NoShare
  BY <1>1, <1>2 DEF Types, CtlType
<1>4. /\ \A j \in Shares : start'[j].at \notin {"picker", "replacing", "hung"}
      /\ \A j \in Shares : stop'[j].at \notin {"replacing", "hung"}
  BY <1>1, <1>2 DEF Types, Call
<1>5. ControllerOK' /\ OneStart' /\ OneStop'
  BY <1>3, <1>4 DEF ControllerOK, OneStart, OneStop, Starting, Stopping
<1>6. Captured' /\ Told'
  BY <1>1, <1>2, <1>3 DEF CallInv, Captured, Told
<1>7. ASSUME NEW k \in Listed'  PROVE Tile(k)'
  <2>1. Restored(k)
    BY <1>1, <1>7 DEF CallInv, Tiles, Tile, Listed
  <2>2. Restored(k)'
    BY <1>1, <2>1 DEF Restored
  <2> QED
    BY <1>3, <1>4, <2>2 DEF Tile
<1> QED
  BY <1>5, <1>6, <1>7 DEF CallInv, Tiles

LEMMA ToldStep ==
  ASSUME Types, inCall, NEW m, slice' = m, Tell(m)
  PROVE  Told'
BY DEF Tell, Told

\* start() of share i is through.
LEMMA StartedStep ==
  ASSUME Types, CallInv, inCall, NEW i \in Shares,
         start[i].at \in {"picker", "replacing"}, start'[i].at = "done",
         \A j \in Shares \ {i} : start'[j] = start[j],
         \A j \in Shares : stop'[j] = stop[j],
         \E live \in BOOLEAN : Started(i, i, live),
         \A k \in Listed' : Sends(k, i)'
  PROVE  CallInv'
<1> PICK live \in BOOLEAN : Started(i, i, live)
  OBVIOUS
<1>1. /\ ~ ctl.stopping
      /\ ctl.share \in {NoShare, i}
      /\ \A j \in Shares \ {i} :
           start[j].at \notin {"picker", "replacing", "hung"}
      /\ \A j \in Shares : stop[j].at \notin {"replacing", "hung"}
  BY TheStart
<1>2. /\ ~ ctl'.starting /\ ctl'.active /\ ~ ctl'.stopping
      /\ ctl'.share = i /\ ctl'.activeScreenTrack = i
  BY <1>1 DEF Started, Types, CtlType
<1>3. /\ \A j \in Shares : start'[j].at \notin {"picker", "replacing", "hung"}
      /\ \A j \in Shares : stop'[j].at \notin {"replacing", "hung"}
  BY <1>1
<1>4. i # NoShare
  BY BoundsAssumption DEF Shares, NoShare
<1>5. ControllerOK' /\ OneStart' /\ OneStop'
  BY <1>2, <1>3, <1>4 DEF ControllerOK, OneStart, OneStop, Starting, Stopping
<1>6. Captured'
  <2>1. \A j \in Shares \ {i} : screen'[j] = screen[j]
    BY DEF Started, Types
  <2>2. \A j \in Shares \ {i} : ~ screen[j].live
    BY <1>1 DEF CallInv, Captured, Shares, NoShare
  <2> QED
    BY <1>2, <2>1, <2>2 DEF Captured
<1>7. Told'
  BY ToldStep DEF Started
<1>8. ASSUME NEW k \in Listed'  PROVE Tile(k)'
  BY <1>2, <1>3 DEF Tile
<1> QED
  BY <1>5, <1>6, <1>7, <1>8 DEF CallInv, Tiles

LEMMA PickerChosenStep ==
  ASSUME Types, CallInv, inCall, NEW i \in Shares, PickerChosen(i)
  PROVE  CallInv'
<1>1. PICK call : call = LoopOn(Listed)
  OBVIOUS
<1>2. /\ call \in Call
      /\ \/ call.at = "done" /\ Listed = {}
         \/ call.at = "replacing" /\ Left(call) = Listed
  BY <1>1, LoopFacts, ListedType, TypesNamed
<1>3. /\ start[i].at = "picker"
      /\ start' = [start EXCEPT ![i] = call]
      /\ UNCHANGED <<inCall, stop, ctx, pairs>>
  BY <1>1 DEF PickerChosen
<1>4. start'[i] = call /\ \A j \in Shares \ {i} : start'[j] = start[j]
  BY <1>3 DEF Types
<1>5. CASE call.at = "done"
  <2>1. \E live \in BOOLEAN : Started(i, i, live)
    BY <1>1, <1>5 DEF PickerChosen
  <2>2. Listed' = {}
    BY <1>2, <1>3, <1>5 DEF Listed
  <2>3. \A k \in Listed' : Sends(k, i)'
    BY <2>2
  <2>4. /\ start[i].at \in {"picker", "replacing"} /\ start'[i].at = "done"
        /\ \A j \in Shares : stop'[j] = stop[j]
    BY <1>3, <1>4, <1>5
  <2> QED
    BY <1>4, <2>1, <2>3, <2>4, StartedStep
<1>6. CASE call.at = "replacing"
  <2>1. /\ ctl' = [ctl EXCEPT !.share = i]
        /\ screen' = [screen EXCEPT ![i].live = TRUE]
        /\ UNCHANGED <<slice, told>>
    BY <1>1, <1>6 DEF PickerChosen
  <2>2. /\ ctl.starting /\ ~ ctl.active /\ ~ ctl.stopping
        /\ ctl.share = NoShare /\ ctl.activeScreenTrack = NoShare
        /\ \A j \in Shares \ {i} :
             start[j].at \notin {"picker", "replacing", "hung"}
        /\ \A j \in Shares : stop[j].at \notin {"replacing", "hung"}
    BY <1>3, TheStart
  <2>3. /\ ctl'.starting /\ ~ ctl'.active /\ ~ ctl'.stopping
        /\ ctl'.share = i /\ ctl'.activeScreenTrack = NoShare
    BY <2>1, <2>2 DEF Types, CtlType
  <2>4. /\ \A j \in Shares \ {i} :
             start'[j].at \notin {"picker", "replacing", "hung"}
        /\ \A j \in Shares : stop'[j].at \notin {"replacing", "hung"}
    BY <1>3, <1>4, <2>2
  <2>5. ControllerOK' /\ OneStart' /\ OneStop'
    BY <1>4, <1>6, <2>3, <2>4
    DEF ControllerOK, OneStart, OneStop, Starting, Stopping
  <2>6. Captured'
    <3>1. \A j \in Shares \ {i} : screen'[j] = screen[j]
      BY <2>1 DEF Types
    <3>2. \A j \in Shares \ {i} : ~ screen[j].live
      BY <2>2 DEF CallInv, Captured, Shares, NoShare
    <3> QED
      BY <2>3, <3>1, <3>2 DEF Captured
  <2>7. Told'
    BY <2>1 DEF CallInv, Told
  <2>8. ASSUME NEW k \in Listed'  PROVE Tile(k)'
    <3>1. k \in Left(start'[i])
      BY <1>2, <1>3, <1>4, <1>6, <2>8 DEF Listed
    <3> QED
      BY <1>4, <1>6, <2>3, <2>4, <3>1 DEF Tile
  <2> QED
    BY <2>5, <2>6, <2>7, <2>8 DEF CallInv, Tiles
<1> QED
  BY <1>2, <1>5, <1>6

LEMMA StartReplacedStep ==
  ASSUME Types, PairsOK, CallInv, inCall, NEW i \in Shares, StartReplaced(i)
  PROVE  CallInv'
<1>1. PICK call : call = LoopOn(Open(start[i].todo))
  OBVIOUS
<1>2. /\ call \in Call
      /\ \/ call.at = "done" /\ Open(start[i].todo) = {}
         \/ call.at = "replacing" /\ Left(call) = Open(start[i].todo)
  <2>1. Open(start[i].todo) \in SUBSET Contexts
    BY DEF Types, Call, Open
  <2> QED
    BY <1>1, <2>1, LoopFacts
<1>3. /\ start[i].at = "replacing"
      /\ ctx' = IF ctx[start[i].cur].open
                THEN [ctx EXCEPT ![start[i].cur].video = i] ELSE ctx
      /\ UNCHANGED <<inCall, stop, pairs>>
  BY DEF StartReplaced
<1>4. /\ ctl.starting /\ ~ ctl.active /\ ~ ctl.stopping
      /\ ctl.share = i /\ ctl.activeScreenTrack = NoShare
      /\ \A j \in Shares \ {i} :
           start[j].at \notin {"picker", "replacing", "hung"}
      /\ \A j \in Shares : stop[j].at \notin {"replacing", "hung"}
  BY <1>3, TheStart
\* What the loop has left, and what it has got through.
<1>5. ASSUME NEW k \in Listed'
      PROVE  \/ ctx'[k].video = i
             \/ ctx'[k].during = "start"
             \/ k \in Open(start[i].todo)
  <2>1. k \in Listed /\ k \in Contexts /\ ctx[k].open
    BY <1>3, ListedType, TypesNamed DEF Listed, PairsOK
  <2>2. ctx[k].video = i \/ ctx[k].during = "start" \/ k \in Left(start[i])
    BY <1>3, <2>1 DEF CallInv, Tiles, Tile
  <2>3. /\ ctx'[k].during = ctx[k].during
        /\ ctx[k].video = i => ctx'[k].video = i
        /\ k = start[i].cur => ctx'[k].video = i
    BY <1>3, <2>1 DEF Types, CtxType
  <2> QED
    BY <2>1, <2>2, <2>3 DEF Left, Open
<1>6. \A j \in Shares : stop'[j] = stop[j]
  BY <1>3
\* It goes on, or hangs on a connection that was closed.
<1>7. ASSUME UNCHANGED <<ctl, screen, slice, told>>,
             \A j \in Shares \ {i} : start'[j] = start[j],
             \/ start'[i].at = "hung"
             \/ start'[i] = call /\ call.at = "replacing"
      PROVE  CallInv'
  <2>1. ControllerOK' /\ Captured' /\ Told'
    BY <1>7 DEF CallInv, ControllerOK, Captured, Told
  <2>2. OneStart' /\ OneStop'
    BY <1>4, <1>6, <1>7 DEF OneStart, OneStop, Starting, Stopping
  <2>3. ASSUME NEW k \in Listed'  PROVE Tile(k)'
    <3>1. start'[i].at = "replacing" =>
            \/ ctx'[k].video = i
            \/ ctx'[k].during = "start"
            \/ k \in Left(start'[i])
      BY <1>2, <1>5, <1>7, <2>3
    <3>2. /\ ctl'.starting /\ ~ ctl'.active
          /\ \A j \in Shares \ {i} :
               start'[j].at \notin {"picker", "replacing", "hung"}
          /\ \A j \in Shares : stop'[j].at \notin {"replacing", "hung"}
          /\ start'[i].at # "picker"
      BY <1>4, <1>6, <1>7
    <3> QED
      BY <3>1, <3>2 DEF Tile
  <2> QED
    BY <2>1, <2>2, <2>3 DEF CallInv, Tiles
<1>8. CASE /\ start' = [start EXCEPT ![i] = call] /\ call.at = "done"
           /\ Started(i, ctl.share, screen[i].live)
  <2>1. start'[i] = call /\ \A j \in Shares \ {i} : start'[j] = start[j]
    BY <1>8 DEF Types
  <2>2. \E live \in BOOLEAN : Started(i, i, live)
    <3>1. screen[i].live \in BOOLEAN
      BY DEF Types, ScreenType
    <3> QED
      BY <1>4, <1>8, <3>1
  <2>3. \A k \in Listed' : Sends(k, i)'
    BY <1>2, <1>5, <1>8 DEF Sends
  <2>4. start[i].at \in {"picker", "replacing"} /\ start'[i].at = "done"
    BY <1>3, <1>8, <2>1
  <2> QED
    BY <1>6, <2>1, <2>2, <2>3, <2>4, StartedStep
<1>9. CASE /\ start' = [start EXCEPT ![i] = call] /\ call.at # "done"
           /\ UNCHANGED <<ctl, screen, slice, told>>
  <2>1. start'[i] = call /\ \A j \in Shares \ {i} : start'[j] = start[j]
    BY <1>9 DEF Types
  <2> QED
    BY <1>2, <1>7, <1>9, <2>1
<1>10. CASE /\ start' = [start EXCEPT ![i].at = "hung"]
            /\ UNCHANGED <<ctl, screen, slice, told>>
  <2>1. start'[i].at = "hung" /\ \A j \in Shares \ {i} : start'[j] = start[j]
    BY <1>10 DEF Types, Call
  <2> QED
    BY <1>7, <1>10, <2>1
<1> QED
  BY <1>1, <1>8, <1>9, <1>10 DEF StartReplaced

\* A stop is through: every pair has the camera's track back, or came later.
LEMMA StoppedStep ==
  ASSUME Types, CallInv, inCall, StopDone, ctl.active,
         \A j \in Shares : ~ screen'[j].live,
         \A j \in Shares : start'[j] = start[j],
         \A j \in Shares : stop'[j].at \notin {"replacing", "hung"},
         \A k \in Listed' : Restored(k)'
  PROVE  CallInv'
<1>1. ~ ctl.starting
  BY DEF CallInv, ControllerOK
<1>2. /\ ~ ctl'.starting /\ ~ ctl'.active /\ ~ ctl'.stopping
      /\ ctl'.share = NoShare /\ ctl'.activeScreenTrack = NoShare
  BY <1>1 DEF StopDone
<1>3. \A j \in Shares : start'[j].at \notin {"picker", "replacing", "hung"}
  BY <1>1, NoneStarts
<1>4. ControllerOK' /\ OneStart' /\ OneStop' /\ Captured'
  BY <1>2, <1>3
  DEF ControllerOK, OneStart, OneStop, Starting, Stopping, Captured
<1>5. Told'
  BY ToldStep DEF StopDone
<1>6. ASSUME NEW k \in Listed'  PROVE Tile(k)'
  BY <1>2, <1>3, <1>6 DEF Tile
<1> QED
  BY <1>4, <1>5, <1>6 DEF CallInv, Tiles

LEMMA StopFromStep ==
  ASSUME Types, CallInv, inCall, NEW i \in Shares, StopFrom(i)
  PROVE  CallInv'
<1>1. PICK call : call = LoopOn(Listed)
  OBVIOUS
<1>2. /\ call \in Call
      /\ \/ call.at = "done" /\ Listed = {}
         \/ call.at = "replacing" /\ Left(call) = Listed
  BY <1>1, LoopFacts, ListedType, TypesNamed
<1>3. /\ ctl.active /\ ~ ctl.stopping
      /\ stop' = [stop EXCEPT ![i] = call]
      /\ screen' = [j \in Shares |-> IF j \in {i, ctl.share}
                      THEN [live |-> FALSE, onended |-> FALSE] ELSE screen[j]]
      /\ UNCHANGED <<inCall, start, ctx, pairs>>
  BY <1>1 DEF StopFrom
<1>4. ~ ctl.starting
  BY <1>3 DEF CallInv, ControllerOK
<1>5. stop'[i] = call /\ \A j \in Shares \ {i} : stop'[j] = stop[j]
  BY <1>3 DEF Types
<1>6. \A j \in Shares : ~ screen'[j].live
  BY <1>3 DEF CallInv, Captured
<1>7. \A j \in Shares : start'[j] = start[j]
  BY <1>3
<1>8. CASE call.at = "done"
  <2>1. StopDone
    BY <1>1, <1>8 DEF StopFrom
  <2>2. \A k \in Listed' : Restored(k)'
    BY <1>2, <1>3, <1>8 DEF Listed
  <2>3. \A j \in Shares : stop'[j].at \notin {"replacing", "hung"}
    BY <1>3, <1>5, <1>8, NoneStops
  <2> QED
    BY <1>3, <1>6, <1>7, <2>1, <2>2, <2>3, StoppedStep
<1>9. CASE call.at = "replacing"
  <2>1. ctl' = [ctl EXCEPT !.stopping = TRUE] /\ UNCHANGED <<slice, told>>
    BY <1>1, <1>9 DEF StopFrom
  <2>2. /\ ctl'.stopping /\ ctl'.active /\ ~ ctl'.starting
        /\ ctl'.share = ctl.share
        /\ ctl'.activeScreenTrack = ctl.activeScreenTrack
    BY <1>3, <1>4, <2>1 DEF Types, CtlType
  <2>3. \A j \in Shares : start'[j].at \notin {"picker", "replacing", "hung"}
    BY <1>4, <1>7, NoneStarts
  <2>4. \A j \in Shares \ {i} : stop'[j].at \notin {"replacing", "hung"}
    BY <1>3, <1>5, NoneStops
  <2>5. ControllerOK'
    BY <1>3, <2>2 DEF CallInv, ControllerOK
  <2>6. OneStart' /\ OneStop' /\ Captured'
    BY <1>6, <2>2, <2>3, <2>4
    DEF OneStart, OneStop, Starting, Stopping, Captured
  <2>7. Told'
    BY <2>1 DEF CallInv, Told
  <2>8. ASSUME NEW k \in Listed'  PROVE Tile(k)'
    <3>1. k \in Left(stop'[i])
      BY <1>2, <1>3, <1>5, <1>9, <2>8 DEF Listed
    <3> QED
      BY <1>5, <1>9, <2>2, <2>3, <2>4, <3>1 DEF Tile
  <2> QED
    BY <2>5, <2>6, <2>7, <2>8 DEF CallInv, Tiles
<1> QED
  BY <1>2, <1>8, <1>9

LEMMA BrowserStopStep ==
  ASSUME Types, CallInv, inCall, NEW i \in Shares, BrowserStop(i)
  PROVE  CallInv'
<1>1. CASE StopFrom(i)
  BY <1>1, StopFromStep
<1>2. CASE ~ StopFrom(i)
  <2>1. /\ screen' = [screen EXCEPT ![i].live = FALSE]
        /\ UNCHANGED <<ctl, calls, ctx, pairs, slice, told>>
    BY <1>2 DEF BrowserStop
  <2>2. start' = start /\ stop' = stop
    BY <2>1 DEF calls
  <2>3. \A j \in Shares : screen'[j].live => screen[j].live
    BY <2>1 DEF Types, ScreenType
  <2>4. ControllerOK' /\ OneStart' /\ OneStop'
    BY <2>1, <2>2
    DEF CallInv, ControllerOK, OneStart, OneStop, Starting, Stopping
  <2>5. Captured' /\ Told'
    BY <2>1, <2>3 DEF CallInv, Captured, Told
  <2>6. ASSUME NEW k \in Listed'  PROVE Tile(k)'
    BY <2>1, <2>2, <2>6
    DEF CallInv, Tiles, Tile, Listed, Restored, Sends, Left
  <2> QED
    BY <2>4, <2>5, <2>6 DEF CallInv, Tiles
<1> QED
  BY <1>1, <1>2

LEMMA StopReplacedStep ==
  ASSUME Types, PairsOK, CallInv, inCall, NEW i \in Shares, StopReplaced(i)
  PROVE  CallInv'
<1>1. PICK call : call = LoopOn(stop[i].todo)
  OBVIOUS
<1>2. /\ call \in Call
      /\ \/ call.at = "done" /\ stop[i].todo = {}
         \/ call.at = "replacing" /\ Left(call) = stop[i].todo
  <2>1. stop[i].todo \in SUBSET Contexts
    BY DEF Types, Call
  <2> QED
    BY <1>1, <2>1, LoopFacts
<1>3. /\ stop[i].at = "replacing"
      /\ ctx' = IF ctx[stop[i].cur].open
                THEN [ctx EXCEPT ![stop[i].cur].video = Camera] ELSE ctx
      /\ UNCHANGED <<inCall, start, screen, pairs>>
  BY DEF StopReplaced, CameraTrack
<1>4. /\ ctl.stopping /\ ctl.active /\ ~ ctl.starting
      /\ \A j \in Shares \ {i} : stop[j].at \notin {"replacing", "hung"}
      /\ \A j \in Shares : start[j].at \notin {"picker", "replacing", "hung"}
  BY <1>3, TheStop
<1>5. ASSUME NEW k \in Listed'
      PROVE  Restored(k)' \/ k \in stop[i].todo
  <2>1. k \in Listed /\ k \in Contexts /\ ctx[k].open
    BY <1>3, ListedType, TypesNamed DEF Listed, PairsOK
  <2>2. Restored(k) \/ k \in Left(stop[i])
    BY <1>3, <2>1 DEF CallInv, Tiles, Tile
  <2>3. /\ ctx'[k].during = ctx[k].during
        /\ ctx[k].video = Camera => ctx'[k].video = Camera
        /\ k = stop[i].cur => ctx'[k].video = Camera
    BY <1>3, <2>1 DEF Types, CtxType
  <2> QED
    BY <2>1, <2>2, <2>3 DEF Left, Restored
<1>6. /\ \A j \in Shares : start'[j] = start[j]
      /\ \A j \in Shares : screen'[j] = screen[j]
  BY <1>3
<1>7. \A j \in Shares : ~ screen'[j].live
  BY <1>4, <1>6 DEF CallInv, Captured
<1>8. ASSUME UNCHANGED <<ctl, slice, told>>,
             \A j \in Shares \ {i} : stop'[j] = stop[j],
             \/ stop'[i].at = "hung"
             \/ stop'[i] = call /\ call.at = "replacing"
      PROVE  CallInv'
  <2>1. ControllerOK' /\ Captured' /\ Told'
    BY <1>7, <1>8 DEF CallInv, ControllerOK, Captured, Told
  <2>2. OneStart' /\ OneStop'
    BY <1>4, <1>6, <1>8 DEF OneStart, OneStop, Starting, Stopping
  <2>3. ASSUME NEW k \in Listed'  PROVE Tile(k)'
    <3>1. stop'[i].at = "replacing" => Restored(k)' \/ k \in Left(stop'[i])
      BY <1>2, <1>5, <1>8, <2>3
    <3>2. /\ ctl'.stopping /\ ctl'.active
          /\ \A j \in Shares \ {i} : stop'[j].at \notin {"replacing", "hung"}
          /\ \A j \in Shares :
               start'[j].at \notin {"picker", "replacing", "hung"}
      BY <1>4, <1>6, <1>8
    <3> QED
      BY <3>1, <3>2 DEF Tile
  <2> QED
    BY <2>1, <2>2, <2>3 DEF CallInv, Tiles
<1>9. CASE stop' = [stop EXCEPT ![i] = call] /\ call.at = "done" /\ StopDone
  <2>1. stop'[i] = call /\ \A j \in Shares \ {i} : stop'[j] = stop[j]
    BY <1>9 DEF Types
  <2>2. \A j \in Shares : stop'[j].at \notin {"replacing", "hung"}
    BY <1>4, <1>9, <2>1
  <2>3. \A k \in Listed' : Restored(k)'
    BY <1>2, <1>5, <1>9
  <2> QED
    BY <1>4, <1>6, <1>7, <1>9, <2>2, <2>3, StoppedStep
<1>10. CASE /\ stop' = [stop EXCEPT ![i] = call] /\ call.at # "done"
            /\ UNCHANGED <<ctl, slice, told>>
  <2>1. stop'[i] = call /\ \A j \in Shares \ {i} : stop'[j] = stop[j]
    BY <1>10 DEF Types
  <2> QED
    BY <1>2, <1>8, <1>10, <2>1
<1>11. CASE /\ stop' = [stop EXCEPT ![i].at = "hung"]
            /\ UNCHANGED <<ctl, slice, told>>
  <2>1. stop'[i].at = "hung" /\ \A j \in Shares \ {i} : stop'[j] = stop[j]
    BY <1>11 DEF Types, Call
  <2> QED
    BY <1>8, <1>11, <2>1
<1> QED
  BY <1>1, <1>9, <1>10, <1>11 DEF StopReplaced

\* A context that is allocated starts as what goes on in the call calls for.
LEMMA NewContextTile ==
  ASSUME Types, CallInv, NEW k, NEW mode \in {"fresh", "reconnect"},
         UNCHANGED <<ctl, start, stop>>, ctx'[k] = NewContext(mode)
  PROVE  Tile(k)'
<1>1. /\ ctx'[k].video = VideoFor(mode) /\ ctx'[k].during = During
      /\ ctx'[k].mode = mode
  BY DEF NewContext
<1>2. /\ ctl.stopping => ctl.active
      /\ ctl.active => ctl.share # NoShare /\ ctl.activeScreenTrack = ctl.share
      /\ ~ ctl.active => ctl.activeScreenTrack = NoShare
  BY DEF CallInv, ControllerOK
<1>3. ~ ctl.active => ctx'[k].video = Camera
  BY <1>1, <1>2 DEF VideoFor
<1>4. ctl.active /\ ~ ctl.stopping => Sends(k, ctl.share)'
  BY <1>1, <1>2 DEF VideoFor, During, Sends
<1>5. ASSUME NEW i \in Shares, start[i].at \in {"picker", "replacing"}
      PROVE  ctx'[k].video = Camera /\ ctx'[k].during = "start"
  BY <1>1, <1>3, <1>5, TheStart DEF During
<1>6. ASSUME NEW i \in Shares, stop[i].at = "replacing"
      PROVE  ctx'[k].during = "stop"
  BY <1>1, <1>6, TheStop DEF During
<1>7. ~ ctl'.active /\ ~ ctl'.starting => Restored(k)'
  BY <1>3 DEF Restored
<1>8. ctl'.active /\ ~ ctl'.stopping => Sends(k, ctl.share)'
  BY <1>4
<1>9. ASSUME NEW i \in Shares
      PROVE  /\ start'[i].at = "picker" => Restored(k)'
             /\ start'[i].at = "replacing" => ctx'[k].during = "start"
             /\ stop'[i].at = "replacing" => Restored(k)'
  BY <1>5, <1>6 DEF Restored
<1> QED
  BY <1>7, <1>8, <1>9 DEF Tile, Sends

\* Pairs come and go while the controller is left alone.
LEMMA PairsMove ==
  ASSUME Types, CallInv, UNCHANGED <<ctl, start, stop, screen, slice>>,
         \A r \in Remotes : told'[r] \in {told[r], Defaults},
         \A k \in Listed' : Tile(k)'
  PROVE  CallInv'
<1>1. ControllerOK' /\ OneStart' /\ OneStop'
  BY DEF CallInv, ControllerOK, OneStart, OneStop, Starting, Stopping
<1>2. Captured' /\ Told'
  BY DEF CallInv, Captured, Told
<1> QED
  BY <1>1, <1>2 DEF CallInv, Tiles

\* A pair that is left alone is sent what it was.
LEMMA KeptTile ==
  ASSUME NEW k, Tile(k), UNCHANGED <<ctl, start, stop>>, ctx'[k] = ctx[k]
  PROVE  Tile(k)'
BY DEF Tile, Restored, Sends, Left

LEMMA AllocateStep ==
  ASSUME Types, PairsOK, CallInv, NEW r \in Remotes,
         NEW mode \in {"fresh", "reconnect"}, Allocate(r, mode),
         UNCHANGED <<ctl, start, stop, screen, slice>>,
         \A s \in Remotes : told'[s] \in {told[s], Defaults}
  PROVE  CallInv'
<1>1. ASSUME NEW k \in Listed'  PROVE Tile(k)'
  <2>1. CASE k \in Listed /\ ctx'[k] = ctx[k]
    BY <2>1, KeptTile DEF CallInv, Tiles
  <2>2. CASE ctx'[k] = NewContext(mode)
    BY <2>2, NewContextTile
  <2> QED
    BY <2>1, <2>2, AllocateListed
<1> QED
  BY <1>1, PairsMove

LEMMA PeerJoinsStep ==
  ASSUME Types, PairsOK, CallInv, NEW r \in Remotes, PeerJoins(r)
  PROVE  CallInv'
<1>1. \A s \in Remotes : told'[s] \in {told[s], Defaults}
  BY DEF PeerJoins, Types
<1>2. UNCHANGED <<ctl, start, stop, screen, slice>> /\ Allocate(r, "fresh")
  BY DEF PeerJoins, calls
<1> QED
  BY <1>1, <1>2, AllocateStep

LEMMA PairRebuiltStep ==
  ASSUME Types, PairsOK, CallInv, NEW r \in Remotes, PairRebuilt(r)
  PROVE  CallInv'
<1>1. \A s \in Remotes : told'[s] \in {told[s], Defaults}
  BY DEF PairRebuilt
<1>2. UNCHANGED <<ctl, start, stop, screen, slice>> /\ Allocate(r, "reconnect")
  BY DEF PairRebuilt, calls
<1> QED
  BY <1>1, <1>2, AllocateStep

LEMMA PeerLeavesStep ==
  ASSUME Types, PairsOK, CallInv, NEW r \in Remotes, PeerLeaves(r)
  PROVE  CallInv'
<1>1. /\ pairs[r] # NoContext
      /\ ctx' = [ctx EXCEPT ![pairs[r]].open = FALSE]
      /\ pairs' = [pairs EXCEPT ![r] = NoContext]
      /\ UNCHANGED <<ctl, start, stop, screen, slice, told>>
  BY DEF PeerLeaves, calls
<1>2. ASSUME NEW k \in Listed'  PROVE Tile(k)'
  <2>1. PICK s \in Remotes : k = pairs'[s] /\ k # NoContext
    BY <1>2 DEF Listed
  <2>2. s # r /\ k = pairs[s] /\ k # pairs[r]
    BY <1>1, <2>1 DEF Types, PairsOK
  <2>3. k \in Listed /\ ctx'[k] = ctx[k]
    BY <1>1, <2>1, <2>2 DEF Types, Listed
  <2> QED
    BY <1>1, <2>3, KeptTile DEF CallInv, Tiles
<1>3. \A s \in Remotes : told'[s] \in {told[s], Defaults}
  BY <1>1
<1> QED
  BY <1>1, <1>2, <1>3, PairsMove

LEMMA CameraToggledStep ==
  ASSUME Types, CallInv, CameraToggled
  PROVE  CallInv'
<1>1. UNCHANGED <<inCall, ctl, start, stop, screen, ctx, pairs>> /\ inCall
  BY DEF CameraToggled, calls
<1>2. Told'
  BY ToldStep DEF CameraToggled
<1>3. ControllerOK' /\ OneStart' /\ OneStop' /\ Captured'
  BY <1>1
  DEF CallInv, ControllerOK, OneStart, OneStop, Starting, Stopping, Captured
<1>4. ASSUME NEW k \in Listed'  PROVE Tile(k)'
  BY <1>1, <1>4, KeptTile DEF CallInv, Tiles, Listed
<1> QED
  BY <1>2, <1>3, <1>4 DEF CallInv, Tiles

-----------------------------------------------------------------------------
(* The theorems. *)

LEMMA IInvInit == Init => IInv
<1> SUFFICES ASSUME Init  PROVE IInv
  OBVIOUS
<1>1. ShareTypeOK
  BY TypesInit, TypesNamed
<1>2. PairsOK /\ Listed = {}
  BY DEF Init, PairsOK, Listed
<1>3. ControllerOK /\ Captured /\ Told
  BY DEF Init, ControllerOK, Captured, Told
<1>4. OneStart /\ OneStop
  BY DEF Init, OneStart, OneStop, Starting, Stopping, NoCall
<1> QED
  BY <1>1, <1>2, <1>3, <1>4 DEF IInv, CallInv, Tiles

LEMMA IInvStep == IInv /\ [Next]_vars => IInv'
<1> SUFFICES ASSUME IInv, [Next]_vars  PROVE IInv'
  OBVIOUS
<1>1. Types /\ PairsOK /\ (inCall => CallInv)
  BY TypesNamed DEF IInv
<1>2. ShareTypeOK'
  <2>1. Types'
    BY <1>1, TypesStep
  <2> QED
    BY <2>1 DEF Types, ShareTypeOK, CtlType, ScreenType, CtxType
<1>3. PairsOK'
  BY <1>1, PairsStep
<1>4. ASSUME inCall'  PROVE CallInv'
  <2>1. inCall /\ CallInv /\ ~ Leave
    <3>1. inCall' = inCall \/ Leave
      BY DEF Next, Picker, vars, StartClick, StopClick, CameraToggled,
             PickerCancelled, PickerChosen, BrowserStop, StopFrom,
             StartReplaced, StopReplaced, PeerJoins, PairRebuilt, PeerLeaves
    <3> QED
      BY <1>1, <1>4, <3>1 DEF Leave
  <2>2. CASE StartClick
    BY <1>1, <2>1, <2>2, StartClickStep
  <2>3. CASE StopClick
    <3>1. ctl.share \in Shares
      BY <1>1, <2>3 DEF StopClick, Types, CtlType
    <3>2. StopFrom(ctl.share)
      BY <2>3 DEF StopClick
    <3> QED
      BY <1>1, <2>1, <3>1, <3>2, StopFromStep
  <2>4. CASE CameraToggled
    BY <1>1, <2>1, <2>4, CameraToggledStep
  <2>5. ASSUME NEW i \in Shares, PickerCancelled(i) \/ PickerChosen(i)
        PROVE  CallInv'
    BY <1>1, <2>1, <2>5, PickerCancelledStep, PickerChosenStep
  <2>6. ASSUME NEW i \in Shares, BrowserStop(i)  PROVE CallInv'
    BY <1>1, <2>1, <2>6, BrowserStopStep
  <2>7. ASSUME NEW i \in Shares, StartReplaced(i) \/ StopReplaced(i)
        PROVE  CallInv'
    BY <1>1, <2>1, <2>7, StartReplacedStep, StopReplacedStep
  <2>8. ASSUME NEW r \in Remotes, PeerJoins(r) \/ PairRebuilt(r) \/ PeerLeaves(r)
        PROVE  CallInv'
    BY <1>1, <2>1, <2>8, PeerJoinsStep, PairRebuiltStep, PeerLeavesStep
  <2>9. CASE UNCHANGED vars
    <3>1. UNCHANGED <<ctl, start, stop, screen, ctx, pairs, slice, told>>
      BY <2>9 DEF vars
    <3>2. ASSUME NEW k \in Listed'  PROVE Tile(k)'
      BY <2>1, <3>1, <3>2, KeptTile DEF CallInv, Tiles, Listed
    <3>3. \A r \in Remotes : told'[r] \in {told[r], Defaults}
      BY <3>1
    <3> QED
      BY <1>1, <2>1, <3>1, <3>2, <3>3, PairsMove
  <2> QED
    BY <2>1, <2>2, <2>3, <2>4, <2>5, <2>6, <2>7, <2>8, <2>9 DEF Next, Picker
<1> QED
  BY <1>2, <1>3, <1>4 DEF IInv

\* The pairs map is always in order, and as long as the call lasts the
\* controller's flags, its share, its loops and what was told fit together.
THEOREM Inductive == Spec => []IInv
BY IInvInit, IInvStep, PTL DEF Spec

\* Type correctness, whatever the number of peers, shares and rebuilt pairs.
THEOREM ShareTypeCorrect == Spec => []ShareTypeOK
<1>1. IInv => ShareTypeOK
  BY DEF IInv
<1> QED
  BY <1>1, Inductive, PTL

\* In a call the controller can stop every screen that is captured: no order of
\* clicks, picker answers, peers, rebuilt pairs and track ends loses one
\* (screenShare.ts, start, stop and dispose).
THEOREM CaptureOwned == Spec => []CaptureIsOwned
<1>1. IInv => CaptureIsOwned
  BY DEF IInv, CallInv, Captured, CaptureIsOwned
<1> QED
  BY <1>1, Inductive, PTL

\* When no share goes on, no pair that was there before the stop began is left
\* with an ended screen track (screenShare.ts:332-343).
THEOREM NoneFrozen == Spec => []NoFrozenTile
<1>1. IInv => NoFrozenTile
  BY DEF IInv, CallInv, Tiles, Tile, Restored, NoFrozenTile, Settled
<1> QED
  BY <1>1, Inductive, PTL

\* While a share goes on, every pair that was there when it began, or was
\* rebuilt since, sends the screen, and every peer was told what the local
\* media state is, or was told the defaults when it joined (screenShare.ts:
\* 332-338, pair_negotiation.ts, allocateContext).
THEOREM ReachesEveryPeer == Spec => []ShareReachesEveryPeer
<1>1. IInv => ShareReachesEveryPeer
  BY DEF IInv, CallInv, Told, Tiles, Tile, Sends, ShareReachesEveryPeer, Settled
<1> QED
  BY <1>1, Inductive, PTL

-----------------------------------------------------------------------------
(***************************************************************************)
(* The chat.  ChatInv is the inductive invariant: an end is in one attempt *)
(* at a time, whose channel is the only one it still takes messages from,  *)
(* and what is on its way there is newer than all it has taken.            *)
(***************************************************************************)

Messages(p) == chat[p].messages
Written(a) == Cardinality(DOMAIN chat[a].fanOut)
Receiving(x, k) == dc[Far(x)][k].readyState # "closed"

Ascending(s) ==
  \A i, j \in DOMAIN s :
    i < j /\ Author(s[i]) = Author(s[j]) => s[i][2] < s[j][2]

Summaries == UNION {[ids -> FanOut] : ids \in SUBSET Ids}

ChatTypes ==
  /\ ChatTypeOK
  /\ wire \in [Ends -> [Epochs -> Seq(Ids)]]
  /\ chat \in [Peers -> [messages : Seq(Ids), fanOut : Summaries]]

\* A channel that is not closed is that of the attempt its end is in; and what
\* was sent to an end that has gone on to another attempt is lost.
ChannelsOK ==
  /\ \A x \in Ends, k \in Epochs :
       dc[x][k].readyState \in {"connecting", "open"} => attempt[x] = k
  /\ \A x \in Ends, k \in Epochs :
       wire[x][k] # <<>> \/ dc[x][k].readyState = "open" =>
         attempt[Far(x)] = k \/ ~ Receiving(x, k)

\* An author numbers its messages.
NumbersOK ==
  \A a \in Peers :
    /\ IsFiniteSet(DOMAIN chat[a].fanOut)
    /\ \A id \in DOMAIN chat[a].fanOut : id[1] = a /\ id[2] <= Written(a)

\* What is on its way from an end.
WireOK(x, k) ==
  /\ Ascending(wire[x][k])
  /\ \A i \in DOMAIN wire[x][k] :
       LET id == wire[x][k][i]
       IN /\ Author(id) = x[1]
          /\ session[x[1]] # "left" => id[2] <= Written(x[1])
          /\ Receiving(x, k) =>
               \A j \in DOMAIN Messages(x[2]) :
                 Author(Messages(x[2])[j]) = x[1] => Messages(x[2])[j][2] < id[2]

WiresOK == \A x \in Ends, k \in Epochs : WireOK(x, k)

\* What a peer shows.
ShownOK(p) ==
  /\ Ascending(Messages(p))
  /\ \A j \in DOMAIN Messages(p) :
       LET id == Messages(p)[j]
       IN session[Author(id)] # "left" => id[2] <= Written(Author(id))

AllShownOK == \A p \in Peers : ShownOK(p)

ChatInv == ChatTypes /\ ChannelsOK /\ NumbersOK /\ WiresOK /\ AllShownOK

LEMMA EndFacts ==
  ASSUME NEW x \in Ends
  PROVE  /\ x[1] \in Peers /\ x[2] \in Peers /\ x[1] # x[2]
         /\ Far(x) \in Ends /\ Far(Far(x)) = x
         /\ Far(x)[1] = x[2] /\ Far(x)[2] = x[1]
         /\ PairOf(x) \in Pairs
<1>1. x = <<x[1], x[2]>> /\ x[1] \in Peers /\ x[2] \in Peers /\ x[1] # x[2]
  BY DEF Ends
<1>2. PairOf(Far(x)) = PairOf(x)
  BY DEF PairOf, Far
<1> QED
  BY <1>1, <1>2 DEF Ends, Far, Pairs

\* Closing contexts closes the channels of their attempts and nothing else.
LEMMA Torn ==
  ASSUME ChatTypes, NEW xs
  PROVE  /\ TornDown(xs) \in [Ends -> [Epochs -> Channel]]
         /\ \A x \in Ends, k \in Epochs :
              TornDown(xs)[x][k].readyState =
                IF x \in xs /\ attempt[x] = k THEN "closed" ELSE dc[x][k].readyState
         /\ \A x \in Ends, k \in Epochs :
              TornDown(xs)[x][k].onmessage = dc[x][k].onmessage
<1>1. dc \in [Ends -> [Epochs -> Channel]] /\ attempt \in [Ends -> 0..MaxEpoch]
  BY DEF ChatTypes, ChatTypeOK
<1>2. ASSUME NEW x \in Ends
      PROVE  /\ TornDown(xs)[x] \in [Epochs -> Channel]
             /\ \A k \in Epochs : TornDown(xs)[x][k].readyState =
                  IF x \in xs /\ attempt[x] = k THEN "closed" ELSE dc[x][k].readyState
             /\ \A k \in Epochs : TornDown(xs)[x][k].onmessage = dc[x][k].onmessage
  <2>1. TornDown(xs)[x] = IF x \in xs /\ attempt[x] # 0
                          THEN [dc[x] EXCEPT ![attempt[x]].readyState = "closed"]
                          ELSE dc[x]
    BY DEF TornDown
  <2>2. CASE x \in xs /\ attempt[x] # 0
    <3>1. attempt[x] \in Epochs
      BY <1>1, <2>2, ChatBoundsAssumption DEF Epochs
    <3>2. PICK k \in Epochs : k = attempt[x]
      BY <3>1
    <3>3. TornDown(xs)[x] = [dc[x] EXCEPT ![k] = [dc[x][k] EXCEPT !.readyState = "closed"]]
      BY <2>1, <2>2, <3>2
    <3>4. /\ [dc[x][k] EXCEPT !.readyState = "closed"] \in Channel
          /\ [dc[x][k] EXCEPT !.readyState = "closed"].readyState = "closed"
          /\ [dc[x][k] EXCEPT !.readyState = "closed"].onmessage = dc[x][k].onmessage
      BY <1>1 DEF Channel, ReadyStates
    <3> QED
      BY <1>1, <2>2, <3>2, <3>3, <3>4
  <2>3. CASE ~ (x \in xs /\ attempt[x] # 0)
    <3>1. \A k \in Epochs : k # 0
      BY DEF Epochs
    <3> QED
      BY <1>1, <2>1, <2>3, <3>1
  <2> QED
    BY <2>2, <2>3
<1>3. TornDown(xs) = [x \in Ends |-> TornDown(xs)[x]]
  BY DEF TornDown
<1> QED
  BY <1>2, <1>3

\* What is on its way is kept or lost.
LEMMA Delivery ==
  ASSUME ChatTypes, wire' = Undelivered
  PROVE  /\ wire' \in [Ends -> [Epochs -> Seq(Ids)]]
         /\ \A x \in Ends, k \in Epochs :
              wire'[x][k] = IF Receiving(x, k)' THEN wire[x][k] ELSE <<>>
<1>1. \A x \in Ends, k \in Epochs :
        wire'[x][k] = IF dc'[Far(x)][k].readyState = "closed" THEN <<>> ELSE wire[x][k]
  BY DEF Undelivered
<1>2. \A x \in Ends, k \in Epochs : wire[x][k] \in Seq(Ids)
  BY DEF ChatTypes
<1>3. <<>> \in Seq(Ids)
  OBVIOUS
<1>4. \A x \in Ends, k \in Epochs :
        (IF dc'[Far(x)][k].readyState = "closed" THEN <<>> ELSE wire[x][k]) \in Seq(Ids)
  BY <1>2, <1>3
<1>5. wire' \in [Ends -> [Epochs -> Seq(Ids)]]
  BY <1>4 DEF Undelivered
<1> QED
  BY <1>1, <1>5 DEF Receiving

\* The next message's number is one more than its author has used.
LEMMA NewId ==
  ASSUME ChatTypes, NumbersOK, NEW p \in Peers, NextId(p) \in Ids
  PROVE  /\ Written(p) \in Nat
         /\ NextId(p)[1] = p /\ NextId(p)[2] = Written(p) + 1
         /\ NextId(p) \notin DOMAIN chat[p].fanOut
         /\ IsFiniteSet(DOMAIN chat[p].fanOut \cup {NextId(p)})
         /\ Cardinality(DOMAIN chat[p].fanOut \cup {NextId(p)}) = Written(p) + 1
<1>1. IsFiniteSet(DOMAIN chat[p].fanOut)
  BY DEF NumbersOK
<1>2. Written(p) \in Nat
  BY <1>1, FS_CardinalityType DEF Written
<1>3. NextId(p)[1] = p /\ NextId(p)[2] = Written(p) + 1
  BY DEF NextId, Written
<1>4. NextId(p) \notin DOMAIN chat[p].fanOut
  <2>1. ~ (Written(p) + 1 <= Written(p))
    BY <1>2
  <2> QED
    BY <1>3, <2>1 DEF NumbersOK
<1>5. PICK id : id = NextId(p)
  OBVIOUS
<1>6. /\ IsFiniteSet(DOMAIN chat[p].fanOut \cup {id})
      /\ Cardinality(DOMAIN chat[p].fanOut \cup {id})
           = Cardinality(DOMAIN chat[p].fanOut) + 1
  BY <1>1, <1>4, <1>5, FS_AddElement
<1> QED
  BY <1>2, <1>3, <1>4, <1>5, <1>6 DEF Written

-----------------------------------------------------------------------------
(* Steps that show nothing. *)

LEMMA MessageFacts ==
  ASSUME ChatTypes, NEW p \in Peers, NEW j \in DOMAIN Messages(p)
  PROVE  Messages(p)[j] \in Ids /\ Author(Messages(p)[j]) \in Peers
<1>1. Messages(p) \in Seq(Ids)
  BY DEF ChatTypes, Messages
<1>2. Messages(p)[j] \in Ids
  BY <1>1, ElementOfSeq
<1> QED
  BY <1>2, AuthorsAssumption DEF Ids, Author

\* Nobody comes back, what is on its way is kept or lost, and a closed channel
\* stays closed: then nothing that was in order gets out of it.
LEMMA ChatKept ==
  ASSUME ChatInv, UNCHANGED chat,
         \A a \in Peers : session'[a] # "left" => session[a] # "left",
         \A x \in Ends, k \in Epochs : wire'[x][k] \in {wire[x][k], <<>>},
         \A x \in Ends, k \in Epochs : Receiving(x, k)' => Receiving(x, k)
  PROVE  NumbersOK' /\ WiresOK' /\ AllShownOK'
<1>1. /\ \A a \in Peers : Written(a)' = Written(a)
      /\ \A p \in Peers : Messages(p)' = Messages(p)
  BY DEF Written, Messages
<1>2. NumbersOK'
  BY <1>1 DEF ChatInv, NumbersOK
<1>3. ASSUME NEW x \in Ends, NEW k \in Epochs  PROVE WireOK(x, k)'
  <2>1. CASE wire'[x][k] = <<>>
    <3>1. DOMAIN wire'[x][k] = {}
      BY <2>1
    <3> QED
      BY <3>1 DEF WireOK, Ascending
  <2>2. CASE wire'[x][k] = wire[x][k]
    <3>1. WireOK(x, k)
      BY DEF ChatInv, WiresOK
    <3>2. /\ Written(x[1])' = Written(x[1]) /\ Messages(x[2])' = Messages(x[2])
          /\ session'[x[1]] # "left" => session[x[1]] # "left"
          /\ Receiving(x, k)' => Receiving(x, k)
      BY <1>1, EndFacts
    <3>3. Ascending(wire[x][k])'
      BY <2>2, <3>1 DEF WireOK, Ascending
    <3>4. ASSUME NEW i \in DOMAIN wire'[x][k]
          PROVE  LET id == wire'[x][k][i]
                 IN /\ Author(id) = x[1]
                    /\ session'[x[1]] # "left" => id[2] <= Written(x[1])'
                    /\ Receiving(x, k)' =>
                         \A j \in DOMAIN Messages(x[2])' :
                           Author(Messages(x[2])'[j]) = x[1] =>
                             Messages(x[2])'[j][2] < id[2]
      BY <2>2, <3>1, <3>2 DEF WireOK
    <3> QED
      BY <3>3, <3>4 DEF WireOK
  <2> QED
    BY <2>1, <2>2
<1>4. ASSUME NEW p \in Peers  PROVE ShownOK(p)'
  BY <1>1, MessageFacts DEF ChatInv, AllShownOK, ShownOK, Ascending
<1> QED
  BY <1>2, <1>3, <1>4 DEF WiresOK, AllShownOK

\* An end that goes on closes the channel of the attempt it was in.
LEMMA ChannelsKept ==
  ASSUME ChannelsOK,
         \A x \in Ends, k \in Epochs :
           /\ dc'[x][k].readyState \in {"connecting", "open"} => attempt'[x] = k
           /\ attempt[x] = k => attempt'[x] = k \/ dc'[x][k].readyState = "closed"
           /\ dc[x][k].readyState = "closed" => dc'[x][k].readyState = "closed"
           /\ wire'[x][k] # <<>> \/ dc'[x][k].readyState = "open" =>
                \/ wire[x][k] # <<>> \/ dc[x][k].readyState = "open"
                \/ attempt'[Far(x)] = k
  PROVE  ChannelsOK'
<1>1. ASSUME NEW x \in Ends, NEW k \in Epochs,
             wire'[x][k] # <<>> \/ dc'[x][k].readyState = "open"
      PROVE  attempt'[Far(x)] = k \/ ~ Receiving(x, k)'
  <2>1. Far(x) \in Ends
    BY EndFacts
  <2>2. CASE attempt'[Far(x)] = k
    BY <2>2
  <2>3. CASE wire[x][k] # <<>> \/ dc[x][k].readyState = "open"
    <3>1. attempt[Far(x)] = k \/ dc[Far(x)][k].readyState = "closed"
      BY <2>3 DEF ChannelsOK, Receiving
    <3> QED
      BY <2>1, <3>1 DEF Receiving
  <2> QED
    BY <1>1, <2>2, <2>3
<1> QED
  BY <1>1 DEF ChannelsOK

\* The steps of the channels, of failures and of the server.
LEMMA QuietStep ==
  ASSUME ChatInv, ChatTypes', UNCHANGED <<session, chat>>,
         \A x \in Ends, k \in Epochs :
           /\ dc'[x][k].readyState \in {"connecting", "open"} => attempt'[x] = k
           /\ attempt[x] = k => attempt'[x] = k \/ dc'[x][k].readyState = "closed"
           /\ dc[x][k].readyState = "closed" => dc'[x][k].readyState = "closed"
           /\ dc'[x][k].readyState = "open" =>
                dc[x][k].readyState = "open" \/ attempt'[Far(x)] = k
           /\ wire'[x][k] \in {wire[x][k], <<>>}
  PROVE  ChatInv'
<1>1. ChannelsOK'
  BY ChannelsKept DEF ChatInv
<1>2. \A x \in Ends, k \in Epochs : Receiving(x, k)' => Receiving(x, k)
  BY EndFacts DEF Receiving
<1>3. NumbersOK' /\ WiresOK' /\ AllShownOK'
  BY <1>2, ChatKept
<1> QED
  BY <1>1, <1>3 DEF ChatInv

LEMMA ChatTypesNext ==
  ASSUME session' \in [Peers -> {"in-room", "signaling-error", "left"}],
         issued' \in [Pairs -> Epochs],
         failed' \in [Pairs -> SUBSET Epochs],
         attempt' \in [Ends -> 0..MaxEpoch],
         dc' \in [Ends -> [Epochs -> Channel]],
         departed' \in [Peers -> SUBSET Peers],
         wire' \in [Ends -> [Epochs -> Seq(Ids)]],
         chat' \in [Peers -> [messages : Seq(Ids), fanOut : Summaries]]
  PROVE  ChatTypes'
<1>1. ASSUME NEW p \in Peers, NEW id \in DOMAIN chat'[p].fanOut
      PROVE  id \in Ids /\ chat'[p].fanOut[id] \in FanOut
  <2>1. chat'[p].fanOut \in Summaries
    OBVIOUS
  <2>2. PICK ids \in SUBSET Ids : chat'[p].fanOut \in [ids -> FanOut]
    BY <2>1 DEF Summaries
  <2> QED
    BY <1>1, <2>2
<1> QED
  BY <1>1 DEF ChatTypes, ChatTypeOK

LEMMA EpochFacts ==
  /\ Epochs \subseteq Nat /\ Epochs \subseteq 0..MaxEpoch
  /\ \A k \in Epochs : k # 0
  /\ \A k \in 0..MaxEpoch : k # 0 => k \in Epochs
BY ChatBoundsAssumption DEF Epochs

-----------------------------------------------------------------------------
(* The channels, one action at a time. *)

LEMMA BeginStep ==
  ASSUME ChatInv, NEW x \in Ends, Begin(x)
  PROVE  ChatInv'
<1>1. PICK k : k = issued[PairOf(x)]
  OBVIOUS
<1>2. PICK torn : torn = TornDown({x})
  OBVIOUS
<1>3. /\ attempt[x] < k /\ dc[x][k] = NoChannel
      /\ attempt' = [attempt EXCEPT ![x] = k]
      /\ dc' = [torn EXCEPT
           ![x][k] = IF IsOfferer(x) THEN Wired(x, "connecting") ELSE NoChannel]
      /\ wire' = Undelivered
      /\ UNCHANGED <<session, issued, failed, departed, chat>>
  BY <1>1, <1>2 DEF Begin
<1>4. k \in Epochs
  BY <1>1, EndFacts DEF ChatInv, ChatTypes, ChatTypeOK
<1>5. /\ torn \in [Ends -> [Epochs -> Channel]]
      /\ \A y \in Ends, m \in Epochs : torn[y][m].readyState =
           IF y \in {x} /\ attempt[y] = m THEN "closed" ELSE dc[y][m].readyState
  BY <1>2, Torn DEF ChatInv
<1>6. PICK new : new = IF IsOfferer(x) THEN Wired(x, "connecting") ELSE NoChannel
  OBVIOUS
<1>7. new \in Channel /\ new.readyState \in {"connecting", "none"}
  BY <1>6 DEF Wired, NoChannel, Channel, ReadyStates
<1>8. /\ dc' \in [Ends -> [Epochs -> Channel]]
      /\ \A y \in Ends, m \in Epochs :
           dc'[y][m] = IF y = x /\ m = k THEN new ELSE torn[y][m]
  BY <1>3, <1>4, <1>5, <1>6, <1>7
<1>9. attempt \in [Ends -> 0..MaxEpoch] /\ attempt' \in [Ends -> 0..MaxEpoch]
  BY <1>3, <1>4, EpochFacts DEF ChatInv, ChatTypes, ChatTypeOK
<1>10. wire' \in [Ends -> [Epochs -> Seq(Ids)]]
  BY <1>3, Delivery DEF ChatInv
<1>11. ChatTypes'
  BY <1>3, <1>8, <1>9, <1>10, ChatTypesNext DEF ChatInv, ChatTypes, ChatTypeOK
<1>12. ASSUME NEW y \in Ends, NEW m \in Epochs
       PROVE  /\ dc'[y][m].readyState \in {"connecting", "open"} => attempt'[y] = m
              /\ attempt[y] = m => attempt'[y] = m \/ dc'[y][m].readyState = "closed"
              /\ dc[y][m].readyState = "closed" => dc'[y][m].readyState = "closed"
              /\ dc'[y][m].readyState = "open" =>
                   dc[y][m].readyState = "open" \/ attempt'[Far(y)] = m
              /\ wire'[y][m] \in {wire[y][m], <<>>}
  <2>1. wire'[y][m] \in {wire[y][m], <<>>}
    BY <1>3, Delivery DEF ChatInv
  <2>2. dc[y][m].readyState \in {"connecting", "open"} => attempt[y] = m
    BY DEF ChatInv, ChannelsOK
  <2>3. attempt'[y] = IF y = x THEN k ELSE attempt[y]
    BY <1>3, <1>9
  <2>4. CASE y = x /\ m = k
    <3>1. dc'[y][m] = new /\ dc[y][m].readyState = "none"
      BY <1>3, <1>8, <2>4 DEF NoChannel
    <3> QED
      BY <1>7, <2>1, <2>3, <2>4, <3>1
  <2>5. CASE ~ (y = x /\ m = k)
    <3>1. dc'[y][m].readyState =
            IF y = x /\ attempt[y] = m THEN "closed" ELSE dc[y][m].readyState
      BY <1>5, <1>8, <2>5
    <3> QED
      BY <2>1, <2>2, <2>3, <2>5, <3>1
  <2> QED
    BY <2>4, <2>5
<1> QED
  BY <1>3, <1>11, <1>12, QuietStep

\* One channel changes, in the attempt its end is in or to "closed".
LEMMA ChannelStep ==
  ASSUME ChatInv, UNCHANGED <<session, issued, failed, attempt, departed, chat>>,
         NEW x \in Ends, NEW k \in Epochs, NEW c \in Channel,
         dc' = [dc EXCEPT ![x][k] = c],
         dc[x][k].readyState = "closed" => c.readyState = "closed",
         c.readyState \in {"connecting", "open"} => attempt[x] = k,
         c.readyState = "open" => attempt[Far(x)] = k,
         wire' = wire \/ wire' = Undelivered
  PROVE  ChatInv'
<1>1. dc' \in [Ends -> [Epochs -> Channel]]
  BY DEF ChatInv, ChatTypes, ChatTypeOK
<1>2. \A y \in Ends, m \in Epochs :
        dc'[y][m] = IF y = x /\ m = k THEN c ELSE dc[y][m]
  BY DEF ChatInv, ChatTypes, ChatTypeOK
<1>3. /\ wire' \in [Ends -> [Epochs -> Seq(Ids)]]
      /\ \A y \in Ends, m \in Epochs : wire'[y][m] \in {wire[y][m], <<>>}
  BY Delivery DEF ChatInv, ChatTypes
<1>4. ChatTypes'
  BY <1>1, <1>3, ChatTypesNext DEF ChatInv, ChatTypes, ChatTypeOK
<1>5. \A y \in Ends, m \in Epochs :
        dc[y][m].readyState \in {"connecting", "open"} => attempt[y] = m
  BY DEF ChatInv, ChannelsOK
<1>6. ASSUME NEW y \in Ends, NEW m \in Epochs
      PROVE  /\ dc'[y][m].readyState \in {"connecting", "open"} => attempt'[y] = m
             /\ attempt[y] = m => attempt'[y] = m \/ dc'[y][m].readyState = "closed"
             /\ dc[y][m].readyState = "closed" => dc'[y][m].readyState = "closed"
             /\ dc'[y][m].readyState = "open" =>
                  dc[y][m].readyState = "open" \/ attempt'[Far(y)] = m
             /\ wire'[y][m] \in {wire[y][m], <<>>}
  <2>1. CASE y = x /\ m = k
    BY <1>2, <1>3, <2>1
  <2>2. CASE ~ (y = x /\ m = k)
    BY <1>2, <1>3, <1>5, <2>2
  <2> QED
    BY <2>1, <2>2
<1> QED
  BY <1>4, <1>6, QuietStep

LEMMA ReadyStateChanged ==
  ASSUME ChatTypes, NEW x \in Ends, NEW k \in Epochs, NEW state \in ReadyStates
  PROVE  \E c \in Channel :
           /\ c.readyState = state /\ c.onmessage = dc[x][k].onmessage
           /\ [dc EXCEPT ![x][k].readyState = state] = [dc EXCEPT ![x][k] = c]
<1>1. PICK old \in Channel : old = dc[x][k]
  BY DEF ChatTypes, ChatTypeOK
<1>2. PICK c : c = [old EXCEPT !.readyState = state]
  OBVIOUS
<1>3. c \in Channel /\ c.readyState = state /\ c.onmessage = old.onmessage
  BY <1>1, <1>2 DEF Channel
<1>4. [dc EXCEPT ![x][k].readyState = state] = [dc EXCEPT ![x][k] = c]
  BY <1>1, <1>2 DEF ChatTypes, ChatTypeOK
<1> QED
  BY <1>1, <1>3, <1>4

LEMMA ChannelOpensStep ==
  ASSUME ChatInv, NEW x \in Ends, ChannelOpens(x)
  PROVE  ChatInv'
<1>1. PICK k : k = attempt[x]
  OBVIOUS
<1>2. /\ attempt[x] = k /\ attempt[Far(x)] = k /\ k # 0
      /\ dc[x][k].readyState = "connecting"
      /\ dc' = [dc EXCEPT ![x][k].readyState = "open"]
      /\ UNCHANGED <<session, issued, failed, attempt, wire, departed, chat>>
  BY <1>1 DEF ChannelOpens, Connected
<1>3. k \in Epochs
  BY <1>1, <1>2, EpochFacts DEF ChatInv, ChatTypes, ChatTypeOK
<1>4. PICK c \in Channel :
        /\ c.readyState = "open" /\ c.onmessage = dc[x][k].onmessage
        /\ [dc EXCEPT ![x][k].readyState = "open"] = [dc EXCEPT ![x][k] = c]
  BY <1>3, ReadyStateChanged DEF ChatInv, ReadyStates
<1>5. dc' = [dc EXCEPT ![x][k] = c]
  BY <1>2, <1>4
<1>6. UNCHANGED <<session, issued, failed, attempt, departed, chat>> /\ wire' = wire
  BY <1>2
<1>7. /\ attempt[x] = k /\ attempt[Far(x)] = k
      /\ dc[x][k].readyState = "closed" => c.readyState = "closed"
  BY <1>2
<1> QED
  BY <1>3, <1>4, <1>5, <1>6, <1>7, ChannelStep

LEMMA DataChannelArrivesStep ==
  ASSUME ChatInv, NEW x \in Ends, DataChannelArrives(x)
  PROVE  ChatInv'
<1>1. PICK k : k = attempt[x]
  OBVIOUS
<1>2. PICK c : c = Wired(x, "open")
  OBVIOUS
<1>3. /\ attempt[x] = k /\ attempt[Far(x)] = k /\ k # 0
      /\ dc[x][k].readyState = "none"
      /\ dc' = [dc EXCEPT ![x][k] = c]
      /\ UNCHANGED <<session, issued, failed, attempt, wire, departed, chat>>
  BY <1>1, <1>2 DEF DataChannelArrives, Connected
<1>4. k \in Epochs
  BY <1>1, <1>3, EpochFacts DEF ChatInv, ChatTypes, ChatTypeOK
<1>5. c \in Channel /\ c.readyState = "open"
  BY <1>2 DEF Wired, Channel, ReadyStates
<1> QED
  BY <1>3, <1>4, <1>5, ChannelStep

LEMMA ChannelClosesStep ==
  ASSUME ChatInv, NEW x \in Ends, ChannelCloses(x)
  PROVE  ChatInv'
<1>1. PICK k \in Epochs : dc' = [dc EXCEPT ![x][k].readyState = "closed"]
  BY DEF ChannelCloses
<1>2. /\ wire' = Undelivered
      /\ UNCHANGED <<session, issued, failed, attempt, departed, chat>>
  BY DEF ChannelCloses
<1>3. PICK c \in Channel :
        /\ c.readyState = "closed" /\ c.onmessage = dc[x][k].onmessage
        /\ [dc EXCEPT ![x][k].readyState = "closed"] = [dc EXCEPT ![x][k] = c]
  BY ReadyStateChanged DEF ChatInv, ReadyStates
<1>4. dc' = [dc EXCEPT ![x][k] = c]
  BY <1>1, <1>3
<1> QED
  BY <1>2, <1>3, <1>4, ChannelStep

\* A failure is reported, or the server gives out a new attempt.
LEMMA ServerStep ==
  ASSUME ChatInv, UNCHANGED <<session, attempt, dc, wire, departed, chat>>,
         issued' \in [Pairs -> Epochs], failed' \in [Pairs -> SUBSET Epochs]
  PROVE  ChatInv'
<1>1. ChatTypes'
  BY ChatTypesNext DEF ChatInv, ChatTypes, ChatTypeOK
<1>2. \A x \in Ends, k \in Epochs :
        dc[x][k].readyState \in {"connecting", "open"} => attempt[x] = k
  BY DEF ChatInv, ChannelsOK
<1> QED
  BY <1>1, <1>2, QuietStep

LEMMA FailStep ==
  ASSUME ChatInv, NEW x \in Ends, Fail(x)
  PROVE  ChatInv'
<1>1. attempt[x] \in Epochs /\ PairOf(x) \in Pairs
  BY EndFacts, EpochFacts DEF Fail, Connected, ChatInv, ChatTypes, ChatTypeOK
<1>2. failed' \in [Pairs -> SUBSET Epochs]
  BY <1>1 DEF Fail, ChatInv, ChatTypes, ChatTypeOK
<1>3. issued' \in [Pairs -> Epochs]
  BY DEF Fail, ChatInv, ChatTypes, ChatTypeOK
<1> QED
  BY <1>2, <1>3, ServerStep DEF Fail

LEMMA ReconnectStep ==
  ASSUME ChatInv, NEW q \in Pairs, Reconnect(q)
  PROVE  ChatInv'
<1>1. issued[q] + 1 \in Epochs
  BY ChatBoundsAssumption DEF Reconnect, ChatInv, ChatTypes, ChatTypeOK, Epochs
<1>2. issued' \in [Pairs -> Epochs]
  BY <1>1 DEF Reconnect, ChatInv, ChatTypes, ChatTypeOK
<1>3. failed' \in [Pairs -> SUBSET Epochs]
  BY DEF Reconnect, ChatInv, ChatTypes, ChatTypeOK
<1> QED
  BY <1>2, <1>3, ServerStep DEF Reconnect

-----------------------------------------------------------------------------
(* The end of a session. *)

LEMMA PeerLeftStep ==
  ASSUME ChatInv, NEW p \in Peers, NEW o \in Peers, PeerLeft(p, o)
  PROVE  ChatInv'
<1>1. PICK xs : xs = {<<p, o>>}
  OBVIOUS
<1>2. /\ attempt' = [x \in Ends |-> IF x \in xs THEN 0 ELSE attempt[x]]
      /\ dc' = TornDown(xs) /\ wire' = Undelivered
      /\ departed' = [departed EXCEPT ![p] = @ \cup {o}]
      /\ UNCHANGED <<session, issued, failed, chat>>
  BY <1>1 DEF PeerLeft, ClosePairs
<1>3. /\ dc' \in [Ends -> [Epochs -> Channel]]
      /\ \A x \in Ends, k \in Epochs :
           dc'[x][k].readyState =
             IF x \in xs /\ attempt[x] = k THEN "closed" ELSE dc[x][k].readyState
  BY <1>2, Torn DEF ChatInv
<1>4. /\ wire' \in [Ends -> [Epochs -> Seq(Ids)]]
      /\ \A x \in Ends, k \in Epochs : wire'[x][k] \in {wire[x][k], <<>>}
  BY <1>2, Delivery DEF ChatInv
<1>5. attempt' \in [Ends -> 0..MaxEpoch]
  BY <1>2, ChatBoundsAssumption DEF ChatInv, ChatTypes, ChatTypeOK
<1>6. departed' \in [Peers -> SUBSET Peers]
  BY <1>2 DEF ChatInv, ChatTypes, ChatTypeOK
<1>7. ChatTypes'
  BY <1>2, <1>3, <1>4, <1>5, <1>6, ChatTypesNext DEF ChatInv, ChatTypes, ChatTypeOK
<1>8. \A x \in Ends, k \in Epochs :
        dc[x][k].readyState \in {"connecting", "open"} => attempt[x] = k
  BY DEF ChatInv, ChannelsOK
<1>9. \A x \in Ends : attempt'[x] = IF x \in xs THEN 0 ELSE attempt[x]
  BY <1>2
<1>10. \A x \in Ends, k \in Epochs :
         /\ dc'[x][k].readyState \in {"connecting", "open"} => attempt'[x] = k
         /\ attempt[x] = k => attempt'[x] = k \/ dc'[x][k].readyState = "closed"
         /\ dc[x][k].readyState = "closed" => dc'[x][k].readyState = "closed"
         /\ dc'[x][k].readyState = "open" =>
              dc[x][k].readyState = "open" \/ attempt'[Far(x)] = k
  BY <1>3, <1>8, <1>9
<1>11. UNCHANGED <<session, chat>>
  BY <1>2
<1> QED
  BY <1>4, <1>7, <1>10, <1>11, QuietStep

LEMMA LoseSignalingStep ==
  ASSUME ChatInv, NEW p \in Peers, LoseSignaling(p)
  PROVE  ChatInv'
<1>1. /\ \A a \in Peers : session[a] = "in-room"
      /\ session' = [session EXCEPT ![p] = "signaling-error"]
      /\ UNCHANGED <<issued, failed, attempt, dc, wire, departed, chat>>
  BY DEF LoseSignaling
<1>2. ChatTypes'
  BY <1>1, ChatTypesNext DEF ChatInv, ChatTypes, ChatTypeOK
<1>3. \A x \in Ends, k \in Epochs :
        dc[x][k].readyState \in {"connecting", "open"} => attempt[x] = k
  BY DEF ChatInv, ChannelsOK
<1>4. ChannelsOK'
  BY <1>1, <1>3, ChannelsKept DEF ChatInv
<1>5. \A x \in Ends, k \in Epochs : Receiving(x, k)' = Receiving(x, k)
  BY <1>1 DEF Receiving
<1>6. \A a \in Peers : session[a] # "left"
  BY <1>1
<1>7. UNCHANGED chat /\ UNCHANGED wire
  BY <1>1
<1>8. NumbersOK' /\ WiresOK' /\ AllShownOK'
  BY <1>5, <1>6, <1>7, ChatKept
<1> QED
  BY <1>2, <1>4, <1>8 DEF ChatInv

\* Who leaves forgets what was shown, and its numbers begin again, at a peer
\* that takes nothing from it any more.
LEMMA LeaveRoomStep ==
  ASSUME ChatInv, NEW p \in Peers, LeaveRoom(p)
  PROVE  ChatInv'
<1>1. PICK xs : xs = {x \in Ends : x[1] = p}
  OBVIOUS
<1>2. /\ session' = [session EXCEPT ![p] = "left"]
      /\ attempt' = [x \in Ends |-> IF x \in xs THEN 0 ELSE attempt[x]]
      /\ dc' = TornDown(xs) /\ wire' = Undelivered
      /\ chat' = [chat EXCEPT ![p] = InitialChat]
      /\ UNCHANGED <<issued, failed, departed>>
  BY <1>1 DEF LeaveRoom, ClosePairs
<1>3. /\ dc' \in [Ends -> [Epochs -> Channel]]
      /\ \A x \in Ends, k \in Epochs :
           dc'[x][k].readyState =
             IF x \in xs /\ attempt[x] = k THEN "closed" ELSE dc[x][k].readyState
  BY <1>2, Torn DEF ChatInv
<1>4. /\ wire' \in [Ends -> [Epochs -> Seq(Ids)]]
      /\ \A x \in Ends, k \in Epochs :
           wire'[x][k] = IF Receiving(x, k)' THEN wire[x][k] ELSE <<>>
  BY <1>2, Delivery DEF ChatInv
<1>5. attempt' \in [Ends -> 0..MaxEpoch]
  BY <1>2, ChatBoundsAssumption DEF ChatInv, ChatTypes, ChatTypeOK
<1>6. /\ session' \in [Peers -> {"in-room", "signaling-error", "left"}]
      /\ \A a \in Peers : session'[a] = IF a = p THEN "left" ELSE session[a]
  BY <1>2 DEF ChatInv, ChatTypes, ChatTypeOK
<1>7. InitialChat \in [messages : Seq(Ids), fanOut : Summaries]
  <2>1. <<>> \in [{} -> FanOut]
    OBVIOUS
  <2>2. <<>> \in Summaries
    BY <2>1 DEF Summaries
  <2> QED
    BY <2>2 DEF InitialChat
<1>8. /\ chat' \in [Peers -> [messages : Seq(Ids), fanOut : Summaries]]
      /\ \A a \in Peers : chat'[a] = IF a = p THEN InitialChat ELSE chat[a]
  BY <1>2, <1>7 DEF ChatInv, ChatTypes
<1>9. ChatTypes'
  BY <1>2, <1>3, <1>4, <1>5, <1>6, <1>8, ChatTypesNext DEF ChatInv, ChatTypes, ChatTypeOK
<1>10. \A x \in Ends, k \in Epochs :
         dc[x][k].readyState \in {"connecting", "open"} => attempt[x] = k
  BY DEF ChatInv, ChannelsOK
<1>11. \A x \in Ends : attempt'[x] = IF x \in xs THEN 0 ELSE attempt[x]
  BY <1>2
<1>12. ChannelsOK'
  <2>1. \A x \in Ends, k \in Epochs :
          /\ dc'[x][k].readyState \in {"connecting", "open"} => attempt'[x] = k
          /\ attempt[x] = k => attempt'[x] = k \/ dc'[x][k].readyState = "closed"
          /\ dc[x][k].readyState = "closed" => dc'[x][k].readyState = "closed"
          /\ dc'[x][k].readyState = "open" => dc[x][k].readyState = "open"
    BY <1>3, <1>10, <1>11
  <2> QED
    BY <1>4, <2>1, ChannelsKept DEF ChatInv
<1>13. /\ \A a \in Peers \ {p} : Written(a)' = Written(a) /\ Messages(a)' = Messages(a)
       /\ Messages(p)' = <<>> /\ chat'[p].fanOut = <<>>
  BY <1>8 DEF Written, Messages, InitialChat
<1>14. NumbersOK'
  <2>1. DOMAIN chat'[p].fanOut = {} /\ IsFiniteSet({})
    BY <1>13, FS_EmptySet
  <2>2. \A a \in Peers \ {p} : chat'[a] = chat[a]
    BY <1>8
  <2> QED
    BY <1>13, <2>1, <2>2 DEF ChatInv, NumbersOK
<1>15. \A x \in Ends, k \in Epochs : Receiving(x, k)' => Receiving(x, k)
  BY <1>3, EndFacts DEF Receiving
<1>16. ASSUME NEW x \in Ends, NEW k \in Epochs  PROVE WireOK(x, k)'
  <2>1. WireOK(x, k)
    BY DEF ChatInv, WiresOK
  <2>2. CASE wire'[x][k] = <<>>
    <3>1. DOMAIN wire'[x][k] = {}
      BY <2>2
    <3> QED
      BY <3>1 DEF WireOK, Ascending
  <2>3. CASE wire'[x][k] = wire[x][k]
    <3>1. /\ session'[x[1]] # "left" =>
               session[x[1]] # "left" /\ Written(x[1])' = Written(x[1])
          /\ Messages(x[2])' = Messages(x[2]) \/ DOMAIN Messages(x[2])' = {}
          /\ Receiving(x, k)' => Receiving(x, k)
      BY <1>6, <1>13, <1>15, EndFacts
    <3>2. Ascending(wire[x][k])'
      BY <2>1, <2>3 DEF WireOK, Ascending
    <3>3. ASSUME NEW i \in DOMAIN wire'[x][k]
          PROVE  LET id == wire'[x][k][i]
                 IN /\ Author(id) = x[1]
                    /\ session'[x[1]] # "left" => id[2] <= Written(x[1])'
                    /\ Receiving(x, k)' =>
                         \A j \in DOMAIN Messages(x[2])' :
                           Author(Messages(x[2])'[j]) = x[1] =>
                             Messages(x[2])'[j][2] < id[2]
      BY <2>1, <2>3, <3>1 DEF WireOK
    <3> QED
      BY <3>2, <3>3 DEF WireOK
  <2> QED
    BY <1>4, <2>2, <2>3
<1>17. ASSUME NEW a \in Peers  PROVE ShownOK(a)'
  <2>1. CASE a = p
    <3>1. DOMAIN Messages(p)' = {}
      BY <1>13
    <3> QED
      BY <2>1, <3>1 DEF ShownOK, Ascending
  <2>2. CASE a # p
    <3>1. Messages(a)' = Messages(a) /\ ShownOK(a)
      BY <1>13, <2>2 DEF ChatInv, AllShownOK
    <3>2. \A b \in Peers : session'[b] # "left" =>
            session[b] # "left" /\ Written(b)' = Written(b)
      BY <1>6, <1>13
    <3> QED
      BY <3>1, <3>2, MessageFacts DEF ChatInv, ShownOK, Ascending
  <2> QED
    BY <2>1, <2>2
<1> QED
  BY <1>9, <1>12, <1>14, <1>16, <1>17 DEF ChatInv, WiresOK, AllShownOK

-----------------------------------------------------------------------------
(* Messages. *)

LEMMA IdFacts ==
  ASSUME NEW id \in Ids
  PROVE  Author(id) = id[1] /\ id[1] \in Peers /\ id[2] \in Nat
BY AuthorsAssumption DEF Ids, Author

LEMMA AppendAscending ==
  ASSUME NEW s \in Seq(Ids), NEW id \in Ids, Ascending(s),
         \A j \in DOMAIN s : Author(s[j]) = Author(id) => s[j][2] < id[2]
  PROVE  Ascending(Append(s, id))
<1>1. PICK t : t = Append(s, id)
  OBVIOUS
<1>2. /\ t \in Seq(Ids) /\ Len(s) \in Nat
      /\ DOMAIN s = 1..Len(s) /\ DOMAIN t = 1..(Len(s) + 1)
      /\ \A j \in 1..Len(s) : t[j] = s[j]
      /\ t[Len(s) + 1] = id
  BY <1>1
<1>3. ASSUME NEW i \in DOMAIN t, NEW j \in DOMAIN t, i < j, Author(t[i]) = Author(t[j])
      PROVE  t[i][2] < t[j][2]
  <2>1. i \in DOMAIN s /\ t[i] = s[i]
    BY <1>2, <1>3
  <2>2. CASE j \in DOMAIN s
    BY <1>2, <1>3, <2>1, <2>2 DEF Ascending
  <2>3. CASE j = Len(s) + 1
    BY <1>2, <1>3, <2>1, <2>3
  <2> QED
    BY <1>2, <2>2, <2>3
<1> QED
  BY <1>1, <1>3 DEF Ascending

LEMMA TailAscending ==
  ASSUME NEW s \in Seq(Ids), s # <<>>, Ascending(s)
  PROVE  /\ Head(s) \in Ids /\ Tail(s) \in Seq(Ids) /\ 1 \in DOMAIN s /\ s[1] = Head(s)
         /\ Ascending(Tail(s))
         /\ \A i \in DOMAIN Tail(s) : \E j \in DOMAIN s : 1 < j /\ Tail(s)[i] = s[j]
<1>1. PICK t : t = Tail(s)
  OBVIOUS
<1>2. /\ t \in Seq(Ids) /\ Len(s) \in Nat /\ Len(s) # 0
      /\ DOMAIN s = 1..Len(s) /\ DOMAIN t = 1..(Len(s) - 1)
      /\ \A j \in 1..(Len(s) - 1) : t[j] = s[j + 1]
  BY <1>1
<1>3. ASSUME NEW i \in DOMAIN t, NEW j \in DOMAIN t, i < j, Author(t[i]) = Author(t[j])
      PROVE  t[i][2] < t[j][2]
  <2>1. i + 1 \in DOMAIN s /\ j + 1 \in DOMAIN s /\ i + 1 < j + 1
    BY <1>2, <1>3
  <2>2. t[i] = s[i + 1] /\ t[j] = s[j + 1]
    BY <1>2
  <2> QED
    BY <1>3, <2>1, <2>2 DEF Ascending
<1>4. Ascending(t)
  BY <1>3 DEF Ascending
<1>5. \A i \in DOMAIN t : i + 1 \in DOMAIN s /\ 1 < i + 1 /\ t[i] = s[i + 1]
  BY <1>2
<1>6. 1 \in DOMAIN s /\ s[1] = Head(s)
  BY <1>2
<1>7. Head(s) \in Ids
  BY <1>6, ElementOfSeq
<1> QED
  BY <1>1, <1>2, <1>4, <1>5, <1>6, <1>7

LEMMA WiredFacts ==
  ASSUME ChatTypes, NEW x \in Ends, NEW k \in Epochs
  PROVE  wire[x][k] \in Seq(Ids) /\ \A i \in DOMAIN wire[x][k] : wire[x][k][i] \in Ids
<1>1. wire[x][k] \in Seq(Ids)
  BY DEF ChatTypes
<1> QED
  BY <1>1, ElementOfSeq

LEMMA WrittenNat ==
  ASSUME NumbersOK, NEW a \in Peers
  PROVE  Written(a) \in Nat
<1>1. IsFiniteSet(DOMAIN chat[a].fanOut)
  BY DEF NumbersOK
<1> QED
  BY <1>1, FS_CardinalityType DEF Written

\* A message arrives, and the receiver shows it.
LEMMA ArriveStep ==
  ASSUME ChatInv, NEW x \in Ends, NEW k \in Epochs, Arrive(x, k)
  PROVE  ChatInv'
<1>0. ChatTypes /\ ChannelsOK /\ NumbersOK /\ WiresOK /\ AllShownOK
  BY DEF ChatInv
<1>1. PICK p : p = x[2]
  OBVIOUS
<1>2. /\ p \in Peers /\ x[1] \in Peers /\ x[1] # p /\ Far(x) \in Ends
      /\ Far(x)[1] = p
  BY <1>1, EndFacts
<1>3. PICK id : id = Head(wire[x][k])
  OBVIOUS
<1>4. PICK rest : rest = Tail(wire[x][k])
  OBVIOUS
<1>5. /\ wire[x][k] # <<>> /\ dc[Far(x)][k].readyState = "open"
      /\ wire' = [wire EXCEPT ![x][k] = rest]
      /\ \/ chat' = [chat EXCEPT ![p].messages = Append(@, id)]
         \/ chat' = chat
      /\ UNCHANGED <<session, issued, failed, attempt, dc, departed>>
  BY <1>2, <1>3, <1>4 DEF Arrive
<1>6. WireOK(x, k) /\ wire[x][k] \in Seq(Ids)
  BY <1>0 DEF WiresOK, ChatTypes
<1>7. /\ id \in Ids /\ rest \in Seq(Ids) /\ 1 \in DOMAIN wire[x][k]
      /\ wire[x][k][1] = id /\ Ascending(rest)
      /\ \A i \in DOMAIN rest :
           \E j \in DOMAIN wire[x][k] : 1 < j /\ rest[i] = wire[x][k][j]
  BY <1>3, <1>4, <1>5, <1>6, TailAscending DEF WireOK
<1>8. Receiving(x, k) /\ attempt[Far(x)] = k
  <2>1. Far(x) \in Ends /\ dc[Far(x)][k].readyState \in {"connecting", "open"}
    BY <1>2, <1>5
  <2> QED
    BY <1>0, <1>5, <2>1 DEF Receiving, ChannelsOK
<1>9. /\ Author(id) = x[1] /\ id[1] = x[1] /\ id[2] \in Nat
      /\ session[x[1]] # "left" => id[2] <= Written(x[1])
      /\ \A j \in DOMAIN Messages(p) :
           Author(Messages(p)[j]) = x[1] => Messages(p)[j][2] < id[2]
  BY <1>1, <1>6, <1>7, <1>8, IdFacts DEF WireOK
<1>10. /\ wire' \in [Ends -> [Epochs -> Seq(Ids)]]
       /\ \A z \in Ends, m \in Epochs :
            wire'[z][m] = IF z = x /\ m = k THEN rest ELSE wire[z][m]
  BY <1>0, <1>5, <1>7 DEF ChatTypes
<1>11. /\ Messages(p) \in Seq(Ids)
       /\ chat \in [Peers -> [messages : Seq(Ids), fanOut : Summaries]]
  BY <1>0, <1>2 DEF ChatTypes, Messages
<1>12. PICK shown : shown = Append(Messages(p), id)
  OBVIOUS
<1>13. /\ shown \in Seq(Ids) /\ Len(Messages(p)) \in Nat
       /\ DOMAIN Messages(p) = 1..Len(Messages(p))
       /\ DOMAIN shown = 1..(Len(Messages(p)) + 1)
       /\ \A j \in DOMAIN Messages(p) : shown[j] = Messages(p)[j]
       /\ shown[Len(Messages(p)) + 1] = id
  BY <1>7, <1>11, <1>12
<1>14. /\ chat' \in [Peers -> [messages : Seq(Ids), fanOut : Summaries]]
       /\ \A a \in Peers : chat'[a].fanOut = chat[a].fanOut
       /\ \A a \in Peers \ {p} : chat'[a].messages = chat[a].messages
       /\ chat'[p].messages \in {shown, chat[p].messages}
  <2>1. CASE chat' = chat
    BY <1>11, <2>1
  <2>2. CASE chat' = [chat EXCEPT ![p].messages = Append(@, id)]
    <3>1. PICK old \in [messages : Seq(Ids), fanOut : Summaries] : old = chat[p]
      BY <1>2, <1>11
    <3>2. PICK new : new = [old EXCEPT !.messages = shown]
      OBVIOUS
    <3>3. /\ new \in [messages : Seq(Ids), fanOut : Summaries]
          /\ new.messages = shown /\ new.fanOut = old.fanOut
      BY <1>13, <3>1, <3>2
    <3>4. chat' = [chat EXCEPT ![p] = new]
      BY <1>12, <2>2, <3>1, <3>2 DEF Messages
    <3> QED
      BY <1>2, <1>11, <3>1, <3>3, <3>4
  <2> QED
    BY <1>5, <2>1, <2>2
<1>15. ChatTypes'
  BY <1>0, <1>5, <1>10, <1>14, ChatTypesNext DEF ChatTypes, ChatTypeOK
<1>16. /\ \A a \in Peers : Written(a)' = Written(a)
       /\ \A a \in Peers \ {p} : Messages(a)' = Messages(a)
       /\ Messages(p)' \in {shown, Messages(p)}
  BY <1>2, <1>14 DEF Written, Messages
<1>17. NumbersOK'
  BY <1>0, <1>14, <1>16 DEF NumbersOK
<1>18. \A z \in Ends, m \in Epochs : Receiving(z, m)' = Receiving(z, m)
  BY <1>5 DEF Receiving
<1>19. ChannelsOK'
  <2>1. \A z \in Ends, m \in Epochs : wire'[z][m] # <<>> => wire[z][m] # <<>>
    BY <1>5, <1>10
  <2>2. \A z \in Ends, m \in Epochs :
          dc[z][m].readyState \in {"connecting", "open"} => attempt[z] = m
    BY <1>0 DEF ChannelsOK
  <2> QED
    BY <1>0, <1>5, <2>1, <2>2, ChannelsKept
<1>20. ASSUME NEW z \in Ends, NEW m \in Epochs  PROVE WireOK(z, m)'
  <2>1. WireOK(z, m)
    BY <1>0 DEF WiresOK
  <2>2. z[1] \in Peers /\ z[2] \in Peers /\ Written(z[1])' = Written(z[1])
    BY <1>16, EndFacts
  <2>3. CASE z = x /\ m = k
    <3>1. wire'[z][m] = rest
      BY <1>10, <2>3
    <3>2. Ascending(rest)'
      BY <1>7 DEF Ascending
    <3>3. ASSUME NEW i \in DOMAIN rest
          PROVE  /\ Author(rest[i]) = x[1]
                 /\ session'[x[1]] # "left" => rest[i][2] <= Written(x[1])'
                 /\ Receiving(x, k)' =>
                      \A j \in DOMAIN Messages(p)' :
                        Author(Messages(p)'[j]) = x[1] =>
                          Messages(p)'[j][2] < rest[i][2]
      <4>1. PICK n \in DOMAIN wire[x][k] : 1 < n /\ rest[i] = wire[x][k][n]
        BY <1>7
      <4>2. /\ Author(rest[i]) = x[1]
            /\ session[x[1]] # "left" => rest[i][2] <= Written(x[1])
            /\ \A j \in DOMAIN Messages(p) :
                 Author(Messages(p)[j]) = x[1] => Messages(p)[j][2] < rest[i][2]
        BY <1>1, <1>6, <1>8, <4>1 DEF WireOK
      <4>3. id[2] < rest[i][2]
        BY <1>6, <1>7, <1>9, <4>1, <4>2 DEF WireOK, Ascending
      <4>4. \A j \in DOMAIN shown : Author(shown[j]) = x[1] => shown[j][2] < rest[i][2]
        BY <1>13, <4>2, <4>3
      <4> QED
        BY <1>5, <1>16, <2>2, <2>3, <4>2, <4>4
    <3> QED
      BY <1>1, <2>3, <3>1, <3>2, <3>3 DEF WireOK
  <2>4. CASE ~ (z = x /\ m = k)
    <3>1. wire'[z][m] = wire[z][m]
      BY <1>10, <2>4
    <3>2. Ascending(wire[z][m])'
      BY <2>1, <3>1 DEF WireOK, Ascending
    <3>3. ASSUME NEW i \in DOMAIN wire[z][m], Receiving(z, m),
                 NEW j \in DOMAIN Messages(z[2])',
                 Author(Messages(z[2])'[j]) = z[1]
          PROVE  Messages(z[2])'[j][2] < wire[z][m][i][2]
      <4>1. \A n \in DOMAIN Messages(z[2]) : Author(Messages(z[2])[n]) = z[1] =>
              Messages(z[2])[n][2] < wire[z][m][i][2]
        BY <2>1, <3>3 DEF WireOK
      <4>2. CASE Messages(z[2])' = Messages(z[2])
        BY <3>3, <4>1, <4>2
      <4>3. CASE z[2] = p /\ Messages(p)' = shown
        <5>1. z[1] # x[1]
          <6>1. SUFFICES ASSUME z[1] = x[1]  PROVE FALSE
            OBVIOUS
          <6>2. z = x
            BY <1>1, <4>3, <6>1 DEF Ends
          <6>3. m # k /\ wire[x][m] # <<>>
            BY <2>4, <3>3, <6>2
          <6>4. attempt[Far(x)] = m
            BY <1>0, <3>3, <6>2, <6>3 DEF ChannelsOK
          <6> QED
            BY <1>8, <6>3, <6>4
        <5>2. j \in DOMAIN Messages(p) /\ shown[j] = Messages(p)[j]
          BY <1>9, <1>13, <3>3, <4>3, <5>1
        <5> QED
          BY <3>3, <4>1, <4>3, <5>2
      <4> QED
        BY <1>16, <2>2, <4>2, <4>3
    <3>4. /\ session' = session
          /\ Receiving(z, m)' = Receiving(z, m)
      BY <1>5, <1>18
    <3>5. ASSUME NEW i \in DOMAIN wire'[z][m]
          PROVE  LET new == wire'[z][m][i]
                 IN /\ Author(new) = z[1]
                    /\ session'[z[1]] # "left" => new[2] <= Written(z[1])'
                    /\ Receiving(z, m)' =>
                         \A j \in DOMAIN Messages(z[2])' :
                           Author(Messages(z[2])'[j]) = z[1] =>
                             Messages(z[2])'[j][2] < new[2]
      BY <2>1, <2>2, <3>1, <3>3, <3>4 DEF WireOK
    <3> QED
      BY <3>1, <3>2, <3>5 DEF WireOK
  <2> QED
    BY <2>3, <2>4
<1>21. ASSUME NEW a \in Peers  PROVE ShownOK(a)'
  <2>1. ShownOK(a)
    BY <1>0 DEF AllShownOK
  <2>2. CASE Messages(a)' = Messages(a)
    BY <1>0, <1>5, <1>16, <2>1, <2>2, MessageFacts DEF ShownOK, Ascending
  <2>3. CASE a = p /\ Messages(p)' = shown
    <3>1. Ascending(shown)
      BY <1>7, <1>9, <1>11, <1>12, <2>1, <2>3, AppendAscending DEF ShownOK
    <3>2. ASSUME NEW j \in DOMAIN shown
          PROVE  session[Author(shown[j])] # "left" =>
                   shown[j][2] <= Written(Author(shown[j]))
      BY <1>9, <1>13, <2>1, <2>3 DEF ShownOK
    <3>3. \A j \in DOMAIN shown : Author(shown[j]) \in Peers
      BY <1>13, ElementOfSeq, IdFacts
    <3> QED
      BY <1>5, <1>16, <2>3, <3>1, <3>2, <3>3 DEF ShownOK, Ascending
  <2> QED
    BY <1>16, <2>2, <2>3
<1> QED
  BY <1>15, <1>17, <1>19, <1>20, <1>21 DEF ChatInv, WiresOK, AllShownOK

\* What an author writes is newer than all it has written before.
LEMMA SubmitStep ==
  ASSUME ChatInv, NEW p \in Peers, Submit(p)
  PROVE  ChatInv'
<1>0. ChatTypes /\ ChannelsOK /\ NumbersOK /\ WiresOK /\ AllShownOK
  BY DEF ChatInv
<1>1. PICK id : id = NextId(p)
  OBVIOUS
<1>2. PICK sent : sent = SentTo(p)
  OBVIOUS
<1>3. PICK summary : summary = FannedOut(p)
  OBVIOUS
<1>4. /\ id \in Ids /\ session[p] = "in-room"
      /\ wire' = [x \in Ends |->
           IF x[1] = p /\ x[2] \in sent
           THEN [wire[x] EXCEPT ![attempt[x]] = Append(@, id)] ELSE wire[x]]
      /\ chat' = [chat EXCEPT ![p] = [messages |-> Append(@.messages, id),
                                      fanOut |-> Recorded(@.fanOut, id, summary)]]
      /\ UNCHANGED <<session, issued, failed, attempt, dc, departed>>
  BY <1>1, <1>2, <1>3 DEF Submit
<1>5. /\ Written(p) \in Nat /\ id[1] = p /\ id[2] = Written(p) + 1 /\ Author(id) = p
      /\ id \notin DOMAIN chat[p].fanOut
      /\ IsFiniteSet(DOMAIN chat[p].fanOut \cup {id})
      /\ Cardinality(DOMAIN chat[p].fanOut \cup {id}) = Written(p) + 1
  BY <1>0, <1>1, <1>4, NewId DEF Author
<1>6. attempt \in [Ends -> 0..MaxEpoch]
  BY <1>0 DEF ChatTypes, ChatTypeOK
<1>7. summary \in FanOut
  <2>1. \A o \in Peers : o \in SentTo(p) => <<p, o>> \in Ends
    BY DEF SentTo, ChatPairs
  <2>2. \A o \in Peers : o \in SentTo(p) => attempt[<<p, o>>] \in 0..MaxEpoch
    BY <1>6, <2>1
  <2>3. 0 \in 0..MaxEpoch
    BY ChatBoundsAssumption
  <2> QED
    BY <1>3, <2>2, <2>3 DEF FannedOut, FanOut
<1>8. ASSUME NEW x \in Ends, x[1] = p, x[2] \in sent
      PROVE  attempt[x] \in Epochs /\ dc[x][attempt[x]].readyState = "open"
  <2>1. x = <<p, x[2]>>
    BY <1>8 DEF Ends
  <2>2. ChannelOpen(x)
    BY <1>2, <1>8, <2>1 DEF SentTo
  <2> QED
    BY <1>6, <2>2, EpochFacts DEF ChannelOpen
<1>9. /\ wire' \in [Ends -> [Epochs -> Seq(Ids)]]
      /\ \A x \in Ends, k \in Epochs :
           \/ wire'[x][k] = wire[x][k]
           \/ /\ x[1] = p /\ attempt[x] = k /\ dc[x][k].readyState = "open"
              /\ wire'[x][k] = Append(wire[x][k], id)
  <2>1. wire \in [Ends -> [Epochs -> Seq(Ids)]]
    BY <1>0 DEF ChatTypes
  <2>2. ASSUME NEW x \in Ends
        PROVE  /\ wire'[x] \in [Epochs -> Seq(Ids)]
               /\ \A k \in Epochs :
                    \/ wire'[x][k] = wire[x][k]
                    \/ /\ x[1] = p /\ attempt[x] = k /\ dc[x][k].readyState = "open"
                       /\ wire'[x][k] = Append(wire[x][k], id)
    <3>1. CASE x[1] = p /\ x[2] \in sent
      <4>1. PICK k \in Epochs : k = attempt[x]
        BY <1>8, <3>1
      <4>2. PICK new : new = Append(wire[x][k], id)
        OBVIOUS
      <4>3. wire[x] \in [Epochs -> Seq(Ids)] /\ wire[x][k] \in Seq(Ids)
        BY <2>1
      <4>4. new \in Seq(Ids)
        BY <1>4, <4>2, <4>3
      <4>5. wire'[x] = [wire[x] EXCEPT ![k] = new]
        BY <1>4, <3>1, <4>1, <4>2
      <4> QED
        BY <1>8, <3>1, <4>1, <4>2, <4>3, <4>4, <4>5
    <3>2. CASE ~ (x[1] = p /\ x[2] \in sent)
      BY <1>4, <2>1, <3>2
    <3> QED
      BY <3>1, <3>2
  <2>3. wire' = [x \in Ends |-> wire'[x]]
    BY <1>4
  <2> QED
    BY <2>2, <2>3
<1>10. /\ chat \in [Peers -> [messages : Seq(Ids), fanOut : Summaries]]
       /\ Messages(p) \in Seq(Ids)
  BY <1>0 DEF ChatTypes, Messages
<1>11. PICK shown : shown = Append(Messages(p), id)
  OBVIOUS
<1>12. /\ shown \in Seq(Ids) /\ Len(Messages(p)) \in Nat
       /\ DOMAIN Messages(p) = 1..Len(Messages(p))
       /\ DOMAIN shown = 1..(Len(Messages(p)) + 1)
       /\ \A j \in DOMAIN Messages(p) : shown[j] = Messages(p)[j]
       /\ shown[Len(Messages(p)) + 1] = id
  BY <1>4, <1>10, <1>11
<1>13. PICK grown : grown = Recorded(chat[p].fanOut, id, summary)
  OBVIOUS
<1>14. grown \in Summaries /\ DOMAIN grown = DOMAIN chat[p].fanOut \cup {id}
  <2>1. PICK ids \in SUBSET Ids : chat[p].fanOut \in [ids -> FanOut]
    <3>1. chat[p].fanOut \in Summaries
      BY <1>10
    <3> QED
      BY <3>1 DEF Summaries
  <2>2. DOMAIN grown = ids \cup {id}
    BY <1>13, <2>1 DEF Recorded
  <2>3. \A i \in ids \cup {id} : grown[i] \in FanOut
    BY <1>7, <1>13, <2>1 DEF Recorded
  <2>4. grown = [i \in ids \cup {id} |-> grown[i]]
    BY <1>13, <2>1, <2>2 DEF Recorded
  <2>5. grown \in [ids \cup {id} -> FanOut]
    BY <2>3, <2>4
  <2>6. ids \cup {id} \in SUBSET Ids
    BY <1>4
  <2> QED
    BY <2>1, <2>2, <2>5, <2>6 DEF Summaries
<1>15. /\ chat' \in [Peers -> [messages : Seq(Ids), fanOut : Summaries]]
       /\ \A a \in Peers \ {p} : chat'[a] = chat[a]
       /\ chat'[p].messages = shown /\ chat'[p].fanOut = grown
  <2>1. PICK new : new = [messages |-> shown, fanOut |-> grown]
    OBVIOUS
  <2>2. /\ new \in [messages : Seq(Ids), fanOut : Summaries]
        /\ new.messages = shown /\ new.fanOut = grown
    BY <1>12, <1>14, <2>1
  <2>3. chat' = [chat EXCEPT ![p] = new]
    BY <1>4, <1>10, <1>11, <1>13, <2>1 DEF Messages
  <2> QED
    BY <1>10, <2>2, <2>3
<1>16. ChatTypes'
  BY <1>0, <1>4, <1>9, <1>15, ChatTypesNext DEF ChatTypes, ChatTypeOK
<1>17. /\ Messages(p)' = shown /\ Written(p)' = Written(p) + 1
       /\ \A a \in Peers \ {p} : Messages(a)' = Messages(a) /\ Written(a)' = Written(a)
  BY <1>5, <1>14, <1>15 DEF Messages, Written
<1>18. NumbersOK'
  <2>1. ASSUME NEW i \in DOMAIN grown  PROVE i[1] = p /\ i[2] <= Written(p) + 1
    <3>1. CASE i = id
      BY <1>5, <3>1
    <3>2. CASE i \in DOMAIN chat[p].fanOut
      <4>1. i[1] = p /\ i[2] <= Written(p)
        BY <1>0, <3>2 DEF NumbersOK
      <4>2. i \in Ids
        BY <1>0, <3>2 DEF ChatTypes, ChatTypeOK
      <4> QED
        BY <1>5, <4>1, <4>2, IdFacts
    <3> QED
      BY <1>14, <2>1, <3>1, <3>2
  <2>2. IsFiniteSet(DOMAIN chat'[p].fanOut)
    BY <1>5, <1>14, <1>15
  <2>3. \A i \in DOMAIN chat'[p].fanOut : i[1] = p /\ i[2] <= Written(p)'
    BY <1>15, <1>17, <2>1
  <2>4. ASSUME NEW a \in Peers \ {p}
        PROVE  /\ IsFiniteSet(DOMAIN chat'[a].fanOut)
               /\ \A i \in DOMAIN chat'[a].fanOut : i[1] = a /\ i[2] <= Written(a)'
    <3>1. chat'[a] = chat[a] /\ Written(a)' = Written(a)
      BY <1>15, <1>17
    <3> QED
      BY <1>0, <3>1 DEF NumbersOK
  <2> QED
    BY <2>2, <2>3, <2>4 DEF NumbersOK
<1>19. ChannelsOK'
  <2>1. \A x \in Ends, k \in Epochs :
          wire'[x][k] # <<>> => wire[x][k] # <<>> \/ dc[x][k].readyState = "open"
    BY <1>9
  <2>2. \A x \in Ends, k \in Epochs :
          dc[x][k].readyState \in {"connecting", "open"} => attempt[x] = k
    BY <1>0 DEF ChannelsOK
  <2> QED
    BY <1>0, <1>4, <2>1, <2>2, ChannelsKept
<1>20. \A x \in Ends, k \in Epochs : Receiving(x, k)' = Receiving(x, k)
  BY <1>4 DEF Receiving
<1>21. \A a \in Peers : Written(a) \in Nat
  BY <1>0, WrittenNat
<1>22. ASSUME NEW x \in Ends, NEW k \in Epochs  PROVE WireOK(x, k)'
  <2>1. WireOK(x, k) /\ ShownOK(x[2])
    BY <1>0, EndFacts DEF WiresOK, AllShownOK
  <2>2. /\ x[1] \in Peers /\ x[2] \in Peers /\ x[1] # x[2]
        /\ wire[x][k] \in Seq(Ids)
        /\ \A i \in DOMAIN wire[x][k] : wire[x][k][i] \in Ids
    BY <1>0, EndFacts, WiredFacts
  <2>3. PICK new : new = wire'[x][k]
    OBVIOUS
  \* What was on its way before is bounded as before.
  <2>4. ASSUME NEW i \in DOMAIN wire[x][k]
        PROVE  /\ Author(wire[x][k][i]) = x[1]
               /\ session'[x[1]] # "left" => wire[x][k][i][2] <= Written(x[1])'
               /\ Receiving(x, k)' =>
                    \A j \in DOMAIN Messages(x[2])' :
                      Author(Messages(x[2])'[j]) = x[1] =>
                        Messages(x[2])'[j][2] < wire[x][k][i][2]
    <3>1. /\ Author(wire[x][k][i]) = x[1]
          /\ session[x[1]] # "left" => wire[x][k][i][2] <= Written(x[1])
          /\ Receiving(x, k) =>
               \A j \in DOMAIN Messages(x[2]) :
                 Author(Messages(x[2])[j]) = x[1] =>
                   Messages(x[2])[j][2] < wire[x][k][i][2]
      BY <2>1 DEF WireOK
    <3>2. wire[x][k][i][2] \in Nat
      BY <2>2, IdFacts
    <3>3. session'[x[1]] # "left" => wire[x][k][i][2] <= Written(x[1])'
      BY <1>4, <1>17, <1>21, <2>2, <3>1, <3>2
    <3>4. CASE x[2] = p
      <4>1. \A j \in DOMAIN shown : Author(shown[j]) = x[1] =>
              j \in DOMAIN Messages(p) /\ shown[j] = Messages(p)[j]
        BY <1>5, <1>12, <2>2, <3>4
      <4> QED
        BY <1>17, <1>20, <3>1, <3>3, <3>4, <4>1
    <3>5. CASE x[2] # p
      BY <1>17, <1>20, <2>2, <3>1, <3>3, <3>5
    <3> QED
      BY <3>4, <3>5
  <2>5. CASE new = wire[x][k]
    <3>1. Ascending(new)
      BY <2>1, <2>5 DEF WireOK
    <3> QED
      BY <2>3, <2>4, <2>5, <3>1 DEF WireOK, Ascending
  <2>6. CASE x[1] = p /\ new = Append(wire[x][k], id)
    <3>1. \A i \in DOMAIN wire[x][k] : wire[x][k][i][2] < id[2]
      <4>1. ASSUME NEW i \in DOMAIN wire[x][k]  PROVE wire[x][k][i][2] < id[2]
        <5>1. wire[x][k][i][2] <= Written(p) /\ wire[x][k][i][2] \in Nat
          BY <1>4, <2>1, <2>2, <2>6, IdFacts DEF WireOK
        <5> QED
          BY <1>5, <5>1
      <4> QED
        BY <4>1
    <3>2. Ascending(new)
      BY <1>4, <2>1, <2>2, <2>6, <3>1, AppendAscending DEF WireOK
    <3>3. /\ Author(id) = x[1] /\ id[2] <= Written(x[1])'
          /\ \A j \in DOMAIN Messages(x[2])' :
               Author(Messages(x[2])'[j]) = x[1] => Messages(x[2])'[j][2] < id[2]
      <4>1. Messages(x[2])' = Messages(x[2])
        BY <1>17, <2>2, <2>6
      <4>2. ASSUME NEW j \in DOMAIN Messages(x[2]), Author(Messages(x[2])[j]) = x[1]
            PROVE  Messages(x[2])[j][2] < id[2]
        <5>1. Messages(x[2])[j][2] <= Written(p)
          BY <1>4, <2>1, <2>6, <4>2 DEF ShownOK
        <5>2. Messages(x[2])[j][2] \in Nat
          BY <1>0, <2>2, MessageFacts, IdFacts
        <5> QED
          BY <1>5, <5>1, <5>2
      <4>3. id[2] <= Written(x[1])'
        BY <1>5, <1>17, <2>6
      <4> QED
        BY <1>5, <2>6, <4>1, <4>2, <4>3
    <3>4. /\ DOMAIN new = 1..(Len(wire[x][k]) + 1) /\ Len(wire[x][k]) \in Nat
          /\ DOMAIN wire[x][k] = 1..Len(wire[x][k])
          /\ \A i \in DOMAIN wire[x][k] : new[i] = wire[x][k][i]
          /\ new[Len(wire[x][k]) + 1] = id
      BY <1>4, <2>2, <2>6
    <3>5. ASSUME NEW i \in DOMAIN new
          PROVE  /\ Author(new[i]) = x[1]
                 /\ session'[x[1]] # "left" => new[i][2] <= Written(x[1])'
                 /\ Receiving(x, k)' =>
                      \A j \in DOMAIN Messages(x[2])' :
                        Author(Messages(x[2])'[j]) = x[1] =>
                          Messages(x[2])'[j][2] < new[i][2]
      <4>1. CASE i \in DOMAIN wire[x][k]
        BY <2>4, <3>4, <4>1
      <4>2. CASE i = Len(wire[x][k]) + 1
        BY <3>3, <3>4, <4>2
      <4> QED
        BY <3>4, <4>1, <4>2
    <3> QED
      BY <2>3, <3>2, <3>5 DEF WireOK, Ascending
  <2> QED
    BY <1>9, <2>3, <2>5, <2>6
<1>23. ASSUME NEW a \in Peers  PROVE ShownOK(a)'
  <2>1. ShownOK(a)
    BY <1>0 DEF AllShownOK
  <2>2. ASSUME NEW j \in DOMAIN Messages(a), NEW b \in Peers, b = Author(Messages(a)[j])
        PROVE  session'[b] # "left" => Messages(a)[j][2] <= Written(b)'
    <3>1. session[b] # "left" => Messages(a)[j][2] <= Written(b)
      BY <2>1, <2>2 DEF ShownOK
    <3>2. Written(b)' = Written(b) \/ Written(b)' = Written(b) + 1
      BY <1>17
    <3>3. Messages(a)[j][2] \in Nat /\ Written(b) \in Nat
      BY <1>0, <1>21, MessageFacts, IdFacts
    <3> QED
      BY <1>4, <3>1, <3>2, <3>3
  <2>3. CASE a # p
    <3>1. Messages(a)' = Messages(a)
      BY <1>17, <2>3
    <3>2. \A j \in DOMAIN Messages(a) : Author(Messages(a)[j]) \in Peers
      BY <1>0, MessageFacts
    <3> QED
      BY <2>1, <2>2, <3>1, <3>2 DEF ShownOK, Ascending
  <2>4. CASE a = p
    <3>1. ASSUME NEW j \in DOMAIN Messages(p), Author(Messages(p)[j]) = Author(id)
          PROVE  Messages(p)[j][2] < id[2]
      <4>1. Messages(p)[j][2] <= Written(p)
        BY <1>4, <1>5, <2>1, <2>4, <3>1 DEF ShownOK
      <4>2. Messages(p)[j][2] \in Nat
        BY <1>0, MessageFacts, IdFacts
      <4> QED
        BY <1>5, <4>1, <4>2
    <3>2. Ascending(shown)
      BY <1>4, <1>10, <1>11, <2>1, <2>4, <3>1, AppendAscending DEF ShownOK
    <3>3. ASSUME NEW j \in DOMAIN shown, NEW b \in Peers, b = Author(shown[j])
          PROVE  session'[b] # "left" => shown[j][2] <= Written(b)'
      <4>1. CASE j \in DOMAIN Messages(p)
        <5>1. shown[j] = Messages(p)[j]
          BY <1>12, <4>1
        <5> QED
          BY <2>2, <2>4, <3>3, <4>1, <5>1
      <4>2. CASE j = Len(Messages(p)) + 1
        BY <1>5, <1>12, <1>17, <3>3, <4>2
      <4> QED
        BY <1>12, <4>1, <4>2
    <3>4. \A j \in DOMAIN shown : Author(shown[j]) \in Peers
      BY <1>12, ElementOfSeq, IdFacts
    <3> QED
      BY <1>17, <2>4, <3>2, <3>3, <3>4 DEF ShownOK, Ascending
  <2> QED
    BY <2>3, <2>4
<1> QED
  BY <1>16, <1>18, <1>19, <1>22, <1>23 DEF ChatInv, WiresOK, AllShownOK

-----------------------------------------------------------------------------
(* The specification. *)

LEMMA ChatInitInv == ChatInit => ChatInv
<1> SUFFICES ASSUME ChatInit  PROVE ChatInv
  OBVIOUS
<1>1. /\ \A p \in Peers : Messages(p) = <<>> /\ DOMAIN chat[p].fanOut = {}
      /\ \A x \in Ends, k \in Epochs : wire[x][k] = <<>> /\ dc[x][k] = NoChannel
  BY DEF ChatInit, Messages, InitialChat
<1>2. NoChannel \in Channel /\ NoChannel.readyState = "none" /\ 1 \in Epochs
      /\ 0 \in 0..MaxEpoch
  BY ChatBoundsAssumption DEF NoChannel, Channel, ReadyStates, Epochs
<1>3. ChatTypes
  <2>1. session \in [Peers -> {"in-room", "signaling-error", "left"}]
    BY DEF ChatInit
  <2>2. issued \in [Pairs -> Epochs] /\ failed \in [Pairs -> SUBSET Epochs]
    BY <1>2 DEF ChatInit
  <2>3. attempt \in [Ends -> 0..MaxEpoch] /\ dc \in [Ends -> [Epochs -> Channel]]
    BY <1>2 DEF ChatInit
  <2>4. departed \in [Peers -> SUBSET Peers]
    BY DEF ChatInit
  <2>5. wire \in [Ends -> [Epochs -> Seq(Ids)]]
    BY DEF ChatInit
  <2>6. chat \in [Peers -> [messages : Seq(Ids), fanOut : Summaries]]
    <3>1. <<>> \in [{} -> FanOut]
      OBVIOUS
    <3>2. <<>> \in Summaries
      BY <3>1 DEF Summaries
    <3> QED
      BY <3>2 DEF ChatInit, InitialChat
  <2> QED
    BY <1>1, <2>1, <2>2, <2>3, <2>4, <2>5, <2>6 DEF ChatTypes, ChatTypeOK
<1>4. ChannelsOK
  BY <1>1, <1>2 DEF ChannelsOK
<1>5. NumbersOK
  BY <1>1, FS_EmptySet DEF NumbersOK
<1>6. WiresOK
  <2>1. \A x \in Ends, k \in Epochs : DOMAIN wire[x][k] = {}
    BY <1>1
  <2> QED
    BY <2>1 DEF WiresOK, WireOK, Ascending
<1>7. AllShownOK
  <2>1. \A p \in Peers : DOMAIN Messages(p) = {}
    BY <1>1
  <2> QED
    BY <2>1 DEF AllShownOK, ShownOK, Ascending
<1> QED
  BY <1>3, <1>4, <1>5, <1>6, <1>7 DEF ChatInv

LEMMA ChatNextInv == ChatInv /\ [ChatNext]_chatVars => ChatInv'
<1> SUFFICES ASSUME ChatInv, [ChatNext]_chatVars  PROVE ChatInv'
  OBVIOUS
<1>1. ASSUME NEW x \in Ends, Begin(x)  PROVE ChatInv'
  BY <1>1, BeginStep
<1>2. ASSUME NEW x \in Ends, ChannelOpens(x)  PROVE ChatInv'
  BY <1>2, ChannelOpensStep
<1>3. ASSUME NEW x \in Ends, DataChannelArrives(x)  PROVE ChatInv'
  BY <1>3, DataChannelArrivesStep
<1>4. ASSUME NEW x \in Ends, ChannelCloses(x)  PROVE ChatInv'
  BY <1>4, ChannelClosesStep
<1>5. ASSUME NEW x \in Ends, Fail(x)  PROVE ChatInv'
  BY <1>5, FailStep
<1>6. ASSUME NEW x \in Ends, NEW k \in Epochs, Arrive(x, k)  PROVE ChatInv'
  BY <1>6, ArriveStep
<1>7. ASSUME NEW q \in Pairs, Reconnect(q)  PROVE ChatInv'
  BY <1>7, ReconnectStep
<1>8. ASSUME NEW p \in Peers, Submit(p)  PROVE ChatInv'
  BY <1>8, SubmitStep
<1>9. ASSUME NEW p \in Peers, LeaveRoom(p)  PROVE ChatInv'
  BY <1>9, LeaveRoomStep
<1>10. ASSUME NEW p \in Peers, LoseSignaling(p)  PROVE ChatInv'
  BY <1>10, LoseSignalingStep
<1>11. ASSUME NEW p \in Peers, NEW o \in Peers, PeerLeft(p, o)  PROVE ChatInv'
  BY <1>11, PeerLeftStep
<1>12. CASE UNCHANGED chatVars
  BY <1>12 DEF chatVars, ChatInv, ChatTypes, ChatTypeOK, ChannelsOK, NumbersOK, WiresOK,
       WireOK, AllShownOK, ShownOK, Receiving, Messages, Written, Ascending
<1> QED
  BY <1>1, <1>2, <1>3, <1>4, <1>5, <1>6, <1>7, <1>8, <1>9, <1>10, <1>11, <1>12
  DEF ChatNext

\* The invariant of the chat: what is on its way to a channel that still takes
\* messages is in order and newer than all its reader shows, through attempts,
\* failures, departures and lost signaling.
THEOREM ChatInductive == ChatSpec => []ChatInv
<1> QED
  BY ChatInitInv, ChatNextInv, PTL DEF ChatSpec

\* The chat, its data channels and its fan-out summaries have their types.
THEOREM ChatTypeCorrect == ChatSpec => []ChatTypeOK
<1>1. ChatInv => ChatTypeOK
  BY DEF ChatInv, ChatTypes
<1> QED
  BY <1>1, ChatInductive, PTL

\* What anybody shows of one author is in the order it was written and nothing
\* of it twice (state/chat.ts appends what dc.onmessage hands it, unchecked).
THEOREM ShownInOrder == ChatSpec => []OrderedAndOnce
<1>1. ChatInv => OrderedAndOnce
  BY DEF ChatInv, AllShownOK, ShownOK, Ascending, OrderedAndOnce, Messages
<1> QED
  BY <1>1, ChatInductive, PTL

-----------------------------------------------------------------------------
(***************************************************************************)
(* What is counted as delivered.  CountInv adds to ChatInv that a message  *)
(* the summary of its author counts for a peer is shown there or on its    *)
(* way, as long as neither end has closed the channel it went out on.      *)
(***************************************************************************)

InTransit(x, k, id) == \E i \in DOMAIN wire[x][k] : wire[x][k][i] = id

\* A channel that delivers has its receiver.
ReceiversOK ==
  \A x \in Ends, k \in Epochs :
    dc[x][k].readyState \in {"connecting", "open"} => dc[x][k].onmessage

\* Of a message from the end x, in attempt k.
Counted(x, k, id) ==
  /\ dc[x][k].readyState \in {"open", "closed"}
  /\ \/ Shown(x[2], id) \/ InTransit(x, k, id)
     \/ dc[x][k].readyState = "closed" \/ ~ Receiving(x, k)

CountedOK ==
  \A a, p \in Peers, k \in Epochs : \A id \in DOMAIN chat[a].fanOut :
    p # a /\ chat[a].fanOut[id][p] = k => <<a, p>> \in Ends /\ Counted(<<a, p>>, k, id)

CountInv == ChatInv /\ ReceiversOK /\ CountedOK

\* What the summary says has gone to p, and p does not show, is on its way to
\* it over an open channel, and p is in the same attempt and has not closed it.
CountedIsUnderWay ==
  \A p \in Peers, id \in Ids :
    p # Author(id) /\ OnItsWay(p, id) =>
      LET x == <<Author(id), p>>
          k == chat[Author(id)].fanOut[id][p]
      IN /\ InTransit(x, k, id) /\ dc[x][k].readyState = "open"
         /\ attempt[x] = k /\ attempt[Far(x)] = k
         /\ dc[Far(x)][k].readyState = "open" => dc[Far(x)][k].onmessage

\* Steps that write and show nothing, and leave an open channel open or close it.
LEMMA CountKept ==
  ASSUME CountedOK, UNCHANGED chat,
         \A x \in Ends, k \in Epochs :
           /\ dc[x][k].readyState = "closed" => dc'[x][k].readyState = "closed"
           /\ dc[x][k].readyState = "open" => dc'[x][k].readyState \in {"open", "closed"}
           /\ wire'[x][k] = wire[x][k] \/ ~ Receiving(x, k)'
  PROVE  CountedOK'
<1>1. ASSUME NEW x \in Ends, NEW k \in Epochs, NEW id, Counted(x, k, id)
      PROVE  Counted(x, k, id)'
  <2>1. Shown(x[2], id)' = Shown(x[2], id)
    BY DEF Shown
  <2>2. dc'[x][k].readyState \in {"open", "closed"}
    BY <1>1 DEF Counted
  <2>3. ~ Receiving(x, k) => ~ Receiving(x, k)'
    BY EndFacts DEF Receiving
  <2>4. CASE ~ Receiving(x, k)'
    BY <2>2, <2>4 DEF Counted
  <2>5. CASE wire'[x][k] = wire[x][k]
    <3>1. InTransit(x, k, id)' = InTransit(x, k, id)
      BY <2>5 DEF InTransit
    <3> QED
      BY <1>1, <2>1, <2>2, <2>3, <3>1 DEF Counted
  <2> QED
    BY <2>4, <2>5
<1>2. ASSUME NEW a \in Peers, NEW p \in Peers, NEW k \in Epochs,
             NEW id \in DOMAIN chat'[a].fanOut,
             p # a, chat'[a].fanOut[id][p] = k
      PROVE  <<a, p>> \in Ends /\ Counted(<<a, p>>, k, id)'
  <2>1. <<a, p>> \in Ends /\ Counted(<<a, p>>, k, id)
    BY <1>2 DEF CountedOK
  <2> QED
    BY <1>1, <2>1
<1> QED
  BY <1>2 DEF CountedOK

LEMMA StillCounted ==
  ASSUME CountInv, UNCHANGED <<dc, wire, chat>>
  PROVE  ReceiversOK' /\ CountedOK'
<1>1. ReceiversOK'
  BY DEF CountInv, ReceiversOK
<1>2. \A x \in Ends, k \in Epochs : wire'[x][k] = wire[x][k] /\ dc'[x][k] = dc[x][k]
  OBVIOUS
<1>3. CountedOK'
  BY <1>2, CountKept DEF CountInv
<1> QED
  BY <1>1, <1>3

LEMMA BeginCounted ==
  ASSUME CountInv, NEW x \in Ends, Begin(x)
  PROVE  ReceiversOK' /\ CountedOK'
<1>1. PICK k : k = issued[PairOf(x)]
  OBVIOUS
<1>2. PICK torn : torn = TornDown({x})
  OBVIOUS
<1>3. PICK new : new = IF IsOfferer(x) THEN Wired(x, "connecting") ELSE NoChannel
  OBVIOUS
<1>4. /\ dc[x][k].readyState = "none"
      /\ dc' = [torn EXCEPT ![x][k] = new]
      /\ wire' = Undelivered /\ UNCHANGED chat
  BY <1>1, <1>2, <1>3 DEF Begin, NoChannel
<1>5. k \in Epochs
  BY <1>1, EndFacts DEF CountInv, ChatInv, ChatTypes, ChatTypeOK
<1>6. /\ torn \in [Ends -> [Epochs -> Channel]]
      /\ \A y \in Ends, m \in Epochs :
           /\ torn[y][m].readyState =
                IF y \in {x} /\ attempt[y] = m THEN "closed" ELSE dc[y][m].readyState
           /\ torn[y][m].onmessage = dc[y][m].onmessage
  BY <1>2, Torn DEF CountInv, ChatInv
<1>7. /\ new.readyState \in {"connecting", "none"}
      /\ new.readyState = "connecting" => new.onmessage
  BY <1>3 DEF Wired, NoChannel
<1>8. \A y \in Ends, m \in Epochs :
        dc'[y][m] = IF y = x /\ m = k THEN new ELSE torn[y][m]
  BY <1>4, <1>5, <1>6
<1>9. \A y \in Ends, m \in Epochs :
        dc[y][m].readyState \in {"connecting", "open"} => dc[y][m].onmessage
  BY DEF CountInv, ReceiversOK
<1>10. \A y \in Ends, m \in Epochs : wire'[y][m] = wire[y][m] \/ ~ Receiving(y, m)'
  BY <1>4, Delivery DEF CountInv, ChatInv
<1>11. ASSUME NEW y \in Ends, NEW m \in Epochs
       PROVE  /\ dc[y][m].readyState = "closed" => dc'[y][m].readyState = "closed"
              /\ dc[y][m].readyState = "open" => dc'[y][m].readyState \in {"open", "closed"}
              /\ dc'[y][m].readyState \in {"connecting", "open"} => dc'[y][m].onmessage
  <2>1. CASE y = x /\ m = k
    <3>1. dc'[y][m] = new /\ dc[y][m].readyState = "none"
      BY <1>4, <1>8, <2>1
    <3> QED
      BY <1>7, <3>1
  <2>2. CASE ~ (y = x /\ m = k)
    <3>1. dc'[y][m] = torn[y][m]
      BY <1>8, <2>2
    <3> QED
      BY <1>6, <1>9, <3>1
  <2> QED
    BY <2>1, <2>2
<1>12. ReceiversOK'
  BY <1>11 DEF ReceiversOK
<1>13. CountedOK'
  BY <1>4, <1>10, <1>11, CountKept DEF CountInv
<1> QED
  BY <1>12, <1>13

LEMMA ChannelCounted ==
  ASSUME CountInv, UNCHANGED chat,
         NEW x \in Ends, NEW k \in Epochs, NEW c \in Channel,
         dc' = [dc EXCEPT ![x][k] = c],
         dc[x][k].readyState = "closed" => c.readyState = "closed",
         dc[x][k].readyState = "open" => c.readyState \in {"open", "closed"},
         c.readyState \in {"connecting", "open"} => c.onmessage,
         wire' = wire \/ wire' = Undelivered
  PROVE  ReceiversOK' /\ CountedOK'
<1>1. \A y \in Ends, m \in Epochs :
        dc'[y][m] = IF y = x /\ m = k THEN c ELSE dc[y][m]
  BY DEF CountInv, ChatInv, ChatTypes, ChatTypeOK
<1>2. \A y \in Ends, m \in Epochs : wire'[y][m] = wire[y][m] \/ ~ Receiving(y, m)'
  BY Delivery DEF CountInv, ChatInv
<1>3. ReceiversOK'
  BY <1>1 DEF CountInv, ReceiversOK
<1>4. \A y \in Ends, m \in Epochs :
        /\ dc[y][m].readyState = "closed" => dc'[y][m].readyState = "closed"
        /\ dc[y][m].readyState = "open" => dc'[y][m].readyState \in {"open", "closed"}
  BY <1>1
<1>5. CountedOK'
  BY <1>2, <1>4, CountKept DEF CountInv
<1> QED
  BY <1>3, <1>5

LEMMA ChannelOpensCounted ==
  ASSUME CountInv, NEW x \in Ends, ChannelOpens(x)
  PROVE  ReceiversOK' /\ CountedOK'
<1>1. PICK k : k = attempt[x]
  OBVIOUS
<1>2. /\ k # 0 /\ dc[x][k].readyState = "connecting"
      /\ dc' = [dc EXCEPT ![x][k].readyState = "open"]
      /\ UNCHANGED <<wire, chat>>
  BY <1>1 DEF ChannelOpens, Connected
<1>3. k \in Epochs
  BY <1>1, <1>2, EpochFacts DEF CountInv, ChatInv, ChatTypes, ChatTypeOK
<1>4. PICK c \in Channel :
        /\ c.readyState = "open" /\ c.onmessage = dc[x][k].onmessage
        /\ [dc EXCEPT ![x][k].readyState = "open"] = [dc EXCEPT ![x][k] = c]
  BY <1>3, ReadyStateChanged DEF CountInv, ChatInv, ReadyStates
<1>5. dc' = [dc EXCEPT ![x][k] = c]
  BY <1>2, <1>4
<1>6. c.onmessage
  BY <1>2, <1>3, <1>4 DEF CountInv, ReceiversOK
<1>7. UNCHANGED chat /\ wire' = wire /\ dc[x][k].readyState = "connecting"
  BY <1>2
<1> QED
  BY <1>3, <1>4, <1>5, <1>6, <1>7, ChannelCounted

LEMMA DataChannelArrivesCounted ==
  ASSUME CountInv, NEW x \in Ends, DataChannelArrives(x)
  PROVE  ReceiversOK' /\ CountedOK'
<1>1. PICK k : k = attempt[x]
  OBVIOUS
<1>2. PICK c : c = Wired(x, "open")
  OBVIOUS
<1>3. /\ k # 0 /\ dc[x][k].readyState = "none"
      /\ dc' = [dc EXCEPT ![x][k] = c]
      /\ UNCHANGED <<wire, chat>>
  BY <1>1, <1>2 DEF DataChannelArrives, Connected
<1>4. k \in Epochs
  BY <1>1, <1>3, EpochFacts DEF CountInv, ChatInv, ChatTypes, ChatTypeOK
<1>5. c \in Channel /\ c.readyState = "open" /\ c.onmessage
  BY <1>2 DEF Wired, Channel, ReadyStates
<1>6. UNCHANGED chat /\ wire' = wire
  BY <1>3
<1> QED
  BY <1>3, <1>4, <1>5, <1>6, ChannelCounted

LEMMA ChannelClosesCounted ==
  ASSUME CountInv, NEW x \in Ends, ChannelCloses(x)
  PROVE  ReceiversOK' /\ CountedOK'
<1>1. PICK k \in Epochs : dc' = [dc EXCEPT ![x][k].readyState = "closed"]
  BY DEF ChannelCloses
<1>2. wire' = Undelivered /\ UNCHANGED chat
  BY DEF ChannelCloses
<1>3. PICK c \in Channel :
        /\ c.readyState = "closed" /\ c.onmessage = dc[x][k].onmessage
        /\ [dc EXCEPT ![x][k].readyState = "closed"] = [dc EXCEPT ![x][k] = c]
  BY ReadyStateChanged DEF CountInv, ChatInv, ReadyStates
<1>4. dc' = [dc EXCEPT ![x][k] = c]
  BY <1>1, <1>3
<1> QED
  BY <1>2, <1>3, <1>4, ChannelCounted

\* Contexts are closed, of one pair or of all.
LEMMA ClosedCounted ==
  ASSUME CountInv, NEW xs, ClosePairs(xs)
  PROVE  /\ ReceiversOK'
         /\ \A x \in Ends, k \in Epochs :
              /\ dc'[x][k].readyState =
                   IF x \in xs /\ attempt[x] = k THEN "closed" ELSE dc[x][k].readyState
              /\ wire'[x][k] = wire[x][k] \/ ~ Receiving(x, k)'
<1>1. dc' = TornDown(xs) /\ wire' = Undelivered
  BY DEF ClosePairs
<1>2. \A x \in Ends, k \in Epochs :
        /\ dc'[x][k].readyState =
             IF x \in xs /\ attempt[x] = k THEN "closed" ELSE dc[x][k].readyState
        /\ dc'[x][k].onmessage = dc[x][k].onmessage
  BY <1>1, Torn DEF CountInv, ChatInv
<1>3. \A x \in Ends, k \in Epochs : wire'[x][k] = wire[x][k] \/ ~ Receiving(x, k)'
  BY <1>1, Delivery DEF CountInv, ChatInv
<1>4. ReceiversOK'
  BY <1>2 DEF CountInv, ReceiversOK
<1> QED
  BY <1>2, <1>3, <1>4

LEMMA PeerLeftCounted ==
  ASSUME CountInv, NEW p \in Peers, NEW o \in Peers, PeerLeft(p, o)
  PROVE  ReceiversOK' /\ CountedOK'
<1>1. PICK xs : ClosePairs(xs)
  BY DEF PeerLeft
<1>2. UNCHANGED chat
  BY DEF PeerLeft
<1>3. /\ ReceiversOK'
      /\ \A x \in Ends, k \in Epochs :
           /\ dc'[x][k].readyState =
                IF x \in xs /\ attempt[x] = k THEN "closed" ELSE dc[x][k].readyState
           /\ wire'[x][k] = wire[x][k] \/ ~ Receiving(x, k)'
  BY <1>1, ClosedCounted
<1>4. CountedOK'
  BY <1>2, <1>3, CountKept DEF CountInv
<1> QED
  BY <1>3, <1>4

\* Who leaves closes the channels on which anything was counted for it.
LEMMA LeaveRoomCounted ==
  ASSUME CountInv, NEW q \in Peers, LeaveRoom(q)
  PROVE  ReceiversOK' /\ CountedOK'
<1>1. PICK xs : xs = {x \in Ends : x[1] = q}
  OBVIOUS
<1>2. ClosePairs(xs) /\ chat' = [chat EXCEPT ![q] = InitialChat]
  BY <1>1 DEF LeaveRoom
<1>3. /\ ReceiversOK'
      /\ \A x \in Ends, k \in Epochs :
           /\ dc'[x][k].readyState =
                IF x \in xs /\ attempt[x] = k THEN "closed" ELSE dc[x][k].readyState
           /\ wire'[x][k] = wire[x][k] \/ ~ Receiving(x, k)'
  BY <1>2, ClosedCounted
<1>4. \A a \in Peers : chat'[a] = IF a = q THEN InitialChat ELSE chat[a]
  BY <1>2 DEF CountInv, ChatInv, ChatTypes
<1>5. ASSUME NEW a \in Peers, NEW p \in Peers, NEW k \in Epochs,
             NEW id \in DOMAIN chat'[a].fanOut,
             p # a, chat'[a].fanOut[id][p] = k
      PROVE  <<a, p>> \in Ends /\ Counted(<<a, p>>, k, id)'
  <2>1. a # q /\ chat'[a] = chat[a]
    <3>1. DOMAIN InitialChat.fanOut = {}
      BY DEF InitialChat
    <3> QED
      BY <1>4, <1>5, <3>1
  <2>2. <<a, p>> \in Ends /\ Counted(<<a, p>>, k, id)
    BY <1>5, <2>1 DEF CountInv, CountedOK
  <2>3. PICK x \in Ends : x = <<a, p>>
    BY <2>2
  <2>4. /\ x[1] = a /\ x[2] = p /\ Far(x) \in Ends /\ Far(x)[1] = p
        /\ Counted(x, k, id)
    BY <2>2, <2>3, EndFacts
  <2>5. dc'[x][k].readyState \in {"open", "closed"}
    BY <1>3, <2>4 DEF Counted
  <2>6. CASE p = q
    <3>1. CASE dc'[x][k].readyState = "closed"
      BY <2>2, <2>3, <2>5, <3>1 DEF Counted
    <3>2. CASE dc'[x][k].readyState = "open"
      <4>1. dc[x][k].readyState = "open"
        BY <1>3, <3>2
      <4>2. attempt[Far(x)] = k \/ ~ Receiving(x, k)
        BY <4>1 DEF CountInv, ChatInv, ChannelsOK
      <4>3. Far(x) \in xs
        BY <1>1, <2>4, <2>6
      <4>4. ~ Receiving(x, k)'
        BY <1>3, <2>4, <4>2, <4>3 DEF Receiving
      <4> QED
        BY <2>2, <2>3, <2>5, <4>4 DEF Counted
    <3> QED
      BY <2>5, <3>1, <3>2
  <2>7. CASE p # q
    <3>1. Shown(p, id)' = Shown(p, id)
      BY <1>4, <2>7 DEF Shown
    <3>2. dc[x][k].readyState = "closed" => dc'[x][k].readyState = "closed"
      BY <1>3
    <3>3. ~ Receiving(x, k) => ~ Receiving(x, k)'
      BY <1>3, <2>4 DEF Receiving
    <3>4. InTransit(x, k, id) => InTransit(x, k, id)' \/ ~ Receiving(x, k)'
      BY <1>3 DEF InTransit
    <3> QED
      BY <2>3, <2>4, <2>5, <3>1, <3>2, <3>3, <3>4 DEF Counted
  <2> QED
    BY <2>2, <2>3, <2>6, <2>7
<1>6. CountedOK'
  BY <1>5 DEF CountedOK
<1> QED
  BY <1>3, <1>6

LEMMA ArriveCounted ==
  ASSUME CountInv, NEW x \in Ends, NEW k \in Epochs, Arrive(x, k)
  PROVE  ReceiversOK' /\ CountedOK'
<1>0. ChatTypes /\ ReceiversOK /\ CountedOK
  BY DEF CountInv, ChatInv
<1>1. PICK p : p = x[2]
  OBVIOUS
<1>2. p \in Peers /\ Far(x) \in Ends /\ Far(x)[1] = p
  BY <1>1, EndFacts
<1>3. PICK id : id = Head(wire[x][k])
  OBVIOUS
<1>4. PICK rest : rest = Tail(wire[x][k])
  OBVIOUS
<1>5. /\ wire[x][k] # <<>> /\ dc[Far(x)][k].readyState = "open"
      /\ wire' = [wire EXCEPT ![x][k] = rest]
      /\ chat' = IF dc[Far(x)][k].onmessage
                 THEN [chat EXCEPT ![p].messages = Append(@, id)] ELSE chat
      /\ UNCHANGED dc
  BY <1>2, <1>3, <1>4 DEF Arrive
<1>6. chat' = [chat EXCEPT ![p].messages = Append(@, id)]
  BY <1>0, <1>2, <1>5 DEF ReceiversOK
<1>7. wire[x][k] \in Seq(Ids) /\ Messages(p) \in Seq(Ids)
  BY <1>0, <1>2 DEF ChatTypes, Messages
<1>8. /\ DOMAIN wire[x][k] = 1..Len(wire[x][k]) /\ Len(wire[x][k]) \in Nat
      /\ wire[x][k][1] = id /\ id \in Ids
      /\ DOMAIN rest = 1..(Len(wire[x][k]) - 1)
      /\ \A i \in DOMAIN rest : rest[i] = wire[x][k][i + 1]
  BY <1>3, <1>4, <1>5, <1>7
<1>9. \A z \in Ends, m \in Epochs :
        wire'[z][m] = IF z = x /\ m = k THEN rest ELSE wire[z][m]
  BY <1>0, <1>5 DEF ChatTypes
<1>10. PICK shown : shown = Append(Messages(p), id)
  OBVIOUS
<1>11. /\ Len(shown) = Len(Messages(p)) + 1 /\ Len(Messages(p)) \in Nat
       /\ \A j \in 1..Len(Messages(p)) : shown[j] = Messages(p)[j]
       /\ shown[Len(Messages(p)) + 1] = id
  BY <1>7, <1>8, <1>10
<1>12. /\ \A a \in Peers : chat'[a].fanOut = chat[a].fanOut
       /\ \A a \in Peers \ {p} : chat'[a].messages = chat[a].messages
       /\ chat'[p].messages = shown
  <2>1. PICK old \in [messages : Seq(Ids), fanOut : Summaries] : old = chat[p]
    BY <1>0, <1>2 DEF ChatTypes
  <2>2. PICK new : new = [old EXCEPT !.messages = shown]
    OBVIOUS
  <2>3. new.messages = shown /\ new.fanOut = old.fanOut
    BY <2>1, <2>2
  <2>4. chat' = [chat EXCEPT ![p] = new]
    BY <1>6, <1>10, <2>1, <2>2 DEF Messages
  <2> QED
    BY <1>0, <1>2, <2>1, <2>3, <2>4 DEF ChatTypes
<1>13. /\ \A a \in Peers : \A m : Shown(a, m) => Shown(a, m)'
       /\ Shown(p, id)'
  <2>1. ASSUME NEW a \in Peers, NEW m, Shown(a, m)  PROVE Shown(a, m)'
    <3>1. CASE a = p
      BY <1>11, <1>12, <2>1, <3>1 DEF Shown, Contains, Messages
    <3>2. CASE a # p
      BY <1>12, <2>1, <3>2 DEF Shown
    <3> QED
      BY <3>1, <3>2
  <2>2. Shown(p, id)'
    BY <1>11, <1>12 DEF Shown, Contains
  <2> QED
    BY <2>1, <2>2
<1>14. ASSUME NEW z \in Ends, NEW m \in Epochs, NEW d, InTransit(z, m, d)
       PROVE  InTransit(z, m, d)' \/ Shown(z[2], d)'
  <2>1. CASE z = x /\ m = k
    <3>1. PICK i \in DOMAIN wire[x][k] : wire[x][k][i] = d
      BY <1>14, <2>1 DEF InTransit
    <3>2. CASE i = 1
      BY <1>1, <1>8, <1>13, <2>1, <3>1, <3>2
    <3>3. CASE i # 1
      <4>1. i - 1 \in DOMAIN rest /\ rest[i - 1] = d
        BY <1>8, <3>1, <3>3
      <4> QED
        BY <1>9, <2>1, <4>1 DEF InTransit
    <3> QED
      BY <3>2, <3>3
  <2>2. CASE ~ (z = x /\ m = k)
    BY <1>9, <1>14, <2>2 DEF InTransit
  <2> QED
    BY <2>1, <2>2
<1>15. ASSUME NEW z \in Ends, NEW m \in Epochs, NEW d, Counted(z, m, d)
       PROVE  Counted(z, m, d)'
  <2>1. Receiving(z, m)' = Receiving(z, m) /\ dc' = dc
    BY <1>5 DEF Receiving
  <2>2. z[2] \in Peers
    BY EndFacts
  <2> QED
    BY <1>13, <1>14, <1>15, <2>1, <2>2 DEF Counted
<1>16. CountedOK'
  <2>1. ASSUME NEW a \in Peers, NEW b \in Peers, NEW m \in Epochs,
               NEW d \in DOMAIN chat'[a].fanOut,
               b # a, chat'[a].fanOut[d][b] = m
        PROVE  <<a, b>> \in Ends /\ Counted(<<a, b>>, m, d)'
    <3>1. <<a, b>> \in Ends /\ Counted(<<a, b>>, m, d)
      BY <1>0, <1>12, <2>1 DEF CountedOK
    <3> QED
      BY <1>15, <3>1
  <2> QED
    BY <2>1 DEF CountedOK
<1>17. ReceiversOK'
  BY <1>0, <1>5 DEF ReceiversOK
<1> QED
  BY <1>16, <1>17

LEMMA SubmitCounted ==
  ASSUME CountInv, NEW q \in Peers, Submit(q)
  PROVE  ReceiversOK' /\ CountedOK'
<1>0. ChatTypes /\ ReceiversOK /\ CountedOK
  BY DEF CountInv, ChatInv
<1>1. PICK new : new = NextId(q)
  OBVIOUS
<1>2. PICK sent : sent = SentTo(q)
  OBVIOUS
<1>3. PICK summary : summary = FannedOut(q)
  OBVIOUS
<1>4. /\ new \in Ids
      /\ wire' = [x \in Ends |->
           IF x[1] = q /\ x[2] \in sent
           THEN [wire[x] EXCEPT ![attempt[x]] = Append(@, new)] ELSE wire[x]]
      /\ chat' = [chat EXCEPT ![q] = [messages |-> Append(@.messages, new),
                                      fanOut |-> Recorded(@.fanOut, new, summary)]]
      /\ UNCHANGED dc
  BY <1>1, <1>2, <1>3 DEF Submit
<1>5. ASSUME NEW x \in Ends, NEW k \in Epochs
      PROVE  wire'[x][k] = IF x[1] = q /\ x[2] \in sent /\ attempt[x] = k
                           THEN Append(wire[x][k], new) ELSE wire[x][k]
  <2>1. wire[x] \in [Epochs -> Seq(Ids)]
    BY <1>0 DEF ChatTypes
  <2>2. CASE x[1] = q /\ x[2] \in sent
    <3>1. PICK m : m = attempt[x]
      OBVIOUS
    <3>2. wire'[x] = [wire[x] EXCEPT ![m] = Append(wire[x][m], new)]
      BY <1>4, <2>2, <3>1
    <3> QED
      BY <2>1, <2>2, <3>1, <3>2
  <2>3. CASE ~ (x[1] = q /\ x[2] \in sent)
    BY <1>4, <2>3
  <2> QED
    BY <2>2, <2>3
<1>6. \A x \in Ends, k \in Epochs :
        wire[x][k] \in Seq(Ids) /\ DOMAIN wire[x][k] = 1..Len(wire[x][k])
  BY <1>0 DEF ChatTypes
<1>7. ASSUME NEW x \in Ends, NEW k \in Epochs, NEW d, InTransit(x, k, d)
      PROVE  InTransit(x, k, d)'
  <2>1. PICK i \in DOMAIN wire[x][k] : wire[x][k][i] = d
    BY <1>7 DEF InTransit
  <2>2. i \in DOMAIN Append(wire[x][k], new) /\ Append(wire[x][k], new)[i] = d
    BY <1>4, <1>6, <2>1
  <2>3. wire'[x][k] \in {wire[x][k], Append(wire[x][k], new)}
    BY <1>5
  <2>4. i \in DOMAIN wire'[x][k] /\ wire'[x][k][i] = d
    BY <2>1, <2>2, <2>3
  <2> QED
    BY <2>4 DEF InTransit
<1>8. ASSUME NEW x \in Ends, x[1] = q, x[2] \in sent, NEW k \in Epochs, attempt[x] = k
      PROVE  InTransit(x, k, new)'
  <2>1. /\ Len(wire[x][k]) + 1 \in DOMAIN Append(wire[x][k], new)
        /\ Append(wire[x][k], new)[Len(wire[x][k]) + 1] = new
    BY <1>4, <1>6
  <2> QED
    BY <1>5, <1>8, <2>1 DEF InTransit
<1>9. PICK shown : shown = Append(Messages(q), new)
  OBVIOUS
<1>10. PICK grown : grown = Recorded(chat[q].fanOut, new, summary)
  OBVIOUS
<1>11. /\ \A a \in Peers \ {q} : chat'[a] = chat[a]
       /\ chat'[q].messages = shown /\ chat'[q].fanOut = grown
  <2>1. PICK own : own = [messages |-> shown, fanOut |-> grown]
    OBVIOUS
  <2>2. own.messages = shown /\ own.fanOut = grown
    BY <2>1
  <2>3. chat' = [chat EXCEPT ![q] = own]
    BY <1>4, <1>9, <1>10, <2>1 DEF Messages
  <2> QED
    BY <1>0, <2>2, <2>3 DEF ChatTypes
<1>12. /\ DOMAIN grown = DOMAIN chat[q].fanOut \cup {new}
       /\ \A d \in DOMAIN grown :
            grown[d] = IF d = new THEN summary ELSE chat[q].fanOut[d]
  BY <1>10 DEF Recorded
<1>13. ASSUME NEW a \in Peers, NEW d, Shown(a, d)  PROVE Shown(a, d)'
  <2>1. CASE a = q
    <3>1. Messages(q) \in Seq(Ids)
      BY <1>0 DEF ChatTypes, Messages
    <3>2. /\ Len(shown) = Len(Messages(q)) + 1 /\ Len(Messages(q)) \in Nat
          /\ \A j \in 1..Len(Messages(q)) : shown[j] = Messages(q)[j]
      BY <1>4, <1>9, <3>1
    <3> QED
      BY <1>11, <1>13, <2>1, <3>2 DEF Shown, Contains, Messages
  <2>2. CASE a # q
    BY <1>11, <1>13, <2>2 DEF Shown
  <2> QED
    BY <2>1, <2>2
<1>14. ASSUME NEW x \in Ends, NEW k \in Epochs, NEW d, Counted(x, k, d)
       PROVE  Counted(x, k, d)'
  <2>1. Receiving(x, k)' = Receiving(x, k) /\ dc' = dc
    BY <1>4 DEF Receiving
  <2>2. x[2] \in Peers
    BY EndFacts
  <2> QED
    BY <1>7, <1>13, <1>14, <2>1, <2>2 DEF Counted
\* The new one goes out on open channels only, and is counted for these.
<1>15. ASSUME NEW p \in Peers, NEW k \in Epochs, summary[p] = k
       PROVE  <<q, p>> \in Ends /\ Counted(<<q, p>>, k, new)'
  <2>1. p \in sent /\ k = attempt[<<q, p>>]
    BY <1>2, <1>3, <1>15, EpochFacts DEF FannedOut
  <2>2. PICK x : x = <<q, p>>
    OBVIOUS
  <2>3. /\ x \in Ends /\ x[1] = q /\ x[2] = p /\ attempt[x] = k
        /\ dc[x][k].readyState = "open"
    BY <1>2, <2>1, <2>2 DEF SentTo, ChatPairs, ChannelOpen
  <2>4. InTransit(x, k, new)'
    BY <1>8, <2>1, <2>3
  <2> QED
    BY <1>4, <2>2, <2>3, <2>4 DEF Counted
<1>16. CountedOK'
  <2>1. ASSUME NEW a \in Peers, NEW p \in Peers, NEW k \in Epochs,
               NEW d \in DOMAIN chat'[a].fanOut,
               p # a, chat'[a].fanOut[d][p] = k
        PROVE  <<a, p>> \in Ends /\ Counted(<<a, p>>, k, d)'
    <3>1. CASE a = q /\ d = new
      BY <1>11, <1>12, <1>15, <2>1, <3>1
    <3>2. CASE ~ (a = q /\ d = new)
      <4>1. d \in DOMAIN chat[a].fanOut /\ chat[a].fanOut[d][p] = k
        BY <1>11, <1>12, <2>1, <3>2
      <4>2. <<a, p>> \in Ends /\ Counted(<<a, p>>, k, d)
        BY <1>0, <2>1, <4>1 DEF CountedOK
      <4> QED
        BY <1>14, <4>2
    <3> QED
      BY <3>1, <3>2
  <2> QED
    BY <2>1 DEF CountedOK
<1>17. ReceiversOK'
  BY <1>0, <1>4 DEF ReceiversOK
<1> QED
  BY <1>16, <1>17

LEMMA CountNext == CountInv /\ [ChatNext]_chatVars => ReceiversOK' /\ CountedOK'
<1> SUFFICES ASSUME CountInv, [ChatNext]_chatVars  PROVE ReceiversOK' /\ CountedOK'
  OBVIOUS
<1>1. ASSUME NEW x \in Ends, Begin(x)  PROVE ReceiversOK' /\ CountedOK'
  BY <1>1, BeginCounted
<1>2. ASSUME NEW x \in Ends, ChannelOpens(x)  PROVE ReceiversOK' /\ CountedOK'
  BY <1>2, ChannelOpensCounted
<1>3. ASSUME NEW x \in Ends, DataChannelArrives(x)  PROVE ReceiversOK' /\ CountedOK'
  BY <1>3, DataChannelArrivesCounted
<1>4. ASSUME NEW x \in Ends, ChannelCloses(x)  PROVE ReceiversOK' /\ CountedOK'
  BY <1>4, ChannelClosesCounted
<1>5. ASSUME NEW x \in Ends, Fail(x)  PROVE ReceiversOK' /\ CountedOK'
  BY <1>5, StillCounted DEF Fail
<1>6. ASSUME NEW x \in Ends, NEW k \in Epochs, Arrive(x, k)
      PROVE  ReceiversOK' /\ CountedOK'
  BY <1>6, ArriveCounted
<1>7. ASSUME NEW c \in Pairs, Reconnect(c)  PROVE ReceiversOK' /\ CountedOK'
  BY <1>7, StillCounted DEF Reconnect
<1>8. ASSUME NEW p \in Peers, Submit(p)  PROVE ReceiversOK' /\ CountedOK'
  BY <1>8, SubmitCounted
<1>9. ASSUME NEW p \in Peers, LeaveRoom(p)  PROVE ReceiversOK' /\ CountedOK'
  BY <1>9, LeaveRoomCounted
<1>10. ASSUME NEW p \in Peers, LoseSignaling(p)  PROVE ReceiversOK' /\ CountedOK'
  BY <1>10, StillCounted DEF LoseSignaling
<1>11. ASSUME NEW p \in Peers, NEW o \in Peers, PeerLeft(p, o)
       PROVE  ReceiversOK' /\ CountedOK'
  BY <1>11, PeerLeftCounted
<1>12. CASE UNCHANGED chatVars
  BY <1>12, StillCounted DEF chatVars
<1> QED
  BY <1>1, <1>2, <1>3, <1>4, <1>5, <1>6, <1>7, <1>8, <1>9, <1>10, <1>11, <1>12
  DEF ChatNext

\* The summary of a message, what is on its way and what is shown agree: what it
\* counts for a peer is shown there or on its way, or an end has closed the
\* channel (dataChannel.ts, fanOutMeshChat; pair_negotiation.ts,
\* wireDataChannelLifecycle).
THEOREM SummaryInductive == ChatSpec => []CountInv
<1>1. ChatInit => ReceiversOK /\ CountedOK
  <2> SUFFICES ASSUME ChatInit  PROVE ReceiversOK /\ CountedOK
    OBVIOUS
  <2>1. /\ \A x \in Ends, k \in Epochs : dc[x][k].readyState = "none"
        /\ \A p \in Peers : DOMAIN chat[p].fanOut = {}
    BY DEF ChatInit, NoChannel, InitialChat
  <2> QED
    BY <2>1 DEF ReceiversOK, CountedOK
<1>2. ChatInit => CountInv
  BY <1>1, ChatInitInv DEF CountInv
<1>3. CountInv /\ [ChatNext]_chatVars => CountInv'
  BY ChatNextInv, CountNext DEF CountInv
<1> QED
  BY <1>2, <1>3, PTL DEF ChatSpec

\* No message that is counted for a peer gets lost between two ends that are
\* both still in the attempt it went out on: it is in the channel, which is
\* open at its author, and its reader has given that channel its receiver.
THEOREM CountedUnderWay == ChatSpec => []CountedIsUnderWay
<1>1. ASSUME CountInv, NEW p \in Peers, NEW id \in Ids, p # Author(id), OnItsWay(p, id)
      PROVE  LET x == <<Author(id), p>>
                 k == chat[Author(id)].fanOut[id][p]
             IN /\ InTransit(x, k, id) /\ dc[x][k].readyState = "open"
                /\ attempt[x] = k /\ attempt[Far(x)] = k
                /\ dc[Far(x)][k].readyState = "open" => dc[Far(x)][k].onmessage
  <2>0. ChatTypes /\ ChannelsOK /\ ReceiversOK /\ CountedOK
    BY <1>1 DEF CountInv, ChatInv
  <2>1. PICK a \in Peers : a = Author(id)
    BY IdFacts
  <2>2. PICK k : k = chat[a].fanOut[id][p]
    OBVIOUS
  <2>3. /\ id \in DOMAIN chat[a].fanOut /\ ~ Shown(p, id) /\ k # 0 /\ p # a
        /\ dc[<<a, p>>][k].readyState # "closed" /\ dc[<<p, a>>][k].readyState # "closed"
    BY <1>1, <2>1, <2>2 DEF OnItsWay
  <2>4. k \in Epochs
    <3>1. chat[a].fanOut[id] \in FanOut
      BY <2>0, <2>3 DEF ChatTypes, ChatTypeOK
    <3> QED
      BY <2>2, <2>3, <3>1, EpochFacts DEF FanOut
  <2>5. PICK x \in Ends : x = <<a, p>>
    BY <2>0, <2>2, <2>3, <2>4 DEF CountedOK
  <2>6. x[2] = p /\ Far(x) = <<p, a>> /\ Far(x) \in Ends /\ Receiving(x, k)
    BY <2>3, <2>5, EndFacts DEF Far, Receiving
  <2>7. Counted(x, k, id)
    BY <2>0, <2>2, <2>3, <2>4, <2>5 DEF CountedOK
  <2>8. InTransit(x, k, id) /\ dc[x][k].readyState = "open"
    BY <2>3, <2>5, <2>6, <2>7 DEF Counted
  <2>9. attempt[x] = k /\ attempt[Far(x)] = k
    BY <2>0, <2>4, <2>6, <2>8 DEF ChannelsOK
  <2>10. dc[Far(x)][k].readyState = "open" => dc[Far(x)][k].onmessage
    BY <2>0, <2>4, <2>6 DEF ReceiversOK
  <2> QED
    BY <2>1, <2>2, <2>5, <2>8, <2>9, <2>10
<1>2. CountInv => CountedIsUnderWay
  BY <1>1 DEF CountedIsUnderWay
<1> QED
  BY <1>2, SummaryInductive, PTL

=============================================================================
