--------------------------- MODULE MeshScreenShare ---------------------------
(***************************************************************************)
(* Sharing the screen in a mesh call: the controller (screenShare.ts), the *)
(* outbound video senders it re-targets (senders.ts), the tracks a pair    *)
(* gets when it is allocated or rebuilt meanwhile (pair_negotiation.ts),   *)
(* the media toggles and the leave path (MeshControls.tsx, leavePath.ts),  *)
(* and what each remote peer is told (pair_media_state).                   *)
(***************************************************************************)
EXTENDS Naturals, FiniteSets

CONSTANTS
  Remotes,      \* the remote peers
  MaxShares,    \* bound: clicks on "Share screen" that open the picker
  MaxContexts,  \* bound: pair contexts allocated in the call
  MaxToggles    \* bound: clicks on the camera button

ASSUME BoundsAssumption ==
  /\ MaxShares \in Nat \ {0} /\ MaxContexts \in Nat \ {0}
  /\ MaxToggles \in Nat

Shares == 1..MaxShares
NoShare == 0
Contexts == 1..MaxContexts
NoContext == 0

\* What a video sender sends: the screen track of a share, the camera's, or
\* none.
Camera == 0
NoTrack == MaxShares + 1
Tracks == {Camera, NoTrack} \cup Shares

VARIABLES
  inCall,    \* the local participant is media-ready and has not left
  ctl,       \* the controller: its flags and the share it holds
  start,     \* per share: its start(), as far as it got
  stop,      \* per share: its stop(), as far as it got
  screen,    \* per share: the captured track
  ctx,       \* the pair contexts, in the order of their allocation
  pairs,     \* per remote peer: its context in the pairs map
  slice,     \* localMedia: camera and screenShare
  told,      \* per remote peer: the media state it last got
  toggles    \* clicks on the camera button so far

calls == <<start, stop>>
vars == <<inCall, ctl, start, stop, screen, ctx, pairs, slice, told, toggles>>

\* cur: the context whose replaceTrack is awaited; todo: those after it.
Call == [at : {"none", "picker", "replacing", "hung", "done"},
         cur : Contexts \cup {NoContext}, todo : SUBSET Contexts]
NoCall == [at |-> "none", cur |-> NoContext, todo |-> {}]

MediaState == [camera : {"on", "off"}, screenShare : {"active", "inactive"}]
Defaults == [camera |-> "on", screenShare |-> "inactive"]

\* Type correctness.
ShareTypeOK ==
  /\ inCall \in BOOLEAN
  /\ ctl \in [active : BOOLEAN, starting : BOOLEAN, stopping : BOOLEAN,
              share : Shares \cup {NoShare},
              activeScreenTrack : Shares \cup {NoShare}]
  /\ start \in [Shares -> Call] /\ stop \in [Shares -> Call]
  /\ screen \in [Shares -> [live : BOOLEAN, onended : BOOLEAN]]
  /\ ctx \in [Contexts -> [open : BOOLEAN, video : Tracks,
                           during : {"none", "idle", "start", "share", "stop"},
                           mode : {"none", "fresh", "reconnect"}]]
  /\ pairs \in [Remotes -> Contexts \cup {NoContext}]
  /\ slice \in MediaState /\ told \in [Remotes -> MediaState]
  /\ toggles \in 0..MaxToggles

Init ==
  /\ inCall = TRUE
  /\ ctl = [active |-> FALSE, starting |-> FALSE, stopping |-> FALSE,
            share |-> NoShare, activeScreenTrack |-> NoShare]
  /\ start = [i \in Shares |-> NoCall] /\ stop = [i \in Shares |-> NoCall]
  /\ screen = [i \in Shares |-> [live |-> FALSE, onended |-> FALSE]]
  /\ ctx = [k \in Contexts |-> [open |-> FALSE, video |-> NoTrack,
                                during |-> "none", mode |-> "none"]]
  /\ pairs = [r \in Remotes |-> NoContext]
  /\ slice = Defaults /\ told = [r \in Remotes |-> Defaults]
  /\ toggles = 0

-----------------------------------------------------------------------------
(* Helpers. *)

Listed == {pairs[r] : r \in Remotes} \ {NoContext}

First(ks) == CHOOSE k \in ks : \A j \in ks : k <= j

\* The server fans a pair_media_state out to those in the room; without a
\* room ID nothing is sent.
Tell(m) == told' = IF inCall THEN [r \in Remotes |-> m] ELSE told

\* The video track getCameraTrack finds: the stream is unpublished on leave.
CameraTrack == IF inCall THEN Camera ELSE NoTrack

\* A loop over the senders of contexts, ks left to do: it calls replaceTrack
\* on the first and awaits it, or is through.
LoopOn(ks) ==
  IF ks = {} THEN [at |-> "done", cur |-> NoContext, todo |-> {}]
  ELSE [at |-> "replacing", cur |-> First(ks), todo |-> ks \ {First(ks)}]

Open(ks) == {k \in ks : ctx[k].open}

-----------------------------------------------------------------------------
(* start(). *)

\* The end of start() of share i, the controller holding the given one.
Started(i, share, live) ==
  /\ ctl' = [ctl EXCEPT !.active = TRUE, !.starting = FALSE, !.share = share,
                        !.activeScreenTrack = i]
  /\ screen' = [screen EXCEPT ![i] = [live |-> live, onended |-> TRUE]]
  /\ slice' = [slice EXCEPT !.screenShare = "active"]
  /\ Tell([slice EXCEPT !.screenShare = "active"])

\* Variant of StartClick with a bug: the latches are not looked at.
StartClickUnlatched ==
  /\ inCall /\ slice.screenShare = "inactive" /\ ~ ctl.active
  /\ \E i \in Shares :
       /\ start[i] = NoCall /\ \A j \in Shares : j < i => start[j] # NoCall
       /\ start' = [start EXCEPT ![i].at = "picker"]
  /\ ctl' = [ctl EXCEPT !.starting = TRUE]
  /\ UNCHANGED <<inCall, stop, screen, ctx, pairs, slice, told, toggles>>

\* The button: canToggle, and start()'s own guard.
StartClick ==
  /\ inCall /\ slice.screenShare = "inactive"
  /\ ~ ctl.active /\ ~ ctl.starting /\ ~ ctl.stopping
  /\ \E i \in Shares :
       /\ start[i] = NoCall /\ \A j \in Shares : j < i => start[j] # NoCall
       /\ start' = [start EXCEPT ![i].at = "picker"]
  /\ ctl' = [ctl EXCEPT !.starting = TRUE]
  /\ UNCHANGED <<inCall, stop, screen, ctx, pairs, slice, told, toggles>>

\* Variant of PickerCancelled with a bug: the latch stays set.
PickerCancelledLatched(i) ==
  /\ start[i].at = "picker"
  /\ start' = [start EXCEPT ![i].at = "done"]
  /\ UNCHANGED <<inCall, ctl, stop, screen, ctx, pairs, slice, told, toggles>>

\* The picker is cancelled, or gives no video.
PickerCancelled(i) ==
  /\ start[i].at = "picker"
  /\ start' = [start EXCEPT ![i].at = "done"]
  /\ ctl' = [ctl EXCEPT !.starting = FALSE]
  /\ UNCHANGED <<inCall, stop, screen, ctx, pairs, slice, told, toggles>>

\* The picker gives a screen, whatever became of the call meanwhile.
PickerChosen(i) ==
  LET call == LoopOn(Listed)
  IN /\ start[i].at = "picker"
     /\ start' = [start EXCEPT ![i] = call]
     /\ IF call.at = "done" THEN Started(i, i, TRUE)
        ELSE /\ ctl' = [ctl EXCEPT !.share = i]
             /\ screen' = [screen EXCEPT ![i].live = TRUE]
             /\ UNCHANGED <<slice, told>>
     /\ UNCHANGED <<inCall, stop, ctx, pairs, toggles>>

\* An awaited replaceTrack settles: done on an open connection; on one that
\* was closed meanwhile it is refused, or never settles.
StartReplaced(i) ==
  LET k    == start[i].cur
      call == LoopOn(Open(start[i].todo))
  IN /\ start[i].at = "replacing"
     /\ ctx' = IF ctx[k].open THEN [ctx EXCEPT ![k].video = i] ELSE ctx
     /\ \/ /\ start' = [start EXCEPT ![i] = call]
           /\ IF call.at = "done" THEN Started(i, ctl.share, screen[i].live)
              ELSE UNCHANGED <<ctl, screen, slice, told>>
        \/ /\ ~ ctx[k].open
           /\ start' = [start EXCEPT ![i].at = "hung"]
           /\ UNCHANGED <<ctl, screen, slice, told>>
     /\ UNCHANGED <<inCall, stop, pairs, toggles>>

-----------------------------------------------------------------------------
(* stop(). *)

StopDone ==
  /\ ctl' = [active |-> FALSE, starting |-> ctl.starting, stopping |-> FALSE,
             share |-> NoShare, activeScreenTrack |-> NoShare]
  /\ slice' = [slice EXCEPT !.screenShare = "inactive"]
  /\ Tell([slice EXCEPT !.screenShare = "inactive"])

\* Variant of StopFrom with a bug: it walks the senders of the start.
StopFromTracked(i) ==
  LET tracked == {k \in Listed : ctx[k].during = "idle"}
      call == LoopOn(tracked)
  IN /\ ctl.active /\ ~ ctl.stopping
     /\ stop' = [stop EXCEPT ![i] = call]
     /\ screen' = [j \in Shares |-> IF j \in {i, ctl.share}
                     THEN [live |-> FALSE, onended |-> FALSE] ELSE screen[j]]
     /\ IF call.at = "done" THEN StopDone
        ELSE ctl' = [ctl EXCEPT !.stopping = TRUE] /\ UNCHANGED <<slice, told>>
     /\ UNCHANGED <<inCall, start, ctx, pairs, toggles>>

\* stop() up to its first await: the track is ended, the senders are listed.
StopFrom(i) ==
  LET call == LoopOn(Listed)
  IN /\ ctl.active /\ ~ ctl.stopping
     /\ stop' = [stop EXCEPT ![i] = call]
     /\ screen' = [j \in Shares |-> IF j \in {i, ctl.share}
                     THEN [live |-> FALSE, onended |-> FALSE] ELSE screen[j]]
     /\ IF call.at = "done" THEN StopDone
        ELSE ctl' = [ctl EXCEPT !.stopping = TRUE] /\ UNCHANGED <<slice, told>>
     /\ UNCHANGED <<inCall, start, ctx, pairs, toggles>>

StopClick ==
  /\ inCall /\ slice.screenShare = "active" /\ ctl.share # NoShare
  /\ StopFrom(ctl.share)

\* The browser's own "Stop sharing": onended calls stop() if it is wired yet.
BrowserStop(i) ==
  /\ screen[i].live
  /\ IF screen[i].onended /\ ctl.active /\ ~ ctl.stopping THEN StopFrom(i)
     ELSE /\ screen' = [screen EXCEPT ![i].live = FALSE]
          /\ UNCHANGED <<inCall, ctl, calls, ctx, pairs, slice, told, toggles>>

StopReplaced(i) ==
  LET k    == stop[i].cur
      call == LoopOn(stop[i].todo)
  IN /\ stop[i].at = "replacing"
     /\ ctx' = IF ctx[k].open THEN [ctx EXCEPT ![k].video = CameraTrack]
               ELSE ctx
     /\ \/ /\ stop' = [stop EXCEPT ![i] = call]
           /\ IF call.at = "done" THEN StopDone
              ELSE UNCHANGED <<ctl, slice, told>>
        \/ /\ ~ ctx[k].open
           /\ stop' = [stop EXCEPT ![i].at = "hung"]
           /\ UNCHANGED <<ctl, slice, told>>
     /\ UNCHANGED <<inCall, start, screen, pairs, toggles>>

-----------------------------------------------------------------------------
(***************************************************************************)
(* The pairs of the call.                                                  *)
(***************************************************************************)
During ==
  IF ctl.stopping THEN "stop" ELSE IF ctl.active THEN "share"
  ELSE IF ctl.starting THEN "start" ELSE "idle"

\* Variant of VideoFor with a bug: a rebuilt pair gets the camera.
VideoForCamera(mode) == Camera

\* allocateContext: the video track the new connection starts with.
VideoFor(mode) ==
  IF mode = "reconnect" /\ ctl.activeScreenTrack # NoShare
  THEN ctl.activeScreenTrack ELSE Camera

Allocate(r, mode) ==
  \E k \in Contexts :
    /\ ctx[k].during = "none"
    /\ \A j \in Contexts : j < k => ctx[j].during # "none"
    /\ ctx' = [j \in Contexts |->
         IF j = k THEN [open |-> TRUE, video |-> VideoFor(mode),
                        during |-> During, mode |-> mode]
         ELSE IF j = pairs[r] THEN [ctx[j] EXCEPT !.open = FALSE] ELSE ctx[j]]
    /\ pairs' = [pairs EXCEPT ![r] = k]

PeerJoins(r) ==
  /\ inCall /\ pairs[r] = NoContext
  /\ Allocate(r, "fresh")
  /\ told' = [told EXCEPT ![r] = Defaults]
  /\ UNCHANGED <<inCall, ctl, calls, screen, slice, toggles>>

PairRebuilt(r) ==
  /\ inCall /\ pairs[r] # NoContext
  /\ Allocate(r, "reconnect")
  /\ UNCHANGED <<inCall, ctl, calls, screen, slice, told, toggles>>

PeerLeaves(r) ==
  /\ inCall /\ pairs[r] # NoContext
  /\ ctx' = [ctx EXCEPT ![pairs[r]].open = FALSE]
  /\ pairs' = [pairs EXCEPT ![r] = NoContext]
  /\ UNCHANGED <<inCall, ctl, calls, screen, slice, told, toggles>>

\* onCameraToggle: the track is enabled or disabled, never replaced.
CameraToggled ==
  LET m == [slice EXCEPT !.camera = IF @ = "on" THEN "off" ELSE "on"]
  IN /\ inCall /\ toggles < MaxToggles /\ toggles' = toggles + 1
     /\ slice' = m
     /\ Tell(m)
     /\ UNCHANGED <<inCall, ctl, calls, screen, ctx, pairs>>

\* leavePath.run: dispose() of the controller, every pair closed, the media
\* slice reset, the active screen track stopped once more.
Leave ==
  /\ inCall /\ inCall' = FALSE
  /\ screen' = [j \in Shares |-> IF j \in {ctl.share, ctl.activeScreenTrack}
                  THEN [live |-> FALSE, onended |-> FALSE] ELSE screen[j]]
  /\ ctl' = [active |-> FALSE, starting |-> FALSE, stopping |-> FALSE,
             share |-> NoShare, activeScreenTrack |-> NoShare]
  /\ ctx' = [k \in Contexts |-> [ctx[k] EXCEPT !.open = FALSE]]
  /\ pairs' = [r \in Remotes |-> NoContext]
  /\ slice' = Defaults
  /\ UNCHANGED <<calls, told, toggles>>

-----------------------------------------------------------------------------
Picker(i) == PickerCancelled(i) \/ PickerChosen(i)

Next ==
  \/ StartClick \/ StopClick \/ CameraToggled \/ Leave
  \/ \E i \in Shares :
       \/ Picker(i) \/ BrowserStop(i)
       \/ StartReplaced(i) \/ StopReplaced(i)
  \/ \E r \in Remotes : PeerJoins(r) \/ PairRebuilt(r) \/ PeerLeaves(r)

Spec == Init /\ [][Next]_vars

\* The user answers the picker, and a replaceTrack settles unless its
\* connection was closed; nothing makes anyone click.
FairSpec ==
  /\ Spec
  /\ \A i \in Shares :
       /\ WF_vars(Picker(i))
       /\ WF_vars(StartReplaced(i)) /\ WF_vars(StopReplaced(i))

-----------------------------------------------------------------------------
(* Properties. *)

Settled == ~ ctl.starting /\ ~ ctl.stopping

\* In a call the controller can stop every screen that is captured: no click,
\* rebuild or track end, in any order, leaves a capture without an owner.
CaptureIsOwned ==
  inCall => \A i \in Shares : screen[i].live => ctl.share = i

\* When no share goes on, no pair that was there before the stop began is left
\* with an ended screen track (screenShare.ts:332-343).
NoFrozenTile ==
  inCall /\ Settled /\ ~ ctl.active =>
    \A k \in Listed : ctx[k].video = Camera \/ ctx[k].during = "stop"

\* While a share goes on, every pair that was there when it began, or was
\* rebuilt since, sends the screen (screenShare.ts:332-338); and who was told
\* of a share that began or ended under way was told of what came of it.
ShareReachesEveryPeer ==
  inCall =>
    /\ \A r \in Remotes : told[r] \in {slice, Defaults}
    /\ Settled /\ ctl.active =>
         \A k \in Listed :
           \/ ctx[k].video = ctl.share
           \/ ctx[k].during = "start"
           \/ ctx[k].during = "share" /\ ctx[k].mode = "fresh"

\* A start or a stop is through in the end, so the button works again, unless
\* it waits for a replaceTrack on a connection that was closed meanwhile.
Hung == \E i \in Shares : start[i].at = "hung" \/ stop[i].at = "hung"

ShareConcludes == (ctl.starting \/ ctl.stopping) ~> Settled \/ Hung

=============================================================================
