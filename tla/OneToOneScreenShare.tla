------------------------- MODULE OneToOneScreenShare -------------------------
(***************************************************************************)
(* Sharing the screen in a one-to-one call: the controller                 *)
(* (frontend/src/modes/one-to-one/webrtc/screen-share.ts) and its provider, *)
(* the button, the camera toggle (MediaControls.tsx), and the ways a call  *)
(* ends under it (cleanup.tsx Paths A, B and C).                           *)
(*                                                                         *)
(* One browser through a series of calls; the controller outlives each.    *)
(* How a call is set up is the subject of OneToOneCall.                    *)
(***************************************************************************)
EXTENDS Naturals, Sequences, FiniteSets

CONSTANTS
  MaxShares,   \* bound: clicks that open the picker
  MaxCalls,    \* bound: pairings with a peer
  MaxToggles   \* bound: clicks on the camera button

ASSUME BoundsAssumption ==
  MaxShares \in Nat \ {0} /\ MaxCalls \in Nat \ {0} /\ MaxToggles \in Nat

Shares == 1..MaxShares
Calls == 1..MaxCalls
NoCall == 0

\* What the video sender sends: the screen of a share, the camera, or none.
Camera == 0
NoTrack == MaxShares + 1
Tracks == {Camera, NoTrack} \cup Shares
NoShare == 0

VARIABLES
  session,     \* the session state, from waiting-for-peer on
  transport,   \* the transport slice: "connected" or "error"
  handle,      \* the call whose connection is open, or NoCall
  calls,       \* the calls so far
  sender,      \* what the video sender of that connection sends
  stream,      \* the local stream is held, and its camera enabled
  screen,      \* per share: the captured track is live
  start,       \* per share: its start(), and the call it found its sender in
  screenTrack, \* the controller's
  stop,        \* stop(): under way, whether for a leave, and of which share
  queue,       \* the replaceTrack calls awaited, in order
  slice,       \* media.local
  told,        \* the media state the peer of the call was last sent
  toggles,     \* clicks on the camera button so far
  clash        \* auxiliary: "pickers" once two starts were under way together,
               \* "stops" once a stop() ended another share than its own

controller == <<start, screenTrack, stop, queue, clash>>
vars == <<session, transport, handle, calls, sender, stream, screen, start,
          screenTrack, stop, queue, slice, told, toggles, clash>>

MediaState == [camera : {"on", "off"}, screenShare : {"active", "inactive"}]
Defaults == [camera |-> "on", screenShare |-> "inactive"]
Nothing == [camera |-> "off", screenShare |-> "nothing"]

\* A replaceTrack that is awaited: by which start(), or by the stop().
Operation == [who : Shares \cup {NoShare}, track : Tracks,
              call : Calls \cup {NoCall}]

Idle == [on |-> FALSE, leaving |-> FALSE, of |-> NoShare]

Init ==
  /\ session = "waiting-for-peer" /\ transport = "connected"
  /\ handle = NoCall /\ calls = 0 /\ sender = NoTrack
  /\ stream = [held |-> TRUE, enabled |-> TRUE]
  /\ screen = [i \in Shares |-> FALSE]
  /\ start = [i \in Shares |-> [at |-> "none", call |-> NoCall]]
  /\ screenTrack = NoShare /\ stop = Idle /\ queue = <<>>
  /\ slice = Defaults /\ told = Nothing
  /\ toggles = 0 /\ clash = {}

-----------------------------------------------------------------------------
(* Helpers. *)

\* The media state is sent in a call, while the socket is open.
CanEmit == session = "connected" /\ transport = "connected"

\* LOCAL_MEDIA_STATE_SET and media_state, with str the local stream.
Publish(str, share) ==
  LET m == [camera |-> IF str.held /\ str.enabled THEN "on" ELSE "off",
            screenShare |-> share]
  IN slice' = m /\ told' = IF CanEmit THEN m ELSE told

Starting == {i \in Shares : start[i].at \in {"picker", "replacing"}}

Await(who, track) ==
  queue' = Append(queue, [who |-> who, track |-> track, call |-> handle])

\* The n-th call awaited is settled, one way or the other.
Settled(n) ==
  queue' = SubSeq(queue, 1, n - 1) \o SubSeq(queue, n + 1, Len(queue))

Released == [held |-> FALSE, enabled |-> FALSE]

\* The end of leaveSession, once stop() has returned: the connection and the
\* socket are closed; in idle the stream is released and the slice reset.
LeaveDone ==
  /\ session' = "idle" /\ handle' = NoCall
  /\ stream' = Released /\ slice' = Defaults /\ told' = Nothing

\* The captures scr without the one the controller holds, if it does.
Ended(scr) == [i \in Shares |-> scr[i] /\ i # screenTrack]

\* Variant of StopDone with a bug: an exit that skips the finally.
StopDoneLatched(scr, str, leaving) ==
  /\ screen' = Ended(scr)
  /\ screenTrack' = NoShare /\ stop' = stop
  /\ IF leaving THEN LeaveDone
     ELSE /\ Publish(str, "inactive") /\ stream' = str
          /\ UNCHANGED <<session, handle>>

\* Variant of StopDone with a bug: nobody is told.
StopDoneUntold(scr, str, leaving) ==
  /\ screen' = Ended(scr)
  /\ screenTrack' = NoShare /\ stop' = Idle
  /\ IF leaving THEN LeaveDone
     ELSE stream' = str /\ UNCHANGED <<session, handle, slice, told>>

\* What stop() does once the sender is re-targeted, or there is none: it ends
\* the capture the controller holds by now.
StopDone(scr, str, leaving) ==
  /\ screen' = Ended(scr)
  /\ screenTrack' = NoShare /\ stop' = Idle
  /\ IF leaving THEN LeaveDone
     ELSE /\ Publish(str, "inactive") /\ stream' = str
          /\ UNCHANGED <<session, handle>>

\* stop(), called with captures scr and stream str.
Stop(scr, str, leaving) ==
  IF handle = NoCall THEN StopDone(scr, str, leaving) /\ UNCHANGED queue
  ELSE /\ stop' = [on |-> TRUE, leaving |-> leaving, of |-> screenTrack]
       /\ Await(NoShare, IF str.held THEN Camera ELSE NoTrack)
       /\ screen' = scr /\ stream' = str
       /\ UNCHANGED <<session, handle, screenTrack, slice, told>>

\* A stop() that was waiting ends a share that was started meanwhile.
StopMeetsStart ==
  clash' = clash \cup {c \in {"stops"} : screenTrack \notin {NoShare, stop.of}}

MayStop == screenTrack # NoShare /\ ~ stop.on

-----------------------------------------------------------------------------
(* The button: start() unless the controller holds a share. *)

ButtonEnabled == session = "connected" /\ transport = "connected"

\* Variant of StartClick with a bug: a share under way is not looked at.
StartClickWhileSharing ==
  /\ ButtonEnabled
  /\ \E i \in Shares :
       /\ start[i].at = "none"
       /\ \A j \in Shares : j < i => start[j].at # "none"
       /\ start' = [start EXCEPT ![i] = [at |-> "picker", call |-> handle]]
  /\ clash' = clash \cup {c \in {"pickers"} : Starting # {}}
  /\ UNCHANGED <<session, transport, handle, calls, sender, stream, screen,
                 screenTrack, stop, queue, slice, told, toggles>>

\* The picker opens; one that is open already does not count.
StartClick ==
  /\ ButtonEnabled /\ screenTrack = NoShare
  /\ \E i \in Shares :
       /\ start[i].at = "none"
       /\ \A j \in Shares : j < i => start[j].at # "none"
       /\ start' = [start EXCEPT ![i] = [at |-> "picker", call |-> handle]]
  /\ clash' = clash \cup {c \in {"pickers"} : Starting # {}}
  /\ UNCHANGED <<session, transport, handle, calls, sender, stream, screen,
                 screenTrack, stop, queue, slice, told, toggles>>

StopClick ==
  /\ ButtonEnabled /\ MayStop
  /\ Stop(screen, stream, FALSE)
  /\ UNCHANGED <<transport, calls, sender, start, toggles, clash>>

\* The picker is cancelled, fails, or gives no video.
PickerCancelled(i) ==
  /\ start[i].at = "picker"
  /\ start' = [start EXCEPT ![i].at = "over"]
  /\ UNCHANGED <<session, transport, handle, calls, sender, stream, screen,
                 screenTrack, stop, queue, slice, told, toggles, clash>>

\* The picker gives a screen.  The sender is the one of the click: when its
\* connection is closed by now, replaceTrack is refused.
PickerChosen(i) ==
  /\ start[i].at = "picker"
  /\ IF start[i].call = handle
     THEN /\ start' = [start EXCEPT ![i].at = "replacing"]
          /\ screen' = [screen EXCEPT ![i] = TRUE]
          /\ screenTrack' = i
          /\ Await(i, i)
     ELSE /\ start' = [start EXCEPT ![i].at = "over"]
          /\ screenTrack' = NoShare
          /\ UNCHANGED <<screen, queue>>
  /\ UNCHANGED <<session, transport, handle, calls, sender, stream, stop,
                 slice, told, toggles, clash>>

\* The first replaceTrack of the open connection is done, whatever those of
\* closed ones do.
Replaced ==
  \E n \in DOMAIN queue :
    LET op == queue[n]
    IN /\ op.call = handle /\ \A m \in 1..(n - 1) : queue[m].call # handle
       /\ Settled(n) /\ sender' = op.track
       /\ IF op.who # NoShare
          THEN /\ start' = [start EXCEPT ![op.who].at = "on"]
               /\ Publish(stream, "active")
               /\ UNCHANGED <<session, handle, stream, screen, screenTrack,
                              stop, clash>>
          ELSE /\ StopDone(screen, stream, stop.leaving)
               /\ StopMeetsStart /\ UNCHANGED start
       /\ UNCHANGED <<transport, calls, toggles>>

\* One of a connection that was closed meanwhile is refused, if it settles.
Refused(n) ==
  LET op == queue[n]
  IN /\ n \in DOMAIN queue /\ op.call # handle
     /\ Settled(n)
     /\ IF op.who # NoShare
        THEN /\ start' = [start EXCEPT ![op.who].at = "over"]
             /\ screen' = [screen EXCEPT ![op.who] = FALSE]
             /\ screenTrack' = NoShare
             /\ UNCHANGED <<session, handle, stream, stop, slice, told, clash>>
        ELSE /\ StopDone(screen, stream, stop.leaving)
             /\ StopMeetsStart /\ UNCHANGED start
     /\ UNCHANGED <<transport, calls, sender, toggles>>

\* The browser's own "Stop sharing": the listener is added after the start's
\* replaceTrack, and looks whether the share is still the controller's.
BrowserStop(i) ==
  LET scr == [screen EXCEPT ![i] = FALSE]
  IN /\ screen[i]
     /\ IF start[i].at = "on" /\ screenTrack = i /\ MayStop
        THEN Stop(scr, stream, FALSE)
        ELSE /\ screen' = scr
             /\ UNCHANGED <<session, handle, stream, screenTrack, stop, queue,
                            slice, told>>
     /\ UNCHANGED <<transport, calls, sender, start, toggles, clash>>

\* MediaControls: the track is enabled or disabled, never replaced.
CameraToggled ==
  LET str == [stream EXCEPT !.enabled = ~ @]
  IN /\ stream.held /\ toggles < MaxToggles   \* bound
     /\ toggles' = toggles + 1 /\ stream' = str
     /\ Publish(str, slice.screenShare)
     /\ UNCHANGED <<session, transport, handle, calls, sender, screen,
                    controller>>

-----------------------------------------------------------------------------
(* The call and its end. *)

\* A peer is there: a connection is made, with the tracks of the stream.
CallBegins ==
  /\ session = "waiting-for-peer" /\ transport = "connected"
  /\ calls < MaxCalls   \* bound
  /\ calls' = calls + 1 /\ handle' = calls'
  /\ session' = "connected"
  /\ sender' = IF stream.held THEN Camera ELSE NoTrack
  /\ told' = Nothing
  /\ UNCHANGED <<transport, stream, screen, controller, slice, toggles>>

\* Paths B and C: peer_left, or connectionState "failed".  The share goes on.
CallEnds(next) ==
  /\ session = "connected" /\ session' = next
  /\ next = "waiting-for-peer" => transport = "connected"
  /\ handle' = NoCall /\ told' = Nothing
  /\ UNCHANGED <<transport, calls, sender, stream, screen, controller, slice,
                 toggles>>

\* The transport fails; a call goes on without it.
LoseSignaling ==
  /\ session # "idle" /\ transport = "connected"
  /\ transport' = "error"
  /\ session' = IF session = "waiting-for-peer" THEN "failed" ELSE session
  /\ UNCHANGED <<handle, calls, sender, stream, screen, controller, slice,
                 told, toggles>>

\* Path A, leaveSession: the stream is released, then stop("app") awaited;
\* when that returns at once, also because a stop is under way, so does this.
Leave ==
  /\ session # "idle"
  /\ IF MayStop THEN Stop(screen, Released, TRUE)
     ELSE LeaveDone /\ UNCHANGED <<screen, screenTrack, stop, queue>>
  /\ UNCHANGED <<transport, calls, sender, start, toggles, clash>>

\* Joining again, as far as waiting-for-peer, with a new stream.
JoinAgain ==
  /\ session = "idle" /\ calls < MaxCalls   \* bound
  /\ session' = "waiting-for-peer" /\ transport' = "connected"
  /\ stream' = [held |-> TRUE, enabled |-> TRUE]
  /\ slice' = Defaults
  /\ UNCHANGED <<handle, calls, sender, screen, controller, told, toggles>>

-----------------------------------------------------------------------------
Next ==
  \/ StartClick \/ StopClick \/ CameraToggled
  \/ \E i \in Shares : PickerCancelled(i) \/ PickerChosen(i) \/ BrowserStop(i)
  \/ Replaced \/ \E n \in 1..(MaxShares + MaxCalls) : Refused(n)
  \/ CallBegins \/ CallEnds("waiting-for-peer") \/ CallEnds("failed")
  \/ LoseSignaling \/ Leave \/ JoinAgain

Spec == Init /\ [][Next]_vars

\* A replaceTrack settles while its connection is open.
FairSpec == Spec /\ WF_vars(Replaced)

-----------------------------------------------------------------------------
(* Properties. *)

\* Type correctness.
ShareTypeOK ==
  /\ session \in {"waiting-for-peer", "connected", "failed", "idle"}
  /\ transport \in {"connected", "error"}
  /\ calls \in 0..MaxCalls /\ handle \in Calls \cup {NoCall}
  /\ sender \in Tracks
  /\ stream \in [held : BOOLEAN, enabled : BOOLEAN]
  /\ screen \in [Shares -> BOOLEAN]
  /\ start \in [Shares -> [at : {"none", "picker", "replacing", "on", "over"},
                           call : Calls \cup {NoCall}]]
  /\ screenTrack \in Shares \cup {NoShare}
  /\ stop \in [on : BOOLEAN, leaving : BOOLEAN, of : Shares \cup {NoShare}]
  /\ queue \in Seq(Operation)
  /\ slice \in MediaState /\ told \in MediaState \cup {Nothing}
  /\ toggles \in 0..MaxToggles /\ clash \subseteq {"pickers", "stops"}

\* Whatever ends, fails or is left in whatever order, a captured screen is the
\* one the controller holds, so that "Stop sharing" can end it, unless two
\* pickers were open together (screen-share.ts, the guard of start).
CaptureIsOwned ==
  "pickers" \notin clash => \A i \in Shares : screen[i] => screenTrack = i

\* FR-014a: with nothing under way, a peer that was told anything was told
\* "active" exactly when it is sent a screen, unless the share was begun in
\* an earlier call, or two pickers were open together, or a stop() that was
\* waiting has ended a share that was started meanwhile.
ToldWhatIsSent ==
  /\ CanEmit /\ queue = <<>> /\ told # Nothing /\ clash = {}
  /\ screenTrack # NoShare => start[screenTrack].call = handle
  => (told.screenShare = "active" <=> sender \in Shares)

\* stop() is through in the end and its latch cleared, unless its connection
\* is closed while it waits (screen-share.ts, "finally guarantees").
StopConcludes ==
  stop.on ~>
    \/ ~ stop.on
    \/ \E n \in DOMAIN queue : queue[n].who = NoShare /\ queue[n].call # handle

\* FR-024: "Leaving MUST stop all local media tracks (camera, microphone,
\* screen share if active)."
LeavingStopsTheScreen ==
  session = "idle" => \A i \in Shares : ~ screen[i]

=============================================================================
