---------------------------- MODULE VolumeControl ----------------------------
(***************************************************************************)
(* The volume slider of the page (static/playback_core.js): a drag changes *)
(* the page at once and the server after a debounce, one request at a      *)
(* time; volumes reported by the server are held back while the user's own *)
(* is on its way and for a moment after.  VOLUME_CURVE_GAMMA is 1, so the  *)
(* slider position is the volume.  The footer is the local player's: while *)
(* a streaming provider owns it, the volume in the provider's cached state *)
(* is applied with every rendering, which is left out.                     *)
(***************************************************************************)
EXTENDS Naturals, Sequences

CONSTANTS
  Volumes,          \* volumes
  VolumeInstances,  \* the cases to look at; a behaviour is in one of them
  None

Maybe == Volumes \union {None}

Requests == [v : Volumes, ans : {"none", "ok", "fail"}]

\* inputs: positions the user drags through; others: changes by other clients;
\* fails: requests that fail; prompt: what the server sent before an answer
\* arrives before it; loaded: the server's volume was read before the user came,
\* otherwise the page shows a default of its own.
ASSUME VolumeAssumption ==
  /\ None \notin Volumes /\ None \notin Requests
  /\ VolumeInstances \subseteq [inputs : Nat, others : Nat, fails : Nat,
                                prompt : BOOLEAN, loaded : BOOLEAN]

VARIABLES
  server,      \* the server's volume
  wire,        \* volumes on their way to the page: pushes and status reads
  vol,         \* state.playback.volume
  slider,      \* the position of the slider
  held,        \* the user holds the slider
  gesture,     \* volumeGestureActive
  pending,     \* pendingVolume
  timer,       \* volumeTimer is set
  req,         \* the request under way; None when volumeRequestInFlight is false
  optimistic,  \* optimisticVolume
  confirmed,   \* lastConfirmedVolume
  grace,       \* Date.now() < volumeSyncGraceUntil
  chosen,      \* history: what the user chose last, None after a failed request
  spent        \* inputs, other changes and failures so far, and the instance

page == <<vol, slider, held, gesture, pending, timer, req, optimistic, confirmed, grace>>
volumeVars == <<server, wire, page, chosen, spent>>

VolumeTypeOK ==
  /\ server \in Volumes /\ wire \in Seq(Volumes)
  /\ vol \in Volumes /\ slider \in Volumes /\ held \in BOOLEAN /\ gesture \in BOOLEAN
  /\ pending \in Maybe /\ timer \in BOOLEAN /\ req \in Requests \union {None}
  /\ optimistic \in Maybe /\ confirmed \in Maybe /\ grace \in BOOLEAN /\ chosen \in Maybe
  /\ spent \in [inputs : Nat, others : Nat, fails : Nat, max : VolumeInstances]
  /\ (gesture => held)

VolumeInit ==
  /\ spent \in [inputs : {0}, others : {0}, fails : {0}, max : VolumeInstances]
  /\ server \in Volumes /\ vol \in (IF spent.max.loaded THEN {server} ELSE Volumes) /\ slider = vol
  /\ confirmed = (IF spent.max.loaded THEN server ELSE None)
  /\ wire = <<>> /\ held = FALSE /\ gesture = FALSE /\ pending = None /\ timer = FALSE
  /\ req = None /\ optimistic = None /\ grace = FALSE /\ chosen = None

-----------------------------------------------------------------------------
\* ensureVolumeBaseline: the confirmed volume a handler starts with.
Baseline == IF confirmed = None THEN vol ELSE confirmed

\* The volume part of updatePlaybackUI.
RenderVolume(v, g, r, p) ==
  slider' = IF ~g /\ r = None /\ p = None THEN v ELSE slider

\* queueVolumeSend restarts the debounce.
QueueVolumeSend == timer' = TRUE

\* handleVolumeChange: one position of a drag.
HandleVolumeChange(v) ==
  /\ spent.inputs < spent.max.inputs /\ spent' = [spent EXCEPT !.inputs = @ + 1]
  /\ held' = TRUE /\ gesture' = TRUE /\ optimistic' = v /\ grace' = TRUE
  /\ vol' = v /\ slider' = v /\ pending' = v /\ QueueVolumeSend /\ chosen' = v
  /\ UNCHANGED <<server, wire, req, confirmed>>

\* A volume that is confirmed already is not sent.
Sends(p, c) == p # None /\ p # c

\* The loop of sendVolume with p pending and c confirmed.
SendLoop(p, c) ==
  IF Sends(p, c)
  THEN req' = [v |-> p, ans |-> "none"] /\ pending' = None
  ELSE req' = None /\ pending' = None

\* sendVolume, entered with p pending.
SendVolume(p, g) ==
  /\ confirmed' = Baseline
  /\ IF req # None \/ p = None
     THEN pending' = p /\ UNCHANGED <<req, slider, optimistic>>
     ELSE /\ SendLoop(p, Baseline)
          /\ optimistic' = (IF req' = None THEN None ELSE optimistic)
          /\ IF req' = None THEN RenderVolume(vol, g, None, None) ELSE UNCHANGED slider

\* Mutant: the end of a drag goes unnoticed.
KeepGesture == gesture' = gesture

EndGesture == gesture' = FALSE

\* The user lets go: the value is sent without waiting for the timer.
Release ==
  /\ held /\ held' = FALSE /\ EndGesture /\ timer' = FALSE /\ chosen' = slider
  /\ SendVolume(slider, FALSE)
  /\ UNCHANGED <<server, wire, vol, grace, spent>>

TimerFires ==
  /\ timer /\ timer' = FALSE /\ SendVolume(pending, gesture)
  /\ UNCHANGED <<server, wire, vol, held, gesture, grace, chosen, spent>>

\* Mutant: what the user chose during the request is left for the next timer.
SendOnce(p, c) == req' = None /\ pending' = p

\* What follows an answer: the next value that waits, if there is one.
AfterAnswer(p, c) == SendLoop(p, c)

Confirmed ==
  /\ req # None /\ req.ans = "ok" /\ (spent.max.prompt => wire = <<>>)
  /\ confirmed' = req.v /\ vol' = req.v /\ grace' = TRUE
  /\ AfterAnswer(pending, req.v)
  /\ optimistic' = (IF (~gesture /\ pending = None) \/ (pending # None /\ req' = None)
                    THEN None ELSE optimistic)
  /\ IF req' = None THEN RenderVolume(req.v, gesture, None, pending') ELSE UNCHANGED slider
  /\ UNCHANGED <<server, wire, held, gesture, timer, chosen, spent>>

SendFails ==
  /\ req # None /\ req.ans = "fail"
  /\ pending' = None /\ gesture' = FALSE /\ optimistic' = None /\ req' = None
  /\ RenderVolume(vol, FALSE, None, None) /\ chosen' = None
  /\ UNCHANGED <<server, wire, vol, held, timer, confirmed, grace, spent>>

\* Mutant: nothing is held back once the request is answered.
HoldWhileSending == gesture \/ req # None \/ pending # None

\* shouldHoldRemoteVolume.
HoldRemote == gesture \/ req # None \/ pending # None \/ grace

\* applyRemoteVolume, and the rendering that follows every merge.
ApplyRemoteVolume ==
  /\ wire # <<>> /\ wire' = Tail(wire)
  /\ LET v == Head(wire)
         matches == optimistic # None /\ v = optimistic
         quiet == ~gesture /\ req = None /\ pending = None
     IN IF HoldRemote /\ ~matches
        THEN /\ confirmed' = Baseline /\ UNCHANGED <<vol, optimistic>>
             /\ RenderVolume(vol, gesture, req, pending)
        ELSE /\ confirmed' = v /\ vol' = v
             /\ optimistic' = (IF matches /\ quiet THEN None ELSE optimistic)
             /\ RenderVolume(v, gesture, req, pending)
  /\ UNCHANGED <<server, held, gesture, pending, timer, req, grace, chosen, spent>>

-----------------------------------------------------------------------------
\* The server and the clock.

\* The new volume is pushed, then the request is answered.
ServerSets ==
  /\ req # None /\ req.ans = "none" /\ server' = req.v
  /\ wire' = Append(wire, req.v)
  /\ req' = [req EXCEPT !.ans = "ok"]
  /\ UNCHANGED <<vol, slider, held, gesture, pending, timer, optimistic, confirmed, grace, chosen, spent>>

ServerFails ==
  /\ req # None /\ req.ans = "none" /\ spent.fails < spent.max.fails
  /\ spent' = [spent EXCEPT !.fails = @ + 1] /\ req' = [req EXCEPT !.ans = "fail"]
  /\ UNCHANGED <<server, wire, vol, slider, held, gesture, pending, timer, optimistic, confirmed, grace, chosen>>

\* Another client sets the volume.
OtherSets(v) ==
  /\ spent.others < spent.max.others /\ spent' = [spent EXCEPT !.others = @ + 1]
  /\ server' = v /\ wire' = Append(wire, v)
  /\ UNCHANGED <<page, chosen>>

\* A status read.
PollVolume == wire = <<>> /\ wire' = <<server>> /\ UNCHANGED <<server, page, chosen, spent>>

\* The 700 ms end; pushes do not take that long.
GraceEnds ==
  /\ grace /\ wire = <<>> /\ grace' = FALSE
  /\ UNCHANGED <<server, wire, vol, slider, held, gesture, pending, timer, req,
                 optimistic, confirmed, chosen, spent>>

VolumeNext ==
  \/ \E v \in Volumes : HandleVolumeChange(v) \/ OtherSets(v)
  \/ Release \/ TimerFires \/ Confirmed \/ SendFails \/ ApplyRemoteVolume
  \/ ServerSets \/ ServerFails \/ PollVolume \/ GraceEnds

\* Timers fire, requests end, polls go on and their answers are handled; a user who
\* drags lets go.
VolumeFairness ==
  /\ WF_volumeVars(TimerFires) /\ WF_volumeVars(Release) /\ SF_volumeVars(Confirmed)
  /\ WF_volumeVars(SendFails)
  /\ WF_volumeVars(ServerSets \/ ServerFails) /\ WF_volumeVars(PollVolume)
  /\ WF_volumeVars(ApplyRemoteVolume) /\ SF_volumeVars(GraceEnds)

VolumeSpec == VolumeInit /\ [][VolumeNext]_volumeVars /\ VolumeFairness

-----------------------------------------------------------------------------
\* A value that waits to be sent has a timer or a running request that will take
\* it: the loop of sendVolume looks again after every answer.
NoStrandedWish == pending # None => timer \/ req # None

\* The slider shows what the user chose last, from the first position of a drag until
\* the request is answered and the grace period over: no push, no status read, no change
\* by another client and no confirmation of an earlier position moves it (the guards of
\* updatePlaybackUI and applyRemoteVolume together).  A failed request ends that also in
\* the middle of a drag (playback_core.js:521).
WishShown ==
  (chosen # None /\ (held \/ pending # None \/ req # None \/ grace)) => slider = chosen

\* The volume the user chose last is the one the server ends up with, whatever was
\* chosen on the way, unless its request failed.  It takes a user who is the only
\* client, a page that has read the server's volume, and pushes that arrive before the
\* answer of the request they precede: otherwise sendVolume takes a value for confirmed
\* that the server no longer has, and does not send it (playback_core.js:501).
LastWishWins ==
  (spent.max.others = 0 /\ spent.max.prompt /\ spent.max.loaded)
    => <>[](chosen = None \/ server = chosen)

\* The page ends up showing the server's volume, also after a failed request.
ShowsServer == <>[](vol = server /\ slider = server)

\* What holds of the volume control at every moment.
VolumeSafe == VolumeTypeOK /\ NoStrandedWish

-----------------------------------------------------------------------------
\* The inductive invariant behind WishShown: where the last wish is found, and that the
\* page itself has it whenever the slider may be rendered from the page.
WishInv ==
  /\ chosen = None => slider = vol /\ pending = None /\ req = None /\ optimistic = None /\ ~gesture
  /\ (chosen # None /\ held) => gesture
  /\ pending # None => pending = chosen
  /\ optimistic # None => optimistic = chosen
  /\ (chosen # None /\ req # None /\ pending = None) => req.v = chosen
  /\ (chosen # None /\ req = None /\ (gesture \/ grace \/ pending # None)) => vol = chosen
  /\ WishShown
==============================================================================
