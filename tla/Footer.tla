-------------------------------- MODULE Footer --------------------------------
(***************************************************************************)
(* Whose playback the page's footer shows, and the polls that keep the     *)
(* external renderers' data fresh (static/playback_core.js,                *)
(* static/streaming_runtime.js, and the start of updatePlaybackUI).  Every *)
(* handler changes the page record view by the functions it calls, in      *)
(* their order.  A poll generation is compared for equality only: a timer  *)
(* is "live" when it was started with the current one and "dead" when not. *)
(* The page's playback state itself is read atomically here; PlaybackView  *)
(* is about its races.                                                     *)
(***************************************************************************)
EXTENDS Naturals, FiniteSets

CONSTANTS
  MaxReads,    \* reads of one provider under way at once
  FooterInstances    \* bounds, of which a behaviour has one: changes on the server, actions of
               \* the user, provider reads that fail, whether a broadcast may be missed

ASSUME FooterAssumption ==
  /\ MaxReads \in Nat
  /\ FooterInstances \subseteq [changes : Nat, user : Nat, fails : Nat, miss : BOOLEAN]

VARIABLES
  srv,    \* owner, player and providers as the server has them
  due,    \* broadcasts on their way
  view,      \* the page
  reads,  \* provider reads under way
  counts    \* changes, user actions and failed reads so far, and their bounds

footerVars == <<srv, due, view, reads, counts>>

Providers == {"spotify", "qobuz"}
Owners == {"none", "local"} \union Providers

\* The native player: no track, or how far its track is; "failed" is a track that the
\* page could not start.
Modes == {"none", "playing", "paused", "ended", "failed"}

\* A provider's status: "null" before any, "gone" when it is not installed or could
\* not be read, "away" when it is installed but not available.
Status == {"stopped", "playing", "paused", "away"}
Data == {"null", "gone"} \union Status
Installed(d) == d \in Status
Showing(d) == d \in {"playing", "paused"}

\* lock: a single track is being started, and whether it is the one shown; line: a
\* line source is selected; cmd: a Spotify command is under way and its generation;
\* starting: a play request is under way, which has "claimed" the footer or only "asked".
PageStates == [owner : Owners, mode : Modes, data : [Providers -> Data],
          foot : {"local"} \union Providers, tab : {"other"} \union Providers,
          takeover : BOOLEAN, hold : BOOLEAN, lock : {"no", "other", "match"}, line : BOOLEAN,
          timer : [Providers -> {"off", "live", "dead"}], cmd : {"no", "current", "old"},
          starting : {"no", "claimed", "asked"}, bumped : SUBSET Providers, got : SUBSET Providers]

\* A "poll" counts while its generation is current, a "sync" of the reconnect while
\* the data it would replace is still there, the others ("init", the tab's or a
\* Qobuz command's "tab", the "burst" after a Spotify command) always.
ProviderReads == [p : Providers, kind : {"poll", "sync", "init", "tab", "burst"}, ok : BOOLEAN,
                  val : Data \union {"asked"}]

FooterTypeOK ==
  /\ srv \in [owner : Owners, mode : Modes, data : [Providers -> Data]]
  /\ due \subseteq {"init", "playback"} \union Providers
  /\ view \in PageStates /\ reads \subseteq ProviderReads
  /\ counts \in [changes : Nat, user : Nat, fails : Nat, max : FooterInstances]
  /\ \A x \in {"changes", "user", "fails"} : counts[x] <= counts.max[x]
  /\ \A p \in Providers : view.timer[p] # "off" => view.data[p] # "null"

Room(p) == Cardinality({r \in reads : r.p = p}) < MaxReads

Read(p, kind) == [p |-> p, kind |-> kind, ok |-> TRUE, val |-> "asked"]

FooterInit ==
  /\ \E o \in Owners :
       srv = [owner |-> o, mode |-> "none", data |-> [p \in Providers |-> "stopped"]]
  /\ due = {"init"} /\ reads = {Read("spotify", "init")}
  /\ view = [owner |-> "none", mode |-> "none", data |-> [p \in Providers |-> "null"],
          foot |-> "local", tab |-> "other", takeover |-> FALSE, hold |-> FALSE,
          lock |-> "no", line |-> FALSE, timer |-> [p \in Providers |-> "off"],
          cmd |-> "no", starting |-> "no", bumped |-> {}, got |-> {}]
  /\ \E i \in FooterInstances : counts = [changes |-> 0, user |-> 0, fails |-> 0, max |-> i]

-----------------------------------------------------------------------------
\* Who owns the footer.

\* spotifyPlayingOwnsFooter and qobuzPlayingOwnsFooter.
PlayingOwnsFooter(g, p) == g.lock # "match" /\ g.mode # "playing" /\ g.data[p] = "playing"

LocalHasContext(g) ==
  /\ g.mode \in {"playing", "paused"} /\ ~PlayingOwnsFooter(g, "spotify")
  /\ ~(g.mode = "paused" /\ g.foot = "spotify" /\ g.data["spotify"] = "paused")

LocalEndedHasContext(g) == g.mode = "ended" /\ ~PlayingOwnsFooter(g, "spotify")

\* Without an owner named by the backend, what the page knows decides.
LiveOwner(g) ==
  IF PlayingOwnsFooter(g, "spotify") THEN "spotify"
  ELSE IF PlayingOwnsFooter(g, "qobuz") THEN "qobuz"
  ELSE IF g.takeover THEN "spotify"
  ELSE IF LocalHasContext(g) \/ (g.hold /\ g.mode # "none") \/ LocalEndedHasContext(g) THEN "local"
  ELSE IF g.data["spotify"] = "paused" THEN "spotify"
  ELSE "local"

\* Mutant: what plays live comes before the owner the backend has committed.
LiveFirst(g) ==
  IF g.line THEN "local"
  ELSE IF PlayingOwnsFooter(g, "spotify") THEN "spotify"
  ELSE IF g.owner # "none" THEN g.owner ELSE LiveOwner(g)

FooterOwner(g) ==
  IF g.line THEN "local" ELSE IF g.owner # "none" THEN g.owner ELSE LiveOwner(g)

ReconcileFooterSource(g) == [g EXCEPT !.foot = FooterOwner(g)]

-----------------------------------------------------------------------------
\* The polls.

\* shouldPollSpotify and shouldPollQobuz.
ShouldPoll(g, p) ==
  Installed(g.data[p]) /\ (g.tab = p \/ g.foot = p \/ (p = "qobuz" /\ g.owner = p))

\* A new generation: a running timer and an open Spotify command miss it.
BumpPollGeneration(g, p) ==
  [g EXCEPT !.timer[p] = IF @ = "live" THEN "dead" ELSE @,
            !.cmd = IF p = "spotify" /\ @ = "current" THEN "old" ELSE @,
            !.bumped = @ \union {p}]

StopPoll(g, p) == [g EXCEPT !.timer[p] = "off"]

\* startSpotifyPoll and startQobuzPoll: a dead timer is replaced.
StartPoll(g, p) ==
  IF ~ShouldPoll(g, p) \/ g.timer[p] = "live" THEN g
  ELSE [BumpPollGeneration(g, p) EXCEPT !.timer[p] = "live"]

\* "if (!shouldPollSpotify()) bump and stop".
StopUnlessDue(g, p) ==
  IF ShouldPoll(g, p) THEN g ELSE StopPoll(BumpPollGeneration(g, p), p)

\* Mutant: a timer that runs is left alone, whatever its generation.
LeaveRunning(g) ==
  LET needed == {p \in Providers : ShouldPoll(g, p)}
  IN [g EXCEPT !.timer = [p \in Providers |-> IF p \notin needed THEN "off"
                                              ELSE IF @[p] = "off" THEN "live" ELSE @[p]]]

\* updatePlaybackUI, on the footer it has chosen: every poll that is due runs with a
\* current timer (StartPoll), and the others are stopped.
UpdatePolls(g) ==
  LET needed == {p \in Providers : ShouldPoll(g, p)}
      new == {p \in Providers : p \notin needed \/ g.timer[p] # "live"}
  IN [g EXCEPT !.timer = [p \in Providers |-> IF p \in needed THEN "live" ELSE "off"],
               !.cmd = IF "spotify" \in new /\ @ = "current" THEN "old" ELSE @,
               !.bumped = @ \union new]

UpdatePlaybackUI(g) == UpdatePolls(ReconcileFooterSource(g))

\* The page has its own player: Spotify cannot be playing too.
Downgrade(g) ==
  IF g.data["spotify"] # "playing" THEN g
  ELSE [g EXCEPT !.data["spotify"] = "paused", !.got = @ \union {"spotify"}]

SyncFooterOwnership(g) ==
  IF g.owner = "local"
  THEN StopUnlessDue([g EXCEPT !.takeover = FALSE, !.foot = "local"], "spotify")
  ELSE IF g.owner # "none" THEN [g EXCEPT !.foot = g.owner]
  ELSE IF PlayingOwnsFooter(g, "spotify") THEN [g EXCEPT !.foot = "spotify"]
  ELSE IF PlayingOwnsFooter(g, "qobuz") THEN [g EXCEPT !.foot = "qobuz"]
  ELSE IF LocalHasContext(g)
  THEN StopUnlessDue([Downgrade(g) EXCEPT !.takeover = FALSE, !.foot = "local"], "spotify")
  ELSE IF LocalEndedHasContext(g)
  THEN StopUnlessDue([g EXCEPT !.takeover = FALSE, !.foot = "local"], "spotify")
  ELSE StopUnlessDue(ReconcileFooterSource(g), "spotify")

\* mergePlaybackState with the server's state; the track may be the one being started.
Merge(g, same) ==
  [g EXCEPT !.owner = srv.owner, !.mode = srv.mode,
            !.lock = IF @ = "no" THEN @ ELSE IF same /\ srv.mode # "none" THEN "match" ELSE "other"]

-----------------------------------------------------------------------------
\* The data of a provider.

\* mergeSpotifyState keeps what plays or pauses while Spotify cannot be read or is not
\* available.
MergeData(p, old, d) ==
  IF p = "spotify" /\ Showing(old) /\ d \in {"gone", "away"} THEN old ELSE d

\* handleIncomingSpotifyState and handleIncomingQobuzState.
HandleIncoming(g, p, d) ==
  LET new == MergeData(p, g.data[p], d)
      h == [g EXCEPT !.data[p] = new, !.got = @ \union {p}]
  IN ReconcileFooterSource(IF p = "spotify" /\ ~Installed(new) THEN StopPoll(h, p) ELSE h)

\* A handler takes the page to g and starts the reads "more"; "left" are the ones
\* under way.
Step(g, more, left) ==
  \E h \in {g} :
    /\ view' = [h EXCEPT !.bumped = {}, !.got = {}]
    /\ reads' = more \union
         {[r EXCEPT !.ok = @ /\ ~(r.kind = "poll" /\ r.p \in h.bumped)
                             /\ ~(r.kind = "sync" /\ r.p \in h.got)] : r \in left}

\* ... and updatePlaybackUI shows it.
Show(g, more, left) == \E h \in {ReconcileFooterSource(g)} : Step(UpdatePolls(h), more, left)

-----------------------------------------------------------------------------
\* Messages and answers.

\* The message "playback".
OnPlayback ==
  /\ "playback" \in due /\ due' = due \ {"playback"}
  /\ \E g \in {Merge(view, same) : same \in BOOLEAN} : \E h \in {SyncFooterOwnership(g)} :
       \E k \in {[h EXCEPT !.lock = IF @ = "match" THEN "no" ELSE @]} : Show(k, {}, reads)
  /\ UNCHANGED <<srv, counts>>

\* fetchMetadata, without a rendering when nothing it shows has changed.
FetchMetadata ==
  /\ "init" \notin due
  /\ \E g \in {Merge(view, same) : same \in BOOLEAN} :
       IF view.owner = srv.owner /\ view.mode = srv.mode THEN Step(g, {}, reads)
       ELSE \E h \in {SyncFooterOwnership(g)} : Show(h, {}, reads)
  /\ UNCHANGED <<srv, due, counts>>

\* The messages "spotify" and "qobuz".
OnProvider(p) ==
  /\ p \in due /\ due' = due \ {p}
  /\ \E g \in {HandleIncoming(view, p, srv.data[p])} :
       Step(IF Showing(srv.data[p]) /\ g.foot = p THEN StartPoll(g, p) ELSE g, {}, reads)
  /\ UNCHANGED <<srv, counts>>

\* A poll's interval.
PollTick(p) ==
  /\ view.timer[p] # "off"
  /\ IF ~ShouldPoll(view, p) THEN Step(StopPoll(BumpPollGeneration(view, p), p), {}, reads)
     ELSE view.timer[p] = "live" /\ Room(p) /\ Step(view, {Read(p, "poll")}, reads)
  /\ UNCHANGED <<srv, due, counts>>

\* What a read will bring: the server's data, or "gone" when it fails.
Answer(r) ==
  /\ r.val = "asked" /\ reads' = (reads \ {r}) \union {[r EXCEPT !.val = srv.data[r.p]]}
  /\ UNCHANGED <<srv, due, view, counts>>

Fail(r) ==
  /\ r.val = "asked" /\ counts.fails < counts.max.fails /\ counts' = [counts EXCEPT !.fails = @ + 1]
  /\ reads' = (reads \ {r}) \union {[r EXCEPT !.val = "gone"]}
  /\ UNCHANGED <<srv, due, view>>

ReadDone(r) ==
  /\ r.val # "asked" /\ r.kind # "sync"
  /\ \E g \in {HandleIncoming(view, r.p, r.val)} :
       Step(IF ~r.ok THEN view
            ELSE IF r.kind = "burst" /\ g.foot = r.p THEN StartPoll(g, r.p)
            ELSE IF r.kind = "init"
            THEN IF ShouldPoll(g, r.p) THEN StartPoll(g, r.p) ELSE StopPoll(g, r.p)
            ELSE g, {}, reads \ {r})
  /\ UNCHANGED <<srv, due, counts>>

-----------------------------------------------------------------------------
\* The connection.

\* After the init message both providers are read beside the playback state.
Syncs == {r \in reads : r.kind = "sync"}

\* The message "init": what the server has, then the resync.  It claims the generation,
\* so that what an older resync still brings is dropped.
OnInit ==
  /\ "init" \in due /\ due' = due \ {"init"}
  /\ \E k \in {Merge(view, FALSE)} : \E g \in {SyncFooterOwnership(k)} :
     \E h \in {HandleIncoming(UpdatePlaybackUI(g), "spotify", srv.data["spotify"])} :
       Step(HandleIncoming(h, "qobuz", srv.data["qobuz"]), {Read(p, "sync") : p \in Providers}, reads \ Syncs)
  /\ UNCHANGED <<srv, counts>>

\* Mutant: what the reads bring is shown, but no poll is started for it.
KeepPolls(g) == g

\* What resyncPlaybackAfterReconnect ends with.
RefreshPolls(g) == UpdatePlaybackUI(g)

\* resyncPlaybackAfterReconnect: one result for all reads.
ResyncDone ==
  /\ Syncs # {} /\ \A r \in Syncs : r.val # "asked"
  /\ LET Seed(g, p) == LET r == CHOOSE x \in Syncs : x.p = p
                       IN IF r.ok /\ p \notin g.got THEN HandleIncoming(g, p, r.val) ELSE g
     IN \E k \in {Merge(view, FALSE)} : \E g \in {SyncFooterOwnership(k)} :
        \E h \in {Seed(Seed(g, "spotify"), "qobuz")} :
          Step(RefreshPolls(ReconcileFooterSource(h)), {}, reads \ Syncs)
  /\ UNCHANGED <<srv, due, counts>>

\* The connection is lost, with what was on its way, and opened again.
Reconnect ==
  /\ counts.max.miss /\ due' = {"init"} /\ due' # due
  /\ UNCHANGED <<srv, view, reads, counts>>

-----------------------------------------------------------------------------
\* The user.
UserActs ==
  /\ counts.user < counts.max.user /\ counts' = [counts EXCEPT !.user = @ + 1]
  /\ UNCHANGED <<srv, due>>

\* playLocal and playRadio claim the footer at once.
Play ==
  /\ UserActs /\ \E single \in BOOLEAN :
       LET g == [Downgrade(view) EXCEPT !.mode = "playing", !.hold = TRUE, !.takeover = FALSE,
                   !.lock = IF single THEN "match" ELSE "no", !.foot = "local", !.starting = "claimed"]
       IN Show(BumpPollGeneration(g, "spotify"), {}, reads)

\* playLibraryRefs changes nothing before its answer but the lock of an earlier start.
PlayLibraryRefs == UserActs /\ Step([view EXCEPT !.lock = "no", !.starting = "asked"], {}, reads)

\* applyNativePlayResponse, or the failure branch: it takes back the claim, if there was one.
PlayAnswered ==
  /\ view.starting # "no"
  /\ \/ \E g \in {Downgrade([Merge(view, same) EXCEPT !.takeover = FALSE, !.starting = "no"])
                   : same \in BOOLEAN} :
          \E h \in {SyncFooterOwnership(g)} : \E k \in {StopUnlessDue(h, "spotify")} : Show(k, {}, reads)
     \/ /\ view.starting = "claimed"
        /\ Show([view EXCEPT !.mode = "failed", !.lock = "no", !.starting = "no"], {}, reads)
     \/ /\ view.starting = "asked"
        /\ Step([view EXCEPT !.starting = "no"], {}, reads)
  /\ UNCHANGED <<srv, due, counts>>

TogglePlayback ==
  /\ UserActs /\ view.mode # "none"
  /\ LET g == [view EXCEPT !.mode = IF @ = "playing" THEN "paused" ELSE "playing", !.foot = "local"]
     IN Show(BumpPollGeneration(g, "spotify"), {}, reads)

\* spotifyCommand arms the takeover and shows Spotify without asking anyone.
SpotifyCommand ==
  /\ UserActs /\ view.cmd = "no"
  /\ Step([view EXCEPT !.takeover = TRUE, !.foot = "spotify", !.cmd = "current"], {}, reads)

\* Its answer is dropped when the generation has moved; else the burst follows.
SpotifyAnswered ==
  /\ view.cmd # "no"
  /\ IF view.cmd = "old" THEN Step([view EXCEPT !.cmd = "no"], {}, reads)
     ELSE \E g \in {[HandleIncoming(view, "spotify", srv.data["spotify"]) EXCEPT !.cmd = "no"]} :
            Step(IF srv.data["spotify"] = "playing" THEN StartPoll(g, "spotify") ELSE g,
                 {Read("spotify", "burst")}, reads)
  /\ UNCHANGED <<srv, due, counts>>

\* qobuzCommand: its answer is the provider's state.
QobuzCommand == UserActs /\ Step(view, {Read("qobuz", "tab")}, reads)

\* switchTab.
ShowTab(g, t) ==
  LET h == [g EXCEPT !.tab = t]
      k == IF t = "spotify" THEN StartPoll(h, t)
           ELSE IF h.foot # "spotify" THEN StopPoll(h, "spotify") ELSE h
  IN IF t = "qobuz" THEN StartPoll(k, t)
     ELSE IF k.foot # "qobuz" /\ k.owner # "qobuz" THEN StopPoll(k, "qobuz") ELSE k

SwitchTab(t) ==
  /\ UserActs /\ view.tab # t /\ ~view.line
  /\ Step(ShowTab(view, t), {Read(p, "tab") : p \in {t} \intersect Providers}, reads)

\* A line source is selected or left: the message "source".
SourceMode ==
  /\ UserActs
  /\ LET g == [view EXCEPT !.line = ~@]
     IN Step(IF g.line /\ g.tab # "other" THEN ShowTab(g, "other") ELSE g, {}, reads)

\* The windows of takeover, hold and lock end.
WindowEnds ==
  /\ view.takeover \/ view.hold \/ view.lock # "no"
  /\ \E g \in {[view EXCEPT !.takeover = FALSE], [view EXCEPT !.hold = FALSE],
               [view EXCEPT !.lock = "no"]} :
       g # view /\ view' = g
  /\ UNCHANGED <<srv, due, reads, counts>>

-----------------------------------------------------------------------------
\* The server: a source commit, the player, or a provider changes and is broadcast.
Change ==
  /\ counts.changes < counts.max.changes /\ counts' = [counts EXCEPT !.changes = @ + 1]
  /\ \/ \E o \in Owners, m \in Modes :
          srv' = [srv EXCEPT !.owner = o, !.mode = m] /\ due' = due \union {"playback"}
     \/ \E p \in Providers, d \in Status :
          srv' = [srv EXCEPT !.data[p] = d] /\ due' = due \union {p}
  /\ UNCHANGED <<view, reads>>

Miss ==
  /\ counts.max.miss /\ \E x \in due \ {"init"} : due' = due \ {x}
  /\ UNCHANGED <<srv, view, reads, counts>>

FooterUser == \/ Play \/ PlayLibraryRefs \/ TogglePlayback \/ SpotifyCommand \/ QobuzCommand \/ SourceMode
        \/ \E t \in {"other"} \union Providers : SwitchTab(t)

FooterNext ==
  \/ Change \/ Miss \/ FooterUser \/ WindowEnds \/ PlayAnswered \/ SpotifyAnswered
  \/ OnPlayback \/ FetchMetadata \/ OnInit \/ ResyncDone \/ Reconnect
  \/ \E p \in Providers : OnProvider(p) \/ PollTick(p)
  \/ \E r \in reads : Answer(r) \/ Fail(r) \/ ReadDone(r)

\* The polls run, requests end, and the windows are a matter of seconds.
FooterFairness ==
  /\ WF_footerVars(OnPlayback \/ (\E p \in Providers : OnProvider(p)) \/ Miss)
  /\ WF_footerVars(OnInit) /\ WF_footerVars(ResyncDone)
  /\ WF_footerVars(FetchMetadata) /\ WF_footerVars(WindowEnds) /\ WF_footerVars(PlayAnswered)
  /\ WF_footerVars(SpotifyAnswered)
  /\ WF_footerVars(\E r \in reads : ReadDone(r)) /\ WF_footerVars(\E r \in reads : Answer(r) \/ Fail(r))
  /\ \A p \in Providers : WF_footerVars(PollTick(p))

FooterSpec == FooterInit /\ [][FooterNext]_footerVars /\ FooterFairness

-----------------------------------------------------------------------------
\* Whatever handler moves the footer, it moves it to the owner that the backend has
\* committed, if there is one; only a Spotify command goes ahead of it.
CommittedOwnerWins ==
  [][view'.foot # view.foot /\ ~view'.line /\ view'.owner # "none"
       => view'.foot = view'.owner \/ (view'.foot = "spotify" /\ SpotifyCommand)]_view

\* No handler leaves a timer behind whose generation has passed while the poll is
\* needed: such a timer would do nothing for ever.
NoDeadPoll == \A p \in Providers : ShouldPoll(view, p) => view.timer[p] # "dead"

\* Left alone, and with reads that succeed: the bounds under which the page must settle.
Undisturbed == counts.max.user = 0 /\ counts.max.fails = 0

\* The footer ends up with the owner that the server has committed, also when the
\* broadcast of the commit was missed.
FollowsOwner == <>[](Undisturbed /\ ~view.line /\ srv.owner # "none" => view.foot = srv.owner)

\* While the server names a provider that is available, the page ends up with its data,
\* also when its broadcasts were missed (the polls).  A Spotify that goes away keeps the
\* record it had (mergeSpotifyState), for as long as it is away.
OwnerDataFresh ==
  <>[](Undisturbed /\ srv.owner \in Providers /\ srv.data[srv.owner] # "away" /\ ~view.line
         => view.data[srv.owner] = srv.data[srv.owner])

\* What holds of the footer's polls at every moment.
FooterSafe == FooterTypeOK /\ NoDeadPoll

\* Left alone, the footer settles on the server's owner and that owner's data.
FooterSettles == FollowsOwner /\ OwnerDataFresh
==============================================================================
