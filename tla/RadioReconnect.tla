---------------------------- MODULE RadioReconnect ----------------------------
(***************************************************************************)
(* The reconnect of a radio stream that ended (playback/radio_reconnect.py)*)
(* with what drives it: the player's callbacks, plays, replays and stops   *)
(* that reset it, and the shutdown of the service.  A step runs from one   *)
(* await to the next.                                                      *)
(***************************************************************************)
EXTENDS Naturals, Sequences, FiniteSets

CONSTANTS
  Stations,     \* URLs of stations
  Other,        \* a track that is no radio station
  None,
  MaxAttempts,  \* RADIO_RECONNECT_MAX_ATTEMPTS
  Instances     \* the cases to look at; a behaviour is in one of them

\* ops: user actions, of these kinds; events: callbacks of the player; stops: of the
\* service; slow: a transition may commit while a reset still drains its task.
ASSUME RadioAssumption ==
  /\ Other \notin Stations /\ None \notin Stations \union {Other} /\ MaxAttempts \in Nat
  /\ Instances \subseteq [ops : Nat, kinds : SUBSET {"play", "replay", "stop"}, events : Nat,
                          stops : Nat, slow : BOOLEAN]

VARIABLES
  track,    \* current_track_info
  player,   \* the player: "idle", "playing" or "ended"
  ctx,      \* transition epoch, context commit, player's and newest seen _seq, last_track_info
  ops,      \* the user's actions under way
  events,   \* callbacks of the player under way
  rr,       \* the fields of RadioReconnect
  tasks,    \* its tasks, in the order of their creation
  service,  \* "up", "stopping" or "down", and the task that stop() drains
  hist,     \* history: a reconnect is due; recovery requests in this window
  used      \* actions, callbacks and stops so far, and the instance

app == <<track, player, ctx, ops, events>>
vars == <<app, rr, tasks, service, hist, used>>

Tracks == Stations \union {Other, None}
OpStates == [no : Nat, kind : {"play", "replay", "stop"}, target : Tracks,
             pc : {"trying", "draining"}, task : Nat, seq : Nat, stopped : BOOLEAN]
Events == [no : Nat, st : {"idle", "playing", "ended"}, commit : Nat, pc : {"new", "checked"}]
TaskStates == [pc : {"new", "sleep", "asking", "running", "done"}, cancelled : BOOLEAN, url : Stations, token : Nat]

\* 0 stands for no task, and for the token taken while an attempt is pending.
TypeOK ==
  /\ track \in Tracks /\ player \in {"idle", "playing", "ended"}
  /\ ctx \in [epoch : Nat, commit : Nat, seq : Nat, seen : Nat, last : Tracks]
  /\ ops \subseteq OpStates /\ events \subseteq Events
  /\ rr \in [task : 0..Len(tasks), attempts : 0..MaxAttempts, url : Stations \union {None},
             active : {"none", "young", "old"}, stopped : BOOLEAN, resetting : BOOLEAN,
             eof : Stations \union {None}, seq : Nat]
  /\ tasks \in Seq(TaskStates) /\ service \in [st : {"up", "stopping", "down"}, task : Nat]
  /\ hist \in [due : BOOLEAN, asks : Nat]
  /\ used \in [ops : Nat, events : Nat, stops : Nat, max : Instances]

Init ==
  /\ track = None /\ player = "idle" /\ ctx = [epoch |-> 1, commit |-> 0, seq |-> 0, seen |-> 0, last |-> None]
  /\ ops = {} /\ events = {} /\ tasks = <<>> /\ service = [st |-> "up", task |-> 0]
  /\ rr = [task |-> 0, attempts |-> 0, url |-> None, active |-> "none", stopped |-> FALSE,
           resetting |-> FALSE, eof |-> None, seq |-> 0]
  /\ hist = [due |-> FALSE, asks |-> 0]
  /\ used \in [ops : {0}, events : {0}, stops : {0}, max : Instances]

-----------------------------------------------------------------------------
\* The playback state.
Trying == {o \in ops : o.kind # "stop" /\ o.pc = "trying"}
Recovering == {i \in 1..Len(tasks) : tasks[i].pc = "running"}
NoAttempt == Trying = {} /\ Recovering = {}

\* capture_transition_epoch and transition_context_is_current.
Token == IF NoAttempt THEN ctx.epoch ELSE 0
ContextIsCurrent(token) == token = ctx.epoch /\ NoAttempt

\* The player changes and the change is known: _mark_player_state_authoritative.
Authoritative(c) == [c EXCEPT !.seq = @ + 1, !.seen = c.seq + 1]

Alive(i) == i # 0 /\ tasks[i].pc # "done"

-----------------------------------------------------------------------------
\* schedule(state): the new fields r and tasks ts.
Started(r, url) ==
  <<[r EXCEPT !.attempts = @ + 1, !.task = Len(tasks) + 1],
    Append(tasks, [pc |-> "new", cancelled |-> FALSE, url |-> url, token |-> Token])>>

\* The stream plays: after 30 s of it the attempts are forgotten.
Playing(r, url) ==
  IF r.url # url THEN [r EXCEPT !.url = url, !.attempts = 0, !.active = "young"]
  ELSE IF r.active = "none" THEN [r EXCEPT !.active = "young"]
  ELSE IF r.active = "old" THEN [r EXCEPT !.attempts = 0]
  ELSE r

\* The stream has ended; alive: the task of the handle is not done.
Ended(r, url, alive) ==
  LET q == [r EXCEPT !.active = "none", !.url = url, !.attempts = IF r.url # url THEN 0 ELSE @]
  IN IF q.attempts >= MaxAttempts \/ alive THEN <<q, tasks>> ELSE Started(q, url)

\* _defer_reset_eof.
DeferResetEof(r, st) ==
  [r EXCEPT !.eof = IF st = "playing" THEN None ELSE IF st = "ended" THEN track ELSE @]

\* Mutant: a scheduler that was stopped still schedules.
ScheduleStopped(r, st, alive) ==
  IF track \notin Stations THEN <<r, tasks>>
  ELSE IF r.resetting THEN <<DeferResetEof(r, st), tasks>>
  ELSE IF st = "playing" THEN <<Playing(r, track), tasks>>
  ELSE IF st = "ended" THEN Ended(r, track, alive)
  ELSE <<[r EXCEPT !.active = "none"], tasks>>

Schedule(r, st, alive) ==
  IF r.stopped \/ track \notin Stations THEN <<r, tasks>>
  ELSE IF r.resetting THEN <<DeferResetEof(r, st), tasks>>
  ELSE IF st = "playing" THEN <<Playing(r, track), tasks>>
  ELSE IF st = "ended" THEN Ended(r, track, alive)
  ELSE <<[r EXCEPT !.active = "none"], tasks>>

-----------------------------------------------------------------------------
\* reset(): until its await, and from there to its end.
CancelTask(i) ==
  tasks' = IF Alive(i) THEN [tasks EXCEPT ![i].cancelled = TRUE] ELSE tasks

\* Mutant: an end of the stream during the reset is forgotten.
ResetDrops(r, o, cur) ==
  LET q == [r EXCEPT !.resetting = FALSE, !.attempts = 0, !.url = None, !.active = "none", !.eof = None]
  IN <<IF r.seq # o.seq THEN q ELSE [q EXCEPT !.stopped = @ /\ ~o.stopped], tasks>>

\* After the drain.  A stop in between drops the deferred end; otherwise it is
\* scheduled when it belongs to the station that is still current.
ResetEnds(r, o, cur) ==
  LET q == [r EXCEPT !.resetting = FALSE, !.attempts = 0, !.url = None, !.active = "none", !.eof = None]
      s == [q EXCEPT !.stopped = @ /\ ~o.stopped]
  IN IF r.seq # o.seq THEN <<q, tasks>>
     ELSE IF r.eof = None \/ s.stopped \/ cur # r.eof THEN <<s, tasks>>
     ELSE Ended(s, r.eof, Alive(s.task))

\* The part of reset() that op o runs before its await: without a task there is none.
ResetBegins(o) ==
  LET r == [rr EXCEPT !.eof = None, !.resetting = TRUE]
      p == [o EXCEPT !.pc = "draining", !.task = rr.task, !.seq = rr.seq, !.stopped = rr.stopped]
  IN IF rr.task = 0
     THEN /\ rr' = ResetEnds(r, p, None)[1] /\ UNCHANGED tasks /\ ops' = ops \ {o}
     ELSE /\ rr' = r /\ CancelTask(rr.task) /\ ops' = (ops \ {o}) \union {p}

\* Mutant: the handle is dropped although the task still unwinds.
Undrained(i) == TRUE

\* The gathered task is done.
Drained(i) == ~Alive(i)

ResetResumes(o) ==
  /\ o.pc = "draining" /\ Drained(o.task)
  /\ LET r == [rr EXCEPT !.task = IF @ = o.task THEN 0 ELSE @]
     IN \E e \in {ResetEnds(r, o, track)} : rr' = e[1] /\ tasks' = e[2]
  /\ ops' = ops \ {o}
  /\ IF o.kind = "stop" THEN player' = "idle" /\ ctx' = Authoritative(ctx) ELSE UNCHANGED <<player, ctx>>
  /\ UNCHANGED <<track, events, service, hist, used>>
-----------------------------------------------------------------------------
\* The user's actions.
MayAct(kind) ==
  /\ service.st = "up" /\ kind \in used.max.kinds
  /\ used.ops < used.max.ops /\ used' = [used EXCEPT !.ops = @ + 1]

Op(kind, target) ==
  [no |-> used.ops, kind |-> kind, target |-> target, pc |-> "trying", task |-> 0, seq |-> 0, stopped |-> FALSE]

\* play_track, and toggle_playback of a track that ended: begin_transition_attempt.
Begin(kind, target) ==
  /\ MayAct(kind) /\ target # None
  /\ kind = "replay" => player # "playing" /\ target = IF track = None THEN ctx.last ELSE track
  /\ ops' = ops \union {Op(kind, target)} /\ ctx' = [ctx EXCEPT !.epoch = @ + 1]
  /\ hist' = [hist EXCEPT !.due = FALSE]
  /\ UNCHANGED <<track, player, events, rr, tasks, service>>

\* stop_playback holds the lock; nobody else commits meanwhile.
LockFree == Recovering = {} /\ \A o \in ops : o.kind # "stop"
MayCommit == LockFree /\ (used.max.slow \/ \A o \in ops : o.pc # "draining")

\* The transition commits: a play of a station then resets the reconnect.
Commit(o) ==
  /\ o \in Trying /\ MayCommit
  /\ track' = o.target /\ player' = "playing" /\ ctx' = Authoritative([ctx EXCEPT !.commit = @ + 1, !.last = o.target])
  /\ IF o.kind = "play" /\ o.target \in Stations THEN ResetBegins(o)
     ELSE ops' = ops \ {o} /\ UNCHANGED <<rr, tasks>>
  /\ hist' = [due |-> FALSE, asks |-> IF o.kind = "play" \/ o.target # track THEN 0 ELSE hist.asks]
  /\ UNCHANGED <<events, service, used>>

\* The transition fails; what was committed before is restored.
Fail(o) ==
  /\ o \in Trying /\ LockFree /\ ops' = ops \ {o}
  /\ UNCHANGED <<track, player, ctx, events, rr, tasks, service, hist, used>>

StopPlayback ==
  /\ MayAct("stop") /\ NoAttempt /\ LockFree
  /\ track' = None /\ ResetBegins(Op("stop", None)) /\ hist' = [due |-> FALSE, asks |-> 0]
  /\ IF rr.task = 0 THEN player' = "idle" /\ ctx' = Authoritative(ctx) ELSE UNCHANGED <<player, ctx>>
  /\ UNCHANGED <<events, service>>

-----------------------------------------------------------------------------
\* The player and its callbacks.
Report(st) ==
  /\ used.events < used.max.events /\ service.st = "up"
  /\ used' = [used EXCEPT !.events = @ + 1] /\ ctx' = [ctx EXCEPT !.seq = @ + 1]
  /\ events' = events \union {[no |-> ctx.seq + 1, st |-> st, commit |-> ctx.commit, pc |-> "new"]}

StreamEnds ==
  /\ player = "playing" /\ player' = "ended" /\ Report("ended")
  /\ hist' = [hist EXCEPT !.due = track \in Stations /\ NoAttempt /\ ~rr.stopped]
  /\ UNCHANGED <<track, ops, rr, tasks, service>>

\* Any other change of the player reports its state again.
PlayerReports ==
  /\ Report(player) /\ UNCHANGED <<track, player, ops, rr, tasks, service, hist>>

\* on_player_state_change up to schedule: an end waits for pending attempts and is
\* dropped when the player plays again or has reported since, or another context was
\* committed.
Outdated(e) ==
  \/ e.no < ctx.seen
  \/ e.st = "ended" /\ (player = "playing" \/ e.no < ctx.seq \/ e.commit # ctx.commit)

\* The call of schedule.
Apply(e) ==
  /\ \E s \in {Schedule(rr, e.st, Alive(rr.task))} : rr' = s[1] /\ tasks' = s[2]
  /\ hist' = [hist EXCEPT !.due = @ /\ ~(e.st = "ended" /\ ~rr.resetting /\ tasks' = tasks
                                           /\ rr'.attempts = MaxAttempts)]

\* Only a player without a file releases its ingress, which may take a while.
Check(e) ==
  /\ e.pc = "new" /\ (e.st = "ended" /\ e.no >= ctx.seen => NoAttempt)
  /\ ctx' = [ctx EXCEPT !.seen = IF e.no > @ THEN e.no ELSE @]
  /\ \/ Outdated(e) /\ events' = events \ {e} /\ UNCHANGED <<rr, tasks, hist>>
     \/ ~Outdated(e) /\ e.st = "playing" /\ events' = events \ {e} /\ Apply(e)
     \/ /\ ~Outdated(e) /\ e.st # "playing"
        /\ events' = (events \ {e}) \union {[e EXCEPT !.pc = "checked"]} /\ UNCHANGED <<rr, tasks, hist>>
  /\ UNCHANGED <<track, player, ops, service, used>>

Deliver(e) ==
  /\ e.pc = "checked" /\ events' = events \ {e} /\ Apply(e)
  /\ UNCHANGED <<track, player, ctx, ops, service, used>>

\* Half a minute of playing, far longer than the delay of a task.
HalfMinute ==
  /\ rr.active = "young" /\ player = "playing"
  /\ \A i \in 1..Len(tasks) : tasks[i].pc \notin {"new", "sleep"}
  /\ rr' = [rr EXCEPT !.active = "old"] /\ hist' = [hist EXCEPT !.asks = 0]
  /\ UNCHANGED <<app, tasks, service, used>>

-----------------------------------------------------------------------------
\* The tasks.
SetTask(i, pc) ==
  /\ tasks' = [tasks EXCEPT ![i].pc = pc]
  /\ rr' = IF pc = "done" /\ tasks[i].pc # "new" /\ rr.task = i THEN [rr EXCEPT !.task = 0] ELSE rr

TaskStarts(i) ==
  /\ tasks[i].pc = "new" /\ ~tasks[i].cancelled /\ SetTask(i, "sleep")
  /\ UNCHANGED <<app, service, hist, used>>

\* A cancelled task unwinds; one that never ran leaves the handle.
TaskUnwinds(i) ==
  /\ tasks[i].pc # "done" /\ tasks[i].cancelled /\ SetTask(i, "done")
  /\ UNCHANGED <<app, service, hist, used>>

\* The checks after the delay.
StillWanted(t) == ContextIsCurrent(t.token) /\ track = t.url /\ player # "playing"

TaskWakes(i) ==
  /\ tasks[i].pc = "sleep" /\ ~tasks[i].cancelled
  /\ IF StillWanted(tasks[i])
     THEN SetTask(i, "asking") /\ hist' = [due |-> FALSE, asks |-> hist.asks + 1]
     ELSE SetTask(i, "done") /\ UNCHANGED hist
  /\ UNCHANGED <<app, service, used>>

\* Mutant: the recovery does not ask which track is current.
ValidAnyTrack(t) == NoAttempt /\ LockFree /\ player = "playing"

\* recovery_context_is_valid: the coordinator's lock must be free.  An attempt takes it
\* in the step that begins it, or waits for its holder (run_coordinated_transition and
\* execute await nothing in between), so it is free when there is no attempt and no stop.
\* The player must play the station, so a stream that is still ended is not recovered.
RecoveryValid(t) ==
  NoAttempt /\ LockFree /\ player = "playing" /\ ctx.last = t.url /\ track \in {None, t.url}

\* request_coordinated_recovery: the transition it runs, or nothing.
RequestDecides(i) ==
  /\ tasks[i].pc = "asking" /\ ~tasks[i].cancelled
  /\ IF RecoveryValid(tasks[i])
     THEN /\ SetTask(i, "running") /\ ctx' = [ctx EXCEPT !.epoch = @ + 1]
     ELSE /\ SetTask(i, "done") /\ UNCHANGED ctx
  /\ UNCHANGED <<track, player, ops, events, service, hist, used>>

\* The transition commits with the station loaded again, or fails.
RecoveryEnds(i) ==
  /\ tasks[i].pc = "running" /\ ~tasks[i].cancelled /\ SetTask(i, "done")
  /\ \/ player' = "playing" /\ ctx' = [ctx EXCEPT !.seq = @ + 1]
     \/ UNCHANGED <<player, ctx>>
  /\ UNCHANGED <<track, ops, events, service, hist, used>>

-----------------------------------------------------------------------------
\* stop(), when the service shuts down; another start may follow.
Stop ==
  /\ service.st = "up" /\ Trying = {}
  /\ used.stops < used.max.stops /\ used' = [used EXCEPT !.stops = @ + 1]
  /\ rr' = [rr EXCEPT !.stopped = TRUE, !.seq = @ + 1, !.eof = None]
  /\ CancelTask(rr.task) /\ hist' = [hist EXCEPT !.due = FALSE]
  /\ service' = [st |-> IF rr.task = 0 THEN "down" ELSE "stopping", task |-> rr.task]
  /\ UNCHANGED app

StopResumes ==
  /\ service.st = "stopping" /\ Drained(service.task) /\ service' = [st |-> "down", task |-> 0]
  /\ rr' = [rr EXCEPT !.task = IF @ = service.task THEN 0 ELSE @, !.eof = None]
  /\ UNCHANGED <<app, tasks, hist, used>>

Startup ==
  /\ service.st = "down" /\ ops = {} /\ service' = [st |-> "up", task |-> 0]
  /\ UNCHANGED <<app, rr, tasks, hist, used>>

-----------------------------------------------------------------------------
User == \/ \E t \in Tracks : Begin("play", t) \/ Begin("replay", t)
        \/ StopPlayback
Reset == \E o \in ops : ResetResumes(o)
Transition == \E o \in ops : Commit(o) \/ Fail(o)
Callback == \E e \in events : Check(e) \/ Deliver(e)
Task(i) == TaskStarts(i) \/ TaskUnwinds(i) \/ TaskWakes(i) \/ RequestDecides(i) \/ RecoveryEnds(i)

Next ==
  \/ User \/ Reset \/ Transition \/ Callback \/ StreamEnds \/ PlayerReports \/ HalfMinute
  \/ Stop \/ StopResumes \/ Startup
  \/ \E i \in 1..Len(tasks) : Task(i)

\* Coroutines that can run do run, transitions end, and delays pass.
Fairness ==
  /\ WF_vars(Reset) /\ WF_vars(Transition) /\ WF_vars(Callback) /\ WF_vars(StopResumes)
  /\ WF_vars(\E i \in 1..Len(tasks) : Task(i))

Spec == Init /\ [][Next]_vars /\ Fairness

-----------------------------------------------------------------------------
\* There is never more than one reconnect at a time, and the handle knows it: what
\* reset and stop have to cancel cannot escape them.
OneReconnect == \A i \in 1..Len(tasks) : Alive(i) => i = rr.task

\* A station is not hammered: between two plays at most RADIO_RECONNECT_MAX_ATTEMPTS
\* requests are made, unless the stream was stable in between.
Bounded == ~used.max.slow => hist.asks <= MaxAttempts

\* Once stop() has returned there is no task, and none appears until a new play.
QuietWhenStopped == service.st = "down" => \A i \in 1..Len(tasks) : ~Alive(i)

\* A recovery that runs is for the station the user listens to: none is loaded over
\* a track that was chosen after the reconnect was scheduled.
RecoversCurrent ==
  \A i \in 1..Len(tasks) : tasks[i].pc = "running" /\ ~tasks[i].cancelled => track = tasks[i].url

\* An unexpected end is answered with a request unless the user or the limit comes
\* first, also when it falls into the drain of a reset.  A replay does not reset, so
\* a task of the playback before it can stand in the way.
EndIsAnswered == "replay" \notin used.max.kinds => (hist.due ~> ~hist.due)

\* The reconnect keeps to its limit and stays quiet once it was stopped.
ReconnectSafe == TypeOK /\ Bounded /\ QuietWhenStopped
==============================================================================
