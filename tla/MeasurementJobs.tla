---------------------------- MODULE MeasurementJobs ----------------------------
(***************************************************************************)
(* The measurement runs of the web page (static/measurement_capture.js,    *)
(* measurement_job.js and measurement_flows.js): sweep and L/R repeat, the *)
(* Auto Sub and Speaker Align tasks, the Advanced wizard, and the recovery *)
(* of an Auto Sub job after a reload.  Each is an async function that      *)
(* starts a job on the server and polls it; they share one page state, and *)
(* between two awaits anything may happen to it.  A run is a flow with a   *)
(* program counter, and a cancel request is a request of its own.          *)
(***************************************************************************)
EXTENDS Naturals, FiniteSets

CONSTANTS
  MaxFlows,   \* flows started
  MaxJobs,    \* jobs of the server
  MaxErrors,  \* failed polls in a row that end a run (40; 5 in the wizard)
  Instances   \* the cases to look at; a behaviour is in one of them

Tasks == {"sub", "align"}

ASSUME MeasurementAssumption ==
  /\ {MaxFlows, MaxJobs, MaxErrors} \subseteq Nat
  /\ Instances \subseteq [kinds : SUBSET ({"sweep", "hybrid", "recovery"} \union Tasks),
                          flows : 0..MaxFlows, faults : Nat, cancels : Nat, ends : BOOLEAN]

VARIABLES
  m,      \* state.measurement of the page
  fl,     \* the flows
  cans,   \* cancel requests under way
  jobs,   \* the server's jobs
  used,   \* flows, jobs, faults and clicks so far, and the instance that bounds them
  wish    \* the user has asked to cancel the latest run

vars == <<m, fl, cans, jobs, used, wish>>

Flows == 1..MaxFlows
Jobs == 1..MaxJobs
Live == {"running", "cancelling"}
Ended == {"done", "failed", "cancelled"}

\* 0 stands for no job.  own: autoSubInFlight and speakerAlignInFlight; id and ask:
\* their job and their CancelRequested; shown: the job whose result is shown.
Pages ==
  [gen : Nat, start : BOOLEAN, job : 0..MaxJobs, kind : {"", "sweep", "hybrid"} \union Tasks,
   cancel : BOOLEAN, own : [Tasks -> BOOLEAN], id : [Tasks -> 0..MaxJobs], ask : [Tasks -> BOOLEAN],
   wiz : [open : BOOLEAN, run : BOOLEAN, cancel : BOOLEAN, job : 0..MaxJobs, errs : Nat],
   recovering : BOOLEAN, handled : 0..MaxJobs, shown : 0..MaxJobs]

\* "starting": the start request is on its way; "started": the server has taken it;
\* "wait": a cancel of the flow itself; "poll" and "asked"; "post": the debug snapshot
\* after a sweep; "next": between two sweeps of the wizard; "find": the recovery.
Steps == {"off", "starting", "started", "wait", "poll", "asked", "post", "next", "find"}
FlowStates == [type : {"none", "sweep", "hybrid", "recovery"} \union Tasks, pc : Steps,
               job : 0..MaxJobs, gen : Nat, errs : Nat, got : {"", "done", "lost"}]

\* by: the flow that awaits it, or 0; close: closing the wizard awaits it.
CancelReqs == [type : {"sweep", "hybrid"} \union Tasks, job : Jobs, gen : Nat,
               by : 0..MaxFlows, close : BOOLEAN, val : {"sent", "lost", "gone"} \union Live \union Ended]

TypeOK ==
  /\ m \in Pages /\ fl \in [Flows -> FlowStates] /\ cans \subseteq CancelReqs
  /\ jobs \in [Jobs -> [kind : {"none", "sweep", "hybrid"} \union Tasks,
                        status : {"none", "gone"} \union Live \union Ended]]
  /\ used \in [flows : 0..MaxFlows, jobs : 0..MaxJobs, faults : Nat, cancels : Nat, max : Instances]
  /\ wish \in BOOLEAN
  /\ Cardinality({j \in Jobs : jobs[j].status \in Live}) <= 1

Init ==
  /\ m = [gen |-> 0, start |-> FALSE, job |-> 0, kind |-> "", cancel |-> FALSE,
          own |-> [t \in Tasks |-> FALSE], id |-> [t \in Tasks |-> 0], ask |-> [t \in Tasks |-> FALSE],
          wiz |-> [open |-> FALSE, run |-> FALSE, cancel |-> FALSE, job |-> 0, errs |-> 0],
          recovering |-> FALSE, handled |-> 0, shown |-> 0]
  /\ fl = [n \in Flows |-> [type |-> "none", pc |-> "off", job |-> 0, gen |-> 0, errs |-> 0, got |-> ""]]
  /\ cans = {} /\ jobs = [j \in Jobs |-> [kind |-> "none", status |-> "none"]]
  /\ used \in [flows : {0}, jobs : {0}, faults : {0}, cancels : {0}, max : Instances]
  /\ wish = FALSE

-----------------------------------------------------------------------------
\* The page.

\* hasActiveMeasurementJob; with startInFlight it turns Start into Cancel.
HasActive(p) == p.job # 0 \/ p.own["sub"] \/ p.own["align"] \/ p.wiz.run
Idle(p) == ~p.start /\ ~HasActive(p)

\* The flow whose answers still count: the poll loops' checks.
TaskOf(f) == IF f.type = "recovery" THEN "sub" ELSE f.type

Current(p, f) ==
  LET t == TaskOf(f)
  IN /\ p.gen = f.gen
     /\ CASE t = "sweep" -> p.job = f.job
          [] t = "hybrid" -> p.kind = "hybrid" /\ p.job = f.job
          [] t = "sub" -> p.kind = "sub" /\ p.id["sub"] = f.job
          [] OTHER -> (p.kind = "align" \/ p.own["align"]) /\ p.id["align"] = f.job

SweepCleared(p) == [p EXCEPT !.job = 0, !.start = FALSE, !.kind = "", !.cancel = FALSE]

TaskCleared(p, t) ==
  [p EXCEPT !.own[t] = FALSE, !.kind = "", !.id[t] = 0, !.ask[t] = FALSE]

\* Mutant: a sweep that another one has replaced still clears up.
EndOfAnySweep(p, f) == [p EXCEPT !.start = FALSE]

\* The finally blocks.
SweepEnds(p, f) ==
  IF p.gen # f.gen THEN p
  ELSE [p EXCEPT !.start = FALSE, !.kind = IF p.job = 0 THEN "" ELSE @, !.cancel = p.job # 0 /\ @]


FlowEnds(p, f) ==
  CASE f.type = "sweep" -> SweepEnds(p, f)
    [] f.type \in Tasks -> [TaskCleared(p, f.type) EXCEPT !.start = FALSE]
    [] f.type = "hybrid" ->
         [p EXCEPT !.wiz.run = FALSE, !.wiz.cancel = FALSE, !.wiz.job = 0, !.job = 0, !.kind = ""]
    [] OTHER -> [IF Current(p, f) THEN TaskCleared(p, "sub") ELSE p EXCEPT !.recovering = FALSE]

\* Flow n ends on the page p, or goes on at pc with the changes of f.
End(n, p, f) == m' = FlowEnds(p, f) /\ fl' = [fl EXCEPT ![n] = [f EXCEPT !.pc = "off"]]
GoOn(n, p, f, pc) == m' = p /\ fl' = [fl EXCEPT ![n] = [f EXCEPT !.pc = pc]]

CancelReq(t, j, by, close) ==
  [type |-> t, job |-> j, gen |-> m.gen, by |-> by, close |-> close, val |-> "sent"]

-----------------------------------------------------------------------------
\* What the user starts.
Begin(t, p) ==
  /\ t \in used.max.kinds /\ used.flows < used.max.flows
  /\ used' = [used EXCEPT !.flows = @ + 1] /\ m' = p /\ wish' = FALSE
  /\ fl' = [fl EXCEPT ![used.flows + 1] =
              [type |-> t, pc |-> IF t = "recovery" THEN "find" ELSE "starting", job |-> 0,
               gen |-> p.gen, errs |-> 0, got |-> ""]]
  /\ UNCHANGED <<cans, jobs>>

\* startMeasurement and startLrRepeat.
StartMeasurement ==
  /\ Idle(m) /\ ~m.wiz.open
  /\ Begin("sweep", [m EXCEPT !.gen = @ + 1, !.start = TRUE, !.cancel = FALSE, !.kind = "", !.job = 0])

\* startAutoSubOptimize and startSpeakerAlign.
StartTask(t) ==
  /\ Idle(m) /\ ~m.wiz.open
  /\ Begin(t, [m EXCEPT !.own[t] = TRUE, !.start = TRUE, !.ask[t] = FALSE, !.kind = t, !.id[t] = 0])

\* recoverAutoSubJob, when the panel or the connection opens.
RecoverAutoSubJob ==
  /\ Idle(m) /\ ~m.recovering /\ Begin("recovery", [m EXCEPT !.recovering = TRUE])

OpenWizard ==
  /\ "hybrid" \in used.max.kinds /\ Idle(m) /\ ~m.wiz.open
  /\ m' = [m EXCEPT !.wiz.open = TRUE, !.wiz.cancel = FALSE, !.wiz.job = 0]
  /\ UNCHANGED <<fl, cans, jobs, used, wish>>

\* runHybridWizardSweep looks at the wizard only.
RunWizard ==
  /\ m.wiz.open /\ ~m.wiz.run
  /\ Begin("hybrid", [m EXCEPT !.wiz.run = TRUE, !.wiz.cancel = FALSE])

\* closeHybridMeasurementWizard.
CloseWizard ==
  /\ m.wiz.open /\ UNCHANGED <<fl, jobs, used>> /\ wish' = (wish \/ m.wiz.run)
  /\ IF ~m.wiz.run
     THEN /\ m' = [m EXCEPT !.wiz.open = FALSE, !.wiz.job = 0, !.job = 0, !.kind = ""]
          /\ UNCHANGED cans
     ELSE IF m.wiz.cancel \/ m.wiz.job = 0
     THEN m' = [m EXCEPT !.wiz.open = FALSE, !.wiz.cancel = TRUE] /\ UNCHANGED cans
     ELSE /\ m' = [m EXCEPT !.wiz.cancel = TRUE]
          /\ cans' = cans \union {CancelReq("hybrid", m.wiz.job, 0, TRUE)}

\* cancelAutoSubOptimize and cancelSpeakerAlign, without or with a job.
CancelTask(t) ==
  IF m.id[t] = 0 THEN m' = [m EXCEPT !.ask[t] = TRUE] /\ UNCHANGED cans
  ELSE UNCHANGED m /\ cans' = cans \union {CancelReq(t, m.id[t], 0, FALSE)}

CancelWizard ==
  /\ ~m.wiz.cancel /\ m' = [m EXCEPT !.wiz.cancel = TRUE]
  /\ cans' = IF m.wiz.job = 0 THEN cans ELSE cans \union {CancelReq("hybrid", m.wiz.job, 0, FALSE)}

\* requestMeasurementCancellation, and the tasks' own buttons.
CancelButton ==
  /\ ~Idle(m) /\ used.cancels < used.max.cancels
  /\ used' = [used EXCEPT !.cancels = @ + 1] /\ wish' = TRUE /\ UNCHANGED <<fl, jobs>>
  /\ IF m.own["sub"] THEN CancelTask("sub")
     ELSE IF m.own["align"] THEN CancelTask("align")
     ELSE IF m.wiz.run THEN CancelWizard
     ELSE IF m.job # 0 THEN UNCHANGED m /\ cans' = cans \union {CancelReq("sweep", m.job, 0, FALSE)}
     ELSE m' = [m EXCEPT !.cancel = TRUE] /\ UNCHANGED cans

-----------------------------------------------------------------------------
\* The start request.
NoJob == \A j \in Jobs : jobs[j].status \notin Live

NewJob(t) ==
  /\ used.jobs < MaxJobs /\ NoJob
  /\ jobs' = [jobs EXCEPT ![used.jobs + 1] = [kind |-> t, status |-> "running"]]

\* The server takes one job at a time.
StartReaches(n) ==
  /\ fl[n].pc = "starting"
  /\ IF NoJob /\ used.jobs < MaxJobs
     THEN /\ NewJob(fl[n].type) /\ used' = [used EXCEPT !.jobs = @ + 1]
          /\ GoOn(n, m, [fl[n] EXCEPT !.job = used.jobs + 1], "started")
     ELSE /\ End(n, m, fl[n]) /\ UNCHANGED <<jobs, used>>
  /\ UNCHANGED <<cans, wish>>

\* The request or its answer is lost.
StartFails(n) ==
  /\ fl[n].pc \in {"starting", "started"}
  /\ used.faults < used.max.faults /\ used' = [used EXCEPT !.faults = @ + 1]
  /\ End(n, m, [fl[n] EXCEPT !.job = 0]) /\ UNCHANGED <<cans, jobs, wish>>

\* The page learns the job: it becomes the active one of its kind.
Adopted(p, t, j) ==
  CASE t = "sweep" -> [p EXCEPT !.job = j, !.kind = "sweep"]
    [] t = "hybrid" -> [p EXCEPT !.wiz.job = j, !.job = j, !.kind = "hybrid"]
    [] OTHER -> [p EXCEPT !.id[t] = j]

\* Mutant: a cancel asked for before the job was known is forgotten.
NothingAsked(p, t) == FALSE

\* A cancel was asked for before the job was known.
CancelAsked(p, t) ==
  CASE t = "sweep" -> p.cancel [] t = "hybrid" -> p.wiz.cancel [] OTHER -> p.ask[t]

StartAnswered(n) ==
  /\ fl[n].pc = "started" /\ UNCHANGED <<jobs, used, wish>>
  /\ LET f == IF fl[n].type = "sweep" THEN fl[n] ELSE [fl[n] EXCEPT !.gen = m.gen]
     IN IF CancelAsked(m, f.type)
        THEN /\ GoOn(n, Adopted(m, f.type, f.job), f, "wait")
             /\ cans' = cans \union {CancelReq(f.type, f.job, n, FALSE)}
        ELSE GoOn(n, Adopted(m, f.type, f.job), f, "poll") /\ UNCHANGED cans

-----------------------------------------------------------------------------
\* Cancel requests.
CancelReaches(c) ==
  /\ c.val = "sent"
  /\ LET s == IF jobs[c.job].status \in Live THEN "cancelling" ELSE jobs[c.job].status
     IN /\ jobs' = [jobs EXCEPT ![c.job].status = s]
        /\ cans' = (cans \ {c}) \union {[c EXCEPT !.val = s]}
  /\ UNCHANGED <<m, fl, used, wish>>

CancelFails(c) ==
  /\ c.val = "sent" /\ used.faults < used.max.faults /\ used' = [used EXCEPT !.faults = @ + 1]
  /\ cans' = (cans \ {c}) \union {[c EXCEPT !.val = "lost"]}
  /\ UNCHANGED <<m, fl, jobs, wish>>

\* cancelMeasurement clears the page when the job is over or gone.
AfterCancel(c) ==
  IF c.type = "sweep" /\ m.gen = c.gen /\ m.job = c.job /\ c.val \in {"gone", "cancelled"}
  THEN SweepCleared(m)
  ELSE IF c.close THEN [m EXCEPT !.wiz.open = FALSE] ELSE m

CancelAnswered(c) ==
  /\ c.val # "sent" /\ cans' = cans \ {c} /\ UNCHANGED <<jobs, used, wish>>
  /\ LET p == AfterCancel(c)
     IN IF c.by = 0 THEN m' = p /\ UNCHANGED fl
        ELSE LET f == [fl[c.by] EXCEPT !.got = IF c.val = "lost" THEN "lost" ELSE @,
                                        !.job = IF fl[c.by].type = "sweep" /\ p.job # 0 THEN p.job ELSE @]
             IN IF f.errs >= MaxErrors \/ (f.type = "sweep" /\ p.job = 0)
                THEN End(c.by, p, f) ELSE GoOn(c.by, p, f, "poll")

-----------------------------------------------------------------------------
\* The poll loops.
Poll(n) ==
  /\ fl[n].pc = "poll" /\ UNCHANGED <<cans, jobs, used, wish>>
  /\ IF Current(m, fl[n]) THEN GoOn(n, m, fl[n], "asked") ELSE End(n, m, fl[n])

\* A failed poll is tried again; too many in a row end the run.  The wizard counts
\* in its own state.  Only Speaker Align cancels the job it gives up.
WizardErrs(p, f) == IF f.type = "hybrid" THEN [p EXCEPT !.wiz.errs = @ + 1] ELSE p

\* abandonSpeakerAlignJob.
AbandonSpeakerAlign(n, p, f) ==
  /\ GoOn(n, p, [f EXCEPT !.errs = MaxErrors], "wait")
  /\ cans' = cans \union {CancelReq("align", f.job, n, FALSE)}

GiveUp(n, p, f) ==
  IF f.type = "align" THEN AbandonSpeakerAlign(n, p, f)
  ELSE End(n, IF f.type = "sweep" THEN SweepCleared(p) ELSE p, f) /\ UNCHANGED cans

PollFails(n) ==
  /\ fl[n].pc = "asked" /\ used.faults < used.max.faults /\ used' = [used EXCEPT !.faults = @ + 1]
  /\ LET p == WizardErrs(m, fl[n])
         f == [fl[n] EXCEPT !.errs = @ + 1]
         errs == IF f.type = "hybrid" THEN p.wiz.errs ELSE f.errs
     IN IF ~Current(m, fl[n]) THEN End(n, m, fl[n]) /\ UNCHANGED cans
        ELSE IF errs >= MaxErrors THEN GiveUp(n, p, f)
        ELSE GoOn(n, p, f, "poll") /\ UNCHANGED cans
  /\ UNCHANGED <<jobs, wish>>

\* The run has been polled for too long.
TimedOut(n) ==
  /\ fl[n].pc = "poll" /\ Current(m, fl[n])
  /\ used.faults < used.max.faults /\ used' = [used EXCEPT !.faults = @ + 1]
  /\ GiveUp(n, m, fl[n]) /\ UNCHANGED <<jobs, wish>>

\* handleAutoSubResult and handleSpeakerAlignResult.
TaskResult(p, f, s) ==
  [p EXCEPT !.shown = IF s = "done" THEN f.job ELSE @,
            !.handled = IF TaskOf(f) = "sub" THEN f.job ELSE @]

\* A step of the wizard is measured; it may be the last one of the position, and a
\* direct response that is no good ends the run.
WizardStepDone(n, p, f) ==
  \/ GoOn(n, [p EXCEPT !.shown = f.job, !.wiz.job = 0, !.job = 0], f, "next")
  \/ End(n, [p EXCEPT !.shown = f.job], f)
  \/ End(n, p, f)

PollAnswered(n) ==
  /\ fl[n].pc = "asked" /\ UNCHANGED <<cans, jobs, used, wish>>
  /\ LET f == [fl[n] EXCEPT !.errs = 0]
         s == jobs[f.job].status
         p == IF f.type = "hybrid" /\ s # "gone" THEN [m EXCEPT !.wiz.errs = 0] ELSE m
     IN IF ~Current(m, f) THEN End(n, m, fl[n])
        ELSE IF s \in Live THEN GoOn(n, p, f, "poll")
        ELSE CASE f.type = "sweep" /\ s = "gone" -> End(n, SweepCleared(p), f)
               [] f.type = "sweep" /\ s # "gone" ->
                    GoOn(n, SweepCleared(p), [f EXCEPT !.got = IF s = "done" THEN "done" ELSE ""], "post")
               [] f.type = "hybrid" /\ s = "done" /\ ~p.wiz.cancel -> WizardStepDone(n, p, f)
               [] f.type = "hybrid" /\ (s # "done" \/ p.wiz.cancel) -> End(n, p, f)
               [] OTHER -> End(n, IF s = "gone" THEN p ELSE TaskResult(p, f, s), f)

\* Mutant: the result of a sweep is shown, whatever was started meanwhile.
AnyGeneration(p, f) == f.got = "done"

\* After the debug snapshot the result is shown, unless a newer sweep has begun.
StillWanted(p, f) == f.got = "done" /\ p.gen = f.gen

Post(n) ==
  /\ fl[n].pc = "post" /\ UNCHANGED <<cans, jobs, used, wish>>
  /\ End(n, IF StillWanted(m, fl[n]) THEN [m EXCEPT !.shown = fl[n].job] ELSE m, fl[n])

\* The wizard goes on with the next step of the position.
NextStep(n) ==
  /\ fl[n].pc = "next" /\ UNCHANGED <<cans, jobs, used, wish>>
  /\ IF m.wiz.cancel THEN End(n, m, fl[n])
     ELSE GoOn(n, m, [fl[n] EXCEPT !.job = 0], "starting")

\* The recovery finds the newest Auto Sub job, and takes it over when the page is
\* still idle.
Newest == {j \in Jobs : /\ jobs[j].kind = "sub" /\ jobs[j].status # "gone"
                        /\ \A k \in Jobs : k > j => jobs[k].kind # "sub"}

MayTakeOver(p, f) == p.gen = f.gen /\ Idle(p)

Found(n) ==
  /\ fl[n].pc = "find" /\ UNCHANGED <<cans, jobs, used>>
  /\ \/ /\ Newest \subseteq {m.handled} \/ ~MayTakeOver(m, fl[n])
        /\ GoOn(n, [m EXCEPT !.recovering = FALSE], fl[n], "off") /\ UNCHANGED wish
     \/ \E j \in Newest \ {m.handled} :
          /\ MayTakeOver(m, fl[n]) /\ wish' = FALSE
          /\ LET p == [m EXCEPT !.own["sub"] = TRUE, !.kind = "sub", !.id["sub"] = j,
                         !.ask["sub"] = jobs[j].status = "cancelling"]
                 f == [fl[n] EXCEPT !.job = j]
             IN IF jobs[j].status \in Ended THEN End(n, TaskResult(p, f, jobs[j].status), f)
                ELSE GoOn(n, p, f, "poll")

-----------------------------------------------------------------------------
\* The server's jobs: they end, another page starts one, a restart forgets them.
JobEnds(j) ==
  /\ jobs[j].status = "running" /\ \E s \in {"done", "failed"} : jobs' = [jobs EXCEPT ![j].status = s]
  /\ UNCHANGED <<m, fl, cans, used, wish>>

CancelEndsJob(j) ==
  /\ jobs[j].status = "cancelling" /\ jobs' = [jobs EXCEPT ![j].status = "cancelled"]
  /\ UNCHANGED <<m, fl, cans, used, wish>>

OtherPage ==
  /\ "recovery" \in used.max.kinds /\ NewJob("sub") /\ used' = [used EXCEPT !.jobs = @ + 1]
  /\ UNCHANGED <<m, fl, cans, wish>>

Restart ==
  /\ used.faults < used.max.faults /\ used' = [used EXCEPT !.faults = @ + 1]
  /\ jobs' = [j \in Jobs |-> IF jobs[j].status = "none" THEN jobs[j] ELSE [jobs[j] EXCEPT !.status = "gone"]]
  /\ UNCHANGED <<m, fl, cans, wish>>

User == \/ StartMeasurement \/ (\E t \in Tasks : StartTask(t)) \/ RecoverAutoSubJob
        \/ OpenWizard \/ RunWizard \/ CloseWizard \/ CancelButton

FlowStep(n) == \/ StartReaches(n) \/ StartAnswered(n) \/ Poll(n) \/ PollAnswered(n)
               \/ Post(n) \/ NextStep(n) \/ Found(n)

Fault == \/ \E n \in Flows : StartFails(n) \/ PollFails(n) \/ TimedOut(n)
         \/ (\E c \in cans : CancelFails(c)) \/ Restart

Next ==
  \/ User \/ Fault \/ OtherPage
  \/ \E n \in Flows : FlowStep(n)
  \/ \E c \in cans : CancelReaches(c) \/ CancelAnswered(c)
  \/ \E j \in Jobs : JobEnds(j) \/ CancelEndsJob(j)

\* Requests are answered and loops go on; a job ends when it is cancelled, and in
\* some instances also by itself.
Fairness ==
  /\ \A n \in Flows : WF_vars(FlowStep(n))
  /\ WF_vars(\E c \in cans : CancelReaches(c) \/ CancelAnswered(c))
  /\ WF_vars(\E j \in Jobs : CancelEndsJob(j))
  /\ WF_vars(used.max.ends /\ \E j \in Jobs : JobEnds(j))

Spec == Init /\ [][Next]_vars /\ Fairness

-----------------------------------------------------------------------------
\* While a run of the page waits for its start or is polled as the current one, the
\* page offers Cancel and not Start: no end of an older run hides a newer one.
Running(f) == \/ f.pc \in {"starting", "started", "next"}
              \/ f.pc \in {"wait", "poll", "asked"} /\ Current(m, f)
RunIsMarked == (\E n \in Flows : Running(fl[n])) => ~Idle(m)

\* The page never has two start requests under way: startInFlight and the flags of
\* the tasks and the wizard exclude each other.
OneStart == Cardinality({n \in Flows : fl[n].pc \in {"starting", "started"}}) <= 1

\* A result that appears is never the one of a run that a newer sweep has replaced.
LatestResult ==
  [][m'.shown # m.shown => \A n \in Flows : fl'[n] # fl[n]
       => \A k \in Flows : k > n => fl[k].type # "sweep"]_vars

\* Speaker Align never leaves a job running that it does not poll any more, unless
\* the request to cancel it failed.
NoOrphanAlign ==
  \A n \in Flows : fl[n].type = "align" /\ fl[n].pc = "off" /\ fl[n].job # 0 /\ fl[n].got # "lost"
    => jobs[fl[n].job].status # "running"

\* A click on Cancel ends the run, whenever it comes: before the job is known, while
\* it is polled, or between two sweeps of the wizard, when the requests get through.
CancelEnds == (wish /\ used.max.faults = 0) ~> (~wish \/ Idle(m))


\* What holds of the runs at every moment, in any mixture: a run under way can always
\* be cancelled, starts exclude each other, and no aligning job is left behind.  A sweep
\* that ends may still clear the kind an Auto Sub run has set (measurement_capture.js
\* lines 187-196); the run then ends early, but never unseen.
RunsSafe == TypeOK /\ RunIsMarked /\ OneStart /\ NoOrphanAlign
=============================================================================
