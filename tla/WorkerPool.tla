------------------------------ MODULE WorkerPool ------------------------------
(***************************************************************************)
(* The DSP engine's helper threads (native_dsp/worker_pool.c): one caller  *)
(* (the audio callback) hands a batch of jobs to N helpers and itself, and *)
(* returns when all helpers are drained.  Caller and helpers meet only in  *)
(* two futex words per helper, "command" and "done"; every load, store,    *)
(* futex wait and futex wake is a step of its own.  Atomics are modelled   *)
(* as sequentially consistent; the plain fields (jobs, function, context)  *)
(* are read where the code reads them.                                     *)
(***************************************************************************)
EXTENDS Integers

CONSTANTS
  N,          \* policy.count: number of helper threads
  JobCounts,  \* the values of "jobs" a caller passes to fx_workers_run
  W,          \* modulus of the 32-bit futex words
  MaxRuns     \* bound: parallel runs during the life of one pool

ASSUME PoolAssumption ==
  /\ N \in Nat \ {0}
  /\ W \in Nat /\ W > 2
  /\ MaxRuns \in Nat
  /\ JobCounts \subseteq Nat

VARIABLES
  cpc, ci, cjob, cdone,         \* the caller: step, loop index, own job, value last read from "done"
  wpc, cmd, previous, wjob,     \* per helper: step and the locals of worker_main
  command, done,                \* per helper: the two futex words
  stop, sequence, jobs, started,\* fields of struct fx_workers
  batch, times, runs            \* history: jobs of this batch, executions of each, parallel runs so far

caller  == <<cpc, ci, cjob, cdone>>
helper  == <<wpc, cmd, previous, wjob>>
words   == <<command, done>>
pool    == <<stop, sequence, jobs, started>>
history == <<batch, times, runs>>
vars    == <<caller, helper, words, pool, history>>

Lanes == 1..N
Word  == 0..(W - 1)

\* Jobs a batch can hold at all, for the history variable.
AllJobs == UNION {0..(n - 1) : n \in JobCounts}

\* The lanes that fx_workers_run wakes for a batch of n jobs.
Active(n) == IF n - 1 < N THEN n - 1 ELSE N

CallerSteps == {"create", "handshake", "hsasleep", "admit", "ready",
                "publish", "pubwake", "own", "barrier", "bwait", "basleep", "return",
                "bump", "bumpwake", "join", "freed"}
HelperSteps == {"none", "boot", "bootwake", "load", "test", "wait", "asleep",
                "gate", "run", "store", "wake", "exit"}

TypeOK ==
  /\ cpc \in CallerSteps /\ ci \in 1..(N + 1) /\ cjob \in Nat /\ cdone \in Word
  /\ wpc \in [Lanes -> HelperSteps] /\ cmd \in [Lanes -> Word]
  /\ previous \in [Lanes -> Word] /\ wjob \in [Lanes -> Nat]
  /\ command \in [Lanes -> Word] /\ done \in [Lanes -> Word]
  /\ stop \in BOOLEAN /\ sequence \in Word /\ jobs \in Nat /\ started \in 0..N
  /\ batch \in Nat /\ times \in [AllJobs -> Nat] /\ runs \in 0..MaxRuns

Init ==
  /\ cpc = "create" /\ ci = 1 /\ cjob = 0 /\ cdone = 0
  /\ wpc = [l \in Lanes |-> "none"] /\ cmd = [l \in Lanes |-> 0]
  /\ previous = [l \in Lanes |-> 0] /\ wjob = [l \in Lanes |-> 0]
  /\ command = [l \in Lanes |-> 0] /\ done = [l \in Lanes |-> 0]
  /\ stop = FALSE /\ sequence = 1 /\ jobs = 0 /\ started = 0
  /\ batch = 0 /\ times = [j \in AllJobs |-> 0] /\ runs = 0

-----------------------------------------------------------------------------
(* fx_workers_create *)

\* The thread of lane ci is created, or cannot be: then the failure path destroys
\* the helpers started so far.
CreateThread ==
  /\ cpc = "create"
  /\ \/ /\ started' = started + 1
        /\ wpc' = [wpc EXCEPT ![ci] = "boot"]
        /\ cpc' = "handshake" /\ UNCHANGED <<ci, stop>>
     \/ /\ cpc' = "bump" /\ ci' = 1 /\ stop' = TRUE
        /\ UNCHANGED <<started, wpc>>
  /\ UNCHANGED <<cjob, cdone, cmd, previous, wjob, words, sequence, jobs, history>>

\* while (!done) wait_word(&done, 0): the kernel compares and sleeps atomically.
\* Before the helper's store the word is 0, so the load and the futex call see the
\* same value unless the store falls between them.
AwaitHandshake ==
  /\ cpc = "handshake"
  /\ cpc' = IF done[ci] = 0 THEN "hsasleep" ELSE "admit"
  /\ UNCHANGED <<ci, cjob, cdone, helper, words, pool, history>>

\* Floating-point environment, scheduler admission and its deadline: either the
\* helper is admitted, or the pool is destroyed.
Admit ==
  /\ cpc = "admit"
  /\ \/ /\ ci < N /\ cpc' = "create" /\ ci' = ci + 1 /\ UNCHANGED stop
     \/ /\ ci = N /\ cpc' = "ready" /\ ci' = 1 /\ UNCHANGED stop
     \/ /\ cpc' = "bump" /\ ci' = 1 /\ stop' = TRUE
  /\ UNCHANGED <<cjob, cdone, helper, words, sequence, jobs, started, history>>

-----------------------------------------------------------------------------
(* fx_workers_run *)

\* jobs < 2, or the caller's floating-point environment cannot be read: every
\* job runs on the caller and no helper is woken.
RunSerial(n) ==
  /\ cpc = "ready"
  /\ batch' = n /\ times' = [j \in AllJobs |-> IF j < n THEN 1 ELSE 0]
  /\ cpc' = "return"
  /\ UNCHANGED <<ci, cjob, cdone, helper, words, pool, runs>>

\* A batch: a new sequence number, then the fields the helpers will read.
StartRun(n) ==
  /\ cpc = "ready" /\ n >= 2 /\ runs < MaxRuns
  /\ sequence' = (sequence + 1) % W
  /\ jobs' = n /\ runs' = runs + 1
  /\ batch' = n /\ times' = [j \in AllJobs |-> 0]
  /\ cpc' = "publish" /\ ci' = 1
  /\ UNCHANGED <<cjob, cdone, helper, words, stop, started>>

Publish ==
  /\ cpc = "publish"
  /\ command' = [command EXCEPT ![ci] = sequence]
  /\ cpc' = "pubwake"
  /\ UNCHANGED <<ci, cjob, cdone, helper, done, pool, history>>

\* wake_word(&command): a helper asleep in the kernel goes back to its load.
Woken(l) == [wpc EXCEPT ![l] = IF @ = "asleep" THEN "load" ELSE @]

PublishWake ==
  /\ cpc = "pubwake"
  /\ wpc' = Woken(ci)
  /\ IF ci < Active(jobs) THEN cpc' = "publish" /\ ci' = ci + 1
                          ELSE cpc' = "own" /\ ci' = 1
  /\ cjob' = 0
  /\ UNCHANGED <<cdone, cmd, previous, wjob, words, pool, history>>

\* The caller's own share: jobs 0, N+1, 2(N+1), ...
OwnJob ==
  /\ cpc = "own"
  /\ IF cjob < jobs
     THEN /\ times' = [times EXCEPT ![cjob] = @ + 1]
          /\ cjob' = cjob + N + 1 /\ UNCHANGED cpc
     ELSE cpc' = "barrier" /\ UNCHANGED <<times, cjob>>
  /\ UNCHANGED <<ci, cdone, helper, words, pool, batch, runs>>

\* Mutant: off by one, the last active lane is not awaited.
BarrierShort ==
  /\ cpc = "barrier"
  /\ cdone' = done[ci]
  /\ IF ci >= Active(jobs) THEN cpc' = "return" /\ ci' = 1
     ELSE IF done[ci] # sequence THEN cpc' = "bwait" /\ UNCHANGED ci
     ELSE cpc' = "barrier" /\ ci' = ci + 1
  /\ UNCHANGED <<cjob, helper, words, pool, history>>

\* The barrier: load done; on another value sleep on exactly that value.
Barrier ==
  /\ cpc = "barrier"
  /\ cdone' = done[ci]
  /\ IF done[ci] # sequence THEN cpc' = "bwait" /\ UNCHANGED ci
     ELSE IF ci < Active(jobs) THEN cpc' = "barrier" /\ ci' = ci + 1
     ELSE cpc' = "return" /\ ci' = 1
  /\ UNCHANGED <<cjob, helper, words, pool, history>>

BarrierWait ==
  /\ cpc = "bwait"
  /\ cpc' = IF done[ci] = cdone THEN "basleep" ELSE "barrier"
  /\ UNCHANGED <<ci, cjob, cdone, helper, words, pool, history>>

Return ==
  /\ cpc = "return" /\ cpc' = "ready"
  /\ UNCHANGED <<ci, cjob, cdone, helper, words, pool, history>>

-----------------------------------------------------------------------------
(* fx_workers_destroy *)

Destroy ==
  /\ cpc = "ready"
  /\ stop' = TRUE /\ cpc' = "bump" /\ ci' = 1
  /\ UNCHANGED <<cjob, cdone, helper, words, sequence, jobs, started, history>>

BumpCommand ==
  /\ cpc = "bump"
  /\ IF ci <= started
     THEN /\ command' = [command EXCEPT ![ci] = (@ + 1) % W]
          /\ cpc' = "bumpwake" /\ UNCHANGED ci
     ELSE cpc' = "join" /\ ci' = 1 /\ UNCHANGED command
  /\ UNCHANGED <<cjob, cdone, helper, done, pool, history>>

BumpWake ==
  /\ cpc = "bumpwake"
  /\ wpc' = Woken(ci)
  /\ cpc' = "bump" /\ ci' = ci + 1
  /\ UNCHANGED <<cjob, cdone, cmd, previous, wjob, words, pool, history>>

\* Mutant: the last started helper is not joined.
JoinShort ==
  /\ cpc = "join"
  /\ IF ci < started THEN wpc[ci] = "exit" /\ ci' = ci + 1 /\ UNCHANGED cpc
                     ELSE cpc' = "freed" /\ UNCHANGED ci
  /\ UNCHANGED <<cjob, cdone, helper, words, pool, history>>

Join ==
  /\ cpc = "join"
  /\ IF ci <= started THEN wpc[ci] = "exit" /\ ci' = ci + 1 /\ UNCHANGED cpc
                      ELSE cpc' = "freed" /\ UNCHANGED ci
  /\ UNCHANGED <<cjob, cdone, helper, words, pool, history>>

-----------------------------------------------------------------------------
(* worker_main *)

\* wake_word(&done) of lane l: the caller, if it sleeps on that word, reloads it.
CallerWoken(l) ==
  cpc' = CASE cpc = "hsasleep" /\ ci = l -> "handshake"
           [] cpc = "basleep" /\ ci = l -> "barrier"
           [] OTHER -> cpc

\* The initialization handshake: done = 1.
Boot(l) ==
  /\ wpc[l] = "boot"
  /\ done' = [done EXCEPT ![l] = 1]
  /\ wpc' = [wpc EXCEPT ![l] = "bootwake"]
  /\ UNCHANGED <<caller, cmd, previous, wjob, command, pool, history>>

WakeCaller(l) ==
  /\ wpc[l] \in {"bootwake", "wake"}
  /\ CallerWoken(l)
  /\ wpc' = [wpc EXCEPT ![l] = "load"]
  /\ UNCHANGED <<ci, cjob, cdone, cmd, previous, wjob, words, pool, history>>

Load(l) ==
  /\ wpc[l] = "load"
  /\ cmd' = [cmd EXCEPT ![l] = command[l]]
  /\ wpc' = [wpc EXCEPT ![l] = "test"]
  /\ UNCHANGED <<caller, previous, wjob, words, pool, history>>

\* while (command == previous && !stop)
Test(l) ==
  /\ wpc[l] = "test"
  /\ wpc' = [wpc EXCEPT ![l] = IF cmd[l] = previous[l] /\ ~stop THEN "wait" ELSE "gate"]
  /\ UNCHANGED <<caller, cmd, previous, wjob, words, pool, history>>

\* Mutant: the kernel does not compare the word before it puts the helper to sleep.
FutexWaitBlind(l) ==
  /\ wpc[l] = "wait"
  /\ wpc' = [wpc EXCEPT ![l] = "asleep"]
  /\ UNCHANGED <<caller, cmd, previous, wjob, words, pool, history>>

\* wait_word(&command, previous): sleeps only if the word still is previous.
FutexWait(l) ==
  /\ wpc[l] = "wait"
  /\ wpc' = [wpc EXCEPT ![l] = IF command[l] = previous[l] THEN "asleep" ELSE "load"]
  /\ UNCHANGED <<caller, cmd, previous, wjob, words, pool, history>>

\* if (stop) break;
Gate(l) ==
  /\ wpc[l] = "gate"
  /\ wpc' = [wpc EXCEPT ![l] = IF stop THEN "exit" ELSE "run"]
  /\ wjob' = [wjob EXCEPT ![l] = l]
  /\ UNCHANGED <<caller, cmd, previous, words, pool, history>>

\* Mutant: the helper forgets which command it has served.
RunJobForgets(l) ==
  /\ wpc[l] = "run"
  /\ IF wjob[l] < jobs
     THEN /\ times' = [times EXCEPT ![wjob[l]] = @ + 1]
          /\ wjob' = [wjob EXCEPT ![l] = @ + N + 1]
          /\ UNCHANGED wpc
     ELSE /\ wpc' = [wpc EXCEPT ![l] = "store"]
          /\ UNCHANGED <<times, wjob>>
  /\ UNCHANGED <<caller, cmd, previous, words, pool, batch, runs>>

\* for (job = lane; job < p->jobs; job += count + 1) function(context, job):
\* p->jobs and p->context are read again in every round.
RunJob(l) ==
  /\ wpc[l] = "run"
  /\ IF wjob[l] < jobs
     THEN /\ times' = [times EXCEPT ![wjob[l]] = @ + 1]
          /\ wjob' = [wjob EXCEPT ![l] = @ + N + 1]
          /\ UNCHANGED <<wpc, previous>>
     ELSE /\ previous' = [previous EXCEPT ![l] = cmd[l]]
          /\ wpc' = [wpc EXCEPT ![l] = "store"]
          /\ UNCHANGED <<times, wjob>>
  /\ UNCHANGED <<caller, cmd, words, pool, batch, runs>>

StoreDone(l) ==
  /\ wpc[l] = "store"
  /\ done' = [done EXCEPT ![l] = cmd[l]]
  /\ wpc' = [wpc EXCEPT ![l] = "wake"]
  /\ UNCHANGED <<caller, cmd, previous, wjob, command, pool, history>>

\* EINTR and spurious returns of the futex call.
SpuriousHelper(l) ==
  /\ wpc[l] = "asleep"
  /\ wpc' = [wpc EXCEPT ![l] = "load"]
  /\ UNCHANGED <<caller, cmd, previous, wjob, words, pool, history>>

SpuriousCaller ==
  /\ \/ cpc = "basleep" /\ cpc' = "barrier"
     \/ cpc = "hsasleep" /\ cpc' = "handshake"
  /\ UNCHANGED <<ci, cjob, cdone, helper, words, pool, history>>

-----------------------------------------------------------------------------
\* The caller's own steps, without its choices (a run, the destruction).
CallerStep ==
  \/ CreateThread \/ AwaitHandshake \/ Admit
  \/ Publish \/ PublishWake \/ OwnJob \/ Barrier \/ BarrierWait \/ Return
  \/ BumpCommand \/ BumpWake \/ Join

HelperStep(l) ==
  \/ Boot(l) \/ WakeCaller(l) \/ Load(l) \/ Test(l) \/ FutexWait(l)
  \/ Gate(l) \/ RunJob(l) \/ StoreDone(l)

Freed == cpc = "freed" /\ UNCHANGED vars

Next ==
  \/ CallerStep
  \/ \E n \in JobCounts : RunSerial(n) \/ StartRun(n)
  \/ Destroy
  \/ \E l \in Lanes : HelperStep(l) \/ SpuriousHelper(l)
  \/ SpuriousCaller
  \/ Freed

Spec == Init /\ [][Next]_vars

\* The scheduler runs every runnable thread; nothing makes a caller start or
\* destroy, and nothing makes a futex call return spuriously.
Fairness == WF_vars(CallerStep) /\ \A l \in Lanes : WF_vars(HelperStep(l))
FairSpec == Spec /\ Fairness

-----------------------------------------------------------------------------
(* Properties *)

InRun == cpc \in {"publish", "pubwake", "own", "barrier", "bwait", "basleep"}

\* worker_pool.h:30: "return drains all helpers before the context or any
\* referenced channel state may be reused": a helper is inside the job loop only
\* while the caller is inside the fx_workers_run that published this batch to that
\* helper's lane, and it answers exactly that batch.
Drained ==
  \A l \in Lanes : wpc[l] \in {"run", "store"} =>
    InRun /\ l <= Active(jobs) /\ cmd[l] = sequence

\* When fx_workers_run returns, every job of the batch has run exactly once, on
\* the caller or on one helper, and no job ran that the batch does not have.
ExactlyOnce ==
  /\ \A j \in AllJobs : times[j] <= (IF j < batch THEN 1 ELSE 0)
  /\ cpc = "return" => \A j \in AllJobs : j < batch => times[j] = 1

\* fx_workers_destroy frees the pool only when no helper thread can touch it again,
\* whichever step of fx_workers_create failed before.
NoUseAfterFree ==
  cpc = "freed" => \A l \in Lanes : wpc[l] \in {"none", "exit"}

\* No wake-up is lost: a batch that was started returns, and a pool that is being
\* destroyed (also by a failed creation) is freed.
RunReturns     == (cpc = "publish") ~> (cpc = "ready")
DestroyEnds    == stop ~> (cpc = "freed")

\* Every call comes back: fx_workers_run and fx_workers_destroy.
CallsReturn == RunReturns /\ DestroyEnds
-----------------------------------------------------------------------------
(* The inductive invariant behind Drained and NoUseAfterFree. *)

\* Fewer batches than values of a word: no sequence number is used twice.
NoWrap == MaxRuns + 1 < W

\* The lanes to which the running fx_workers_run has already stored its sequence.
Published(l) ==
  \/ cpc = "publish" /\ l < ci
  \/ cpc = "pubwake" /\ l <= ci
  \/ cpc \in {"own", "barrier", "bwait", "basleep"} /\ l <= Active(jobs)

\* Where the caller is fixes how many threads exist and whether stop is set.
PhaseInv ==
  /\ sequence = runs + 1
  /\ \A l \in Lanes : (wpc[l] = "none") <=> (l > started)
  /\ cpc = "create" => started = ci - 1 /\ ci <= N
  /\ cpc \in {"handshake", "hsasleep", "admit"} => started = ci
  /\ InRun => jobs >= 2 /\ runs >= 1 /\ ci <= Active(jobs)
  /\ cpc = "own" => ci = 1
  /\ InRun \/ cpc \in {"ready", "return"} => started = N
  /\ stop <=> cpc \in {"bump", "bumpwake", "join", "freed"}
  /\ cpc \in {"bump", "join"} => ci <= started + 1
  /\ cpc = "bumpwake" => ci <= started
  /\ cpc = "join" => \A l \in Lanes : l < ci => wpc[l] = "exit"
  /\ cpc = "freed" => \A l \in Lanes : l <= started => wpc[l] = "exit"

\* A helper with nothing to do: it has answered the last command it was given.
Quiet(l) ==
  /\ command[l] = previous[l]
  /\ wpc[l] \notin {"gate", "run", "store", "exit"}
  /\ wpc[l] = "test" => cmd[l] = previous[l]
  /\ command[l] <= sequence /\ done[l] <= sequence
  /\ InRun => command[l] < sequence /\ done[l] < sequence

\* A helper that has been given the running batch and has not answered it.
Pending(l) ==
  /\ command[l] = sequence /\ previous[l] < sequence /\ done[l] < sequence
  /\ wpc[l] \notin {"store", "exit"}
  /\ wpc[l] \in {"gate", "run"} => cmd[l] = sequence
  /\ wpc[l] = "test" => cmd[l] \in {previous[l], sequence}

Storing(l) ==
  /\ wpc[l] = "store" /\ cmd[l] = sequence /\ done[l] < sequence
  /\ command[l] = sequence /\ previous[l] = sequence

Finished(l) ==
  /\ command[l] = sequence /\ previous[l] = sequence /\ done[l] = sequence
  /\ wpc[l] \in {"wake", "load", "test", "wait", "asleep"}
  /\ wpc[l] = "test" => cmd[l] = sequence

LaneInv(l) ==
  /\ stop => wpc[l] \notin {"run", "store"}
  /\ ~stop /\ ~Published(l) => Quiet(l)
  /\ Published(l) => Pending(l) \/ Storing(l) \/ Finished(l)
  /\ cpc \in {"barrier", "bwait", "basleep"} /\ l < ci => Finished(l)

IInv == TypeOK /\ PhaseInv /\ \A l \in Lanes : LaneInv(l)

-----------------------------------------------------------------------------
(* What ExactlyOnce needs on top: who runs which job, and how far they are. *)

\* The loops stride by N + 1, so job j belongs to lane j % (N + 1), 0 being the caller.
Share(j) == j % (N + 1)

\* Job j of the running batch is behind the loop it belongs to.
Ran(j) ==
  \/ Share(j) = 0 /\ (cpc \in {"barrier", "bwait", "basleep"} \/ (cpc = "own" /\ j < cjob))
  \/ \E l \in Lanes : /\ Share(j) = l
                      /\ previous[l] = sequence \/ (wpc[l] = "run" /\ j < wjob[l])

JobInv ==
  /\ InRun => /\ jobs \in JobCounts /\ batch = jobs
              /\ \A j \in AllJobs : times[j] = IF j < jobs /\ Ran(j) THEN 1 ELSE 0
  /\ ~InRun => \A j \in AllJobs : times[j] <= (IF j < batch THEN 1 ELSE 0)
  /\ cpc = "return" => \A j \in AllJobs : j < batch => times[j] = 1
  /\ cpc = "own" => Share(cjob) = 0
  /\ \A l \in Lanes : wpc[l] = "run" => Share(wjob[l]) = l
=============================================================================
