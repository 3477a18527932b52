--------------------------- MODULE WorkerPoolProof ---------------------------
(***************************************************************************)
(* Proofs about WorkerPool, for any number of helpers, any batch sizes and *)
(* any word size that the number of batches does not wrap.                 *)
(***************************************************************************)
EXTENDS WorkerPool, TLAPS

\* Reduction modulo 2^w yields a word, and keeps what already is one.
LEMMA WordMod == ASSUME NEW x \in Nat PROVE x % W \in Word
  BY PoolAssumption DEF Word

LEMMA WordSmall == ASSUME NEW x \in Word PROVE x % W = x
  BY PoolAssumption DEF Word

\* Adding to one entry of a function into Nat keeps its type.
LEMMA AddType ==
  ASSUME NEW D, NEW f \in [D -> Nat], NEW d, NEW n \in Nat
  PROVE  [f EXCEPT ![d] = @ + n] \in [D -> Nat]
<1>1. d \in D => f[d] + n \in Nat
  OBVIOUS
<1> QED BY <1>1

LEMMA StrideType ==
  ASSUME NEW D, NEW f \in [D -> Nat], NEW d
  PROVE  [f EXCEPT ![d] = @ + N + 1] \in [D -> Nat]
<1>1. d \in D => f[d] + N + 1 \in Nat
  BY PoolAssumption
<1> QED BY <1>1

\* A batch of at least two jobs wakes between one and N helpers.
LEMMA ActiveRange == ASSUME NEW n \in Nat, n >= 2 PROVE Active(n) \in 1..N
  BY PoolAssumption DEF Active

LEMMA RunLanes ==
  ASSUME IInv, InRun
  PROVE  Active(jobs) \in 1..N /\ ci \in 1..Active(jobs) /\ started = N /\ ~stop
  BY ActiveRange DEF IInv, TypeOK, PhaseInv, InRun

\* What the steps below need to know of one lane.
LEMMA LaneFacts ==
  ASSUME IInv, NEW k \in Lanes
  PROVE  /\ k \in Nat /\ k >= 1 /\ k <= N /\ N \in Nat /\ ci \in Nat /\ sequence \in Nat
         /\ command[k] \in Nat /\ previous[k] \in Nat /\ done[k] \in Nat /\ cmd[k] \in Nat
         /\ sequence >= 1
         /\ LaneInv(k)
  BY PoolAssumption DEF IInv, TypeOK, PhaseInv, Lanes, Word

\* The initial state satisfies the invariant.
LEMMA InitInv == ASSUME NoWrap, Init PROVE IInv
<1> USE PoolAssumption
<1>1. TypeOK
  <2>1. 0 \in Word /\ 1 \in Word /\ 1 \in 1..(N + 1) /\ 0 \in 0..N /\ 0 \in 0..MaxRuns
    BY DEF Word
  <2> QED BY <2>1 DEF Init, TypeOK, CallerSteps, HelperSteps
<1>2. PhaseInv
  BY DEF Init, PhaseInv, InRun, Lanes
<1>3. \A l \in Lanes : LaneInv(l)
  BY DEF Init, LaneInv, Published, Quiet, InRun
<1> QED BY <1>1, <1>2, <1>3 DEF IInv

\* Creating a thread, or failing to.
LEMMA CreateThreadInv == ASSUME NoWrap, IInv, CreateThread PROVE IInv'
<1> USE PoolAssumption
<1>1. TypeOK'
  <2>1. ci' \in 1..(N + 1) /\ started' \in 0..N
    BY DEF IInv, TypeOK, PhaseInv, CreateThread
  <2>2. wpc' \in [Lanes -> HelperSteps] /\ cpc' \in CallerSteps /\ stop' \in BOOLEAN
    BY DEF IInv, TypeOK, CreateThread, CallerSteps, HelperSteps
  <2> QED BY <2>1, <2>2 DEF IInv, TypeOK, CreateThread, words, history
<1>2. PhaseInv'
  BY RunLanes DEF IInv, TypeOK, PhaseInv, CreateThread, Lanes, InRun, caller, helper, words, pool, history
<1>3. ASSUME NEW k \in Lanes PROVE LaneInv(k)'
  BY <1>3, LaneFacts, RunLanes DEF IInv, TypeOK, PhaseInv, CreateThread, LaneInv, Published, Quiet, Pending, Storing, Finished, InRun, caller, helper, words, pool, history
<1> QED BY <1>1, <1>2, <1>3 DEF IInv

\* The creation handshake.
LEMMA AwaitHandshakeInv == ASSUME NoWrap, IInv, AwaitHandshake PROVE IInv'
<1> USE PoolAssumption
<1>1. TypeOK'
  BY DEF IInv, TypeOK, AwaitHandshake, CallerSteps, HelperSteps, caller, helper, words, pool, history
<1>2. PhaseInv'
  BY RunLanes DEF IInv, TypeOK, PhaseInv, AwaitHandshake, Lanes, InRun, caller, helper, words, pool, history
<1>3. ASSUME NEW k \in Lanes PROVE LaneInv(k)'
  BY <1>3, LaneFacts, RunLanes DEF IInv, TypeOK, PhaseInv, AwaitHandshake, LaneInv, Published, Quiet, Pending, Storing, Finished, InRun, caller, helper, words, pool, history
<1> QED BY <1>1, <1>2, <1>3 DEF IInv

\* Admission of a helper.
LEMMA AdmitInv == ASSUME NoWrap, IInv, Admit PROVE IInv'
<1> USE PoolAssumption
<1>1. TypeOK'
  <2>1. ci' \in 1..(N + 1)
    BY RunLanes DEF IInv, TypeOK, PhaseInv, Admit, InRun
  <2> QED BY <2>1 DEF IInv, TypeOK, Admit, CallerSteps, HelperSteps, caller, helper, words, pool, history
<1>2. PhaseInv'
  BY RunLanes DEF IInv, TypeOK, PhaseInv, Admit, Lanes, InRun, caller, helper, words, pool, history
<1>3. ASSUME NEW k \in Lanes PROVE LaneInv(k)'
  BY <1>3, LaneFacts, RunLanes DEF IInv, TypeOK, PhaseInv, Admit, LaneInv, Published, Quiet, Pending, Storing, Finished, InRun, caller, helper, words, pool, history
<1> QED BY <1>1, <1>2, <1>3 DEF IInv

\* A serial batch.
LEMMA RunSerialInv == ASSUME NoWrap, IInv, NEW n \in JobCounts, RunSerial(n) PROVE IInv'
<1> USE PoolAssumption
<1>1. TypeOK'
  BY DEF IInv, TypeOK, RunSerial, CallerSteps, HelperSteps, caller, helper, words, pool, history
<1>2. PhaseInv'
  BY RunLanes DEF IInv, TypeOK, PhaseInv, RunSerial, Lanes, InRun, caller, helper, words, pool, history
<1>3. ASSUME NEW k \in Lanes PROVE LaneInv(k)'
  BY <1>3, LaneFacts, RunLanes DEF IInv, TypeOK, PhaseInv, RunSerial, LaneInv, Published, Quiet, Pending, Storing, Finished, InRun, caller, helper, words, pool, history
<1> QED BY <1>1, <1>2, <1>3 DEF IInv

\* A parallel batch takes the next sequence number, greater than every word.
LEMMA StartRunInv == ASSUME NoWrap, IInv, NEW n \in JobCounts, StartRun(n) PROVE IInv'
<1> USE PoolAssumption
<1>1. TypeOK'
  <2>1. n \in Nat /\ runs' \in 0..MaxRuns /\ sequence' \in Word
    BY WordMod DEF IInv, TypeOK, StartRun, Word
  <2> QED BY <2>1 DEF IInv, TypeOK, StartRun, CallerSteps, HelperSteps, caller, helper, words, pool, history
<1>2. PhaseInv'
  <2>1. n \in Nat /\ n >= 2 /\ Active(n) \in 1..N
    BY ActiveRange DEF StartRun
  <2>2. sequence' = sequence + 1
    <3>1. sequence + 1 \in Word
      BY DEF IInv, TypeOK, PhaseInv, StartRun, NoWrap, Word
    <3> QED BY <3>1, WordSmall DEF StartRun
  <2> QED BY <2>1, <2>2 DEF IInv, TypeOK, PhaseInv, StartRun, Lanes, InRun, helper, words
<1>3. ASSUME NEW k \in Lanes PROVE LaneInv(k)'
  <2>1. sequence' = sequence + 1
    <3>1. sequence + 1 \in Word
      BY DEF IInv, TypeOK, PhaseInv, StartRun, NoWrap, Word
    <3> QED BY <3>1, WordSmall DEF StartRun
  <2>2. UNCHANGED <<wpc, cmd, previous, command, done, stop>> /\ cpc' = "publish" /\ ci' = 1 /\ cpc = "ready"
    BY DEF StartRun, helper, words
  <2> QED BY <1>3, <2>1, <2>2, LaneFacts DEF IInv, PhaseInv, LaneInv, Published, Quiet, Pending, Storing, Finished, InRun
<1> QED BY <1>1, <1>2, <1>3 DEF IInv

\* Storing the sequence number into one lane's command.
LEMMA PublishInv == ASSUME NoWrap, IInv, Publish PROVE IInv'
<1> USE PoolAssumption
<1>1. TypeOK'
  BY DEF IInv, TypeOK, Publish, CallerSteps, HelperSteps, caller, helper, words, pool, history
<1>2. PhaseInv'
  BY RunLanes DEF IInv, TypeOK, PhaseInv, Publish, Lanes, InRun, caller, helper, words, pool, history
<1>3. ASSUME NEW k \in Lanes PROVE LaneInv(k)'
  <2>1. /\ UNCHANGED <<wpc, cmd, previous, done, sequence, jobs, stop, ci>>
        /\ cpc = "publish" /\ cpc' = "pubwake"
    BY DEF Publish, helper, pool
  <2>2. Active(jobs) \in 1..N /\ ci \in 1..Active(jobs) /\ ~stop
    BY <2>1, RunLanes DEF InRun
  <2>3. command'[k] = IF k = ci THEN sequence ELSE command[k]
    BY DEF Publish, IInv, TypeOK
  <2> QED BY <1>3, <2>1, <2>2, <2>3, LaneFacts DEF LaneInv, Published, Quiet, Pending, Storing, Finished, InRun
<1> QED BY <1>1, <1>2, <1>3 DEF IInv

\* Waking the lane that was published to.
LEMMA PublishWakeInv == ASSUME NoWrap, IInv, PublishWake PROVE IInv'
<1> USE PoolAssumption
<1>1. TypeOK'
  <2>1. ci' \in 1..(N + 1)
    BY RunLanes DEF IInv, TypeOK, PhaseInv, PublishWake, InRun
  <2> QED BY <2>1 DEF IInv, TypeOK, PublishWake, Woken, CallerSteps, HelperSteps, caller, helper, words, pool, history
<1>2. PhaseInv'
  BY RunLanes DEF IInv, TypeOK, PhaseInv, PublishWake, Woken, Lanes, InRun, caller, helper, words, pool, history
<1>3. ASSUME NEW k \in Lanes PROVE LaneInv(k)'
  <2>1. UNCHANGED <<cmd, previous, command, done, sequence, jobs, stop>> /\ cpc = "pubwake"
    BY DEF PublishWake, words, pool
  <2>2. Active(jobs) \in 1..N /\ ci \in 1..Active(jobs) /\ ~stop
    BY <2>1, RunLanes DEF InRun
  <2>3. wpc'[k] = wpc[k] \/ (wpc[k] = "asleep" /\ wpc'[k] = "load")
    BY DEF PublishWake, Woken, IInv, TypeOK
  <2>4. \/ cpc' = "publish" /\ ci' = ci + 1
        \/ cpc' = "own" /\ ci' = 1 /\ ci = Active(jobs)
    BY <2>2 DEF PublishWake
  <2> QED BY <1>3, <2>1, <2>2, <2>3, <2>4, LaneFacts DEF LaneInv, Published, Quiet, Pending, Storing, Finished, InRun
<1> QED BY <1>1, <1>2, <1>3 DEF IInv

\* The caller's own jobs.
LEMMA OwnJobInv == ASSUME NoWrap, IInv, OwnJob PROVE IInv'
<1> USE PoolAssumption
<1>1. TypeOK'
  <2>1. cjob' \in Nat /\ times' \in [AllJobs -> Nat]
    BY AddType DEF IInv, TypeOK, OwnJob
  <2> QED BY <2>1 DEF IInv, TypeOK, OwnJob, CallerSteps, HelperSteps, caller, helper, words, pool, history
<1>2. PhaseInv'
  BY RunLanes DEF IInv, TypeOK, PhaseInv, OwnJob, Lanes, InRun, caller, helper, words, pool, history
<1>3. ASSUME NEW k \in Lanes PROVE LaneInv(k)'
  <2>1. /\ UNCHANGED <<wpc, cmd, previous, command, done, sequence, jobs, stop, ci>>
        /\ cpc = "own" /\ cpc' \in {"own", "barrier"} /\ ci = 1
    BY DEF OwnJob, helper, words, pool, IInv, PhaseInv
  <2> QED BY <1>3, <2>1, LaneFacts DEF LaneInv, Published, Quiet, Pending, Storing, Finished, InRun
<1> QED BY <1>1, <1>2, <1>3 DEF IInv

\* The barrier passes a lane only if that lane has answered this batch.
LEMMA BarrierInv == ASSUME NoWrap, IInv, Barrier PROVE IInv'
<1> USE PoolAssumption
<1>1. TypeOK'
  <2>1. ci' \in 1..(N + 1) /\ cdone' \in Word
    <3>1. /\ Active(jobs) \in 1..N /\ ci \in 1..Active(jobs) /\ N \in Nat
          /\ done \in [Lanes -> Word]
      BY RunLanes DEF IInv, TypeOK, Barrier, InRun
    <3>2. ci \in Lanes /\ ci + 1 \in 1..(N + 1) /\ ci \in 1..(N + 1) /\ 1 \in 1..(N + 1)
      BY <3>1 DEF Lanes
    <3>3. ci' \in {ci, ci + 1, 1} /\ cdone' = done[ci]
      BY DEF Barrier
    <3> QED BY <3>1, <3>2, <3>3
  <2> QED BY <2>1 DEF IInv, TypeOK, Barrier, CallerSteps, HelperSteps, caller, helper, words, pool, history
<1>2. PhaseInv'
  <2>1. /\ UNCHANGED <<wpc, jobs, sequence, runs, started, stop>>
        /\ cpc = "barrier" /\ cpc' \in {"bwait", "barrier", "return"}
    BY DEF Barrier, helper, words, pool, history
  <2>2. cpc' # "return" => ci' <= Active(jobs)
    BY RunLanes DEF IInv, TypeOK, PhaseInv, Barrier, Lanes, InRun
  <2> QED BY <2>1, <2>2 DEF IInv, PhaseInv, InRun, Active
<1>3. ASSUME NEW k \in Lanes PROVE LaneInv(k)'
  <2>1. UNCHANGED <<wpc, cmd, previous, command, done, sequence, jobs, stop>> /\ cpc = "barrier"
    BY DEF Barrier, helper, words, pool
  <2>2. Active(jobs) \in 1..N /\ ci \in 1..Active(jobs) /\ ~stop
    BY <2>1, RunLanes DEF InRun
  <2>3. done[ci] = sequence => Finished(ci)
    BY <2>1, <2>2, LaneFacts DEF LaneInv, Published, Quiet, Pending, Storing, Finished, InRun, Lanes
  <2> QED BY <1>3, <2>1, <2>2, <2>3, LaneFacts DEF Barrier, LaneInv, Published, Quiet, Pending, Storing, Finished, InRun
<1> QED BY <1>1, <1>2, <1>3 DEF IInv

\* Sleeping at the barrier.
LEMMA BarrierWaitInv == ASSUME NoWrap, IInv, BarrierWait PROVE IInv'
<1> USE PoolAssumption
<1>1. TypeOK'
  BY DEF IInv, TypeOK, BarrierWait, CallerSteps, HelperSteps, caller, helper, words, pool, history
<1>2. PhaseInv'
  BY RunLanes DEF IInv, TypeOK, PhaseInv, BarrierWait, Lanes, InRun, caller, helper, words, pool, history
<1>3. ASSUME NEW k \in Lanes PROVE LaneInv(k)'
  BY <1>3, LaneFacts, RunLanes DEF IInv, TypeOK, PhaseInv, BarrierWait, LaneInv, Published, Quiet, Pending, Storing, Finished, InRun, caller, helper, words, pool, history
<1> QED BY <1>1, <1>2, <1>3 DEF IInv

\* Returning from the run.
LEMMA ReturnInv == ASSUME NoWrap, IInv, Return PROVE IInv'
<1> USE PoolAssumption
<1>1. TypeOK'
  BY DEF IInv, TypeOK, Return, CallerSteps, HelperSteps, caller, helper, words, pool, history
<1>2. PhaseInv'
  BY RunLanes DEF IInv, TypeOK, PhaseInv, Return, Lanes, InRun, caller, helper, words, pool, history
<1>3. ASSUME NEW k \in Lanes PROVE LaneInv(k)'
  BY <1>3, LaneFacts, RunLanes DEF IInv, TypeOK, PhaseInv, Return, LaneInv, Published, Quiet, Pending, Storing, Finished, InRun, caller, helper, words, pool, history
<1> QED BY <1>1, <1>2, <1>3 DEF IInv

\* Requesting destruction.
LEMMA DestroyInv == ASSUME NoWrap, IInv, Destroy PROVE IInv'
<1> USE PoolAssumption
<1>1. TypeOK'
  <2>1. ci' \in 1..(N + 1)
    BY RunLanes DEF IInv, TypeOK, PhaseInv, Destroy, InRun
  <2> QED BY <2>1 DEF IInv, TypeOK, Destroy, CallerSteps, HelperSteps, caller, helper, words, pool, history
<1>2. PhaseInv'
  BY RunLanes DEF IInv, TypeOK, PhaseInv, Destroy, Lanes, InRun, caller, helper, words, pool, history
<1>3. ASSUME NEW k \in Lanes PROVE LaneInv(k)'
  BY <1>3, LaneFacts, RunLanes DEF IInv, TypeOK, PhaseInv, Destroy, LaneInv, Published, Quiet, Pending, Storing, Finished, InRun, caller, helper, words, pool, history
<1> QED BY <1>1, <1>2, <1>3 DEF IInv

\* Changing a command word so that a sleeping helper is not left behind.
LEMMA BumpCommandInv == ASSUME NoWrap, IInv, BumpCommand PROVE IInv'
<1> USE PoolAssumption
<1>1. TypeOK'
  <2>1. ci' \in 1..(N + 1)
    BY DEF IInv, TypeOK, PhaseInv, BumpCommand
  <2>2. command' \in [Lanes -> Word]
    <3>1. ci \in Lanes => (command[ci] + 1) % W \in Word
      BY WordMod DEF IInv, TypeOK, Word
    <3> QED BY <3>1 DEF IInv, TypeOK, BumpCommand
  <2> QED BY <2>1, <2>2 DEF IInv, TypeOK, BumpCommand, CallerSteps, HelperSteps, caller, helper, words, pool, history
<1>2. PhaseInv'
  BY RunLanes DEF IInv, TypeOK, PhaseInv, BumpCommand, Lanes, InRun, caller, helper, words, pool, history
<1>3. ASSUME NEW k \in Lanes PROVE LaneInv(k)'
  BY <1>3, LaneFacts, RunLanes DEF IInv, TypeOK, PhaseInv, BumpCommand, LaneInv, Published, Quiet, Pending, Storing, Finished, InRun, caller, helper, words, pool, history
<1> QED BY <1>1, <1>2, <1>3 DEF IInv

\* Waking it.
LEMMA BumpWakeInv == ASSUME NoWrap, IInv, BumpWake PROVE IInv'
<1> USE PoolAssumption
<1>1. TypeOK'
  <2>1. ci' \in 1..(N + 1)
    BY RunLanes DEF IInv, TypeOK, PhaseInv, BumpWake, InRun
  <2> QED BY <2>1 DEF IInv, TypeOK, BumpWake, Woken, CallerSteps, HelperSteps, caller, helper, words, pool, history
<1>2. PhaseInv'
  BY RunLanes DEF IInv, TypeOK, PhaseInv, BumpWake, Woken, Lanes, InRun, caller, helper, words, pool, history
<1>3. ASSUME NEW k \in Lanes PROVE LaneInv(k)'
  BY <1>3, LaneFacts, RunLanes DEF IInv, TypeOK, PhaseInv, BumpWake, Woken, LaneInv, Published, Quiet, Pending, Storing, Finished, InRun, caller, helper, words, pool, history
<1> QED BY <1>1, <1>2, <1>3 DEF IInv

\* Joining the helpers.
LEMMA JoinInv == ASSUME NoWrap, IInv, Join PROVE IInv'
<1> USE PoolAssumption
<1>1. TypeOK'
  <2>1. ci' \in 1..(N + 1)
    BY RunLanes DEF IInv, TypeOK, PhaseInv, Join, InRun
  <2> QED BY <2>1 DEF IInv, TypeOK, Join, CallerSteps, HelperSteps, caller, helper, words, pool, history
<1>2. PhaseInv'
  BY RunLanes DEF IInv, TypeOK, PhaseInv, Join, Lanes, InRun, caller, helper, words, pool, history
<1>3. ASSUME NEW k \in Lanes PROVE LaneInv(k)'
  BY <1>3, LaneFacts, RunLanes DEF IInv, TypeOK, PhaseInv, Join, LaneInv, Published, Quiet, Pending, Storing, Finished, InRun, caller, helper, words, pool, history
<1> QED BY <1>1, <1>2, <1>3 DEF IInv

\* A spurious return of the caller's futex wait.
LEMMA SpuriousCallerInv == ASSUME NoWrap, IInv, SpuriousCaller PROVE IInv'
<1> USE PoolAssumption
<1>1. TypeOK'
  BY DEF IInv, TypeOK, SpuriousCaller, CallerSteps, HelperSteps, caller, helper, words, pool, history
<1>2. PhaseInv'
  BY RunLanes DEF IInv, TypeOK, PhaseInv, SpuriousCaller, Lanes, InRun, caller, helper, words, pool, history
<1>3. ASSUME NEW k \in Lanes PROVE LaneInv(k)'
  BY <1>3, LaneFacts, RunLanes DEF IInv, TypeOK, PhaseInv, SpuriousCaller, LaneInv, Published, Quiet, Pending, Storing, Finished, InRun, caller, helper, words, pool, history
<1> QED BY <1>1, <1>2, <1>3 DEF IInv

\* The helper's first store.
LEMMA BootInv == ASSUME NoWrap, IInv, NEW l \in Lanes, Boot(l) PROVE IInv'
<1> USE PoolAssumption
<1>1. TypeOK'
  <2>1. done' \in [Lanes -> Word]
    <3>1. 1 \in Word
      BY DEF Word
    <3> QED BY <3>1 DEF IInv, TypeOK, Boot
  <2> QED BY <2>1 DEF IInv, TypeOK, Boot, CallerSteps, HelperSteps, caller, helper, words, pool, history
<1>2. PhaseInv'
  BY RunLanes DEF IInv, TypeOK, PhaseInv, Boot, Lanes, InRun, caller, helper, words, pool, history
<1>3. ASSUME NEW k \in Lanes PROVE LaneInv(k)'
  <2>1. /\ UNCHANGED <<cpc, ci, cmd, previous, command, sequence, jobs, stop>>
        /\ done'[k] = IF k = l THEN 1 ELSE done[k]
        /\ wpc'[k] = IF k = l THEN "bootwake" ELSE wpc[k]
        /\ wpc[l] = "boot"
    BY DEF Boot, caller, pool, IInv, TypeOK
  <2>2. InRun => sequence > 1
    BY DEF IInv, TypeOK, PhaseInv
  <2> QED BY <1>3, <2>1, <2>2, LaneFacts DEF LaneInv, Published, Quiet, Pending, Storing, Finished, InRun
<1> QED BY <1>1, <1>2, <1>3 DEF IInv

\* Waking the caller.
LEMMA WakeCallerInv == ASSUME NoWrap, IInv, NEW l \in Lanes, WakeCaller(l) PROVE IInv'
<1> USE PoolAssumption
<1>1. TypeOK'
  BY DEF IInv, TypeOK, WakeCaller, CallerWoken, CallerSteps, HelperSteps, caller, helper, words, pool, history
<1>2. PhaseInv'
  BY RunLanes DEF IInv, TypeOK, PhaseInv, WakeCaller, CallerWoken, Lanes, InRun, caller, helper, words, pool, history
<1>3. ASSUME NEW k \in Lanes PROVE LaneInv(k)'
  <2>1. /\ UNCHANGED <<ci, cmd, previous, command, done, sequence, jobs, stop>>
        /\ wpc'[k] = IF k = l THEN "load" ELSE wpc[k]
        /\ wpc[l] \in {"bootwake", "wake"}
    BY DEF WakeCaller, words, pool, IInv, TypeOK
  <2>2. \/ cpc' = cpc
        \/ cpc = "hsasleep" /\ cpc' = "handshake"
        \/ cpc = "basleep" /\ cpc' = "barrier"
    BY DEF WakeCaller, CallerWoken
  <2> QED BY <1>3, <2>1, <2>2, LaneFacts DEF LaneInv, Published, Quiet, Pending, Storing, Finished, InRun
<1> QED BY <1>1, <1>2, <1>3 DEF IInv

\* Loading the command.
LEMMA LoadInv == ASSUME NoWrap, IInv, NEW l \in Lanes, Load(l) PROVE IInv'
<1> USE PoolAssumption
<1>1. TypeOK'
  BY DEF IInv, TypeOK, Load, CallerSteps, HelperSteps, caller, helper, words, pool, history
<1>2. PhaseInv'
  BY RunLanes DEF IInv, TypeOK, PhaseInv, Load, Lanes, InRun, caller, helper, words, pool, history
<1>3. ASSUME NEW k \in Lanes PROVE LaneInv(k)'
  BY <1>3, LaneFacts, RunLanes DEF IInv, TypeOK, PhaseInv, Load, LaneInv, Published, Quiet, Pending, Storing, Finished, InRun, caller, helper, words, pool, history
<1> QED BY <1>1, <1>2, <1>3 DEF IInv

\* The loop condition.
LEMMA TestInv == ASSUME NoWrap, IInv, NEW l \in Lanes, Test(l) PROVE IInv'
<1> USE PoolAssumption
<1>1. TypeOK'
  BY DEF IInv, TypeOK, Test, CallerSteps, HelperSteps, caller, helper, words, pool, history
<1>2. PhaseInv'
  BY RunLanes DEF IInv, TypeOK, PhaseInv, Test, Lanes, InRun, caller, helper, words, pool, history
<1>3. ASSUME NEW k \in Lanes PROVE LaneInv(k)'
  BY <1>3, LaneFacts, RunLanes DEF IInv, TypeOK, PhaseInv, Test, LaneInv, Published, Quiet, Pending, Storing, Finished, InRun, caller, helper, words, pool, history
<1> QED BY <1>1, <1>2, <1>3 DEF IInv

\* The futex wait.
LEMMA FutexWaitInv == ASSUME NoWrap, IInv, NEW l \in Lanes, FutexWait(l) PROVE IInv'
<1> USE PoolAssumption
<1>1. TypeOK'
  BY DEF IInv, TypeOK, FutexWait, CallerSteps, HelperSteps, caller, helper, words, pool, history
<1>2. PhaseInv'
  BY RunLanes DEF IInv, TypeOK, PhaseInv, FutexWait, Lanes, InRun, caller, helper, words, pool, history
<1>3. ASSUME NEW k \in Lanes PROVE LaneInv(k)'
  BY <1>3, LaneFacts, RunLanes DEF IInv, TypeOK, PhaseInv, FutexWait, LaneInv, Published, Quiet, Pending, Storing, Finished, InRun, caller, helper, words, pool, history
<1> QED BY <1>1, <1>2, <1>3 DEF IInv

\* Only a helper with a new command and no stop enters the job loop.
LEMMA GateInv == ASSUME NoWrap, IInv, NEW l \in Lanes, Gate(l) PROVE IInv'
<1> USE PoolAssumption
<1>1. TypeOK'
  <2>1. wjob' \in [Lanes -> Nat]
    BY DEF Lanes, IInv, TypeOK, Gate
  <2> QED BY <2>1 DEF IInv, TypeOK, Gate, CallerSteps, HelperSteps, caller, helper, words, pool, history
<1>2. PhaseInv'
  BY RunLanes DEF IInv, TypeOK, PhaseInv, Gate, Lanes, InRun, caller, helper, words, pool, history
<1>3. ASSUME NEW k \in Lanes PROVE LaneInv(k)'
  BY <1>3, LaneFacts, RunLanes DEF IInv, TypeOK, PhaseInv, Gate, LaneInv, Published, Quiet, Pending, Storing, Finished, InRun, caller, helper, words, pool, history
<1> QED BY <1>1, <1>2, <1>3 DEF IInv

\* Running a job, or leaving the loop.
LEMMA RunJobInv == ASSUME NoWrap, IInv, NEW l \in Lanes, RunJob(l) PROVE IInv'
<1> USE PoolAssumption
<1>1. TypeOK'
  <2>1. wjob' \in [Lanes -> Nat]
    BY StrideType DEF IInv, TypeOK, RunJob
  <2>2. times' \in [AllJobs -> Nat]
    <3>1. times' = times \/ times' = [times EXCEPT ![wjob[l]] = @ + 1]
      BY DEF RunJob
    <3>2. times \in [AllJobs -> Nat]
      BY DEF IInv, TypeOK
    <3> QED BY <3>1, <3>2, AddType
  <2> QED BY <2>1, <2>2 DEF IInv, TypeOK, RunJob, CallerSteps, HelperSteps, caller, helper, words, pool, history
<1>2. PhaseInv'
  BY RunLanes DEF IInv, TypeOK, PhaseInv, RunJob, Lanes, InRun, caller, helper, words, pool, history
<1>3. ASSUME NEW k \in Lanes PROVE LaneInv(k)'
  <2>1. /\ UNCHANGED <<cpc, ci, cmd, command, done, sequence, jobs, stop>>
        /\ wpc[l] = "run"
        /\ \/ wpc'[k] = wpc[k] /\ previous'[k] = previous[k]
           \/ k = l /\ wpc'[k] = "store" /\ previous'[k] = cmd[k]
    BY DEF RunJob, caller, words, pool, IInv, TypeOK
  <2> QED BY <1>3, <2>1, LaneFacts DEF LaneInv, Published, Quiet, Pending, Storing, Finished, InRun
<1> QED BY <1>1, <1>2, <1>3 DEF IInv

\* Answering the batch.
LEMMA StoreDoneInv == ASSUME NoWrap, IInv, NEW l \in Lanes, StoreDone(l) PROVE IInv'
<1> USE PoolAssumption
<1>1. TypeOK'
  BY DEF IInv, TypeOK, StoreDone, CallerSteps, HelperSteps, caller, helper, words, pool, history
<1>2. PhaseInv'
  BY RunLanes DEF IInv, TypeOK, PhaseInv, StoreDone, Lanes, InRun, caller, helper, words, pool, history
<1>3. ASSUME NEW k \in Lanes PROVE LaneInv(k)'
  BY <1>3, LaneFacts, RunLanes DEF IInv, TypeOK, PhaseInv, StoreDone, LaneInv, Published, Quiet, Pending, Storing, Finished, InRun, caller, helper, words, pool, history
<1> QED BY <1>1, <1>2, <1>3 DEF IInv

\* A spurious return of a helper's futex wait.
LEMMA SpuriousHelperInv == ASSUME NoWrap, IInv, NEW l \in Lanes, SpuriousHelper(l) PROVE IInv'
<1> USE PoolAssumption
<1>1. TypeOK'
  BY DEF IInv, TypeOK, SpuriousHelper, CallerSteps, HelperSteps, caller, helper, words, pool, history
<1>2. PhaseInv'
  BY RunLanes DEF IInv, TypeOK, PhaseInv, SpuriousHelper, Lanes, InRun, caller, helper, words, pool, history
<1>3. ASSUME NEW k \in Lanes PROVE LaneInv(k)'
  BY <1>3, LaneFacts, RunLanes DEF IInv, TypeOK, PhaseInv, SpuriousHelper, LaneInv, Published, Quiet, Pending, Storing, Finished, InRun, caller, helper, words, pool, history
<1> QED BY <1>1, <1>2, <1>3 DEF IInv

\* Every step of the pool preserves the invariant.
LEMMA NextInv == ASSUME NoWrap, IInv, [Next]_vars PROVE IInv'
<1>1. CASE CallerStep
  BY <1>1, CreateThreadInv, AwaitHandshakeInv, AdmitInv, PublishInv, PublishWakeInv, OwnJobInv,
     BarrierInv, BarrierWaitInv, ReturnInv, BumpCommandInv, BumpWakeInv, JoinInv DEF CallerStep
<1>2. CASE \E n \in JobCounts : RunSerial(n) \/ StartRun(n)
  BY <1>2, RunSerialInv, StartRunInv
<1>3. CASE \E l \in Lanes : HelperStep(l) \/ SpuriousHelper(l)
  BY <1>3, BootInv, WakeCallerInv, LoadInv, TestInv, FutexWaitInv, GateInv, RunJobInv,
     StoreDoneInv, SpuriousHelperInv DEF HelperStep
<1>4. CASE Destroy \/ SpuriousCaller
  BY <1>4, DestroyInv, SpuriousCallerInv
<1>5. CASE Freed \/ UNCHANGED vars
  BY <1>5 DEF Freed, vars, caller, helper, words, pool, history, IInv, TypeOK, PhaseInv, InRun, LaneInv,
     Published, Quiet, Pending, Storing, Finished
<1> QED BY <1>1, <1>2, <1>3, <1>4, <1>5 DEF Next

\* The invariant holds in every behaviour of the pool that does not wrap its words.
LEMMA Invariance == ASSUME NoWrap PROVE Spec => []IInv
<1>1. Init => IInv
  BY InitInv
<1>2. IInv /\ [Next]_vars => IInv'
  BY NextInv
<1> QED BY <1>1, <1>2, PTL DEF Spec

\* Type correctness of the pool, its caller and its helpers.
THEOREM TypeCorrect == ASSUME NoWrap PROVE Spec => []TypeOK
<1>1. IInv => TypeOK
  BY DEF IInv
<1> QED BY <1>1, Invariance, PTL

\* fx_workers_run returns only when no helper is in the job loop, and a helper in
\* the loop serves the batch that is running: for every number of helpers.
THEOREM DrainedAlways == ASSUME NoWrap PROVE Spec => []Drained
<1>1. ASSUME IInv, NEW l \in Lanes, wpc[l] \in {"run", "store"}
      PROVE  InRun /\ l <= Active(jobs) /\ cmd[l] = sequence
  <2>1. ~stop /\ Published(l) /\ cmd[l] = sequence
    BY <1>1, LaneFacts DEF LaneInv, Quiet, Pending, Storing, Finished
  <2>2. InRun
    BY <2>1 DEF Published, InRun
  <2>3. Active(jobs) \in 1..N /\ ci \in 1..Active(jobs)
    BY <1>1, <2>2, RunLanes
  <2> QED BY <2>1, <2>2, <2>3, LaneFacts, <1>1 DEF Published
<1>2. IInv => Drained
  BY <1>1 DEF Drained
<1> QED BY <1>2, Invariance, PTL

\* fx_workers_destroy frees the pool only after every helper thread has ended.
THEOREM NeverUsedAfterFree == ASSUME NoWrap PROVE Spec => []NoUseAfterFree
<1>1. IInv => NoUseAfterFree
  <2> SUFFICES ASSUME IInv, cpc = "freed", NEW l \in Lanes PROVE wpc[l] \in {"none", "exit"}
    BY DEF NoUseAfterFree
  <2>1. started \in Nat /\ l \in Nat
    BY PoolAssumption DEF IInv, TypeOK, Lanes
  <2> QED BY <2>1 DEF IInv, PhaseInv
<1> QED BY <1>1, Invariance, PTL

-----------------------------------------------------------------------------
(* Every job runs once: the loops of caller and helpers divide the batch. *)

\* Quotient and remainder, and that the remainder is unique.
LEMMA DivMod ==
  ASSUME NEW x \in Nat, NEW n \in Nat, n > 0
  PROVE  x = n * (x \div n) + (x % n) /\ x \div n \in Nat /\ x % n \in 0..(n - 1)
<1>1. x = n * (x \div n) + (x % n)
  OBVIOUS
<1>2. x % n \in 0..(n - 1)
  OBVIOUS
<1>3. x \div n \in Int
  OBVIOUS
<1>4. x \div n >= 0
  <2>1. SUFFICES ASSUME x \div n <= -1 PROVE FALSE
    BY <1>3
  <2>2. n * (x \div n) <= n * (-1)
    BY <1>3, <2>1
  <2> QED BY <1>1, <1>2, <1>3, <2>2
<1> QED BY <1>1, <1>2, <1>3, <1>4

LEMMA NoMultiple ==
  ASSUME NEW k \in Int, NEW n \in Nat, n > 0, -n < k * n, k * n < n
  PROVE  k = 0
  OBVIOUS

LEMMA ModUnique ==
  ASSUME NEW n \in Nat, n > 0, NEW q \in Int, NEW p \in Int,
         NEW r \in 0..(n - 1), NEW s \in 0..(n - 1), n * q + r = n * p + s
  PROVE  r = s
<1>1. (q - p) * n = s - r
  OBVIOUS
<1>2. q - p = 0
  BY <1>1, NoMultiple
<1> QED BY <1>1, <1>2

\* Every job belongs to the caller or to one lane.
LEMMA ShareRange == ASSUME NEW x \in Nat PROVE Share(x) \in 0..N
  BY PoolAssumption DEF Share

\* A loop starts with the job that has the number of its lane ...
LEMMA ShareSmall == ASSUME NEW x \in 0..N PROVE Share(x) = x
  BY PoolAssumption DEF Share

\* ... stays with the jobs of its lane ...
LEMMA ShareStride == ASSUME NEW x \in Nat PROVE Share(x + N + 1) = Share(x)
<1> DEFINE n == N + 1
<1>1. n \in Nat /\ n > 0
  BY PoolAssumption
<1>2. x + n \in Nat
  BY <1>1
<1> HIDE DEF n
<1>3. x = n * (x \div n) + (x % n) /\ x \div n \in Nat /\ x % n \in 0..(n - 1)
  BY <1>1, DivMod
<1>4. /\ x + n = n * ((x + n) \div n) + ((x + n) % n)
      /\ (x + n) \div n \in Nat /\ (x + n) % n \in 0..(n - 1)
  BY <1>1, <1>2, DivMod
<1> DEFINE q == x \div n
           p == (x + n) \div n
           r == x % n
           s == (x + n) % n
<1>5. n * (q + 1) + r = n * p + s
  BY <1>1, <1>3, <1>4
<1>6. q \in Int /\ p \in Int /\ q + 1 \in Int /\ r \in 0..(n - 1) /\ s \in 0..(n - 1)
  BY <1>3, <1>4
<1> HIDE DEF q, p, r, s
<1>7. r = s
  BY <1>1, <1>5, <1>6, ModUnique
<1>8. x + N + 1 = x + n
  BY PoolAssumption DEF n
<1> QED BY <1>7, <1>8 DEF Share, n, r, s

\* ... and skips none of them.
LEMMA ShareGap ==
  ASSUME NEW x \in Nat, NEW y \in Nat, Share(x) = Share(y), x < y
  PROVE  x + N + 1 <= y
<1> DEFINE n == N + 1
<1>1. n \in Nat /\ n > 0
  BY PoolAssumption
<1> HIDE DEF n
<1>2. x = n * (x \div n) + (x % n) /\ x \div n \in Nat /\ x % n \in 0..(n - 1)
  BY <1>1, DivMod
<1>3. y = n * (y \div n) + (y % n) /\ y \div n \in Nat /\ y % n \in 0..(n - 1)
  BY <1>1, DivMod
<1> DEFINE q == x \div n
           p == y \div n
           r == x % n
           s == y % n
<1>4. q \in Int /\ p \in Int /\ r \in Nat /\ s \in Nat /\ x = n * q + r /\ y = n * p + s
  BY <1>1, <1>2, <1>3
<1>5. r = s
  BY DEF Share, n
<1> HIDE DEF q, p, r, s
<1>6. y - x = n * (p - q)
  BY <1>1, <1>4, <1>5
<1>7. n * (p - q) > 0
  BY <1>6
<1>8. p - q >= 1
  BY <1>1, <1>4, <1>7
<1>9. n * (p - q) >= n
  BY <1>1, <1>4, <1>8
<1> QED BY <1>6, <1>9, PoolAssumption DEF n

\* A loop that has run job x and goes on with the next is past x and no other job.
LEMMA ShareNext ==
  ASSUME NEW x \in Nat, NEW j \in Nat, Share(j) = Share(x)
  PROVE  (j < x + N + 1) <=> (j < x \/ j = x)
<1>1. N \in Nat
  BY PoolAssumption
<1>2. CASE x < j
  BY <1>1, <1>2, ShareGap
<1>3. CASE ~(x < j)
  BY <1>1, <1>3
<1> QED BY <1>2, <1>3

\* The jobs of a batch, and the types the steps below use.
LEMMA JobFacts ==
  ASSUME IInv
  PROVE  /\ N \in Nat /\ jobs \in Nat /\ batch \in Nat /\ cjob \in Nat /\ AllJobs \subseteq Nat
         /\ times \in [AllJobs -> Nat] /\ wjob \in [Lanes -> Nat] /\ wpc \in [Lanes -> HelperSteps]
         /\ previous \in [Lanes -> Word] /\ sequence \in Nat
         /\ \A n \in JobCounts : n \in Nat /\ \A j \in Nat : j < n => j \in AllJobs
  BY PoolAssumption DEF IInv, TypeOK, AllJobs, Word

\* Steps that neither start, run nor end anything of the batch.
LEMMA JobPassive ==
  ASSUME JobInv, UNCHANGED <<jobs, batch, times, sequence, previous, wjob>>,
         InRun' <=> InRun, cpc' = "return" => cpc = "return",
         cpc' = "own" <=> cpc = "own", cpc = "own" => cjob' = cjob,
         cpc' \in {"barrier", "bwait", "basleep"} <=> cpc \in {"barrier", "bwait", "basleep"},
         \A l \in Lanes : wpc'[l] = "run" <=> wpc[l] = "run"
  PROVE  JobInv'
<1>1. \A j \in AllJobs : Ran(j)' <=> Ran(j)
  BY DEF Ran
<1> QED BY <1>1 DEF JobInv

LEMMA JobRunSerial ==
  ASSUME IInv, JobInv, NEW n \in JobCounts, RunSerial(n)
  PROVE  JobInv'
<1>1. /\ cpc' = "return" /\ ~InRun' /\ batch' = n /\ UNCHANGED <<wpc, wjob>>
      /\ times' = [j \in AllJobs |-> IF j < n THEN 1 ELSE 0]
  BY DEF RunSerial, InRun, helper
<1> QED BY <1>1, JobFacts DEF JobInv

\* No helper has run anything of a batch that is about to be published.
LEMMA JobStartRun ==
  ASSUME NoWrap, IInv, JobInv, NEW n \in JobCounts, StartRun(n)
  PROVE  JobInv'
<1>1. /\ cpc = "ready" /\ cpc' = "publish" /\ ci' = 1 /\ InRun' /\ jobs' = n /\ batch' = n
      /\ times' = [j \in AllJobs |-> 0] /\ UNCHANGED <<wpc, wjob, previous>>
  BY DEF StartRun, InRun, helper
<1>2. IInv'
  BY StartRunInv
<1>3. \A l \in Lanes : previous'[l] # sequence' /\ wpc'[l] # "run"
  <2> TAKE l \in Lanes
  <2>1. Quiet(l)'
    <3>1. ~Published(l)'
      BY <1>1, PoolAssumption DEF Published, Lanes
    <3> QED BY <1>1, <1>2, <3>1 DEF IInv, PhaseInv, LaneInv
  <2>2. previous[l] \in Nat /\ sequence' \in Nat
    BY <1>2, PoolAssumption, JobFacts DEF IInv, TypeOK, Word
  <2> QED BY <1>1, <2>1, <2>2 DEF Quiet
<1>4. \A j \in AllJobs : ~Ran(j)'
  BY <1>1, <1>3 DEF Ran
<1> QED BY <1>1, <1>3, <1>4 DEF JobInv

\* After the last wake-up the caller begins its own share with job 0.
LEMMA JobPublishWake ==
  ASSUME IInv, JobInv, PublishWake
  PROVE  JobInv'
<1>1. /\ cpc = "pubwake" /\ cjob' = 0 /\ cpc' \in {"publish", "own"}
      /\ UNCHANGED <<jobs, batch, times, sequence, previous, wjob>>
      /\ \A l \in Lanes : wpc'[l] = "run" <=> wpc[l] = "run"
  BY JobFacts DEF PublishWake, Woken, pool, history
<1>2. InRun /\ InRun'
  BY <1>1 DEF InRun
<1>3. \A j \in AllJobs : Ran(j)' <=> Ran(j)
  <2> TAKE j \in AllJobs
  <2>1. ~(j < 0)
    BY JobFacts
  <2> QED BY <1>1, <2>1 DEF Ran
<1>4. Share(0) = 0
  BY JobFacts, ShareSmall
<1> QED BY <1>1, <1>2, <1>3, <1>4 DEF JobInv

LEMMA JobOwn ==
  ASSUME IInv, JobInv, OwnJob
  PROVE  JobInv'
<1>1. /\ cpc = "own" /\ InRun /\ UNCHANGED <<wpc, wjob, previous, sequence, jobs, batch>>
      /\ jobs \in JobCounts /\ batch = jobs /\ Share(cjob) = 0
      /\ \A j \in AllJobs : times[j] = IF j < jobs /\ Ran(j) THEN 1 ELSE 0
  BY DEF OwnJob, InRun, JobInv, helper, pool
<1>2. CASE cjob < jobs
  <2>1. /\ times' = [times EXCEPT ![cjob] = @ + 1] /\ cjob' = cjob + N + 1 /\ cpc' = "own"
    BY <1>1, <1>2 DEF OwnJob
  <2>2. cjob \in AllJobs /\ ~Ran(cjob)
    BY <1>1, <1>2, JobFacts DEF Ran, Lanes
  <2>3. Share(cjob') = 0
    BY <1>1, <2>1, JobFacts, ShareStride
  <2>4. ASSUME NEW j \in AllJobs PROVE Ran(j)' <=> Ran(j) \/ j = cjob
    <3>1. CASE Share(j) = 0
      <4>1. (j < cjob + N + 1) <=> (j < cjob \/ j = cjob)
        BY <1>1, <3>1, JobFacts, ShareNext
      <4> QED BY <1>1, <2>1, <3>1, <4>1 DEF Ran, Lanes
    <3>2. CASE Share(j) # 0
      BY <1>1, <2>1, <3>2 DEF Ran
    <3> QED BY <3>1, <3>2
  <2>5. \A j \in AllJobs : times'[j] = IF j < jobs /\ Ran(j)' THEN 1 ELSE 0
    BY <1>1, <1>2, <2>1, <2>2, <2>4, JobFacts
  <2> QED BY <1>1, <2>1, <2>3, <2>5 DEF JobInv, InRun
<1>3. CASE ~(cjob < jobs)
  <2>1. times' = times /\ cpc' = "barrier"
    BY <1>1, <1>3 DEF OwnJob
  <2>2. ASSUME NEW j \in AllJobs, j < jobs PROVE Ran(j)' <=> Ran(j)
    <3>1. j < cjob
      BY <1>3, <2>2, JobFacts
    <3> QED BY <1>1, <2>1, <3>1 DEF Ran
  <2> QED BY <1>1, <2>1, <2>2 DEF JobInv, InRun
<1> QED BY <1>2, <1>3

\* The barrier is passed when every lane that has jobs is past them.
LEMMA JobBarrier ==
  ASSUME IInv, JobInv, Barrier
  PROVE  JobInv'
<1>1. /\ cpc = "barrier" /\ InRun /\ UNCHANGED <<wpc, wjob, previous, sequence, jobs, batch, times>>
      /\ jobs \in JobCounts /\ batch = jobs
      /\ \A j \in AllJobs : times[j] = IF j < jobs /\ Ran(j) THEN 1 ELSE 0
  BY DEF Barrier, InRun, JobInv, helper, pool, history
<1>2. CASE cpc' # "return"
  <2>1. cpc' \in {"barrier", "bwait"}
    BY <1>2 DEF Barrier
  <2> QED BY <1>1, <2>1, JobPassive DEF InRun
<1>3. CASE cpc' = "return"
  <2>1. done[ci] = sequence /\ ~(ci < Active(jobs))
    BY <1>1, <1>3 DEF Barrier
  <2>2. Active(jobs) \in 1..N /\ ci = Active(jobs)
    BY <1>1, <2>1, RunLanes
  <2>3. ASSUME NEW l \in Lanes, l <= Active(jobs) PROVE previous[l] = sequence
    <3>1. CASE l < ci
      BY <1>1, <3>1, LaneFacts DEF LaneInv, Finished
    <3>2. CASE l = ci
      <4>1. Pending(l) \/ Storing(l) \/ Finished(l)
        BY <1>1, <2>3, LaneFacts DEF LaneInv, Published
      <4> QED BY <2>1, <3>2, <4>1, LaneFacts DEF Pending, Storing, Finished
    <3> QED BY <2>2, <2>3, <3>1, <3>2, LaneFacts
  <2>4. ASSUME NEW j \in AllJobs, j < jobs PROVE Ran(j)
    <3>1. CASE Share(j) = 0
      BY <1>1, <3>1 DEF Ran
    <3>2. CASE Share(j) # 0
      <4>1. j \in Nat /\ Share(j) \in Lanes
        <5>1. j \in Nat /\ N \in Nat
          BY JobFacts
        <5>2. Share(j) \in 0..N
          BY <5>1, ShareRange
        <5> QED BY <3>2, <5>1, <5>2 DEF Lanes
      <4>2. Share(j) <= j
        BY <4>1, JobFacts, ShareSmall DEF Lanes
      <4>3. Share(j) <= Active(jobs)
        BY <2>4, <4>1, <4>2, JobFacts DEF Active, Lanes
      <4> QED BY <2>3, <4>1, <4>3 DEF Ran
    <3> QED BY <3>1, <3>2
  <2> QED BY <1>1, <1>3, <2>4, JobFacts DEF JobInv, InRun
<1> QED BY <1>2, <1>3

\* A helper begins its share with the job that has its number.
LEMMA JobGate ==
  ASSUME IInv, JobInv, NEW l \in Lanes, Gate(l)
  PROVE  JobInv'
<1>1. /\ wpc[l] = "gate" /\ UNCHANGED <<cpc, cjob, previous, sequence, jobs, batch, times>>
      /\ wpc' = [wpc EXCEPT ![l] = IF stop THEN "exit" ELSE "run"] /\ wjob' = [wjob EXCEPT ![l] = l]
  BY DEF Gate, caller, pool, history
<1>2. wjob'[l] = l /\ wpc'[l] \in {"exit", "run"}
      /\ \A k \in Lanes : k # l => wpc'[k] = wpc[k] /\ wjob'[k] = wjob[k]
  BY <1>1, JobFacts
<1>3. Share(l) = l
  BY JobFacts, ShareSmall DEF Lanes
<1>4. ASSUME NEW j \in AllJobs, Share(j) = l PROVE ~(j < l)
  BY <1>4, JobFacts, ShareSmall DEF Lanes
<1>5. \A j \in AllJobs : Ran(j)' <=> Ran(j)
  BY <1>1, <1>2, <1>4 DEF Ran
<1> QED BY <1>1, <1>2, <1>3, <1>5 DEF JobInv, InRun

LEMMA JobRunJob ==
  ASSUME IInv, JobInv, NEW l \in Lanes, RunJob(l)
  PROVE  JobInv'
<1>1. wpc[l] = "run" /\ UNCHANGED <<cpc, cjob, cmd, sequence, jobs, batch>> /\ Share(wjob[l]) = l
  BY DEF RunJob, JobInv, caller, pool
<1>2. InRun /\ InRun' /\ cmd[l] = sequence /\ previous[l] # sequence
  <2>1. ~stop /\ Published(l) /\ Pending(l)
    BY <1>1, LaneFacts DEF LaneInv, Quiet, Storing, Finished, Pending
  <2> QED BY <1>1, <2>1, LaneFacts DEF Published, InRun, Pending
<1>3. /\ jobs \in JobCounts /\ batch = jobs /\ wjob[l] \in Nat
      /\ \A j \in AllJobs : times[j] = IF j < jobs /\ Ran(j) THEN 1 ELSE 0
  BY <1>2, JobFacts DEF JobInv
<1>4. l # 0
  BY JobFacts DEF Lanes
<1>5. CASE wjob[l] < jobs
  <2>1. /\ times' = [times EXCEPT ![wjob[l]] = @ + 1] /\ UNCHANGED <<wpc, previous>>
        /\ wjob'[l] = wjob[l] + N + 1 /\ \A k \in Lanes : k # l => wjob'[k] = wjob[k]
    BY <1>1, <1>5, JobFacts DEF RunJob
  <2>2. wjob[l] \in AllJobs
    BY <1>3, <1>5, JobFacts
  <2>3. ~Ran(wjob[l])
    BY <1>1, <1>2, <1>3, <1>4 DEF Ran
  <2>4. Share(wjob'[l]) = l
    BY <1>1, <1>3, <2>1, ShareStride
  <2>5. ASSUME NEW j \in AllJobs PROVE Ran(j)' <=> Ran(j) \/ j = wjob[l]
    <3>1. CASE Share(j) = l
      <4>1. (j < wjob[l] + N + 1) <=> (j < wjob[l] \/ j = wjob[l])
        BY <1>1, <1>3, <3>1, JobFacts, ShareNext
      <4> QED BY <1>1, <1>2, <1>4, <2>1, <3>1, <4>1 DEF Ran
    <3>2. CASE Share(j) # l
      BY <1>1, <2>1, <3>2 DEF Ran
    <3> QED BY <3>1, <3>2
  <2>6. \A j \in AllJobs : times'[j] = IF j < jobs /\ Ran(j)' THEN 1 ELSE 0
    BY <1>3, <1>5, <2>1, <2>2, <2>3, <2>5, JobFacts
  <2> QED BY <1>1, <1>2, <1>3, <2>1, <2>4, <2>6 DEF JobInv, InRun
<1>6. CASE ~(wjob[l] < jobs)
  <2>1. /\ UNCHANGED <<times, wjob>> /\ previous'[l] = sequence /\ wpc'[l] = "store"
        /\ \A k \in Lanes : k # l => wpc'[k] = wpc[k] /\ previous'[k] = previous[k]
    BY <1>1, <1>2, <1>6, JobFacts DEF RunJob
  <2>2. ASSUME NEW j \in AllJobs, j < jobs PROVE Ran(j)' <=> Ran(j)
    <3>1. j < wjob[l]
      BY <1>3, <1>6, <2>2, JobFacts
    <3> QED BY <1>1, <2>1, <3>1 DEF Ran
  <2> QED BY <1>1, <1>2, <1>3, <2>1, <2>2 DEF JobInv, InRun
<1> QED BY <1>5, <1>6

LEMMA JobCaller ==
  ASSUME IInv, JobInv, CallerStep
  PROVE  JobInv'
<1>1. CASE CreateThread \/ AwaitHandshake \/ Admit \/ BumpCommand \/ BumpWake \/ Join
  <2>1. /\ UNCHANGED <<jobs, batch, times, sequence, previous, wjob>> /\ ~InRun /\ ~InRun'
        /\ cpc' # "return" /\ \A l \in Lanes : wpc'[l] = "run" <=> wpc[l] = "run"
    <3>1. CASE CreateThread
      <4>1. cpc = "create" => ci \in Lanes /\ wpc[ci] = "none"
        BY PoolAssumption DEF IInv, TypeOK, PhaseInv, Lanes
      <4> QED BY <3>1, <4>1, JobFacts DEF CreateThread, InRun, history
    <3>2. CASE BumpWake
      BY <3>2, JobFacts DEF BumpWake, Woken, InRun, pool, history
    <3> QED BY <1>1, <3>1, <3>2 DEF AwaitHandshake, Admit, BumpCommand, Join, InRun, helper, pool, history
  <2> QED BY <2>1, JobPassive DEF InRun
<1>2. CASE Publish \/ BarrierWait \/ Return
  <2>1. /\ UNCHANGED <<jobs, batch, times, sequence, previous, wjob, wpc, cjob>>
        /\ InRun' <=> InRun
        /\ cpc' # "return" /\ cpc # "own" /\ cpc' # "own"
        /\ cpc' \in {"barrier", "bwait", "basleep"} <=> cpc \in {"barrier", "bwait", "basleep"}
    BY <1>2 DEF Publish, BarrierWait, Return, InRun, helper, pool, history
  <2> QED BY <2>1, JobPassive
<1> QED BY <1>1, <1>2, JobPublishWake, JobOwn, JobBarrier DEF CallerStep

LEMMA JobHelper ==
  ASSUME IInv, JobInv, NEW l \in Lanes, HelperStep(l) \/ SpuriousHelper(l)
  PROVE  JobInv'
<1>1. CASE Boot(l) \/ WakeCaller(l) \/ Load(l) \/ Test(l) \/ FutexWait(l) \/ StoreDone(l) \/ SpuriousHelper(l)
  <2>1. UNCHANGED <<jobs, batch, times, sequence, previous, wjob, cjob>>
    BY <1>1 DEF Boot, WakeCaller, Load, Test, FutexWait, StoreDone, SpuriousHelper, caller, pool, history
  <2>2. cpc' = cpc \/ (cpc = "hsasleep" /\ cpc' = "handshake") \/ (cpc = "basleep" /\ cpc' = "barrier")
    BY <1>1 DEF Boot, WakeCaller, CallerWoken, Load, Test, FutexWait, StoreDone, SpuriousHelper, caller
  <2>3. \A k \in Lanes : wpc'[k] = "run" <=> wpc[k] = "run"
    BY <1>1, JobFacts DEF Boot, WakeCaller, Load, Test, FutexWait, StoreDone, SpuriousHelper
  <2> QED BY <2>1, <2>2, <2>3, JobPassive DEF InRun
<1> QED BY <1>1, JobGate, JobRunJob DEF HelperStep

LEMMA JobNext == ASSUME NoWrap, IInv, JobInv, [Next]_vars PROVE JobInv'
<1>1. CASE Destroy \/ SpuriousCaller \/ Freed \/ UNCHANGED vars
  <2>1. /\ UNCHANGED <<jobs, batch, times, sequence, previous, wjob, wpc, cjob>>
        /\ InRun' <=> InRun
        /\ cpc' = "return" => cpc = "return"
        /\ cpc' = "own" <=> cpc = "own"
        /\ cpc' \in {"barrier", "bwait", "basleep"} <=> cpc \in {"barrier", "bwait", "basleep"}
    BY <1>1 DEF Destroy, SpuriousCaller, Freed, InRun, vars, caller, helper, pool, history
  <2> QED BY <2>1, JobPassive
<1>2. CASE \E n \in JobCounts : RunSerial(n) \/ StartRun(n)
  BY <1>2, JobRunSerial, JobStartRun
<1>3. CASE \E l \in Lanes : HelperStep(l) \/ SpuriousHelper(l)
  BY <1>3, JobHelper
<1>4. CASE CallerStep
  BY <1>4, JobCaller
<1> QED BY <1>1, <1>2, <1>3, <1>4 DEF Next

\* When fx_workers_run returns, every job of the batch has run exactly once and no
\* other, whoever ran it and however the helpers were scheduled.
THEOREM ExactlyOnceAlways == ASSUME NoWrap PROVE Spec => []ExactlyOnce
<1>1. Init => JobInv
  BY DEF Init, JobInv, InRun
<1>2. IInv /\ JobInv /\ [Next]_vars => JobInv'
  BY JobNext
<1>3. IInv /\ JobInv => ExactlyOnce
  <2> SUFFICES ASSUME IInv, JobInv PROVE ExactlyOnce
    OBVIOUS
  <2>1. \A j \in AllJobs : times[j] <= (IF j < batch THEN 1 ELSE 0)
    BY JobFacts DEF JobInv
  <2> QED BY <2>1 DEF JobInv, ExactlyOnce
<1> QED BY <1>1, <1>2, <1>3, Invariance, PTL DEF Spec
=============================================================================
