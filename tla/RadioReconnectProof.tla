-------------------------- MODULE RadioReconnectProof --------------------------
(***************************************************************************)
(* OneReconnect, QuietWhenStopped, RecoversCurrent and Bounded of          *)
(* RadioReconnect, for any number of stations, attempts, actions and       *)
(* callbacks.                                                              *)
(***************************************************************************)
EXTENDS RadioReconnect, SequenceTheorems, TLAPS

-----------------------------------------------------------------------------
\* The scheduler's fields over n tasks.
Fields(n) == [task : 0..n, attempts : 0..MaxAttempts, url : Stations \union {None},
              active : {"none", "young", "old"}, stopped : BOOLEAN, resetting : BOOLEAN,
              eof : Stations \union {None}, seq : Nat]

\* Fields r and tasks ts in which the handle knows the only task that is not done.
Sound(r, ts) ==
  /\ ts \in Seq(TaskStates) /\ r \in Fields(Len(ts))
  /\ \A i \in 1..Len(ts) : ts[i].pc # "done" => i = r.task

\* No recovery runs in ts that does not run already.
NoNewRecovery(ts) ==
  \A i \in 1..Len(ts) :
    ts[i].pc = "running" /\ ~ts[i].cancelled => i \in 1..Len(tasks) /\ ts[i] = tasks[i]

\* The types of the context and of the counters.
Contexts == [epoch : Nat, commit : Nat, seq : Nat, seen : Nat, last : Tracks]
Counters == [ops : Nat, events : Nat, stops : Nat, max : Instances]

\* The types of the rest.
RestOK ==
  /\ track \in Tracks /\ player \in {"idle", "playing", "ended"}
  /\ ctx \in Contexts
  /\ ops \subseteq OpStates /\ events \subseteq Events
  /\ service \in [st : {"up", "stopping", "down"}, task : Nat]
  /\ hist \in [due : BOOLEAN, asks : Nat]
  /\ used \in Counters

\* Every stop has begun its reset, a play has a target, and no reset has seen more stops
\* of the service than there were.
OpsInv ==
  \A o \in ops : /\ o.kind = "stop" => o.pc = "draining"
                 /\ o.kind # "stop" => o.target # None
                 /\ o.pc = "draining" => o.seq <= rr.seq

\* While the service stops, the scheduler stays stopped: the resets under way began before.
StopInv ==
  service.st # "up" => rr.stopped /\ \A o \in ops : o.pc = "draining" /\ o.seq < rr.seq

\* The task that stop() drains is the only one there can be.
DrainInv ==
  /\ service.st = "stopping" => rr.task \in {0, service.task}
  /\ QuietWhenStopped

\* A player that plays without a current track is about to be stopped.
TrackInv ==
  player = "playing" /\ track = None => \E o \in ops : o.kind = "stop"

\* The inductive invariant.
IInv ==
  /\ RestOK /\ Sound(rr, tasks)
  /\ OpsInv /\ StopInv /\ DrainInv /\ TrackInv /\ RecoversCurrent

-----------------------------------------------------------------------------
\* What the proofs need of the constants.
LEMMA ConstOK == MaxAttempts \in Nat /\ 0 \in 0..MaxAttempts /\ None \notin Stations
  BY RadioAssumption

\* A new task is appended when the one of the handle is done.
LEMMA StartedOK ==
  ASSUME RestOK, NEW r, Sound(r, tasks), NEW url \in Stations,
         r.attempts < MaxAttempts, ~Alive(r.task)
  PROVE  LET e == Started(r, url) IN Sound(e[1], e[2]) /\ NoNewRecovery(e[2])
<1> DEFINE t == [pc |-> "new", cancelled |-> FALSE, url |-> url, token |-> Token]
           ts == Append(tasks, t)
           q == [r EXCEPT !.attempts = @ + 1, !.task = Len(tasks) + 1]
<1>1. t \in TaskStates
  <2>1. Token \in Nat
    BY DEF Token, RestOK, Contexts
  <2> HIDE DEF Token
  <2> QED BY <2>1 DEF TaskStates
<1>2. tasks \in Seq(TaskStates) /\ r \in Fields(Len(tasks)) /\ Len(tasks) \in Nat
  BY DEF Sound
<1>3. /\ ts \in Seq(TaskStates) /\ Len(ts) = Len(tasks) + 1
      /\ \A i \in 1..Len(tasks) : ts[i] = tasks[i]
      /\ ts[Len(tasks) + 1] = t
  BY <1>1, <1>2, AppendProperties
<1> HIDE DEF ts
<1>4. q \in Fields(Len(ts)) /\ q.task = Len(tasks) + 1
  <2>1. Len(tasks) + 1 \in 0..Len(ts) /\ r.attempts + 1 \in 0..MaxAttempts
    BY ConstOK, <1>2, <1>3 DEF Fields
  <2>2. r \in [task : 0..Len(tasks), attempts : 0..MaxAttempts, url : Stations \union {None},
               active : {"none", "young", "old"}, stopped : BOOLEAN, resetting : BOOLEAN,
               eof : Stations \union {None}, seq : Nat]
    BY <1>2 DEF Fields
  <2> QED BY <2>1, <2>2 DEF Fields
<1> HIDE DEF q
<1>5. \A i \in 1..Len(tasks) : tasks[i].pc = "done"
  <2> SUFFICES ASSUME NEW i \in 1..Len(tasks), tasks[i].pc # "done" PROVE FALSE
    OBVIOUS
  <2>1. i = r.task
    BY DEF Sound
  <2> QED BY <2>1, <1>2 DEF Alive
<1>6. \A i \in 1..Len(ts) : i \in 1..Len(tasks) \/ i = Len(tasks) + 1
  BY <1>2, <1>3
<1>7. Sound(q, ts) /\ NoNewRecovery(ts)
  BY <1>3, <1>4, <1>5, <1>6 DEF Sound, NoNewRecovery
<1>8. Started(r, url)[1] = q /\ Started(r, url)[2] = ts
  BY DEF Started, q, ts
<1> QED BY <1>7, <1>8

\* Nothing but the fields changes.
LEMMA FieldsOK ==
  ASSUME NEW r, NEW q, Sound(r, tasks), q \in Fields(Len(tasks)), q.task = r.task
  PROVE  Sound(q, tasks) /\ NoNewRecovery(tasks)
  BY DEF Sound, NoNewRecovery

\* An end of the stream starts a task only when there is none.
LEMMA EndedOK ==
  ASSUME RestOK, NEW r, Sound(r, tasks), NEW url \in Stations
  PROVE  LET e == Ended(r, url, Alive(r.task)) IN Sound(e[1], e[2]) /\ NoNewRecovery(e[2])
<1> DEFINE q == [r EXCEPT !.active = "none", !.url = url, !.attempts = IF r.url # url THEN 0 ELSE @]
<1>1. q \in Fields(Len(tasks)) /\ q.task = r.task
  BY ConstOK DEF Sound, Fields
<1>2. Sound(q, tasks) /\ NoNewRecovery(tasks)
  BY <1>1, FieldsOK
<1>3. q.attempts \in Nat /\ MaxAttempts \in Nat
  <2> HIDE DEF q
  <2> QED BY ConstOK, <1>1 DEF Fields
<1>4. Ended(r, url, Alive(r.task)) =
        IF q.attempts >= MaxAttempts \/ Alive(r.task) THEN <<q, tasks>> ELSE Started(q, url)
  BY DEF Ended
<1> HIDE DEF q
<1>5. CASE q.attempts >= MaxAttempts \/ Alive(r.task)
  BY <1>2, <1>4, <1>5
<1>6. CASE ~(q.attempts >= MaxAttempts \/ Alive(r.task))
  <2>1. q.attempts < MaxAttempts /\ ~Alive(q.task)
    BY <1>1, <1>3, <1>6
  <2>2. LET e == Started(q, url) IN Sound(e[1], e[2]) /\ NoNewRecovery(e[2])
    BY <1>2, <2>1, StartedOK
  <2> QED BY <2>2, <1>4, <1>6
<1> QED BY <1>5, <1>6

\* A scheduler that is stopped schedules nothing; it never stops by itself.
LEMMA ScheduleOK ==
  ASSUME RestOK, Sound(rr, tasks), NEW st
  PROVE  LET e == Schedule(rr, st, Alive(rr.task))
         IN /\ Sound(e[1], e[2]) /\ NoNewRecovery(e[2])
            /\ rr.stopped => e[1] = rr /\ e[2] = tasks
            /\ e[1].seq = rr.seq
<1> DEFINE d == DeferResetEof(rr, st)
           p == Playing(rr, track)
           n == [rr EXCEPT !.active = "none"]
           e == Ended(rr, track, Alive(rr.task))
<1>1. rr \in Fields(Len(tasks))
  BY DEF Sound
<1>2. track \in Stations => /\ d \in Fields(Len(tasks)) /\ d.task = rr.task /\ d.seq = rr.seq
  BY <1>1 DEF DeferResetEof, Fields
<1>3. track \in Stations => /\ p \in Fields(Len(tasks)) /\ p.task = rr.task /\ p.seq = rr.seq
  BY ConstOK, <1>1 DEF Playing, Fields
<1>4. /\ n \in Fields(Len(tasks)) /\ n.task = rr.task /\ n.seq = rr.seq
  BY <1>1 DEF Fields
<1>5. track \in Stations => e[1].seq = rr.seq
  BY <1>1 DEF Ended, Started, Fields
<1>6. track \in Stations => Sound(e[1], e[2]) /\ NoNewRecovery(e[2])
  BY EndedOK
<1>7. Schedule(rr, st, Alive(rr.task)) =
        IF rr.stopped \/ track \notin Stations THEN <<rr, tasks>>
        ELSE IF rr.resetting THEN <<d, tasks>>
        ELSE IF st = "playing" THEN <<p, tasks>>
        ELSE IF st = "ended" THEN e
        ELSE <<n, tasks>>
  BY DEF Schedule
<1>8. Sound(rr, tasks) /\ NoNewRecovery(tasks)
  BY DEF NoNewRecovery
<1>9. track \in Stations => Sound(d, tasks) /\ Sound(p, tasks)
  BY <1>2, <1>3, FieldsOK
<1>10. Sound(n, tasks)
  BY <1>4, FieldsOK
<1> HIDE DEF d, p, n, e
<1>11. CASE rr.stopped \/ track \notin Stations
  BY <1>7, <1>8, <1>11
<1>12. CASE ~rr.stopped /\ track \in Stations
  BY <1>2, <1>3, <1>4, <1>5, <1>6, <1>7, <1>8, <1>9, <1>10, <1>12
<1> QED BY <1>11, <1>12

\* The end of a reset: the scheduler is running again only if no stop came in between.
LEMMA ResetEndsOK ==
  ASSUME RestOK, NEW r, Sound(r, tasks), NEW o, NEW cur, o.stopped \in BOOLEAN
  PROVE  LET e == ResetEnds(r, o, cur)
         IN /\ Sound(e[1], e[2]) /\ NoNewRecovery(e[2])
            /\ r.seq # o.seq => e[2] = tasks /\ e[1].task = r.task /\ e[1].stopped = r.stopped
            /\ e[1].seq = r.seq
            /\ cur = None => e[2] = tasks
<1> DEFINE q == [r EXCEPT !.resetting = FALSE, !.attempts = 0, !.url = None, !.active = "none", !.eof = None]
           b == q.stopped /\ ~o.stopped
           s == [q EXCEPT !.stopped = b]
           e == Ended(s, r.eof, Alive(s.task))
<1>1. r \in Fields(Len(tasks))
  BY DEF Sound
<1>2. /\ q \in Fields(Len(tasks)) /\ q.task = r.task /\ q.stopped = r.stopped /\ q.seq = r.seq
  BY ConstOK, <1>1 DEF Fields
<1>3. b \in BOOLEAN
  BY Zenon
<1>4. s \in Fields(Len(tasks)) /\ s.task = q.task /\ s.seq = q.seq
  <2> HIDE DEF q, b
  <2> QED BY <1>2, <1>3 DEF Fields
<1>5. s.task = r.task /\ s.seq = r.seq
  BY <1>2, <1>4
<1>6. Sound(q, tasks) /\ Sound(s, tasks) /\ NoNewRecovery(tasks)
  BY <1>2, <1>4, <1>5, FieldsOK
<1>7. r.eof # None => Sound(e[1], e[2]) /\ NoNewRecovery(e[2])
  <2>1. r.eof # None => r.eof \in Stations
    BY <1>1 DEF Fields
  <2> HIDE DEF s
  <2> QED BY <1>6, <2>1, EndedOK
<1>8. e[1].seq = r.seq
  <2> HIDE DEF s
  <2> QED BY <1>5 DEF Ended, Started, Fields
<1>9. ResetEnds(r, o, cur) =
        IF r.seq # o.seq THEN <<q, tasks>>
        ELSE IF r.eof = None \/ s.stopped \/ cur # r.eof THEN <<s, tasks>> ELSE e
  BY DEF ResetEnds
<1> HIDE DEF q, b, s, e
<1>10. CASE r.seq # o.seq
  BY <1>2, <1>6, <1>9, <1>10
<1>11. CASE r.seq = o.seq /\ (r.eof = None \/ s.stopped \/ cur # r.eof)
  BY <1>5, <1>6, <1>9, <1>11
<1>12. CASE r.seq = o.seq /\ ~(r.eof = None \/ s.stopped \/ cur # r.eof)
  BY <1>7, <1>8, <1>9, <1>12
<1> QED BY <1>10, <1>11, <1>12

-----------------------------------------------------------------------------
\* The parts of actions.

\* A known change of the player.
LEMMA AuthoritativeOK == ASSUME NEW c \in Contexts PROVE Authoritative(c) \in Contexts
<1> DEFINE n == c.seq + 1
<1>1. n \in Nat
  BY DEF Contexts
<1>2. Authoritative(c) = [c EXCEPT !.seq = n, !.seen = n]
  BY DEF Authoritative
<1> HIDE DEF n
<1>3. [c EXCEPT !.seq = n, !.seen = n] \in Contexts
  BY <1>1 DEF Contexts
<1> QED BY <1>2, <1>3

\* A running recovery keeps its station as long as the track is not changed.
LEMMA RecoveriesKept ==
  ASSUME RecoversCurrent, NoNewRecovery(tasks'), track' = track
  PROVE  RecoversCurrent'
  BY DEF RecoversCurrent, NoNewRecovery

\* When none runs, any track may become current.
LEMMA NoRecoveries ==
  ASSUME Recovering = {}, NoNewRecovery(tasks')
  PROVE  RecoversCurrent'
  BY DEF RecoversCurrent, NoNewRecovery, Recovering

\* The fields of a scheduler without a task.
LEMMA ForgetTask ==
  ASSUME NEW n \in Nat, NEW r \in Fields(n)
  PROVE  LET q == [r EXCEPT !.task = 0]
         IN q \in Fields(n) /\ q.task = 0 /\ q.seq = r.seq /\ q.stopped = r.stopped
  BY DEF Fields

\* One task changes its step.
LEMMA SetTaskOK ==
  ASSUME Sound(rr, tasks), NEW i \in 1..Len(tasks), NEW pc \in {"sleep", "asking", "running", "done"},
         tasks[i].pc # "done", SetTask(i, pc)
  PROVE  /\ Sound(rr', tasks') /\ Len(tasks') = Len(tasks)
         /\ \A j \in 1..Len(tasks) : j # i => tasks'[j] = tasks[j]
         /\ tasks'[i] = [tasks[i] EXCEPT !.pc = pc] /\ tasks[i] \in TaskStates
         /\ rr'.seq = rr.seq /\ rr'.stopped = rr.stopped /\ rr'.task \in {0, rr.task}
<1> DEFINE t == [tasks[i] EXCEPT !.pc = pc]
<1>1. tasks \in Seq(TaskStates) /\ rr \in Fields(Len(tasks)) /\ Len(tasks) \in Nat
  BY DEF Sound
<1>2. tasks[i] \in TaskStates
  BY <1>1, ElementOfSeq
<1>3. t \in TaskStates /\ t.pc = pc
  BY <1>2 DEF TaskStates
<1>4. tasks' = [tasks EXCEPT ![i] = t]
  BY DEF SetTask
<1> HIDE DEF t
<1>5. /\ tasks' \in Seq(TaskStates) /\ Len(tasks') = Len(tasks)
      /\ \A j \in 1..Len(tasks) : tasks'[j] = IF j = i THEN t ELSE tasks[j]
  BY <1>1, <1>3, <1>4, ExceptSeq
<1>6. i = rr.task
  BY DEF Sound
<1>7. /\ rr' \in Fields(Len(tasks')) /\ rr'.seq = rr.seq /\ rr'.stopped = rr.stopped
      /\ rr'.task \in {0, rr.task} /\ (pc # "done" => rr' = rr)
  <2>1. CASE rr' = rr
    BY <1>1, <1>5, <2>1
  <2>2. CASE rr' = [rr EXCEPT !.task = 0] /\ pc = "done"
    BY <1>1, <1>5, <2>2, ForgetTask
  <2> QED BY <2>1, <2>2 DEF SetTask
<1>8. \A j \in 1..Len(tasks') : tasks'[j].pc # "done" => j = rr'.task
  BY <1>3, <1>5, <1>6, <1>7 DEF Sound
<1> QED BY <1>2, <1>5, <1>7, <1>8 DEF Sound, t

\* The handle's task is cancelled.
LEMMA CancelOK ==
  ASSUME Sound(rr, tasks), CancelTask(rr.task)
  PROVE  /\ tasks' \in Seq(TaskStates) /\ Len(tasks') = Len(tasks) /\ NoNewRecovery(tasks')
         /\ \A j \in 1..Len(tasks) : tasks'[j].pc = tasks[j].pc
<1>1. tasks \in Seq(TaskStates) /\ rr \in Fields(Len(tasks)) /\ Len(tasks) \in Nat
  BY DEF Sound
<1>2. CASE ~Alive(rr.task)
  BY <1>1, <1>2 DEF CancelTask, NoNewRecovery
<1>3. CASE Alive(rr.task)
  <2> DEFINE i == rr.task
             t == [tasks[i] EXCEPT !.cancelled = TRUE]
  <2>1. i \in 1..Len(tasks)
    BY <1>1, <1>3 DEF Fields, Alive
  <2> HIDE DEF i
  <2>2. tasks[i] \in TaskStates
    BY <1>1, <2>1, ElementOfSeq
  <2>3. t \in TaskStates /\ t.pc = tasks[i].pc /\ t.cancelled
    BY <2>2 DEF TaskStates
  <2>4. tasks' = [tasks EXCEPT ![i] = t]
    BY <1>3 DEF CancelTask, i
  <2> HIDE DEF t
  <2>5. /\ tasks' \in Seq(TaskStates) /\ Len(tasks') = Len(tasks)
        /\ \A j \in 1..Len(tasks) : tasks'[j] = IF j = i THEN t ELSE tasks[j]
    BY <1>1, <2>1, <2>3, <2>4, ExceptSeq
  <2> QED BY <2>3, <2>5 DEF NoNewRecovery
<1> QED BY <1>2, <1>3

\* A task that is drained may be dropped from the handle.
LEMMA DropOK ==
  ASSUME Sound(rr, tasks), NEW n, Drained(n)
  PROVE  LET r == [rr EXCEPT !.task = IF @ = n THEN 0 ELSE @]
         IN Sound(r, tasks) /\ r.seq = rr.seq /\ r.stopped = rr.stopped /\ r.task \in {0, rr.task}
<1> DEFINE r == [rr EXCEPT !.task = IF @ = n THEN 0 ELSE @]
<1>1. tasks \in Seq(TaskStates) /\ rr \in Fields(Len(tasks)) /\ Len(tasks) \in Nat
  BY DEF Sound
<1>2. /\ r \in Fields(Len(tasks)) /\ r.seq = rr.seq /\ r.stopped = rr.stopped
      /\ r.task = IF rr.task = n THEN 0 ELSE rr.task
  BY <1>1 DEF Fields
<1> HIDE DEF r
<1>3. ASSUME NEW i \in 1..Len(tasks), tasks[i].pc # "done" PROVE i = r.task
  <2>1. i = rr.task /\ i # 0
    BY <1>1, <1>3 DEF Sound
  <2>2. i # n
    BY <1>3, <2>1 DEF Drained, Alive
  <2> QED BY <1>2, <2>1, <2>2
<1>4. Sound(r, tasks)
  BY <1>1, <1>2, <1>3 DEF Sound
<1> QED BY <1>2, <1>4 DEF r

\* A reset begins: it ends at once, or waits for the task as op p.
LEMMA ResetBeginsOK ==
  ASSUME RestOK, Sound(rr, tasks), NEW o \in OpStates, ResetBegins(o)
  PROVE  /\ Sound(rr', tasks') /\ NoNewRecovery(tasks') /\ rr'.seq = rr.seq
         /\ \E p \in OpStates :
              /\ p.kind = o.kind /\ p.target = o.target /\ p.pc = "draining" /\ p.seq = rr.seq
              /\ ops' = IF rr.task = 0 THEN ops \ {o} ELSE (ops \ {o}) \union {p}
<1> DEFINE r == [rr EXCEPT !.eof = None, !.resetting = TRUE]
           p == [o EXCEPT !.pc = "draining", !.task = rr.task, !.seq = rr.seq, !.stopped = rr.stopped]
<1>1. tasks \in Seq(TaskStates) /\ rr \in Fields(Len(tasks)) /\ Len(tasks) \in Nat
  BY DEF Sound
<1>2. rr.task \in Nat /\ rr.seq \in Nat /\ rr.stopped \in BOOLEAN
  BY <1>1 DEF Fields
<1>3. p \in OpStates /\ p.kind = o.kind /\ p.target = o.target /\ p.pc = "draining" /\ p.seq = rr.seq
  BY <1>2 DEF OpStates
<1>4. r \in Fields(Len(tasks)) /\ r.task = rr.task /\ r.seq = rr.seq
  BY <1>1 DEF Fields
<1>5. Sound(r, tasks) /\ NoNewRecovery(tasks)
  BY <1>4, FieldsOK
<1>6. p.stopped \in BOOLEAN
  <2> HIDE DEF p
  <2> QED BY <1>3 DEF OpStates
<1>7. IF rr.task = 0
      THEN /\ rr' = ResetEnds(r, p, None)[1] /\ UNCHANGED tasks /\ ops' = ops \ {o}
      ELSE /\ rr' = r /\ CancelTask(rr.task) /\ ops' = (ops \ {o}) \union {p}
  BY DEF ResetBegins
<1> HIDE DEF r, p
<1>8. CASE rr.task = 0
  <2>1. LET e == ResetEnds(r, p, None)
        IN Sound(e[1], e[2]) /\ e[1].seq = r.seq /\ e[2] = tasks
    BY <1>5, <1>6, ResetEndsOK
  <2> QED BY <1>3, <1>4, <1>5, <1>7, <1>8, <2>1
<1>9. CASE rr.task # 0
  <2>1. CancelTask(rr.task) /\ rr' = r
    BY <1>7, <1>9
  <2>2. /\ tasks' \in Seq(TaskStates) /\ Len(tasks') = Len(tasks) /\ NoNewRecovery(tasks')
        /\ \A j \in 1..Len(tasks) : tasks'[j].pc = tasks[j].pc
    BY <2>1, CancelOK
  <2>3. Sound(rr', tasks')
    BY <1>4, <1>5, <2>1, <2>2 DEF Sound
  <2> QED BY <1>3, <1>4, <1>7, <1>9, <2>1, <2>2, <2>3
<1> QED BY <1>8, <1>9

\* A callback reaches the scheduler.
LEMMA ApplyOK ==
  ASSUME RestOK, Sound(rr, tasks), NEW e \in Events, Apply(e)
  PROVE  /\ Sound(rr', tasks') /\ NoNewRecovery(tasks')
         /\ rr.stopped => rr' = rr /\ tasks' = tasks
         /\ rr'.seq = rr.seq
         /\ hist' \in [due : BOOLEAN, asks : Nat]
<1> DEFINE s == Schedule(rr, e.st, Alive(rr.task))
<1>1. rr' = s[1] /\ tasks' = s[2]
  BY DEF Apply
<1>2. /\ Sound(s[1], s[2]) /\ NoNewRecovery(s[2])
      /\ rr.stopped => s[1] = rr /\ s[2] = tasks
      /\ s[1].seq = rr.seq
  BY ScheduleOK
<1>3. hist' \in [due : BOOLEAN, asks : Nat]
  <2> DEFINE b == hist.due /\ ~(e.st = "ended" /\ ~rr.resetting /\ tasks' = tasks /\ rr'.attempts = MaxAttempts)
  <2>1. b \in BOOLEAN
    BY Zenon
  <2>2. hist' = [hist EXCEPT !.due = b]
    BY DEF Apply
  <2> HIDE DEF b
  <2> QED BY <2>1, <2>2 DEF RestOK
<1> HIDE DEF s
<1> QED BY <1>1, <1>2, <1>3

-----------------------------------------------------------------------------
\* The actions.

LEMMA BeginKeeps ==
  ASSUME IInv, NEW kind \in {"play", "replay"}, NEW target \in Tracks, Begin(kind, target)
  PROVE  IInv'
<1> USE DEF IInv
<1> DEFINE o == Op(kind, target)
<1>1. used \in Counters /\ ctx \in Contexts /\ hist \in [due : BOOLEAN, asks : Nat]
  BY DEF RestOK
<1>2. o \in OpStates /\ o.kind = kind /\ o.target = target /\ o.pc = "trying"
  BY <1>1 DEF Op, OpStates, Counters
<1>3. /\ ops' = ops \union {o} /\ target # None /\ service.st = "up"
      /\ UNCHANGED <<track, player, events, rr, tasks, service>>
  BY DEF Begin, MayAct
<1>4. /\ used' \in Counters
      /\ ctx' \in Contexts
      /\ hist' \in [due : BOOLEAN, asks : Nat]
  <2>1. /\ used' = [used EXCEPT !.ops = @ + 1] /\ ctx' = [ctx EXCEPT !.epoch = @ + 1]
        /\ hist' = [hist EXCEPT !.due = FALSE]
    BY DEF Begin, MayAct
  <2>2. used' \in Counters
    BY <1>1, <2>1 DEF Counters
  <2>3. ctx' \in Contexts
    BY <1>1, <2>1 DEF Contexts
  <2> QED BY <1>1, <2>1, <2>2, <2>3
<1> HIDE DEF o
<1>5. RestOK'
  BY <1>2, <1>3, <1>4 DEF RestOK
<1>6. OpsInv' /\ TrackInv'
  BY <1>2, <1>3 DEF OpsInv, TrackInv
<1>7. Sound(rr, tasks)' /\ StopInv' /\ DrainInv' /\ RecoversCurrent'
  BY <1>3 DEF StopInv, DrainInv, QuietWhenStopped, RecoversCurrent, Sound
<1> QED BY <1>5, <1>6, <1>7

\* A transition that commits or fails belongs to a service that is up.
LEMMA CommitKeeps ==
  ASSUME IInv, NEW o \in ops, Commit(o)
  PROVE  IInv'
<1> USE DEF IInv
<1>1. /\ o.kind # "stop" /\ o.pc = "trying" /\ o \in OpStates /\ o.target # None
      /\ Recovering = {} /\ \A x \in ops : x.kind # "stop"
  BY DEF Commit, Trying, MayCommit, LockFree, RestOK, OpsInv
<1>2. service.st = "up" /\ service' = service /\ track' = o.target /\ player' = "playing"
  BY <1>1 DEF StopInv, Commit
<1>3. /\ Sound(rr', tasks') /\ NoNewRecovery(tasks') /\ rr'.seq = rr.seq
      /\ \E p \in OpStates :
           /\ p.kind = o.kind /\ p.target = o.target /\ p.pc = "draining" /\ p.seq = rr.seq
           /\ ops' \subseteq (ops \ {o}) \union {p}
  <2>1. CASE o.kind = "play" /\ o.target \in Stations
    <3>1. ResetBegins(o)
      BY <2>1 DEF Commit
    <3> QED BY <1>1, <3>1, ResetBeginsOK
  <2>2. CASE ~(o.kind = "play" /\ o.target \in Stations)
    <3>1. ops' = ops \ {o} /\ rr' = rr /\ tasks' = tasks
      BY <2>2 DEF Commit
    <3> DEFINE p == [o EXCEPT !.pc = "draining", !.seq = rr.seq]
    <3>2. rr.seq \in Nat
      BY DEF Sound, Fields
    <3>3. p \in OpStates /\ p.kind = o.kind /\ p.target = o.target /\ p.pc = "draining" /\ p.seq = rr.seq
      BY <1>1, <3>2 DEF OpStates
    <3>4. NoNewRecovery(tasks')
      BY <3>1 DEF NoNewRecovery
    <3> HIDE DEF p
    <3> QED BY <3>1, <3>3, <3>4
  <2> QED BY <2>1, <2>2
<1>4. /\ ctx' \in Contexts
      /\ track' \in Tracks /\ hist' \in [due : BOOLEAN, asks : Nat] /\ ops' \subseteq OpStates
  <2>1. o.target \in Tracks
    BY <1>1 DEF OpStates
  <2>2. ctx' \in Contexts
    <3> DEFINE c == [ctx EXCEPT !.commit = @ + 1, !.last = o.target]
    <3>1. c \in Contexts
      <4> DEFINE n == ctx.commit + 1
      <4>1. ctx \in Contexts /\ n \in Nat
        BY DEF RestOK, Contexts
      <4>2. c = [ctx EXCEPT !.commit = n, !.last = o.target]
        OBVIOUS
      <4> HIDE DEF n, c
      <4> QED BY <2>1, <4>1, <4>2 DEF Contexts
    <3>2. ctx' = Authoritative(c)
      BY DEF Commit
    <3> HIDE DEF c
    <3> QED BY <3>1, <3>2, AuthoritativeOK
  <2>3. hist' \in [due : BOOLEAN, asks : Nat]
    BY DEF Commit, RestOK
  <2> QED BY <1>2, <1>3, <2>1, <2>2, <2>3 DEF RestOK
<1>5. RestOK'
  BY <1>2, <1>4 DEF RestOK, Commit
<1>6. OpsInv'
  <2>1. rr.seq \in Nat
    BY DEF Sound, Fields
  <2> QED BY <1>1, <1>3, <2>1 DEF OpsInv
<1>7. StopInv' /\ DrainInv' /\ TrackInv'
  BY <1>1, <1>2 DEF StopInv, DrainInv, QuietWhenStopped, TrackInv
<1>8. RecoversCurrent'
  BY <1>1, <1>3, NoRecoveries
<1> QED BY <1>3, <1>5, <1>6, <1>7, <1>8

LEMMA FailKeeps ==
  ASSUME IInv, NEW o \in ops, Fail(o)
  PROVE  IInv'
<1> USE DEF IInv
<1>1. /\ o.kind # "stop" /\ ops' = ops \ {o}
      /\ UNCHANGED <<track, player, ctx, events, rr, tasks, service, hist, used>>
  BY DEF Fail, Trying
<1>2. RestOK' /\ Sound(rr, tasks)'
  BY <1>1 DEF RestOK, Sound
<1>3. OpsInv' /\ StopInv' /\ TrackInv'
  BY <1>1 DEF OpsInv, StopInv, TrackInv
<1>4. DrainInv' /\ RecoversCurrent'
  BY <1>1 DEF DrainInv, QuietWhenStopped, RecoversCurrent, Alive
<1> QED BY <1>2, <1>3, <1>4

\* A stop holds the lock until its reset has ended.
LEMMA StopPlaybackKeeps ==
  ASSUME IInv, StopPlayback
  PROVE  IInv'
<1> USE DEF IInv
<1> DEFINE o == Op("stop", None)
<1>1. /\ used \in Counters /\ used' = [used EXCEPT !.ops = @ + 1] /\ service.st = "up"
      /\ Recovering = {} /\ track' = None /\ ResetBegins(o) /\ service' = service /\ events' = events
      /\ hist' = [due |-> FALSE, asks |-> 0]
  BY DEF StopPlayback, MayAct, LockFree, RestOK
<1>2. o \in OpStates /\ o.kind = "stop"
  BY <1>1 DEF Op, OpStates, Counters, Tracks
<1>3. IF rr.task = 0 THEN player' = "idle" /\ ctx' = Authoritative(ctx) ELSE UNCHANGED <<player, ctx>>
  BY DEF StopPlayback
<1> HIDE DEF o
<1>4. /\ Sound(rr', tasks') /\ NoNewRecovery(tasks') /\ rr'.seq = rr.seq
      /\ \E p \in OpStates :
           /\ p.kind = "stop" /\ p.pc = "draining" /\ p.seq = rr.seq
           /\ ops' = IF rr.task = 0 THEN ops \ {o} ELSE (ops \ {o}) \union {p}
  BY <1>1, <1>2, ResetBeginsOK
<1>5. used' \in Counters
  BY <1>1 DEF Counters
<1>6. ctx' \in Contexts /\ player' \in {"idle", "playing", "ended"}
  BY <1>3, AuthoritativeOK DEF RestOK
<1>7. RestOK'
  BY <1>1, <1>4, <1>5, <1>6 DEF RestOK, Tracks
<1>8. OpsInv'
  <2>1. rr.seq \in Nat
    BY DEF Sound, Fields
  <2> QED BY <1>4, <2>1 DEF OpsInv
<1>9. StopInv' /\ DrainInv'
  BY <1>1 DEF StopInv, DrainInv, QuietWhenStopped
<1>10. TrackInv'
  BY <1>3, <1>4 DEF TrackInv
<1>11. RecoversCurrent'
  BY <1>1, <1>4, NoRecoveries
<1> QED BY <1>4, <1>7, <1>8, <1>9, <1>10, <1>11

\* A reset that began before the service stopped does not start the scheduler again.
LEMMA ResetResumesKeeps ==
  ASSUME IInv, NEW o \in ops, ResetResumes(o)
  PROVE  IInv'
<1> USE DEF IInv
<1> DEFINE r == [rr EXCEPT !.task = IF @ = o.task THEN 0 ELSE @]
           e == ResetEnds(r, o, track)
<1>1. /\ Drained(o.task) /\ rr' = e[1] /\ tasks' = e[2] /\ ops' = ops \ {o}
      /\ UNCHANGED <<track, events, service, hist, used>>
  BY DEF ResetResumes
<1>2. IF o.kind = "stop" THEN player' = "idle" /\ ctx' = Authoritative(ctx) ELSE UNCHANGED <<player, ctx>>
  BY DEF ResetResumes
<1>3. Sound(r, tasks) /\ r.seq = rr.seq /\ r.stopped = rr.stopped /\ r.task \in {0, rr.task}
  BY <1>1, DropOK
<1>4. o.stopped \in BOOLEAN /\ o.seq \in Nat /\ rr.seq \in Nat
  BY DEF RestOK, OpStates, Sound, Fields
<1> HIDE DEF r
<1>5. /\ Sound(e[1], e[2]) /\ NoNewRecovery(e[2]) /\ e[1].seq = r.seq
      /\ r.seq # o.seq => e[2] = tasks /\ e[1].task = r.task /\ e[1].stopped = r.stopped
  BY <1>3, <1>4, ResetEndsOK
<1> HIDE DEF e
<1>6. /\ Sound(rr', tasks') /\ NoNewRecovery(tasks') /\ rr'.seq = rr.seq
      /\ rr.seq # o.seq => tasks' = tasks /\ rr'.task \in {0, rr.task} /\ rr'.stopped = rr.stopped
  BY <1>1, <1>3, <1>5
<1>7. ctx' \in Contexts /\ player' \in {"idle", "playing", "ended"}
  BY <1>2, AuthoritativeOK DEF RestOK
<1>8. RestOK'
  BY <1>1, <1>7 DEF RestOK
<1>9. OpsInv' /\ TrackInv'
  BY <1>1, <1>2, <1>6 DEF OpsInv, TrackInv
<1>10. service.st # "up" => tasks' = tasks /\ rr'.task \in {0, rr.task} /\ rr'.stopped = rr.stopped
  <2>1. service.st # "up" => o.seq < rr.seq
    BY DEF StopInv
  <2> QED BY <1>4, <1>6, <2>1
<1>11. StopInv' /\ DrainInv'
  BY <1>1, <1>6, <1>10 DEF StopInv, DrainInv, QuietWhenStopped, Alive
<1>12. RecoversCurrent'
  BY <1>1, <1>6, RecoveriesKept
<1> QED BY <1>6, <1>8, <1>9, <1>11, <1>12

\* A scheduler that is stopped answers no callback.
LEMMA CallbackKeeps ==
  ASSUME IInv, NEW e \in events, Check(e) \/ Deliver(e)
  PROVE  IInv'
<1> USE DEF IInv
<1>1. e \in Events
  BY DEF RestOK
<1>2. UNCHANGED <<track, player, ops, service, used>>
  BY DEF Check, Deliver
<1>3. ctx' \in Contexts
  <2>1. CASE Check(e)
    <3> DEFINE n == IF e.no > ctx.seen THEN e.no ELSE ctx.seen
    <3>1. ctx \in Contexts /\ n \in Nat
      BY <1>1 DEF RestOK, Contexts, Events
    <3>2. ctx' = [ctx EXCEPT !.seen = n]
      BY <2>1 DEF Check
    <3> HIDE DEF n
    <3> QED BY <3>1, <3>2 DEF Contexts
  <2>2. CASE Deliver(e)
    BY <2>2 DEF Deliver, RestOK
  <2> QED BY <2>1, <2>2
<1>4. events' \subseteq Events
  <2>1. [e EXCEPT !.pc = "checked"] \in Events
    BY <1>1 DEF Events
  <2> QED BY <2>1 DEF Check, Deliver, RestOK
<1>5. Apply(e) \/ UNCHANGED <<rr, tasks, hist>>
  BY DEF Check, Deliver
<1>6. /\ Sound(rr', tasks') /\ NoNewRecovery(tasks') /\ rr'.seq = rr.seq
      /\ rr.stopped => rr' = rr /\ tasks' = tasks
      /\ hist' \in [due : BOOLEAN, asks : Nat]
  <2>1. CASE Apply(e)
    BY <1>1, <2>1, ApplyOK
  <2>2. CASE UNCHANGED <<rr, tasks, hist>>
    BY <2>2 DEF NoNewRecovery, RestOK
  <2> QED BY <1>5, <2>1, <2>2
<1>7. RestOK'
  BY <1>2, <1>3, <1>4, <1>6 DEF RestOK
<1>8. OpsInv' /\ TrackInv'
  BY <1>2, <1>6 DEF OpsInv, TrackInv
<1>9. StopInv' /\ DrainInv'
  BY <1>2, <1>6 DEF StopInv, DrainInv, QuietWhenStopped, Alive
<1>10. RecoversCurrent'
  BY <1>2, <1>6, RecoveriesKept
<1> QED BY <1>6, <1>7, <1>8, <1>9, <1>10

\* The player reports its state.
LEMMA ReportOK ==
  ASSUME RestOK, NEW st \in {"idle", "playing", "ended"}, Report(st)
  PROVE  ctx' \in Contexts /\ used' \in Counters /\ events' \subseteq Events
<1>1. used \in Counters /\ ctx \in Contexts /\ events \subseteq Events
  BY DEF RestOK
<1>2. /\ used' = [used EXCEPT !.events = @ + 1] /\ ctx' = [ctx EXCEPT !.seq = @ + 1]
      /\ events' = events \union {[no |-> ctx.seq + 1, st |-> st, commit |-> ctx.commit, pc |-> "new"]}
  BY DEF Report
<1>3. used' \in Counters
  BY <1>1, <1>2 DEF Counters
<1>4. ctx' \in Contexts
  BY <1>1, <1>2 DEF Contexts
<1>5. [no |-> ctx.seq + 1, st |-> st, commit |-> ctx.commit, pc |-> "new"] \in Events
  BY <1>1 DEF Contexts, Events
<1> QED BY <1>1, <1>2, <1>3, <1>4, <1>5

LEMMA PlayerKeeps ==
  ASSUME IInv, StreamEnds \/ PlayerReports
  PROVE  IInv'
<1> USE DEF IInv
<1>1. /\ UNCHANGED <<track, ops, rr, tasks, service>>
      /\ player' \in {player, "ended"}
  BY DEF StreamEnds, PlayerReports
<1>2. ctx' \in Contexts /\ used' \in Counters /\ events' \subseteq Events
  <2>1. Report("ended") \/ Report(player)
    BY DEF StreamEnds, PlayerReports
  <2> QED BY <2>1, ReportOK DEF RestOK
<1>3. hist' \in [due : BOOLEAN, asks : Nat]
  <2> DEFINE b == track \in Stations /\ NoAttempt /\ ~rr.stopped
  <2>1. b \in BOOLEAN
    BY Zenon
  <2>2. hist' = [hist EXCEPT !.due = b] \/ hist' = hist
    BY DEF StreamEnds, PlayerReports
  <2> HIDE DEF b
  <2> QED BY <2>1, <2>2 DEF RestOK
<1>4. RestOK'
  BY <1>1, <1>2, <1>3 DEF RestOK
<1>5. Sound(rr, tasks)' /\ OpsInv' /\ StopInv' /\ TrackInv'
  BY <1>1 DEF Sound, OpsInv, StopInv, TrackInv
<1>6. DrainInv' /\ RecoversCurrent'
  BY <1>1 DEF DrainInv, QuietWhenStopped, RecoversCurrent, Alive
<1> QED BY <1>4, <1>5, <1>6

LEMMA HalfMinuteKeeps ==
  ASSUME IInv, HalfMinute
  PROVE  IInv'
<1> USE DEF IInv
<1>1. /\ UNCHANGED <<track, player, ctx, ops, events, tasks, service, used>>
      /\ rr' = [rr EXCEPT !.active = "old"] /\ hist' = [hist EXCEPT !.asks = 0]
  BY DEF HalfMinute, app
<1>2. /\ rr' \in Fields(Len(tasks)) /\ rr'.task = rr.task /\ rr'.seq = rr.seq
      /\ rr'.stopped = rr.stopped
  BY <1>1 DEF Sound, Fields
<1>3. Sound(rr, tasks)'
  BY <1>1, <1>2, FieldsOK
<1>4. RestOK'
  BY <1>1 DEF RestOK
<1>5. OpsInv' /\ StopInv' /\ TrackInv'
  BY <1>1, <1>2 DEF OpsInv, StopInv, TrackInv
<1>6. DrainInv' /\ RecoversCurrent'
  BY <1>1, <1>2 DEF DrainInv, QuietWhenStopped, RecoversCurrent, Alive
<1> QED BY <1>3, <1>4, <1>5, <1>6

\* A task changes its step; what it may find out on the way to a recovery is assumed.
LEMMA TaskStepOK ==
  ASSUME IInv, NEW i \in 1..Len(tasks), NEW pc \in {"sleep", "asking", "running", "done"},
         tasks[i].pc # "done", SetTask(i, pc), UNCHANGED <<track, ops, service>>,
         pc = "running" => track = tasks[i].url
  PROVE  Sound(rr', tasks') /\ OpsInv' /\ StopInv' /\ DrainInv' /\ RecoversCurrent'
<1> USE DEF IInv
<1>1. /\ Sound(rr', tasks') /\ Len(tasks') = Len(tasks)
      /\ \A j \in 1..Len(tasks) : j # i => tasks'[j] = tasks[j]
      /\ tasks'[i] = [tasks[i] EXCEPT !.pc = pc] /\ tasks[i] \in TaskStates
      /\ rr'.seq = rr.seq /\ rr'.stopped = rr.stopped /\ rr'.task \in {0, rr.task}
  BY SetTaskOK
<1>2. tasks'[i].pc = pc /\ tasks'[i].url = tasks[i].url
  BY <1>1 DEF TaskStates
<1>3. OpsInv' /\ StopInv'
  BY <1>1 DEF OpsInv, StopInv
<1>4. DrainInv'
  <2>1. \A j \in 1..Len(tasks') : tasks'[j].pc # "done" => tasks[j].pc # "done"
    BY <1>1
  <2> QED BY <1>1, <2>1 DEF DrainInv, QuietWhenStopped, Alive
<1>5. RecoversCurrent'
  <2> SUFFICES ASSUME NEW j \in 1..Len(tasks'), tasks'[j].pc = "running", ~tasks'[j].cancelled
               PROVE  track' = tasks'[j].url
    BY DEF RecoversCurrent
  <2>1. CASE j = i
    BY <1>2, <2>1
  <2>2. CASE j # i
    BY <1>1, <2>2 DEF RecoversCurrent
  <2> QED BY <2>1, <2>2
<1> QED BY <1>1, <1>3, <1>4, <1>5

\* A recovery is only begun for the current station: with the lock free a player that
\* plays has a track.
LEMMA TaskKeeps ==
  ASSUME IInv, NEW i \in 1..Len(tasks), Task(i)
  PROVE  IInv'
<1> USE DEF IInv
<1>1. CASE TaskStarts(i) \/ TaskUnwinds(i) \/ TaskWakes(i)
  <2>1. UNCHANGED <<track, player, ctx, ops, events, service, used>>
    BY <1>1 DEF TaskStarts, TaskUnwinds, TaskWakes, app
  <2>2. PICK pc \in {"sleep", "asking", "done"} : SetTask(i, pc)
    BY <1>1 DEF TaskStarts, TaskUnwinds, TaskWakes
  <2>3. tasks[i].pc # "done"
    BY <1>1 DEF TaskStarts, TaskUnwinds, TaskWakes
  <2>4. hist' \in [due : BOOLEAN, asks : Nat]
    <3>1. hist' = hist \/ hist' = [due |-> FALSE, asks |-> hist.asks + 1]
      BY <1>1 DEF TaskStarts, TaskUnwinds, TaskWakes
    <3>2. hist \in [due : BOOLEAN, asks : Nat]
      BY DEF RestOK
    <3>3. hist.asks + 1 \in Nat
      BY <3>2
    <3>4. [due |-> FALSE, asks |-> hist.asks + 1] \in [due : BOOLEAN, asks : Nat]
      BY <3>3
    <3> QED BY <3>1, <3>2, <3>4
  <2>5. RestOK' /\ TrackInv'
    BY <2>1, <2>4 DEF RestOK, TrackInv
  <2> QED BY <2>1, <2>2, <2>3, <2>5, TaskStepOK
<1>2. CASE RequestDecides(i)
  <2>1. UNCHANGED <<track, player, ops, events, service, hist, used>> /\ tasks[i].pc # "done"
    BY <1>2 DEF RequestDecides
  <2>2. ctx' \in Contexts
    BY <1>2 DEF RequestDecides, RestOK, Contexts
  <2>3. RestOK' /\ TrackInv'
    BY <2>1, <2>2 DEF RestOK, TrackInv
  <2>4. CASE RecoveryValid(tasks[i])
    <3>1. track = tasks[i].url
      BY <2>4 DEF RecoveryValid, LockFree, TrackInv
    <3>2. SetTask(i, "running")
      BY <1>2, <2>4 DEF RequestDecides
    <3> QED BY <2>1, <2>3, <3>1, <3>2, TaskStepOK
  <2>5. CASE ~RecoveryValid(tasks[i])
    <3>1. SetTask(i, "done")
      BY <1>2, <2>5 DEF RequestDecides
    <3> QED BY <2>1, <2>3, <3>1, TaskStepOK
  <2> QED BY <2>4, <2>5
<1>3. CASE RecoveryEnds(i)
  <2>1. /\ UNCHANGED <<track, ops, events, service, hist, used>> /\ SetTask(i, "done")
        /\ tasks[i].pc = "running" /\ ~tasks[i].cancelled
    BY <1>3 DEF RecoveryEnds
  <2>2. ctx' \in Contexts /\ player' \in {"idle", "playing", "ended"}
    <3>1. ctx \in Contexts /\ (ctx' = [ctx EXCEPT !.seq = @ + 1] \/ ctx' = ctx)
      BY <1>3 DEF RecoveryEnds, RestOK
    <3>2. ctx' \in Contexts
      BY <3>1 DEF Contexts
    <3> QED BY <1>3, <3>2 DEF RecoveryEnds, RestOK
  <2>3. track # None
    <3>1. tasks[i] \in TaskStates /\ track = tasks[i].url
      BY <2>1, ElementOfSeq DEF RecoversCurrent, Sound
    <3> QED BY <3>1, ConstOK DEF TaskStates
  <2>4. RestOK' /\ TrackInv'
    BY <2>1, <2>2, <2>3 DEF RestOK, TrackInv
  <2> QED BY <2>1, <2>4, TaskStepOK
<1> QED BY <1>1, <1>2, <1>3 DEF Task

\* stop() marks the scheduler before it waits, so the resets under way are older.
LEMMA StopKeeps ==
  ASSUME IInv, Stop
  PROVE  IInv'
<1> USE DEF IInv
<1>1. /\ UNCHANGED <<track, player, ctx, ops, events>> /\ Trying = {} /\ CancelTask(rr.task)
      /\ rr' = [rr EXCEPT !.stopped = TRUE, !.seq = @ + 1, !.eof = None]
      /\ hist' = [hist EXCEPT !.due = FALSE] /\ used' = [used EXCEPT !.stops = @ + 1]
      /\ service' = [st |-> IF rr.task = 0 THEN "down" ELSE "stopping", task |-> rr.task]
  BY DEF Stop, app
<1>2. rr \in Fields(Len(tasks)) /\ rr.task \in Nat /\ rr.seq \in Nat /\ rr.seq + 1 \in Nat
  BY DEF Sound, Fields
<1>3. /\ tasks' \in Seq(TaskStates) /\ Len(tasks') = Len(tasks) /\ NoNewRecovery(tasks')
      /\ \A j \in 1..Len(tasks) : tasks'[j].pc = tasks[j].pc
  BY <1>1, CancelOK
<1>4. /\ rr' \in Fields(Len(tasks)) /\ rr'.task = rr.task /\ rr'.stopped /\ rr'.seq = rr.seq + 1
  <2> DEFINE n == rr.seq + 1
  <2>1. rr' = [rr EXCEPT !.stopped = TRUE, !.seq = n, !.eof = None] /\ n \in Nat
    BY <1>1, <1>2
  <2> HIDE DEF n
  <2>2. /\ rr' \in Fields(Len(tasks)) /\ rr'.task = rr.task /\ rr'.stopped /\ rr'.seq = n
    BY <1>2, <2>1 DEF Fields
  <2> QED BY <2>2 DEF n
<1>5. Sound(rr', tasks')
  BY <1>3, <1>4 DEF Sound
<1>6. used' \in Counters
  BY <1>1 DEF RestOK, Counters
<1>7. RestOK'
  BY <1>1, <1>2, <1>6 DEF RestOK
<1>8. \A o \in ops : o.pc = "draining" /\ o.seq \in Nat /\ o.seq <= rr.seq
  <2> TAKE o \in ops
  <2>1. o \in OpStates /\ (o.kind = "stop" \/ o.pc # "trying")
    BY <1>1 DEF RestOK, Trying
  <2> QED BY <2>1 DEF OpsInv, OpStates
<1>9. OpsInv' /\ StopInv' /\ TrackInv'
  BY <1>1, <1>2, <1>4, <1>8 DEF OpsInv, StopInv, TrackInv
<1>10. DrainInv'
  <2>1. service'.st = "stopping" => rr'.task = service'.task
    BY <1>1, <1>4
  <2>2. service'.st = "down" => \A j \in 1..Len(tasks') : tasks'[j].pc = "done"
    BY <1>1, <1>3 DEF Sound
  <2> QED BY <2>1, <2>2 DEF DrainInv, QuietWhenStopped, Alive
<1>11. RecoversCurrent'
  BY <1>1, <1>3, RecoveriesKept
<1> QED BY <1>5, <1>7, <1>9, <1>10, <1>11

\* What stop() has drained was the last task.
LEMMA StopResumesKeeps ==
  ASSUME IInv, StopResumes
  PROVE  IInv'
<1> USE DEF IInv
<1> DEFINE r == [rr EXCEPT !.task = IF @ = service.task THEN 0 ELSE @]
<1>1. /\ service.st = "stopping" /\ Drained(service.task) /\ service' = [st |-> "down", task |-> 0]
      /\ UNCHANGED <<track, player, ctx, ops, events, tasks, hist, used>>
      /\ rr' = [rr EXCEPT !.task = IF @ = service.task THEN 0 ELSE @, !.eof = None]
  BY DEF StopResumes, app
<1>2. Sound(r, tasks) /\ r.seq = rr.seq /\ r.stopped = rr.stopped /\ r.task \in {0, rr.task}
  BY <1>1, DropOK
<1>3. rr' = [r EXCEPT !.eof = None]
  BY <1>1
<1> HIDE DEF r
<1>4. /\ rr' \in Fields(Len(tasks)) /\ rr'.task = r.task /\ rr'.seq = r.seq /\ rr'.stopped = r.stopped
  BY <1>2, <1>3 DEF Sound, Fields
<1>5. Sound(rr', tasks')
  BY <1>1, <1>2, <1>4, FieldsOK
<1>6. RestOK' /\ OpsInv' /\ StopInv' /\ TrackInv'
  BY <1>1, <1>2, <1>4 DEF RestOK, OpsInv, StopInv, TrackInv
<1>7. DrainInv'
  <2>1. ASSUME NEW j \in 1..Len(tasks), tasks[j].pc # "done" PROVE FALSE
    <3>1. j = rr.task /\ j # 0
      BY <2>1 DEF Sound
    <3>2. j = service.task
      BY <1>1, <3>1 DEF DrainInv
    <3> QED BY <1>1, <2>1, <3>1, <3>2 DEF Drained, Alive
  <2> QED BY <1>1, <2>1 DEF DrainInv, QuietWhenStopped, Alive
<1>8. RecoversCurrent'
  BY <1>1 DEF RecoversCurrent
<1> QED BY <1>5, <1>6, <1>7, <1>8

LEMMA StartupKeeps ==
  ASSUME IInv, Startup
  PROVE  IInv'
<1> USE DEF IInv
<1>1. /\ service' = [st |-> "up", task |-> 0]
      /\ UNCHANGED <<track, player, ctx, ops, events, rr, tasks, hist, used>>
  BY DEF Startup, app
<1>2. RestOK' /\ Sound(rr, tasks)'
  BY <1>1 DEF RestOK, Sound
<1>3. OpsInv' /\ StopInv' /\ DrainInv' /\ TrackInv' /\ RecoversCurrent'
  BY <1>1 DEF OpsInv, StopInv, DrainInv, QuietWhenStopped, TrackInv, RecoversCurrent
<1> QED BY <1>2, <1>3

-----------------------------------------------------------------------------
LEMMA InitIInv == Init => IInv
<1> SUFFICES ASSUME Init PROVE IInv
  OBVIOUS
<1>1. tasks \in Seq(TaskStates) /\ Len(tasks) = 0
  BY DEF Init
<1>2. rr \in Fields(Len(tasks)) /\ rr.task = 0
  BY <1>1, ConstOK DEF Init, Fields
<1>3. Sound(rr, tasks)
  BY <1>1, <1>2 DEF Sound
<1>4. RestOK
  BY DEF Init, RestOK, Contexts, Counters, Tracks
<1>5. OpsInv /\ StopInv /\ DrainInv /\ TrackInv /\ RecoversCurrent
  BY <1>1 DEF Init, OpsInv, StopInv, DrainInv, QuietWhenStopped, TrackInv, RecoversCurrent
<1> QED BY <1>3, <1>4, <1>5 DEF IInv

LEMMA NextIInv == IInv /\ [Next]_vars => IInv'
<1> SUFFICES ASSUME IInv, [Next]_vars PROVE IInv'
  OBVIOUS
<1>1. CASE User
  BY <1>1, BeginKeeps, StopPlaybackKeeps DEF User
<1>2. CASE Reset
  BY <1>2, ResetResumesKeeps DEF Reset
<1>3. CASE Transition
  BY <1>3, CommitKeeps, FailKeeps DEF Transition
<1>4. CASE Callback
  BY <1>4, CallbackKeeps DEF Callback
<1>5. CASE StreamEnds \/ PlayerReports
  BY <1>5, PlayerKeeps
<1>6. CASE HalfMinute
  BY <1>6, HalfMinuteKeeps
<1>7. CASE Stop \/ StopResumes \/ Startup
  BY <1>7, StopKeeps, StopResumesKeeps, StartupKeeps
<1>8. CASE \E i \in 1..Len(tasks) : Task(i)
  BY <1>8, TaskKeeps
<1>9. CASE UNCHANGED vars
  <2>1. UNCHANGED <<track, player, ctx, ops, events, rr, tasks, service, hist, used>>
    BY <1>9 DEF vars, app
  <2> QED BY <2>1 DEF IInv, RestOK, Sound, OpsInv, StopInv, DrainInv, QuietWhenStopped, Alive,
                      TrackInv, RecoversCurrent
<1> QED BY <1>1, <1>2, <1>3, <1>4, <1>5, <1>6, <1>7, <1>8, <1>9 DEF Next

LEMMA Inductive == Spec => []IInv
  BY InitIInv, NextIInv, PTL DEF Spec

\* The scheduler's fields, its tasks and the playback state keep their types; in
\* particular there are never more than RADIO_RECONNECT_MAX_ATTEMPTS attempts.
THEOREM RadioTypes == Spec => []TypeOK
<1>1. IInv => TypeOK
  BY DEF IInv, RestOK, Sound, Fields, Contexts, Counters, TypeOK
<1> QED BY <1>1, Inductive, PTL

\* There is never a second reconnect, and the handle that reset and stop cancel knows
\* the one there is.
THEOREM OneReconnectAlways == Spec => []OneReconnect
<1>1. IInv => OneReconnect
  BY DEF IInv, Sound, OneReconnect, Alive
<1> QED BY <1>1, Inductive, PTL

\* A service whose stop() has returned has no reconnect left, whatever resets it met.
THEOREM QuietAlways == Spec => []QuietWhenStopped
<1>1. IInv => QuietWhenStopped
  BY DEF IInv, DrainInv
<1> QED BY <1>1, Inductive, PTL

\* A recovery never runs for a station that is not the current track.
THEOREM RecoversCurrentAlways == Spec => []RecoversCurrent
<1>1. IInv => RecoversCurrent
  BY DEF IInv
<1> QED BY <1>1, Inductive, PTL

-----------------------------------------------------------------------------
(* A station is not hammered: every request was paid for by an attempt. *)

\* Task i may still make a request: it was scheduled in the playback that is current.
Hopeful(i) ==
  tasks[i].pc \in {"new", "sleep"} /\ ~tasks[i].cancelled /\ tasks[i].token = ctx.epoch

\* The resets under way.
Draining == {o \in ops : o.pc = "draining"}

\* Tokens are epochs of the past or 0.
TokenInv == ctx.epoch >= 1 /\ \A i \in 1..Len(tasks) : tasks[i].token <= ctx.epoch

\* A task that may make a request is for the current station, no reset or play is
\* under way, and its attempt has not been asked for.
HopeInv ==
  \A i \in 1..Len(tasks) : Hopeful(i) =>
    /\ Trying = {} /\ Draining = {} /\ track = tasks[i].url /\ rr.url = tasks[i].url
    /\ rr.active # "old" /\ hist.asks < rr.attempts

\* Whatever sets the attempts back finds no requests counted.
CountInv ==
  /\ hist.asks <= rr.attempts
  /\ (track \in Stations /\ rr.url # track) \/ rr.active = "old" \/ Draining # {} => hist.asks = 0

\* The reset of a station's play is the only one, and nothing is scheduled meanwhile.
DrainOnce == \A o \in Draining : track \in Stations => rr.resetting /\ Draining = {o}

AskInv == TokenInv /\ (~used.max.slow => HopeInv /\ CountInv /\ DrainOnce)

\* Steps that count nothing and schedule nothing.
LEMMA AskQuiet ==
  ASSUME AskInv, track' = track, ctx'.epoch = ctx.epoch, hist'.asks = hist.asks,
         used'.max = used.max, Draining' = Draining, Trying' \subseteq Trying,
         rr'.attempts = rr.attempts, rr'.url = rr.url, rr'.active = rr.active, rr'.resetting = rr.resetting,
         \A i \in 1..Len(tasks') :
           /\ i \in 1..Len(tasks) /\ tasks'[i].token = tasks[i].token
           /\ Hopeful(i)' => Hopeful(i) /\ tasks'[i].url = tasks[i].url
  PROVE  AskInv'
<1>1. TokenInv'
  BY DEF AskInv, TokenInv
<1>2. ASSUME ~used'.max.slow PROVE HopeInv' /\ CountInv' /\ DrainOnce'
  <2>1. HopeInv /\ CountInv /\ DrainOnce
    BY <1>2 DEF AskInv
  <2>2. HopeInv'
    <3> SUFFICES ASSUME NEW i \in 1..Len(tasks'), Hopeful(i)'
                 PROVE  /\ Trying' = {} /\ Draining' = {} /\ track' = tasks'[i].url
                        /\ rr'.url = tasks'[i].url /\ rr'.active # "old" /\ hist'.asks < rr'.attempts
      BY DEF HopeInv
    <3>1. i \in 1..Len(tasks) /\ Hopeful(i) /\ tasks'[i].url = tasks[i].url
      OBVIOUS
    <3> QED BY <2>1, <3>1 DEF HopeInv
  <2> QED BY <2>1, <2>2 DEF CountInv, DrainOnce
<1> QED BY <1>1, <1>2 DEF AskInv

\* Steps after which no task may make a request.
LEMMA AskHopeless ==
  ASSUME AskInv, ctx'.epoch >= ctx.epoch, ctx.epoch \in Nat, ctx'.epoch \in Nat,
         \A i \in 1..Len(tasks') : /\ i \in 1..Len(tasks) /\ tasks'[i].token = tasks[i].token
                                   /\ tasks[i].token \in Nat /\ ~Hopeful(i)',
         ~used'.max.slow => CountInv' /\ DrainOnce'
  PROVE  AskInv'
  BY DEF AskInv, TokenInv, HopeInv

\* Only the task of the handle may make a request, and none that is cancelled.
LEMMA OnlyHandle ==
  ASSUME Sound(rr, tasks)
  PROVE  /\ \A i \in 1..Len(tasks) : Hopeful(i) => i = rr.task
         /\ \A i \in 1..Len(tasks) : tasks[i] \in TaskStates
  BY ElementOfSeq DEF Sound, Hopeful

LEMMA CancelledHopeless ==
  ASSUME RestOK, Sound(rr, tasks), CancelTask(rr.task), ctx'.epoch = ctx.epoch
  PROVE  /\ Len(tasks') = Len(tasks)
         /\ \A i \in 1..Len(tasks') : /\ i \in 1..Len(tasks) /\ tasks'[i].token = tasks[i].token
                                      /\ tasks[i].token \in Nat /\ ~Hopeful(i)'
<1>1. tasks \in Seq(TaskStates) /\ rr \in Fields(Len(tasks)) /\ Len(tasks) \in Nat
  BY DEF Sound
<1>2. CASE ~Alive(rr.task)
  <2>1. tasks' = tasks
    BY <1>2 DEF CancelTask
  <2>2. \A i \in 1..Len(tasks) : tasks[i].pc = "done"
    BY <1>1, <1>2 DEF Sound, Alive
  <2> QED BY <2>1, <2>2, OnlyHandle DEF Hopeful, TaskStates
<1>3. CASE Alive(rr.task)
  <2> DEFINE n == rr.task
             t == [tasks[n] EXCEPT !.cancelled = TRUE]
  <2>1. n \in 1..Len(tasks)
    BY <1>1, <1>3 DEF Fields, Alive
  <2>2. \A i \in 1..Len(tasks) : tasks[i].pc # "done" => i = n
    BY DEF Sound
  <2>3. tasks' = [tasks EXCEPT ![n] = t]
    BY <1>3 DEF CancelTask
  <2> HIDE DEF n
  <2>4. tasks[n] \in TaskStates
    BY <1>1, <2>1, ElementOfSeq
  <2>5. t \in TaskStates /\ t.cancelled /\ t.token = tasks[n].token
    BY <2>4 DEF TaskStates
  <2> HIDE DEF t
  <2>6. /\ Len(tasks') = Len(tasks)
        /\ \A j \in 1..Len(tasks) : tasks'[j] = IF j = n THEN t ELSE tasks[j]
    BY <1>1, <2>1, <2>3, <2>5, ExceptSeq
  <2> QED BY <2>2, <2>5, <2>6, OnlyHandle DEF Hopeful, TaskStates
<1> QED BY <1>2, <1>3

LEMMA AskBegin ==
  ASSUME IInv, AskInv, NEW kind \in {"play", "replay"}, NEW target \in Tracks, Begin(kind, target)
  PROVE  AskInv'
<1> DEFINE o == Op(kind, target)
<1>1. /\ UNCHANGED <<track, rr, tasks>> /\ ops' = ops \union {o} /\ hist'.asks = hist.asks
      /\ ctx'.epoch = ctx.epoch + 1 /\ ctx.epoch \in Nat /\ used'.max = used.max
  BY DEF Begin, MayAct, IInv, RestOK, Contexts, Counters
<1>2. o.pc = "trying"
  BY DEF Op
<1> HIDE DEF o
<1>3. Draining' = Draining
  BY <1>1, <1>2 DEF Draining
<1>4. \A i \in 1..Len(tasks) : tasks[i].token \in Nat /\ ~Hopeful(i)'
  <2>1. \A i \in 1..Len(tasks) : tasks[i].token \in Nat
    BY OnlyHandle DEF IInv, TaskStates
  <2> QED BY <1>1, <2>1 DEF AskInv, TokenInv, Hopeful
<1>5. ~used'.max.slow => CountInv' /\ DrainOnce'
  BY <1>1, <1>3 DEF AskInv, CountInv, DrainOnce
<1> QED BY <1>1, <1>4, <1>5, AskHopeless

\* What a reset does to the tasks and the fields when it begins.
LEMMA AskResetBegins ==
  ASSUME RestOK, Sound(rr, tasks), NEW o \in OpStates, ResetBegins(o), ctx'.epoch = ctx.epoch
  PROVE  /\ \A i \in 1..Len(tasks') : /\ i \in 1..Len(tasks) /\ tasks'[i].token = tasks[i].token
                                      /\ tasks[i].token \in Nat /\ ~Hopeful(i)'
         /\ rr'.attempts \in Nat
         /\ \E p : /\ p.pc = "draining"
                   /\ \/ ops' = ops \ {o} /\ rr'.active = "none"
                      \/ ops' = (ops \ {o}) \union {p} /\ rr'.resetting
<1> DEFINE r == [rr EXCEPT !.eof = None, !.resetting = TRUE]
           p == [o EXCEPT !.pc = "draining", !.task = rr.task, !.seq = rr.seq, !.stopped = rr.stopped]
<1>1. tasks \in Seq(TaskStates) /\ rr \in Fields(Len(tasks)) /\ Len(tasks) \in Nat
  BY DEF Sound
<1>2. p.pc = "draining"
  BY DEF OpStates
<1>3. /\ r \in Fields(Len(tasks)) /\ r.attempts \in Nat
      /\ r.resetting /\ r.eof = None
  <2>1. rr.attempts \in Nat
    BY <1>1, ConstOK DEF Fields
  <2>2. r \in Fields(Len(tasks))
    BY <1>1 DEF Fields
  <2>3. r.resetting /\ r.eof = None /\ r.attempts = rr.attempts
    BY <1>1 DEF Fields
  <2> HIDE DEF r
  <2> QED BY <2>1, <2>2, <2>3
<1>4. IF rr.task = 0
      THEN /\ rr' = ResetEnds(r, p, None)[1] /\ UNCHANGED tasks /\ ops' = ops \ {o}
      ELSE /\ rr' = r /\ CancelTask(rr.task) /\ ops' = (ops \ {o}) \union {p}
  BY DEF ResetBegins
<1>5. CASE rr.task = 0
  <2>1. rr'.attempts = 0 /\ rr'.active = "none"
    <3> HIDE DEF p, r
    <3>1. rr' = ResetEnds(r, p, None)[1]
      BY <1>4, <1>5
    <3> DEFINE q == [r EXCEPT !.resetting = FALSE, !.attempts = 0, !.url = None, !.active = "none", !.eof = None]
    <3>2. rr' = q \/ rr' = [q EXCEPT !.stopped = @ /\ ~p.stopped]
      BY <1>3, <3>1 DEF ResetEnds
    <3> QED BY <1>3, <3>2 DEF Fields
  <2>2. CancelTask(rr.task)
    BY <1>4, <1>5 DEF CancelTask, Alive
  <2>3. ops' = ops \ {o}
    BY <1>4, <1>5
  <2> HIDE DEF p, r
  <2> QED BY <1>2, <2>1, <2>2, <2>3, CancelledHopeless
<1>6. CASE rr.task # 0
  <2>1. rr' = r /\ CancelTask(rr.task) /\ ops' = (ops \ {o}) \union {p}
    BY <1>4, <1>6
  <2> HIDE DEF p, r
  <2> QED BY <1>2, <1>3, <2>1, CancelledHopeless
<1> QED BY <1>5, <1>6

LEMMA AskCommit ==
  ASSUME IInv, AskInv, NEW o \in ops, Commit(o)
  PROVE  AskInv'
<1> USE DEF IInv
<1>1. /\ o \in Trying /\ o.pc = "trying" /\ o \in OpStates /\ track' = o.target /\ used' = used
      /\ ~used.max.slow => Draining = {}
  BY DEF Commit, Trying, MayCommit, RestOK, Draining
<1>2. ctx'.epoch = ctx.epoch /\ ctx.epoch \in Nat /\ hist.asks \in Nat
  BY DEF Commit, Authoritative, RestOK, Contexts
<1>3. hist'.asks = IF o.kind = "play" \/ o.target # track THEN 0 ELSE hist.asks
  BY DEF Commit
<1>4. CASE o.kind = "play" /\ o.target \in Stations
  <2>1. ResetBegins(o) /\ hist'.asks = 0
    BY <1>3, <1>4 DEF Commit
  <2>2. PICK p : /\ p.pc = "draining"
                 /\ \/ ops' = ops \ {o} /\ rr'.active = "none"
                    \/ ops' = (ops \ {o}) \union {p} /\ rr'.resetting
    BY <1>1, <1>2, <2>1, AskResetBegins
  <2>3. ~used.max.slow => Draining' = {} \/ (Draining' = {p} /\ rr'.resetting)
    BY <1>1, <2>2 DEF Draining
  <2>4. /\ \A i \in 1..Len(tasks') : /\ i \in 1..Len(tasks) /\ tasks'[i].token = tasks[i].token
                                     /\ tasks[i].token \in Nat /\ ~Hopeful(i)'
        /\ rr'.attempts \in Nat
    BY <1>1, <1>2, <2>1, AskResetBegins
  <2>5. ~used'.max.slow => CountInv' /\ DrainOnce'
    BY <1>1, <2>1, <2>3, <2>4 DEF CountInv, DrainOnce
  <2> QED BY <1>2, <2>4, <2>5, AskHopeless
<1>5. CASE ~(o.kind = "play" /\ o.target \in Stations)
  <2>1. ops' = ops \ {o} /\ rr' = rr /\ tasks' = tasks
    BY <1>5 DEF Commit
  <2>2. rr.attempts \in Nat
    BY ConstOK DEF Sound, Fields
  <2>3. TokenInv'
    BY <1>2, <2>1 DEF AskInv, TokenInv
  <2>4. ASSUME ~used'.max.slow PROVE HopeInv' /\ CountInv' /\ DrainOnce'
    <3>1. HopeInv /\ CountInv /\ Draining = {}
      BY <1>1, <2>4 DEF AskInv
    <3>2. Draining' = {}
      BY <2>1, <3>1 DEF Draining
    <3>3. \A i \in 1..Len(tasks) : ~Hopeful(i)
      BY <1>1, <3>1 DEF HopeInv
    <3>4. HopeInv'
      BY <1>2, <2>1, <3>3 DEF HopeInv, Hopeful
    <3> QED BY <1>1, <1>2, <1>3, <2>1, <2>2, <3>1, <3>2, <3>4 DEF CountInv, DrainOnce
  <2> QED BY <2>3, <2>4 DEF AskInv
<1> QED BY <1>4, <1>5

LEMMA AskStopPlayback ==
  ASSUME IInv, AskInv, StopPlayback
  PROVE  AskInv'
<1> USE DEF IInv
<1> DEFINE o == Op("stop", None)
<1>1. ResetBegins(o) /\ track' = None /\ hist'.asks = 0 /\ used \in Counters
  BY DEF StopPlayback, RestOK
<1>2. o \in OpStates
  BY <1>1 DEF Op, OpStates, Counters, Tracks
<1>3. ctx'.epoch = ctx.epoch /\ ctx.epoch \in Nat
  BY DEF StopPlayback, Authoritative, RestOK, Contexts
<1> HIDE DEF o
<1>4. /\ \A i \in 1..Len(tasks') : /\ i \in 1..Len(tasks) /\ tasks'[i].token = tasks[i].token
                                   /\ tasks[i].token \in Nat /\ ~Hopeful(i)'
      /\ rr'.attempts \in Nat
  BY <1>1, <1>2, <1>3, AskResetBegins
<1>5. CountInv' /\ DrainOnce'
  BY <1>1, <1>4, ConstOK DEF CountInv, DrainOnce
<1> QED BY <1>3, <1>4, <1>5, AskHopeless

\* An end of the current station: a new attempt is counted before its task can ask.
LEMMA AskEnded ==
  ASSUME RestOK, TokenInv, NEW r, Sound(r, tasks), track \in Stations, ~used'.max.slow,
         rr' = Ended(r, track, Alive(r.task))[1], tasks' = Ended(r, track, Alive(r.task))[2],
         track' = track, ctx'.epoch = ctx.epoch, hist'.asks = hist.asks,
         Trying' \subseteq Trying, Draining' = {},
         hist.asks <= r.attempts, r.url # track => hist.asks = 0,
         \A i \in 1..Len(tasks) : Hopeful(i) =>
           Trying = {} /\ tasks[i].url = track /\ r.url = track /\ hist.asks < r.attempts
  PROVE  AskInv'
<1> DEFINE q == [r EXCEPT !.active = "none", !.url = track, !.attempts = IF r.url # track THEN 0 ELSE @]
           t == [pc |-> "new", cancelled |-> FALSE, url |-> track, token |-> Token]
<1>1. tasks \in Seq(TaskStates) /\ r \in Fields(Len(tasks)) /\ Len(tasks) \in Nat /\ hist.asks \in Nat
      /\ ctx.epoch \in Nat
  BY DEF Sound, RestOK, Contexts
<1>2. /\ q \in Fields(Len(tasks)) /\ q.attempts \in Nat /\ q.url = track /\ q.active = "none"
      /\ q.attempts = IF r.url # track THEN 0 ELSE r.attempts
  <2>1. q \in Fields(Len(tasks))
    BY <1>1, ConstOK DEF Fields
  <2>2. q.url = track /\ q.active = "none" /\ q.attempts = IF r.url # track THEN 0 ELSE r.attempts
    BY <1>1 DEF Fields
  <2> HIDE DEF q
  <2>3. q.attempts \in Nat
    BY <2>1, ConstOK DEF Fields
  <2> QED BY <2>1, <2>2, <2>3
<1>3. \/ rr' = q /\ tasks' = tasks
      \/ /\ rr' = [q EXCEPT !.attempts = @ + 1, !.task = Len(tasks) + 1] /\ ~Alive(r.task)
         /\ tasks' = Append(tasks, t)
  BY DEF Ended, Started
<1>4. Token \in {0, ctx.epoch} /\ (Token # 0 => Trying = {})
  BY DEF Token, NoAttempt
<1>5. t \in TaskStates /\ t.token = Token /\ t.url = track
  <2> HIDE DEF Token
  <2> QED BY <1>1, <1>4 DEF TaskStates
<1> HIDE DEF q, t
<1>6. CASE rr' = q /\ tasks' = tasks
  <2>1. TokenInv'
    BY <1>6 DEF TokenInv
  <2>2. HopeInv'
    <3> SUFFICES ASSUME NEW i \in 1..Len(tasks), Hopeful(i)
                 PROVE  /\ Trying' = {} /\ Draining' = {} /\ track' = tasks'[i].url
                        /\ rr'.url = tasks'[i].url /\ rr'.active # "old" /\ hist'.asks < rr'.attempts
      BY <1>6 DEF HopeInv, Hopeful
    <3> QED BY <1>2, <1>6
  <2>3. CountInv' /\ DrainOnce'
    BY <1>1, <1>2, <1>6 DEF CountInv, DrainOnce
  <2> QED BY <2>1, <2>2, <2>3 DEF AskInv
<1>7. CASE /\ rr' = [q EXCEPT !.attempts = @ + 1, !.task = Len(tasks) + 1] /\ ~Alive(r.task)
           /\ tasks' = Append(tasks, t)
  <2>1. /\ Len(tasks') = Len(tasks) + 1 /\ tasks'[Len(tasks) + 1] = t
        /\ \A i \in 1..Len(tasks) : tasks'[i] = tasks[i]
    BY <1>1, <1>5, <1>7, AppendProperties
  <2>2. \A i \in 1..Len(tasks') : i \in 1..Len(tasks) \/ i = Len(tasks) + 1
    BY <1>1, <2>1
  <2>3. rr'.attempts = q.attempts + 1 /\ rr'.url = track /\ rr'.active = "none"
    BY <1>2, <1>7 DEF Fields
  <2>4. \A i \in 1..Len(tasks) : tasks[i].pc = "done"
    BY <1>1, <1>7 DEF Sound, Alive
  <2>5. TokenInv'
    BY <1>1, <1>4, <1>5, <2>1, <2>2 DEF TokenInv
  <2>6. hist.asks <= q.attempts
    BY <1>1, <1>2
  <2>7. HopeInv'
    <3> SUFFICES ASSUME NEW i \in 1..Len(tasks'), Hopeful(i)'
                 PROVE  /\ Trying' = {} /\ Draining' = {} /\ track' = tasks'[i].url
                        /\ rr'.url = tasks'[i].url /\ rr'.active # "old" /\ hist'.asks < rr'.attempts
      BY DEF HopeInv
    <3>1. i = Len(tasks) + 1
      BY <2>1, <2>2, <2>4 DEF Hopeful
    <3>2. Token # 0
      BY <1>5, <2>1, <3>1 DEF Hopeful, TokenInv
    <3> QED BY <1>1, <1>2, <1>4, <1>5, <2>1, <2>3, <2>6, <3>1, <3>2
  <2>8. CountInv' /\ DrainOnce'
    BY <1>1, <1>2, <2>3, <2>6 DEF CountInv, DrainOnce
  <2> QED BY <2>5, <2>7, <2>8 DEF AskInv
<1> QED BY <1>3, <1>6, <1>7

\* The tokens need no assumption on the instance.
LEMMA EndedTokens ==
  ASSUME RestOK, TokenInv, NEW r, Sound(r, tasks), NEW url \in Stations, ctx'.epoch = ctx.epoch,
         tasks' = Ended(r, url, Alive(r.task))[2]
  PROVE  TokenInv'
<1> DEFINE t == [pc |-> "new", cancelled |-> FALSE, url |-> url, token |-> Token]
<1>1. tasks' = tasks \/ tasks' = Append(tasks, t)
  BY DEF Ended, Started
<1>2. Token \in {0, ctx.epoch} /\ ctx.epoch \in Nat
  BY DEF Token, RestOK, Contexts
<1>3. t \in TaskStates /\ t.token = Token
  <2> HIDE DEF Token
  <2> QED BY <1>2 DEF TaskStates
<1> HIDE DEF t
<1>4. CASE tasks' = Append(tasks, t)
  <2>1. tasks \in Seq(TaskStates) /\ Len(tasks) \in Nat
    BY DEF Sound
  <2>2. /\ Len(tasks') = Len(tasks) + 1 /\ tasks'[Len(tasks) + 1] = t
        /\ \A i \in 1..Len(tasks) : tasks'[i] = tasks[i]
    BY <1>3, <1>4, <2>1, AppendProperties
  <2>3. \A i \in 1..Len(tasks') : i \in 1..Len(tasks) \/ i = Len(tasks) + 1
    BY <2>1, <2>2
  <2> QED BY <1>2, <1>3, <2>2, <2>3 DEF TokenInv
<1>5. CASE tasks' = tasks
  BY <1>5 DEF TokenInv
<1> QED BY <1>1, <1>4, <1>5

\* What a reset leaves behind: no attempts, and perhaps the task of a deferred end.
LEMMA AskResetResumes ==
  ASSUME IInv, AskInv, NEW o \in ops, ResetResumes(o)
  PROVE  AskInv'
<1> USE DEF IInv
<1> DEFINE r == [rr EXCEPT !.task = IF @ = o.task THEN 0 ELSE @]
           q == [r EXCEPT !.resetting = FALSE, !.attempts = 0, !.url = None, !.active = "none", !.eof = None]
           b == q.stopped /\ ~o.stopped
           s == [q EXCEPT !.stopped = b]
<1>1. /\ o.pc = "draining" /\ Drained(o.task) /\ ops' = ops \ {o} /\ UNCHANGED <<track, hist, used>>
      /\ rr' = ResetEnds(r, o, track)[1] /\ tasks' = ResetEnds(r, o, track)[2]
  BY DEF ResetResumes
<1>2. ctx'.epoch = ctx.epoch /\ ctx.epoch \in Nat /\ hist.asks \in Nat
  BY DEF ResetResumes, Authoritative, RestOK, Contexts
<1>3. Sound(r, tasks)
  BY <1>1, DropOK
<1>4. r \in Fields(Len(tasks)) /\ tasks \in Seq(TaskStates)
  BY <1>3 DEF Sound
<1> HIDE DEF r
<1>5. /\ q \in Fields(Len(tasks)) /\ q.task = r.task /\ q.attempts = 0 /\ q.url = None /\ q.active = "none"
  BY <1>4, ConstOK DEF Fields
<1>6. b \in BOOLEAN
  BY Zenon
<1>7. \/ (rr' = q \/ rr' = s) /\ tasks' = tasks
      \/ /\ r.eof # None /\ track = r.eof
         /\ rr' = Ended(s, r.eof, Alive(s.task))[1] /\ tasks' = Ended(s, r.eof, Alive(s.task))[2]
  BY <1>1 DEF ResetEnds
<1> HIDE DEF q, b
<1>8. /\ s \in Fields(Len(tasks)) /\ s.task = q.task /\ s.attempts = 0 /\ s.url = None /\ s.active = "none"
  BY <1>5, <1>6 DEF Fields
<1>9. Sound(s, tasks)
  BY <1>3, <1>5, <1>8, FieldsOK
<1> HIDE DEF s
<1>10. Trying' \subseteq Trying /\ o \in Draining /\ Draining' = Draining \ {o}
  BY <1>1 DEF Trying, Draining
<1>11. ASSUME ~used.max.slow
       PROVE  /\ hist.asks = 0 /\ (track \in Stations => Draining' = {})
              /\ \A i \in 1..Len(tasks) : ~Hopeful(i)
  BY <1>10, <1>11 DEF AskInv, CountInv, DrainOnce, HopeInv
<1>12. CASE (rr' = q \/ rr' = s) /\ tasks' = tasks
  <2>1. TokenInv'
    BY <1>2, <1>12 DEF AskInv, TokenInv
  <2>2. ASSUME ~used'.max.slow PROVE HopeInv' /\ CountInv' /\ DrainOnce'
    <3>1. ~used.max.slow
      BY <1>1, <2>2
    <3>2. rr'.attempts = 0
      BY <1>5, <1>8, <1>12
    <3>3. HopeInv'
      BY <1>2, <1>11, <1>12, <3>1 DEF HopeInv, Hopeful
    <3> QED BY <1>1, <1>11, <3>1, <3>2, <3>3 DEF CountInv, DrainOnce
  <2> QED BY <2>1, <2>2 DEF AskInv
<1>13. CASE /\ r.eof # None /\ track = r.eof
            /\ rr' = Ended(s, r.eof, Alive(s.task))[1] /\ tasks' = Ended(s, r.eof, Alive(s.task))[2]
  <2>1. track \in Stations /\ TokenInv
    BY <1>4, <1>13 DEF Fields, AskInv
  <2>2. CASE used'.max.slow
    BY <1>2, <1>9, <1>13, <2>1, <2>2, EndedTokens DEF AskInv
  <2>3. CASE ~used'.max.slow
    <3>1. /\ hist.asks = 0 /\ Draining' = {} /\ \A i \in 1..Len(tasks) : ~Hopeful(i)
          /\ hist.asks <= s.attempts /\ hist'.asks = hist.asks /\ track' = track
          /\ rr' = Ended(s, track, Alive(s.task))[1] /\ tasks' = Ended(s, track, Alive(s.task))[2]
      BY <1>1, <1>8, <1>11, <1>13, <2>1, <2>3
    <3> QED BY <1>2, <1>9, <1>10, <2>1, <2>3, <3>1, AskEnded
  <2> QED BY <2>2, <2>3
<1> QED BY <1>7, <1>12, <1>13

\* A callback: what makes the scheduler forget its attempts comes without requests.
LEMMA AskCallback ==
  ASSUME IInv, AskInv, NEW e \in events, Check(e) \/ Deliver(e)
  PROVE  AskInv'
<1> USE DEF IInv
<1>1. UNCHANGED <<track, ops, used>> /\ (Apply(e) \/ UNCHANGED <<rr, tasks, hist>>)
  BY DEF Check, Deliver
<1>2. ctx'.epoch = ctx.epoch /\ ctx.epoch \in Nat /\ hist.asks \in Nat
  BY DEF Check, Deliver, RestOK, Contexts
<1>3. Trying' = Trying /\ Draining' = Draining
  BY <1>1 DEF Trying, Draining
<1>4. hist'.asks = hist.asks
  BY <1>1 DEF Apply, RestOK
<1>5. rr \in Fields(Len(tasks)) /\ tasks \in Seq(TaskStates)
  BY DEF Sound
<1>6. CASE UNCHANGED <<rr, tasks>>
  BY <1>1, <1>2, <1>3, <1>4, <1>6, AskQuiet DEF Hopeful
<1>7. CASE ~UNCHANGED <<rr, tasks>> /\ track \in Stations /\ Apply(e)
  <2> DEFINE x == Schedule(rr, e.st, Alive(rr.task))
  <2>1. rr' = x[1] /\ tasks' = x[2]
    BY <1>7 DEF Apply
  <2>2. \/ tasks' = tasks /\ rr' = DeferResetEof(rr, e.st)
        \/ tasks' = tasks /\ rr' = Playing(rr, track)
        \/ tasks' = tasks /\ rr' = [rr EXCEPT !.active = "none"]
        \/ /\ ~rr.resetting /\ rr' = Ended(rr, track, Alive(rr.task))[1]
           /\ tasks' = Ended(rr, track, Alive(rr.task))[2]
    BY <1>7, <2>1 DEF Schedule
  <2> HIDE DEF x
  <2>3. CASE tasks' = tasks /\ rr' = DeferResetEof(rr, e.st)
    <3>1. /\ rr'.attempts = rr.attempts /\ rr'.url = rr.url /\ rr'.active = rr.active
          /\ rr'.resetting = rr.resetting
      BY <1>5, <2>3 DEF DeferResetEof, Fields
    <3> QED BY <1>1, <1>2, <1>3, <1>4, <2>3, <3>1, AskQuiet DEF Hopeful
  <2>4. CASE tasks' = tasks /\ (rr' = Playing(rr, track) \/ rr' = [rr EXCEPT !.active = "none"])
    <3>1. /\ rr'.resetting = rr.resetting /\ rr'.active \in {"none", "young", rr.active}
          /\ rr'.url \in {rr.url, track} /\ rr.attempts \in Nat
          /\ rr'.attempts = rr.attempts \/ (rr'.attempts = 0 /\ (rr.url # track \/ rr.active = "old"))
      <4>1. rr.attempts \in Nat
        BY <1>5, ConstOK DEF Fields
      <4>2. CASE rr' = [rr EXCEPT !.active = "none"]
        BY <1>5, <4>1, <4>2 DEF Fields
      <4>3. CASE rr' = [rr EXCEPT !.url = track, !.attempts = 0, !.active = "young"] /\ rr.url # track
        BY <1>5, <4>1, <4>3 DEF Fields
      <4>4. CASE rr' = [rr EXCEPT !.active = "young"]
        BY <1>5, <4>1, <4>4 DEF Fields
      <4>5. CASE rr' = [rr EXCEPT !.attempts = 0] /\ rr.active = "old"
        BY <1>5, <4>1, <4>5 DEF Fields
      <4>6. CASE rr' = rr
        BY <4>1, <4>6
      <4> QED BY <2>4, <4>2, <4>3, <4>4, <4>5, <4>6 DEF Playing
    <3>2. TokenInv'
      BY <1>2, <2>4 DEF AskInv, TokenInv
    <3>3. ASSUME ~used'.max.slow PROVE HopeInv' /\ CountInv' /\ DrainOnce'
      <4>1. HopeInv /\ CountInv /\ DrainOnce
        BY <1>1, <3>3 DEF AskInv
      <4>2. HopeInv'
        <5> SUFFICES ASSUME NEW i \in 1..Len(tasks), Hopeful(i)
                     PROVE  /\ Trying' = {} /\ Draining' = {} /\ track' = tasks'[i].url
                            /\ rr'.url = tasks'[i].url /\ rr'.active # "old" /\ hist'.asks < rr'.attempts
          BY <1>2, <2>4 DEF HopeInv, Hopeful
        <5>1. /\ Trying = {} /\ Draining = {} /\ track = tasks[i].url /\ rr.url = tasks[i].url
              /\ rr.active # "old" /\ hist.asks < rr.attempts
          BY <4>1 DEF HopeInv
        <5> QED BY <1>1, <1>3, <1>4, <2>4, <3>1, <5>1
      <4> QED BY <1>1, <1>2, <1>3, <1>4, <1>7, <3>1, <4>1, <4>2 DEF CountInv, DrainOnce
    <3> QED BY <3>2, <3>3 DEF AskInv
  <2>5. CASE /\ ~rr.resetting /\ rr' = Ended(rr, track, Alive(rr.task))[1]
             /\ tasks' = Ended(rr, track, Alive(rr.task))[2]
    <3>1. CASE used'.max.slow
      BY <1>2, <1>7, <2>5, <3>1, EndedTokens DEF AskInv
    <3>2. CASE ~used'.max.slow
      <4>1. HopeInv /\ CountInv /\ DrainOnce /\ TokenInv
        BY <1>1, <3>2 DEF AskInv
      <4>2. Draining' = {} /\ Trying' \subseteq Trying /\ track' = track
        BY <1>1, <1>3, <1>7, <2>5, <4>1 DEF DrainOnce
      <4>3. /\ hist.asks <= rr.attempts /\ (rr.url # track => hist.asks = 0)
            /\ \A i \in 1..Len(tasks) : Hopeful(i) =>
                 Trying = {} /\ tasks[i].url = track /\ rr.url = track /\ hist.asks < rr.attempts
        BY <1>7, <4>1 DEF CountInv, HopeInv
      <4> QED BY <1>2, <1>4, <1>7, <2>5, <3>2, <4>1, <4>2, <4>3, AskEnded
    <3> QED BY <3>1, <3>2
  <2> QED BY <2>2, <2>3, <2>4, <2>5
<1>8. track \notin Stations /\ Apply(e) => UNCHANGED <<rr, tasks>>
  BY DEF Apply, Schedule
<1> QED BY <1>1, <1>6, <1>7, <1>8

LEMMA AskPlayer ==
  ASSUME IInv, AskInv, StreamEnds \/ PlayerReports
  PROVE  AskInv'
<1>1. UNCHANGED <<track, ops, rr, tasks>> /\ (Report("ended") \/ Report(player))
  BY DEF StreamEnds, PlayerReports
<1>2. ctx'.epoch = ctx.epoch /\ used'.max = used.max
  BY <1>1 DEF Report, IInv, RestOK, Contexts, Counters
<1>3. hist'.asks = hist.asks
  BY DEF StreamEnds, PlayerReports, IInv, RestOK
<1>4. Trying' = Trying /\ Draining' = Draining
  BY <1>1 DEF Trying, Draining
<1> QED BY <1>1, <1>2, <1>3, <1>4, AskQuiet DEF Hopeful

LEMMA AskHalfMinute ==
  ASSUME IInv, AskInv, HalfMinute
  PROVE  AskInv'
<1> USE DEF IInv
<1>1. /\ UNCHANGED <<track, ctx, ops, tasks, used>> /\ hist'.asks = 0
      /\ \A i \in 1..Len(tasks) : tasks[i].pc \notin {"new", "sleep"}
      /\ rr' = [rr EXCEPT !.active = "old"]
  BY DEF HalfMinute, app, RestOK
<1>2. rr'.attempts = rr.attempts /\ rr.attempts \in Nat /\ rr'.resetting = rr.resetting /\ ctx.epoch \in Nat
  BY <1>1, ConstOK DEF Sound, Fields, RestOK, Contexts
<1>3. \A i \in 1..Len(tasks) : tasks[i].token \in Nat /\ ~Hopeful(i)'
  BY <1>1, OnlyHandle DEF Hopeful, TaskStates
<1>4. ~used'.max.slow => CountInv' /\ DrainOnce'
  BY <1>1, <1>2 DEF AskInv, CountInv, DrainOnce, Draining
<1> QED BY <1>1, <1>2, <1>3, <1>4, AskHopeless

\* A request was attempted before: the task that makes it was the hopeful one.
LEMMA AskTask ==
  ASSUME IInv, AskInv, NEW i \in 1..Len(tasks), Task(i)
  PROVE  AskInv'
<1> USE DEF IInv
<1>1. PICK pc \in {"sleep", "asking", "running", "done"} :
        /\ SetTask(i, pc)
        /\ \/ hist' = hist /\ ctx' = ctx /\ (tasks[i].pc = "new" \/ pc = "done")
           \/ hist' = hist /\ pc \in {"asking", "running", "done"}
           \/ TaskWakes(i) /\ StillWanted(tasks[i])
  BY DEF Task, TaskStarts, TaskUnwinds, TaskWakes, RequestDecides, RecoveryEnds, app
<1>2. tasks[i].pc # "done" /\ UNCHANGED <<track, ops, used>>
  BY DEF Task, TaskStarts, TaskUnwinds, TaskWakes, RequestDecides, RecoveryEnds, app
<1>3. /\ Len(tasks') = Len(tasks) /\ \A j \in 1..Len(tasks) : j # i => tasks'[j] = tasks[j]
      /\ tasks'[i] = [tasks[i] EXCEPT !.pc = pc] /\ tasks[i] \in TaskStates
  BY <1>1, <1>2, SetTaskOK
<1>4. /\ tasks'[i].pc = pc /\ tasks'[i].url = tasks[i].url /\ tasks'[i].token = tasks[i].token
      /\ tasks'[i].cancelled = tasks[i].cancelled
  BY <1>3 DEF TaskStates
<1>5. /\ rr'.attempts = rr.attempts /\ rr'.url = rr.url /\ rr'.active = rr.active
      /\ rr'.resetting = rr.resetting /\ rr.attempts \in Nat
  BY <1>1, ConstOK DEF SetTask, Sound, Fields
<1>6. Trying' = Trying /\ Draining' = Draining
  BY <1>2 DEF Trying, Draining
<1>7. \A j \in 1..Len(tasks) : tasks[j].pc # "done" => j = i
  BY <1>2 DEF Sound
<1>8. ctx.epoch \in Nat /\ ctx'.epoch \in Nat /\ ctx'.epoch >= ctx.epoch /\ hist.asks \in Nat
  <2>1. ctx \in Contexts /\ hist.asks \in Nat
    BY DEF RestOK
  <2>2. ctx' = ctx \/ ctx' = [ctx EXCEPT !.epoch = @ + 1] \/ ctx' = [ctx EXCEPT !.seq = @ + 1]
    BY DEF Task, TaskStarts, TaskUnwinds, TaskWakes, RequestDecides, RecoveryEnds, app
  <2> QED BY <2>1, <2>2 DEF Contexts
<1>9. CASE hist' = hist /\ ctx' = ctx /\ (tasks[i].pc = "new" \/ pc = "done")
  <2>1. \A j \in 1..Len(tasks') :
           /\ j \in 1..Len(tasks) /\ tasks'[j].token = tasks[j].token
           /\ Hopeful(j)' => Hopeful(j) /\ tasks'[j].url = tasks[j].url
    BY <1>3, <1>4, <1>9 DEF Hopeful
  <2> QED BY <1>2, <1>5, <1>6, <1>9, <2>1, AskQuiet
<1>10. ASSUME pc \in {"asking", "running", "done"}
       PROVE  \A j \in 1..Len(tasks') : /\ j \in 1..Len(tasks) /\ tasks'[j].token = tasks[j].token
                                        /\ tasks[j].token \in Nat /\ ~Hopeful(j)'
  <2> SUFFICES ASSUME NEW j \in 1..Len(tasks)
               PROVE  /\ tasks'[j].token = tasks[j].token /\ tasks[j].token \in Nat /\ ~Hopeful(j)'
    BY <1>3
  <2>1. tasks[j].token \in Nat
    BY OnlyHandle DEF TaskStates
  <2> QED BY <1>3, <1>4, <1>7, <1>10, <2>1 DEF Hopeful
<1>11. CASE hist' = hist /\ pc \in {"asking", "running", "done"}
  <2>1. ~used'.max.slow => CountInv' /\ DrainOnce'
    BY <1>2, <1>5, <1>6, <1>11 DEF AskInv, CountInv, DrainOnce
  <2> QED BY <1>8, <1>10, <1>11, <2>1, AskHopeless
<1>12. CASE TaskWakes(i) /\ StillWanted(tasks[i])
  <2>1. hist'.asks = hist.asks + 1 /\ SetTask(i, "asking") /\ Hopeful(i)
    BY <1>12 DEF TaskWakes, StillWanted, ContextIsCurrent, Hopeful
  <2>2. pc = "asking"
    <3>1. tasks' = [tasks EXCEPT ![i].pc = "asking"] /\ i \in DOMAIN tasks
      BY <2>1 DEF SetTask, Sound
    <3>2. tasks'[i] = [tasks[i] EXCEPT !.pc = "asking"]
      BY <3>1
    <3>3. tasks'[i].pc = "asking"
      BY <1>3, <3>2 DEF TaskStates
    <3> QED BY <1>4, <3>3
  <2>3. ~used'.max.slow => CountInv' /\ DrainOnce'
    <3> SUFFICES ASSUME ~used'.max.slow PROVE CountInv' /\ DrainOnce'
      OBVIOUS
    <3>1. HopeInv /\ CountInv /\ DrainOnce
      BY <1>2 DEF AskInv
    <3>2. /\ Draining = {} /\ track = tasks[i].url /\ rr.url = tasks[i].url
          /\ rr.active # "old" /\ hist.asks < rr.attempts
      BY <2>1, <3>1 DEF HopeInv
    <3> QED BY <1>2, <1>5, <1>6, <1>8, <2>1, <3>2 DEF CountInv, DrainOnce
  <2> QED BY <1>8, <1>10, <2>2, <2>3, AskHopeless
<1> QED BY <1>1, <1>9, <1>11, <1>12

LEMMA AskService ==
  ASSUME IInv, AskInv, Stop \/ StopResumes \/ Startup
  PROVE  AskInv'
<1> USE DEF IInv
<1>1. /\ UNCHANGED <<track, ctx, ops>> /\ hist'.asks = hist.asks /\ used'.max = used.max
  BY DEF Stop, StopResumes, Startup, app, RestOK, Counters
<1>2. Trying' = Trying /\ Draining' = Draining /\ ctx.epoch \in Nat
  BY <1>1 DEF Trying, Draining, RestOK, Contexts
<1>3. /\ rr'.attempts = rr.attempts /\ rr'.url = rr.url /\ rr'.active = rr.active
      /\ rr'.resetting = rr.resetting
  <2>1. rr \in Fields(Len(tasks))
    BY DEF Sound
  <2> QED BY <2>1 DEF Stop, StopResumes, Startup, Fields
<1>4. CASE Stop
  <2>1. CancelTask(rr.task)
    BY <1>4 DEF Stop
  <2>2. \A i \in 1..Len(tasks') : /\ i \in 1..Len(tasks) /\ tasks'[i].token = tasks[i].token
                                  /\ tasks[i].token \in Nat /\ ~Hopeful(i)'
    BY <1>1, <2>1, CancelledHopeless
  <2> QED BY <1>1, <1>2, <1>3, <2>2, AskQuiet
<1>5. CASE StopResumes \/ Startup
  <2>1. tasks' = tasks
    BY <1>5 DEF StopResumes, Startup
  <2> QED BY <1>1, <1>2, <1>3, <2>1, AskQuiet DEF Hopeful
<1> QED BY <1>4, <1>5

LEMMA AskFail ==
  ASSUME IInv, AskInv, NEW o \in ops, Fail(o)
  PROVE  AskInv'
<1>1. /\ o \in Trying /\ ops' = ops \ {o} /\ UNCHANGED <<track, ctx, rr, tasks, hist, used>>
  BY DEF Fail
<1>2. Trying' \subseteq Trying /\ Draining' = Draining
  BY <1>1 DEF Trying, Draining
<1> QED BY <1>1, <1>2, AskQuiet DEF Hopeful

LEMMA AskNext == IInv /\ AskInv /\ [Next]_vars => AskInv'
<1> SUFFICES ASSUME IInv, AskInv, [Next]_vars PROVE AskInv'
  OBVIOUS
<1>1. CASE User
  BY <1>1, AskBegin, AskStopPlayback DEF User
<1>2. CASE Reset
  BY <1>2, AskResetResumes DEF Reset
<1>3. CASE Transition
  BY <1>3, AskCommit, AskFail DEF Transition
<1>4. CASE Callback
  BY <1>4, AskCallback DEF Callback
<1>5. CASE StreamEnds \/ PlayerReports \/ HalfMinute
  BY <1>5, AskPlayer, AskHalfMinute
<1>6. CASE Stop \/ StopResumes \/ Startup
  BY <1>6, AskService
<1>7. CASE \E i \in 1..Len(tasks) : Task(i)
  BY <1>7, AskTask
<1>8. CASE UNCHANGED vars
  <2>1. UNCHANGED <<track, ctx, ops, rr, tasks, hist, used>>
    BY <1>8 DEF vars, app
  <2> QED BY <2>1, AskQuiet DEF Hopeful, Trying, Draining
<1> QED BY <1>1, <1>2, <1>3, <1>4, <1>5, <1>6, <1>7, <1>8 DEF Next

LEMMA AskInit == Init => AskInv
<1> SUFFICES ASSUME Init PROVE AskInv
  OBVIOUS
<1>1. Len(tasks) = 0 /\ Draining = {}
  BY DEF Init, Draining
<1> QED BY <1>1 DEF Init, AskInv, TokenInv, HopeInv, CountInv, DrainOnce

\* Between two plays of a station at most RADIO_RECONNECT_MAX_ATTEMPTS requests are made
\* for it unless the stream was stable in between; the types are kept, and a service
\* that has stopped has no reconnect left.
THEOREM ReconnectAlwaysSafe == Spec => []ReconnectSafe
<1>1. IInv /\ AskInv => Bounded
  <2> SUFFICES ASSUME IInv, AskInv, ~used.max.slow PROVE hist.asks <= MaxAttempts
    BY DEF Bounded
  <2>1. rr.attempts \in 0..MaxAttempts /\ hist.asks \in Nat /\ MaxAttempts \in Nat
    BY ConstOK DEF IInv, Sound, Fields, RestOK
  <2> QED BY <2>1 DEF AskInv, CountInv
<1>2. Spec => [](IInv /\ AskInv)
  BY InitIInv, NextIInv, AskInit, AskNext, PTL DEF Spec
<1> QED BY <1>1, <1>2, RadioTypes, QuietAlways, PTL DEF ReconnectSafe
==============================================================================
