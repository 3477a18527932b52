------------------------------ MODULE PageProof ------------------------------
(***************************************************************************)
(* Proofs about the web page: its measurement runs (MeasurementJobs), for  *)
(* any number of runs, jobs, faults and clicks, its volume slider          *)
(* (VolumeControl), for any volumes and any sequence of changes, and its   *)
(* footer with the provider polls (Footer), whatever server and user do.   *)
(***************************************************************************)
EXTENDS MeasurementJobs, VolumeControl, Footer, FiniteSetTheorems, SequenceTheorems, TLAPS

-----------------------------------------------------------------------------
(* The inductive invariant *)

Active(f) == f.pc # "off"
Asking(f) == f.pc \in {"wait", "poll", "asked"}
Starts(f) == f.pc \in {"starting", "started"}

\* A flow that has the page for itself: the user cannot start another one beside it.
Exclusive(f) ==
  \/ f.type \in Tasks /\ Active(f)
  \/ f.type = "recovery" /\ Asking(f)
  \/ f.type = "sweep" /\ Starts(f)

\* The steps of each kind of flow; a job is known from the server's answer on.
PcOK(f) ==
  /\ f.type = "none" => ~Active(f)
  /\ f.type = "sweep" => f.pc \notin {"next", "find"}
  /\ f.type = "hybrid" => f.pc \notin {"post", "find"}
  /\ f.type \in Tasks => f.pc \notin {"next", "post", "find"}
  /\ f.type = "recovery" => f.pc \in {"off", "find", "poll", "asked"}
  /\ Asking(f) \/ f.pc = "started" => f.job # 0
  /\ f.pc = "starting" => f.job = 0

\* What the page p says of a flow f.
OnPage(f, p) ==
  /\ f.gen <= p.gen
  /\ f.type = "hybrid" /\ Active(f) => p.wiz.run
  /\ f.type = "recovery" /\ Active(f) => p.recovering
  /\ f.type = "recovery" /\ Asking(f) => p.own["sub"]
  /\ f.type \in Tasks /\ Active(f) =>
       /\ p.own[f.type] /\ p.job = 0 /\ ~p.wiz.open /\ ~p.wiz.run /\ f.gen = p.gen
       /\ Asking(f) => p.id[f.type] = f.job
  /\ f.type = "sweep" /\ Starts(f) =>
       p.start /\ p.job = 0 /\ ~p.wiz.open /\ ~p.wiz.run /\ f.gen = p.gen

\* Two flows.
Apart(f, g) ==
  /\ ~(Exclusive(f) /\ Exclusive(g))
  /\ f.type = "hybrid" /\ g.type = "hybrid" => ~(Active(f) /\ Active(g))
  /\ f.type = "recovery" /\ g.type = "recovery" => ~(Active(f) /\ Active(g))

\* Flow f began before flow g: a sweep ends every claim of an earlier flow on the result.
Before(f, g) ==
  g.type = "sweep" =>
    /\ f.type \in {"sweep", "recovery"} => f.gen < g.gen
    /\ f.type \in Tasks \union {"hybrid"} => ~Active(f)
    /\ f.type = "recovery" => ~Asking(f)

FlowInv ==
  /\ \A n \in Flows : PcOK(fl[n]) /\ OnPage(fl[n], m) /\ fl[n].type \in used.max.kinds \union {"none"}
  /\ \A n \in Flows : n > used.flows => fl[n].type = "none"
  /\ \A n, k \in Flows : n # k => Apart(fl[n], fl[k])
  /\ \A n, k \in Flows : n < k => Before(fl[n], fl[k])

\* The server's jobs are numbered as they come, and one runs at a time.
JobInv ==
  /\ \A j, k \in Jobs : jobs[j].status \in Live /\ jobs[k].status \in Live => j = k
  /\ \A j \in Jobs : j <= used.jobs <=> jobs[j].status # "none"
  /\ \A j \in Jobs : jobs[j].status = "none" => jobs[j].kind = "none"

\* Whatever the page or a request names is a job the server has given out.
KnownInv ==
  /\ m.job <= used.jobs /\ m.wiz.job <= used.jobs /\ \A t \in Tasks : m.id[t] <= used.jobs
  /\ \A n \in Flows : fl[n].job <= used.jobs
  /\ \A c \in cans : c.job <= used.jobs

\* A cancel that a flow awaits is for that flow's job, and the only one; a cancel that was
\* answered has stopped its job.
CancelInv ==
  /\ \A c \in cans : c.by # 0 => fl[c.by].pc = "wait" /\ fl[c.by].job = c.job
  /\ \A c, d \in cans : c.by = d.by /\ c.by # 0 => c = d
  /\ \A c \in cans : c.val \notin {"sent", "lost"} => jobs[c.job].status # "running"

Orphan(f, js) ==
  f.type = "align" /\ ~Active(f) /\ f.job # 0 /\ f.got # "lost" /\ js[f.job].status = "running"

OrphanInv == \A n \in Flows : ~Orphan(fl[n], jobs)

Bounds == [flows : 0..MaxFlows, jobs : 0..MaxJobs, faults : Nat, cancels : Nat, max : Instances]
JobStates == [kind : {"none", "sweep", "hybrid"} \union Tasks,
              status : {"none", "gone"} \union Live \union Ended]

Types ==
  /\ m \in Pages /\ fl \in [Flows -> FlowStates] /\ cans \subseteq CancelReqs
  /\ jobs \in [Jobs -> JobStates] /\ used \in Bounds /\ wish \in BOOLEAN

\* The inductive invariant.
IInv == Types /\ FlowInv /\ JobInv /\ KnownInv /\ CancelInv /\ OrphanInv

-----------------------------------------------------------------------------
(* Pages *)

Wizards == [open : BOOLEAN, run : BOOLEAN, cancel : BOOLEAN, job : 0..MaxJobs, errs : Nat]

LEMMA ConstOK == MaxFlows \in Nat /\ MaxJobs \in Nat /\ MaxErrors \in Nat /\ 0 \in 0..MaxJobs
  BY MeasurementAssumption

LEMMA CaseOK ==
  ASSUME NEW i \in Instances
  PROVE  /\ i.kinds \subseteq {"sweep", "hybrid", "recovery"} \union Tasks
         /\ i.flows \in 0..MaxFlows
  BY MeasurementAssumption

LEMMA PageOK ==
  ASSUME NEW p \in Pages
  PROVE  /\ p.gen \in Nat /\ p.start \in BOOLEAN /\ p.job \in 0..MaxJobs
         /\ p.kind \in {"", "sweep", "hybrid"} \union Tasks /\ p.cancel \in BOOLEAN
         /\ p.own \in [Tasks -> BOOLEAN] /\ p.id \in [Tasks -> 0..MaxJobs]
         /\ p.ask \in [Tasks -> BOOLEAN] /\ p.wiz \in Wizards /\ p.recovering \in BOOLEAN
         /\ p.handled \in 0..MaxJobs /\ p.shown \in 0..MaxJobs
  BY DEF Pages, Wizards

\* The fields of a page that say something of the flows.
Marks(p) == <<p.gen, p.own, p.id, p.recovering, p.wiz>>
Sweeps(p) == <<p.start, p.job, p.kind>>

LEMMA SweepClearedOK ==
  ASSUME NEW p \in Pages
  PROVE  LET q == SweepCleared(p)
         IN /\ q \in Pages /\ Marks(q) = Marks(p) /\ q.shown = p.shown
            /\ ~q.start /\ q.job = 0 /\ q.kind = ""
  BY ConstOK DEF SweepCleared, Pages, Marks

LEMMA SweepEndsOK ==
  ASSUME NEW p \in Pages, NEW f
  PROVE  LET q == SweepEnds(p, f)
         IN /\ q \in Pages /\ Marks(q) = Marks(p) /\ q.shown = p.shown /\ q.job = p.job
            /\ p.gen # f.gen => Sweeps(q) = Sweeps(p)
            /\ p.gen = f.gen => ~q.start
<1> DEFINE k == IF p.job = 0 THEN "" ELSE p.kind
           c == p.job # 0 /\ p.cancel
           q == [p EXCEPT !.start = FALSE, !.kind = k, !.cancel = c]
<1>1. SweepEnds(p, f) = IF p.gen # f.gen THEN p ELSE q
  BY DEF SweepEnds
<1>2. k \in {"", "sweep", "hybrid"} \union Tasks
  BY PageOK
<1>3. c \in BOOLEAN
  BY Zenon
<1> HIDE DEF k, c
<1>4. q \in Pages /\ Marks(q) = Marks(p) /\ q.shown = p.shown /\ q.job = p.job /\ ~q.start
  BY <1>2, <1>3 DEF Pages, Marks
<1> HIDE DEF q
<1> QED BY <1>1, <1>4

LEMMA TaskClearedOK ==
  ASSUME NEW p \in Pages, NEW t \in Tasks
  PROVE  LET q == TaskCleared(p, t)
         IN /\ q \in Pages /\ q.gen = p.gen /\ q.recovering = p.recovering /\ q.wiz = p.wiz
            /\ q.start = p.start /\ q.job = p.job /\ q.shown = p.shown
            /\ \A s \in Tasks : s # t => q.own[s] = p.own[s] /\ q.id[s] = p.id[s]
            /\ ~q.own[t] /\ q.id[t] = 0
<1> DEFINE o == [p.own EXCEPT ![t] = FALSE]
           i == [p.id EXCEPT ![t] = 0]
           a == [p.ask EXCEPT ![t] = FALSE]
<1>1. /\ o \in [Tasks -> BOOLEAN] /\ i \in [Tasks -> 0..MaxJobs] /\ a \in [Tasks -> BOOLEAN]
      /\ \A s \in Tasks : s # t => o[s] = p.own[s] /\ i[s] = p.id[s]
      /\ ~o[t] /\ i[t] = 0
  BY PageOK, ConstOK
<1>2. TaskCleared(p, t) = [p EXCEPT !.own = o, !.kind = "", !.id = i, !.ask = a]
  BY DEF TaskCleared
<1> HIDE DEF o, i, a
<1> DEFINE q == [p EXCEPT !.own = o, !.kind = "", !.id = i, !.ask = a]
<1>3. q \in Pages
  BY <1>1 DEF Pages
<1>4. /\ q.gen = p.gen /\ q.recovering = p.recovering /\ q.wiz = p.wiz /\ q.start = p.start
      /\ q.job = p.job /\ q.shown = p.shown /\ q.own = o /\ q.id = i
  BY DEF Pages
<1>5. TaskCleared(p, t) = q
  BY <1>2
<1> HIDE DEF q
<1> QED BY <1>1, <1>3, <1>4, <1>5

-----------------------------------------------------------------------------
(* Flows *)

LEMMA FlowOK ==
  ASSUME NEW f \in FlowStates
  PROVE  /\ f.type \in {"none", "sweep", "hybrid", "recovery"} \union Tasks /\ f.pc \in Steps
         /\ f.job \in 0..MaxJobs /\ f.gen \in Nat /\ f.errs \in Nat /\ f.got \in {"", "done", "lost"}
  BY DEF FlowStates

\* A step of flow f to g takes no claim that f did not have.
Weaker(f, g) ==
  /\ g.type = f.type
  /\ Active(g) => Active(f)
  /\ Exclusive(g) => Exclusive(f)
  /\ f.type \in {"sweep", "recovery"} => g.gen = f.gen

LEMMA WeakerApart ==
  ASSUME NEW f, NEW g, NEW h, Weaker(f, g), Apart(f, h), Apart(h, f)
  PROVE  Apart(g, h) /\ Apart(h, g)
  BY DEF Weaker, Apart

LEMMA WeakerBefore ==
  ASSUME NEW f, NEW g, NEW h, Weaker(f, g)
  PROVE  /\ Before(f, h) => Before(g, h)
         /\ Before(h, f) => Before(h, g)
<1>1. f.type = "recovery" /\ Asking(g) => Asking(f)
  BY DEF Weaker, Exclusive, Tasks
<1>2. Before(f, h) => Before(g, h)
  BY <1>1 DEF Weaker, Before
<1>3. Before(h, f) => Before(h, g)
  BY DEF Weaker, Before
<1> QED BY <1>2, <1>3

\* The new state f of flow n beside the other flows.
Settles(n, f) ==
  /\ f.type = fl[n].type
  /\ \A k \in Flows : k # n => Apart(f, fl[k]) /\ Apart(fl[k], f)
  /\ \A k \in Flows : (n < k => Before(f, fl[k])) /\ (k < n => Before(fl[k], f))

LEMMA WeakerSettles ==
  ASSUME IInv, NEW n \in Flows, NEW f, Weaker(fl[n], f)
  PROVE  Settles(n, f)
<1>1. \A k \in Flows : k # n => Apart(f, fl[k]) /\ Apart(fl[k], f)
  BY WeakerApart DEF IInv, FlowInv
<1>2. \A k \in Flows : (n < k => Before(f, fl[k])) /\ (k < n => Before(fl[k], f))
  BY WeakerBefore DEF IInv, FlowInv
<1> QED BY <1>1, <1>2 DEF Settles, Weaker

LEMMA FlowsKeep ==
  ASSUME IInv, NEW n \in Flows, NEW f \in FlowStates, fl' = [fl EXCEPT ![n] = f],
         used'.max = used.max, used'.flows = used.flows, Weaker(fl[n], f) \/ Settles(n, f), PcOK(f),
         OnPage(f, m'), \A k \in Flows : k # n => OnPage(fl[k], m')
  PROVE  FlowInv'
<1>1. fl'[n] = f /\ \A k \in Flows : k # n => fl'[k] = fl[k]
  BY DEF IInv, Types
<1>2. \A k \in Flows : PcOK(fl[k]) /\ fl[k].type \in used.max.kinds \union {"none"}
  BY DEF IInv, FlowInv
<1>0. Settles(n, f)
  BY WeakerSettles
<1>3. f.type = fl[n].type
  BY <1>0 DEF Settles
<1>4. \A k \in Flows : /\ PcOK(fl'[k]) /\ OnPage(fl'[k], m')
                       /\ fl'[k].type \in used.max.kinds \union {"none"}
  BY <1>1, <1>2, <1>3
<1>5. \A k \in Flows : k > used.flows => fl'[k].type = "none"
  BY <1>1, <1>3 DEF IInv, FlowInv
<1>6. \A k \in Flows : k # n => Apart(f, fl[k]) /\ Apart(fl[k], f)
  BY <1>0 DEF Settles
<1>7. \A j, k \in Flows : j # k => Apart(fl'[j], fl'[k])
  BY <1>1, <1>6 DEF IInv, FlowInv
<1>8. \A k \in Flows : (n < k => Before(f, fl[k])) /\ (k < n => Before(fl[k], f))
  BY <1>0 DEF Settles
<1>9. \A j, k \in Flows : j < k => Before(fl'[j], fl'[k])
  <2> SUFFICES ASSUME NEW j \in Flows, NEW k \in Flows, j < k PROVE Before(fl'[j], fl'[k])
    OBVIOUS
  <2>1. j # k
    BY DEF Flows
  <2>2. CASE j = n
    BY <1>1, <1>8, <2>1, <2>2
  <2>3. CASE k = n
    BY <1>1, <1>8, <2>1, <2>3
  <2>4. CASE j # n /\ k # n
    BY <1>1, <2>4 DEF IInv, FlowInv
  <2> QED BY <2>2, <2>3, <2>4
<1> QED BY <1>4, <1>5, <1>7, <1>9 DEF FlowInv

\* What a step of flow n does to the page it leaves to the others.
Spares(n, q) ==
  /\ q.gen = m.gen
  /\ fl[n].type # "hybrid" => q.wiz.run = m.wiz.run
  /\ fl[n].type # "recovery" => q.recovering = m.recovering
  /\ \/ Exclusive(fl[n])
     \/ fl[n].type = "hybrid" /\ Active(fl[n]) /\ q.own = m.own
     \/ /\ fl[n].type = "sweep" /\ q.own = m.own /\ q.id = m.id /\ (q.wiz.open => m.wiz.open)
        /\ q.job \in {m.job, 0} /\ (q.start = m.start \/ m.gen = fl[n].gen \/ m.job # 0)
     \/ fl[n].type = "recovery" /\ Idle(m)
     \/ /\ fl[n].type = "recovery" /\ q.own = m.own /\ q.id = m.id /\ q.wiz = m.wiz
        /\ q.job = m.job /\ q.start = m.start /\ q.kind = m.kind

LEMMA OthersSpared ==
  ASSUME IInv, NEW n \in Flows, Active(fl[n]), NEW q, Spares(n, q), NEW k \in Flows, k # n
  PROVE  OnPage(fl[k], q)
<1> DEFINE f == fl[n]
           g == fl[k]
<1>1. OnPage(f, m) /\ OnPage(g, m) /\ Apart(f, g) /\ Apart(g, f) /\ m \in Pages /\ PcOK(g)
  BY DEF IInv, FlowInv, Types
<1>2. f \in FlowStates /\ g \in FlowStates
  BY DEF IInv, Types
<1>3. /\ (n < k => Before(f, g)) /\ (k < n => Before(g, f)) /\ (n < k \/ k < n)
  BY DEF IInv, FlowInv, Flows
<1>6. f.type = "sweep" /\ g.type = "sweep" => f.gen # g.gen
  <2>1. f.gen \in Nat /\ g.gen \in Nat
    BY <1>2, FlowOK
  <2> QED BY <1>3, <2>1 DEF Before
<1>7. q.gen = m.gen
  BY DEF Spares
<1> SUFFICES OnPage(g, q)
  OBVIOUS
<1> HIDE DEF f, g
<1>8. (g.type = "hybrid" /\ Active(g) => q.wiz.run) /\ (g.type = "recovery" /\ Active(g) => q.recovering)
  <2>1. g.type = "hybrid" /\ Active(g) => f.type # "hybrid" /\ m.wiz.run
    BY <1>1 DEF Apart, OnPage, f
  <2>2. g.type = "recovery" /\ Active(g) => f.type # "recovery" /\ m.recovering
    BY <1>1 DEF Apart, OnPage, f
  <2> QED BY <2>1, <2>2 DEF Spares, f
<1>9. CASE ~Exclusive(g)
  <2>1. ~(g.type \in Tasks /\ Active(g)) /\ ~(g.type = "sweep" /\ Starts(g)) /\ ~(g.type = "recovery" /\ Asking(g))
    BY <1>9 DEF Exclusive
  <2> QED BY <1>1, <1>7, <1>8, <2>1 DEF OnPage
<1>10. CASE Exclusive(g)
  <2>1. ~Exclusive(f) /\ ~(f.type = "recovery" /\ Idle(m))
    <3>1. Idle(m) => ~m.start /\ ~m.own["sub"] /\ ~m.own["align"]
      BY DEF Idle, HasActive
    <3> QED BY <1>1, <1>10, <3>1 DEF Apart, Exclusive, OnPage, Tasks
  <2>2. CASE f.type = "hybrid" /\ q.own = m.own
    <3>1. m.wiz.run
      BY <1>1, <2>2 DEF OnPage, f
    <3>2. g.type = "recovery" /\ Asking(g)
      BY <1>1, <1>10, <3>1 DEF OnPage, Exclusive
    <3> QED BY <1>1, <1>7, <1>8, <2>2, <3>2 DEF OnPage, Tasks
  <2>3. CASE /\ f.type = "sweep" /\ q.own = m.own /\ q.id = m.id /\ (q.wiz.open => m.wiz.open)
             /\ q.job \in {m.job, 0} /\ (q.start = m.start \/ m.gen = f.gen \/ m.job # 0)
    <3>1. q.wiz.run = m.wiz.run
      BY <2>3 DEF Spares, f
    <3>2. g.type = "sweep" /\ Starts(g) => q.start
      BY <1>1, <1>6, <2>3 DEF OnPage
    <3> QED BY <1>1, <1>7, <1>8, <2>3, <3>1, <3>2 DEF OnPage
  <2>4. CASE /\ q.own = m.own /\ q.id = m.id /\ q.wiz = m.wiz
             /\ q.job = m.job /\ q.start = m.start /\ q.kind = m.kind
    BY <1>1, <1>7, <1>8, <2>4 DEF OnPage
  <2> QED BY <2>1, <2>2, <2>3, <2>4 DEF Spares, f
<1> QED BY <1>9, <1>10

-----------------------------------------------------------------------------
(* What a step of one flow has to show *)

SameUse == /\ used' \in Bounds /\ used'.max = used.max /\ used'.flows = used.flows
           /\ used'.jobs = used.jobs

KnownPage(q) == q.job <= used.jobs /\ q.wiz.job <= used.jobs /\ \A t \in Tasks : q.id[t] <= used.jobs

CancelsOK == /\ cans' \subseteq CancelReqs /\ (\A c \in cans' : c.job <= used.jobs)
             /\ CancelInv'

NoLaterSweep(n) == \A k \in Flows : k > n => fl[k].type # "sweep"

ShownBy == m'.shown # m.shown => \A n \in Flows : fl'[n] # fl[n] => NoLaterSweep(n)

Kept == IInv' /\ ShownBy

LEMMA FlowMoves ==
  ASSUME IInv, NEW n \in Flows, Active(fl[n]), NEW f \in FlowStates, NEW q \in Pages, m' = q,
         fl' = [fl EXCEPT ![n] = f], jobs' = jobs, SameUse, wish' \in BOOLEAN, CancelsOK,
         Weaker(fl[n], f) \/ Settles(n, f), PcOK(f), OnPage(f, q), Spares(n, q), KnownPage(q), f.job <= used.jobs,
         ~Orphan(f, jobs), q.shown # m.shown => NoLaterSweep(n)
  PROVE  Kept
<1>1. fl'[n] = f /\ \A k \in Flows : k # n => fl'[k] = fl[k]
  BY DEF IInv, Types
<1>2. Types'
  BY DEF IInv, Types, SameUse, CancelsOK
<1>3. \A k \in Flows : k # n => OnPage(fl[k], q)
  BY OthersSpared
<1>4. FlowInv'
  BY <1>3, FlowsKeep DEF SameUse
<1>5. JobInv'
  BY DEF IInv, JobInv, SameUse
<1>6. KnownInv'
  <2>1. \A k \in Flows : fl'[k].job <= used.jobs
    BY <1>1 DEF IInv, KnownInv
  <2> QED BY <2>1 DEF KnownInv, KnownPage, CancelsOK, SameUse
<1>7. CancelInv'
  BY DEF CancelsOK
<1>8. OrphanInv'
  BY <1>1 DEF IInv, OrphanInv
<1>9. ShownBy
  BY <1>1 DEF ShownBy
<1> QED BY <1>2, <1>4, <1>5, <1>6, <1>7, <1>8, <1>9 DEF IInv, Kept

LEMMA CancelsStay ==
  ASSUME IInv, NEW n \in Flows, fl[n].pc # "wait", NEW f, fl' = [fl EXCEPT ![n] = f],
         jobs' = jobs, cans' = cans
  PROVE  CancelsOK
<1>1. \A k \in Flows : k # n => fl'[k] = fl[k]
  BY DEF IInv, Types
<1>2. \A c \in cans : c.by # 0 => c.by \in Flows /\ c.by # n
  BY DEF IInv, CancelInv, Types, CancelReqs, Flows
<1>3. \A c \in cans : c.by # 0 => fl'[c.by].pc = "wait" /\ fl'[c.by].job = c.job
  BY <1>1, <1>2 DEF IInv, CancelInv
<1> QED BY <1>3 DEF CancelsOK, IInv, CancelInv, KnownInv, Types

LEMMA CancelJoins ==
  ASSUME IInv, NEW n \in Flows, fl[n].pc # "wait", NEW f, fl' = [fl EXCEPT ![n] = f],
         jobs' = jobs, NEW r \in CancelReqs, cans' = cans \union {r},
         r.by = n, r.val = "sent", r.job <= used.jobs, f.pc = "wait", f.job = r.job
  PROVE  CancelsOK
<1>1. fl'[n] = f /\ \A k \in Flows : k # n => fl'[k] = fl[k]
  BY DEF IInv, Types
<1>2. \A c \in cans : c.by # 0 => c.by \in Flows /\ c.by # n
  BY DEF IInv, CancelInv, Types, CancelReqs, Flows
<1>3. \A c \in cans' : c.by # 0 => fl'[c.by].pc = "wait" /\ fl'[c.by].job = c.job
  BY <1>1, <1>2 DEF IInv, CancelInv
<1>4. \A c, d \in cans' : c.by = d.by /\ c.by # 0 => c = d
  BY <1>2 DEF IInv, CancelInv
<1>5. \A c \in cans' : c.val \notin {"sent", "lost"} => jobs'[c.job].status # "running"
  BY DEF IInv, CancelInv
<1> QED BY <1>3, <1>4, <1>5 DEF CancelsOK, IInv, CancelInv, KnownInv, Types

LEMMA CancelLeaves ==
  ASSUME IInv, NEW c \in cans, c.by # 0, NEW f, fl' = [fl EXCEPT ![c.by] = f],
         jobs' = jobs, cans' = cans \ {c}
  PROVE  CancelsOK
<1>1. \A k \in Flows : k # c.by => fl'[k] = fl[k]
  BY DEF IInv, Types
<1>2. \A d \in cans' : d \in cans /\ (d.by # 0 => d.by \in Flows /\ d.by # c.by)
  BY DEF IInv, CancelInv, Types, CancelReqs, Flows
<1>3. \A d \in cans' : d.by # 0 => fl'[d.by].pc = "wait" /\ fl'[d.by].job = d.job
  BY <1>1, <1>2 DEF IInv, CancelInv
<1> QED BY <1>2, <1>3 DEF CancelsOK, IInv, CancelInv, KnownInv, Types

-----------------------------------------------------------------------------
(* The end of a flow *)

LEMMA FlowEndsOK ==
  ASSUME NEW p \in Pages, NEW f \in FlowStates, f.type # "none"
  PROVE  LET q == FlowEnds(p, f)
         IN /\ q \in Pages /\ q.gen = p.gen /\ q.shown = p.shown
            /\ f.type # "hybrid" => q.wiz = p.wiz
            /\ f.type # "recovery" => q.recovering = p.recovering
            /\ f.type \in {"hybrid", "sweep"} => q.own = p.own /\ q.id = p.id
            /\ f.type = "sweep" => q.start = p.start \/ p.gen = f.gen
            /\ q.job \in {p.job, 0} /\ q.wiz.job \in {p.wiz.job, 0}
            /\ \A t \in Tasks : q.id[t] \in {p.id[t], 0}
<1> DEFINE q == FlowEnds(p, f)
<1>1. CASE f.type = "sweep"
  <2>1. q = SweepEnds(p, f)
    BY <1>1 DEF FlowEnds, Tasks
  <2> HIDE DEF q
  <2> QED BY <1>1, <2>1, SweepEndsOK DEF Marks, Sweeps, q
<1>2. CASE f.type \in Tasks
  <2> DEFINE r == TaskCleared(p, f.type)
  <2>1. q = [r EXCEPT !.start = FALSE]
    BY <1>2 DEF FlowEnds, Tasks
  <2>2. /\ r \in Pages /\ r.gen = p.gen /\ r.recovering = p.recovering /\ r.wiz = p.wiz
        /\ r.job = p.job /\ r.shown = p.shown
        /\ \A s \in Tasks : r.id[s] \in {p.id[s], 0}
    BY <1>2, TaskClearedOK
  <2> HIDE DEF r
  <2>3. /\ q \in Pages /\ q.gen = r.gen /\ q.recovering = r.recovering /\ q.wiz = r.wiz
        /\ q.job = r.job /\ q.shown = r.shown /\ q.id = r.id
    BY <2>1, <2>2 DEF Pages
  <2> HIDE DEF q
  <2>4. f.type \notin {"hybrid", "sweep", "recovery"}
    BY <1>2 DEF Tasks
  <2>5. q.job = p.job /\ q.wiz.job = p.wiz.job /\ \A t \in Tasks : q.id[t] \in {p.id[t], 0}
    BY <2>2, <2>3
  <2>6. q \in Pages /\ q.gen = p.gen /\ q.shown = p.shown /\ q.wiz = p.wiz /\ q.recovering = p.recovering
    BY <2>2, <2>3
  <2> QED BY <2>4, <2>5, <2>6 DEF q
<1>3. CASE f.type = "hybrid"
  <2> DEFINE w == [p.wiz EXCEPT !.run = FALSE, !.cancel = FALSE, !.job = 0]
  <2>1. q = [p EXCEPT !.wiz = w, !.job = 0, !.kind = ""]
    BY <1>3 DEF FlowEnds, Tasks
  <2>2. w \in Wizards /\ w.job = 0
    BY PageOK, ConstOK DEF Wizards
  <2> HIDE DEF w
  <2>3. /\ q \in Pages /\ q.gen = p.gen /\ q.shown = p.shown /\ q.recovering = p.recovering
        /\ q.own = p.own /\ q.id = p.id /\ q.job = 0 /\ q.wiz.job = 0
    BY <2>1, <2>2, ConstOK DEF Pages, Wizards
  <2> HIDE DEF q
  <2> QED BY <1>3, <2>3 DEF q
<1>4. CASE f.type = "recovery"
  <2> DEFINE r == IF Current(p, f) THEN TaskCleared(p, "sub") ELSE p
  <2>1. q = [r EXCEPT !.recovering = FALSE]
    BY <1>4 DEF FlowEnds, Tasks
  <2>2. /\ r \in Pages /\ r.gen = p.gen /\ r.wiz = p.wiz /\ r.job = p.job /\ r.shown = p.shown
        /\ \A s \in Tasks : r.id[s] \in {p.id[s], 0}
    <3>1. CASE Current(p, f)
      <4>1. r = TaskCleared(p, "sub") /\ "sub" \in Tasks
        BY <3>1 DEF Tasks
      <4> HIDE DEF r
      <4> QED BY <4>1, TaskClearedOK
    <3>2. CASE ~Current(p, f)
      <4>1. r = p
        BY <3>2
      <4> HIDE DEF r
      <4> QED BY <4>1
    <3> QED BY <3>1, <3>2
  <2> HIDE DEF r
  <2>3. /\ q \in Pages /\ q.gen = r.gen /\ q.wiz = r.wiz
        /\ q.job = r.job /\ q.shown = r.shown /\ q.id = r.id
    BY <2>1, <2>2 DEF Pages
  <2> HIDE DEF q
  <2>4. q \in Pages /\ q.gen = p.gen /\ q.shown = p.shown /\ q.wiz = p.wiz /\ q.job = p.job
        /\ \A t \in Tasks : q.id[t] \in {p.id[t], 0}
    BY <2>2, <2>3
  <2> QED BY <1>4, <2>4 DEF q
<1> QED BY <1>1, <1>2, <1>3, <1>4, FlowOK

\* The page a flow ends on, before its finally block.
Near(n, p) ==
  /\ p.gen = m.gen /\ p.recovering = m.recovering /\ p.wiz.run = m.wiz.run
  /\ \/ Exclusive(fl[n])
     \/ fl[n].type = "recovery" /\ Idle(m)
     \/ /\ fl[n].type \in {"hybrid", "sweep"} /\ p.own = m.own /\ p.id = m.id
        /\ (p.wiz.open => m.wiz.open) /\ p.job \in {m.job, 0} /\ (p.start = m.start \/ m.job # 0)

LEMMA FlowEnding ==
  ASSUME IInv, NEW n \in Flows, Active(fl[n]), NEW f \in FlowStates, f.type = fl[n].type,
         f.gen = fl[n].gen, f.job <= used.jobs, NEW p \in Pages, Near(n, p), KnownPage(p),
         End(n, p, f), jobs' = jobs, SameUse, wish' \in BOOLEAN, CancelsOK,
         f.type = "align" /\ f.job # 0 /\ f.got # "lost" => jobs[f.job].status # "running",
         p.shown # m.shown => NoLaterSweep(n)
  PROVE  Kept
<1> DEFINE q == FlowEnds(p, f)
           g == [f EXCEPT !.pc = "off"]
<1>1. m' = q /\ fl' = [fl EXCEPT ![n] = g]
  BY DEF End
<1>2. fl[n] \in FlowStates /\ m \in Pages /\ used.jobs \in 0..MaxJobs
  BY DEF IInv, Types, Bounds
<1>3. f.type # "none"
  BY DEF IInv, FlowInv, PcOK
<1>4. /\ g \in FlowStates /\ g.type = f.type /\ g.gen = f.gen /\ g.job = f.job /\ g.got = f.got
      /\ g.pc = "off"
  BY DEF FlowStates, Steps
<1>5. /\ q \in Pages /\ q.gen = p.gen /\ q.shown = p.shown
      /\ f.type # "hybrid" => q.wiz = p.wiz
      /\ f.type # "recovery" => q.recovering = p.recovering
      /\ f.type \in {"hybrid", "sweep"} => q.own = p.own /\ q.id = p.id
      /\ f.type = "sweep" => q.start = p.start \/ p.gen = f.gen
      /\ q.job \in {p.job, 0} /\ q.wiz.job \in {p.wiz.job, 0}
      /\ \A t \in Tasks : q.id[t] \in {p.id[t], 0}
  BY <1>3, FlowEndsOK
<1> HIDE DEF q, g
<1>6. ~Active(g) /\ ~Asking(g) /\ ~Starts(g) /\ ~Exclusive(g)
  BY <1>4 DEF Active, Asking, Starts, Exclusive
<1>7. Weaker(fl[n], g)
  BY <1>4, <1>6 DEF Weaker
<1>8. PcOK(g)
  BY <1>4, <1>6 DEF PcOK
<1>9. OnPage(g, q)
  <2>1. g.gen <= q.gen
    BY <1>4, <1>5 DEF Near, IInv, FlowInv, OnPage
  <2> QED BY <1>6, <2>1 DEF OnPage
<1>10. Spares(n, q)
  <2>1. q.gen = m.gen /\ (f.type # "hybrid" => q.wiz.run = m.wiz.run)
        /\ (f.type # "recovery" => q.recovering = m.recovering)
    BY <1>5 DEF Near
  <2>2. CASE Exclusive(fl[n])
    BY <2>1, <2>2 DEF Spares
  <2>3. CASE fl[n].type = "recovery" /\ Idle(m)
    BY <2>1, <2>3 DEF Spares
  <2>4. CASE /\ fl[n].type \in {"hybrid", "sweep"} /\ p.own = m.own /\ p.id = m.id
             /\ (p.wiz.open => m.wiz.open) /\ p.job \in {m.job, 0} /\ (p.start = m.start \/ m.job # 0)
    <3>1. q.own = m.own /\ q.id = m.id /\ q.job \in {m.job, 0} /\ p.gen = m.gen
      BY <1>5, <2>4 DEF Near
    <3>2. CASE f.type = "hybrid"
      BY <2>1, <3>1, <3>2 DEF Spares
    <3>3. CASE f.type = "sweep"
      BY <1>5, <2>1, <2>4, <3>1, <3>3 DEF Spares
    <3> QED BY <2>4, <3>2, <3>3
  <2> QED BY <2>2, <2>3, <2>4 DEF Near
<1>11. KnownPage(q)
  <2>1. 0 <= used.jobs
    BY <1>2, ConstOK
  <2> QED BY <1>5, <2>1 DEF KnownPage
<1>12. ~Orphan(g, jobs)
  BY <1>4, <1>6 DEF Orphan
<1> QED BY <1>1, <1>4, <1>5, <1>7, <1>8, <1>9, <1>10, <1>11, <1>12, FlowMoves

-----------------------------------------------------------------------------
(* Starting *)

LEMMA SameUsed ==
  ASSUME IInv, used' = used
  PROVE  SameUse
  BY DEF IInv, Types, SameUse

LEMMA FaultUsed ==
  ASSUME IInv, used' = [used EXCEPT !.faults = @ + 1]
  PROVE  SameUse
  BY DEF IInv, Types, SameUse, Bounds

LEMMA NearSame ==
  ASSUME IInv, NEW n \in Flows, Active(fl[n]), fl[n].pc # "find"
  PROVE  Near(n, m) /\ KnownPage(m)
<1>1. fl[n] \in FlowStates /\ PcOK(fl[n])
  BY DEF IInv, Types, FlowInv
<1>2. fl[n].type = "recovery" => Exclusive(fl[n])
  BY <1>1 DEF PcOK, Exclusive, Active, Asking
<1>3. fl[n].type \in Tasks => Exclusive(fl[n])
  BY DEF Exclusive
<1>4. fl[n].type # "none"
  BY <1>1 DEF PcOK
<1>5. fl[n].type \in {"sweep", "hybrid"} \/ Exclusive(fl[n])
  BY <1>1, <1>2, <1>3, <1>4, FlowOK
<1>6. Near(n, m)
  BY <1>5 DEF Near
<1>7. KnownPage(m)
  BY DEF IInv, KnownInv, KnownPage
<1> QED BY <1>6, <1>7

LEMMA StartFailsKeeps ==
  ASSUME IInv, NEW n \in Flows, StartFails(n)
  PROVE  Kept
<1> DEFINE f == [fl[n] EXCEPT !.job = 0]
<1>1. fl[n] \in FlowStates /\ fl[n].pc \in {"starting", "started"} /\ wish' \in BOOLEAN /\ m \in Pages
  BY DEF IInv, Types, StartFails
<1>2. /\ f \in FlowStates /\ f.type = fl[n].type /\ f.gen = fl[n].gen /\ f.job = 0
  BY <1>1, ConstOK DEF FlowStates
<1>3. Active(fl[n]) /\ fl[n].pc # "find" /\ fl[n].pc # "wait"
  BY <1>1 DEF Active
<1>4. End(n, m, f) /\ SameUse /\ jobs' = jobs /\ cans' = cans
  BY FaultUsed DEF StartFails
<1> HIDE DEF f
<1>5. f.job <= used.jobs
  BY <1>2 DEF IInv, Types, Bounds
<1>6. CancelsOK
  BY <1>3, <1>4, CancelsStay DEF End
<1>7. Near(n, m) /\ KnownPage(m)
  BY <1>3, NearSame
<1> QED BY <1>1, <1>2, <1>3, <1>4, <1>5, <1>6, <1>7, FlowEnding

\* The server takes the next number for a job it runs.
LEMMA NewJobOK ==
  ASSUME IInv, NEW t \in {"sweep", "hybrid"} \union Tasks, NewJob(t), used' = [used EXCEPT !.jobs = @ + 1]
  PROVE  /\ used' \in Bounds /\ used'.max = used.max /\ used'.flows = used.flows
         /\ used.jobs \in Nat /\ used'.jobs = used.jobs + 1 /\ used.jobs + 1 \in Jobs
         /\ jobs' \in [Jobs -> JobStates]
         /\ \A j \in Jobs : j <= used.jobs => jobs'[j] = jobs[j]
         /\ JobInv'
<1>1. used.jobs \in Nat /\ used.jobs < MaxJobs /\ used \in Bounds /\ jobs \in [Jobs -> JobStates]
  BY DEF IInv, Types, Bounds, NewJob
<1>2. used.jobs + 1 \in Jobs /\ used.jobs + 1 \in 0..MaxJobs
  BY <1>1, ConstOK DEF Jobs
<1>3. /\ used' \in Bounds /\ used'.max = used.max /\ used'.flows = used.flows
      /\ used'.jobs = used.jobs + 1
  BY <1>1, <1>2 DEF Bounds
<1> DEFINE s == [kind |-> t, status |-> "running"]
<1>4. s \in JobStates /\ s.status = "running"
  BY DEF JobStates, Live
<1>5. jobs' = [jobs EXCEPT ![used.jobs + 1] = s]
  BY DEF NewJob
<1> HIDE DEF s
<1>6. /\ jobs' \in [Jobs -> JobStates] /\ jobs'[used.jobs + 1] = s
      /\ \A j \in Jobs : j # used.jobs + 1 => jobs'[j] = jobs[j]
  BY <1>1, <1>2, <1>4, <1>5
<1>7. \A j \in Jobs : j <= used.jobs => j # used.jobs + 1
  BY <1>1 DEF Jobs
<1>8. \A j, k \in Jobs : jobs'[j].status \in Live /\ jobs'[k].status \in Live => j = k
  BY <1>6 DEF NewJob, NoJob
<1>9. \A j \in Jobs : j <= used'.jobs <=> jobs'[j].status # "none"
  <2> SUFFICES ASSUME NEW j \in Jobs PROVE j <= used'.jobs <=> jobs'[j].status # "none"
    OBVIOUS
  <2>1. j \in Nat
    BY DEF Jobs
  <2>2. CASE j = used.jobs + 1
    BY <1>1, <1>3, <1>4, <1>6, <2>2
  <2>3. CASE j # used.jobs + 1
    <3>1. j <= used'.jobs <=> j <= used.jobs
      BY <1>1, <1>3, <2>1, <2>3
    <3> QED BY <1>6, <2>3, <3>1 DEF IInv, JobInv
  <2> QED BY <2>2, <2>3
<1>10. \A j \in Jobs : jobs'[j].status = "none" => jobs'[j].kind = "none"
  BY <1>4, <1>6 DEF IInv, JobInv
<1>11. JobInv'
  BY <1>8, <1>9, <1>10 DEF JobInv
<1> QED BY <1>1, <1>2, <1>3, <1>6, <1>7, <1>11

\* A job that comes leaves what the page, the requests and the ended flows name alone.
LEMMA NewJobKnown ==
  ASSUME IInv, NEW t \in {"sweep", "hybrid"} \union Tasks, NewJob(t), used' = [used EXCEPT !.jobs = @ + 1],
         m' = m, cans' = cans
  PROVE  /\ KnownPage(m)' /\ (\A c \in cans' : c.job <= used'.jobs)
         /\ \A c \in cans' : c.val \notin {"sent", "lost"} => jobs'[c.job].status # "running"
         /\ \A k \in Flows : fl[k].job <= used'.jobs /\ ~Orphan(fl[k], jobs')
<1>1. /\ used.jobs \in Nat /\ used'.jobs = used.jobs + 1
      /\ \A j \in Jobs : j <= used.jobs => jobs'[j] = jobs[j]
  BY NewJobOK
<1>a. m \in Pages /\ cans \subseteq CancelReqs /\ fl \in [Flows -> FlowStates]
  BY DEF IInv, Types
<1>b. m.job \in 0..MaxJobs /\ m.wiz \in Wizards /\ m.id \in [Tasks -> 0..MaxJobs]
  BY <1>a, PageOK
<1>2. /\ m.job \in Nat /\ m.wiz.job \in Nat /\ (\A s \in Tasks : m.id[s] \in Nat)
      /\ \A c \in cans : c.job \in Jobs
  BY <1>a, <1>b DEF Wizards, CancelReqs
<1>3. \A k \in Flows : fl[k].job \in Nat /\ (fl[k].job # 0 => fl[k].job \in Jobs)
  <2>1. \A k \in Flows : fl[k].job \in 0..MaxJobs
    BY <1>a, FlowOK
  <2> QED BY <2>1, ConstOK DEF Jobs
<1>4. \A j \in Nat : j <= used.jobs => j <= used'.jobs
  BY <1>1
<1>5. KnownPage(m)'
  BY <1>2, <1>4 DEF KnownPage, IInv, KnownInv
<1>6. \A c \in cans' : c.job <= used'.jobs
  <2>1. \A c \in cans : c.job \in Nat /\ c.job <= used.jobs
    BY <1>2 DEF IInv, KnownInv, Jobs
  <2> QED BY <1>4, <2>1
<1>7. \A c \in cans' : c.val \notin {"sent", "lost"} => jobs'[c.job].status # "running"
  BY <1>1, <1>2 DEF IInv, KnownInv, CancelInv
<1>8. \A k \in Flows : fl[k].job <= used'.jobs
  BY <1>3, <1>4 DEF IInv, KnownInv
<1>9. \A k \in Flows : ~Orphan(fl[k], jobs')
  <2> SUFFICES ASSUME NEW k \in Flows, Orphan(fl[k], jobs') PROVE FALSE
    OBVIOUS
  <2>1. fl[k].job \in Jobs /\ fl[k].job <= used.jobs
    BY <1>3 DEF IInv, KnownInv, Orphan
  <2> QED BY <1>1, <2>1 DEF IInv, OrphanInv, Orphan
<1> QED BY <1>5, <1>6, <1>7, <1>8, <1>9

\* A step from f to g that claims nothing new.
Follows(f, g) ==
  /\ g.type = f.type /\ g.gen = f.gen
  /\ Active(g) => Active(f)
  /\ Starts(g) => Starts(f)
  /\ Asking(g) => Asking(f) /\ (f.type \in Tasks => g.job = f.job)

LEMMA FollowsOK ==
  ASSUME NEW f, NEW g, Follows(f, g)
  PROVE  /\ Weaker(f, g)
         /\ \A p : OnPage(f, p) => OnPage(g, p)
  BY DEF Follows, Weaker, Exclusive, OnPage

LEMMA StartingOK ==
  ASSUME IInv, NEW n \in Flows, Starts(fl[n])
  PROVE  /\ fl[n].type \in {"sweep", "hybrid"} \union Tasks /\ Active(fl[n])
         /\ fl[n].pc # "find" /\ fl[n].pc # "wait" /\ ~Asking(fl[n])
         /\ fl[n].pc = "starting" => fl[n].job = 0
         /\ fl[n].pc = "started" => fl[n].job \in Jobs /\ fl[n].job <= used.jobs
<1>1. fl[n] \in FlowStates /\ PcOK(fl[n])
  BY DEF IInv, Types, FlowInv
<1>2. Active(fl[n]) /\ fl[n].pc # "find" /\ fl[n].pc # "wait" /\ ~Asking(fl[n])
  BY DEF Starts, Active, Asking
<1>3. fl[n].type # "none" /\ fl[n].type # "recovery"
  BY <1>1, <1>2 DEF PcOK, Starts
<1>4. fl[n].type \in {"sweep", "hybrid"} \union Tasks
  BY <1>1, <1>3, FlowOK
<1>5. fl[n].pc = "starting" => fl[n].job = 0
  BY <1>1 DEF PcOK
<1>6. fl[n].pc = "started" => fl[n].job \in Jobs
  <2>1. fl[n].job \in 0..MaxJobs /\ (fl[n].pc = "started" => fl[n].job # 0)
    BY <1>1, FlowOK DEF PcOK
  <2> QED BY <2>1, ConstOK DEF Jobs
<1>7. fl[n].job <= used.jobs
  BY DEF IInv, KnownInv
<1> QED BY <1>2, <1>4, <1>5, <1>6, <1>7

LEMMA StartReachesKeeps ==
  ASSUME IInv, NEW n \in Flows, StartReaches(n)
  PROVE  Kept
<1>1. fl[n] \in FlowStates /\ fl[n].pc = "starting" /\ wish' \in BOOLEAN /\ m \in Pages /\ cans' = cans
  BY DEF IInv, Types, StartReaches
<1>2. Starts(fl[n])
  BY <1>1 DEF Starts
<1>3. /\ fl[n].type \in {"sweep", "hybrid"} \union Tasks /\ Active(fl[n])
      /\ fl[n].pc # "find" /\ fl[n].pc # "wait" /\ fl[n].job = 0
  BY <1>1, <1>2, StartingOK
<1>4. CASE NoJob /\ used.jobs < MaxJobs
  <2>1. /\ NewJob(fl[n].type) /\ used' = [used EXCEPT !.jobs = @ + 1]
        /\ GoOn(n, m, [fl[n] EXCEPT !.job = used.jobs + 1], "started")
    BY <1>4 DEF StartReaches
  <2>2. /\ used' \in Bounds /\ used'.max = used.max /\ used'.flows = used.flows
        /\ used.jobs \in Nat /\ used'.jobs = used.jobs + 1 /\ used.jobs + 1 \in Jobs
        /\ jobs' \in [Jobs -> JobStates] /\ JobInv'
    BY <1>3, <2>1, NewJobOK
  <2> DEFINE f == [fl[n] EXCEPT !.job = used.jobs + 1, !.pc = "started"]
  <2>3. m' = m /\ fl' = [fl EXCEPT ![n] = f]
    BY <2>1 DEF GoOn
  <2>4. used.jobs + 1 \in 0..MaxJobs /\ used.jobs + 1 # 0
    BY <2>2, ConstOK DEF Jobs
  <2>5. /\ f \in FlowStates /\ f.type = fl[n].type /\ f.gen = fl[n].gen /\ f.job = used.jobs + 1
        /\ f.pc = "started"
    BY <1>1, <2>4 DEF FlowStates, Steps
  <2> HIDE DEF f
  <2>6. Follows(fl[n], f) /\ Active(f) /\ ~Asking(f)
    BY <1>2, <1>3, <2>5 DEF Follows, Active, Starts, Asking
  <2>7. PcOK(f)
    BY <1>3, <2>4, <2>5 DEF PcOK, Asking, Tasks
  <2>8. Weaker(fl[n], f) /\ OnPage(f, m)
    BY <2>6, FollowsOK DEF IInv, FlowInv
  <2>9. fl'[n] = f /\ \A k \in Flows : k # n => fl'[k] = fl[k]
    BY <2>3 DEF IInv, Types
  <2>10. FlowInv'
    <3>1. \A k \in Flows : k # n => OnPage(fl[k], m')
      BY <2>3 DEF IInv, FlowInv
    <3> QED BY <2>2, <2>3, <2>5, <2>7, <2>8, <3>1, FlowsKeep
  <2>11. Types'
    BY <1>1, <2>2, <2>3, <2>5 DEF IInv, Types
  <2>12. /\ KnownPage(m)' /\ (\A c \in cans' : c.job <= used'.jobs)
         /\ \A c \in cans' : c.val \notin {"sent", "lost"} => jobs'[c.job].status # "running"
         /\ \A k \in Flows : fl[k].job <= used'.jobs /\ ~Orphan(fl[k], jobs')
    BY <1>1, <1>3, <2>1, <2>3, NewJobKnown
  <2>13. KnownInv'
    <3>1. f.job <= used'.jobs
      BY <2>2, <2>5
    <3>2. \A k \in Flows : fl'[k].job <= used'.jobs
      BY <2>9, <2>12, <3>1
    <3> QED BY <2>12, <3>2 DEF KnownInv, KnownPage
  <2>14. CancelInv'
    <3>1. \A c \in cans : c.by # 0 => c.by \in Flows /\ c.by # n
      BY <1>3 DEF IInv, CancelInv, Types, CancelReqs, Flows
    <3>2. \A c \in cans' : c.by # 0 => fl'[c.by].pc = "wait" /\ fl'[c.by].job = c.job
      BY <1>1, <2>9, <3>1 DEF IInv, CancelInv
    <3>3. \A c, d \in cans' : c.by = d.by /\ c.by # 0 => c = d
      BY <1>1 DEF IInv, CancelInv
    <3> QED BY <2>12, <3>2, <3>3 DEF CancelInv
  <2>15. OrphanInv'
    BY <2>6, <2>9, <2>12 DEF OrphanInv, Orphan
  <2>16. ShownBy
    BY <2>3 DEF ShownBy
  <2> QED BY <2>2, <2>10, <2>11, <2>13, <2>14, <2>15, <2>16 DEF IInv, Kept
<1>5. CASE ~(NoJob /\ used.jobs < MaxJobs)
  <2>1. End(n, m, fl[n]) /\ jobs' = jobs /\ used' = used
    BY <1>5 DEF StartReaches
  <2>2. SameUse /\ fl[n].job <= used.jobs
    BY <2>1, SameUsed DEF IInv, KnownInv
  <2>3. CancelsOK
    BY <1>1, <1>3, <2>1, CancelsStay DEF End
  <2>4. Near(n, m) /\ KnownPage(m)
    BY <1>3, NearSame
  <2> QED BY <1>1, <1>3, <2>1, <2>2, <2>3, <2>4, FlowEnding
<1> QED BY <1>4, <1>5

LEMMA AdoptedOK ==
  ASSUME NEW p \in Pages, NEW t \in {"sweep", "hybrid"} \union Tasks, NEW j \in 0..MaxJobs
  PROVE  LET q == Adopted(p, t, j)
         IN /\ q \in Pages /\ q.gen = p.gen /\ q.shown = p.shown /\ q.recovering = p.recovering
            /\ q.own = p.own /\ q.start = p.start
            /\ q.wiz.run = p.wiz.run /\ q.wiz.open = p.wiz.open /\ q.wiz.job \in {p.wiz.job, j}
            /\ q.job \in {p.job, j} /\ \A s \in Tasks : q.id[s] \in {p.id[s], j}
            /\ t \in Tasks => q.job = p.job /\ q.kind = p.kind /\ q.id[t] = j
<1> DEFINE q == Adopted(p, t, j)
<1>1. CASE t = "sweep"
  <2>1. q = [p EXCEPT !.job = j, !.kind = "sweep"]
    BY <1>1 DEF Adopted
  <2> QED BY <1>1, <2>1 DEF Pages, Tasks
<1>2. CASE t = "hybrid"
  <2> DEFINE w == [p.wiz EXCEPT !.job = j]
  <2>1. q = [p EXCEPT !.wiz = w, !.job = j, !.kind = "hybrid"]
    BY <1>2 DEF Adopted
  <2>2. w \in Wizards /\ w.job = j /\ w.run = p.wiz.run /\ w.open = p.wiz.open
    BY PageOK DEF Wizards
  <2> HIDE DEF w
  <2> QED BY <1>2, <2>1, <2>2 DEF Pages, Wizards, Tasks
<1>3. CASE t \in Tasks
  <2> DEFINE i == [p.id EXCEPT ![t] = j]
  <2>1. q = [p EXCEPT !.id = i]
    BY <1>3 DEF Adopted, Tasks
  <2>2. i \in [Tasks -> 0..MaxJobs] /\ i[t] = j /\ \A s \in Tasks : i[s] \in {p.id[s], j}
    BY <1>3, PageOK
  <2> HIDE DEF i
  <2> QED BY <1>3, <2>1, <2>2 DEF Pages
<1> QED BY <1>1, <1>2, <1>3

GoodReq(r, j, n) == r \in CancelReqs /\ r.by = n /\ r.val = "sent" /\ r.job = j

LEMMA ReqOK ==
  ASSUME IInv, NEW t \in {"sweep", "hybrid"} \union Tasks, NEW j \in Jobs, NEW n \in 0..MaxFlows
  PROVE  GoodReq(CancelReq(t, j, n, FALSE), j, n) /\ GoodReq(CancelReq(t, j, n, TRUE), j, n)
<1>1. m.gen \in Nat
  BY PageOK DEF IInv, Types
<1> QED BY <1>1 DEF CancelReq, CancelReqs, GoodReq

LEMMA StartAnsweredKeeps ==
  ASSUME IInv, NEW n \in Flows, StartAnswered(n)
  PROVE  Kept
<1>1. /\ fl[n] \in FlowStates /\ fl[n].pc = "started" /\ wish' \in BOOLEAN /\ m \in Pages
      /\ jobs' = jobs /\ used' = used
  BY DEF IInv, Types, StartAnswered
<1>2. Starts(fl[n])
  BY <1>1 DEF Starts
<1>3. /\ fl[n].type \in {"sweep", "hybrid"} \union Tasks /\ Active(fl[n]) /\ fl[n].pc # "wait"
      /\ fl[n].job \in Jobs /\ fl[n].job <= used.jobs
  BY <1>1, <1>2, StartingOK
<1> DEFINE t == fl[n].type
           j == fl[n].job
           f == IF t = "sweep" THEN fl[n] ELSE [fl[n] EXCEPT !.gen = m.gen]
           g == IF CancelAsked(m, t) THEN [f EXCEPT !.pc = "wait"] ELSE [f EXCEPT !.pc = "poll"]
           q == Adopted(m, t, j)
           r == CancelReq(t, j, n, FALSE)
<1>4. /\ f \in FlowStates /\ f.type = t /\ f.job = j
      /\ f.gen = IF t = "sweep" THEN fl[n].gen ELSE m.gen
  BY <1>1, PageOK DEF FlowStates
<1>5. m' = q /\ fl' = [fl EXCEPT ![n] = g] /\ cans' = IF CancelAsked(m, t) THEN cans \union {r} ELSE cans
  <2>1. f.type = fl[n].type /\ f.job = fl[n].job
    BY <1>4
  <2> HIDE DEF q, r
  <2> QED BY <2>1 DEF StartAnswered, GoOn, q, r
<1> HIDE DEF f
<1>6. /\ g \in FlowStates /\ g.type = t /\ g.job = j /\ g.gen = f.gen
      /\ g.pc = IF CancelAsked(m, t) THEN "wait" ELSE "poll"
  BY <1>4 DEF FlowStates, Steps
<1> HIDE DEF g
<1>7. j \in 0..MaxJobs /\ j # 0 /\ n \in 0..MaxFlows /\ n # 0
  BY <1>3, ConstOK DEF Jobs, Flows
<1>8. /\ q \in Pages /\ q.gen = m.gen /\ q.shown = m.shown /\ q.recovering = m.recovering
      /\ q.own = m.own /\ q.start = m.start
      /\ q.wiz.run = m.wiz.run /\ q.wiz.open = m.wiz.open /\ q.wiz.job \in {m.wiz.job, j}
      /\ q.job \in {m.job, j} /\ \A s \in Tasks : q.id[s] \in {m.id[s], j}
      /\ t \in Tasks => q.job = m.job /\ q.kind = m.kind /\ q.id[t] = j
  <2>1. m \in Pages /\ t \in {"sweep", "hybrid"} \union Tasks /\ j \in 0..MaxJobs
    BY <1>1, <1>3, <1>7
  <2> HIDE DEF t, j
  <2> QED BY <2>1, AdoptedOK
<1> HIDE DEF q
<1>9. OnPage(fl[n], m) /\ m.gen \in Nat
  BY <1>1, PageOK DEF IInv, FlowInv
<1>10. Active(g) /\ Asking(g) /\ ~Starts(g)
  BY <1>6 DEF Active, Asking, Starts
<1>11. Weaker(fl[n], g)
  BY <1>3, <1>4, <1>6, <1>10 DEF Weaker, Exclusive, Tasks
<1>12. PcOK(g)
  BY <1>3, <1>6, <1>7 DEF PcOK, Active, Tasks
<1>13. OnPage(g, q)
  <2>1. g.gen <= q.gen
    BY <1>4, <1>6, <1>8, <1>9 DEF OnPage
  <2>2. t \in Tasks => g.gen = m.gen
    BY <1>4, <1>6 DEF Tasks
  <2>3. t = "hybrid" => q.wiz.run
    BY <1>3, <1>8, <1>9 DEF OnPage
  <2>4. t \in Tasks => q.own[t] /\ q.job = 0 /\ ~q.wiz.open /\ ~q.wiz.run /\ q.id[t] = j
    BY <1>3, <1>8, <1>9 DEF OnPage
  <2> QED BY <1>3, <1>6, <1>8, <1>10, <2>1, <2>2, <2>3, <2>4 DEF OnPage, Tasks
<1>14. Spares(n, q)
  <2>1. t = "hybrid" \/ Exclusive(fl[n])
    BY <1>2, <1>3 DEF Exclusive
  <2> QED BY <1>3, <1>8, <2>1 DEF Spares
<1>15. KnownPage(q)
  BY <1>3, <1>8 DEF KnownPage, IInv, KnownInv
<1>16. ~Orphan(g, jobs)
  BY <1>3, <1>6, <1>8, <1>9, <1>10 DEF Orphan
<1>17. CancelsOK
  <2>1. CASE CancelAsked(m, t)
    <3>1. r \in CancelReqs /\ r.by = n /\ r.val = "sent" /\ r.job = j
      <4>1. t \in {"sweep", "hybrid"} \union Tasks /\ j \in Jobs /\ n \in 0..MaxFlows
        BY <1>3, <1>7
      <4> HIDE DEF t, j
      <4> QED BY <4>1, ReqOK DEF GoodReq
    <3> HIDE DEF r
    <3> QED BY <1>1, <1>3, <1>5, <1>6, <2>1, <3>1, CancelJoins
  <2>2. CASE ~CancelAsked(m, t)
    BY <1>1, <1>3, <1>5, <2>2, CancelsStay
  <2> QED BY <2>1, <2>2
<1>18. SameUse
  BY <1>1, SameUsed
<1> QED BY <1>1, <1>3, <1>5, <1>6, <1>8, <1>11, <1>12, <1>13, <1>14, <1>15, <1>16, <1>17, <1>18, FlowMoves

-----------------------------------------------------------------------------
(* Polling *)

\* Speaker Align is never put aside: only its own end takes its marks.
LEMMA AlignCurrent ==
  ASSUME IInv, NEW n \in Flows, fl[n].type = "align", Asking(fl[n])
  PROVE  Current(m, fl[n])
<1>1. m.own["align"] /\ m.id["align"] = fl[n].job /\ fl[n].gen = m.gen
  BY DEF IInv, FlowInv, OnPage, Active, Asking, Tasks
<1> QED BY <1>1 DEF Current, TaskOf

LEMMA AskingOK ==
  ASSUME IInv, NEW n \in Flows, Asking(fl[n])
  PROVE  /\ fl[n].type \in {"sweep", "hybrid", "recovery"} \union Tasks /\ Active(fl[n])
         /\ fl[n].pc # "find" /\ ~Starts(fl[n]) /\ fl[n].job \in Jobs /\ fl[n].job # 0
         /\ fl[n].job <= used.jobs
         /\ Near(n, m) /\ KnownPage(m) /\ PcOK(fl[n])
<1>1. fl[n] \in FlowStates /\ PcOK(fl[n])
  BY DEF IInv, Types, FlowInv
<1>2. Active(fl[n]) /\ fl[n].pc # "find" /\ ~Starts(fl[n])
  BY DEF Starts, Active, Asking
<1>3. fl[n].type # "none"
  BY <1>1, <1>2 DEF PcOK
<1>4. fl[n].type \in {"sweep", "hybrid", "recovery"} \union Tasks
  BY <1>1, <1>3, FlowOK
<1>5. fl[n].job \in Jobs /\ fl[n].job # 0
  <2>1. fl[n].job \in 0..MaxJobs /\ fl[n].job # 0
    BY <1>1, FlowOK DEF PcOK
  <2> QED BY <2>1, ConstOK DEF Jobs
<1>6. fl[n].job <= used.jobs
  BY DEF IInv, KnownInv
<1> QED BY <1>1, <1>2, <1>4, <1>5, <1>6, NearSame

\* A page that differs only in what a poll or a cancel may change: it claims nothing, and
\* takes at most the job of a sweep.
Mild(q) ==
  /\ q \in Pages /\ q.gen = m.gen /\ q.own = m.own /\ q.id = m.id /\ q.recovering = m.recovering
  /\ q.wiz.run = m.wiz.run /\ (q.wiz.open => m.wiz.open) /\ q.wiz.job = m.wiz.job
  /\ q.shown = m.shown
  /\ \/ q.start = m.start /\ q.job = m.job /\ q.kind = m.kind
     \/ m.job # 0 /\ q.job = 0

LEMMA MildSame == ASSUME IInv PROVE Mild(m)
  BY DEF IInv, Types, Mild

\* A flow that polls goes on with the same job.
LEMMA AskingGoesOn ==
  ASSUME IInv, NEW n \in Flows, Asking(fl[n]), NEW f \in FlowStates, NEW q, Mild(q), m' = q,
         fl' = [fl EXCEPT ![n] = f], jobs' = jobs, SameUse, wish' \in BOOLEAN, CancelsOK,
         f.type = fl[n].type, f.gen = fl[n].gen, Asking(f),
         f.job = fl[n].job \/ (f.type = "sweep" /\ f.job # 0 /\ f.job <= used.jobs),
         f.pc = "wait" => f.type # "recovery"
  PROVE  Kept
<1>1. /\ fl[n].type \in {"sweep", "hybrid", "recovery"} \union Tasks /\ Active(fl[n])
      /\ fl[n].job # 0 /\ ~Starts(fl[n]) /\ fl[n].job <= used.jobs /\ Near(n, m) /\ KnownPage(m)
      /\ PcOK(fl[n])
  BY AskingOK
<1>3. /\ q.gen = m.gen /\ q.own = m.own /\ q.id = m.id /\ q.recovering = m.recovering
      /\ q.shown = m.shown /\ q \in Pages /\ q.job \in {m.job, 0}
      /\ q.wiz.run = m.wiz.run /\ (q.wiz.open => m.wiz.open) /\ q.wiz.job = m.wiz.job
      /\ m.job = 0 \/ q.job # 0 => q.start = m.start /\ q.job = m.job /\ q.kind = m.kind
  BY DEF Mild
<1>4. Active(f) /\ ~Starts(f)
  BY DEF Active, Starts, Asking
<1>5. Follows(fl[n], f)
  BY <1>1, <1>4 DEF Follows, Tasks
<1>6. Weaker(fl[n], f) /\ OnPage(f, m)
  BY <1>5, FollowsOK DEF IInv, FlowInv
<1>7. PcOK(f)
  BY <1>1 DEF PcOK, Asking, Active, Tasks
<1>8. OnPage(f, q)
  <2>1. f.type \in Tasks => m.job = 0
    BY <1>4, <1>6 DEF OnPage
  <2>2. f.type \in Tasks => q.start = m.start /\ q.job = m.job /\ q.kind = m.kind
    BY <1>3, <2>1
  <2> QED BY <1>3, <1>4, <1>6, <2>2 DEF OnPage
<1>9. Spares(n, q)
  <2>1. fl[n].type \in {"hybrid", "sweep"} \/ Exclusive(fl[n])
    BY <1>1 DEF Exclusive
  <2>2. q.start = m.start \/ m.job # 0
    BY <1>3
  <2> QED BY <1>1, <1>3, <2>1, <2>2 DEF Spares
<1>10. KnownPage(q)
  <2>1. 0 <= used.jobs
    BY DEF IInv, Types, Bounds
  <2> QED BY <1>1, <1>3, <2>1 DEF KnownPage
<1>11. ~Orphan(f, jobs) /\ f.job <= used.jobs
  BY <1>1, <1>4 DEF Orphan
<1> QED BY <1>1, <1>3, <1>6, <1>7, <1>8, <1>9, <1>10, <1>11, FlowMoves

LEMMA MildNear ==
  ASSUME IInv, NEW n \in Flows, Asking(fl[n]), NEW q, Mild(q)
  PROVE  Near(n, q) /\ KnownPage(q)
<1>1. /\ fl[n].type \in {"sweep", "hybrid", "recovery"} \union Tasks /\ Active(fl[n]) /\ KnownPage(m)
  BY AskingOK
<1>2. fl[n].type \in {"hybrid", "sweep"} \/ Exclusive(fl[n])
  BY <1>1 DEF Exclusive
<1>3. 0 <= used.jobs
  BY DEF IInv, Types, Bounds
<1>4. Near(n, q)
  BY <1>2 DEF Near, Mild
<1> QED BY <1>1, <1>3, <1>4 DEF Mild, KnownPage

LEMMA ClearedNear ==
  ASSUME IInv, NEW n \in Flows, fl[n].type = "sweep", m.job # 0, NEW q, Mild(q)
  PROVE  Near(n, SweepCleared(q)) /\ KnownPage(SweepCleared(q)) /\ SweepCleared(q) \in Pages
<1> DEFINE r == SweepCleared(q)
<1>1. /\ r \in Pages /\ Marks(r) = Marks(q) /\ r.job = 0
  BY SweepClearedOK DEF Mild
<1>2. r.gen = q.gen /\ r.own = q.own /\ r.id = q.id /\ r.recovering = q.recovering /\ r.wiz = q.wiz
  BY <1>1 DEF Marks
<1> HIDE DEF r
<1>3. 0 <= used.jobs
  BY DEF IInv, Types, Bounds
<1>4. Near(n, r)
  BY <1>1, <1>2 DEF Near, Mild
<1>5. KnownPage(r)
  BY <1>1, <1>2, <1>3 DEF KnownPage, IInv, KnownInv, Mild
<1> QED BY <1>1, <1>4, <1>5 DEF r

LEMMA PollKeeps ==
  ASSUME IInv, NEW n \in Flows, Poll(n)
  PROVE  Kept
<1>1. /\ fl[n] \in FlowStates /\ fl[n].pc = "poll" /\ wish' \in BOOLEAN /\ m \in Pages
      /\ jobs' = jobs /\ used' = used /\ cans' = cans
  BY DEF IInv, Types, Poll
<1>2. Asking(fl[n]) /\ SameUse
  BY <1>1, SameUsed DEF Asking
<1>3. Active(fl[n]) /\ fl[n].job <= used.jobs /\ Near(n, m) /\ KnownPage(m)
  BY <1>2, AskingOK
<1>4. CASE Current(m, fl[n])
  <2> DEFINE f == [fl[n] EXCEPT !.pc = "asked"]
  <2>1. m' = m /\ fl' = [fl EXCEPT ![n] = f]
    BY <1>4 DEF Poll, GoOn
  <2>2. f \in FlowStates /\ f.type = fl[n].type /\ f.gen = fl[n].gen /\ f.job = fl[n].job /\ f.pc = "asked"
    BY <1>1 DEF FlowStates, Steps
  <2> HIDE DEF f
  <2>3. CancelsOK
    BY <1>1, <2>1, CancelsStay
  <2>4. Asking(f) /\ Mild(m)
    BY <2>2, MildSame DEF Asking
  <2> QED BY <1>1, <1>2, <2>1, <2>2, <2>3, <2>4, AskingGoesOn
<1>5. CASE ~Current(m, fl[n])
  <2>1. End(n, m, fl[n])
    BY <1>5 DEF Poll
  <2>2. CancelsOK
    BY <1>1, <2>1, CancelsStay DEF End
  <2>3. fl[n].type # "align"
    BY <1>2, <1>5, AlignCurrent
  <2> QED BY <1>1, <1>2, <1>3, <2>1, <2>2, <2>3, FlowEnding
<1> QED BY <1>4, <1>5

LEMMA GiveUpKeeps ==
  ASSUME IInv, NEW n \in Flows, fl[n].pc \in {"poll", "asked"}, Current(m, fl[n]),
         NEW f \in FlowStates, f.type = fl[n].type, f.gen = fl[n].gen, f.job = fl[n].job,
         NEW q, Mild(q), GiveUp(n, q, f), jobs' = jobs, SameUse, wish' \in BOOLEAN
  PROVE  Kept
<1>1. Asking(fl[n]) /\ fl[n].pc # "wait" /\ q \in Pages
  BY DEF Asking, Mild
<1>2. Active(fl[n]) /\ fl[n].job <= used.jobs /\ fl[n].job \in Jobs /\ fl[n].job # 0
  BY <1>1, AskingOK
<1>3. CASE f.type = "align"
  <2> DEFINE g == [f EXCEPT !.errs = MaxErrors, !.pc = "wait"]
             r == CancelReq("align", f.job, n, FALSE)
  <2>1. m' = q /\ fl' = [fl EXCEPT ![n] = g] /\ cans' = cans \union {r}
    BY <1>3 DEF GiveUp, AbandonSpeakerAlign, GoOn
  <2>2. g \in FlowStates /\ g.type = f.type /\ g.gen = f.gen /\ g.job = f.job /\ g.pc = "wait"
    BY ConstOK DEF FlowStates, Steps
  <2>3. n \in 0..MaxFlows /\ "align" \in {"sweep", "hybrid"} \union Tasks /\ f.job \in Jobs
    BY <1>2, ConstOK DEF Flows, Tasks
  <2>4. r \in CancelReqs /\ r.by = n /\ r.val = "sent" /\ r.job = f.job
    <3>1. GoodReq(r, f.job, n)
      BY <2>3, ReqOK, Zenon
    <3> QED BY <3>1 DEF GoodReq
  <2> HIDE DEF g, r
  <2>5. CancelsOK
    BY <1>1, <1>2, <2>1, <2>2, <2>4, CancelJoins
  <2>6. Asking(g)
    BY <2>2 DEF Asking
  <2> QED BY <1>1, <1>3, <2>1, <2>2, <2>5, <2>6, AskingGoesOn
<1>4. CASE f.type # "align"
  <2> DEFINE p == IF f.type = "sweep" THEN SweepCleared(q) ELSE q
  <2>1. End(n, p, f) /\ cans' = cans
    BY <1>4 DEF GiveUp
  <2>2. p \in Pages /\ Near(n, p) /\ KnownPage(p) /\ p.shown = m.shown
    <3>1. CASE f.type = "sweep"
      <4>1. m.job # 0
        BY <1>2, <3>1 DEF Current, TaskOf
      <4>2. p.shown = m.shown
        BY <3>1, SweepClearedOK DEF Mild
      <4> QED BY <3>1, <4>1, <4>2, ClearedNear
    <3>2. CASE f.type # "sweep"
      BY <1>1, <3>2, MildNear DEF Mild
    <3> QED BY <3>1, <3>2
  <2> HIDE DEF p
  <2>3. CancelsOK
    BY <1>1, <2>1, CancelsStay DEF End
  <2> QED BY <1>2, <1>4, <2>1, <2>2, <2>3, FlowEnding
<1> QED BY <1>3, <1>4

LEMMA TimedOutKeeps ==
  ASSUME IInv, NEW n \in Flows, TimedOut(n)
  PROVE  Kept
<1>1. /\ fl[n] \in FlowStates /\ fl[n].pc = "poll" /\ wish' \in BOOLEAN /\ Current(m, fl[n])
      /\ jobs' = jobs /\ GiveUp(n, m, fl[n])
  BY DEF IInv, Types, TimedOut
<1>2. SameUse /\ Mild(m)
  BY FaultUsed, MildSame DEF TimedOut
<1> QED BY <1>1, <1>2, GiveUpKeeps

LEMMA WizardErrsOK ==
  ASSUME IInv, NEW e \in Nat
  PROVE  Mild([m EXCEPT !.wiz.errs = e])
<1> DEFINE w == [m.wiz EXCEPT !.errs = e]
           q == [m EXCEPT !.wiz = w]
<1>1. m \in Pages /\ m.wiz \in Wizards
  BY PageOK DEF IInv, Types
<1>2. w \in Wizards /\ w.run = m.wiz.run /\ w.open = m.wiz.open /\ w.job = m.wiz.job
  BY <1>1 DEF Wizards
<1> HIDE DEF w
<1> QED BY <1>1, <1>2 DEF Mild, Pages, Wizards, w

LEMMA PollFailsKeeps ==
  ASSUME IInv, NEW n \in Flows, PollFails(n)
  PROVE  Kept
<1>1. /\ fl[n] \in FlowStates /\ fl[n].pc = "asked" /\ wish' \in BOOLEAN /\ m \in Pages /\ jobs' = jobs
  BY DEF IInv, Types, PollFails
<1>2. Asking(fl[n]) /\ SameUse
  BY <1>1, FaultUsed DEF Asking, PollFails
<1>3. Active(fl[n]) /\ fl[n].job <= used.jobs /\ Near(n, m) /\ KnownPage(m)
      /\ fl[n].type \in {"sweep", "hybrid", "recovery"} \union Tasks
  BY <1>2, AskingOK
<1> DEFINE p == WizardErrs(m, fl[n])
           f == [fl[n] EXCEPT !.errs = @ + 1]
           errs == IF f.type = "hybrid" THEN p.wiz.errs ELSE f.errs
<1>4. Mild(p)
  <2>1. m.wiz.errs + 1 \in Nat
    <3>1. m.wiz \in Wizards
      BY <1>1, PageOK
    <3> QED BY <3>1 DEF Wizards
  <2> QED BY <2>1, WizardErrsOK, MildSame DEF WizardErrs
<1>5. f \in FlowStates /\ f.type = fl[n].type /\ f.gen = fl[n].gen /\ f.job = fl[n].job
  <2>1. fl[n].errs + 1 \in Nat
    <3>1. fl[n].errs \in Nat
      BY <1>1, FlowOK
    <3> QED BY <3>1
  <2> QED BY <1>1, <2>1 DEF FlowStates
<1>6. \/ ~Current(m, fl[n]) /\ End(n, m, fl[n]) /\ cans' = cans
      \/ Current(m, fl[n]) /\ GiveUp(n, p, f)
      \/ Current(m, fl[n]) /\ GoOn(n, p, f, "poll") /\ cans' = cans
  <2> HIDE DEF f, p
  <2> QED BY DEF PollFails, f, p
<1> HIDE DEF p, f
<1>7. CASE ~Current(m, fl[n]) /\ End(n, m, fl[n]) /\ cans' = cans
  <2>1. CancelsOK
    BY <1>1, <1>7, CancelsStay DEF End
  <2>2. fl[n].type # "align"
    BY <1>2, <1>7, AlignCurrent
  <2> QED BY <1>1, <1>2, <1>3, <1>7, <2>1, <2>2, FlowEnding
<1>8. CASE Current(m, fl[n]) /\ GiveUp(n, p, f)
  BY <1>1, <1>2, <1>4, <1>5, <1>8, GiveUpKeeps
<1>9. CASE GoOn(n, p, f, "poll") /\ cans' = cans
  <2> DEFINE g == [f EXCEPT !.pc = "poll"]
  <2>1. m' = p /\ fl' = [fl EXCEPT ![n] = g]
    BY <1>9 DEF GoOn
  <2>2. g \in FlowStates /\ g.type = fl[n].type /\ g.gen = fl[n].gen /\ g.job = fl[n].job /\ g.pc = "poll"
    BY <1>5 DEF FlowStates, Steps
  <2> HIDE DEF g
  <2>3. CancelsOK
    BY <1>1, <1>9, <2>1, CancelsStay
  <2>4. Asking(g)
    BY <2>2 DEF Asking
  <2> QED BY <1>1, <1>2, <1>4, <2>1, <2>2, <2>3, <2>4, AskingGoesOn
<1> QED BY <1>6, <1>7, <1>8, <1>9

\* A run of the wizard, a task and the recovery of one are over before a sweep begins.
LEMMA LastSweepBefore ==
  ASSUME IInv, NEW n \in Flows, Asking(fl[n]), fl[n].type # "sweep"
  PROVE  NoLaterSweep(n)
<1>1. fl[n].type \in {"hybrid", "recovery"} \union Tasks /\ Active(fl[n])
  BY AskingOK
<1>2. \A k \in Flows : n < k => Before(fl[n], fl[k])
  BY DEF IInv, FlowInv
<1>3. \A k \in Flows : k > n => n < k
  BY DEF Flows
<1> QED BY <1>1, <1>2, <1>3 DEF NoLaterSweep, Before

\* A sweep or a recovery of the page's present generation has no sweep after it.
LEMMA NewestGen ==
  ASSUME IInv, NEW n \in Flows, fl[n].type \in {"sweep", "recovery"}, m.gen = fl[n].gen
  PROVE  NoLaterSweep(n)
<1> SUFFICES ASSUME NEW k \in Flows, k > n, fl[k].type = "sweep" PROVE FALSE
  BY DEF NoLaterSweep
<1>1. n < k
  BY DEF Flows
<1>2. fl[n].gen < fl[k].gen
  BY <1>1 DEF IInv, FlowInv, Before
<1>3. fl[k].gen <= m.gen
  BY DEF IInv, FlowInv, OnPage
<1>4. m.gen \in Nat /\ fl[k].gen \in Nat
  <2>1. fl[k] \in FlowStates /\ m \in Pages
    BY DEF IInv, Types
  <2> QED BY <2>1, PageOK, FlowOK
<1> QED BY <1>2, <1>3, <1>4

LEMMA TaskResultOK ==
  ASSUME NEW p \in Pages, NEW f \in FlowStates, NEW s
  PROVE  LET q == TaskResult(p, f, s)
         IN /\ q \in Pages /\ q.gen = p.gen /\ q.recovering = p.recovering /\ q.wiz = p.wiz
            /\ q.own = p.own /\ q.id = p.id /\ q.job = p.job /\ q.start = p.start
<1> DEFINE a == IF s = "done" THEN f.job ELSE p.shown
           b == IF TaskOf(f) = "sub" THEN f.job ELSE p.handled
<1>1. TaskResult(p, f, s) = [p EXCEPT !.shown = a, !.handled = b]
  BY DEF TaskResult
<1>2. a \in 0..MaxJobs /\ b \in 0..MaxJobs
  BY FlowOK, PageOK
<1> HIDE DEF a, b
<1> QED BY <1>1, <1>2 DEF Pages

LEMMA StepDoneKeeps ==
  ASSUME IInv, NEW n \in Flows, fl[n].pc = "asked", fl[n].type = "hybrid",
         NEW f \in FlowStates, f.type = fl[n].type, f.gen = fl[n].gen, f.job = fl[n].job,
         NEW p, Mild(p), WizardStepDone(n, p, f), jobs' = jobs, SameUse, wish' \in BOOLEAN, cans' = cans
  PROVE  Kept
<1>1. Asking(fl[n]) /\ fl[n].pc # "wait" /\ p \in Pages
  BY DEF Asking, Mild
<1>2. /\ Active(fl[n]) /\ fl[n].job <= used.jobs /\ NoLaterSweep(n) /\ Near(n, p) /\ KnownPage(p)
      /\ fl[n].job \in 0..MaxJobs
  BY <1>1, AskingOK, LastSweepBefore, MildNear, FlowOK
<1>3. CASE GoOn(n, [p EXCEPT !.shown = f.job, !.wiz.job = 0, !.job = 0], f, "next")
  <2> DEFINE w == [p.wiz EXCEPT !.job = 0]
             q == [p EXCEPT !.shown = f.job, !.wiz = w, !.job = 0]
             g == [f EXCEPT !.pc = "next"]
  <2>1. m' = q /\ fl' = [fl EXCEPT ![n] = g]
    BY <1>3 DEF GoOn
  <2>2. w \in Wizards /\ w.job = 0 /\ w.run = p.wiz.run
    BY <1>1, PageOK, ConstOK DEF Wizards
  <2> HIDE DEF w
  <2>3. /\ q \in Pages /\ q.gen = p.gen /\ q.recovering = p.recovering /\ q.own = p.own /\ q.id = p.id
        /\ q.job = 0 /\ q.wiz = w
    BY <1>1, <1>2, <2>2, ConstOK DEF Pages, Wizards
  <2>4. g \in FlowStates /\ g.type = f.type /\ g.gen = f.gen /\ g.job = f.job /\ g.pc = "next"
    BY DEF FlowStates, Steps
  <2> HIDE DEF q, g
  <2>5. Active(g) /\ ~Asking(g) /\ ~Starts(g) /\ ~Exclusive(g)
    BY <2>4 DEF Active, Asking, Starts, Exclusive, Tasks
  <2>6. Weaker(fl[n], g) /\ PcOK(g)
    BY <1>2, <2>4, <2>5 DEF Weaker, PcOK, Tasks
  <2>7. q.wiz.run /\ g.gen <= q.gen
    BY <1>2, <2>2, <2>3, <2>4 DEF Mild, IInv, FlowInv, OnPage
  <2>8. OnPage(g, q) /\ ~Orphan(g, jobs)
    BY <2>4, <2>5, <2>7 DEF OnPage, Orphan, Tasks
  <2>9. Spares(n, q)
    BY <1>2, <2>2, <2>3 DEF Spares, Mild
  <2>10. 0 <= used.jobs
    BY DEF IInv, Types, Bounds
  <2>11. KnownPage(q)
    BY <1>2, <2>2, <2>3, <2>10 DEF KnownPage
  <2>12. CancelsOK
    BY <1>1, <2>1, CancelsStay
  <2> QED BY <1>2, <2>1, <2>3, <2>4, <2>6, <2>8, <2>9, <2>11, <2>12, FlowMoves
<1>4. CASE End(n, [p EXCEPT !.shown = f.job], f)
  <2> DEFINE q == [p EXCEPT !.shown = f.job]
  <2>1. /\ q \in Pages /\ q.gen = p.gen /\ q.recovering = p.recovering /\ q.own = p.own /\ q.id = p.id
        /\ q.job = p.job /\ q.wiz = p.wiz /\ q.start = p.start
    BY <1>1, <1>2 DEF Pages
  <2>2. End(n, q, f)
    BY <1>4
  <2> HIDE DEF q
  <2>3. Near(n, q) /\ KnownPage(q)
    BY <1>2, <2>1 DEF Near, KnownPage
  <2>4. CancelsOK
    BY <1>1, <2>2, CancelsStay DEF End
  <2> QED BY <1>2, <2>1, <2>2, <2>3, <2>4, FlowEnding
<1>5. CASE End(n, p, f)
  <2>1. CancelsOK
    BY <1>1, <1>5, CancelsStay DEF End
  <2> QED BY <1>1, <1>2, <1>5, <2>1, FlowEnding
<1> QED BY <1>3, <1>4, <1>5 DEF WizardStepDone

\* A sweep's job is over: the page is cleared, and the snapshot follows.
LEMMA ToPostKeeps ==
  ASSUME IInv, NEW n \in Flows, fl[n].pc = "asked", fl[n].type = "sweep", m.job # 0,
         NEW f \in FlowStates, f.type = fl[n].type, f.gen = fl[n].gen, f.job = fl[n].job,
         NEW p, Mild(p), GoOn(n, SweepCleared(p), f, "post"), jobs' = jobs, SameUse,
         wish' \in BOOLEAN, cans' = cans
  PROVE  Kept
<1> DEFINE q == SweepCleared(p)
           g == [f EXCEPT !.pc = "post"]
<1>1. Asking(fl[n]) /\ fl[n].pc # "wait" /\ p \in Pages
  BY DEF Asking, Mild
<1>2. Active(fl[n]) /\ fl[n].job <= used.jobs
  BY <1>1, AskingOK
<1>3. m' = q /\ fl' = [fl EXCEPT ![n] = g]
  BY DEF GoOn
<1>4. q \in Pages /\ Marks(q) = Marks(p) /\ q.shown = p.shown /\ q.job = 0
  BY <1>1, SweepClearedOK
<1>5. g \in FlowStates /\ g.type = f.type /\ g.gen = f.gen /\ g.job = f.job /\ g.pc = "post"
  BY DEF FlowStates, Steps
<1>6. KnownPage(q)
  BY ClearedNear
<1> HIDE DEF q, g
<1>7. q.gen = m.gen /\ q.own = m.own /\ q.id = m.id /\ q.recovering = m.recovering /\ q.wiz = p.wiz
  BY <1>4 DEF Marks, Mild
<1>8. Active(g) /\ ~Asking(g) /\ ~Starts(g) /\ ~Exclusive(g)
  BY <1>5 DEF Active, Asking, Starts, Exclusive, Tasks
<1>9. Weaker(fl[n], g) /\ PcOK(g)
  BY <1>2, <1>5, <1>8 DEF Weaker, PcOK, Tasks
<1>10. g.gen <= q.gen
  BY <1>5, <1>7 DEF IInv, FlowInv, OnPage
<1>11. OnPage(g, q) /\ ~Orphan(g, jobs)
  BY <1>5, <1>8, <1>10 DEF OnPage, Orphan, Tasks
<1>12. Spares(n, q)
  BY <1>4, <1>7 DEF Spares, Mild
<1>13. CancelsOK
  BY <1>1, <1>3, CancelsStay
<1>14. q.shown = m.shown
  BY <1>4 DEF Mild
<1> QED BY <1>2, <1>3, <1>4, <1>5, <1>6, <1>9, <1>11, <1>12, <1>13, <1>14, FlowMoves

LEMMA PollAnsweredKeeps ==
  ASSUME IInv, NEW n \in Flows, PollAnswered(n)
  PROVE  Kept
<1>1. /\ fl[n] \in FlowStates /\ fl[n].pc = "asked" /\ wish' \in BOOLEAN /\ m \in Pages /\ jobs' = jobs
      /\ used' = used /\ cans' = cans
  BY DEF IInv, Types, PollAnswered
<1>2. Asking(fl[n]) /\ SameUse /\ fl[n].pc # "wait"
  BY <1>1, SameUsed DEF Asking
<1>3. Active(fl[n]) /\ fl[n].job <= used.jobs /\ Near(n, m) /\ KnownPage(m) /\ fl[n].job # 0
      /\ fl[n].type \in {"sweep", "hybrid", "recovery"} \union Tasks
  BY <1>2, AskingOK
<1> DEFINE f == [fl[n] EXCEPT !.errs = 0]
           s == jobs[f.job].status
           p == IF f.type = "hybrid" /\ s # "gone" THEN [m EXCEPT !.wiz.errs = 0] ELSE m
           h == [f EXCEPT !.got = IF s = "done" THEN "done" ELSE ""]
<1>4. f \in FlowStates /\ f.type = fl[n].type /\ f.gen = fl[n].gen /\ f.job = fl[n].job
  BY <1>1 DEF FlowStates
<1>5. Mild(p)
  <2>1. Mild([m EXCEPT !.wiz.errs = 0])
    BY WizardErrsOK
  <2> QED BY <2>1, MildSame
<1>6. h \in FlowStates /\ h.type = fl[n].type /\ h.gen = fl[n].gen /\ h.job = fl[n].job
  <2> HIDE DEF s
  <2> QED BY <1>4 DEF FlowStates
<1>7. Current(m, f) => Current(m, fl[n])
  BY <1>4 DEF Current, TaskOf
<1>8. \/ ~Current(m, f) /\ End(n, m, fl[n])
      \/ s \in Live /\ GoOn(n, p, f, "poll")
      \/ f.type = "sweep" /\ Current(m, f) /\ s \notin Live /\ End(n, SweepCleared(p), f)
      \/ f.type = "sweep" /\ Current(m, f) /\ GoOn(n, SweepCleared(p), h, "post")
      \/ f.type = "hybrid" /\ WizardStepDone(n, p, f)
      \/ f.type = "hybrid" /\ End(n, p, f)
      \/ f.type \notin {"sweep", "hybrid"} /\ s \notin Live
           /\ End(n, IF s = "gone" THEN p ELSE TaskResult(p, f, s), f)
  <2> HIDE DEF f, s, p, h
  <2> QED BY DEF PollAnswered, f, s, p, h
<1>9. ASSUME NEW q, NEW g, End(n, q, g) PROVE CancelsOK
  BY <1>1, <1>2, <1>9, CancelsStay DEF End
<1>10. Near(n, p) /\ KnownPage(p) /\ p \in Pages /\ p.shown = m.shown
  BY <1>2, <1>5, MildNear DEF Mild
<1> HIDE DEF f, s, p, h
<1>11. CASE ~Current(m, f) /\ End(n, m, fl[n])
  <2>1. CancelsOK
    BY <1>9, <1>11
  <2>2. fl[n].type # "align"
    <3>1. Current(m, fl[n]) => Current(m, f)
      BY <1>4 DEF Current, TaskOf
    <3> QED BY <1>2, <1>11, <3>1, AlignCurrent
  <2> QED BY <1>1, <1>2, <1>3, <1>11, <2>1, <2>2, FlowEnding
<1>12. CASE GoOn(n, p, f, "poll")
  <2> DEFINE g == [f EXCEPT !.pc = "poll"]
  <2>1. m' = p /\ fl' = [fl EXCEPT ![n] = g]
    BY <1>12 DEF GoOn
  <2>2. g \in FlowStates /\ g.type = fl[n].type /\ g.gen = fl[n].gen /\ g.job = fl[n].job /\ g.pc = "poll"
    BY <1>4 DEF FlowStates, Steps
  <2> HIDE DEF g
  <2>3. CancelsOK
    BY <1>1, <1>2, <2>1, CancelsStay
  <2>4. Asking(g)
    BY <2>2 DEF Asking
  <2> QED BY <1>1, <1>2, <1>5, <2>1, <2>2, <2>3, <2>4, AskingGoesOn
<1>13. f.type = "sweep" /\ Current(m, f) => m.job # 0
  BY <1>3, <1>4 DEF Current, TaskOf
<1>14. CASE f.type = "sweep" /\ Current(m, f) /\ End(n, SweepCleared(p), f)
  <2> DEFINE q == SweepCleared(p)
  <2>1. q \in Pages /\ Near(n, q) /\ KnownPage(q)
    BY <1>4, <1>5, <1>13, <1>14, ClearedNear
  <2>2. q.shown = m.shown
    BY <1>10, SweepClearedOK
  <2>3. End(n, q, f)
    BY <1>14
  <2> HIDE DEF q
  <2>4. CancelsOK
    BY <1>9, <2>3
  <2> QED BY <1>1, <1>2, <1>3, <1>4, <1>14, <2>1, <2>2, <2>3, <2>4, FlowEnding
<1>15. CASE f.type = "sweep" /\ Current(m, f) /\ GoOn(n, SweepCleared(p), h, "post")
  BY <1>1, <1>2, <1>4, <1>5, <1>6, <1>13, <1>15, ToPostKeeps
<1>16. CASE f.type = "hybrid" /\ WizardStepDone(n, p, f)
  BY <1>1, <1>2, <1>4, <1>5, <1>16, StepDoneKeeps
<1>17. CASE f.type = "hybrid" /\ End(n, p, f)
  <2>1. CancelsOK
    BY <1>9, <1>17
  <2> QED BY <1>1, <1>2, <1>3, <1>4, <1>10, <1>17, <2>1, FlowEnding
<1>18. CASE f.type \notin {"sweep", "hybrid"} /\ s \notin Live
           /\ End(n, IF s = "gone" THEN p ELSE TaskResult(p, f, s), f)
  <2> DEFINE r == TaskResult(p, f, s)
             q == IF s = "gone" THEN p ELSE r
  <2>1. NoLaterSweep(n)
    BY <1>2, <1>4, <1>18, LastSweepBefore
  <2>2. /\ r \in Pages /\ r.gen = p.gen /\ r.recovering = p.recovering /\ r.wiz = p.wiz
        /\ r.own = p.own /\ r.id = p.id /\ r.job = p.job /\ r.start = p.start
    BY <1>4, <1>10, TaskResultOK
  <2> HIDE DEF r
  <2>3. /\ q \in Pages /\ q.gen = p.gen /\ q.recovering = p.recovering /\ q.wiz = p.wiz
        /\ q.own = p.own /\ q.id = p.id /\ q.job = p.job /\ q.start = p.start
    BY <1>10, <2>2
  <2>4. End(n, q, f)
    BY <1>18 DEF r
  <2> HIDE DEF q
  <2>5. Near(n, q) /\ KnownPage(q)
    BY <1>10, <2>3 DEF Near, KnownPage
  <2>6. CancelsOK
    BY <1>9, <2>4
  <2>7. jobs[f.job].status # "running"
    BY <1>18 DEF s, Live
  <2> QED BY <1>1, <1>2, <1>3, <1>4, <2>1, <2>3, <2>4, <2>5, <2>6, <2>7, FlowEnding
<1> QED BY <1>8, <1>11, <1>12, <1>14, <1>15, <1>16, <1>17, <1>18

LEMMA PostKeeps ==
  ASSUME IInv, NEW n \in Flows, Post(n)
  PROVE  Kept
<1>1. /\ fl[n] \in FlowStates /\ fl[n].pc = "post" /\ wish' \in BOOLEAN /\ m \in Pages /\ jobs' = jobs
      /\ used' = used /\ cans' = cans /\ PcOK(fl[n])
  BY DEF IInv, Types, Post, FlowInv
<1>2. Active(fl[n]) /\ fl[n].pc # "wait" /\ fl[n].pc # "find" /\ SameUse
  BY <1>1, SameUsed DEF Active
<1>3. fl[n].type = "sweep"
  BY <1>1, <1>2, FlowOK DEF PcOK
<1>4. Near(n, m) /\ KnownPage(m) /\ fl[n].job <= used.jobs /\ fl[n].job \in 0..MaxJobs
  BY <1>1, <1>2, NearSame, FlowOK DEF IInv, KnownInv
<1> DEFINE q == IF StillWanted(m, fl[n]) THEN [m EXCEPT !.shown = fl[n].job] ELSE m
<1>5. /\ q \in Pages /\ q.gen = m.gen /\ q.recovering = m.recovering /\ q.wiz = m.wiz
      /\ q.own = m.own /\ q.id = m.id /\ q.job = m.job /\ q.start = m.start
      /\ q.shown # m.shown => StillWanted(m, fl[n])
  BY <1>1, <1>4 DEF Pages
<1>6. End(n, q, fl[n])
  BY DEF Post
<1> HIDE DEF q
<1>7. Near(n, q) /\ KnownPage(q)
  BY <1>4, <1>5 DEF Near, KnownPage
<1>8. CancelsOK
  BY <1>1, <1>2, <1>6, CancelsStay DEF End
<1>9. StillWanted(m, fl[n]) => NoLaterSweep(n)
  BY <1>3, NewestGen DEF StillWanted
<1> QED BY <1>1, <1>2, <1>3, <1>4, <1>5, <1>6, <1>7, <1>8, <1>9, FlowEnding

LEMMA NextStepKeeps ==
  ASSUME IInv, NEW n \in Flows, NextStep(n)
  PROVE  Kept
<1>1. /\ fl[n] \in FlowStates /\ fl[n].pc = "next" /\ wish' \in BOOLEAN /\ m \in Pages /\ jobs' = jobs
      /\ used' = used /\ cans' = cans /\ PcOK(fl[n])
  BY DEF IInv, Types, NextStep, FlowInv
<1>2. Active(fl[n]) /\ fl[n].pc # "wait" /\ fl[n].pc # "find" /\ SameUse
  BY <1>1, SameUsed DEF Active
<1>3. fl[n].type = "hybrid"
  BY <1>1, <1>2, FlowOK DEF PcOK
<1>4. Near(n, m) /\ KnownPage(m) /\ fl[n].job <= used.jobs
  BY <1>1, <1>2, NearSame DEF IInv, KnownInv
<1>5. CASE m.wiz.cancel
  <2>1. End(n, m, fl[n])
    BY <1>5 DEF NextStep
  <2>2. CancelsOK
    BY <1>1, <1>2, <2>1, CancelsStay DEF End
  <2> QED BY <1>1, <1>2, <1>3, <1>4, <2>1, <2>2, FlowEnding
<1>6. CASE ~m.wiz.cancel
  <2> DEFINE g == [fl[n] EXCEPT !.job = 0, !.pc = "starting"]
  <2>1. m' = m /\ fl' = [fl EXCEPT ![n] = g]
    BY <1>6 DEF NextStep, GoOn
  <2>2. /\ g \in FlowStates /\ g.type = fl[n].type /\ g.gen = fl[n].gen /\ g.job = 0
        /\ g.pc = "starting"
    BY <1>1, ConstOK DEF FlowStates, Steps
  <2> HIDE DEF g
  <2>3. Active(g) /\ ~Asking(g) /\ ~Exclusive(g)
    BY <1>3, <2>2 DEF Active, Asking, Exclusive, Tasks
  <2>4. Weaker(fl[n], g) /\ PcOK(g)
    BY <1>2, <1>3, <2>2, <2>3 DEF Weaker, PcOK, Tasks
  <2>5. OnPage(g, m)
    <3>1. OnPage(fl[n], m)
      BY DEF IInv, FlowInv
    <3> QED BY <1>2, <1>3, <2>2, <2>3, <3>1 DEF OnPage, Tasks
  <2>6. ~Orphan(g, jobs)
    BY <1>3, <2>2 DEF Orphan, Tasks
  <2>7. Spares(n, m)
    BY <1>2, <1>3 DEF Spares
  <2>8. CancelsOK
    BY <1>1, <1>2, <2>1, CancelsStay
  <2>9. g.job <= used.jobs
    BY <2>2 DEF IInv, Types, Bounds
  <2> QED BY <1>1, <1>2, <1>4, <2>1, <2>2, <2>4, <2>5, <2>6, <2>7, <2>8, <2>9, FlowMoves
<1> QED BY <1>5, <1>6

-----------------------------------------------------------------------------
(* The recovery *)

LEMMA IdleAlone ==
  ASSUME IInv, Idle(m), NEW k \in Flows
  PROVE  ~Exclusive(fl[k]) /\ ~(fl[k].type = "hybrid" /\ Active(fl[k]))
<1>1. ~m.start /\ ~m.own["sub"] /\ ~m.own["align"] /\ ~m.wiz.run
  BY DEF Idle, HasActive
<1>2. OnPage(fl[k], m)
  BY DEF IInv, FlowInv
<1> QED BY <1>1, <1>2 DEF OnPage, Exclusive, Tasks

TakenOver(p, j, b) ==
  [p EXCEPT !.own["sub"] = TRUE, !.kind = "sub", !.id["sub"] = j, !.ask["sub"] = b]

LEMMA TakenOverOK ==
  ASSUME NEW p \in Pages, NEW j \in 0..MaxJobs, NEW b \in BOOLEAN
  PROVE  LET q == TakenOver(p, j, b)
         IN /\ q \in Pages /\ q.gen = p.gen /\ q.recovering = p.recovering /\ q.wiz = p.wiz
            /\ q.job = p.job /\ q.start = p.start /\ q.shown = p.shown /\ q.own["sub"]
            /\ \A t \in Tasks : q.id[t] \in {p.id[t], j}
<1> DEFINE o == [p.own EXCEPT !["sub"] = TRUE]
           i == [p.id EXCEPT !["sub"] = j]
           a == [p.ask EXCEPT !["sub"] = b]
           q == [p EXCEPT !.own = o, !.kind = "sub", !.id = i, !.ask = a]
<1>1. /\ o \in [Tasks -> BOOLEAN] /\ i \in [Tasks -> 0..MaxJobs] /\ a \in [Tasks -> BOOLEAN]
      /\ o["sub"] /\ \A t \in Tasks : i[t] \in {p.id[t], j}
  BY PageOK DEF Tasks
<1>2. q = TakenOver(p, j, b)
  BY DEF TakenOver
<1> HIDE DEF o, i, a
<1>3. /\ q \in Pages /\ q.gen = p.gen /\ q.recovering = p.recovering /\ q.wiz = p.wiz
      /\ q.job = p.job /\ q.start = p.start /\ q.shown = p.shown /\ q.own = o /\ q.id = i
  BY <1>1 DEF Pages, Tasks
<1> HIDE DEF q
<1> QED BY <1>1, <1>2, <1>3

LEMMA FoundKeeps ==
  ASSUME IInv, NEW n \in Flows, Found(n)
  PROVE  Kept
<1>1. /\ fl[n] \in FlowStates /\ fl[n].pc = "find" /\ wish \in BOOLEAN /\ m \in Pages /\ jobs' = jobs
      /\ used' = used /\ cans' = cans /\ PcOK(fl[n]) /\ OnPage(fl[n], m)
  BY DEF IInv, Types, Found, FlowInv
<1>2. Active(fl[n]) /\ fl[n].pc # "wait" /\ SameUse
  BY <1>1, SameUsed DEF Active
<1>3. fl[n].type = "recovery"
  BY <1>1, <1>2, FlowOK DEF PcOK
<1>4. KnownPage(m) /\ fl[n].job <= used.jobs /\ m.recovering
  BY <1>1, <1>2, <1>3 DEF IInv, KnownInv, KnownPage, OnPage
<1>5. CASE GoOn(n, [m EXCEPT !.recovering = FALSE], fl[n], "off") /\ wish' = wish
  <2> DEFINE q == [m EXCEPT !.recovering = FALSE]
             g == [fl[n] EXCEPT !.pc = "off"]
  <2>1. m' = q /\ fl' = [fl EXCEPT ![n] = g] /\ wish' \in BOOLEAN
    BY <1>1, <1>5 DEF GoOn
  <2>2. /\ q \in Pages /\ q.gen = m.gen /\ q.own = m.own /\ q.id = m.id /\ q.wiz = m.wiz /\ q.job = m.job
        /\ q.start = m.start /\ q.kind = m.kind /\ q.shown = m.shown
    BY <1>1 DEF Pages
  <2>3. g \in FlowStates /\ g.type = fl[n].type /\ g.gen = fl[n].gen /\ g.job = fl[n].job /\ g.pc = "off"
    BY <1>1 DEF FlowStates, Steps
  <2> HIDE DEF q, g
  <2>4. ~Active(g) /\ ~Asking(g) /\ ~Starts(g) /\ ~Exclusive(g)
    BY <2>3 DEF Active, Asking, Starts, Exclusive
  <2>5. Weaker(fl[n], g) /\ PcOK(g)
    BY <2>3, <2>4 DEF Weaker, PcOK
  <2>6. OnPage(g, q) /\ ~Orphan(g, jobs)
    BY <1>1, <1>3, <2>2, <2>3, <2>4 DEF OnPage, Orphan, Tasks
  <2>7. Spares(n, q) /\ KnownPage(q)
    BY <1>3, <1>4, <2>2 DEF Spares, KnownPage
  <2>8. CancelsOK
    BY <1>1, <1>2, <2>1, CancelsStay
  <2> QED BY <1>1, <1>2, <1>4, <2>1, <2>2, <2>3, <2>5, <2>6, <2>7, <2>8, FlowMoves
<1> DEFINE P(j) == [m EXCEPT !.own["sub"] = TRUE, !.kind = "sub", !.id["sub"] = j,
                             !.ask["sub"] = jobs[j].status = "cancelling"]
           F(j) == [fl[n] EXCEPT !.job = j]
<1>6. ASSUME NEW j \in Newest, MayTakeOver(m, fl[n]), wish' = FALSE,
             IF jobs[j].status \in Ended THEN End(n, TaskResult(P(j), F(j), jobs[j].status), F(j))
             ELSE GoOn(n, P(j), F(j), "poll")
      PROVE  Kept
  <2> DEFINE p == P(j)
             f == F(j)
  <2>1. j \in Jobs /\ jobs[j].kind = "sub" /\ Idle(m) /\ m.gen = fl[n].gen
    BY <1>6 DEF Newest, MayTakeOver
  <2>2. j \in 0..MaxJobs /\ j # 0 /\ j <= used.jobs
    <3>1. jobs[j].status # "none"
      BY <2>1 DEF IInv, JobInv
    <3>2. j <= used.jobs
      BY <2>1, <3>1 DEF IInv, JobInv
    <3> QED BY <2>1, <3>2, ConstOK DEF Jobs
  <2>3. (jobs[j].status = "cancelling") \in BOOLEAN
    BY Zenon
  <2>4. /\ p \in Pages /\ p.gen = m.gen /\ p.recovering = m.recovering /\ p.wiz = m.wiz
        /\ p.job = m.job /\ p.start = m.start /\ p.shown = m.shown /\ p.own["sub"]
        /\ \A t \in Tasks : p.id[t] \in {m.id[t], j}
    <3> DEFINE b == jobs[j].status = "cancelling"
    <3>1. b \in BOOLEAN
      BY <2>3
    <3>2. p = TakenOver(m, j, b)
      BY DEF TakenOver
    <3> HIDE DEF b, p
    <3> QED BY <1>1, <2>2, <3>1, <3>2, TakenOverOK
  <2>5. f \in FlowStates /\ f.type = fl[n].type /\ f.gen = fl[n].gen /\ f.job = j
    BY <1>1, <2>2 DEF FlowStates
  <2>6. KnownPage(p)
    <3> HIDE DEF p
    <3> QED BY <1>4, <2>2, <2>4 DEF KnownPage
  <2>7. NoLaterSweep(n)
    BY <1>3, <2>1, NewestGen
  <2>8. CASE jobs[j].status \in Ended
    <3> DEFINE q == TaskResult(p, f, jobs[j].status)
    <3>1. End(n, q, f)
      BY <1>6, <2>8
    <3>2. wish' \in BOOLEAN
      BY <1>6
    <3> HIDE DEF p, f
    <3>3. /\ q \in Pages /\ q.gen = p.gen /\ q.recovering = p.recovering /\ q.wiz = p.wiz
          /\ q.id = p.id /\ q.job = p.job
      BY <2>4, <2>5, TaskResultOK
    <3> HIDE DEF q
    <3>4. Near(n, q) /\ KnownPage(q)
      BY <1>3, <2>1, <2>4, <2>6, <3>3 DEF Near, KnownPage
    <3>5. CancelsOK
      BY <1>1, <1>2, <3>1, CancelsStay DEF End
    <3> QED BY <1>1, <1>2, <1>3, <2>2, <2>5, <2>7, <3>1, <3>2, <3>3, <3>4, <3>5, FlowEnding
  <2>9. CASE jobs[j].status \notin Ended
    <3> DEFINE g == [f EXCEPT !.pc = "poll"]
    <3>1. m' = p /\ fl' = [fl EXCEPT ![n] = g]
      BY <1>6, <2>9 DEF GoOn
    <3>2. wish' \in BOOLEAN
      BY <1>6
    <3> HIDE DEF p, f
    <3>3. g \in FlowStates /\ g.type = fl[n].type /\ g.gen = fl[n].gen /\ g.job = j /\ g.pc = "poll"
      BY <2>5 DEF FlowStates, Steps
    <3> HIDE DEF g
    <3>4. Active(g) /\ Asking(g) /\ ~Starts(g)
      BY <3>3 DEF Active, Asking, Starts
    <3>5. PcOK(g)
      BY <1>3, <2>2, <3>3, <3>4 DEF PcOK, Tasks
    <3>6. OnPage(g, p) /\ ~Orphan(g, jobs)
      BY <1>1, <1>3, <1>4, <2>4, <3>3, <3>4 DEF OnPage, Orphan, Tasks
    <3>7. Spares(n, p)
      BY <1>3, <2>1, <2>4 DEF Spares
    <3>8. Settles(n, g)
      <4>1. \A k \in Flows : k # n => Apart(g, fl[k]) /\ Apart(fl[k], g)
        <5> SUFFICES ASSUME NEW k \in Flows, k # n PROVE Apart(g, fl[k]) /\ Apart(fl[k], g)
          OBVIOUS
        <5>1. ~Exclusive(fl[k])
          BY <2>1, IdleAlone
        <5>2. ~(fl[k].type = "recovery" /\ Active(fl[k]))
          BY <1>2, <1>3 DEF IInv, FlowInv, Apart
        <5> QED BY <1>3, <3>3, <5>1, <5>2 DEF Apart
      <4>2. \A k \in Flows : n < k => fl[k].type # "sweep"
        BY <2>7 DEF NoLaterSweep, Flows
      <4>3. \A k \in Flows : n < k => Before(g, fl[k])
        BY <4>2 DEF Before
      <4>4. \A k \in Flows : k < n => Before(fl[k], g)
        BY <1>3, <3>3 DEF Before
      <4> QED BY <3>3, <4>1, <4>3, <4>4 DEF Settles
    <3>9. CancelsOK
      BY <1>1, <1>2, <3>1, CancelsStay
    <3> QED BY <1>1, <1>2, <2>2, <2>4, <2>6, <3>1, <3>2, <3>3, <3>5, <3>6, <3>7, <3>8, <3>9, FlowMoves
  <2> QED BY <2>8, <2>9
<1>7. CASE \E j \in Newest \ {m.handled} :
             /\ MayTakeOver(m, fl[n]) /\ wish' = FALSE
             /\ IF jobs[j].status \in Ended THEN End(n, TaskResult(P(j), F(j), jobs[j].status), F(j))
                ELSE GoOn(n, P(j), F(j), "poll")
  <2> HIDE DEF P, F
  <2> QED BY <1>6, <1>7
<1> QED BY <1>5, <1>7 DEF Found

-----------------------------------------------------------------------------
(* Steps that leave the flows alone *)

LEMMA PageMoves ==
  ASSUME IInv, NEW q \in Pages, m' = q, fl' = fl, jobs' = jobs, SameUse, wish' \in BOOLEAN, CancelsOK,
         \A k \in Flows : OnPage(fl[k], q),
         KnownPage(q), q.shown = m.shown
  PROVE  Kept
<1>1. Types'
  BY DEF IInv, Types, SameUse, CancelsOK
<1>2. FlowInv'
  BY DEF IInv, FlowInv, SameUse
<1>3. JobInv' /\ OrphanInv'
  BY DEF IInv, JobInv, OrphanInv, SameUse
<1>4. KnownInv'
  BY DEF IInv, KnownInv, KnownPage, CancelsOK, SameUse
<1>5. CancelInv'
  BY DEF CancelsOK
<1>6. ShownBy
  BY DEF ShownBy
<1> QED BY <1>1, <1>2, <1>3, <1>4, <1>5, <1>6 DEF IInv, Kept

LEMMA MildKeeps ==
  ASSUME IInv, NEW q, Mild(q), m' = q, fl' = fl, jobs' = jobs, SameUse, wish' \in BOOLEAN, CancelsOK
  PROVE  Kept
<1>1. /\ q.gen = m.gen /\ q.own = m.own /\ q.id = m.id /\ q.recovering = m.recovering
      /\ q.shown = m.shown /\ q \in Pages /\ q.job \in {m.job, 0}
      /\ q.wiz.run = m.wiz.run /\ (q.wiz.open => m.wiz.open) /\ q.wiz.job = m.wiz.job
      /\ m.job = 0 => q.start = m.start /\ q.job = m.job /\ q.kind = m.kind
  BY DEF Mild
<1>2. KnownPage(q)
  <2>1. 0 <= used.jobs
    BY DEF IInv, Types, Bounds
  <2> QED BY <1>1, <2>1 DEF KnownPage, IInv, KnownInv
<1>3. ASSUME NEW k \in Flows PROVE OnPage(fl[k], q)
  <2>1. OnPage(fl[k], m)
    BY <1>3 DEF IInv, FlowInv
  <2>2. CASE m.job = 0
    BY <1>1, <2>1, <2>2 DEF OnPage
  <2>3. CASE m.job # 0
    <3>1. ~(fl[k].type \in Tasks /\ Active(fl[k])) /\ ~(fl[k].type = "sweep" /\ Starts(fl[k]))
      BY <2>1, <2>3 DEF OnPage
    <3> QED BY <1>1, <2>1, <3>1 DEF OnPage
  <2> QED BY <2>2, <2>3
<1> QED BY <1>1, <1>2, <1>3, PageMoves

LEMMA CancelsSame ==
  ASSUME IInv, fl' = fl, jobs' = jobs, cans' \subseteq cans
  PROVE  CancelsOK
  BY DEF CancelsOK, IInv, CancelInv, KnownInv, Types

\* A request that no flow awaits.
LEMMA CancelSent ==
  ASSUME IInv, fl' = fl, jobs' = jobs, NEW r \in CancelReqs, cans' = cans \union {r},
         r.by = 0, r.val = "sent", r.job <= used.jobs
  PROVE  CancelsOK
<1>1. \A c \in cans' : c.by # 0 => fl'[c.by].pc = "wait" /\ fl'[c.by].job = c.job
  BY DEF IInv, CancelInv
<1>2. \A c, d \in cans' : c.by = d.by /\ c.by # 0 => c = d
  BY DEF IInv, CancelInv
<1>3. \A c \in cans' : c.val \notin {"sent", "lost"} => jobs'[c.job].status # "running"
  BY DEF IInv, CancelInv
<1> QED BY <1>1, <1>2, <1>3 DEF CancelsOK, IInv, CancelInv, KnownInv, Types

LEMMA ClearedMild ==
  ASSUME IInv, m.job # 0
  PROVE  Mild(SweepCleared(m))
<1> DEFINE q == SweepCleared(m)
<1>1. m \in Pages
  BY DEF IInv, Types
<1>2. q \in Pages /\ Marks(q) = Marks(m) /\ q.shown = m.shown /\ q.job = 0
  BY <1>1, SweepClearedOK
<1> HIDE DEF q
<1>3. q.gen = m.gen /\ q.own = m.own /\ q.id = m.id /\ q.recovering = m.recovering /\ q.wiz = m.wiz
  BY <1>2 DEF Marks
<1>4. Mild(q)
  BY <1>2, <1>3 DEF Mild
<1> QED BY <1>4 DEF q

\* What the wizard's record may change without claiming anything.
LEMMA WizardMild ==
  ASSUME IInv, NEW w \in Wizards, w.run = m.wiz.run, w.open => m.wiz.open, w.job = m.wiz.job
  PROVE  Mild([m EXCEPT !.wiz = w])
<1>1. m \in Pages
  BY DEF IInv, Types
<1> QED BY <1>1 DEF Mild, Pages, Wizards

LEMMA CloseMild ==
  ASSUME IInv, NEW b \in BOOLEAN
  PROVE  Mild([m EXCEPT !.wiz.open = FALSE]) /\ Mild([m EXCEPT !.wiz.open = FALSE, !.wiz.cancel = b])
         /\ Mild([m EXCEPT !.wiz.cancel = b])
<1>1. m.wiz \in Wizards
  BY PageOK DEF IInv, Types
<1> DEFINE u == [m.wiz EXCEPT !.open = FALSE]
           v == [m.wiz EXCEPT !.open = FALSE, !.cancel = b]
           w == [m.wiz EXCEPT !.cancel = b]
<1>2. u \in Wizards /\ u.run = m.wiz.run /\ ~u.open /\ u.job = m.wiz.job
  BY <1>1 DEF Wizards
<1>3. v \in Wizards /\ v.run = m.wiz.run /\ ~v.open /\ v.job = m.wiz.job
  BY <1>1 DEF Wizards
<1>4. w \in Wizards /\ w.run = m.wiz.run /\ w.open = m.wiz.open /\ w.job = m.wiz.job
  BY <1>1 DEF Wizards
<1> HIDE DEF u, v, w
<1>5. Mild([m EXCEPT !.wiz = u]) /\ Mild([m EXCEPT !.wiz = v]) /\ Mild([m EXCEPT !.wiz = w])
  BY <1>2, <1>3, <1>4, WizardMild
<1> QED BY <1>5 DEF u, v, w

LEMMA AfterCancelOK ==
  ASSUME IInv, NEW c \in cans
  PROVE  Mild(AfterCancel(c))
<1>1. c.job # 0
  BY ConstOK DEF IInv, Types, CancelReqs, Jobs
<1>2. CASE c.type = "sweep" /\ m.gen = c.gen /\ m.job = c.job /\ c.val \in {"gone", "cancelled"}
  BY <1>1, <1>2, ClearedMild DEF AfterCancel
<1>3. CASE ~(c.type = "sweep" /\ m.gen = c.gen /\ m.job = c.job /\ c.val \in {"gone", "cancelled"})
  <2>1. Mild([m EXCEPT !.wiz.open = FALSE]) /\ Mild(m)
    BY CloseMild, MildSame
  <2>2. AfterCancel(c) = IF c.close THEN [m EXCEPT !.wiz.open = FALSE] ELSE m
    BY <1>3 DEF AfterCancel
  <2> QED BY <2>1, <2>2
<1> QED BY <1>2, <1>3

LEMMA CancelAnsweredKeeps ==
  ASSUME IInv, NEW c \in cans, CancelAnswered(c)
  PROVE  Kept
<1> DEFINE p == AfterCancel(c)
           n == c.by
           g == IF c.val = "lost" THEN "lost" ELSE fl[n].got
           j == IF fl[n].type = "sweep" /\ p.job # 0 THEN p.job ELSE fl[n].job
           f == [fl[n] EXCEPT !.got = g, !.job = j]
<1>1. c.val # "sent" /\ cans' = cans \ {c} /\ jobs' = jobs /\ used' = used /\ wish' \in BOOLEAN
  BY DEF CancelAnswered, IInv, Types
<1>2. SameUse /\ Mild(p)
  BY <1>1, SameUsed, AfterCancelOK
<1>3. CASE n = 0
  <2>1. m' = p /\ fl' = fl
    BY <1>3 DEF CancelAnswered
  <2> HIDE DEF p
  <2>2. CancelsOK
    BY <1>1, <2>1, CancelsSame
  <2> QED BY <1>1, <1>2, <2>1, <2>2, MildKeeps
<1>4. CASE n # 0
  <2>1. \/ (f.errs >= MaxErrors \/ (f.type = "sweep" /\ p.job = 0)) /\ End(n, p, f)
        \/ ~(f.errs >= MaxErrors \/ (f.type = "sweep" /\ p.job = 0)) /\ GoOn(n, p, f, "poll")
    BY <1>4 DEF CancelAnswered
  <2>2. n \in Flows
    BY <1>4 DEF IInv, Types, CancelReqs, Flows
  <2>3. fl[n].pc = "wait" /\ fl[n].job = c.job /\ fl[n] \in FlowStates
    BY <1>4, <2>2 DEF IInv, CancelInv, Types
  <2>4. Asking(fl[n])
    BY <2>3 DEF Asking
  <2>5. Active(fl[n]) /\ fl[n].job <= used.jobs /\ fl[n].job # 0 /\ PcOK(fl[n])
    BY <2>2, <2>4, AskingOK
  <2>6. Near(n, p) /\ KnownPage(p) /\ p \in Pages /\ p.shown = m.shown
    BY <1>2, <2>2, <2>4, MildNear DEF Mild
  <2> HIDE DEF p, n
  <2>7. g \in {"", "done", "lost"} /\ j \in 0..MaxJobs /\ j <= used.jobs /\ j # 0
        /\ (fl[n].type # "sweep" => j = fl[n].job)
    BY <2>3, <2>5, <2>6, FlowOK, PageOK DEF KnownPage
  <2> HIDE DEF g, j
  <2>8. f \in FlowStates /\ f.type = fl[n].type /\ f.gen = fl[n].gen /\ f.job = j /\ f.got = g
    BY <2>3, <2>7 DEF FlowStates
  <2> HIDE DEF f
  <2>9. CASE End(n, p, f)
    <3>1. CancelsOK
      BY <1>1, <1>4, <2>9, CancelLeaves DEF End, n
    <3>2. f.type = "align" /\ f.job # 0 /\ f.got # "lost" => jobs[f.job].status # "running"
      <4>1. c.val # "lost" => jobs[c.job].status # "running"
        BY <1>1 DEF IInv, CancelInv
      <4> QED BY <2>3, <2>7, <2>8, <4>1 DEF g
    <3>3. f.job <= used.jobs
      BY <2>7, <2>8
    <3> QED BY <1>1, <1>2, <2>2, <2>5, <2>6, <2>8, <2>9, <3>1, <3>2, <3>3, FlowEnding
  <2>10. CASE GoOn(n, p, f, "poll")
    <3> DEFINE h == [f EXCEPT !.pc = "poll"]
    <3>1. m' = p /\ fl' = [fl EXCEPT ![n] = h]
      BY <2>10 DEF GoOn
    <3>2. h \in FlowStates /\ h.type = fl[n].type /\ h.gen = fl[n].gen /\ h.job = j /\ h.pc = "poll"
      BY <2>8 DEF FlowStates, Steps
    <3> HIDE DEF h
    <3>3. CancelsOK
      BY <1>1, <1>4, <3>1, CancelLeaves DEF n
    <3>4. Asking(h)
      BY <3>2 DEF Asking
    <3>5. h.job = fl[n].job \/ (h.type = "sweep" /\ h.job # 0 /\ h.job <= used.jobs)
      BY <2>7, <3>2
    <3>6. h.pc # "wait"
      BY <3>2
    <3> QED BY <1>1, <1>2, <2>2, <2>4, <3>1, <3>2, <3>3, <3>4, <3>5, <3>6, AskingGoesOn
  <2> QED BY <2>1, <2>9, <2>10
<1> QED BY <1>3, <1>4

-----------------------------------------------------------------------------
(* The server *)

\* A job only goes on towards its end.
LEMMA JobsSettle ==
  ASSUME IInv, m' = m, fl' = fl, wish' = wish, SameUse, CancelsOK, jobs' \in [Jobs -> JobStates],
         \A j \in Jobs : /\ jobs'[j].kind = jobs[j].kind
                         /\ jobs'[j].status = "none" <=> jobs[j].status = "none"
                         /\ jobs'[j].status \in Live => jobs[j].status \in Live
                         /\ jobs'[j].status = "running" => jobs[j].status = "running"
  PROVE  Kept
<1>1. Types'
  BY DEF IInv, Types, SameUse, CancelsOK
<1>2. FlowInv'
  BY DEF IInv, FlowInv, SameUse
<1>3. JobInv'
  BY DEF IInv, JobInv, SameUse
<1>4. KnownInv'
  BY DEF IInv, KnownInv, CancelsOK, SameUse
<1>5. CancelInv'
  BY DEF CancelsOK
<1>6. OrphanInv'
  <2>1. \A k \in Flows : fl[k].job # 0 => fl[k].job \in Jobs
    <3>1. \A k \in Flows : fl[k] \in FlowStates
      BY DEF IInv, Types
    <3>2. \A k \in Flows : fl[k].job \in 0..MaxJobs
      BY <3>1, FlowOK
    <3> QED BY <3>2, ConstOK DEF Jobs
  <2> QED BY <2>1 DEF IInv, OrphanInv, Orphan
<1>7. ShownBy
  BY DEF ShownBy
<1> QED BY <1>1, <1>2, <1>3, <1>4, <1>5, <1>6, <1>7 DEF IInv, Kept

LEMMA CancelJobsOK ==
  ASSUME IInv, fl' = fl, cans' = cans,
         \A j \in Jobs : jobs'[j].status = "running" => jobs[j].status = "running"
  PROVE  CancelsOK
<1>1. \A c \in cans : c.job \in Jobs
  BY DEF IInv, Types, CancelReqs
<1> QED BY <1>1 DEF CancelsOK, IInv, CancelInv, KnownInv, Types

LEMMA StatusSet ==
  ASSUME IInv, NEW j \in Jobs, NEW s \in {"none", "gone"} \union Live \union Ended,
         jobs' = [jobs EXCEPT ![j].status = s]
  PROVE  /\ jobs' \in [Jobs -> JobStates] /\ jobs'[j].status = s /\ jobs'[j].kind = jobs[j].kind
         /\ \A k \in Jobs : k # j => jobs'[k] = jobs[k]
<1>1. jobs \in [Jobs -> JobStates] /\ jobs[j] \in JobStates
  BY DEF IInv, Types
<1> DEFINE r == [jobs[j] EXCEPT !.status = s]
<1>2. r \in JobStates /\ r.status = s /\ r.kind = jobs[j].kind
  BY <1>1 DEF JobStates
<1>3. jobs' = [jobs EXCEPT ![j] = r]
  OBVIOUS
<1> HIDE DEF r
<1> QED BY <1>1, <1>2, <1>3

LEMMA JobEndsKeeps ==
  ASSUME IInv, NEW j \in Jobs, JobEnds(j) \/ CancelEndsJob(j)
  PROVE  Kept
<1>1. /\ jobs[j].status \in Live /\ m' = m /\ fl' = fl /\ cans' = cans /\ used' = used /\ wish' = wish
      /\ \E s \in Ended : jobs' = [jobs EXCEPT ![j].status = s]
  BY DEF JobEnds, CancelEndsJob, Live, Ended
<1>2. PICK s \in Ended : jobs' = [jobs EXCEPT ![j].status = s]
  BY <1>1
<1>3. s \notin Live /\ s # "none" /\ s # "running" /\ jobs[j].status # "none"
  BY <1>1 DEF Ended, Live
<1>4. /\ jobs' \in [Jobs -> JobStates] /\ jobs'[j].status = s /\ jobs'[j].kind = jobs[j].kind
      /\ \A k \in Jobs : k # j => jobs'[k] = jobs[k]
  BY <1>2, StatusSet
<1>5. \A k \in Jobs : /\ jobs'[k].kind = jobs[k].kind
                      /\ jobs'[k].status = "none" <=> jobs[k].status = "none"
                      /\ jobs'[k].status \in Live => jobs[k].status \in Live
                      /\ jobs'[k].status = "running" => jobs[k].status = "running"
  BY <1>3, <1>4
<1>6. CancelsOK /\ SameUse
  BY <1>1, <1>5, CancelJobsOK, SameUsed
<1> QED BY <1>1, <1>4, <1>5, <1>6, JobsSettle

LEMMA RestartKeeps ==
  ASSUME IInv, Restart
  PROVE  Kept
<1>1. /\ m' = m /\ fl' = fl /\ cans' = cans /\ wish' = wish /\ SameUse /\ jobs \in [Jobs -> JobStates]
  BY FaultUsed DEF Restart, IInv, Types
<1>2. \A j \in Jobs : [jobs[j] EXCEPT !.status = "gone"] \in JobStates
  BY <1>1 DEF JobStates
<1>3. jobs' \in [Jobs -> JobStates]
  BY <1>1, <1>2 DEF Restart
<1>4. \A j \in Jobs : /\ jobs'[j].kind = jobs[j].kind
                      /\ jobs'[j].status = IF jobs[j].status = "none" THEN "none" ELSE "gone"
  BY <1>1 DEF Restart, JobStates
<1>5. \A k \in Jobs : /\ jobs'[k].kind = jobs[k].kind
                      /\ jobs'[k].status = "none" <=> jobs[k].status = "none"
                      /\ jobs'[k].status \in Live => jobs[k].status \in Live
                      /\ jobs'[k].status = "running" => jobs[k].status = "running"
  BY <1>4 DEF Live
<1>6. CancelsOK
  BY <1>1, <1>5, CancelJobsOK
<1> QED BY <1>1, <1>3, <1>5, <1>6, JobsSettle

\* A request c becomes d, for the same job and the same flow.
LEMMA CancelTurns ==
  ASSUME IInv, fl' = fl, NEW c \in cans, NEW d \in CancelReqs, d.by = c.by, d.job = c.job,
         cans' = (cans \ {c}) \union {d},
         \A j \in Jobs : jobs'[j].status = "running" => jobs[j].status = "running",
         d.val \notin {"sent", "lost"} => jobs'[d.job].status # "running"
  PROVE  CancelsOK
<1>1. \A x \in cans : x.job \in Jobs
  BY DEF IInv, Types, CancelReqs
<1>2. \A x \in cans' : x.by # 0 => fl'[x.by].pc = "wait" /\ fl'[x.by].job = x.job
  BY DEF IInv, CancelInv
<1>3. \A x, y \in cans' : x.by = y.by /\ x.by # 0 => x = y
  BY DEF IInv, CancelInv
<1>4. \A x \in cans' : x.val \notin {"sent", "lost"} => jobs'[x.job].status # "running"
  BY <1>1 DEF IInv, CancelInv
<1>5. cans' \subseteq CancelReqs /\ \A x \in cans' : x.job <= used.jobs
  BY DEF IInv, KnownInv, Types
<1> QED BY <1>2, <1>3, <1>4, <1>5 DEF CancelsOK, CancelInv

LEMMA ReqTurned ==
  ASSUME NEW c \in CancelReqs, NEW v \in {"sent", "lost", "gone"} \union Live \union Ended
  PROVE  LET d == [c EXCEPT !.val = v]
         IN d \in CancelReqs /\ d.by = c.by /\ d.job = c.job /\ d.val = v
  BY DEF CancelReqs

LEMMA CancelReachesKeeps ==
  ASSUME IInv, NEW c \in cans, CancelReaches(c)
  PROVE  Kept
<1> DEFINE s == IF jobs[c.job].status \in Live THEN "cancelling" ELSE jobs[c.job].status
           d == [c EXCEPT !.val = s]
<1>1. /\ m' = m /\ fl' = fl /\ used' = used /\ wish' = wish
      /\ jobs' = [jobs EXCEPT ![c.job].status = s] /\ cans' = (cans \ {c}) \union {d}
  BY DEF CancelReaches
<1>2. c \in CancelReqs /\ c.job \in Jobs /\ jobs[c.job] \in JobStates
  BY DEF IInv, Types, CancelReqs
<1>3. jobs[c.job].status # "none"
  BY <1>2 DEF IInv, KnownInv, JobInv
<1>4. /\ s \in {"gone"} \union Live \union Ended /\ s # "running" /\ s # "none"
      /\ s \in Live => jobs[c.job].status \in Live
  BY <1>2, <1>3 DEF JobStates, Live
<1> HIDE DEF s
<1>5. d \in CancelReqs /\ d.by = c.by /\ d.job = c.job
  BY <1>2, <1>4, ReqTurned
<1> HIDE DEF d
<1>6. /\ jobs' \in [Jobs -> JobStates] /\ jobs'[c.job].status = s /\ jobs'[c.job].kind = jobs[c.job].kind
      /\ \A k \in Jobs : k # c.job => jobs'[k] = jobs[k]
  BY <1>1, <1>2, <1>4, StatusSet
<1>7. \A k \in Jobs : /\ jobs'[k].kind = jobs[k].kind
                      /\ jobs'[k].status = "none" <=> jobs[k].status = "none"
                      /\ jobs'[k].status \in Live => jobs[k].status \in Live
                      /\ jobs'[k].status = "running" => jobs[k].status = "running"
  BY <1>3, <1>4, <1>6
<1>8. CancelsOK /\ SameUse
  <2>1. SameUse
    BY <1>1, SameUsed
  <2>2. jobs'[d.job].status # "running"
    BY <1>4, <1>5, <1>6
  <2>3. CancelsOK
    BY <1>1, <1>5, <1>7, <2>2, CancelTurns
  <2> QED BY <2>1, <2>3
<1> QED BY <1>1, <1>6, <1>7, <1>8, JobsSettle

LEMMA CancelFailsKeeps ==
  ASSUME IInv, NEW c \in cans, CancelFails(c)
  PROVE  Kept
<1> DEFINE d == [c EXCEPT !.val = "lost"]
<1>1. /\ m' = m /\ fl' = fl /\ jobs' = jobs /\ wish' = wish /\ wish \in BOOLEAN /\ SameUse
      /\ cans' = (cans \ {c}) \union {d} /\ c \in CancelReqs
  BY FaultUsed DEF CancelFails, IInv, Types
<1>2. d \in CancelReqs /\ d.by = c.by /\ d.job = c.job /\ d.val = "lost"
  BY <1>1 DEF CancelReqs
<1> HIDE DEF d
<1>3. CancelsOK
  BY <1>1, <1>2, CancelTurns
<1>4. Mild(m)
  BY MildSame
<1> QED BY <1>1, <1>3, <1>4, MildKeeps

LEMMA OtherPageKeeps ==
  ASSUME IInv, OtherPage
  PROVE  Kept
<1>1. /\ NewJob("sub") /\ used' = [used EXCEPT !.jobs = @ + 1] /\ m' = m /\ fl' = fl /\ cans' = cans
      /\ wish' = wish /\ "sub" \in {"sweep", "hybrid"} \union Tasks
  BY DEF OtherPage, Tasks
<1>2. /\ used' \in Bounds /\ used'.max = used.max /\ used'.flows = used.flows
      /\ jobs' \in [Jobs -> JobStates] /\ JobInv'
  BY <1>1, NewJobOK, Zenon
<1>3. /\ KnownPage(m)' /\ (\A c \in cans' : c.job <= used'.jobs)
      /\ (\A c \in cans' : c.val \notin {"sent", "lost"} => jobs'[c.job].status # "running")
      /\ \A k \in Flows : fl[k].job <= used'.jobs /\ ~Orphan(fl[k], jobs')
  BY <1>1, NewJobKnown, Zenon
<1>4. Types'
  BY <1>1, <1>2 DEF IInv, Types
<1>5. FlowInv'
  BY <1>1, <1>2 DEF IInv, FlowInv
<1>6. KnownInv'
  BY <1>1, <1>3 DEF KnownInv, KnownPage
<1>7. CancelInv'
  BY <1>1, <1>3 DEF IInv, CancelInv
<1>8. OrphanInv'
  BY <1>1, <1>3 DEF OrphanInv
<1>9. ShownBy
  BY <1>1 DEF ShownBy
<1> QED BY <1>2, <1>4, <1>5, <1>6, <1>7, <1>8, <1>9 DEF IInv, Kept

-----------------------------------------------------------------------------
(* The user *)

NewFlow(t, p) == [type |-> t, pc |-> IF t = "recovery" THEN "find" ELSE "starting", job |-> 0,
                  gen |-> p.gen, errs |-> 0, got |-> ""]

LEMMA BeginKeeps ==
  ASSUME IInv, NEW t \in {"sweep", "hybrid", "recovery"} \union Tasks, NEW p \in Pages, Begin(t, p),
         OnPage(NewFlow(t, p), p), KnownPage(p), p.shown = m.shown,
         \A k \in Flows : /\ OnPage(fl[k], p)
                          /\ Apart(NewFlow(t, p), fl[k]) /\ Apart(fl[k], NewFlow(t, p))
                          /\ Before(fl[k], NewFlow(t, p))
  PROVE  Kept
<1> DEFINE n == used.flows + 1
           g == NewFlow(t, p)
<1>1. /\ t \in used.max.kinds /\ used.flows < used.max.flows /\ m' = p /\ wish' = FALSE
      /\ used' = [used EXCEPT !.flows = @ + 1] /\ fl' = [fl EXCEPT ![n] = g] /\ cans' = cans /\ jobs' = jobs
  BY DEF Begin, NewFlow
<1>2. used \in Bounds /\ used.flows \in Nat /\ used.max \in Instances
  BY DEF IInv, Types, Bounds
<1>3. used.max.flows \in 0..MaxFlows
  BY <1>2, CaseOK
<1>4. n \in Flows /\ n \in 0..MaxFlows
  BY <1>1, <1>2, <1>3, ConstOK DEF Flows
<1>5. used' \in Bounds /\ used'.max = used.max /\ used'.flows = n /\ used'.jobs = used.jobs
  BY <1>1, <1>2, <1>4 DEF Bounds
<1>6. /\ g \in FlowStates /\ g.type = t /\ g.job = 0 /\ g.gen = p.gen
      /\ g.pc = IF t = "recovery" THEN "find" ELSE "starting"
  BY PageOK, ConstOK DEF NewFlow, FlowStates, Steps
<1> HIDE DEF g
<1>7. /\ fl'[n] = g /\ (\A k \in Flows : k # n => fl'[k] = fl[k]) /\ fl' \in [Flows -> FlowStates]
  BY <1>1, <1>4, <1>6 DEF IInv, Types
<1>8. fl[n].type = "none" /\ fl[n].pc = "off"
  <2>1. n > used.flows
    BY <1>2
  <2> QED BY <1>4, <2>1 DEF IInv, FlowInv, PcOK, Active
<1>9. PcOK(g) /\ Active(g)
  BY <1>6 DEF PcOK, Active, Asking, Tasks
<1>10. Types'
  BY <1>1, <1>5, <1>7 DEF IInv, Types
<1>11. FlowInv'
  <2>1. \A k \in Flows : /\ PcOK(fl'[k]) /\ OnPage(fl'[k], m')
                         /\ fl'[k].type \in used.max.kinds \union {"none"}
    BY <1>1, <1>6, <1>7, <1>9 DEF IInv, FlowInv, g
  <2>2. \A k \in Flows : k > n => k > used.flows
    BY <1>2 DEF Flows
  <2>3. \A k \in Flows : k > n => fl'[k].type = "none"
    <3> SUFFICES ASSUME NEW k \in Flows, k > n PROVE fl'[k].type = "none"
      OBVIOUS
    <3>1. k # n /\ k > used.flows
      BY <1>2, <2>2 DEF Flows
    <3> QED BY <1>7, <3>1 DEF IInv, FlowInv
  <2>4. \A j, k \in Flows : j # k => Apart(fl'[j], fl'[k])
    BY <1>7 DEF IInv, FlowInv, g
  <2>5. \A j, k \in Flows : j < k => Before(fl'[j], fl'[k])
    <3> SUFFICES ASSUME NEW j \in Flows, NEW k \in Flows, j < k PROVE Before(fl'[j], fl'[k])
      OBVIOUS
    <3>1. j # k
      BY DEF Flows
    <3>2. CASE k = n
      BY <1>7, <3>1, <3>2 DEF g
    <3>3. CASE j = n
      <4>1. fl'[k].type = "none"
        BY <2>3, <3>3 DEF Flows
      <4> QED BY <4>1 DEF Before
    <3>4. CASE j # n /\ k # n
      BY <1>7, <3>4 DEF IInv, FlowInv
    <3> QED BY <3>2, <3>3, <3>4
  <2> QED BY <1>5, <2>1, <2>3, <2>4, <2>5 DEF FlowInv
<1>12. JobInv'
  BY <1>1, <1>5 DEF IInv, JobInv
<1>13. KnownInv'
  <2>1. 0 <= used.jobs
    BY DEF IInv, Types, Bounds
  <2>2. \A k \in Flows : fl'[k].job <= used.jobs
    BY <1>6, <1>7, <2>1 DEF IInv, KnownInv
  <2> QED BY <1>1, <1>5, <2>2 DEF IInv, KnownInv, KnownPage
<1>14. CancelInv'
  <2>1. fl[n].pc # "wait"
    BY <1>8
  <2>2. CancelsOK
    BY <1>1, <1>4, <2>1, CancelsStay
  <2> QED BY <2>2 DEF CancelsOK
<1>15. OrphanInv'
  BY <1>1, <1>7, <1>9 DEF IInv, OrphanInv, Orphan
<1>16. ShownBy
  BY <1>1 DEF ShownBy
<1> QED BY <1>10, <1>11, <1>12, <1>13, <1>14, <1>15, <1>16 DEF IInv, Kept

\* A step from an idle page that leaves the wizard and the recovery alone.
LEMMA FromIdle ==
  ASSUME IInv, Idle(m), NEW p \in Pages, p.recovering = m.recovering, m.gen <= p.gen, NEW k \in Flows
  PROVE  /\ OnPage(fl[k], p) /\ ~Exclusive(fl[k])
         /\ ~(fl[k].type = "hybrid" /\ Active(fl[k]))
<1>1. ~Exclusive(fl[k]) /\ ~(fl[k].type = "hybrid" /\ Active(fl[k]))
  BY IdleAlone
<1>2. ~(fl[k].type \in Tasks /\ Active(fl[k])) /\ ~(fl[k].type = "sweep" /\ Starts(fl[k]))
      /\ ~(fl[k].type = "recovery" /\ Asking(fl[k]))
  BY <1>1 DEF Exclusive
<1>3. OnPage(fl[k], m)
  BY DEF IInv, FlowInv
<1>4. fl[k].gen <= p.gen
  <2>1. fl[k].gen <= m.gen
    BY <1>3 DEF OnPage
  <2>2. fl[k].gen \in Nat /\ m.gen \in Nat /\ p.gen \in Nat
    BY PageOK, FlowOK DEF IInv, Types
  <2> QED BY <2>1, <2>2
<1> QED BY <1>1, <1>2, <1>3, <1>4 DEF OnPage

LEMMA NewFlowOK ==
  ASSUME NEW t \in {"sweep", "hybrid", "recovery"} \union Tasks, NEW p \in Pages
  PROVE  LET g == NewFlow(t, p)
         IN /\ g.type = t /\ g.gen = p.gen /\ g.pc = IF t = "recovery" THEN "find" ELSE "starting"
            /\ Active(g) /\ ~Asking(g) /\ p.gen <= p.gen
<1>1. p.gen <= p.gen
  <2>1. p.gen \in Nat
    BY PageOK
  <2> QED BY <2>1
<1> QED BY <1>1 DEF NewFlow, Active, Asking

LEMMA StartMeasurementKeeps ==
  ASSUME IInv, StartMeasurement
  PROVE  Kept
<1> DEFINE p == [m EXCEPT !.gen = @ + 1, !.start = TRUE, !.cancel = FALSE, !.kind = "", !.job = 0]
           g == NewFlow("sweep", p)
<1>1. Idle(m) /\ ~m.wiz.open /\ Begin("sweep", p) /\ m \in Pages
  BY DEF StartMeasurement, IInv, Types
<1>2. m.gen \in Nat
  BY <1>1, PageOK
<1>3. /\ p \in Pages /\ p.gen = m.gen + 1 /\ p.start /\ p.job = 0 /\ p.wiz = m.wiz /\ p.id = m.id
      /\ p.recovering = m.recovering /\ p.shown = m.shown
  <2> DEFINE x == m.gen + 1
  <2>1. x \in Nat /\ p = [m EXCEPT !.gen = x, !.start = TRUE, !.cancel = FALSE, !.kind = "", !.job = 0]
    BY <1>2
  <2> HIDE DEF x
  <2>2. /\ p \in Pages /\ p.gen = x /\ p.start /\ p.job = 0 /\ p.wiz = m.wiz /\ p.id = m.id
        /\ p.recovering = m.recovering /\ p.shown = m.shown
    BY <1>1, <2>1, ConstOK DEF Pages
  <2> QED BY <2>2 DEF x
<1> HIDE DEF p
<1>4. m.gen <= p.gen /\ ~m.wiz.run
  BY <1>1, <1>2, <1>3 DEF Idle, HasActive
<1>5. g.type = "sweep" /\ g.gen = p.gen /\ g.pc = "starting" /\ Active(g) /\ ~Asking(g) /\ p.gen <= p.gen
  <2>1. p.gen <= p.gen
    BY <1>2, <1>3
  <2> QED BY <2>1 DEF NewFlow, Active, Asking
<1> HIDE DEF g
<1>6. OnPage(g, p)
  BY <1>1, <1>3, <1>4, <1>5 DEF OnPage, Tasks
<1>7. KnownPage(p)
  <2>1. 0 <= used.jobs
    BY DEF IInv, Types, Bounds
  <2> QED BY <1>3, <2>1 DEF KnownPage, IInv, KnownInv
<1>8. ASSUME NEW k \in Flows
      PROVE  /\ OnPage(fl[k], p) /\ Apart(g, fl[k]) /\ Apart(fl[k], g)
             /\ Before(fl[k], g)
  <2>1. /\ OnPage(fl[k], p) /\ ~Exclusive(fl[k])
        /\ ~(fl[k].type = "hybrid" /\ Active(fl[k]))
    BY <1>1, <1>3, <1>4, <1>8, FromIdle
  <2>2. Apart(g, fl[k]) /\ Apart(fl[k], g)
    BY <1>5, <2>1 DEF Apart
  <2>3. fl[k].gen < g.gen
    <3>1. fl[k].gen <= m.gen /\ fl[k] \in FlowStates
      BY <1>8 DEF IInv, FlowInv, OnPage, Types
    <3>2. fl[k].gen \in Nat
      BY <3>1, FlowOK
    <3> QED BY <1>2, <1>3, <1>5, <3>1, <3>2
  <2>4. Before(fl[k], g)
    BY <2>1, <2>3 DEF Before, Exclusive
  <2> QED BY <2>1, <2>2, <2>4
<1>9. \A k \in Flows : /\ OnPage(fl[k], p)
                       /\ Apart(g, fl[k]) /\ Apart(fl[k], g) /\ Before(fl[k], g)
  BY <1>8
<1> QED BY <1>1, <1>3, <1>6, <1>7, <1>9, BeginKeeps DEF g

LEMMA StartTaskKeeps ==
  ASSUME IInv, NEW t \in Tasks, StartTask(t)
  PROVE  Kept
<1> DEFINE o == [m.own EXCEPT ![t] = TRUE]
           a == [m.ask EXCEPT ![t] = FALSE]
           i == [m.id EXCEPT ![t] = 0]
           p == [m EXCEPT !.own = o, !.start = TRUE, !.ask = a, !.kind = t, !.id = i]
           g == NewFlow(t, p)
<1>1. Idle(m) /\ ~m.wiz.open /\ Begin(t, p) /\ m \in Pages
  BY DEF StartTask, IInv, Types
<1>2. /\ o \in [Tasks -> BOOLEAN] /\ o[t] /\ a \in [Tasks -> BOOLEAN] /\ i \in [Tasks -> 0..MaxJobs]
      /\ \A s \in Tasks : i[s] \in {m.id[s], 0}
  BY <1>1, PageOK, ConstOK
<1> HIDE DEF o, a, i
<1>3. /\ p \in Pages /\ p.gen = m.gen /\ p.start /\ p.job = m.job /\ p.wiz = m.wiz /\ p.id = i /\ p.own = o
      /\ p.kind = t /\ p.recovering = m.recovering /\ p.shown = m.shown
  BY <1>1, <1>2 DEF Pages
<1> HIDE DEF p
<1>4. m.gen <= p.gen /\ ~m.wiz.run /\ m.job = 0
  <2>1. m.gen \in Nat
    BY <1>1, PageOK
  <2> QED BY <1>1, <1>3, <2>1 DEF Idle, HasActive
<1>5. t # "recovery" /\ t \in {"sweep", "hybrid", "recovery"} \union Tasks
  BY DEF Tasks
<1>6. g.type = t /\ g.gen = p.gen /\ Active(g) /\ ~Asking(g) /\ p.gen <= p.gen
  BY <1>3, <1>5, NewFlowOK
<1> HIDE DEF g
<1>7. OnPage(g, p)
  BY <1>1, <1>2, <1>3, <1>4, <1>6 DEF OnPage, Tasks
<1>8. KnownPage(p)
  <2>1. 0 <= used.jobs
    BY DEF IInv, Types, Bounds
  <2> QED BY <1>2, <1>3, <2>1 DEF KnownPage, IInv, KnownInv
<1>9. ASSUME NEW k \in Flows
      PROVE  /\ OnPage(fl[k], p) /\ Apart(g, fl[k]) /\ Apart(fl[k], g)
             /\ Before(fl[k], g)
  <2>1. /\ OnPage(fl[k], p) /\ ~Exclusive(fl[k])
        /\ ~(fl[k].type = "hybrid" /\ Active(fl[k]))
    BY <1>1, <1>3, <1>4, <1>9, FromIdle
  <2> QED BY <1>6, <2>1 DEF Apart, Before, Tasks
<1>10. \A k \in Flows : /\ OnPage(fl[k], p)
                        /\ Apart(g, fl[k]) /\ Apart(fl[k], g) /\ Before(fl[k], g)
  BY <1>9
<1> QED BY <1>1, <1>3, <1>5, <1>7, <1>8, <1>10, BeginKeeps DEF g

LEMMA RecoverKeeps ==
  ASSUME IInv, RecoverAutoSubJob
  PROVE  Kept
<1> DEFINE p == [m EXCEPT !.recovering = TRUE]
           g == NewFlow("recovery", p)
<1>1. Idle(m) /\ ~m.recovering /\ Begin("recovery", p) /\ m \in Pages
  BY DEF RecoverAutoSubJob, IInv, Types
<1>2. /\ p \in Pages /\ p.gen = m.gen /\ p.start = m.start /\ p.job = m.job /\ p.wiz = m.wiz /\ p.id = m.id
      /\ p.own = m.own /\ p.kind = m.kind /\ p.recovering /\ p.shown = m.shown
  BY <1>1 DEF Pages
<1> HIDE DEF p
<1>3. g.type = "recovery" /\ g.gen = p.gen /\ g.pc = "find" /\ Active(g) /\ ~Asking(g) /\ p.gen <= p.gen
  <2>1. p.gen \in Nat
    BY <1>2, PageOK
  <2>2. p.gen <= p.gen
    BY <2>1
  <2> QED BY <2>2 DEF NewFlow, Active, Asking
<1> HIDE DEF g
<1>4. OnPage(g, p) /\ ~Exclusive(g)
  BY <1>2, <1>3 DEF OnPage, Exclusive, Tasks
<1>5. KnownPage(p)
  BY <1>2 DEF KnownPage, IInv, KnownInv
<1>6. ASSUME NEW k \in Flows
      PROVE  /\ OnPage(fl[k], p) /\ Apart(g, fl[k]) /\ Apart(fl[k], g)
             /\ Before(fl[k], g)
  <2>1. OnPage(fl[k], m)
    BY <1>6 DEF IInv, FlowInv
  <2>2. ~(fl[k].type = "recovery" /\ Active(fl[k]))
    BY <1>1, <2>1 DEF OnPage
  <2>3. OnPage(fl[k], p)
    BY <1>2, <2>1 DEF OnPage
  <2> QED BY <1>3, <1>4, <2>2, <2>3 DEF Apart, Before
<1>7. \A k \in Flows : /\ OnPage(fl[k], p)
                       /\ Apart(g, fl[k]) /\ Apart(fl[k], g) /\ Before(fl[k], g)
  BY <1>6
<1> QED BY <1>1, <1>2, <1>4, <1>5, <1>7, BeginKeeps DEF g

\* While the wizard is open, no task runs and no sweep starts.
LEMMA WizardAlone ==
  ASSUME IInv, m.wiz.open, NEW k \in Flows
  PROVE  ~(fl[k].type \in Tasks /\ Active(fl[k])) /\ ~(fl[k].type = "sweep" /\ Starts(fl[k]))
  BY DEF IInv, FlowInv, OnPage

LEMMA RunWizardKeeps ==
  ASSUME IInv, RunWizard
  PROVE  Kept
<1> DEFINE w == [m.wiz EXCEPT !.run = TRUE, !.cancel = FALSE]
           p == [m EXCEPT !.wiz = w]
           g == NewFlow("hybrid", p)
<1>1. m.wiz.open /\ ~m.wiz.run /\ Begin("hybrid", p) /\ m \in Pages
  BY DEF RunWizard, IInv, Types
<1>2. w \in Wizards /\ w.run /\ w.job = m.wiz.job
  BY <1>1, PageOK DEF Wizards
<1> HIDE DEF w
<1>3. /\ p \in Pages /\ p.gen = m.gen /\ p.start = m.start /\ p.job = m.job /\ p.wiz = w /\ p.id = m.id
      /\ p.own = m.own /\ p.kind = m.kind /\ p.recovering = m.recovering /\ p.shown = m.shown
  BY <1>1, <1>2 DEF Pages, Wizards
<1> HIDE DEF p
<1>4. g.type = "hybrid" /\ g.gen = p.gen /\ g.pc = "starting" /\ Active(g) /\ ~Asking(g) /\ p.gen <= p.gen
  <2>1. p.gen \in Nat
    BY <1>3, PageOK
  <2>2. p.gen <= p.gen
    BY <2>1
  <2> QED BY <2>2 DEF NewFlow, Active, Asking
<1> HIDE DEF g
<1>5. OnPage(g, p) /\ ~Exclusive(g)
  BY <1>2, <1>3, <1>4 DEF OnPage, Exclusive, Tasks
<1>6. KnownPage(p)
  BY <1>2, <1>3 DEF KnownPage, IInv, KnownInv
<1>7. ASSUME NEW k \in Flows
      PROVE  /\ OnPage(fl[k], p) /\ Apart(g, fl[k]) /\ Apart(fl[k], g)
             /\ Before(fl[k], g)
  <2>1. OnPage(fl[k], m)
    BY <1>7 DEF IInv, FlowInv
  <2>2. ~(fl[k].type \in Tasks /\ Active(fl[k])) /\ ~(fl[k].type = "sweep" /\ Starts(fl[k]))
    BY <1>1, <1>7, WizardAlone
  <2>3. ~(fl[k].type = "hybrid" /\ Active(fl[k]))
    BY <1>1, <2>1 DEF OnPage
  <2>4. OnPage(fl[k], p)
    BY <1>3, <2>1, <2>2, <2>3 DEF OnPage
  <2> QED BY <1>4, <1>5, <2>3, <2>4 DEF Apart, Before
<1>8. \A k \in Flows : /\ OnPage(fl[k], p)
                       /\ Apart(g, fl[k]) /\ Apart(fl[k], g) /\ Before(fl[k], g)
  BY <1>7
<1> QED BY <1>1, <1>3, <1>5, <1>6, <1>8, BeginKeeps DEF g

LEMMA OpenWizardKeeps ==
  ASSUME IInv, OpenWizard
  PROVE  Kept
<1> DEFINE w == [m.wiz EXCEPT !.open = TRUE, !.cancel = FALSE, !.job = 0]
           p == [m EXCEPT !.wiz = w]
<1>1. /\ Idle(m) /\ m' = p /\ fl' = fl /\ jobs' = jobs /\ cans' = cans /\ used' = used
      /\ wish' \in BOOLEAN /\ m \in Pages
  BY DEF OpenWizard, IInv, Types
<1>2. w \in Wizards /\ w.job = 0
  BY <1>1, PageOK, ConstOK DEF Wizards
<1> HIDE DEF w
<1>3. /\ p \in Pages /\ p.gen = m.gen /\ p.job = m.job /\ p.wiz = w /\ p.id = m.id
      /\ p.recovering = m.recovering /\ p.shown = m.shown
  BY <1>1, <1>2 DEF Pages, Wizards
<1> HIDE DEF p
<1>4. m.gen <= p.gen
  <2>1. m.gen \in Nat
    BY <1>1, PageOK
  <2> QED BY <1>3, <2>1
<1>5. \A k \in Flows : OnPage(fl[k], p)
  BY <1>1, <1>3, <1>4, FromIdle
<1>6. KnownPage(p)
  <2>1. 0 <= used.jobs
    BY DEF IInv, Types, Bounds
  <2> QED BY <1>2, <1>3, <2>1 DEF KnownPage, IInv, KnownInv
<1>7. SameUse /\ CancelsOK
  BY <1>1, SameUsed, CancelsSame
<1> QED BY <1>1, <1>3, <1>5, <1>6, <1>7, PageMoves

LEMMA CloseWizardKeeps ==
  ASSUME IInv, CloseWizard
  PROVE  Kept
<1>1. m.wiz.open /\ fl' = fl /\ jobs' = jobs /\ used' = used /\ m \in Pages /\ m.wiz \in Wizards
  BY PageOK DEF CloseWizard, IInv, Types
<1>2. wish' \in BOOLEAN
  <2>1. wish' = (wish \/ m.wiz.run)
    BY DEF CloseWizard
  <2> QED BY <2>1, Zenon
<1>3. SameUse /\ (cans' = cans => CancelsOK)
  BY <1>1, SameUsed, CancelsSame
<1>4. CASE ~m.wiz.run
  <2> DEFINE w == [m.wiz EXCEPT !.open = FALSE, !.job = 0]
             p == [m EXCEPT !.wiz = w, !.job = 0, !.kind = ""]
  <2>1. m' = p /\ cans' = cans
    BY <1>4 DEF CloseWizard
  <2>2. w \in Wizards /\ w.job = 0 /\ w.run = m.wiz.run
    BY <1>1, ConstOK DEF Wizards
  <2> HIDE DEF w
  <2>3. /\ p \in Pages /\ p.gen = m.gen /\ p.job = 0 /\ p.wiz = w /\ p.id = m.id /\ p.own = m.own
        /\ p.recovering = m.recovering /\ p.shown = m.shown
    BY <1>1, <2>2, ConstOK DEF Pages, Wizards
  <2> HIDE DEF p
  <2>4. ASSUME NEW k \in Flows PROVE OnPage(fl[k], p)
    <3>1. OnPage(fl[k], m)
      BY <2>4 DEF IInv, FlowInv
    <3>2. ~(fl[k].type \in Tasks /\ Active(fl[k])) /\ ~(fl[k].type = "sweep" /\ Starts(fl[k]))
      BY <1>1, <2>4, WizardAlone
    <3> QED BY <2>2, <2>3, <3>1, <3>2 DEF OnPage
  <2>5. KnownPage(p)
    <3>1. 0 <= used.jobs
      BY DEF IInv, Types, Bounds
    <3> QED BY <2>2, <2>3, <3>1 DEF KnownPage, IInv, KnownInv
  <2> QED BY <1>1, <1>2, <1>3, <2>1, <2>3, <2>4, <2>5, PageMoves
<1>5. CASE m.wiz.run /\ (m.wiz.cancel \/ m.wiz.job = 0)
  <2> DEFINE p == [m EXCEPT !.wiz.open = FALSE, !.wiz.cancel = TRUE]
  <2>1. m' = p /\ cans' = cans
    BY <1>5 DEF CloseWizard
  <2>2. Mild(p)
    BY CloseMild
  <2> HIDE DEF p
  <2> QED BY <1>1, <1>2, <1>3, <2>1, <2>2, MildKeeps
<1>6. CASE m.wiz.run /\ ~(m.wiz.cancel \/ m.wiz.job = 0)
  <2> DEFINE p == [m EXCEPT !.wiz.cancel = TRUE]
             j == m.wiz.job
             r == CancelReq("hybrid", j, 0, TRUE)
  <2>1. m' = p /\ cans' = cans \union {r}
    BY <1>6 DEF CloseWizard
  <2>2. Mild(p)
    BY CloseMild
  <2>3. j \in Jobs /\ j <= used.jobs
    BY <1>1, <1>6, ConstOK DEF Wizards, Jobs, IInv, KnownInv
  <2> HIDE DEF p, j
  <2>4. "hybrid" \in {"sweep", "hybrid"} \union Tasks /\ 0 \in 0..MaxFlows
    BY ConstOK
  <2>5. GoodReq(r, j, 0)
    BY <2>3, <2>4, ReqOK, Zenon
  <2> HIDE DEF r
  <2>6. CancelsOK
    BY <1>1, <2>1, <2>3, <2>5, CancelSent DEF GoodReq
  <2> QED BY <1>1, <1>2, <1>3, <2>1, <2>2, <2>6, MildKeeps
<1> QED BY <1>4, <1>5, <1>6

LEMMA AskMild ==
  ASSUME IInv, NEW t \in Tasks
  PROVE  Mild([m EXCEPT !.ask[t] = TRUE])
<1> DEFINE a == [m.ask EXCEPT ![t] = TRUE]
<1>1. m \in Pages
  BY DEF IInv, Types
<1>2. a \in [Tasks -> BOOLEAN]
  BY <1>1, PageOK
<1> HIDE DEF a
<1>3. Mild([m EXCEPT !.ask = a])
  BY <1>1, <1>2 DEF Mild, Pages
<1> QED BY <1>3 DEF a

LEMMA CancelMild ==
  ASSUME IInv
  PROVE  Mild([m EXCEPT !.cancel = TRUE])
<1>1. m \in Pages
  BY DEF IInv, Types
<1> QED BY <1>1 DEF Mild, Pages

\* A click sends at most one request, that no flow awaits.
Clicked(t, j) == cans' = cans \union {CancelReq(t, j, 0, FALSE)}

LEMMA ClickedOK ==
  ASSUME IInv, fl' = fl, jobs' = jobs, NEW t \in {"sweep", "hybrid"} \union Tasks,
         NEW j \in 0..MaxJobs, j # 0, j <= used.jobs, Clicked(t, j)
  PROVE  CancelsOK
<1> DEFINE r == CancelReq(t, j, 0, FALSE)
<1>1. j \in Jobs /\ 0 \in 0..MaxFlows
  BY ConstOK DEF Jobs
<1>2. GoodReq(r, j, 0)
  BY <1>1, ReqOK, Zenon
<1>3. cans' = cans \union {r}
  BY DEF Clicked
<1> HIDE DEF r
<1> QED BY <1>2, <1>3, CancelSent DEF GoodReq

LEMMA CancelTaskOK ==
  ASSUME IInv, fl' = fl, jobs' = jobs, NEW t \in Tasks, CancelTask(t)
  PROVE  Mild(m') /\ CancelsOK
<1>1. m \in Pages /\ m.id[t] \in 0..MaxJobs /\ m.id[t] <= used.jobs
  BY PageOK DEF IInv, Types, KnownInv
<1>2. CASE m.id[t] = 0
  BY <1>2, AskMild, CancelsSame DEF CancelTask
<1>3. CASE m.id[t] # 0
  <2>1. m' = m /\ Clicked(t, m.id[t])
    BY <1>3 DEF CancelTask, Clicked
  <2>2. CancelsOK
    BY <1>1, <1>3, <2>1, ClickedOK
  <2> QED BY <2>1, <2>2, MildSame
<1> QED BY <1>2, <1>3

LEMMA CancelButtonKeeps ==
  ASSUME IInv, CancelButton
  PROVE  Kept
<1>1. fl' = fl /\ jobs' = jobs /\ wish' \in BOOLEAN /\ m \in Pages
  BY DEF CancelButton, IInv, Types
<1>2. SameUse
  BY DEF CancelButton, SameUse, IInv, Types, Bounds
<1>3. Mild(m') /\ CancelsOK
  <2>1. CASE CancelTask("sub")
    BY <1>1, <2>1, CancelTaskOK DEF Tasks
  <2>2. CASE CancelTask("align")
    BY <1>1, <2>2, CancelTaskOK DEF Tasks
  <2>3. CASE CancelWizard
    <3>1. Mild(m')
      BY <2>3, CloseMild DEF CancelWizard
    <3>2. CASE m.wiz.job = 0
      BY <1>1, <2>3, <3>1, <3>2, CancelsSame DEF CancelWizard
    <3>3. CASE m.wiz.job # 0
      <4>1. Clicked("hybrid", m.wiz.job)
        BY <2>3, <3>3 DEF CancelWizard, Clicked
      <4>2. m.wiz.job \in 0..MaxJobs /\ m.wiz.job <= used.jobs
        <5>1. m.wiz \in Wizards
          BY <1>1, PageOK
        <5> QED BY <5>1 DEF Wizards, IInv, KnownInv
      <4>3. CancelsOK
        BY <1>1, <3>3, <4>1, <4>2, ClickedOK
      <4> QED BY <3>1, <4>3
    <3> QED BY <3>2, <3>3
  <2>4. CASE m.job # 0 /\ m' = m /\ cans' = cans \union {CancelReq("sweep", m.job, 0, FALSE)}
    <3>1. Clicked("sweep", m.job)
      BY <2>4 DEF Clicked
    <3>2. m.job \in 0..MaxJobs /\ m.job <= used.jobs
      BY <1>1, PageOK DEF IInv, KnownInv
    <3>3. CancelsOK
      BY <1>1, <2>4, <3>1, <3>2, ClickedOK
    <3> QED BY <2>4, <3>3, MildSame
  <2>5. CASE m' = [m EXCEPT !.cancel = TRUE] /\ cans' = cans
    BY <1>1, <2>5, CancelMild, CancelsSame
  <2> QED BY <2>1, <2>2, <2>3, <2>4, <2>5 DEF CancelButton
<1> QED BY <1>1, <1>2, <1>3, MildKeeps

-----------------------------------------------------------------------------
(* The theorems *)

LEMMA InitKeeps == Init => IInv
<1> SUFFICES ASSUME Init PROVE IInv
  OBVIOUS
<1> DEFINE f0 == [type |-> "none", pc |-> "off", job |-> 0, gen |-> 0, errs |-> 0, got |-> ""]
           w0 == [open |-> FALSE, run |-> FALSE, cancel |-> FALSE, job |-> 0, errs |-> 0]
<1>1. \A n \in Flows : fl[n] = f0
  BY DEF Init
<1>2. f0 \in FlowStates /\ f0.type = "none" /\ f0.pc = "off" /\ f0.job = 0 /\ f0.gen = 0
  BY ConstOK DEF FlowStates, Steps
<1>3. fl \in [Flows -> FlowStates]
  <2>1. fl = [n \in Flows |-> f0]
    BY DEF Init
  <2> HIDE DEF f0
  <2> QED BY <1>2, <2>1
<1> HIDE DEF f0
<1>4. w0 \in Wizards /\ w0.job = 0 /\ ~w0.open /\ ~w0.run
  BY ConstOK DEF Wizards
<1>5. m \in Pages /\ m.gen = 0 /\ m.job = 0 /\ m.wiz.job = 0 /\ \A t \in Tasks : m.id[t] = 0
  <2> DEFINE a == [t \in Tasks |-> FALSE]
             i == [t \in Tasks |-> 0]
  <2>1. a \in [Tasks -> BOOLEAN] /\ i \in [Tasks -> 0..MaxJobs] /\ \A t \in Tasks : i[t] = 0
    BY ConstOK
  <2>2. m = [gen |-> 0, start |-> FALSE, job |-> 0, kind |-> "", cancel |-> FALSE,
             own |-> a, id |-> i, ask |-> a, wiz |-> w0,
             recovering |-> FALSE, handled |-> 0, shown |-> 0]
    BY DEF Init
  <2> HIDE DEF a, i, w0
  <2> QED BY <1>4, <2>1, <2>2, ConstOK DEF Pages, Wizards
<1>6. /\ used \in Bounds /\ used.flows = 0 /\ used.jobs = 0
  <2>1. used \in [flows : {0}, jobs : {0}, faults : {0}, cancels : {0}, max : Instances]
    BY DEF Init
  <2>2. 0 \in 0..MaxFlows /\ 0 \in 0..MaxJobs
    BY ConstOK
  <2> QED BY <2>1, <2>2 DEF Bounds
<1>7. jobs \in [Jobs -> JobStates] /\ \A j \in Jobs : jobs[j].kind = "none" /\ jobs[j].status = "none"
  <2> DEFINE j0 == [kind |-> "none", status |-> "none"]
  <2>1. j0 \in JobStates /\ j0.kind = "none" /\ j0.status = "none"
    BY DEF JobStates
  <2>2. jobs = [j \in Jobs |-> j0]
    BY DEF Init
  <2> HIDE DEF j0
  <2> QED BY <2>1, <2>2
<1>8. cans = {} /\ wish \in BOOLEAN
  BY DEF Init
<1>9. Types
  BY <1>3, <1>5, <1>6, <1>7, <1>8 DEF Types
<1>10. ~Active(f0) /\ ~Asking(f0) /\ ~Starts(f0) /\ ~Exclusive(f0)
  BY <1>2 DEF Active, Asking, Starts, Exclusive
<1>11. FlowInv
  <2>1. PcOK(f0) /\ OnPage(f0, m)
    BY <1>2, <1>5, <1>10 DEF PcOK, OnPage, Tasks
  <2>2. Apart(f0, f0) /\ Before(f0, f0)
    BY <1>2, <1>10 DEF Apart, Before
  <2> QED BY <1>1, <1>2, <2>1, <2>2 DEF FlowInv
<1>12. JobInv
  <2>1. \A j \in Jobs : ~(j <= used.jobs)
    BY <1>6 DEF Jobs
  <2> QED BY <1>7, <2>1 DEF JobInv, Live
<1>13. KnownInv
  BY <1>1, <1>2, <1>5, <1>6, <1>8 DEF KnownInv
<1>14. CancelInv
  BY <1>8 DEF CancelInv
<1>15. OrphanInv
  BY <1>1, <1>2, <1>10 DEF OrphanInv, Orphan
<1> QED BY <1>9, <1>11, <1>12, <1>13, <1>14, <1>15 DEF IInv

LEMMA UnchangedKeeps ==
  ASSUME IInv, UNCHANGED vars
  PROVE  Kept
<1>1. m' = m /\ fl' = fl /\ cans' = cans /\ jobs' = jobs /\ used' = used /\ wish' = wish /\ wish \in BOOLEAN
  BY DEF vars, IInv, Types
<1>2. SameUse /\ CancelsOK /\ Mild(m)
  BY <1>1, SameUsed, CancelsSame, MildSame
<1> QED BY <1>1, <1>2, MildKeeps

LEMMA NextKeeps ==
  ASSUME IInv, [Next]_vars
  PROVE  Kept
<1>1. CASE User
  BY <1>1, StartMeasurementKeeps, StartTaskKeeps, RecoverKeeps, OpenWizardKeeps, RunWizardKeeps,
     CloseWizardKeeps, CancelButtonKeeps DEF User
<1>2. CASE Fault
  BY <1>2, StartFailsKeeps, PollFailsKeeps, TimedOutKeeps, CancelFailsKeeps, RestartKeeps DEF Fault
<1>3. CASE OtherPage
  BY <1>3, OtherPageKeeps
<1>4. CASE \E n \in Flows : FlowStep(n)
  BY <1>4, StartReachesKeeps, StartAnsweredKeeps, PollKeeps, PollAnsweredKeeps, PostKeeps,
     NextStepKeeps, FoundKeeps DEF FlowStep
<1>5. CASE \E c \in cans : CancelReaches(c) \/ CancelAnswered(c)
  BY <1>5, CancelReachesKeeps, CancelAnsweredKeeps
<1>6. CASE \E j \in Jobs : JobEnds(j) \/ CancelEndsJob(j)
  BY <1>6, JobEndsKeeps
<1>7. CASE UNCHANGED vars
  BY <1>7, UnchangedKeeps
<1> QED BY <1>1, <1>2, <1>3, <1>4, <1>5, <1>6, <1>7 DEF Next

LEMMA AtMostOne ==
  ASSUME NEW S, \A x, y \in S : x = y
  PROVE  Cardinality(S) <= 1
<1>1. CASE S = {}
  BY <1>1, FS_EmptySet
<1>2. CASE S # {}
  <2>1. PICK x : x \in S
    BY <1>2
  <2>2. S = {x}
    BY <2>1
  <2> QED BY <2>2, FS_Singleton
<1> QED BY <1>1, <1>2

LEMMA TypesEnough == IInv => TypeOK
<1> SUFFICES ASSUME IInv PROVE TypeOK
  OBVIOUS
<1>1. Cardinality({j \in Jobs : jobs[j].status \in Live}) <= 1
  <2> DEFINE S == {j \in Jobs : jobs[j].status \in Live}
  <2>1. \A x, y \in S : x = y
    BY DEF IInv, JobInv
  <2> HIDE DEF S
  <2>2. Cardinality(S) <= 1
    BY <2>1, AtMostOne
  <2> QED BY <2>2 DEF S
<1> QED BY <1>1 DEF IInv, Types, TypeOK, JobStates, Bounds

LEMMA MarkedEnough == IInv => RunIsMarked
<1> SUFFICES ASSUME IInv, NEW n \in Flows, Running(fl[n]), Idle(m) PROVE FALSE
  BY DEF RunIsMarked
<1>1. ~m.start /\ m.job = 0 /\ ~m.own["sub"] /\ ~m.own["align"] /\ ~m.wiz.run
  BY DEF Idle, HasActive
<1>2. ~Exclusive(fl[n]) /\ ~(fl[n].type = "hybrid" /\ Active(fl[n]))
  BY IdleAlone
<1>3. fl[n] \in FlowStates /\ PcOK(fl[n])
  BY DEF IInv, Types, FlowInv
<1>4. Active(fl[n])
  BY DEF Running, Active
<1>5. fl[n].type # "none" /\ fl[n].type # "hybrid" /\ fl[n].type \notin Tasks
  BY <1>2, <1>3, <1>4 DEF PcOK, Exclusive
<1>6. CASE fl[n].type = "recovery"
  BY <1>2, <1>3, <1>6 DEF PcOK, Exclusive, Running, Asking
<1>7. CASE fl[n].type = "sweep"
  <2>1. Asking(fl[n]) /\ Current(m, fl[n])
    BY <1>2, <1>3, <1>7 DEF Running, PcOK, Exclusive, Starts, Asking
  <2>2. fl[n].job # 0
    BY <1>3, <2>1 DEF PcOK
  <2> QED BY <1>1, <1>7, <2>1, <2>2 DEF Current, TaskOf
<1> QED BY <1>3, <1>5, <1>6, <1>7, FlowOK

LEMMA OneStartEnough == IInv => OneStart
<1> SUFFICES ASSUME IInv PROVE OneStart
  OBVIOUS
<1> DEFINE S == {n \in Flows : fl[n].pc \in {"starting", "started"}}
<1>1. ASSUME NEW n \in S, NEW k \in S, n # k PROVE FALSE
  <2>1. n \in Flows /\ k \in Flows /\ Starts(fl[n]) /\ Starts(fl[k])
    BY <1>1 DEF Starts
  <2>2. /\ fl[n].type \in {"sweep", "hybrid"} \union Tasks /\ Active(fl[n])
        /\ fl[k].type \in {"sweep", "hybrid"} \union Tasks /\ Active(fl[k])
    BY <2>1, StartingOK
  <2>3. Apart(fl[n], fl[k]) /\ OnPage(fl[n], m) /\ OnPage(fl[k], m)
    BY <1>1, <2>1 DEF IInv, FlowInv
  <2>4. fl[n].type # "hybrid" => Exclusive(fl[n]) /\ ~m.wiz.run
    BY <2>1, <2>2, <2>3 DEF Exclusive, OnPage
  <2>5. fl[k].type # "hybrid" => Exclusive(fl[k]) /\ ~m.wiz.run
    BY <2>1, <2>2, <2>3 DEF Exclusive, OnPage
  <2>6. (fl[n].type = "hybrid" => m.wiz.run) /\ (fl[k].type = "hybrid" => m.wiz.run)
    BY <2>2, <2>3 DEF OnPage
  <2> QED BY <2>2, <2>3, <2>4, <2>5, <2>6 DEF Apart
<1>2. \A x, y \in S : x = y
  BY <1>1
<1> HIDE DEF S
<1>3. Cardinality(S) <= 1
  BY <1>2, AtMostOne
<1> QED BY <1>3 DEF S, OneStart

LEMMA OrphanEnough == IInv => NoOrphanAlign
  BY DEF IInv, OrphanInv, Orphan, Active, NoOrphanAlign

\* The invariant holds at every moment of every behaviour.
THEOREM InvariantHolds == Spec => []IInv
<1>1. Init => IInv
  BY InitKeeps
<1>2. IInv /\ [Next]_vars => IInv'
  BY NextKeeps DEF Kept
<1> QED BY <1>1, <1>2, PTL DEF Spec

\* Whatever kinds of run meet on the page, sweeps beside the Auto Sub and Speaker Align
\* tasks included: while a run waits for its start or is polled as the current one the
\* page offers Cancel and not Start, two start requests are never under way at once, and
\* Speaker Align leaves no job running that it gave up.
THEOREM RunsAlwaysSafe == Spec => []RunsSafe
<1>1. IInv => RunsSafe
  BY TypesEnough, MarkedEnough, OneStartEnough, OrphanEnough DEF RunsSafe
<1> QED BY <1>1, InvariantHolds, PTL

\* No step shows the result of a run that a newer sweep has replaced.
THEOREM ResultIsLatest == Spec => LatestResult
<1>1. IInv /\ [Next]_vars =>
        [m'.shown # m.shown => \A n \in Flows : fl'[n] # fl[n]
           => \A k \in Flows : k > n => fl[k].type # "sweep"]_vars
  BY NextKeeps DEF Kept, ShownBy, NoLaterSweep
<1> QED BY <1>1, InvariantHolds, PTL DEF Spec, LatestResult

-----------------------------------------------------------------------------
(* The volume slider *)

LEMMA VolumeStarts ==
  ASSUME VolumeInit
  PROVE  VolumeSafe
<1>1. /\ spent \in [inputs : {0}, others : {0}, fails : {0}, max : VolumeInstances]
      /\ server \in Volumes /\ vol \in (IF spent.max.loaded THEN {server} ELSE Volumes) /\ slider = vol
      /\ confirmed = (IF spent.max.loaded THEN server ELSE None)
      /\ wire = <<>> /\ held = FALSE /\ gesture = FALSE /\ pending = None /\ timer = FALSE
      /\ req = None /\ optimistic = None /\ grace = FALSE /\ chosen = None
  BY DEF VolumeInit
<1>2. spent \in [inputs : Nat, others : Nat, fails : Nat, max : VolumeInstances]
  BY <1>1
<1>3. vol \in Volumes /\ confirmed \in Volumes \union {None}
  BY <1>1
<1>4. wire \in Seq(Volumes)
  BY <1>1
<1> QED BY <1>1, <1>2, <1>3, <1>4 DEF VolumeSafe, VolumeTypeOK, Maybe, NoStrandedWish

LEMMA ReqNotNone ==
  /\ None \notin Volumes
  /\ \A v \in Volumes, a \in {"none", "ok", "fail"} :
       [v |-> v, ans |-> a] \in Requests /\ [v |-> v, ans |-> a] # None
<1>1. \A v \in Volumes, a \in {"none", "ok", "fail"} : [v |-> v, ans |-> a] \in Requests
  BY DEF Requests
<1> QED BY <1>1, VolumeAssumption

LEMMA VolumeFacts ==
  ASSUME VolumeSafe
  PROVE  /\ server \in Volumes /\ wire \in Seq(Volumes) /\ vol \in Volumes /\ slider \in Volumes
         /\ held \in BOOLEAN /\ gesture \in BOOLEAN /\ pending \in Volumes \union {None}
         /\ timer \in BOOLEAN /\ req \in Requests \union {None}
         /\ optimistic \in Volumes \union {None} /\ confirmed \in Volumes \union {None}
         /\ grace \in BOOLEAN /\ chosen \in Volumes \union {None}
         /\ spent \in [inputs : Nat, others : Nat, fails : Nat, max : VolumeInstances]
         /\ (gesture => held) /\ (pending # None => timer \/ req # None)
  BY DEF VolumeSafe, VolumeTypeOK, Maybe, NoStrandedWish

LEMMA BaselineOK ==
  ASSUME VolumeSafe
  PROVE  Baseline \in Volumes
  BY VolumeFacts DEF Baseline

\* The loop of sendVolume leaves nothing waiting: what it does not send is confirmed already.
LEMMA SendLoopOK ==
  ASSUME NEW p \in Volumes \union {None}, NEW c, SendLoop(p, c)
  PROVE  req' \in Requests \union {None} /\ pending' = None
<1>1. CASE Sends(p, c)
  <2>1. p \in Volumes /\ req' = [v |-> p, ans |-> "none"] /\ pending' = None
    BY <1>1 DEF Sends, SendLoop
  <2> QED BY <2>1, ReqNotNone
<1>2. CASE ~Sends(p, c)
  BY <1>2 DEF SendLoop
<1> QED BY <1>1, <1>2

LEMMA SendVolumeOK ==
  ASSUME VolumeSafe, NEW p \in Volumes \union {None}, NEW g \in BOOLEAN,
         SendVolume(p, g)
  PROVE  /\ confirmed' \in Volumes \union {None} /\ pending' \in Volumes \union {None}
         /\ req' \in Requests \union {None} /\ slider' \in Volumes
         /\ optimistic' \in Volumes \union {None}
         /\ (pending' # None => req' # None) /\ (g => slider' = slider)
<1>1. confirmed' \in Volumes
  BY BaselineOK DEF SendVolume
<1>2. CASE req # None \/ p = None
  BY <1>1, <1>2, VolumeFacts DEF SendVolume
<1>3. CASE ~(req # None \/ p = None)
  <2>1. /\ SendLoop(p, Baseline)
        /\ optimistic' = (IF req' = None THEN None ELSE optimistic)
        /\ IF req' = None THEN RenderVolume(vol, g, None, None) ELSE slider' = slider
    BY <1>3 DEF SendVolume
  <2>2. req' \in Requests \union {None} /\ pending' = None
    BY <2>1, SendLoopOK
  <2>3. slider' \in {slider, vol} /\ (g => slider' = slider)
    BY <2>1 DEF RenderVolume
  <2> QED BY <1>1, <2>1, <2>2, <2>3, VolumeFacts
<1> QED BY <1>2, <1>3

LEMMA VolumeChangeKeeps ==
  ASSUME VolumeSafe, NEW v \in Volumes, HandleVolumeChange(v)
  PROVE  VolumeSafe'
<1>1. /\ spent' = [spent EXCEPT !.inputs = @ + 1] /\ held' = TRUE /\ gesture' = TRUE /\ optimistic' = v
      /\ grace' = TRUE /\ vol' = v /\ slider' = v /\ pending' = v /\ timer' = TRUE /\ chosen' = v
      /\ server' = server /\ wire' = wire /\ req' = req /\ confirmed' = confirmed
  BY DEF HandleVolumeChange, QueueVolumeSend
<1>2. spent' \in [inputs : Nat, others : Nat, fails : Nat, max : VolumeInstances]
  BY <1>1, VolumeFacts
<1>3. VolumeTypeOK' /\ NoStrandedWish'
  BY <1>1, <1>2, VolumeFacts DEF VolumeTypeOK, Maybe, NoStrandedWish
<1> QED BY <1>3 DEF VolumeSafe

LEMMA ReleaseKeeps ==
  ASSUME VolumeSafe, Release
  PROVE  VolumeSafe'
<1>1. /\ held' = FALSE /\ gesture' = FALSE /\ timer' = FALSE /\ chosen' = slider
      /\ SendVolume(slider, FALSE) /\ server' = server /\ wire' = wire /\ vol' = vol /\ grace' = grace
      /\ spent' = spent
  BY DEF Release, EndGesture
<1>2. slider \in Volumes \union {None} /\ FALSE \in BOOLEAN
  BY VolumeFacts
<1>3. /\ confirmed' \in Volumes \union {None} /\ pending' \in Volumes \union {None}
      /\ req' \in Requests \union {None} /\ slider' \in Volumes
      /\ optimistic' \in Volumes \union {None} /\ (pending' # None => req' # None)
  BY <1>1, <1>2, SendVolumeOK, Zenon
<1>4. VolumeTypeOK' /\ NoStrandedWish'
  BY <1>1, <1>3, VolumeFacts DEF VolumeTypeOK, Maybe, NoStrandedWish
<1> QED BY <1>4 DEF VolumeSafe

LEMMA TimerKeeps ==
  ASSUME VolumeSafe, TimerFires
  PROVE  VolumeSafe'
<1>1. /\ timer' = FALSE /\ SendVolume(pending, gesture) /\ server' = server /\ wire' = wire /\ vol' = vol
      /\ held' = held /\ gesture' = gesture /\ grace' = grace /\ chosen' = chosen /\ spent' = spent
  BY DEF TimerFires
<1>2. pending \in Volumes \union {None} /\ gesture \in BOOLEAN
  BY VolumeFacts
<1>3. /\ confirmed' \in Volumes \union {None} /\ pending' \in Volumes \union {None}
      /\ req' \in Requests \union {None} /\ slider' \in Volumes
      /\ optimistic' \in Volumes \union {None} /\ (pending' # None => req' # None)
      /\ (gesture => slider' = slider)
  BY <1>1, <1>2, SendVolumeOK, Zenon
<1>4. VolumeTypeOK' /\ NoStrandedWish'
  BY <1>1, <1>3, VolumeFacts DEF VolumeTypeOK, Maybe, NoStrandedWish
<1> QED BY <1>4 DEF VolumeSafe

LEMMA ConfirmedKeeps ==
  ASSUME VolumeSafe, Confirmed
  PROVE  VolumeSafe'
<1>1. /\ req # None /\ confirmed' = req.v /\ vol' = req.v /\ grace' = TRUE
      /\ SendLoop(pending, req.v)
      /\ (IF req' = None THEN RenderVolume(req.v, gesture, None, pending') ELSE slider' = slider)
      /\ server' = server /\ wire' = wire /\ held' = held /\ gesture' = gesture /\ timer' = timer
      /\ chosen' = chosen /\ spent' = spent
  BY DEF Confirmed, AfterAnswer
<1>2. optimistic' \in {None, optimistic}
  BY DEF Confirmed
<1>3. req.v \in Volumes
  BY <1>1, VolumeFacts DEF Requests
<1>4. req' \in Requests \union {None} /\ pending' = None
  BY <1>1, VolumeFacts, SendLoopOK
<1>5. slider' \in {slider, req.v} /\ (gesture => slider' = slider)
  BY <1>1 DEF RenderVolume
<1>6. VolumeTypeOK' /\ NoStrandedWish'
  BY <1>1, <1>2, <1>3, <1>4, <1>5, VolumeFacts DEF VolumeTypeOK, Maybe, NoStrandedWish
<1> QED BY <1>6 DEF VolumeSafe

LEMMA SendFailsKeeps ==
  ASSUME VolumeSafe, SendFails
  PROVE  VolumeSafe'
<1>1. /\ pending' = None /\ gesture' = FALSE /\ optimistic' = None /\ req' = None
      /\ RenderVolume(vol, FALSE, None, None) /\ chosen' = None
      /\ server' = server /\ wire' = wire /\ vol' = vol /\ held' = held /\ timer' = timer
      /\ confirmed' = confirmed /\ grace' = grace /\ spent' = spent
  BY DEF SendFails
<1>2. slider' \in {slider, vol}
  BY <1>1 DEF RenderVolume
<1>3. VolumeTypeOK' /\ NoStrandedWish'
  BY <1>1, <1>2, VolumeFacts DEF VolumeTypeOK, Maybe, NoStrandedWish
<1> QED BY <1>3 DEF VolumeSafe

LEMMA RemoteKeeps ==
  ASSUME VolumeSafe, ApplyRemoteVolume
  PROVE  VolumeSafe'
<1>1. /\ wire # <<>> /\ wire' = Tail(wire) /\ server' = server /\ held' = held /\ gesture' = gesture
      /\ pending' = pending /\ timer' = timer /\ req' = req /\ grace' = grace /\ chosen' = chosen
      /\ spent' = spent
  BY DEF ApplyRemoteVolume
<1>2. Head(wire) \in Volumes /\ wire' \in Seq(Volumes)
  <2>1. wire \in Seq(Volumes) /\ wire # <<>>
    BY <1>1, VolumeFacts
  <2> QED BY <1>1, <2>1
<1>3. /\ confirmed' \in {Baseline, Head(wire)} /\ vol' \in {vol, Head(wire)}
      /\ optimistic' \in {None, optimistic} /\ slider' \in {slider, vol, Head(wire)}
      /\ (gesture => slider' = slider)
  BY DEF ApplyRemoteVolume, RenderVolume
<1>4. confirmed' \in Volumes /\ vol' \in Volumes /\ slider' \in Volumes
  BY <1>2, <1>3, BaselineOK, VolumeFacts
<1>5. VolumeTypeOK' /\ NoStrandedWish'
  BY <1>1, <1>2, <1>3, <1>4, VolumeFacts DEF VolumeTypeOK, Maybe, NoStrandedWish
<1> QED BY <1>5 DEF VolumeSafe

LEMMA AppendOK ==
  ASSUME NEW s \in Seq(Volumes), NEW v \in Volumes
  PROVE  Append(s, v) \in Seq(Volumes)
  OBVIOUS

LEMMA ServerKeeps ==
  ASSUME VolumeSafe, ServerSets \/ ServerFails
  PROVE  VolumeSafe'
<1>1. /\ req # None /\ vol' = vol /\ slider' = slider /\ held' = held /\ gesture' = gesture
      /\ pending' = pending /\ timer' = timer /\ optimistic' = optimistic /\ confirmed' = confirmed
      /\ grace' = grace /\ chosen' = chosen
      /\ \E a \in {"ok", "fail"} : req' = [req EXCEPT !.ans = a]
  BY DEF ServerSets, ServerFails
<1>2. req \in Requests /\ req.v \in Volumes
  BY <1>1, VolumeFacts DEF Requests
<1>3. req' \in Requests
  BY <1>1, <1>2 DEF Requests
<1>4. req' # None
  BY <1>3, VolumeAssumption
<1>5. server' \in {server, req.v} /\ wire' \in {wire, Append(wire, req.v)}
  BY DEF ServerSets, ServerFails
<1>6. wire' \in Seq(Volumes)
  BY <1>2, <1>5, VolumeFacts, AppendOK
<1>7. spent' \in [inputs : Nat, others : Nat, fails : Nat, max : VolumeInstances]
  <2>1. spent' = spent \/ spent' = [spent EXCEPT !.fails = @ + 1]
    BY DEF ServerSets, ServerFails
  <2> QED BY <2>1, VolumeFacts
<1>8. VolumeTypeOK' /\ NoStrandedWish'
  BY <1>1, <1>2, <1>3, <1>4, <1>5, <1>6, <1>7, VolumeFacts DEF VolumeTypeOK, Maybe, NoStrandedWish
<1> QED BY <1>8 DEF VolumeSafe

LEMMA OthersKeep ==
  ASSUME VolumeSafe, (\E v \in Volumes : OtherSets(v)) \/ PollVolume \/ GraceEnds \/ UNCHANGED volumeVars
  PROVE  VolumeSafe'
<1>1. /\ vol' = vol /\ slider' = slider /\ held' = held /\ gesture' = gesture /\ pending' = pending
      /\ timer' = timer /\ req' = req /\ optimistic' = optimistic /\ confirmed' = confirmed
      /\ grace' \in {grace, FALSE} /\ chosen' = chosen
  BY DEF OtherSets, PollVolume, GraceEnds, volumeVars, page
<1>2. server' \in Volumes /\ wire' \in Seq(Volumes)
  <2>1. CASE \E v \in Volumes : OtherSets(v)
    <3>1. PICK v \in Volumes : server' = v /\ wire' = Append(wire, v)
      BY <2>1 DEF OtherSets
    <3> QED BY <3>1, VolumeFacts, AppendOK
  <2>2. CASE PollVolume
    <3>1. wire' = <<server>> /\ server' = server /\ server \in Volumes
      BY <2>2, VolumeFacts DEF PollVolume
    <3> QED BY <3>1
  <2>3. CASE GraceEnds \/ UNCHANGED volumeVars
    BY <2>3, VolumeFacts DEF GraceEnds, volumeVars
  <2> QED BY <2>1, <2>2, <2>3
<1>3. spent' \in [inputs : Nat, others : Nat, fails : Nat, max : VolumeInstances]
  <2>1. spent' = spent \/ spent' = [spent EXCEPT !.others = @ + 1]
    BY DEF OtherSets, PollVolume, GraceEnds, volumeVars
  <2> QED BY <2>1, VolumeFacts
<1>4. VolumeTypeOK' /\ NoStrandedWish'
  BY <1>1, <1>2, <1>3, VolumeFacts DEF VolumeTypeOK, Maybe, NoStrandedWish
<1> QED BY <1>4 DEF VolumeSafe

LEMMA VolumeNextKeeps ==
  ASSUME VolumeSafe, [VolumeNext]_volumeVars
  PROVE  VolumeSafe'
  BY VolumeChangeKeeps, ReleaseKeeps, TimerKeeps, ConfirmedKeeps, SendFailsKeeps, RemoteKeeps,
     ServerKeeps, OthersKeep DEF VolumeNext

\* For any volumes and any sequence of drags, pushes, answers and failures: a volume that
\* waits to be sent has a timer or a running request that will take it.
THEOREM VolumeAlwaysSafe ==
  VolumeSpec => []VolumeSafe
<1>1. VolumeInit => VolumeSafe
  BY VolumeStarts
<1>2. VolumeSafe /\ [VolumeNext]_volumeVars => VolumeSafe'
  BY VolumeNextKeeps
<1> QED BY <1>1, <1>2, PTL DEF VolumeSpec

-----------------------------------------------------------------------------
(* The user's wish on the slider *)

\* What a wish is: a volume, and with it nothing else waits.
LEMMA WishFacts ==
  ASSUME VolumeSafe, WishInv
  PROVE  /\ chosen = None => slider = vol /\ pending = None /\ req = None /\ optimistic = None /\ ~gesture
         /\ (chosen # None /\ held) => gesture
         /\ pending # None => pending = chosen
         /\ optimistic # None => optimistic = chosen
         /\ (chosen # None /\ req # None /\ pending = None) => req.v = chosen
         /\ (chosen # None /\ req = None /\ (gesture \/ grace \/ pending # None)) => vol = chosen
         /\ (chosen # None /\ (held \/ pending # None \/ req # None \/ grace)) => slider = chosen
  BY DEF WishInv, WishShown

LEMMA WishStarts ==
  ASSUME VolumeInit
  PROVE  WishInv
  BY DEF VolumeInit, WishInv, WishShown

LEMMA WishChanges ==
  ASSUME VolumeSafe, WishInv, NEW v \in Volumes, HandleVolumeChange(v)
  PROVE  WishInv'
<1>1. /\ held' = TRUE /\ gesture' = TRUE /\ optimistic' = v /\ vol' = v /\ slider' = v
      /\ pending' = v /\ chosen' = v /\ req' = req /\ v # None
  BY VolumeAssumption DEF HandleVolumeChange
<1> QED BY <1>1 DEF WishInv, WishShown

\* sendVolume for the wish w, which the page has if no request is under way.
LEMMA WishSent ==
  ASSUME VolumeSafe, NEW w \in Volumes, NEW g \in BOOLEAN, SendVolume(w, g),
         req = None => vol = w, slider = w, optimistic # None => optimistic = w
  PROVE  /\ slider' = w /\ (optimistic' # None => optimistic' = w) /\ (pending' # None => pending' = w)
         /\ (req' # None /\ pending' = None) => req'.v = w
         /\ req' = None => req = None
<1>1. CASE req # None
  BY <1>1, VolumeAssumption DEF SendVolume
<1>2. CASE req = None
  <2>1. /\ SendLoop(w, Baseline) /\ optimistic' = (IF req' = None THEN None ELSE optimistic)
        /\ IF req' = None THEN RenderVolume(vol, g, None, None) ELSE slider' = slider
    BY <1>2, VolumeAssumption DEF SendVolume
  <2>2. slider' = w
    BY <1>2, <2>1 DEF RenderVolume
  <2>3. pending' = None /\ (req' # None => req' = [v |-> w, ans |-> "none"])
    BY <2>1 DEF SendLoop
  <2> QED BY <1>2, <2>1, <2>2, <2>3
<1> QED BY <1>1, <1>2

LEMMA WishReleased ==
  ASSUME VolumeSafe, WishInv, Release
  PROVE  WishInv'
<1>1. /\ held /\ held' = FALSE /\ gesture' = FALSE /\ chosen' = slider /\ SendVolume(slider, FALSE)
      /\ vol' = vol /\ grace' = grace
  BY DEF Release, EndGesture
<1>2. /\ slider \in Volumes /\ FALSE \in BOOLEAN /\ (req = None => vol = slider)
      /\ (optimistic # None => optimistic = slider)
  BY <1>1, VolumeFacts, WishFacts
<1>3. /\ slider' = slider /\ (optimistic' # None => optimistic' = slider)
      /\ (pending' # None => pending' = slider)
      /\ ((req' # None /\ pending' = None) => req'.v = slider) /\ (req' = None => req = None)
  BY <1>1, <1>2, WishSent
<1>4. chosen' # None
  BY <1>1, <1>2, VolumeAssumption
<1> QED BY <1>1, <1>2, <1>3, <1>4 DEF WishInv, WishShown

LEMMA WishTimed ==
  ASSUME VolumeSafe, WishInv, TimerFires
  PROVE  WishInv'
<1>1. /\ SendVolume(pending, gesture) /\ vol' = vol /\ held' = held /\ gesture' = gesture
      /\ grace' = grace /\ chosen' = chosen
  BY DEF TimerFires
<1>2. CASE pending = None
  <2>1. pending' = None /\ req' = req /\ slider' = slider /\ optimistic' = optimistic
    BY <1>1, <1>2 DEF SendVolume
  <2> QED BY <1>1, <1>2, <2>1, WishFacts DEF WishInv, WishShown
<1>3. CASE pending # None
  <2>1. /\ pending \in Volumes /\ pending = chosen /\ gesture \in BOOLEAN /\ slider = pending
        /\ (req = None => vol = pending) /\ (optimistic # None => optimistic = pending)
    BY <1>3, VolumeFacts, WishFacts
  <2>2. /\ slider' = pending /\ (optimistic' # None => optimistic' = pending)
        /\ (pending' # None => pending' = pending)
        /\ ((req' # None /\ pending' = None) => req'.v = pending) /\ (req' = None => req = None)
    BY <1>1, <2>1, WishSent
  <2> QED BY <1>1, <1>3, <2>1, <2>2, WishFacts DEF WishInv, WishShown
<1> QED BY <1>2, <1>3

LEMMA WishConfirmed ==
  ASSUME VolumeSafe, WishInv, Confirmed
  PROVE  WishInv'
<1>1. /\ req # None /\ vol' = req.v /\ SendLoop(pending, req.v) /\ held' = held /\ gesture' = gesture
      /\ chosen' = chosen /\ optimistic' \in {None, optimistic}
      /\ IF req' = None THEN RenderVolume(req.v, gesture, None, pending') ELSE slider' = slider
  BY DEF Confirmed, AfterAnswer
<1>2. chosen # None /\ slider = chosen
  BY <1>1, WishFacts
<1>3. CASE Sends(pending, req.v)
  <2>1. pending = chosen /\ pending' = None /\ req' = [v |-> pending, ans |-> "none"] /\ req' # None
    BY <1>1, <1>3, VolumeFacts, WishFacts, ReqNotNone DEF SendLoop, Sends
  <2> QED BY <1>1, <1>2, <2>1, WishFacts DEF WishInv, WishShown
<1>4. CASE ~Sends(pending, req.v)
  <2>1. pending' = None /\ req' = None /\ req.v = chosen
    BY <1>1, <1>2, <1>4, WishFacts DEF SendLoop, Sends
  <2>2. slider' = chosen
    BY <1>1, <1>2, <2>1 DEF RenderVolume
  <2> QED BY <1>1, <1>2, <2>1, <2>2, WishFacts DEF WishInv, WishShown
<1> QED BY <1>3, <1>4

LEMMA WishFails ==
  ASSUME VolumeSafe, WishInv, SendFails
  PROVE  WishInv'
<1>1. /\ pending' = None /\ gesture' = FALSE /\ optimistic' = None /\ req' = None
      /\ slider' = vol /\ chosen' = None /\ vol' = vol
  BY DEF SendFails, RenderVolume
<1> QED BY <1>1 DEF WishInv, WishShown

LEMMA WishHeld ==
  ASSUME VolumeSafe, WishInv, ApplyRemoteVolume
  PROVE  WishInv'
<1>1. /\ held' = held /\ gesture' = gesture /\ pending' = pending /\ req' = req /\ grace' = grace
      /\ chosen' = chosen
  BY DEF ApplyRemoteVolume
<1>2. /\ optimistic' \in {None, optimistic} /\ RenderVolume(vol', gesture, req, pending)
      /\ vol' = vol \/ ~HoldRemote \/ (optimistic # None /\ vol' = optimistic)
  BY DEF ApplyRemoteVolume
<1>3. chosen = None => slider' = vol'
  BY <1>2, WishFacts DEF RenderVolume
<1>4. CASE vol' = vol
  BY <1>1, <1>2, <1>3, <1>4, WishFacts DEF WishInv, WishShown, RenderVolume
<1>5. CASE ~HoldRemote
  <2>1. ~gesture /\ req = None /\ pending = None /\ ~grace
    BY <1>5 DEF HoldRemote
  <2> QED BY <1>1, <1>2, <1>3, <2>1, WishFacts DEF WishInv, WishShown
<1>6. CASE optimistic # None /\ vol' = optimistic
  BY <1>1, <1>2, <1>3, <1>6, WishFacts DEF WishInv, WishShown, RenderVolume
<1> QED BY <1>2, <1>4, <1>5, <1>6

LEMMA WishUntouched ==
  ASSUME VolumeSafe, WishInv,
         ServerSets \/ ServerFails \/ (\E v \in Volumes : OtherSets(v)) \/ PollVolume \/ GraceEnds
           \/ UNCHANGED volumeVars
  PROVE  WishInv'
<1>1. /\ vol' = vol /\ slider' = slider /\ held' = held /\ gesture' = gesture /\ pending' = pending
      /\ optimistic' = optimistic /\ chosen' = chosen /\ (grace' => grace)
  BY DEF ServerSets, ServerFails, OtherSets, PollVolume, GraceEnds, volumeVars, page
<1>2. (req' = None <=> req = None) /\ (req # None => req'.v = req.v)
  <2>1. CASE ServerSets \/ ServerFails
    <3>1. req # None /\ req \in Requests /\ \E a \in {"ok", "fail"} : req' = [req EXCEPT !.ans = a]
      BY <2>1, VolumeFacts DEF ServerSets, ServerFails
    <3>2. req' \in Requests /\ req'.v = req.v
      BY <3>1 DEF Requests
    <3> QED BY <3>1, <3>2, VolumeAssumption
  <2>2. CASE ~(ServerSets \/ ServerFails)
    BY <2>2 DEF OtherSets, PollVolume, GraceEnds, volumeVars, page
  <2> QED BY <2>1, <2>2
<1>3. /\ chosen = None => req' = None
      /\ (chosen # None /\ req' # None /\ pending = None) => req'.v = chosen
      /\ (chosen # None /\ req' = None /\ (gesture \/ grace \/ pending # None)) => vol = chosen
      /\ (chosen # None /\ (held \/ pending # None \/ req' # None \/ grace)) => slider = chosen
  BY <1>2, WishFacts
<1>4. WishShown'
  BY <1>1, <1>3 DEF WishShown
<1> QED BY <1>1, <1>3, <1>4, WishFacts DEF WishInv

\* For any volumes, clients and failures the slider shows the user's last wish until its
\* request is answered and the grace period is over, however pushes, reads, answers to
\* earlier positions and further positions come in between.
THEOREM WishAlwaysShown ==
  VolumeSpec => []WishShown
<1>1. VolumeInit => WishInv
  BY WishStarts
<1>2. VolumeSafe /\ WishInv /\ [VolumeNext]_volumeVars => WishInv'
  BY WishChanges, WishReleased, WishTimed, WishConfirmed, WishFails, WishHeld, WishUntouched
     DEF VolumeNext
<1>3. WishInv => WishShown
  BY DEF WishInv
<1> QED BY <1>1, <1>2, <1>3, VolumeAlwaysSafe, PTL DEF VolumeSpec

-----------------------------------------------------------------------------
(* The footer and its polls *)

\* A page whose timers belong to providers it has data of.
Proper(g) ==
  g \in PageStates /\ \A p \in Providers : g.timer[p] # "off" => g.data[p] # "null"

\* ... and whose timers are of the current generation.
Timed(g) == Proper(g) /\ \A p \in Providers : g.timer[p] # "dead"

\* The footer is where the committed owner wants it.
Settled(g) == g.line \/ g.owner = "none" \/ g.foot = g.owner

LEMMA PageFields ==
  ASSUME NEW g \in PageStates
  PROVE  /\ g.owner \in Owners /\ g.mode \in Modes /\ g.data \in [Providers -> Data]
         /\ g.foot \in {"local"} \union Providers /\ g.tab \in {"other"} \union Providers
         /\ g.takeover \in BOOLEAN /\ g.hold \in BOOLEAN /\ g.lock \in {"no", "other", "match"}
         /\ g.line \in BOOLEAN /\ g.timer \in [Providers -> {"off", "live", "dead"}]
         /\ g.cmd \in {"no", "current", "old"} /\ g.starting \in {"no", "claimed", "asked"}
         /\ g.bumped \in SUBSET Providers /\ g.got \in SUBSET Providers
  BY DEF PageStates

LEMMA FooterOwnerOK ==
  ASSUME NEW g \in PageStates
  PROVE  /\ FooterOwner(g) \in {"local"} \union Providers
         /\ g.line \/ g.owner = "none" \/ FooterOwner(g) = g.owner
<1>1. g.owner \in Owners
  BY PageFields
<1>2. LiveOwner(g) \in {"local"} \union Providers
  BY DEF LiveOwner, Providers
<1> QED BY <1>1, <1>2 DEF FooterOwner, Owners, Providers

LEMMA ReconcileOK ==
  ASSUME NEW g \in PageStates
  PROVE  LET h == ReconcileFooterSource(g)
         IN /\ h \in PageStates /\ h.line = g.line /\ h.owner = g.owner /\ h.timer = g.timer
            /\ h.data = g.data /\ h.bumped = g.bumped /\ h.got = g.got /\ Settled(h)
<1> DEFINE o == FooterOwner(g)
<1>1. o \in {"local"} \union Providers /\ (g.line \/ g.owner = "none" \/ o = g.owner)
  BY FooterOwnerOK
<1> HIDE DEF o
<1>2. [g EXCEPT !.foot = o] \in PageStates
  BY <1>1 DEF PageStates
<1>3. ReconcileFooterSource(g) = [g EXCEPT !.foot = o]
  BY DEF ReconcileFooterSource, o
<1> QED BY <1>1, <1>2, <1>3 DEF PageStates, Settled

LEMMA UpdatePollsOK ==
  ASSUME NEW g \in PageStates
  PROVE  LET h == UpdatePolls(g)
         IN Timed(h) /\ h.line = g.line /\ h.owner = g.owner /\ h.foot = g.foot
<1> DEFINE needed == {p \in Providers : ShouldPoll(g, p)}
           new == {p \in Providers : p \notin needed \/ g.timer[p] # "live"}
           t == [p \in Providers |-> IF p \in needed THEN "live" ELSE "off"]
           c == IF "spotify" \in new /\ g.cmd = "current" THEN "old" ELSE g.cmd
           b == g.bumped \union new
           h == [g EXCEPT !.timer = t, !.cmd = c, !.bumped = b]
<1>1. UpdatePolls(g) = h
  BY DEF UpdatePolls
<1>2. /\ t \in [Providers -> {"off", "live", "dead"}] /\ c \in {"no", "current", "old"}
      /\ b \in SUBSET Providers
  BY PageFields
<1>3. \A p \in Providers : t[p] # "dead" /\ (t[p] # "off" => g.data[p] # "null")
  BY DEF ShouldPoll, Installed, Status
<1> HIDE DEF t, c, b
<1>4. h \in PageStates /\ h.timer = t /\ h.data = g.data /\ h.foot = g.foot /\ h.line = g.line /\ h.owner = g.owner
  BY <1>2 DEF PageStates
<1> HIDE DEF h
<1> QED BY <1>1, <1>3, <1>4 DEF Timed, Proper

LEMMA BumpOK ==
  ASSUME NEW g \in PageStates, NEW p \in Providers
  PROVE  LET h == BumpPollGeneration(g, p)
         IN /\ h \in PageStates /\ h.line = g.line /\ h.owner = g.owner /\ h.foot = g.foot /\ h.data = g.data
            /\ \A q \in Providers : h.timer[q] = "off" <=> g.timer[q] = "off"
            /\ \A q \in Providers \ {p} : h.timer[q] = g.timer[q]
<1> DEFINE t == [g.timer EXCEPT ![p] = IF @ = "live" THEN "dead" ELSE @]
           c == IF p = "spotify" /\ g.cmd = "current" THEN "old" ELSE g.cmd
           b == g.bumped \union {p}
           h == [g EXCEPT !.timer = t, !.cmd = c, !.bumped = b]
<1>1. BumpPollGeneration(g, p) = h
  BY DEF BumpPollGeneration
<1>2. /\ t \in [Providers -> {"off", "live", "dead"}] /\ c \in {"no", "current", "old"}
      /\ b \in SUBSET Providers
      /\ \A q \in Providers : t[q] = "off" <=> g.timer[q] = "off"
      /\ \A q \in Providers \ {p} : t[q] = g.timer[q]
  BY PageFields
<1> HIDE DEF t, c, b
<1>3. h \in PageStates /\ h.timer = t /\ h.data = g.data /\ h.foot = g.foot /\ h.line = g.line /\ h.owner = g.owner
  BY <1>2 DEF PageStates
<1> HIDE DEF h
<1> QED BY <1>1, <1>2, <1>3

LEMMA StopPollOK ==
  ASSUME NEW g, Proper(g), NEW p \in Providers, \A q \in Providers \ {p} : g.timer[q] # "dead"
  PROVE  LET h == StopPoll(g, p)
         IN /\ Timed(h) /\ h.line = g.line /\ h.owner = g.owner /\ h.foot = g.foot /\ h.data = g.data
            /\ h.tab = g.tab
<1> DEFINE t == [g.timer EXCEPT ![p] = "off"]
           h == [g EXCEPT !.timer = t]
<1>1. StopPoll(g, p) = h
  BY DEF StopPoll
<1>2. g \in PageStates /\ \A q \in Providers : g.timer[q] # "off" => g.data[q] # "null"
  BY DEF Proper
<1>3. /\ t \in [Providers -> {"off", "live", "dead"}]
      /\ \A q \in Providers : t[q] # "dead" /\ (t[q] # "off" => g.data[q] # "null")
  BY <1>2, PageFields
<1> HIDE DEF t
<1>4. h \in PageStates /\ h.timer = t /\ h.data = g.data /\ h.foot = g.foot /\ h.line = g.line
      /\ h.owner = g.owner /\ h.tab = g.tab
  BY <1>2, <1>3 DEF PageStates
<1> HIDE DEF h
<1> QED BY <1>1, <1>3, <1>4 DEF Timed, Proper

LEMMA StopPollPage ==
  ASSUME NEW g \in PageStates, NEW p \in Providers
  PROVE  StopPoll(g, p) \in PageStates
<1> DEFINE t == [g.timer EXCEPT ![p] = "off"]
<1>1. StopPoll(g, p) = [g EXCEPT !.timer = t]
  BY DEF StopPoll
<1>2. t \in [Providers -> {"off", "live", "dead"}]
  BY PageFields
<1> HIDE DEF t
<1> QED BY <1>1, <1>2 DEF PageStates

LEMMA StartPollOK ==
  ASSUME NEW g, Timed(g), NEW p \in Providers
  PROVE  LET h == StartPoll(g, p)
         IN Timed(h) /\ h.line = g.line /\ h.owner = g.owner /\ h.foot = g.foot
<1>1. CASE ~ShouldPoll(g, p) \/ g.timer[p] = "live"
  BY <1>1 DEF StartPoll
<1>2. CASE ShouldPoll(g, p) /\ g.timer[p] # "live"
  <2> DEFINE k == BumpPollGeneration(g, p)
             t == [k.timer EXCEPT ![p] = "live"]
             h == [k EXCEPT !.timer = t]
  <2>1. StartPoll(g, p) = h
    BY <1>2 DEF StartPoll
  <2>2. g \in PageStates /\ \A q \in Providers : g.timer[q] # "dead" /\ (g.timer[q] # "off" => g.data[q] # "null")
    BY DEF Timed, Proper
  <2>3. /\ k \in PageStates /\ k.line = g.line /\ k.owner = g.owner /\ k.foot = g.foot /\ k.data = g.data
        /\ \A q \in Providers \ {p} : k.timer[q] = g.timer[q]
    BY <2>2, BumpOK
  <2> HIDE DEF k
  <2>4. g.data[p] # "null"
    BY <1>2 DEF ShouldPoll, Installed, Status
  <2>5. /\ t \in [Providers -> {"off", "live", "dead"}]
        /\ \A q \in Providers : t[q] # "dead" /\ (t[q] # "off" => g.data[q] # "null")
    <3>1. k.timer \in [Providers -> {"off", "live", "dead"}]
      BY <2>3, PageFields
    <3> QED BY <2>2, <2>3, <2>4, <3>1
  <2> HIDE DEF t
  <2>6. h \in PageStates /\ h.timer = t /\ h.data = k.data /\ h.foot = k.foot /\ h.line = k.line /\ h.owner = k.owner
    BY <2>3, <2>5 DEF PageStates
  <2> HIDE DEF h
  <2> QED BY <2>1, <2>3, <2>5, <2>6 DEF Timed, Proper
<1> QED BY <1>1, <1>2

\* A poll that is given up: its generation is bumped and its timer stopped.
LEMMA GivenUpOK ==
  ASSUME NEW g, Timed(g), NEW p \in Providers
  PROVE  LET h == StopPoll(BumpPollGeneration(g, p), p)
         IN Timed(h) /\ h.line = g.line /\ h.owner = g.owner /\ h.foot = g.foot
<1> DEFINE k == BumpPollGeneration(g, p)
<1>1. g \in PageStates /\ \A q \in Providers : g.timer[q] # "dead" /\ (g.timer[q] # "off" => g.data[q] # "null")
  BY DEF Timed, Proper
<1>2. /\ k \in PageStates /\ k.line = g.line /\ k.owner = g.owner /\ k.foot = g.foot /\ k.data = g.data
      /\ \A q \in Providers : k.timer[q] = "off" <=> g.timer[q] = "off"
      /\ \A q \in Providers \ {p} : k.timer[q] = g.timer[q]
  BY <1>1, BumpOK
<1> HIDE DEF k
<1>3. Proper(k) /\ \A q \in Providers \ {p} : k.timer[q] # "dead"
  BY <1>1, <1>2 DEF Proper
<1>4. LET h == StopPoll(k, p) IN Timed(h) /\ h.line = k.line /\ h.owner = k.owner /\ h.foot = k.foot
  BY <1>3, StopPollOK
<1> QED BY <1>2, <1>4 DEF k

LEMMA StopUnlessDueOK ==
  ASSUME NEW g \in PageStates, NEW p \in Providers
  PROVE  StopUnlessDue(g, p) \in PageStates
  BY BumpOK, StopPollPage DEF StopUnlessDue

LEMMA SpotifyIsProvider ==
  "spotify" \in Providers /\ "qobuz" \in Providers
  BY DEF Providers

LEMMA DowngradeOK ==
  ASSUME NEW g \in PageStates
  PROVE  Downgrade(g) \in PageStates
<1>1. CASE g.data["spotify"] # "playing"
  BY <1>1 DEF Downgrade
<1>2. CASE g.data["spotify"] = "playing"
  <2> DEFINE d == [g.data EXCEPT !["spotify"] = "paused"]
             b == g.got \union {"spotify"}
  <2>1. Downgrade(g) = [g EXCEPT !.data = d, !.got = b]
    BY <1>2 DEF Downgrade
  <2>2. d \in [Providers -> Data] /\ b \in SUBSET Providers
    BY PageFields, SpotifyIsProvider DEF Data, Status
  <2> HIDE DEF d, b
  <2> QED BY <2>1, <2>2 DEF PageStates
<1> QED BY <1>1, <1>2

LEMMA FootSet ==
  ASSUME NEW g \in PageStates, NEW o \in {"local"} \union Providers
  PROVE  [g EXCEPT !.foot = o] \in PageStates /\ [g EXCEPT !.takeover = FALSE, !.foot = o] \in PageStates
  BY DEF PageStates

LEMMA SyncOK ==
  ASSUME NEW g \in PageStates
  PROVE  SyncFooterOwnership(g) \in PageStates
<1> DEFINE Local(k) == StopUnlessDue([k EXCEPT !.takeover = FALSE, !.foot = "local"], "spotify")
<1>1. Local(g) \in PageStates
  <2>1. [g EXCEPT !.takeover = FALSE, !.foot = "local"] \in PageStates
    BY FootSet
  <2> QED BY <2>1, StopUnlessDueOK, SpotifyIsProvider
<1>2. Local(Downgrade(g)) \in PageStates
  <2>1. Downgrade(g) \in PageStates
    BY DowngradeOK
  <2>2. [Downgrade(g) EXCEPT !.takeover = FALSE, !.foot = "local"] \in PageStates
    BY <2>1, FootSet
  <2> QED BY <2>2, StopUnlessDueOK, SpotifyIsProvider
<1>3. StopUnlessDue(ReconcileFooterSource(g), "spotify") \in PageStates
  BY ReconcileOK, StopUnlessDueOK, SpotifyIsProvider
<1>4. [g EXCEPT !.foot = "spotify"] \in PageStates /\ [g EXCEPT !.foot = "qobuz"] \in PageStates
  BY FootSet, SpotifyIsProvider
<1>5. g.owner \in Providers => [g EXCEPT !.foot = g.owner] \in PageStates
  BY FootSet
<1>6. g.owner # "local" /\ g.owner # "none" => g.owner \in Providers
  BY PageFields DEF Owners
<1>7. \/ SyncFooterOwnership(g) = Local(g)
      \/ SyncFooterOwnership(g) = Local(Downgrade(g))
      \/ SyncFooterOwnership(g) = StopUnlessDue(ReconcileFooterSource(g), "spotify")
      \/ SyncFooterOwnership(g) = [g EXCEPT !.foot = "spotify"]
      \/ SyncFooterOwnership(g) = [g EXCEPT !.foot = "qobuz"]
      \/ SyncFooterOwnership(g) = [g EXCEPT !.foot = g.owner] /\ g.owner # "local" /\ g.owner # "none"
  BY Zenon DEF SyncFooterOwnership
<1> HIDE DEF Local
<1> QED BY <1>1, <1>2, <1>3, <1>4, <1>5, <1>6, <1>7, Zenon

LEMMA MergeOK ==
  ASSUME FooterTypeOK, NEW g \in PageStates, NEW same \in BOOLEAN
  PROVE  LET h == Merge(g, same)
         IN h \in PageStates /\ h.foot = g.foot /\ h.timer = g.timer /\ h.data = g.data
<1> DEFINE o == srv.owner
           mo == srv.mode
           l == IF g.lock = "no" THEN g.lock ELSE IF same /\ srv.mode # "none" THEN "match" ELSE "other"
           h == [g EXCEPT !.owner = o, !.mode = mo, !.lock = l]
<1>1. Merge(g, same) = h
  BY DEF Merge
<1>2. o \in Owners /\ mo \in Modes /\ l \in {"no", "other", "match"}
  BY PageFields DEF FooterTypeOK
<1> HIDE DEF o, mo, l
<1>3. h \in PageStates /\ h.foot = g.foot /\ h.timer = g.timer /\ h.data = g.data
  BY <1>2 DEF PageStates
<1> HIDE DEF h
<1> QED BY <1>1, <1>3

LEMMA IncomingData ==
  ASSUME NEW g \in PageStates, NEW p \in Providers, NEW d \in Data
  PROVE  /\ MergeData(p, g.data[p], d) \in Data
         /\ d # "null" => MergeData(p, g.data[p], d) # "null"
  BY PageFields DEF MergeData, Showing

LEMMA HandleIncomingOK ==
  ASSUME NEW g \in PageStates, NEW p \in Providers, NEW d \in Data
  PROVE  LET h == HandleIncoming(g, p, d)
         IN /\ h \in PageStates /\ h.line = g.line /\ h.owner = g.owner /\ Settled(h)
            /\ Timed(g) /\ d # "null" => Timed(h)
<1> DEFINE new == MergeData(p, g.data[p], d)
           nd == [g.data EXCEPT ![p] = new]
           b == g.got \union {p}
           h == [g EXCEPT !.data = nd, !.got = b]
           k == IF p = "spotify" /\ ~Installed(new) THEN StopPoll(h, p) ELSE h
<1>1. HandleIncoming(g, p, d) = ReconcileFooterSource(k)
  BY DEF HandleIncoming
<1>2. new \in Data /\ (d # "null" => new # "null")
  BY IncomingData
<1> HIDE DEF new
<1>3. /\ nd \in [Providers -> Data] /\ b \in SUBSET Providers
      /\ nd[p] = new /\ \A q \in Providers \ {p} : nd[q] = g.data[q]
  BY <1>2, PageFields
<1> HIDE DEF nd, b
<1>4. h \in PageStates /\ h.data = nd /\ h.timer = g.timer /\ h.line = g.line /\ h.owner = g.owner
  BY <1>3 DEF PageStates
<1> HIDE DEF h
<1>5. Timed(g) /\ d # "null" => Timed(h)
  BY <1>2, <1>3, <1>4 DEF Timed, Proper
<1>6. k \in PageStates /\ k.line = g.line /\ k.owner = g.owner
  <2>1. StopPoll(h, p) \in PageStates
    BY <1>4, StopPollPage
  <2>2. StopPoll(h, p).line = h.line /\ StopPoll(h, p).owner = h.owner
    BY <1>4 DEF StopPoll, PageStates
  <2> QED BY <1>4, <2>1, <2>2
<1>7. Timed(h) => Timed(k)
  <2>1. Timed(h) => Timed(StopPoll(h, p))
    BY StopPollOK DEF Timed
  <2> QED BY <2>1
<1> HIDE DEF k
<1>8. LET r == ReconcileFooterSource(k)
      IN /\ r \in PageStates /\ r.line = k.line /\ r.owner = k.owner /\ r.timer = k.timer
         /\ r.data = k.data /\ Settled(r)
  BY <1>6, ReconcileOK
<1>9. Timed(k) => Timed(ReconcileFooterSource(k))
  BY <1>8 DEF Timed, Proper
<1> QED BY <1>1, <1>5, <1>6, <1>7, <1>8, <1>9

\* The reads bring data, and a resync reads every provider.
Brings(rs) == rs \subseteq ProviderReads /\ \A r \in rs : r.val # "null"

Paired(rs) ==
  \A r \in rs : r.kind = "sync" => \A p \in Providers : \E s \in rs : s.kind = "sync" /\ s.p = p

FooterInv ==
  /\ FooterTypeOK /\ Timed(view) /\ Brings(reads) /\ Paired(reads)
  /\ \A p \in Providers : srv.data[p] # "null"

\* A step that moves the footer moves it to the committed owner.
Committed == view'.foot = view.foot \/ Settled(view')

FooterKept == FooterInv' /\ (Committed \/ (view'.foot = "spotify" /\ SpotifyCommand))

LEMMA ReadOK ==
  ASSUME NEW p \in Providers, NEW k \in {"poll", "init", "tab", "burst", "sync"}
  PROVE  Read(p, k) \in ProviderReads /\ Read(p, k).val # "null" /\ Read(p, k).kind = k /\ Read(p, k).p = p
  BY DEF Read, ProviderReads

LEMMA StepOK ==
  ASSUME NEW g, NEW more, NEW left, Step(g, more, left), Timed(g),
         Brings(more), Brings(left), Paired(more \union left)
  PROVE  /\ Timed(view') /\ Brings(reads') /\ Paired(reads') /\ view'.foot = g.foot
         /\ g.foot = view.foot \/ Settled(g) => Committed
<1> DEFINE v == [g EXCEPT !.bumped = {}, !.got = {}]
           M(r) == [r EXCEPT !.ok = @ /\ ~(r.kind = "poll" /\ r.p \in g.bumped)
                                     /\ ~(r.kind = "sync" /\ r.p \in g.got)]
<1>1. view' = v /\ reads' = more \union {M(r) : r \in left}
  BY DEF Step
<1>2. g \in PageStates
  BY DEF Timed, Proper
<1>3. /\ v \in PageStates /\ v.timer = g.timer /\ v.data = g.data /\ v.foot = g.foot
      /\ v.owner = g.owner /\ v.line = g.line
  BY <1>2 DEF PageStates
<1> HIDE DEF v
<1>4. Timed(view') /\ view'.foot = g.foot /\ (g.foot = view.foot \/ Settled(g) => Committed)
  BY <1>1, <1>3 DEF Timed, Proper, Committed, Settled
<1>5. \A r \in left : M(r) \in ProviderReads /\ M(r).val # "null" /\ M(r).kind = r.kind /\ M(r).p = r.p
  <2> TAKE r \in left
  <2>1. r \in ProviderReads /\ r.val # "null"
    BY DEF Brings
  <2> DEFINE o == r.ok /\ ~(r.kind = "poll" /\ r.p \in g.bumped) /\ ~(r.kind = "sync" /\ r.p \in g.got)
  <2>2. o \in BOOLEAN
    BY Zenon
  <2>3. M(r) = [r EXCEPT !.ok = o]
    OBVIOUS
  <2> HIDE DEF o, M
  <2> QED BY <2>1, <2>2, <2>3 DEF ProviderReads
<1> HIDE DEF M
<1>6. Brings(reads')
  BY <1>1, <1>5 DEF Brings
<1>7. Paired(reads')
  <2> SUFFICES ASSUME NEW r \in reads', r.kind = "sync", NEW p \in Providers
               PROVE  \E s \in reads' : s.kind = "sync" /\ s.p = p
    BY DEF Paired
  <2>1. PICK q \in more \union left : q.kind = "sync"
    BY <1>1, <1>5
  <2>2. PICK s \in more \union left : s.kind = "sync" /\ s.p = p
    BY <2>1 DEF Paired
  <2> QED BY <1>1, <1>5, <2>2
<1> QED BY <1>4, <1>6, <1>7

LEMMA ShowOK ==
  ASSUME NEW g \in PageStates, NEW more, NEW left, Show(g, more, left),
         Brings(more), Brings(left), Paired(more \union left)
  PROVE  Timed(view') /\ Committed /\ Brings(reads') /\ Paired(reads')
<1> DEFINE k == ReconcileFooterSource(g)
           h == UpdatePolls(k)
<1>1. Step(h, more, left)
  BY DEF Show
<1>2. k \in PageStates /\ Settled(k)
  BY ReconcileOK
<1> HIDE DEF k
<1>3. Timed(h) /\ h.line = k.line /\ h.owner = k.owner /\ h.foot = k.foot
  BY <1>2, UpdatePollsOK
<1> HIDE DEF h
<1>4. Settled(h)
  BY <1>2, <1>3 DEF Settled
<1> QED BY <1>1, <1>3, <1>4, StepOK

LEMMA InvFacts ==
  ASSUME FooterInv
  PROVE  /\ FooterTypeOK /\ Timed(view) /\ view \in PageStates /\ Brings(reads) /\ Paired(reads)
         /\ srv \in [owner : Owners, mode : Modes, data : [Providers -> Data]]
         /\ \A p \in Providers : srv.data[p] \in Data /\ srv.data[p] # "null"
         /\ Brings({}) /\ Paired({} \union reads)
  BY DEF FooterInv, FooterTypeOK, Brings, Timed, Proper

\* The bounds of a behaviour, with each counter below its own.
CountsOK(c) ==
  /\ c \in [changes : Nat, user : Nat, fails : Nat, max : FooterInstances]
  /\ c.changes <= c.max.changes /\ c.user <= c.max.user /\ c.fails <= c.max.fails

LEMMA CountsMeant ==
  ASSUME NEW c \in [changes : Nat, user : Nat, fails : Nat, max : FooterInstances]
  PROVE  (\A x \in {"changes", "user", "fails"} : c[x] <= c.max[x]) <=> CountsOK(c)
  BY DEF CountsOK

LEMMA CountsSplit ==
  ASSUME FooterTypeOK
  PROVE  CountsOK(counts)
  BY DEF CountsOK, FooterTypeOK

LEMMA KeptFrom ==
  ASSUME Timed(view'), Committed \/ (view'.foot = "spotify" /\ SpotifyCommand),
         Brings(reads'), Paired(reads'), CountsOK(counts'),
         srv' \in [owner : Owners, mode : Modes, data : [Providers -> Data]],
         \A p \in Providers : srv'.data[p] # "null",
         due' \subseteq {"init", "playback"} \union Providers
  PROVE  FooterKept
<1>1. FooterTypeOK'
  <2>1. counts' \in [changes : Nat, user : Nat, fails : Nat, max : FooterInstances]
        /\ \A x \in {"changes", "user", "fails"} : counts'[x] <= counts'.max[x]
    <3>1. counts' \in [changes : Nat, user : Nat, fails : Nat, max : FooterInstances]
      BY DEF CountsOK
    <3> QED BY <3>1, CountsMeant
  <2>2. view' \in PageStates /\ (\A p \in Providers : view'.timer[p] # "off" => view'.data[p] # "null")
        /\ reads' \subseteq ProviderReads
    BY DEF Timed, Proper, Brings
  <2> QED BY <2>1, <2>2 DEF FooterTypeOK
<1>2. Timed(view)' /\ Brings(reads)' /\ Paired(reads)'
  BY DEF Timed, Proper, Brings, Paired
<1> QED BY <1>1, <1>2 DEF FooterKept, FooterInv

\* What a handler of the page leaves alone.
LEMMA PageKept ==
  ASSUME FooterInv, Timed(view'), Committed \/ (view'.foot = "spotify" /\ SpotifyCommand),
         Brings(reads'), Paired(reads'), CountsOK(counts'), srv' = srv, due' \subseteq due
  PROVE  FooterKept
<1>1. /\ srv \in [owner : Owners, mode : Modes, data : [Providers -> Data]]
      /\ \A p \in Providers : srv.data[p] # "null"
  BY InvFacts
<1>2. due \subseteq {"init", "playback"} \union Providers
  BY DEF FooterInv, FooterTypeOK
<1>3. /\ srv' \in [owner : Owners, mode : Modes, data : [Providers -> Data]]
      /\ \A p \in Providers : srv'.data[p] # "null"
      /\ due' \subseteq {"init", "playback"} \union Providers
  BY <1>1, <1>2
<1> QED BY <1>3, KeptFrom

LEMMA UserCounts ==
  ASSUME FooterInv, UserActs
  PROVE  CountsOK(counts') /\ srv' = srv /\ due' = due
<1>1. CountsOK(counts)
  BY CountsSplit DEF FooterInv
<1>2. counts' = [counts EXCEPT !.user = @ + 1] /\ counts.user < counts.max.user /\ srv' = srv /\ due' = due
  BY DEF UserActs
<1>3. counts.max \in [changes : Nat, user : Nat, fails : Nat, miss : BOOLEAN]
  BY <1>1, FooterAssumption DEF CountsOK
<1> QED BY <1>1, <1>2, <1>3 DEF CountsOK

LEMMA SameCounts ==
  ASSUME FooterInv, counts' = counts
  PROVE  CountsOK(counts')
  BY CountsSplit DEF FooterInv, CountsOK

-----------------------------------------------------------------------------
(* The handlers.                                                             *)

LEMMA OnPlaybackKeeps ==
  ASSUME FooterInv, OnPlayback
  PROVE  FooterKept
<1>1. PICK same \in BOOLEAN :
        LET h == SyncFooterOwnership(Merge(view, same))
        IN Show([h EXCEPT !.lock = IF @ = "match" THEN "no" ELSE @], {}, reads)
  BY DEF OnPlayback
<1> DEFINE g == Merge(view, same)
           h == SyncFooterOwnership(g)
           l == IF h.lock = "match" THEN "no" ELSE h.lock
           k == [h EXCEPT !.lock = l]
<1>2. Show(k, {}, reads)
  BY <1>1
<1>3. g \in PageStates
  BY InvFacts, MergeOK
<1> HIDE DEF g
<1>4. h \in PageStates
  BY <1>3, SyncOK
<1> HIDE DEF h
<1>5. l \in {"no", "other", "match"}
  BY <1>4, PageFields
<1> HIDE DEF l
<1>6. k \in PageStates
  BY <1>4, <1>5 DEF PageStates
<1> HIDE DEF k
<1>7. Timed(view') /\ Committed /\ Brings(reads') /\ Paired(reads')
  BY <1>2, <1>6, ShowOK, InvFacts
<1>8. srv' = srv /\ due' \subseteq due /\ counts' = counts
  BY DEF OnPlayback
<1> QED BY <1>7, <1>8, PageKept, SameCounts

LEMMA FetchKeeps ==
  ASSUME FooterInv, FetchMetadata
  PROVE  FooterKept
<1>1. PICK same \in BOOLEAN :
        LET g == Merge(view, same)
        IN Step(g, {}, reads) \/ Show(SyncFooterOwnership(g), {}, reads)
  BY DEF FetchMetadata
<1> DEFINE g == Merge(view, same)
<1>2. g \in PageStates /\ g.foot = view.foot /\ g.timer = view.timer /\ g.data = view.data
  BY InvFacts, MergeOK
<1>3. Step(g, {}, reads) \/ Show(SyncFooterOwnership(g), {}, reads)
  BY <1>1
<1> HIDE DEF g
<1>4. Timed(g)
  BY <1>2, InvFacts DEF Timed, Proper
<1>5. SyncFooterOwnership(g) \in PageStates
  BY <1>2, SyncOK
<1>6. Timed(view') /\ Committed /\ Brings(reads') /\ Paired(reads')
  <2>1. CASE Step(g, {}, reads)
    BY <1>2, <1>4, <2>1, StepOK, InvFacts
  <2>2. CASE Show(SyncFooterOwnership(g), {}, reads)
    BY <1>5, <2>2, ShowOK, InvFacts
  <2> QED BY <1>3, <2>1, <2>2
<1>7. srv' = srv /\ due' \subseteq due /\ counts' = counts
  BY DEF FetchMetadata
<1> QED BY <1>6, <1>7, PageKept, SameCounts

LEMMA OnProviderKeeps ==
  ASSUME FooterInv, NEW p \in Providers, OnProvider(p)
  PROVE  FooterKept
<1> DEFINE g == HandleIncoming(view, p, srv.data[p])
           h == StartPoll(g, p)
<1>1. Step(g, {}, reads) \/ Step(h, {}, reads)
  BY DEF OnProvider
<1>2. Timed(g) /\ Settled(g)
  BY InvFacts, HandleIncomingOK
<1> HIDE DEF g
<1>3. Timed(h) /\ h.line = g.line /\ h.owner = g.owner /\ h.foot = g.foot
  BY <1>2, StartPollOK
<1> HIDE DEF h
<1>4. Settled(h)
  BY <1>2, <1>3 DEF Settled
<1>5. Timed(view') /\ Committed /\ Brings(reads') /\ Paired(reads')
  BY <1>1, <1>2, <1>3, <1>4, StepOK, InvFacts
<1>6. srv' = srv /\ due' \subseteq due /\ counts' = counts
  BY DEF OnProvider
<1> QED BY <1>5, <1>6, PageKept, SameCounts

LEMMA PollTickKeeps ==
  ASSUME FooterInv, NEW p \in Providers, PollTick(p)
  PROVE  FooterKept
<1> DEFINE g == StopPoll(BumpPollGeneration(view, p), p)
           ask == {Read(p, "poll")}
<1>1. Step(g, {}, reads) \/ Step(view, ask, reads)
  BY DEF PollTick
<1>2. Timed(g) /\ g.foot = view.foot
  BY InvFacts, GivenUpOK
<1> HIDE DEF g
<1>3. Brings(ask) /\ Paired(ask \union reads)
  BY ReadOK, InvFacts DEF Brings, Paired
<1> HIDE DEF ask
<1>4. Timed(view') /\ Committed /\ Brings(reads') /\ Paired(reads')
  BY <1>1, <1>2, <1>3, StepOK, InvFacts
<1>5. srv' = srv /\ due' \subseteq due /\ counts' = counts
  BY DEF PollTick
<1> QED BY <1>4, <1>5, PageKept, SameCounts

\* An answer changes what a read will bring, and nothing else of the reads.
LEMMA AnsweredOK ==
  ASSUME FooterInv, NEW r \in reads, NEW d \in Data \ {"null"},
         reads' = (reads \ {r}) \union {[r EXCEPT !.val = d]}
  PROVE  Brings(reads') /\ Paired(reads')
<1> DEFINE q == [r EXCEPT !.val = d]
<1>1. r \in ProviderReads
  BY DEF FooterInv, Brings
<1>2. q \in ProviderReads /\ q.val = d /\ q.kind = r.kind /\ q.p = r.p
  BY <1>1 DEF ProviderReads
<1>3. reads' = (reads \ {r}) \union {q}
  OBVIOUS
<1> HIDE DEF q
<1>4. Brings(reads')
  BY <1>2, <1>3 DEF FooterInv, Brings
<1>5. Paired(reads')
  <2> SUFFICES ASSUME NEW s \in reads', s.kind = "sync", NEW p \in Providers
               PROVE  \E t \in reads' : t.kind = "sync" /\ t.p = p
    BY DEF Paired
  <2>1. PICK t \in reads : t.kind = "sync" /\ t.p = p
    BY <1>2, <1>3 DEF FooterInv, Paired
  <2> QED BY <1>2, <1>3, <2>1
<1> QED BY <1>4, <1>5

LEMMA AnswerKeeps ==
  ASSUME FooterInv, NEW r \in reads, Answer(r) \/ Fail(r)
  PROVE  FooterKept
<1>1. PICK d \in Data \ {"null"} : reads' = (reads \ {r}) \union {[r EXCEPT !.val = d]}
  <2>1. r.p \in Providers
    BY DEF FooterInv, Brings, ProviderReads
  <2>2. srv.data[r.p] \in Data \ {"null"}
    BY <2>1, InvFacts
  <2>3. "gone" \in Data \ {"null"}
    BY DEF Data
  <2> QED BY <2>2, <2>3 DEF Answer, Fail
<1>2. Brings(reads') /\ Paired(reads')
  BY <1>1, AnsweredOK
<1>3. view' = view /\ srv' = srv /\ due' = due
  BY DEF Answer, Fail
<1>4. CountsOK(counts')
  <2>1. CASE Answer(r)
    BY <2>1, SameCounts DEF Answer
  <2>2. CASE Fail(r)
    <3>1. CountsOK(counts)
      BY CountsSplit DEF FooterInv
    <3>2. counts' = [counts EXCEPT !.fails = @ + 1] /\ counts.fails < counts.max.fails
      BY <2>2 DEF Fail
    <3>3. counts.max \in [changes : Nat, user : Nat, fails : Nat, miss : BOOLEAN]
      BY <3>1, FooterAssumption DEF CountsOK
    <3> QED BY <3>1, <3>2, <3>3 DEF CountsOK
  <2> QED BY <2>1, <2>2
<1>5. Timed(view') /\ Committed
  BY <1>3 DEF FooterInv, Committed
<1> QED BY <1>2, <1>3, <1>4, <1>5, PageKept

LEMMA ReadDoneKeeps ==
  ASSUME FooterInv, NEW r \in reads, ReadDone(r)
  PROVE  FooterKept
<1> DEFINE g == HandleIncoming(view, r.p, r.val)
           h == StartPoll(g, r.p)
           k == StopPoll(g, r.p)
<1>1. \E n \in {view, g, h, k} : Step(n, {}, reads \ {r})
  BY DEF ReadDone
<1>2. r.p \in Providers /\ r.val \in Data /\ r.val # "null" /\ r.kind # "sync"
  BY DEF FooterInv, Brings, ProviderReads, ReadDone
<1>3. Timed(g) /\ Settled(g)
  BY <1>2, InvFacts, HandleIncomingOK
<1> HIDE DEF g
<1>4. Timed(h) /\ h.line = g.line /\ h.owner = g.owner /\ h.foot = g.foot
  BY <1>2, <1>3, StartPollOK
<1>5. Timed(k) /\ k.line = g.line /\ k.owner = g.owner /\ k.foot = g.foot
  BY <1>2, <1>3, StopPollOK DEF Timed
<1> HIDE DEF h, k
<1>6. Settled(h) /\ Settled(k)
  BY <1>3, <1>4, <1>5 DEF Settled
<1>7. Brings(reads \ {r}) /\ Paired({} \union (reads \ {r}))
  BY <1>2 DEF FooterInv, Brings, Paired
<1>8. Timed(view') /\ Committed /\ Brings(reads') /\ Paired(reads')
  BY <1>1, <1>3, <1>4, <1>5, <1>6, <1>7, StepOK, InvFacts
<1>9. srv' = srv /\ due' \subseteq due /\ counts' = counts
  BY DEF ReadDone
<1> QED BY <1>8, <1>9, PageKept, SameCounts

LEMMA UpdateUIOK ==
  ASSUME NEW g \in PageStates
  PROVE  Timed(UpdatePlaybackUI(g)) /\ Settled(UpdatePlaybackUI(g))
<1> DEFINE k == ReconcileFooterSource(g)
           h == UpdatePolls(k)
<1>1. UpdatePlaybackUI(g) = h
  BY DEF UpdatePlaybackUI
<1>2. k \in PageStates /\ Settled(k)
  BY ReconcileOK
<1> HIDE DEF k
<1>3. Timed(h) /\ h.line = k.line /\ h.owner = k.owner /\ h.foot = k.foot
  BY <1>2, UpdatePollsOK
<1> HIDE DEF h
<1> QED BY <1>1, <1>2, <1>3 DEF Settled

LEMMA OnInitKeeps ==
  ASSUME FooterInv, OnInit
  PROVE  FooterKept
<1> DEFINE g == SyncFooterOwnership(Merge(view, FALSE))
           u == UpdatePlaybackUI(g)
           h == HandleIncoming(u, "spotify", srv.data["spotify"])
           k == HandleIncoming(h, "qobuz", srv.data["qobuz"])
           ask == {Read(p, "sync") : p \in Providers}
<1>1. Step(k, ask, reads \ Syncs)
  BY Zenon DEF OnInit
<1>2. g \in PageStates
  <2>1. Merge(view, FALSE) \in PageStates
    <3>1. \A same \in BOOLEAN : Merge(view, same) \in PageStates
      BY InvFacts, MergeOK
    <3> QED BY <3>1
  <2> QED BY <2>1, SyncOK
<1> HIDE DEF g
<1>3. Timed(u)
  BY <1>2, UpdateUIOK
<1> HIDE DEF u
<1>4. /\ \A p \in Providers : srv.data[p] \in Data /\ srv.data[p] # "null"
      /\ \A n : Timed(n) => n \in PageStates
  BY InvFacts DEF Timed, Proper
<1>5. Timed(h)
  BY <1>3, <1>4, HandleIncomingOK, SpotifyIsProvider
<1> HIDE DEF h
<1>6. Timed(k) /\ Settled(k)
  BY <1>4, <1>5, HandleIncomingOK, SpotifyIsProvider
<1> HIDE DEF k
<1>7. Brings(ask) /\ Brings(reads \ Syncs)
  BY ReadOK, InvFacts DEF Brings
<1>8. Paired(ask \union (reads \ Syncs))
  <2>1. \A p \in Providers : \E s \in ask : s.kind = "sync" /\ s.p = p
    <3>1. \A p \in Providers : Read(p, "sync").kind = "sync" /\ Read(p, "sync").p = p
      BY ReadOK
    <3> QED BY <3>1
  <2> HIDE DEF ask
  <2> QED BY <2>1 DEF Paired, Syncs
<1> HIDE DEF ask
<1>9. Timed(view') /\ Committed /\ Brings(reads') /\ Paired(reads')
  BY <1>1, <1>6, <1>7, <1>8, StepOK, InvFacts
<1>10. srv' = srv /\ due' \subseteq due /\ counts' = counts
  BY DEF OnInit
<1> QED BY <1>9, <1>10, PageKept, SameCounts

LEMMA ResyncDoneKeeps ==
  ASSUME FooterInv, ResyncDone
  PROVE  FooterKept
<1> DEFINE R(p) == CHOOSE x \in Syncs : x.p = p
           Seed(n, p) == IF R(p).ok /\ p \notin n.got THEN HandleIncoming(n, p, R(p).val) ELSE n
           g == SyncFooterOwnership(Merge(view, FALSE))
           h == Seed(Seed(g, "spotify"), "qobuz")
           e == ReconcileFooterSource(h)
<1>1. Step(UpdatePlaybackUI(e), {}, reads \ Syncs)
  BY Zenon DEF ResyncDone, RefreshPolls
<1>2. g \in PageStates
  <2>1. Merge(view, FALSE) \in PageStates
    <3>1. \A same \in BOOLEAN : Merge(view, same) \in PageStates
      BY InvFacts, MergeOK
    <3> QED BY <3>1
  <2> QED BY <2>1, SyncOK
<1> HIDE DEF g
<1>3. \A p \in Providers : R(p).val \in Data
  <2> TAKE p \in Providers
  <2>1. PICK x \in Syncs : x.p = p
    BY DEF ResyncDone, Syncs, FooterInv, Paired
  <2>2. R(p) \in Syncs
    BY <2>1
  <2> HIDE DEF R
  <2>3. R(p) \in ProviderReads /\ R(p).val # "asked"
    BY <2>2 DEF ResyncDone, Syncs, FooterInv, Brings
  <2> QED BY <2>3 DEF ProviderReads
<1> HIDE DEF R
<1>4. \A n \in PageStates, p \in Providers : Seed(n, p) \in PageStates
  BY <1>3, HandleIncomingOK
<1> HIDE DEF Seed
<1>5. h \in PageStates
  BY <1>2, <1>4, SpotifyIsProvider
<1> HIDE DEF h
<1>6. e \in PageStates
  BY <1>5, ReconcileOK
<1> HIDE DEF e
<1>7. Timed(UpdatePlaybackUI(e)) /\ Settled(UpdatePlaybackUI(e))
  BY <1>6, UpdateUIOK
<1>8. Brings(reads \ Syncs) /\ Paired({} \union (reads \ Syncs))
  BY DEF FooterInv, Brings, Paired, Syncs
<1>9. Timed(view') /\ Committed /\ Brings(reads') /\ Paired(reads')
  BY <1>1, <1>7, <1>8, StepOK, InvFacts
<1>10. srv' = srv /\ due' \subseteq due /\ counts' = counts
  BY DEF ResyncDone
<1> QED BY <1>9, <1>10, PageKept, SameCounts

-----------------------------------------------------------------------------
(* The user's actions.                                                       *)

LEMMA PlayKeeps ==
  ASSUME FooterInv, Play
  PROVE  FooterKept
<1>1. PICK single \in BOOLEAN :
        Show(BumpPollGeneration(
                 [Downgrade(view) EXCEPT !.mode = "playing", !.hold = TRUE, !.takeover = FALSE,
                    !.lock = IF single THEN "match" ELSE "no", !.foot = "local", !.starting = "claimed"],
                 "spotify"), {}, reads)
  BY DEF Play
<1> DEFINE k == Downgrade(view)
           l == IF single THEN "match" ELSE "no"
           g == [k EXCEPT !.mode = "playing", !.hold = TRUE, !.takeover = FALSE,
                          !.lock = l, !.foot = "local", !.starting = "claimed"]
           b == BumpPollGeneration(g, "spotify")
<1>2. Show(b, {}, reads)
  BY <1>1
<1>3. k \in PageStates
  BY InvFacts, DowngradeOK
<1> HIDE DEF k
<1>4. l \in {"no", "other", "match"}
  OBVIOUS
<1> HIDE DEF l
<1>5. g \in PageStates
  BY <1>3, <1>4 DEF PageStates, Modes
<1> HIDE DEF g
<1>6. b \in PageStates
  BY <1>5, BumpOK, SpotifyIsProvider
<1> HIDE DEF b
<1>7. Timed(view') /\ Committed /\ Brings(reads') /\ Paired(reads')
  BY <1>2, <1>6, ShowOK, InvFacts
<1>8. CountsOK(counts') /\ srv' = srv /\ due' = due
  BY UserCounts DEF Play
<1> QED BY <1>7, <1>8, PageKept

LEMMA PlayRefsKeeps ==
  ASSUME FooterInv, PlayLibraryRefs
  PROVE  FooterKept
<1> DEFINE g == [view EXCEPT !.lock = "no", !.starting = "asked"]
<1>1. Step(g, {}, reads)
  BY DEF PlayLibraryRefs
<1>2. /\ g \in PageStates /\ g.timer = view.timer /\ g.data = view.data /\ g.foot = view.foot
      /\ g.tab = view.tab /\ g.owner = view.owner
  BY InvFacts DEF PageStates
<1> HIDE DEF g
<1>3. Timed(g)
  BY <1>2, InvFacts DEF Timed, Proper, ShouldPoll
<1>4. Timed(view') /\ Committed /\ Brings(reads') /\ Paired(reads')
  BY <1>1, <1>2, <1>3, StepOK, InvFacts DEF Committed
<1>5. CountsOK(counts') /\ srv' = srv /\ due' = due
  BY UserCounts DEF PlayLibraryRefs
<1> QED BY <1>4, <1>5, PageKept

LEMMA ToggleKeeps ==
  ASSUME FooterInv, TogglePlayback
  PROVE  FooterKept
<1> DEFINE n == IF view.mode = "playing" THEN "paused" ELSE "playing"
           g == [view EXCEPT !.mode = n, !.foot = "local"]
           b == BumpPollGeneration(g, "spotify")
<1>1. Show(b, {}, reads)
  BY DEF TogglePlayback
<1>2. n \in Modes
  BY DEF Modes
<1> HIDE DEF n
<1>3. g \in PageStates
  BY <1>2, InvFacts DEF PageStates
<1> HIDE DEF g
<1>4. b \in PageStates
  BY <1>3, BumpOK, SpotifyIsProvider
<1> HIDE DEF b
<1>5. Timed(view') /\ Committed /\ Brings(reads') /\ Paired(reads')
  BY <1>1, <1>4, ShowOK, InvFacts
<1>6. CountsOK(counts') /\ srv' = srv /\ due' = due
  BY UserCounts DEF TogglePlayback
<1> QED BY <1>5, <1>6, PageKept

LEMMA PlayAnsweredKeeps ==
  ASSUME FooterInv, PlayAnswered
  PROVE  FooterKept
<1>1. srv' = srv /\ due' = due /\ counts' = counts
  BY DEF PlayAnswered
<1>2. Timed(view') /\ Committed /\ Brings(reads') /\ Paired(reads')
  <2>1. CASE \E same \in BOOLEAN :
               Show(StopUnlessDue(SyncFooterOwnership(Downgrade(
                 [Merge(view, same) EXCEPT !.takeover = FALSE, !.starting = "no"])), "spotify"), {}, reads)
    <3>1. PICK same \in BOOLEAN :
               Show(StopUnlessDue(SyncFooterOwnership(Downgrade(
                 [Merge(view, same) EXCEPT !.takeover = FALSE, !.starting = "no"])), "spotify"), {}, reads)
      BY <2>1
    <3> DEFINE u == Merge(view, same)
               n == [u EXCEPT !.takeover = FALSE, !.starting = "no"]
               k == StopUnlessDue(SyncFooterOwnership(Downgrade(n)), "spotify")
    <3>2. Show(k, {}, reads)
      BY <3>1
    <3>3. u \in PageStates
      BY InvFacts, MergeOK
    <3> HIDE DEF u
    <3>4. n \in PageStates
      BY <3>3 DEF PageStates
    <3> HIDE DEF n
    <3>5. SyncFooterOwnership(Downgrade(n)) \in PageStates
      BY <3>4, DowngradeOK, SyncOK
    <3>6. k \in PageStates
      BY <3>5, StopUnlessDueOK, SpotifyIsProvider
    <3> HIDE DEF k
    <3> QED BY <3>2, <3>6, ShowOK, InvFacts
  <2>2. CASE Show([view EXCEPT !.mode = "failed", !.lock = "no", !.starting = "no"], {}, reads)
    <3> DEFINE k == [view EXCEPT !.mode = "failed", !.lock = "no", !.starting = "no"]
    <3>1. Show(k, {}, reads)
      BY <2>2
    <3>2. k \in PageStates
      BY InvFacts DEF PageStates, Modes
    <3> HIDE DEF k
    <3> QED BY <3>1, <3>2, ShowOK, InvFacts
  <2>3. CASE Step([view EXCEPT !.starting = "no"], {}, reads)
    <3> DEFINE k == [view EXCEPT !.starting = "no"]
    <3>1. Step(k, {}, reads)
      BY <2>3
    <3>2. k \in PageStates /\ k.timer = view.timer /\ k.data = view.data /\ k.foot = view.foot
      BY InvFacts DEF PageStates
    <3>3. k.tab = view.tab /\ k.owner = view.owner
      BY InvFacts DEF PageStates
    <3> HIDE DEF k
    <3>4. Timed(k)
      BY <3>2, <3>3, InvFacts DEF Timed, Proper, ShouldPoll
    <3> QED BY <3>1, <3>2, <3>4, StepOK, InvFacts DEF Committed
  <2> QED BY <2>1, <2>2, <2>3 DEF PlayAnswered
<1> QED BY <1>1, <1>2, PageKept, SameCounts

LEMMA SpotifyCommandKeeps ==
  ASSUME FooterInv, SpotifyCommand
  PROVE  FooterKept
<1> DEFINE g == [view EXCEPT !.takeover = TRUE, !.foot = "spotify", !.cmd = "current"]
<1>1. Step(g, {}, reads)
  BY DEF SpotifyCommand
<1>2. g \in PageStates /\ g.timer = view.timer /\ g.data = view.data /\ g.foot = "spotify"
  BY InvFacts, SpotifyIsProvider DEF PageStates
<1> HIDE DEF g
<1>3. Timed(g)
  BY <1>2, InvFacts DEF Timed, Proper
<1>4. Timed(view') /\ Brings(reads') /\ Paired(reads') /\ view'.foot = "spotify"
  BY <1>1, <1>2, <1>3, StepOK, InvFacts
<1>5. CountsOK(counts') /\ srv' = srv /\ due' = due
  BY UserCounts DEF SpotifyCommand
<1> QED BY <1>4, <1>5, PageKept

LEMMA SpotifyAnsweredKeeps ==
  ASSUME FooterInv, SpotifyAnswered
  PROVE  FooterKept
<1> DEFINE o == [view EXCEPT !.cmd = "no"]
           n == HandleIncoming(view, "spotify", srv.data["spotify"])
           g == [n EXCEPT !.cmd = "no"]
           h == StartPoll(g, "spotify")
           ask == {Read("spotify", "burst")}
<1>1. Step(o, {}, reads) \/ Step(g, ask, reads) \/ Step(h, ask, reads)
  BY DEF SpotifyAnswered
<1>2. o \in PageStates /\ o.timer = view.timer /\ o.data = view.data /\ o.foot = view.foot
  BY InvFacts DEF PageStates
<1> HIDE DEF o
<1>3. Timed(o)
  BY <1>2, InvFacts DEF Timed, Proper
<1>4. n \in PageStates /\ Timed(n) /\ Settled(n)
  BY InvFacts, HandleIncomingOK, SpotifyIsProvider
<1> HIDE DEF n
<1>5. /\ g \in PageStates /\ g.timer = n.timer /\ g.data = n.data /\ g.foot = n.foot
      /\ g.owner = n.owner /\ g.line = n.line
  BY <1>4 DEF PageStates
<1> HIDE DEF g
<1>6. Timed(g) /\ Settled(g)
  BY <1>4, <1>5 DEF Timed, Proper, Settled
<1>7. Timed(h) /\ h.line = g.line /\ h.owner = g.owner /\ h.foot = g.foot
  BY <1>6, StartPollOK, SpotifyIsProvider
<1> HIDE DEF h
<1>8. Settled(h)
  BY <1>6, <1>7 DEF Settled
<1>9. Brings(ask) /\ Paired(ask \union reads)
  BY ReadOK, InvFacts, SpotifyIsProvider DEF Brings, Paired
<1> HIDE DEF ask
<1>10. Timed(view') /\ Committed /\ Brings(reads') /\ Paired(reads')
  BY <1>1, <1>2, <1>3, <1>6, <1>7, <1>8, <1>9, StepOK, InvFacts
<1>11. srv' = srv /\ due' \subseteq due /\ counts' = counts
  BY DEF SpotifyAnswered
<1> QED BY <1>10, <1>11, PageKept, SameCounts

LEMMA QobuzCommandKeeps ==
  ASSUME FooterInv, QobuzCommand
  PROVE  FooterKept
<1> DEFINE ask == {Read("qobuz", "tab")}
<1>1. Step(view, ask, reads)
  BY DEF QobuzCommand
<1>2. Brings(ask) /\ Paired(ask \union reads)
  BY ReadOK, InvFacts, SpotifyIsProvider DEF Brings, Paired
<1> HIDE DEF ask
<1>3. Timed(view') /\ Committed /\ Brings(reads') /\ Paired(reads')
  BY <1>1, <1>2, StepOK, InvFacts
<1>4. CountsOK(counts') /\ srv' = srv /\ due' = due
  BY UserCounts DEF QobuzCommand
<1> QED BY <1>3, <1>4, PageKept

LEMMA ShowTabOK ==
  ASSUME NEW g, Timed(g), NEW t \in {"other"} \union Providers
  PROVE  Timed(ShowTab(g, t)) /\ ShowTab(g, t).foot = g.foot
<1> DEFINE h == [g EXCEPT !.tab = t]
           k == IF t = "spotify" THEN StartPoll(h, t)
                ELSE IF h.foot # "spotify" THEN StopPoll(h, "spotify") ELSE h
           e == IF t = "qobuz" THEN StartPoll(k, t)
                ELSE IF k.foot # "qobuz" /\ k.owner # "qobuz" THEN StopPoll(k, "qobuz") ELSE k
<1>1. ShowTab(g, t) = e
  BY DEF ShowTab
<1>2. h \in PageStates /\ h.timer = g.timer /\ h.data = g.data /\ h.foot = g.foot
  BY DEF PageStates, Timed, Proper
<1> HIDE DEF h
<1>3. Timed(h)
  BY <1>2 DEF Timed, Proper
<1>4. \A n : \A p \in Providers :
        Timed(n) => /\ Timed(StopPoll(n, p)) /\ StopPoll(n, p).foot = n.foot
                    /\ Timed(StartPoll(n, p)) /\ StartPoll(n, p).foot = n.foot
  <2> SUFFICES ASSUME NEW n, NEW p \in Providers, Timed(n)
               PROVE  /\ Timed(StopPoll(n, p)) /\ StopPoll(n, p).foot = n.foot
                      /\ Timed(StartPoll(n, p)) /\ StartPoll(n, p).foot = n.foot
    OBVIOUS
  <2>1. Proper(n) /\ \A q \in Providers \ {p} : n.timer[q] # "dead"
    BY DEF Timed
  <2>2. Timed(StopPoll(n, p)) /\ StopPoll(n, p).foot = n.foot
    BY <2>1, StopPollOK
  <2>3. Timed(StartPoll(n, p)) /\ StartPoll(n, p).foot = n.foot
    BY StartPollOK
  <2> QED BY <2>2, <2>3
<1>5. Timed(k) /\ k.foot = h.foot
  BY <1>3, <1>4, SpotifyIsProvider
<1> HIDE DEF k
<1>6. Timed(e) /\ e.foot = k.foot
  BY <1>4, <1>5, SpotifyIsProvider
<1> HIDE DEF e
<1> QED BY <1>1, <1>2, <1>5, <1>6

LEMMA SwitchTabKeeps ==
  ASSUME FooterInv, NEW t \in {"other"} \union Providers, SwitchTab(t)
  PROVE  FooterKept
<1> DEFINE g == ShowTab(view, t)
           ask == {Read(p, "tab") : p \in {t} \intersect Providers}
<1>1. Step(g, ask, reads)
  BY DEF SwitchTab
<1>2. Timed(g) /\ g.foot = view.foot
  BY InvFacts, ShowTabOK
<1> HIDE DEF g
<1>3. Brings(ask) /\ Paired(ask \union reads)
  <2>1. \A r \in ask : r \in ProviderReads /\ r.val # "null" /\ r.kind = "tab"
    BY ReadOK
  <2> HIDE DEF ask
  <2> QED BY <2>1, InvFacts DEF Brings, Paired
<1> HIDE DEF ask
<1>4. Timed(view') /\ Committed /\ Brings(reads') /\ Paired(reads')
  BY <1>1, <1>2, <1>3, StepOK, InvFacts
<1>5. CountsOK(counts') /\ srv' = srv /\ due' = due
  BY UserCounts DEF SwitchTab
<1> QED BY <1>4, <1>5, PageKept

LEMMA SourceModeKeeps ==
  ASSUME FooterInv, SourceMode
  PROVE  FooterKept
<1> DEFINE l == ~view.line
           g == [view EXCEPT !.line = l]
           h == ShowTab(g, "other")
<1>1. Step(g, {}, reads) \/ Step(h, {}, reads)
  BY DEF SourceMode
<1>2. l \in BOOLEAN
  BY Zenon
<1> HIDE DEF l
<1>3. g \in PageStates /\ g.timer = view.timer /\ g.data = view.data /\ g.foot = view.foot
  BY <1>2, InvFacts DEF PageStates
<1> HIDE DEF g
<1>4. Timed(g)
  BY <1>3, InvFacts DEF Timed, Proper
<1>5. Timed(h) /\ h.foot = g.foot
  BY <1>4, ShowTabOK
<1> HIDE DEF h
<1>6. Timed(view') /\ Committed /\ Brings(reads') /\ Paired(reads')
  BY <1>1, <1>3, <1>4, <1>5, StepOK, InvFacts
<1>7. CountsOK(counts') /\ srv' = srv /\ due' = due
  BY UserCounts DEF SourceMode
<1> QED BY <1>6, <1>7, PageKept

LEMMA WindowEndsKeeps ==
  ASSUME FooterInv, WindowEnds
  PROVE  FooterKept
<1>1. view' \in PageStates /\ view'.timer = view.timer /\ view'.data = view.data /\ view'.foot = view.foot
  <2>1. \/ view' = [view EXCEPT !.takeover = FALSE] \/ view' = [view EXCEPT !.hold = FALSE]
        \/ view' = [view EXCEPT !.lock = "no"]
    BY DEF WindowEnds
  <2>2. view \in PageStates
    BY InvFacts
  <2> QED BY <2>1, <2>2 DEF PageStates
<1>2. Timed(view') /\ Committed
  BY <1>1, InvFacts DEF Timed, Proper, Committed
<1>3. srv' = srv /\ due' = due /\ counts' = counts /\ reads' = reads
  BY DEF WindowEnds
<1> QED BY <1>2, <1>3, PageKept, SameCounts, InvFacts

-----------------------------------------------------------------------------
(* The server and the connection.                                            *)

LEMMA ChangeKeeps ==
  ASSUME FooterInv, Change
  PROVE  FooterKept
<1>1. view' = view /\ reads' = reads /\ due' \subseteq {"init", "playback"} \union Providers
  BY DEF Change, FooterInv, FooterTypeOK
<1>2. Timed(view') /\ Committed /\ Brings(reads') /\ Paired(reads')
  BY <1>1, InvFacts DEF Committed
<1>3. CountsOK(counts')
  <2>1. CountsOK(counts)
    BY CountsSplit DEF FooterInv
  <2>2. counts' = [counts EXCEPT !.changes = @ + 1] /\ counts.changes < counts.max.changes
    BY DEF Change
  <2>3. counts.max \in [changes : Nat, user : Nat, fails : Nat, miss : BOOLEAN]
    BY <2>1, FooterAssumption DEF CountsOK
  <2> QED BY <2>1, <2>2, <2>3 DEF CountsOK
<1>4. /\ srv' \in [owner : Owners, mode : Modes, data : [Providers -> Data]]
      /\ \A p \in Providers : srv'.data[p] # "null"
  <2>1. CASE \E o \in Owners, n \in Modes : srv' = [srv EXCEPT !.owner = o, !.mode = n]
    BY <2>1, InvFacts
  <2>2. CASE \E p \in Providers, d \in Status : srv' = [srv EXCEPT !.data[p] = d]
    <3>1. PICK p \in Providers, d \in Status : srv' = [srv EXCEPT !.data = [@ EXCEPT ![p] = d]]
      BY <2>2
    <3>2. d \in Data /\ d # "null"
      BY DEF Data, Status
    <3> DEFINE n == [srv.data EXCEPT ![p] = d]
    <3>3. n \in [Providers -> Data] /\ \A q \in Providers : n[q] # "null"
      BY <3>2, InvFacts
    <3>4. srv' = [srv EXCEPT !.data = n]
      BY <3>1
    <3> HIDE DEF n
    <3> QED BY <3>3, <3>4, InvFacts
  <2> QED BY <2>1, <2>2 DEF Change
<1> QED BY <1>1, <1>2, <1>3, <1>4, KeptFrom

LEMMA ConnectionKeeps ==
  ASSUME FooterInv, Miss \/ Reconnect \/ UNCHANGED footerVars
  PROVE  FooterKept
<1>1. /\ view' = view /\ reads' = reads /\ srv' = srv /\ counts' = counts
      /\ due' \subseteq {"init", "playback"} \union Providers
  BY DEF Miss, Reconnect, footerVars, FooterInv, FooterTypeOK
<1>2. Timed(view') /\ Committed /\ Brings(reads') /\ Paired(reads')
  BY <1>1, InvFacts DEF Committed
<1>3. /\ srv' \in [owner : Owners, mode : Modes, data : [Providers -> Data]]
      /\ \A p \in Providers : srv'.data[p] # "null"
  BY <1>1, InvFacts
<1> QED BY <1>1, <1>2, <1>3, KeptFrom, SameCounts

LEMMA FooterStarts ==
  ASSUME FooterInit
  PROVE  FooterInv
<1>1. PICK o \in Owners :
        srv = [owner |-> o, mode |-> "none", data |-> [p \in Providers |-> "stopped"]]
  BY DEF FooterInit
<1>2. PICK i \in FooterInstances : counts = [changes |-> 0, user |-> 0, fails |-> 0, max |-> i]
  BY DEF FooterInit
<1>3. /\ srv \in [owner : Owners, mode : Modes, data : [Providers -> Data]]
      /\ \A p \in Providers : srv.data[p] # "null"
  BY <1>1 DEF Modes, Data, Status
<1>4. CountsOK(counts)
  BY <1>2, FooterAssumption DEF CountsOK
<1> DEFINE ds == [p \in Providers |-> "null"]
           ts == [p \in Providers |-> "off"]
<1>5. ds \in [Providers -> Data] /\ ts \in [Providers -> {"off", "live", "dead"}]
      /\ \A p \in Providers : ts[p] = "off"
  BY DEF Data
<1>6. view = [owner |-> "none", mode |-> "none", data |-> ds, foot |-> "local", tab |-> "other",
              takeover |-> FALSE, hold |-> FALSE, lock |-> "no", line |-> FALSE, timer |-> ts,
              cmd |-> "no", starting |-> "no", bumped |-> {}, got |-> {}]
  BY DEF FooterInit
<1> HIDE DEF ds, ts
<1>7. Timed(view)
  BY <1>5, <1>6 DEF Timed, Proper, PageStates, Owners, Modes
<1>8. reads = {Read("spotify", "init")} /\ due = {"init"}
  BY DEF FooterInit
<1>9. Brings(reads) /\ Paired(reads)
  BY <1>8, ReadOK, SpotifyIsProvider DEF Brings, Paired
<1>10. FooterTypeOK
  <2>1. counts \in [changes : Nat, user : Nat, fails : Nat, max : FooterInstances]
        /\ \A x \in {"changes", "user", "fails"} : counts[x] <= counts.max[x]
    <3>1. counts \in [changes : Nat, user : Nat, fails : Nat, max : FooterInstances]
      BY <1>4 DEF CountsOK
    <3> QED BY <1>4, <3>1, CountsMeant
  <2>2. view \in PageStates /\ (\A p \in Providers : view.timer[p] # "off" => view.data[p] # "null")
        /\ reads \subseteq ProviderReads
    BY <1>7, <1>9 DEF Timed, Proper, Brings
  <2> QED BY <1>3, <1>8, <2>1, <2>2 DEF FooterTypeOK
<1> QED BY <1>3, <1>7, <1>9, <1>10 DEF FooterInv

LEMMA FooterNextKeeps ==
  ASSUME FooterInv, [FooterNext]_footerVars
  PROVE  FooterKept
<1>1. CASE FooterUser
  BY <1>1, PlayKeeps, PlayRefsKeeps, ToggleKeeps, SpotifyCommandKeeps, QobuzCommandKeeps, SourceModeKeeps,
     SwitchTabKeeps DEF FooterUser
<1>2. CASE Change \/ Miss \/ Reconnect \/ UNCHANGED footerVars
  BY <1>2, ChangeKeeps, ConnectionKeeps
<1>3. CASE \/ WindowEnds \/ PlayAnswered \/ SpotifyAnswered
           \/ OnPlayback \/ FetchMetadata \/ OnInit \/ ResyncDone
  BY <1>3, WindowEndsKeeps, PlayAnsweredKeeps, SpotifyAnsweredKeeps, OnPlaybackKeeps, FetchKeeps,
     OnInitKeeps, ResyncDoneKeeps
<1>4. CASE \E p \in Providers : OnProvider(p) \/ PollTick(p)
  BY <1>4, OnProviderKeeps, PollTickKeeps
<1>5. CASE \E r \in reads : Answer(r) \/ Fail(r) \/ ReadDone(r)
  BY <1>5, AnswerKeeps, ReadDoneKeeps
<1> QED BY <1>1, <1>2, <1>3, <1>4, <1>5 DEF FooterNext

\* For any number of changes, user actions, failed reads and missed broadcasts: the types, no timer
\* without the provider's data, and no poll that is needed behind a timer whose generation is over.
THEOREM FooterAlwaysSafe ==
  FooterSpec => []FooterSafe
<1>1. FooterInit => FooterInv
  BY FooterStarts
<1>2. FooterInv /\ [FooterNext]_footerVars => FooterInv'
  BY FooterNextKeeps DEF FooterKept
<1>3. FooterInv => FooterSafe
  BY DEF FooterInv, Timed, FooterSafe, NoDeadPoll
<1> QED BY <1>1, <1>2, <1>3, PTL DEF FooterSpec

\* Whatever handler moves the footer while no line source is shown, it moves it to the owner that the
\* backend has committed, if there is one; only a Spotify command goes ahead of it.
THEOREM CommittedOwnerAlwaysWins ==
  FooterSpec => CommittedOwnerWins
<1>1. FooterInit => FooterInv
  BY FooterStarts
<1>2. FooterInv /\ [FooterNext]_footerVars => FooterInv'
  BY FooterNextKeeps DEF FooterKept
<1>3. FooterInv /\ [FooterNext]_footerVars =>
        [view'.foot # view.foot /\ ~view'.line /\ view'.owner # "none"
           => view'.foot = view'.owner \/ (view'.foot = "spotify" /\ SpotifyCommand)]_view
  BY FooterNextKeeps DEF FooterKept, Committed, Settled
<1> QED BY <1>1, <1>2, <1>3, PTL DEF FooterSpec, CommittedOwnerWins
=============================================================================
