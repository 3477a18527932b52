---------------------------- MODULE SrcWorkerProof ----------------------------
(***************************************************************************)
(* InOrder and Complete of SrcWorker, for any size of the rings, blocks    *)
(* and pipes and any number of frames and generations.                     *)
(***************************************************************************)
EXTENDS SrcWorker, SequenceTheorems, TLAPS

-----------------------------------------------------------------------------
(* Frames in sequences and rings *)

\* The frames of s are those of generation g from position b on.
Run(s, g, b) == \A k \in 1..Len(s) : s[k] = <<g, b + k>>

RingOK(r) ==
  /\ r \in [read : Nat, write : Nat, data : [0..Capacity - 1 -> Frames]]
  /\ r.read <= r.write /\ r.write <= MaxFrames /\ r.write - r.read <= Capacity

\* The published frames of ring r are those of generation g.
Holds(r, g) == \A i \in r.read..r.write - 1 : r.data[i % Capacity] = <<g, i + 1>>

\* The frames of s are behind the write index of r.
Written(r, s) == \A k \in 1..Len(s) : r.data[(r.write + k - 1) % Capacity] = s[k]

-----------------------------------------------------------------------------
(* The inductive invariant *)

Fetching   == wpc = "fetched"
Delivering == wpc \in {"ring-copy", "ring-publish"}

\* The generation the worker's frames belong to.
OutGen == IF profile = "bypass" THEN generation ELSE wgen

WordsOK ==
  /\ profile \in Profiles
  /\ generation \in 1..MaxGen /\ acknowledged \in 0..MaxGen
  /\ eof \in 0..MaxGen /\ done \in 0..MaxGen /\ error \in BOOLEAN /\ stop \in BOOLEAN
  /\ cpc \in {"idle", "push", "pushed", "pull", "reset", "join", "freed"}
  /\ wpc \in {"none", "top", "clear", "start", "fetch", "fetched", "look", "look-input",
              "process", "read", "ring-copy", "ring-publish", "settle", "exit"}
  /\ wgen \in 0..MaxGen /\ room \in 0..Capacity /\ weof \in BOOLEAN
  /\ child \in [state : {"none", "running", "exited", "crashed"}, in : BOOLEAN, out : BOOLEAN]
  /\ pushed \in 0..MaxFrames

FramesOK ==
  /\ RingOK(input) /\ RingOK(output)
  /\ batch \in Seq(Frames) /\ stage \in Seq(Frames) /\ made \in Seq(Frames)
  /\ engine \in Seq(Frames) /\ got \in Seq(Frames)

\* The worker acknowledges a generation after it has cleared the older one; until then
\* the caller has nothing in hand and nothing of the new one.
GenInv ==
  /\ IF profile = "bypass" THEN wpc = "none" /\ acknowledged = generation
     ELSE /\ wpc # "none" /\ wgen <= generation
          /\ IF wpc \in {"clear", "start"} THEN acknowledged < wgen ELSE acknowledged = wgen
  /\ ~Ready => cpc \notin {"push", "pushed", "pull"} /\ pushed = 0 /\ got = <<>>
  /\ profile # "sox" => child.state = "none"
  /\ cpc = "reset" => generation < MaxGen

\* What the caller has in hand, and what it knows of the rings.
CallerInv ==
  /\ cpc \in {"push", "pushed"} =>
       /\ Run(batch, generation, pushed) /\ pushed + Len(batch) <= MaxFrames
       /\ Available(Target) + Len(batch) <= Capacity
  /\ cpc = "pushed" => Written(Target, batch)
  /\ cpc = "pull" => Run(batch, generation, output.read) /\ Len(batch) <= Available(output)
  /\ Run(got, generation, 0)
  /\ Ready => Target.write = pushed /\ output.read = Len(got)

\* The room the worker has seen is still there, and what it delivers fits.
RoomInv ==
  /\ wpc \in {"look-input", "process", "read", "ring-copy", "ring-publish"} =>
       room <= Capacity - Available(output)
  /\ Delivering => Len(made) <= room
  /\ wpc = "ring-publish" => Written(output, made)
  /\ Fetching => Len(stage) <= Available(input)
  /\ wpc = "start" => input.write = 0 /\ output.read = 0

\* Frames that the engine was given, and that it has given back.
Taken == IF Fetching THEN input.read ELSE input.read - Len(stage)
Given == IF Delivering THEN output.write + Len(made) ELSE output.write

\* The frames on their way through the worker: in order, none twice, and none missing
\* unless SoX crashed.
PipeInv ==
  /\ Holds(output, OutGen)
  /\ profile # "bypass" =>
       /\ Holds(input, wgen)
       /\ Run(stage, wgen, Taken) /\ Run(engine, wgen, Given)
       /\ Delivering => Run(made, wgen, output.write)
       /\ Given + Len(engine) <= Taken
       /\ (child.state # "crashed" /\ wpc # "exit") => Given + Len(engine) = Taken

SafeInv == WordsOK /\ FramesOK /\ GenInv /\ CallerInv /\ RoomInv /\ (wpc # "clear" => PipeInv)

\* Nothing more is pushed in the worker's generation.
Closed == wgen < generation \/ eof = generation \/ cpc = "reset"

\* The caller's end mark.
MarkInv ==
  /\ eof <= generation /\ (eof = generation => cpc \notin {"push", "pushed", "reset"})
  /\ stop => cpc \in {"join", "freed"}
  /\ wpc = "exit" => stop

\* The end mark and the empty input behind it.
SeenAll == Closed /\ stage = <<>> /\ input.read = input.write

\* SoX gets its end of file when the worker has seen the end, and its output is read to
\* the end before it is closed.
ChildInv ==
  /\ profile = "sox" /\ child.state = "none" =>
       \/ wpc \in {"clear", "start", "exit"}
       \/ wpc = "top" /\ (error \/ wgen = 0)
  /\ (child.state # "none" /\ wpc # "clear") =>
       /\ ~child.in => SeenAll
       /\ ~child.out => child.state # "running" /\ engine = <<>>
       /\ child.state = "exited" => ~child.in

\* A generation is done when everything that was pushed in it has been delivered.
DoneInv ==
  /\ wpc = "look-input" /\ weof => Closed
  /\ wpc \in {"process", "read", "ring-copy", "ring-publish", "settle"} /\ weof => SeenAll
  /\ wpc = "settle" /\ profile = "low" /\ weof /\ made = <<>> => engine = <<>>
  /\ Delivering => made # <<>>
  /\ wpc = "read" => profile = "sox"
  /\ done <= wgen /\ (wpc = "clear" => done < wgen) /\ (wpc = "start" => done = 0)
  /\ done = wgen /\ wgen > 0 =>
       wpc \in {"top", "exit"} /\ (~error => Closed /\ output.write = input.write)

EndInv == MarkInv /\ (profile # "bypass" => ChildInv /\ DoneInv)

-----------------------------------------------------------------------------
(* Indices and slots *)

LEMMA ConstOK ==
  /\ Capacity \in Nat /\ Capacity > 0 /\ Block \in Nat /\ Block > 0 /\ Pipe \in Nat
  /\ MaxGen \in Nat /\ MaxFrames \in Nat /\ "none" \notin Profiles
  /\ Profiles \subseteq {"bypass", "low", "sox"}
  BY SrcAssumption

LEMMA LeastOf ==
  ASSUME NEW a \in Nat, NEW b \in Nat
  PROVE  Least(a, b) \in Nat /\ Least(a, b) <= a /\ Least(a, b) <= b
  BY DEF Least

\* A position behind the published frames, counted from the end of a ring of n slots.
LEMMA FromTheEnd ==
  ASSUME NEW n \in Nat, NEW a \in Nat, NEW w \in Nat, NEW k \in Nat, NEW i \in a..(w - 1),
         w - a + k <= n
  PROVE  /\ i \in Nat /\ i - w + n \in 0..(n - 1) /\ i - w = (i - w + n) - n
         /\ ~((i - w + n) + 1 <= k)
<1>1. i \in Nat /\ a <= i /\ i < w
  OBVIOUS
<1>2. i - w + n \in Int /\ i - w + n >= 0 /\ i - w + n < n
  BY <1>1
<1>3. ~((i - w + n) + 1 <= k)
  BY <1>1
<1>4. i - w = (i - w + n) - n
  BY <1>1
<1> QED BY <1>1, <1>2, <1>3, <1>4

LEMMA DivMod ==
  ASSUME NEW x \in Int, NEW n \in Nat, n > 0
  PROVE  x = n * (x \div n) + (x % n) /\ x \div n \in Int /\ x % n \in 0..(n - 1)
<1>1. x = n * (x \div n) + (x % n)
  OBVIOUS
<1>2. x % n \in 0..(n - 1)
  OBVIOUS
<1>3. x \div n \in Int
  OBVIOUS
<1> QED BY <1>1, <1>2, <1>3

LEMMA NoMultiple ==
  ASSUME NEW k \in Int, NEW n \in Nat, n > 0, -n < k * n, k * n < n
  PROVE  k = 0
  OBVIOUS

LEMMA ModUnique ==
  ASSUME NEW n \in Nat, n > 0, NEW q \in Int, NEW p \in Int,
         NEW r \in 0..(n - 1), NEW s \in 0..(n - 1), n * q + r = n * p + s
  PROVE  r = s
<1>1. (q - p) * n = s - r
  OBVIOUS
<1>2. q - p = 0
  BY <1>1, NoMultiple
<1> QED BY <1>1, <1>2

\* The slot of index i is d slots behind the one of index w.
LEMMA SlotDistance ==
  ASSUME NEW i \in Nat, NEW w \in Nat, NEW n \in Nat, n > 0, NEW d \in 0..(n - 1),
         i - w = d \/ i - w = d - n
  PROVE  ((i % n) - w) % n = d
<1> DEFINE j == i % n
           q == i \div n
<1>1. i = n * q + j /\ q \in Int /\ j \in 0..(n - 1)
  BY DivMod
<1> HIDE DEF j, q
<1> DEFINE p == (j - w) \div n
           e == (j - w) % n
<1>2. j - w \in Int
  BY <1>1
<1>3. j - w = n * p + e /\ p \in Int /\ e \in 0..(n - 1)
  BY <1>2, DivMod
<1> HIDE DEF p, e
<1>4. i - w = n * (q + p) + e
  BY <1>1, <1>3
<1>5. d = n * 0 + d /\ d - n = n * (-1) + d
  OBVIOUS
<1>6. q + p \in Int /\ -1 \in Int /\ 0 \in Int
  BY <1>1, <1>3
<1>7. e = d
  <2>1. CASE i - w = d
    <3> DEFINE a == q + p
    <3>1. a \in Int /\ 0 \in Int /\ n * a + e = n * 0 + d
      BY <1>4, <1>5, <1>6, <2>1
    <3> HIDE DEF a
    <3> QED BY <1>3, <3>1, ModUnique
  <2>2. CASE i - w = d - n
    <3> DEFINE a == q + p
    <3>1. a \in Int /\ -1 \in Int /\ n * a + e = n * (-1) + d
      BY <1>4, <1>5, <1>6, <2>2
    <3> HIDE DEF a
    <3> QED BY <1>3, <3>1, ModUnique
  <2> QED BY <2>1, <2>2
<1> QED BY <1>7 DEF e, j

\* A copy into a ring with room for it keeps what is published, and is behind it.
LEMMA PutOK ==
  ASSUME NEW r, RingOK(r), NEW s \in Seq(Frames), Available(r) + Len(s) <= Capacity
  PROVE  /\ RingOK(Put(r, s)) /\ Put(r, s).read = r.read /\ Put(r, s).write = r.write
         /\ Written(Put(r, s), s)
         /\ \A g : Holds(r, g) => Holds(Put(r, s), g)
<1> DEFINE k(i) == ((i - r.write) % Capacity) + 1
           d == [i \in 0..Capacity - 1 |-> IF k(i) <= Len(s) THEN s[k(i)] ELSE r.data[i]]
           q == [r EXCEPT !.data = d]
<1>1. /\ r.read \in Nat /\ r.write \in Nat /\ r.data \in [0..Capacity - 1 -> Frames]
      /\ r.read <= r.write /\ r.write - r.read + Len(s) <= Capacity /\ Len(s) \in Nat
      /\ Capacity \in Nat /\ Capacity > 0
  BY ConstOK DEF RingOK, Available
<1>2. d \in [0..Capacity - 1 -> Frames]
  <2> SUFFICES ASSUME NEW i \in 0..Capacity - 1
               PROVE  (IF k(i) <= Len(s) THEN s[k(i)] ELSE r.data[i]) \in Frames
    OBVIOUS
  <2>1. k(i) \in Nat /\ k(i) >= 1
    <3>1. i - r.write \in Int
      BY <1>1
    <3>2. (i - r.write) % Capacity \in 0..Capacity - 1
      BY <1>1, <3>1, DivMod
    <3> QED BY <1>1, <3>2
  <2> HIDE DEF k
  <2>2. CASE k(i) <= Len(s)
    BY <1>1, <2>1, <2>2, ElementOfSeq
  <2>3. CASE ~(k(i) <= Len(s))
    BY <1>1, <2>3
  <2> QED BY <2>2, <2>3
<1>3. \A i \in r.read..r.write - 1 : d[i % Capacity] = r.data[i % Capacity]
  <2> SUFFICES ASSUME NEW i \in r.read..r.write - 1
               PROVE  d[i % Capacity] = r.data[i % Capacity]
    OBVIOUS
  <2> DEFINE e == i - r.write + Capacity
  <2>1. i \in Nat /\ e \in 0..Capacity - 1 /\ i - r.write = e - Capacity /\ ~(e + 1 <= Len(s))
    BY <1>1, FromTheEnd
  <2>2. i % Capacity \in 0..Capacity - 1
    BY <1>1, <2>1, DivMod
  <2>3. ((i % Capacity) - r.write) % Capacity = e
    BY <1>1, <2>1, SlotDistance
  <2>4. ~(k(i % Capacity) <= Len(s))
    BY <2>1, <2>3
  <2> HIDE DEF e, k
  <2> QED BY <2>2, <2>4
<1>4. \A m \in 1..Len(s) : d[(r.write + m - 1) % Capacity] = s[m]
  <2> SUFFICES ASSUME NEW m \in 1..Len(s)
               PROVE  d[(r.write + m - 1) % Capacity] = s[m]
    OBVIOUS
  <2> DEFINE i == r.write + m - 1
             e == m - 1
  <2>1. i \in Nat /\ e \in 0..Capacity - 1 /\ i - r.write = e /\ e + 1 = m
    BY <1>1
  <2> HIDE DEF i, e
  <2>2. i % Capacity \in 0..Capacity - 1
    BY <1>1, <2>1, DivMod
  <2>3. ((i % Capacity) - r.write) % Capacity = e
    BY <1>1, <2>1, SlotDistance
  <2>4. k(i % Capacity) = m
    BY <2>1, <2>3
  <2>5. d[i % Capacity] = s[m]
    <3> HIDE DEF k
    <3> QED BY <2>2, <2>4
  <2> QED BY <2>5 DEF i
<1>5. Put(r, s) = q
  BY DEF Put
<1> HIDE DEF d
<1>6. /\ q \in [read : Nat, write : Nat, data : [0..Capacity - 1 -> Frames]]
      /\ q.read = r.read /\ q.write = r.write /\ q.data = d
  BY <1>2 DEF RingOK
<1> HIDE DEF q
<1>7. RingOK(q)
  BY <1>1, <1>6 DEF RingOK
<1>8. Written(q, s)
  BY <1>4, <1>6 DEF Written
<1>9. \A g : Holds(r, g) => Holds(q, g)
  BY <1>3, <1>6 DEF Holds
<1> QED BY <1>5, <1>6, <1>7, <1>8, <1>9

\* The frames read from a ring are the next ones of its generation.
LEMMA GetOK ==
  ASSUME NEW r, RingOK(r), NEW n \in 0..Available(r)
  PROVE  /\ Get(r, n) \in Seq(Frames) /\ Len(Get(r, n)) = n
         /\ \A g : Holds(r, g) => Run(Get(r, n), g, r.read)
<1> DEFINE s == [k \in 1..n |-> r.data[(r.read + k - 1) % Capacity]]
<1>1. /\ r.read \in Nat /\ r.write \in Nat /\ r.data \in [0..Capacity - 1 -> Frames]
      /\ r.read <= r.write /\ n \in Nat /\ n <= r.write - r.read /\ Capacity \in Nat /\ Capacity > 0
  BY ConstOK DEF RingOK, Available
<1>2. \A k \in 1..n : r.data[(r.read + k - 1) % Capacity] \in Frames
  <2> SUFFICES ASSUME NEW k \in 1..n PROVE r.data[(r.read + k - 1) % Capacity] \in Frames
    OBVIOUS
  <2>1. r.read + k - 1 \in Int
    BY <1>1
  <2>2. (r.read + k - 1) % Capacity \in 0..Capacity - 1
    BY <1>1, <2>1, DivMod
  <2> QED BY <1>1, <2>2
<1>3. s \in Seq(Frames) /\ Len(s) = n
  BY <1>1, <1>2
<1>4. ASSUME NEW g, Holds(r, g) PROVE Run(s, g, r.read)
  <2> SUFFICES ASSUME NEW k \in 1..n PROVE s[k] = <<g, r.read + k>>
    BY <1>3 DEF Run
  <2>1. r.read + k - 1 \in r.read..r.write - 1 /\ (r.read + k - 1) + 1 = r.read + k
    BY <1>1
  <2> QED BY <1>4, <2>1 DEF Holds
<1> QED BY <1>3, <1>4 DEF Get

\* The reader gives slots back.
LEMMA ReadOK ==
  ASSUME NEW r, RingOK(r), NEW n \in 0..Available(r), NEW q, q = [r EXCEPT !.read = @ + n]
  PROVE  /\ RingOK(q) /\ q.read = r.read + n /\ q.write = r.write
         /\ \A g : Holds(r, g) => Holds(q, g)
         /\ \A s : Written(r, s) => Written(q, s)
<1>1. /\ r.read \in Nat /\ r.write \in Nat /\ r.read <= r.write /\ n \in Nat /\ n <= r.write - r.read
      /\ r.write <= MaxFrames /\ r.write - r.read <= Capacity /\ MaxFrames \in Nat /\ Capacity \in Nat
  BY ConstOK DEF RingOK, Available
<1> DEFINE m == r.read + n
<1>2. m \in Nat /\ r.read <= m /\ m <= r.write /\ r.write - m <= Capacity
  BY <1>1
<1>3. q = [r EXCEPT !.read = m]
  OBVIOUS
<1> HIDE DEF m
<1>4. /\ q \in [read : Nat, write : Nat, data : [0..Capacity - 1 -> Frames]]
      /\ q.read = m /\ q.write = r.write /\ q.data = r.data
  BY <1>2, <1>3 DEF RingOK
<1>5. RingOK(q)
  BY <1>1, <1>2, <1>4 DEF RingOK
<1>6. \A g : Holds(r, g) => Holds(q, g)
  BY <1>1, <1>2, <1>4 DEF Holds
<1>7. \A s : Written(r, s) => Written(q, s)
  BY <1>4 DEF Written
<1> QED BY <1>4, <1>5, <1>6, <1>7 DEF m

\* The writer publishes what it has copied.
LEMMA PublishOK ==
  ASSUME NEW r, RingOK(r), NEW s \in Seq(Frames), Available(r) + Len(s) <= Capacity,
         r.write + Len(s) <= MaxFrames, NEW q, q = [r EXCEPT !.write = @ + Len(s)]
  PROVE  /\ RingOK(q) /\ q.read = r.read /\ q.write = r.write + Len(s)
         /\ \A g : Holds(r, g) /\ Written(r, s) /\ Run(s, g, r.write) => Holds(q, g)
<1>1. /\ r.read \in Nat /\ r.write \in Nat /\ r.read <= r.write /\ Len(s) \in Nat
      /\ r.write - r.read + Len(s) <= Capacity /\ MaxFrames \in Nat /\ Capacity \in Nat
  BY ConstOK DEF RingOK, Available
<1> DEFINE m == r.write + Len(s)
<1>2. m \in Nat /\ r.read <= m /\ m <= MaxFrames /\ m - r.read <= Capacity
  BY <1>1
<1>3. q = [r EXCEPT !.write = m]
  OBVIOUS
<1> HIDE DEF m
<1>4. /\ q \in [read : Nat, write : Nat, data : [0..Capacity - 1 -> Frames]]
      /\ q.read = r.read /\ q.write = m /\ q.data = r.data
  BY <1>2, <1>3 DEF RingOK
<1>5. RingOK(q)
  BY <1>1, <1>2, <1>4 DEF RingOK
<1>6. ASSUME NEW g, Holds(r, g), Written(r, s), Run(s, g, r.write) PROVE Holds(q, g)
  <2> SUFFICES ASSUME NEW i \in r.read..m - 1 PROVE r.data[i % Capacity] = <<g, i + 1>>
    BY <1>4 DEF Holds
  <2>1. CASE i < r.write
    <3>1. i \in r.read..r.write - 1
      BY <1>1, <1>2, <2>1
    <3> QED BY <1>6, <3>1 DEF Holds
  <2>2. CASE i >= r.write
    <3> DEFINE k == i - r.write + 1
    <3>1. k \in 1..Len(s) /\ r.write + k - 1 = i /\ r.write + k = i + 1
      <4>1. i \in Nat /\ i < r.write + Len(s) /\ r.write \in Nat /\ Len(s) \in Nat
        BY <1>1, <1>2 DEF m
      <4>2. k \in Nat /\ 1 <= k /\ k <= Len(s)
        BY <2>2, <4>1
      <4>3. r.write + k - 1 = i /\ r.write + k = i + 1
        BY <4>1
      <4> HIDE DEF k
      <4> QED BY <4>1, <4>2, <4>3
    <3> HIDE DEF k
    <3>2. r.data[(r.write + k - 1) % Capacity] = s[k] /\ s[k] = <<g, r.write + k>>
      BY <1>6, <3>1 DEF Written, Run
    <3> QED BY <3>1, <3>2
  <2> QED BY <1>1, <1>2, <2>1, <2>2
<1> QED BY <1>4, <1>5, <1>6 DEF m

\* Runs of frames are put together ...
LEMMA ConcatRun ==
  ASSUME NEW s \in Seq(Frames), NEW t \in Seq(Frames)
  PROVE  /\ s \o t \in Seq(Frames) /\ Len(s \o t) = Len(s) + Len(t)
         /\ \A g : \A b \in Int : Run(s, g, b) /\ Run(t, g, b + Len(s)) => Run(s \o t, g, b)
<1> DEFINE u == s \o t
<1>1. /\ u \in Seq(Frames) /\ Len(u) = Len(s) + Len(t)
      /\ \A i \in 1..Len(s) + Len(t) : u[i] = IF i <= Len(s) THEN s[i] ELSE t[i - Len(s)]
  BY ConcatProperties
<1>2. Len(s) \in Nat /\ Len(t) \in Nat
  BY LenProperties
<1> HIDE DEF u
<1>3. ASSUME NEW g, NEW b \in Int, Run(s, g, b), Run(t, g, b + Len(s)) PROVE Run(u, g, b)
  <2> SUFFICES ASSUME NEW k \in 1..Len(s) + Len(t) PROVE u[k] = <<g, b + k>>
    BY <1>1 DEF Run
  <2>1. CASE k <= Len(s)
    <3>1. k \in 1..Len(s) /\ u[k] = s[k]
      BY <1>1, <1>2, <2>1
    <3> QED BY <1>3, <3>1 DEF Run
  <2>2. CASE ~(k <= Len(s))
    <3> DEFINE j == k - Len(s)
    <3>1. j \in 1..Len(t) /\ b + Len(s) + j = b + k
      BY <1>2, <2>2
    <3> HIDE DEF j
    <3>2. t[j] = <<g, b + Len(s) + j>>
      BY <1>3, <3>1 DEF Run
    <3>3. u[k] = t[j]
      BY <1>1, <2>2 DEF j
    <3> QED BY <3>1, <3>2, <3>3
  <2> QED BY <2>1, <2>2
<1> QED BY <1>1, <1>3 DEF u

\* ... and taken apart.
LEMMA SplitRun ==
  ASSUME NEW s \in Seq(Frames), NEW n \in 0..Len(s)
  PROVE  /\ SubSeq(s, 1, n) \in Seq(Frames) /\ Len(SubSeq(s, 1, n)) = n
         /\ SubSeq(s, n + 1, Len(s)) \in Seq(Frames) /\ Len(SubSeq(s, n + 1, Len(s))) = Len(s) - n
         /\ \A g : \A b \in Int :
              Run(s, g, b) => Run(SubSeq(s, 1, n), g, b) /\ Run(SubSeq(s, n + 1, Len(s)), g, b + n)
<1> DEFINE u == SubSeq(s, 1, n)
           v == SubSeq(s, n + 1, Len(s))
<1>1. Len(s) \in Nat /\ n \in Nat /\ n <= Len(s) /\ \A i \in 1..Len(s) : s[i] \in Frames
  BY LenProperties, ElementOfSeq
<1>2. u \in Seq(Frames) /\ Len(u) = n /\ \A i \in 1..n : u[i] = s[i]
  <2>1. 1 \in Int /\ n \in Int /\ \A i \in 1..n : s[i] \in Frames
    BY <1>1
  <2>2. /\ u \in Seq(Frames) /\ Len(u) = IF 1 <= n THEN n - 1 + 1 ELSE 0
        /\ \A i \in 1..n - 1 + 1 : u[i] = s[1 + i - 1]
    BY <2>1, SubSeqProperties
  <2> HIDE DEF u
  <2> QED BY <1>1, <2>2
<1>3. v \in Seq(Frames) /\ Len(v) = Len(s) - n /\ \A i \in 1..Len(s) - n : v[i] = s[n + i]
  <2>1. n + 1 \in Int /\ Len(s) \in Int /\ \A i \in n + 1..Len(s) : s[i] \in Frames
    BY <1>1
  <2>2. /\ v \in Seq(Frames) /\ Len(v) = IF n + 1 <= Len(s) THEN Len(s) - (n + 1) + 1 ELSE 0
        /\ \A i \in 1..Len(s) - (n + 1) + 1 : v[i] = s[n + 1 + i - 1]
    BY <2>1, SubSeqProperties
  <2> HIDE DEF v
  <2> QED BY <1>1, <2>2
<1> HIDE DEF u, v
<1>4. ASSUME NEW g, NEW b \in Int, Run(s, g, b) PROVE Run(u, g, b) /\ Run(v, g, b + n)
  <2>1. Run(u, g, b)
    BY <1>1, <1>2, <1>4 DEF Run
  <2>2. ASSUME NEW i \in 1..Len(s) - n PROVE v[i] = <<g, b + n + i>>
    <3>1. n + i \in 1..Len(s) /\ b + (n + i) = b + n + i
      BY <1>1
    <3>2. s[n + i] = <<g, b + (n + i)>>
      BY <1>4, <3>1 DEF Run
    <3> QED BY <1>3, <3>1, <3>2
  <2> QED BY <1>3, <2>1, <2>2 DEF Run
<1> QED BY <1>2, <1>3, <1>4 DEF u, v

LEMMA EmptyFacts ==
  /\ RingOK(EmptyRing) /\ EmptyRing.read = 0 /\ EmptyRing.write = 0
  /\ \A g : Holds(EmptyRing, g)
  /\ <<>> \in Seq(Frames) /\ Len(<<>>) = 0
  /\ \A g, b : Run(<<>>, g, b)
<1>1. NoFrame \in Frames
  BY ConstOK DEF NoFrame, Frames
<1>2. /\ EmptyRing \in [read : Nat, write : Nat, data : [0..Capacity - 1 -> Frames]]
      /\ EmptyRing.read = 0 /\ EmptyRing.write = 0
  BY <1>1 DEF EmptyRing
<1>3. RingOK(EmptyRing)
  BY <1>2, ConstOK DEF RingOK
<1>4. \A g : Holds(EmptyRing, g)
  BY <1>2 DEF Holds
<1> QED BY <1>2, <1>3, <1>4 DEF Run

-----------------------------------------------------------------------------
(* The frames stay in order: what the steps share *)

LEMMA RingNums ==
  ASSUME NEW r, RingOK(r)
  PROVE  /\ r.read \in Nat /\ r.write \in Nat /\ r.read <= r.write /\ r.write <= MaxFrames
         /\ r.write - r.read <= Capacity /\ Available(r) \in 0..Capacity
         /\ Available(r) = r.write - r.read
  BY ConstOK DEF RingOK, Available

\* The numbers of a state.
LEMMA Numbers ==
  ASSUME SafeInv
  PROVE  /\ input.read \in Nat /\ input.write \in Nat /\ input.read <= input.write
         /\ output.read \in Nat /\ output.write \in Nat /\ output.read <= output.write
         /\ input.write <= MaxFrames /\ output.write <= MaxFrames
         /\ Available(input) = input.write - input.read /\ Available(output) = output.write - output.read
         /\ Available(input) \in 0..Capacity /\ Available(output) \in 0..Capacity
         /\ Len(batch) \in Nat /\ Len(stage) \in Nat /\ Len(made) \in Nat /\ Len(engine) \in Nat
         /\ Len(got) \in Nat /\ pushed \in Nat /\ room \in Nat
         /\ Capacity \in Nat /\ MaxFrames \in Nat
<1>1. RingOK(input) /\ RingOK(output)
  BY DEF SafeInv, FramesOK
<1>2. /\ Len(batch) \in Nat /\ Len(stage) \in Nat /\ Len(made) \in Nat /\ Len(engine) \in Nat
      /\ Len(got) \in Nat
  BY LenProperties DEF SafeInv, FramesOK
<1>3. pushed \in Nat /\ room \in Nat
  BY ConstOK DEF SafeInv, WordsOK
<1> QED BY <1>1, <1>2, <1>3, RingNums, ConstOK

\* A field that stays is not below itself: the counters of the rings are numbers.
LEMMA Reflexive ==
  ASSUME SafeInv
  PROVE  /\ input.read <= input.read /\ input.write <= input.write
         /\ output.read <= output.read /\ output.write <= output.write
<1>1. /\ input.read \in Nat /\ input.write \in Nat
      /\ output.read \in Nat /\ output.write \in Nat
  BY Numbers
<1> QED BY <1>1

\* A caller that may use the rings finds the worker in its generation.
LEMMA ReadyFacts ==
  ASSUME SafeInv, Ready
  PROVE  /\ OutGen = generation /\ wpc \notin {"clear", "start"}
         /\ profile # "bypass" => wgen = generation
         /\ Holds(Target, generation) /\ Holds(output, generation) /\ RingOK(Target)
         /\ Target.write = pushed /\ output.read = Len(got)
<1>1. /\ profile # "bypass" => wgen = generation
      /\ wpc \notin {"clear", "start"}
  BY DEF SafeInv, WordsOK, GenInv, Ready
<1>2. OutGen = generation
  BY <1>1 DEF OutGen
<1>3. PipeInv
  BY <1>1 DEF SafeInv
<1>4. Holds(output, generation) /\ (profile # "bypass" => Holds(input, generation))
  BY <1>1, <1>2, <1>3 DEF PipeInv
<1>5. Holds(Target, generation) /\ RingOK(Target)
  BY <1>4 DEF Target, SafeInv, FramesOK
<1> QED BY <1>1, <1>2, <1>4, <1>5 DEF SafeInv, CallerInv

\* Steps of the worker and of SoX: the caller keeps what it knows.
LEMMA CallerKept ==
  ASSUME SafeInv, RingOK(input'), RingOK(output'),
         UNCHANGED <<profile, generation, acknowledged, cpc, batch, pushed, got>>,
         profile = "bypass" => output' = output,
         input'.write = input.write, output'.read = output.read,
         input.read <= input'.read, output.write <= output'.write,
         \A s : Written(input, s) => Written(input', s)
  PROVE  CallerInv'
<1>1. CallerInv
  BY DEF SafeInv
<1>2. Ready' = Ready
  BY DEF Ready
<1>3. /\ Available(input') <= Available(input) /\ Available(output) <= Available(output')
      /\ Available(input) \in Nat /\ Available(input') \in Nat
      /\ Available(output) \in Nat /\ Available(output') \in Nat
  <2>1. /\ Available(input') = input'.write - input'.read /\ Available(output') = output'.write - output'.read
        /\ input'.read \in Nat /\ output'.write \in Nat /\ input'.read <= input'.write /\ output'.read <= output'.write
    BY RingNums
  <2>2. /\ Available(input) = input.write - input.read /\ Available(output) = output.write - output.read
        /\ input.read \in Nat /\ input.write \in Nat /\ output.read \in Nat /\ output.write \in Nat
        /\ Available(input) \in Nat /\ Available(output) \in Nat
    BY Numbers
  <2>3. Available(input') <= Available(input) /\ Available(input') \in Nat
    BY <2>1, <2>2
  <2>4. Available(output) <= Available(output') /\ Available(output') \in Nat
    BY <2>1, <2>2
  <2> QED BY <2>2, <2>3, <2>4
<1>4. /\ Available(Target') <= Available(Target) /\ Target'.write = Target.write
      /\ \A s : Written(Target, s) => Written(Target', s)
      /\ Available(Target) \in Nat /\ Available(Target') \in Nat
  BY <1>3 DEF Target
<1>5. cpc \in {"push", "pushed"} => Available(Target') + Len(batch) <= Capacity
  BY <1>1, <1>4, Numbers DEF CallerInv
<1>6. cpc = "pull" => Len(batch) <= Available(output')
  BY <1>1, <1>3, Numbers DEF CallerInv
<1> QED BY <1>1, <1>2, <1>4, <1>5, <1>6 DEF CallerInv

\* Steps of the worker inside a pass.
LEMMA WorkerKept ==
  ASSUME SafeInv, profile # "bypass", WordsOK', FramesOK', RoomInv', PipeInv',
         UNCHANGED <<profile, generation, acknowledged, cpc, batch, pushed, got, wgen>>,
         wpc \notin {"none", "clear", "start"}, wpc' \notin {"none", "clear", "start"},
         child'.state \in {"none", child.state},
         input'.write = input.write, output'.read = output.read,
         input.read <= input'.read, output.write <= output'.write,
         \A s : Written(input, s) => Written(input', s)
  PROVE  SafeInv'
<1>1. CallerInv'
  BY CallerKept DEF FramesOK
<1>2. GenInv'
  BY DEF SafeInv, GenInv, Ready
<1> QED BY <1>1, <1>2 DEF SafeInv

\* Steps of the caller: the worker keeps what it knows.
LEMMA CallerStep ==
  ASSUME SafeInv, WordsOK', FramesOK', GenInv', CallerInv',
         UNCHANGED <<profile, wpc, wgen, stage, made, room, weof, engine, child>>,
         wpc # "clear" => Holds(output', OutGen'),
         profile # "bypass" =>
           /\ wpc # "clear" => Holds(input', wgen)
           /\ input'.read = input.read /\ output'.write = output.write
           /\ output.read <= output'.read /\ input.write <= input'.write
           /\ wpc = "start" => input'.write = input.write /\ output'.read = output.read
           /\ Written(output, made) => Written(output', made)
  PROVE  SafeInv'
<1>1. CASE profile = "bypass"
  <2>1. wpc = "none"
    BY <1>1 DEF SafeInv, GenInv
  <2>2. RoomInv' /\ PipeInv'
    BY <1>1, <2>1 DEF RoomInv, PipeInv, Delivering, Fetching
  <2> QED BY <2>2 DEF SafeInv
<1>2. CASE profile # "bypass"
  <2>1. /\ Available(output') <= Available(output) /\ Available(input) <= Available(input')
        /\ Available(input) \in Nat /\ Available(input') \in Nat
        /\ Available(output) \in Nat /\ Available(output') \in Nat
    <3>1. RingOK(input') /\ RingOK(output')
      BY DEF FramesOK
    <3>2. /\ Available(input') = input'.write - input'.read /\ Available(output') = output'.write - output'.read
          /\ input'.write \in Nat /\ output'.read \in Nat /\ input'.read <= input'.write /\ output'.read <= output'.write
      BY <3>1, RingNums
    <3>3. /\ Available(input) = input.write - input.read /\ Available(output) = output.write - output.read
          /\ input.read \in Nat /\ input.write \in Nat /\ output.read \in Nat /\ output.write \in Nat
          /\ Available(input) \in Nat /\ Available(output) \in Nat
      BY Numbers
    <3>4. Available(input) <= Available(input') /\ Available(input') \in Nat
      BY <1>2, <3>2, <3>3
    <3>5. Available(output') <= Available(output) /\ Available(output') \in Nat
      BY <1>2, <3>2, <3>3
    <3> QED BY <3>3, <3>4, <3>5
  <2>2. RoomInv'
    <3>1. RoomInv
      BY DEF SafeInv
    <3>2. wpc \in {"look-input", "process", "read", "ring-copy", "ring-publish"} =>
            room <= Capacity - Available(output')
      BY <2>1, <3>1, Numbers DEF RoomInv
    <3>3. Fetching => Len(stage) <= Available(input')
      BY <2>1, <3>1, Numbers DEF RoomInv
    <3> QED BY <1>2, <3>1, <3>2, <3>3 DEF RoomInv, Delivering, Fetching
  <2>3. ASSUME wpc # "clear" PROVE PipeInv'
    <3>1. PipeInv
      BY <2>3 DEF SafeInv
    <3>2. Taken' = Taken /\ Given' = Given /\ Delivering' = Delivering
      BY <1>2 DEF Taken, Given, Delivering, Fetching
    <3> QED BY <1>2, <2>3, <3>1, <3>2 DEF PipeInv
  <2> QED BY <2>2, <2>3 DEF SafeInv
<1> QED BY <1>1, <1>2

\* The same for steps that leave the rings alone.
LEMMA CallerStill ==
  ASSUME SafeInv, WordsOK', FramesOK', GenInv', CallerInv',
         UNCHANGED <<profile, wpc, wgen, stage, made, room, weof, engine, child, input, output>>,
         OutGen' = OutGen
  PROVE  SafeInv'
<1>1. wpc # "clear" => Holds(output, OutGen) /\ (profile # "bypass" => Holds(input, wgen))
  BY DEF SafeInv, PipeInv
<1>2. output.read <= output.read /\ input.write <= input.write
  BY Reflexive
<1> QED BY <1>1, <1>2, CallerStep

-----------------------------------------------------------------------------
(* The caller's steps *)

LEMMA SafePush ==
  ASSUME SafeInv, NEW n \in 1..Capacity, Push(n)
  PROVE  SafeInv'
<1> USE DEF words, locals, engines, history
<1> DEFINE count == Least(n, Capacity - Available(Target))
<1>1. /\ Ready /\ cpc = "idle" /\ cpc' = "push" /\ count > 0 /\ pushed + count <= MaxFrames
      /\ batch' = [k \in 1..count |-> <<generation, pushed + k>>]
      /\ UNCHANGED <<words, input, output, wpc, locals, engines, history>>
  BY DEF Push
<1>2. Available(Target) \in 0..Capacity /\ pushed \in Nat /\ generation \in 1..MaxGen
  BY Numbers DEF Target, SafeInv, WordsOK
<1>3. count \in Nat /\ Available(Target) + count <= Capacity
  BY <1>2, ConstOK DEF Least
<1> HIDE DEF count
<1>4. \A k \in 1..count : <<generation, pushed + k>> \in Frames
  BY <1>1, <1>2, <1>3, ConstOK DEF Frames
<1>5. batch' \in Seq(Frames) /\ Len(batch') = count
  BY <1>1, <1>3, <1>4
<1>6. Run(batch', generation, pushed)
  BY <1>1, <1>3, <1>5 DEF Run
<1>7. CallerInv'
  BY <1>1, <1>3, <1>5, <1>6 DEF SafeInv, CallerInv, Target, Ready
<1>8. GenInv' /\ WordsOK' /\ FramesOK'
  BY <1>1, <1>5 DEF SafeInv, GenInv, WordsOK, FramesOK, Ready
<1>9. OutGen' = OutGen
  BY <1>1 DEF OutGen
<1> QED BY <1>1, <1>7, <1>8, <1>9, CallerStill

LEMMA SafePushCopy ==
  ASSUME SafeInv, PushCopy
  PROVE  SafeInv'
<1> USE DEF words, locals, engines, history
<1>1. /\ cpc = "push" /\ cpc' = "pushed" /\ SetTarget(Put(Target, batch))
      /\ UNCHANGED <<words, batch, wpc, locals, engines, history>>
  BY DEF PushCopy
<1>2. Ready /\ Available(Target) + Len(batch) <= Capacity /\ batch \in Seq(Frames)
  BY <1>1 DEF SafeInv, GenInv, CallerInv, FramesOK
<1>3. RingOK(Target) /\ Holds(Target, generation) /\ wpc \notin {"clear", "start"}
      /\ (profile # "bypass" => wgen = generation)
  BY <1>2, ReadyFacts
<1> DEFINE q == Put(Target, batch)
<1>4. /\ RingOK(q) /\ q.read = Target.read /\ q.write = Target.write
      /\ Written(q, batch) /\ Holds(q, generation)
  BY <1>2, <1>3, PutOK
<1>5. /\ Target' = q
      /\ IF profile = "bypass" THEN output' = q /\ input' = input ELSE input' = q /\ output' = output
  BY <1>1 DEF SetTarget, Target
<1> HIDE DEF q
<1>6. Available(Target') = Available(Target) /\ Available(output') = Available(output)
      /\ output'.read = output.read
  BY <1>4, <1>5 DEF Available, Target
<1>7. WordsOK' /\ FramesOK' /\ GenInv'
  BY <1>1, <1>4, <1>5 DEF SafeInv, WordsOK, FramesOK, GenInv, Ready
<1>8. CallerInv'
  BY <1>1, <1>4, <1>5, <1>6 DEF SafeInv, CallerInv, Ready
<1>9. OutGen' = OutGen /\ OutGen = generation
  BY <1>1, <1>2, ReadyFacts DEF OutGen
<1>10. Holds(output, generation)
  BY <1>2, ReadyFacts
<1>11. CASE profile = "bypass"
  BY <1>1, <1>4, <1>5, <1>7, <1>8, <1>9, <1>11, CallerStep
<1>12. CASE profile # "bypass"
  <2>1. input'.read = input.read /\ input'.write = input.write
    BY <1>4, <1>5, <1>12 DEF Target
  <2> QED BY <1>1, <1>3, <1>4, <1>5, <1>7, <1>8, <1>9, <1>10, <1>12, <2>1, Numbers, CallerStep
<1> QED BY <1>11, <1>12

LEMMA SafePushPublish ==
  ASSUME SafeInv, PushPublish
  PROVE  SafeInv'
<1> USE DEF words, locals, engines, history
<1> DEFINE q == [Target EXCEPT !.write = @ + Len(batch)]
<1>1. /\ cpc = "pushed" /\ cpc' = "idle" /\ SetTarget(q)
      /\ pushed' = pushed + Len(batch) /\ batch' = <<>>
      /\ UNCHANGED <<words, wpc, locals, engines, got>>
  BY DEF PushPublish
<1>2. /\ Ready /\ Available(Target) + Len(batch) <= Capacity /\ batch \in Seq(Frames)
      /\ Written(Target, batch) /\ Run(batch, generation, pushed) /\ pushed + Len(batch) <= MaxFrames
  BY <1>1 DEF SafeInv, GenInv, CallerInv, FramesOK
<1>3. /\ RingOK(Target) /\ Holds(Target, generation) /\ wpc \notin {"clear", "start"}
      /\ profile # "bypass" => wgen = generation
      /\ Target.write = pushed /\ Holds(output, generation) /\ OutGen = generation
  BY <1>2, ReadyFacts
<1>4. /\ RingOK(q) /\ q.read = Target.read /\ q.write = pushed + Len(batch)
      /\ Holds(q, generation)
  BY <1>2, <1>3, PublishOK
<1>5. /\ Target' = q
      /\ IF profile = "bypass" THEN output' = q /\ input' = input ELSE input' = q /\ output' = output
  BY <1>1 DEF SetTarget, Target
<1> HIDE DEF q
<1>6. pushed' \in 0..MaxFrames /\ pushed <= pushed'
  <2>1. pushed \in Nat /\ Len(batch) \in Nat /\ MaxFrames \in Nat
    BY Numbers
  <2> QED BY <1>1, <1>2, <2>1
<1>7. WordsOK' /\ FramesOK' /\ GenInv'
  BY <1>1, <1>2, <1>4, <1>5, <1>6, EmptyFacts DEF SafeInv, WordsOK, FramesOK, GenInv, Ready
<1>8. CallerInv'
  BY <1>1, <1>4, <1>5 DEF SafeInv, CallerInv, Ready, Target
<1>9. OutGen' = generation
  BY <1>1, <1>3 DEF OutGen
<1>10. CASE profile = "bypass"
  BY <1>1, <1>4, <1>5, <1>7, <1>8, <1>9, <1>10, CallerStep
<1>11. CASE profile # "bypass"
  <2>1. input'.read = input.read /\ input.write <= input'.write
    BY <1>1, <1>3, <1>4, <1>5, <1>6, <1>11 DEF Target
  <2> QED BY <1>1, <1>3, <1>4, <1>5, <1>7, <1>8, <1>9, <1>11, <2>1, Numbers, CallerStep
<1> QED BY <1>10, <1>11

LEMMA SafePull ==
  ASSUME SafeInv, NEW n \in 1..Capacity, Pull(n)
  PROVE  SafeInv'
<1> USE DEF words, locals, engines, history
<1> DEFINE count == Least(n, Available(output))
<1>1. /\ Ready /\ cpc = "idle" /\ cpc' = "pull" /\ batch' = Get(output, count)
      /\ UNCHANGED <<words, input, output, wpc, locals, engines, history>>
  BY DEF Pull
<1>2. count \in 0..Available(output)
  <2>1. n \in Nat /\ Available(output) \in Nat
    BY Numbers
  <2> QED BY <2>1, LeastOf
<1>3. RingOK(output) /\ Holds(output, generation)
  BY <1>1, ReadyFacts DEF SafeInv, FramesOK
<1> HIDE DEF count
<1>4. batch' \in Seq(Frames) /\ Len(batch') = count /\ Run(batch', generation, output.read)
  BY <1>1, <1>2, <1>3, GetOK
<1>5. Len(batch') <= Available(output)
  BY <1>2, <1>4, Numbers
<1>6. WordsOK' /\ FramesOK' /\ GenInv'
  BY <1>1, <1>4 DEF SafeInv, WordsOK, FramesOK, GenInv, Ready
<1>7. CallerInv'
  BY <1>1, <1>4, <1>5 DEF SafeInv, CallerInv, Ready, Target
<1>8. OutGen' = OutGen
  BY <1>1 DEF OutGen
<1> QED BY <1>1, <1>6, <1>7, <1>8, CallerStill

LEMMA SafePullPublish ==
  ASSUME SafeInv, PullPublish
  PROVE  SafeInv'
<1> USE DEF words, locals, engines, history
<1>1. /\ cpc = "pull" /\ cpc' = "idle" /\ output' = [output EXCEPT !.read = @ + Len(batch)]
      /\ got' = got \o batch /\ batch' = <<>>
      /\ UNCHANGED <<words, input, wpc, locals, engines, pushed>>
  BY DEF PullPublish
<1>2. /\ Ready /\ Run(batch, generation, output.read) /\ Len(batch) <= Available(output)
      /\ batch \in Seq(Frames) /\ got \in Seq(Frames) /\ Run(got, generation, 0)
      /\ RingOK(output)
  BY <1>1 DEF SafeInv, GenInv, CallerInv, FramesOK
<1>3. /\ Holds(output, generation) /\ output.read = Len(got) /\ OutGen = generation
      /\ wpc \notin {"clear", "start"} /\ (profile # "bypass" => wgen = generation)
  BY <1>2, ReadyFacts
<1>4. Len(batch) \in 0..Available(output)
  BY <1>2, Numbers
<1>5. /\ RingOK(output') /\ output'.read = output.read + Len(batch) /\ output'.write = output.write
      /\ Holds(output', generation) /\ (Written(output, made) => Written(output', made))
  <2> DEFINE q == [output EXCEPT !.read = @ + Len(batch)]
  <2>1. /\ RingOK(q) /\ q.read = output.read + Len(batch) /\ q.write = output.write
        /\ \A g : Holds(output, g) => Holds(q, g)
        /\ \A s : Written(output, s) => Written(q, s)
    BY <1>2, <1>4, ReadOK
  <2>2. output' = q
    BY <1>1
  <2> HIDE DEF q
  <2> QED BY <1>3, <2>1, <2>2
<1>6. Run(batch, generation, 0 + Len(got)) /\ 0 \in Int
  BY <1>2, <1>3, Numbers
<1>7. got' \in Seq(Frames) /\ Len(got') = Len(got) + Len(batch) /\ Run(got', generation, 0)
  BY <1>1, <1>2, <1>6, ConcatRun
<1>8. WordsOK' /\ FramesOK' /\ GenInv'
  BY <1>1, <1>2, <1>5, <1>7, EmptyFacts DEF SafeInv, WordsOK, FramesOK, GenInv, Ready
<1>9. CallerInv'
  BY <1>1, <1>3, <1>5, <1>7 DEF SafeInv, CallerInv, Ready, Target
<1>10. OutGen' = generation /\ output.read <= output'.read
  BY <1>1, <1>3, <1>5, Numbers DEF OutGen
<1>11. profile # "bypass" => Holds(input', wgen)
  BY <1>1, <1>3 DEF SafeInv, PipeInv
<1> QED BY <1>1, <1>3, <1>5, <1>8, <1>9, <1>10, <1>11, CallerStep, Numbers

\* Steps of the caller that touch no frame.
LEMMA SafeMarks ==
  ASSUME SafeInv, Finish \/ Reset \/ Destroy \/ Join
  PROVE  SafeInv'
<1> USE DEF words, locals, engines, history, caller
<1>1. /\ UNCHANGED <<profile, generation, acknowledged, error, input, output, batch, wpc,
                     locals, engines, history>>
      /\ cpc' \in {"idle", "reset", "join", "freed"} /\ (cpc' = "reset" => generation < MaxGen)
  BY DEF Finish, Reset, Destroy, Join
<1>2. eof' \in 0..MaxGen /\ done' \in 0..MaxGen /\ stop' \in BOOLEAN
  <2>1. generation \in 0..MaxGen /\ 0 \in 0..MaxGen
    BY ConstOK DEF SafeInv, WordsOK
  <2>2. (profile # "bypass") \in BOOLEAN
    BY Zenon
  <2>3. stop' = stop \/ stop' = (profile # "bypass")
    BY DEF Finish, Reset, Destroy, Join
  <2>4. stop' \in BOOLEAN
    BY <2>2, <2>3, Zenon DEF SafeInv, WordsOK
  <2> QED BY <2>1, <2>4 DEF SafeInv, WordsOK, Finish, Reset, Destroy, Join
<1>3. WordsOK' /\ FramesOK' /\ GenInv'
  BY <1>1, <1>2 DEF SafeInv, WordsOK, FramesOK, GenInv, Ready
<1>4. CallerInv'
  BY <1>1 DEF SafeInv, CallerInv, Ready, Target
<1>5. OutGen' = OutGen
  BY <1>1 DEF OutGen
<1> QED BY <1>1, <1>3, <1>4, <1>5, CallerStill

LEMMA SafeResetRaise ==
  ASSUME SafeInv, ResetRaise
  PROVE  SafeInv'
<1> USE DEF words, locals, engines, history, caller
<1>1. /\ cpc = "reset" /\ cpc' = "idle" /\ generation' = generation + 1 /\ pushed' = 0 /\ got' = <<>>
      /\ UNCHANGED <<profile, eof, stop, batch, wpc, locals, engines>>
  BY DEF ResetRaise
<1>2. generation \in 1..MaxGen /\ acknowledged \in 0..MaxGen /\ MaxGen \in Nat /\ generation' \in 1..MaxGen
  <2>1. generation \in 1..MaxGen /\ acknowledged \in 0..MaxGen /\ generation < MaxGen
    BY <1>1 DEF SafeInv, WordsOK, GenInv
  <2> QED BY <1>1, <2>1, ConstOK
<1>3. CASE profile = "bypass"
  <2>1. /\ acknowledged' = generation' /\ input' = EmptyRing /\ output' = EmptyRing
        /\ done' = 0 /\ error' = FALSE
    BY <1>3 DEF ResetRaise
  <2>2. WordsOK' /\ FramesOK' /\ GenInv'
    <3>1. acknowledged' \in 0..MaxGen /\ done' \in 0..MaxGen /\ error' \in BOOLEAN /\ pushed' \in 0..MaxFrames
      <4>1. generation' \in 0..MaxGen /\ 0 \in 0..MaxGen /\ 0 \in 0..MaxFrames
        BY <1>2, ConstOK
      <4> QED BY <1>1, <2>1, <4>1
    <3>2. WordsOK'
      BY <1>1, <1>2, <3>1 DEF SafeInv, WordsOK
    <3>3. FramesOK'
      BY <1>1, <2>1, EmptyFacts DEF SafeInv, FramesOK
    <3>4. GenInv'
      BY <1>1, <1>3, <2>1 DEF SafeInv, GenInv, Ready
    <3> QED BY <3>2, <3>3, <3>4
  <2>3. CallerInv'
    BY <1>1, <1>3, <2>1, EmptyFacts DEF CallerInv, Target
  <2>4. Holds(output', OutGen')
    BY <2>1, EmptyFacts
  <2> QED BY <1>1, <1>3, <2>2, <2>3, <2>4, CallerStep
<1>4. CASE profile # "bypass"
  <2>1. UNCHANGED <<acknowledged, input, output, done, error>>
    BY <1>4 DEF ResetRaise
  <2>2. wgen \in 0..MaxGen /\ acknowledged <= wgen /\ wgen <= generation
    BY <1>2, <1>4 DEF SafeInv, GenInv, WordsOK
  <2>3. ~Ready' /\ wgen <= generation'
    BY <1>1, <1>2, <2>1, <2>2 DEF Ready
  <2>4. WordsOK' /\ FramesOK' /\ GenInv'
    BY <1>1, <1>2, <1>4, <2>1, <2>3, ConstOK, EmptyFacts DEF SafeInv, WordsOK, FramesOK, GenInv
  <2>5. CallerInv'
    BY <1>1, <2>3, EmptyFacts DEF CallerInv
  <2>6. OutGen' = OutGen
    BY <1>1, <1>4 DEF OutGen
  <2> QED BY <1>1, <2>1, <2>4, <2>5, <2>6, CallerStill
<1> QED BY <1>3, <1>4

-----------------------------------------------------------------------------
(* The worker's steps *)

LEMMA NotBypass ==
  ASSUME SafeInv, wpc # "none"
  PROVE  profile # "bypass"
  BY DEF SafeInv, GenInv

\* Inside a pass, with nothing in hand.
Between == wpc \in {"top", "fetch", "look", "look-input", "process", "read", "settle", "exit"}

\* Steps of a pass that move no frame.
LEMMA PassStill ==
  ASSUME SafeInv, WordsOK', RoomInv', made' \in Seq(Frames), Between, Between',
         UNCHANGED <<profile, generation, acknowledged, cpc, batch, pushed, got, wgen, input, output,
                     stage, engine>>,
         child'.state = child.state \/ (wpc' = "exit" /\ child'.state = "none"), wpc = "exit" => wpc' = "exit"
  PROVE  SafeInv'
<1>1. profile # "bypass"
  BY NotBypass DEF Between
<1>2. FramesOK'
  BY DEF SafeInv, FramesOK
<1>3. PipeInv
  BY DEF SafeInv, Between
<1>4. Taken' = Taken /\ Given' = Given /\ ~Delivering /\ ~Delivering' /\ OutGen' = OutGen
  BY DEF Taken, Given, Delivering, Fetching, Between, OutGen
<1>5. PipeInv'
  BY <1>1, <1>3, <1>4 DEF PipeInv
<1>6. input.read <= input.read /\ output.write <= output.write
  BY Reflexive
<1>7. wpc \notin {"none", "clear", "start"} /\ wpc' \notin {"none", "clear", "start"}
  BY DEF Between
<1> QED BY <1>1, <1>2, <1>5, <1>6, <1>7, WorkerKept

LEMMA SafeTop ==
  ASSUME SafeInv, Top
  PROVE  SafeInv'
<1> USE DEF words, history, caller
<1>1. /\ wpc = "top"
      /\ UNCHANGED <<words, input, output, caller, stage, made, room, weof, engine, history>>
  BY DEF Top
<1>2. profile # "bypass" /\ made' \in Seq(Frames)
  BY <1>1, NotBypass DEF SafeInv, FramesOK
<1>3. NoChild \in [state : {"none", "running", "exited", "crashed"}, in : BOOLEAN, out : BOOLEAN]
      /\ NoChild.state = "none"
  BY DEF NoChild
<1>4. \/ wpc' = "exit" /\ child' = NoChild /\ wgen' = wgen
      \/ wpc' \in {"fetch", "top"} /\ wgen' = wgen /\ child' = child
      \/ wpc' = "clear" /\ wgen' = generation /\ generation # wgen /\ child' = child
  BY DEF Top
<1>5. WordsOK'
  <2>1. wgen' \in 0..MaxGen
    BY <1>4, ConstOK DEF SafeInv, WordsOK
  <2>2. child' \in [state : {"none", "running", "exited", "crashed"}, in : BOOLEAN, out : BOOLEAN]
    BY <1>3, <1>4 DEF SafeInv, WordsOK
  <2>3. wpc' \in {"exit", "fetch", "top", "clear"}
    BY <1>4
  <2> QED BY <1>1, <2>1, <2>2, <2>3 DEF SafeInv, WordsOK
<1>6. RoomInv'
  <2>1. wpc' \in {"exit", "fetch", "top", "clear"}
    BY <1>4
  <2> QED BY <2>1 DEF RoomInv, Delivering, Fetching
<1>7. CASE wpc' # "clear"
  <2>1. wgen' = wgen /\ Between /\ Between' /\ wpc # "exit"
        /\ (child'.state = child.state \/ (wpc' = "exit" /\ child'.state = "none"))
    BY <1>1, <1>3, <1>4, <1>7 DEF Between
  <2> QED BY <1>1, <1>2, <1>5, <1>6, <2>1, PassStill
<1>8. CASE wpc' = "clear"
  <2>1. wgen' = generation /\ generation # wgen /\ child' = child
    BY <1>4, <1>8
  <2>2. FramesOK'
    BY <1>1 DEF SafeInv, FramesOK
  <2>3. GenInv'
    <3>1. acknowledged = wgen /\ wgen <= generation /\ wgen \in Nat /\ generation \in Nat
      BY <1>1, <1>2, ConstOK DEF SafeInv, GenInv, WordsOK
    <3>2. acknowledged < generation /\ generation <= generation
      BY <2>1, <3>1
    <3> QED BY <1>1, <1>2, <1>8, <2>1, <3>2 DEF SafeInv, GenInv, Ready
  <2>4. CallerInv'
    BY <1>1 DEF SafeInv, CallerInv, Ready, Target
  <2> QED BY <1>5, <1>6, <1>8, <2>2, <2>3, <2>4 DEF SafeInv
<1> QED BY <1>7, <1>8

LEMMA SafeClear ==
  ASSUME SafeInv, Clear
  PROVE  SafeInv'
<1> USE DEF history, caller
<1>1. /\ wpc = "clear" /\ wpc' = "start"
      /\ input' = EmptyRing /\ output' = EmptyRing /\ done' = 0 /\ error' = FALSE
      /\ stage' = <<>> /\ made' = <<>> /\ engine' = <<>> /\ child' = NoChild
      /\ UNCHANGED <<profile, generation, acknowledged, eof, stop, caller, wgen, room, weof, history>>
  BY DEF Clear
<1>2. profile # "bypass"
  BY <1>1, NotBypass
<1>3. child' \in [state : {"none", "running", "exited", "crashed"}, in : BOOLEAN, out : BOOLEAN]
      /\ child'.state = "none"
  BY <1>1 DEF NoChild
<1>4. WordsOK'
  <2>1. done' \in 0..MaxGen
    BY <1>1, ConstOK
  <2> QED BY <1>1, <1>3, <2>1 DEF SafeInv, WordsOK
<1>5. FramesOK'
  BY <1>1, EmptyFacts DEF SafeInv, FramesOK
<1>6. GenInv'
  BY <1>1, <1>2, <1>3 DEF SafeInv, GenInv, Ready
<1>7. ~Ready /\ ~Ready'
  <2>1. acknowledged < wgen /\ wgen <= generation /\ acknowledged \in Nat /\ wgen \in Nat /\ generation \in Nat
    BY <1>1, <1>2, ConstOK DEF SafeInv, GenInv, WordsOK
  <2> QED BY <1>1, <2>1 DEF Ready
<1>8. CallerInv'
  <2>1. cpc \notin {"push", "pushed", "pull"} /\ Run(got, generation, 0)
    BY <1>7 DEF SafeInv, GenInv, CallerInv
  <2> QED BY <1>1, <1>7, <2>1 DEF CallerInv
<1>9. RoomInv'
  BY <1>1, EmptyFacts DEF RoomInv, Delivering, Fetching
<1>10. PipeInv'
  <2>1. Taken' = 0 /\ Given' = 0 /\ ~Delivering'
    <3>1. Len(stage') = 0 /\ input'.read = 0 /\ output'.write = 0
      BY <1>1, EmptyFacts
    <3>2. Taken' = input'.read - Len(stage') /\ Given' = output'.write /\ ~Delivering'
      BY <1>1 DEF Taken, Given, Delivering, Fetching
    <3>3. Taken' = 0 - 0
      BY <3>1, <3>2
    <3> QED BY <3>1, <3>2, <3>3
  <2> QED BY <1>1, <2>1, EmptyFacts DEF PipeInv
<1> QED BY <1>4, <1>5, <1>6, <1>8, <1>9, <1>10 DEF SafeInv

LEMMA SafeStart ==
  ASSUME SafeInv, Start
  PROVE  SafeInv'
<1> USE DEF history, caller, locals
<1>1. /\ wpc = "start" /\ error' \in BOOLEAN /\ acknowledged' = wgen
      /\ child' = (IF profile = "sox" /\ ~error' THEN NewChild ELSE child)
      /\ wpc' \in {"top", "fetch"}
      /\ UNCHANGED <<profile, generation, eof, done, stop, input, output, caller, locals, engine, history>>
  BY DEF Start
<1>2. profile # "bypass" /\ PipeInv /\ input.write = 0 /\ output.read = 0
  BY <1>1, NotBypass DEF SafeInv, RoomInv
<1>3. child' \in [state : {"none", "running", "exited", "crashed"}, in : BOOLEAN, out : BOOLEAN]
      /\ (profile # "sox" => child' = child)
  BY <1>1 DEF NewChild, SafeInv, WordsOK
<1>4. WordsOK'
  BY <1>1, <1>3 DEF SafeInv, WordsOK
<1>5. FramesOK'
  BY <1>1 DEF SafeInv, FramesOK
<1>6. ~Ready
  <2>1. acknowledged < wgen /\ wgen <= generation /\ acknowledged \in Nat /\ wgen \in Nat /\ generation \in Nat
    BY <1>1, <1>2, ConstOK DEF SafeInv, GenInv, WordsOK
  <2> QED BY <2>1 DEF Ready
<1>7. cpc \notin {"push", "pushed", "pull"} /\ pushed = 0 /\ got = <<>>
  BY <1>6 DEF SafeInv, GenInv
<1>8. GenInv'
  BY <1>1, <1>2, <1>3, <1>7 DEF SafeInv, GenInv
<1>9. CallerInv'
  BY <1>1, <1>2, <1>7, EmptyFacts DEF CallerInv, Target
<1>10. RoomInv'
  BY <1>1 DEF RoomInv, Delivering, Fetching
<1>11. PipeInv'
  <2>1. Taken' = Taken /\ Given' = Given /\ ~Delivering /\ ~Delivering' /\ OutGen' = OutGen
    BY <1>1 DEF Taken, Given, Delivering, Fetching, OutGen
  <2>2. Given + Len(engine) = Taken
    <3>1. Given + Len(engine) <= Taken /\ Given = output.write /\ Taken = input.read - Len(stage)
      BY <1>1, <1>2 DEF PipeInv, Given, Taken, Delivering, Fetching
    <3>2. input.read = 0
      BY <1>2, Numbers
    <3> QED BY <3>1, <3>2, Numbers
  <2> QED BY <1>1, <1>2, <2>1, <2>2 DEF PipeInv
<1> QED BY <1>4, <1>5, <1>8, <1>9, <1>10, <1>11 DEF SafeInv

LEMMA SafeFetch ==
  ASSUME SafeInv, Fetch
  PROVE  SafeInv'
<1> USE DEF words, history, caller, engines
<1>1. /\ wpc = "fetch"
      /\ UNCHANGED <<words, input, output, caller, wgen, made, room, weof, engines, history>>
  BY DEF Fetch
<1>2. profile # "bypass" /\ PipeInv /\ made' \in Seq(Frames)
  BY <1>1, NotBypass DEF SafeInv, FramesOK
<1>3. CASE stage' = stage /\ wpc' = "look"
  <2>1. Between /\ Between' /\ wpc # "exit"
    BY <1>1, <1>3 DEF Between
  <2>2. RoomInv'
    BY <1>3 DEF RoomInv, Delivering, Fetching
  <2>3. WordsOK'
    BY <1>1, <1>3 DEF SafeInv, WordsOK
  <2> QED BY <1>1, <1>2, <1>3, <2>1, <2>2, <2>3, PassStill
<1>4. CASE stage = <<>> /\ stage' = Get(input, Least(Block, Available(input))) /\ wpc' = "fetched"
  <2> DEFINE n == Least(Block, Available(input))
  <2>1. n \in 0..Available(input)
    <3>1. Block \in Nat /\ Available(input) \in Nat
      BY Numbers, ConstOK
    <3> QED BY <3>1, LeastOf
  <2> HIDE DEF n
  <2>2. RingOK(input) /\ Holds(input, wgen)
    BY <1>2 DEF SafeInv, FramesOK, PipeInv
  <2>3. Get(input, n) \in Seq(Frames) /\ Len(Get(input, n)) = n /\ Run(Get(input, n), wgen, input.read)
    BY <2>1, <2>2, GetOK
  <2>4. stage' = Get(input, n)
    BY <1>4 DEF n
  <2>5. stage' \in Seq(Frames) /\ Len(stage') = n /\ Run(stage', wgen, input.read)
    BY <2>3, <2>4
  <2>6. FramesOK' /\ WordsOK'
    BY <1>1, <1>4, <2>5 DEF SafeInv, FramesOK, WordsOK
  <2>7. Len(stage') <= Available(input)
    BY <2>1, <2>5, Numbers
  <2>8. RoomInv'
    BY <1>1, <1>4, <2>7 DEF RoomInv, Delivering, Fetching
  <2>9. /\ Taken' = input.read /\ Taken = input.read
        /\ Given' = Given /\ ~Delivering /\ ~Delivering' /\ OutGen' = OutGen
    <3>1. Len(stage) = 0
      BY <1>4, EmptyFacts
    <3> QED BY <1>1, <1>4, <3>1, Numbers DEF Taken, Given, Delivering, Fetching, OutGen
  <2>10. PipeInv'
    BY <1>1, <1>2, <1>4, <2>5, <2>9 DEF PipeInv
  <2>11. input.read <= input.read /\ output.write <= output.write
    BY Reflexive
  <2> QED BY <1>1, <1>2, <1>4, <2>6, <2>8, <2>10, <2>11, WorkerKept
<1> QED BY <1>3, <1>4 DEF Fetch

LEMMA SafeFetchPublish ==
  ASSUME SafeInv, FetchPublish
  PROVE  SafeInv'
<1> USE DEF words, history, caller, locals, engines
<1> DEFINE q == [input EXCEPT !.read = @ + Len(stage)]
<1>1. /\ wpc = "fetched" /\ wpc' = "look" /\ input' = q
      /\ UNCHANGED <<words, output, caller, locals, engines, history>>
  BY DEF FetchPublish
<1>2. profile # "bypass" /\ PipeInv /\ RingOK(input) /\ Len(stage) <= Available(input)
  BY <1>1, NotBypass DEF SafeInv, FramesOK, RoomInv, Fetching
<1>3. Len(stage) \in 0..Available(input)
  BY <1>2, Numbers
<1>4. /\ RingOK(q) /\ q.read = input.read + Len(stage) /\ q.write = input.write
      /\ \A g : Holds(input, g) => Holds(q, g)
      /\ \A s : Written(input, s) => Written(q, s)
  BY <1>2, <1>3, ReadOK
<1> HIDE DEF q
<1>5. FramesOK' /\ WordsOK'
  BY <1>1, <1>4 DEF SafeInv, FramesOK, WordsOK
<1>6. RoomInv'
  BY <1>1 DEF RoomInv, Delivering, Fetching
<1>7. Taken' = Taken /\ Given' = Given /\ ~Delivering /\ ~Delivering' /\ OutGen' = OutGen
  <2>1. input'.read - Len(stage) = input.read
    BY <1>1, <1>4, Numbers
  <2> QED BY <1>1, <2>1 DEF Taken, Given, Delivering, Fetching, OutGen
<1>8. PipeInv'
  BY <1>1, <1>2, <1>4, <1>7 DEF PipeInv
<1>9. input.read <= input'.read /\ output.write <= output.write
  <2>1. input.read \in Nat /\ Len(stage) \in Nat
    BY Numbers
  <2>2. input.read <= input.read + Len(stage)
    BY <2>1
  <2> QED BY <1>1, <1>4, <2>2, Reflexive
<1> QED BY <1>1, <1>2, <1>4, <1>5, <1>6, <1>8, <1>9, WorkerKept

LEMMA SafeLook ==
  ASSUME SafeInv, Look \/ LookInput \/ ResampleIdle
  PROVE  SafeInv'
<1> USE DEF words, history, caller, locals, engines
<1>1. UNCHANGED <<words, input, output, caller, wgen, stage, made, engines, history>>
  BY DEF Look, LookInput, ResampleIdle
<1>2. made' \in Seq(Frames)
  BY <1>1 DEF SafeInv, FramesOK
<1>3. Between /\ Between' /\ wpc # "exit" /\ wpc' \in {"look-input", "process", "top"}
  BY DEF Between, Look, LookInput, ResampleIdle
<1>4. weof' \in BOOLEAN
  <2>1. weof \in BOOLEAN
    BY DEF SafeInv, WordsOK
  <2>2. CASE Look
    BY <2>2, Zenon DEF Look
  <2>3. CASE LookInput
    BY <2>3, Zenon DEF LookInput
  <2>4. CASE ResampleIdle
    BY <2>1, <2>4 DEF ResampleIdle
  <2> QED BY <2>2, <2>3, <2>4
<1>5. room' \in 0..Capacity /\ (wpc' # "top" => room' <= Capacity - Available(output))
  <2>1. CASE Look
    <3>1. Available(output) \in 0..Capacity /\ Capacity \in Nat
      BY Numbers
    <3>2. Capacity - Available(output) \in 0..Capacity
      BY <3>1
    <3>3. room' = Capacity - Available(output)
      BY <2>1 DEF Look
    <3> QED BY <3>1, <3>2, <3>3
  <2>2. CASE LookInput
    BY <2>2 DEF LookInput, SafeInv, WordsOK, RoomInv
  <2>3. CASE ResampleIdle
    BY <2>3 DEF ResampleIdle, SafeInv, WordsOK
  <2> QED BY <2>1, <2>2, <2>3
<1>6. WordsOK'
  BY <1>1, <1>3, <1>4, <1>5 DEF SafeInv, WordsOK
<1>7. RoomInv'
  BY <1>1, <1>3, <1>5 DEF RoomInv, Delivering, Fetching
<1> QED BY <1>1, <1>2, <1>3, <1>6, <1>7, PassStill

\* The engine takes frames of the stage and gives the first ones of what it holds.
LEMMA EngineGives ==
  ASSUME SafeInv, PipeInv, profile # "bypass", Between, wpc # "exit", child.state # "crashed",
         UNCHANGED <<profile, input, output, wgen>>, child'.state = child.state,
         NEW taken \in 0..Len(stage), NEW held, held = engine \o SubSeq(stage, 1, taken),
         NEW n \in 0..Len(held),
         stage' = SubSeq(stage, taken + 1, Len(stage)),
         made' = SubSeq(held, 1, n), engine' = SubSeq(held, n + 1, Len(held)),
         wpc' = AfterEngine
  PROVE  /\ PipeInv' /\ Len(made') = n
         /\ stage' \in Seq(Frames) /\ made' \in Seq(Frames) /\ engine' \in Seq(Frames)
<1>1. /\ stage \in Seq(Frames) /\ engine \in Seq(Frames) /\ Run(stage, wgen, Taken)
      /\ Run(engine, wgen, Given) /\ Given + Len(engine) = Taken /\ Given = output.write
      /\ Taken = input.read - Len(stage)
  BY DEF SafeInv, FramesOK, PipeInv, Between, Given, Taken, Delivering, Fetching
<1>2. Given \in Int /\ Taken \in Int
  <2>1. output.write \in Nat /\ input.read \in Nat /\ Len(stage) \in Nat
    BY Numbers
  <2> QED BY <1>1, <2>1
<1> DEFINE first == SubSeq(stage, 1, taken)
<1>3. /\ first \in Seq(Frames) /\ Len(first) = taken
      /\ stage' \in Seq(Frames) /\ Len(stage') = Len(stage) - taken
      /\ Run(first, wgen, Taken) /\ Run(stage', wgen, Taken + taken)
  BY <1>1, <1>2, SplitRun
<1> HIDE DEF first
<1>4. held \in Seq(Frames) /\ Len(held) = Len(engine) + taken /\ Run(held, wgen, Given)
  <2>1. held = engine \o first
    BY DEF first
  <2>2. Run(first, wgen, Given + Len(engine))
    BY <1>1, <1>3
  <2>3. /\ engine \o first \in Seq(Frames) /\ Len(engine \o first) = Len(engine) + Len(first)
        /\ Run(engine \o first, wgen, Given)
    BY <1>1, <1>2, <1>3, <2>2, ConcatRun
  <2> QED BY <1>3, <2>1, <2>3
<1>5. /\ made' \in Seq(Frames) /\ Len(made') = n
      /\ engine' \in Seq(Frames) /\ Len(engine') = Len(held) - n
      /\ Run(made', wgen, Given) /\ Run(engine', wgen, Given + n)
  BY <1>2, <1>4, SplitRun
<1>6. /\ wpc' \in {"settle", "ring-copy"}
      /\ wpc' = "settle" <=> made' = <<>>
  BY DEF AfterEngine
<1>7. n \in Nat /\ taken \in Nat /\ Len(engine) \in Nat /\ Len(stage) \in Nat /\ input.read \in Nat
  BY <1>4, Numbers
<1>8. Given' = Given + n
  <2>1. CASE made' = <<>>
    <3>1. n = 0
      BY <1>5, <2>1, EmptyFacts
    <3> QED BY <1>1, <1>2, <1>6, <2>1, <3>1 DEF Given, Delivering
  <2>2. CASE made' # <<>>
    BY <1>1, <1>5, <1>6, <2>2 DEF Given, Delivering
  <2> QED BY <2>1, <2>2
<1>9. Taken' = Taken + taken
  <2>1. Taken' = input.read - Len(stage')
    BY <1>6 DEF Taken, Fetching
  <2> QED BY <1>1, <1>3, <1>7, <2>1
<1>10. Given' + Len(engine') = Taken'
  <2>1. Len(engine') = Len(engine) + taken - n
    BY <1>4, <1>5
  <2>2. ASSUME NEW a \in Int, NEW b \in Nat PROVE (a + n) + (b + taken - n) = (a + b) + taken
    BY <1>7
  <2>3. (Given + n) + (Len(engine) + taken - n) = (Given + Len(engine)) + taken
    BY <1>2, <1>7, <2>2
  <2> QED BY <1>1, <1>8, <1>9, <2>1, <2>3
<1>11. /\ Run(stage', wgen, Taken') /\ Run(engine', wgen, Given')
       /\ Run(made', wgen, output.write) /\ Given' + Len(engine') <= Taken'
  BY <1>1, <1>2, <1>3, <1>5, <1>7, <1>8, <1>9, <1>10
<1>12. Holds(output', OutGen') /\ Holds(input', wgen')
  BY DEF PipeInv, OutGen
<1>13. PipeInv'
  BY <1>10, <1>11, <1>12 DEF PipeInv
<1> QED BY <1>3, <1>5, <1>13

\* What a pass goes on with when the engine has given at most what there is room for.
LEMMA RoomGiven ==
  ASSUME SafeInv, wpc \in {"process", "read"}, UNCHANGED <<output, room>>, wpc' = AfterEngine,
         Len(made') <= room
  PROVE  RoomInv'
<1>1. room <= Capacity - Available(output)
  BY DEF SafeInv, RoomInv
<1>2. wpc' \in {"settle", "ring-copy"}
  BY DEF AfterEngine
<1> QED BY <1>1, <1>2 DEF RoomInv, Delivering, Fetching

\* A step of the worker that may report an error.
LEMMA WordsReported ==
  ASSUME WordsOK, error' \in BOOLEAN, wpc' \in {"settle", "ring-copy"},
         UNCHANGED <<profile, generation, acknowledged, eof, done, stop, cpc, wgen, room, weof, child, pushed>>
  PROVE  WordsOK'
  BY DEF WordsOK

LEMMA SafeResample ==
  ASSUME SafeInv, Resample
  PROVE  SafeInv'
<1> USE DEF history, caller
<1>1. /\ wpc = "process" /\ profile = "low" /\ error' \in {error, TRUE} /\ wpc' = AfterEngine
      /\ UNCHANGED <<profile, generation, acknowledged, eof, done, stop, input, output, caller,
                     wgen, room, weof, child, history>>
  BY DEF Resample
<1>2. profile # "bypass" /\ child.state = "none" /\ PipeInv /\ Between /\ wpc # "exit"
  BY <1>1 DEF SafeInv, GenInv, Between
<1>3. PICK taken \in 0..Len(stage), n \in 0..Least(room, Block) :
        LET held == engine \o SubSeq(stage, 1, taken) IN
        /\ n <= Len(held)
        /\ stage' = SubSeq(stage, taken + 1, Len(stage))
        /\ made' = SubSeq(held, 1, n) /\ engine' = SubSeq(held, n + 1, Len(held))
  BY DEF Resample
<1> DEFINE held == engine \o SubSeq(stage, 1, taken)
<1>4. n \in Nat /\ n <= room
  <2>1. room \in Nat /\ Block \in Nat
    BY Numbers, ConstOK
  <2>2. Least(room, Block) \in Nat /\ Least(room, Block) <= room
    BY <2>1, LeastOf
  <2>3. n \in 0..Least(room, Block)
    BY <1>3
  <2> QED BY <2>1, <2>2, <2>3
<1>5. held \in Seq(Frames)
  <2>1. stage \in Seq(Frames) /\ engine \in Seq(Frames)
    BY DEF SafeInv, FramesOK
  <2>2. SubSeq(stage, 1, taken) \in Seq(Frames)
    BY <2>1, SplitRun
  <2> QED BY <2>1, <2>2, ConcatProperties
<1>6. n \in 0..Len(held)
  BY <1>3, <1>4, <1>5, LenProperties
<1>7. /\ PipeInv' /\ Len(made') = n
      /\ stage' \in Seq(Frames) /\ made' \in Seq(Frames) /\ engine' \in Seq(Frames)
  <2>1. /\ stage' = SubSeq(stage, taken + 1, Len(stage))
        /\ made' = SubSeq(held, 1, n) /\ engine' = SubSeq(held, n + 1, Len(held))
    BY <1>3
  <2>2. held = engine \o SubSeq(stage, 1, taken)
    OBVIOUS
  <2> HIDE DEF held
  <2>3. child.state # "crashed" /\ child'.state = child.state
    BY <1>1, <1>2
  <2> QED BY <1>1, <1>2, <1>6, <2>1, <2>2, <2>3, EngineGives
<1> HIDE DEF held
<1>8. wpc' \in {"settle", "ring-copy"}
  BY <1>1 DEF AfterEngine
<1>9. WordsOK' /\ FramesOK'
  <2>1. WordsOK'
    <3>1. WordsOK /\ error \in BOOLEAN
      BY DEF SafeInv, WordsOK
    <3>2. error' \in BOOLEAN
      BY <1>1, <3>1
    <3> QED BY <1>1, <1>8, <3>1, <3>2, WordsReported
  <2>2. FramesOK'
    BY <1>1, <1>7 DEF SafeInv, FramesOK
  <2> QED BY <2>1, <2>2
<1>10. RoomInv'
  BY <1>1, <1>4, <1>7, RoomGiven
<1>11. input.read <= input.read /\ output.write <= output.write
  BY Reflexive
<1> QED BY <1>1, <1>2, <1>7, <1>8, <1>9, <1>10, <1>11, WorkerKept

LEMMA SafePipeWrite ==
  ASSUME SafeInv, PipeWrite
  PROVE  SafeInv'
<1> USE DEF history, caller
<1>1. /\ wpc = "process" /\ profile = "sox" /\ wpc' = "read"
      /\ child' = [child EXCEPT !.in = @ /\ ~weof]
      /\ UNCHANGED <<profile, generation, acknowledged, eof, done, stop, input, output, caller,
                     wgen, made, room, weof, history>>
  BY DEF PipeWrite
<1>2. /\ profile # "bypass" /\ PipeInv /\ stage \in Seq(Frames) /\ engine \in Seq(Frames)
      /\ made' \in Seq(Frames)
  BY <1>1 DEF SafeInv, FramesOK
<1>3. /\ child' \in [state : {"none", "running", "exited", "crashed"}, in : BOOLEAN, out : BOOLEAN]
      /\ child'.state = child.state
  <2> DEFINE b == child.in /\ ~weof
  <2>1. b \in BOOLEAN
    BY Zenon
  <2>2. child' = [child EXCEPT !.in = b]
    BY <1>1
  <2> HIDE DEF b
  <2> QED BY <2>1, <2>2 DEF SafeInv, WordsOK
<1>4. error' \in BOOLEAN
  BY DEF PipeWrite, SafeInv, WordsOK
<1>5. WordsOK'
  BY <1>1, <1>3, <1>4 DEF SafeInv, WordsOK
<1>6. RoomInv'
  BY <1>1 DEF SafeInv, RoomInv, Delivering, Fetching
<1>7. Between /\ Between' /\ wpc # "exit"
  BY <1>1 DEF Between
<1>8. CASE UNCHANGED <<engine, stage>>
  BY <1>1, <1>2, <1>3, <1>5, <1>6, <1>7, <1>8, PassStill
<1>9. ASSUME child.state = "running", NEW n \in 0..Len(stage), engine' = engine \o SubSeq(stage, 1, n),
             stage' = SubSeq(stage, n + 1, Len(stage))
      PROVE  SafeInv'
  <2>1. /\ Run(stage, wgen, Taken) /\ Run(engine, wgen, Given) /\ Given + Len(engine) = Taken
        /\ Given = output.write /\ Taken = input.read - Len(stage)
    BY <1>1, <1>2, <1>9 DEF PipeInv, Given, Taken, Delivering, Fetching
  <2>2. Given \in Int /\ Taken \in Int /\ n \in Nat
    <3>1. output.write \in Nat /\ input.read \in Nat /\ Len(stage) \in Nat
      BY Numbers
    <3> QED BY <2>1, <3>1
  <2> DEFINE first == SubSeq(stage, 1, n)
  <2>3. /\ first \in Seq(Frames) /\ Len(first) = n
        /\ stage' \in Seq(Frames) /\ Len(stage') = Len(stage) - n
        /\ Run(first, wgen, Taken) /\ Run(stage', wgen, Taken + n)
    BY <1>2, <1>9, <2>1, <2>2, SplitRun
  <2>4. engine' = engine \o first
    BY <1>9
  <2> HIDE DEF first
  <2>5. Run(first, wgen, Given + Len(engine))
    BY <2>1, <2>3
  <2>6. engine' \in Seq(Frames) /\ Len(engine') = Len(engine) + n /\ Run(engine', wgen, Given)
    <3>1. /\ engine \o first \in Seq(Frames) /\ Len(engine \o first) = Len(engine) + Len(first)
          /\ Run(engine \o first, wgen, Given)
      <4>1. engine \in Seq(Frames) /\ first \in Seq(Frames) /\ Given \in Int
        BY <1>2, <2>2, <2>3
      <4>2. engine \o first \in Seq(Frames) /\ Len(engine \o first) = Len(engine) + Len(first)
        BY <4>1, ConcatRun
      <4>3. Run(engine \o first, wgen, Given)
        BY <2>1, <2>5, <4>1, ConcatRun
      <4> QED BY <4>2, <4>3
    <3> QED BY <2>3, <2>4, <3>1
  <2>7. FramesOK'
    BY <1>1, <2>3, <2>6 DEF SafeInv, FramesOK
  <2>8. Given' = Given /\ ~Delivering /\ ~Delivering' /\ OutGen' = OutGen
    BY <1>1 DEF Given, Delivering, OutGen
  <2>9. Taken' = Taken + n
    <3>1. Taken' = input.read - Len(stage')
      BY <1>1 DEF Taken, Fetching
    <3>2. input.read \in Nat /\ Len(stage) \in Nat
      BY Numbers
    <3> QED BY <2>1, <2>2, <2>3, <3>1, <3>2
  <2>10. Given' + Len(engine') = Taken'
    <3>1. Len(engine) \in Nat
      BY Numbers
    <3> QED BY <2>1, <2>2, <2>6, <2>8, <2>9, <3>1
  <2>11. Given' + Len(engine') <= Taken'
    BY <2>2, <2>9, <2>10
  <2>12. PipeInv'
    BY <1>1, <1>2, <2>3, <2>6, <2>8, <2>9, <2>10, <2>11 DEF PipeInv
  <2>13. input.read <= input.read /\ output.write <= output.write
    BY Reflexive
  <2> QED BY <1>1, <1>2, <1>3, <1>5, <1>6, <2>7, <2>12, <2>13, WorkerKept
<1>10. \/ UNCHANGED <<engine, stage>>
       \/ /\ child.state = "running"
          /\ \E n \in 0..Len(stage) : /\ engine' = engine \o SubSeq(stage, 1, n)
                                      /\ stage' = SubSeq(stage, n + 1, Len(stage))
  <2>1. CASE ~UNCHANGED <<engine, stage>>
    <3>1. PICK n \in IF Len(engine) < Pipe THEN 1..Least(Len(stage), Pipe - Len(engine)) ELSE {0} :
            /\ child.state = "running" /\ engine' = engine \o SubSeq(stage, 1, n)
            /\ stage' = SubSeq(stage, n + 1, Len(stage))
      BY <2>1 DEF PipeWrite
    <3>2. n \in 0..Len(stage)
      <4>1. Len(stage) \in Nat /\ Len(engine) \in Nat /\ Pipe \in Nat
        BY Numbers, ConstOK
      <4>2. CASE Len(engine) < Pipe
        <5>1. Pipe - Len(engine) \in Nat
          BY <4>1, <4>2
        <5> DEFINE l == Least(Len(stage), Pipe - Len(engine))
        <5>2. l \in Nat /\ l <= Len(stage)
          BY <4>1, <5>1, LeastOf
        <5>3. n \in 1..l
          BY <3>1, <4>2
        <5> HIDE DEF l
        <5> QED BY <4>1, <5>2, <5>3
      <4>3. CASE ~(Len(engine) < Pipe)
        BY <3>1, <4>1, <4>3
      <4> QED BY <4>2, <4>3
    <3> QED BY <3>1, <3>2
  <2> QED BY <2>1
<1> QED BY <1>8, <1>9, <1>10

LEMMA SafePipeData ==
  ASSUME SafeInv, PipeData
  PROVE  SafeInv'
<1> USE DEF words, history, caller
<1>1. /\ wpc = "read" /\ wpc' = AfterEngine
      /\ UNCHANGED <<words, input, output, caller, wgen, stage, room, weof, child, history>>
  BY DEF PipeData
<1>2. /\ profile # "bypass" /\ PipeInv /\ stage \in Seq(Frames) /\ engine \in Seq(Frames)
  BY <1>1, NotBypass DEF SafeInv, FramesOK
<1>3. PICK n \in 1..Least(room, Block) :
        n <= Len(engine) /\ made' = SubSeq(engine, 1, n) /\ engine' = SubSeq(engine, n + 1, Len(engine))
  BY DEF PipeData
<1>4. n \in 0..Len(engine) /\ n <= room /\ n > 0 /\ n \in Nat
  <2>1. room \in Nat /\ Block \in Nat /\ Len(engine) \in Nat
    BY Numbers, ConstOK
  <2>2. Least(room, Block) \in Nat /\ Least(room, Block) <= room
    BY <2>1, LeastOf
  <2>3. n \in 1..Least(room, Block) /\ n <= Len(engine)
    BY <1>3
  <2> QED BY <2>1, <2>2, <2>3
<1>5. /\ Run(engine, wgen, Given) /\ Given + Len(engine) <= Taken
      /\ child.state # "crashed" => Given + Len(engine) = Taken
      /\ Given = output.write /\ Given \in Int
  BY <1>1, <1>2, Numbers DEF PipeInv, Given, Delivering
<1>6. /\ made' \in Seq(Frames) /\ Len(made') = n
      /\ engine' \in Seq(Frames) /\ Len(engine') = Len(engine) - n
      /\ Run(made', wgen, Given) /\ Run(engine', wgen, Given + n)
  BY <1>2, <1>3, <1>4, <1>5, SplitRun
<1>7. made' # <<>> /\ wpc' = "ring-copy"
  BY <1>1, <1>4, <1>6, EmptyFacts DEF AfterEngine
<1>8. Given' = Given + n /\ Taken' = Taken /\ OutGen' = OutGen
  BY <1>1, <1>5, <1>6, <1>7 DEF Given, Taken, Delivering, Fetching, OutGen
<1>9. Given' + Len(engine') = Given + Len(engine)
  <2>1. Len(engine) \in Nat
    BY Numbers
  <2>2. Given' = Given + n /\ Len(engine') = Len(engine) - n /\ n \in Nat /\ Given \in Int
    BY <1>4, <1>5, <1>6, <1>8
  <2> QED BY <2>1, <2>2
<1>10. PipeInv'
  BY <1>1, <1>2, <1>5, <1>6, <1>8, <1>9 DEF PipeInv
<1>11. WordsOK' /\ FramesOK'
  BY <1>1, <1>6, <1>7 DEF SafeInv, WordsOK, FramesOK
<1>12. RoomInv'
  BY <1>1, <1>4, <1>6, RoomGiven
<1>13. input.read <= input.read /\ output.write <= output.write
  BY Reflexive
<1> QED BY <1>1, <1>2, <1>7, <1>10, <1>11, <1>12, <1>13, WorkerKept

LEMMA SafePipeEmpty ==
  ASSUME SafeInv, PipeEmpty
  PROVE  SafeInv'
<1> USE DEF words, history, caller, locals
<1> DEFINE b == child.out /\ (room = 0 \/ child.state = "running")
<1>1. /\ wpc = "read" /\ wpc' = "settle" /\ child' = [child EXCEPT !.out = b]
      /\ UNCHANGED <<words, input, output, caller, locals, engine, history>>
  BY DEF PipeEmpty
<1>2. b \in BOOLEAN
  BY Zenon
<1> HIDE DEF b
<1>3. /\ child' \in [state : {"none", "running", "exited", "crashed"}, in : BOOLEAN, out : BOOLEAN]
      /\ child'.state = child.state
  BY <1>1, <1>2 DEF SafeInv, WordsOK
<1>4. WordsOK' /\ made' \in Seq(Frames)
  BY <1>1, <1>3 DEF SafeInv, WordsOK, FramesOK
<1>5. RoomInv'
  BY <1>1 DEF RoomInv, Delivering, Fetching
<1> QED BY <1>1, <1>3, <1>4, <1>5, PassStill DEF Between

LEMMA SafeRingCopy ==
  ASSUME SafeInv, RingCopy
  PROVE  SafeInv'
<1> USE DEF words, history, caller, locals, engines
<1> DEFINE q == Put(output, made)
<1>1. /\ wpc = "ring-copy" /\ wpc' = "ring-publish" /\ output' = q
      /\ UNCHANGED <<words, input, caller, locals, engines, history>>
  BY DEF RingCopy
<1>2. /\ profile # "bypass" /\ PipeInv /\ RingOK(output) /\ made \in Seq(Frames)
      /\ Len(made) <= room /\ room <= Capacity - Available(output)
  BY <1>1, NotBypass DEF SafeInv, FramesOK, RoomInv, Delivering
<1>3. Available(output) + Len(made) <= Capacity
  BY <1>2, Numbers
<1>4. /\ RingOK(q) /\ q.read = output.read /\ q.write = output.write /\ Written(q, made)
      /\ \A g : Holds(output, g) => Holds(q, g)
  BY <1>2, <1>3, PutOK
<1> HIDE DEF q
<1>5. WordsOK' /\ FramesOK'
  BY <1>1, <1>4 DEF SafeInv, WordsOK, FramesOK
<1>6. Available(output') = Available(output)
  BY <1>1, <1>4 DEF Available
<1>7. RoomInv'
  BY <1>1, <1>2, <1>4, <1>6 DEF RoomInv, Fetching
<1>8. Given' = Given /\ Taken' = Taken /\ OutGen' = OutGen /\ Delivering /\ Delivering'
  BY <1>1, <1>4 DEF Given, Taken, Delivering, Fetching, OutGen
<1>9. PipeInv'
  BY <1>1, <1>2, <1>4, <1>8 DEF PipeInv
<1>10. input.read <= input.read /\ output.write <= output'.write
  BY <1>1, <1>4, Reflexive
<1> QED BY <1>1, <1>2, <1>4, <1>5, <1>7, <1>9, <1>10, WorkerKept

LEMMA SafeRingPublish ==
  ASSUME SafeInv, RingPublish
  PROVE  SafeInv'
<1> USE DEF words, history, caller, locals, engines
<1> DEFINE q == [output EXCEPT !.write = @ + Len(made)]
<1>1. /\ wpc = "ring-publish" /\ wpc' = "settle" /\ output' = q
      /\ UNCHANGED <<words, input, caller, locals, engines, history>>
  BY DEF RingPublish
<1>2. /\ profile # "bypass" /\ PipeInv /\ RingOK(output) /\ made \in Seq(Frames)
      /\ Len(made) <= room /\ room <= Capacity - Available(output) /\ Written(output, made)
  BY <1>1, NotBypass DEF SafeInv, FramesOK, RoomInv, Delivering
<1>3. Available(output) + Len(made) <= Capacity
  BY <1>2, Numbers
<1>4. /\ Given = output.write + Len(made) /\ Taken = input.read - Len(stage)
      /\ Given + Len(engine) <= Taken /\ Run(made, wgen, output.write) /\ Holds(output, wgen)
  BY <1>1, <1>2 DEF PipeInv, Given, Taken, Delivering, Fetching, OutGen
<1>5. output.write + Len(made) <= MaxFrames
  <2>1. /\ output.write \in Nat /\ Len(made) \in Nat /\ input.read \in Nat /\ Len(stage) \in Nat
        /\ Len(engine) \in Nat /\ input.read <= input.write /\ input.write <= MaxFrames
        /\ input.write \in Nat /\ MaxFrames \in Nat
    BY Numbers
  <2> QED BY <1>4, <2>1
<1>6. /\ RingOK(q) /\ q.read = output.read /\ q.write = output.write + Len(made) /\ Holds(q, wgen)
  BY <1>2, <1>3, <1>4, <1>5, PublishOK
<1> HIDE DEF q
<1>7. WordsOK' /\ FramesOK'
  BY <1>1, <1>6 DEF SafeInv, WordsOK, FramesOK
<1>8. RoomInv'
  BY <1>1 DEF RoomInv, Delivering, Fetching
<1>9. Given' = Given /\ Taken' = Taken /\ OutGen' = wgen /\ ~Delivering'
  BY <1>1, <1>2, <1>4, <1>6 DEF Given, Taken, Delivering, Fetching, OutGen
<1>10. PipeInv'
  BY <1>1, <1>2, <1>6, <1>9 DEF PipeInv
<1>11. input.read <= input.read /\ output.write <= output'.write
  <2>1. output.write \in Nat /\ Len(made) \in Nat
    BY Numbers
  <2>2. output.write <= output.write + Len(made)
    BY <2>1
  <2> QED BY <1>1, <1>6, <2>2, Reflexive
<1> QED BY <1>1, <1>2, <1>6, <1>7, <1>8, <1>10, <1>11, WorkerKept

LEMMA SafeSettle ==
  ASSUME SafeInv, Settle
  PROVE  SafeInv'
<1> USE DEF history, caller, engines
<1>1. /\ wpc = "settle" /\ wpc' = "top" /\ made' = <<>> /\ done' \in {wgen, done}
      /\ error' = (error \/ child.state = "crashed")
      /\ UNCHANGED <<profile, generation, acknowledged, eof, stop, input, output, caller,
                     wgen, stage, room, weof, engines, history>>
  BY DEF Settle
<1>2. error' \in BOOLEAN
  BY <1>1, Zenon
<1>3. WordsOK' /\ made' \in Seq(Frames)
  BY <1>1, <1>2, EmptyFacts DEF SafeInv, WordsOK
<1>4. RoomInv'
  BY <1>1 DEF RoomInv, Delivering, Fetching
<1> QED BY <1>1, <1>3, <1>4, PassStill DEF Between

-----------------------------------------------------------------------------
(* The SoX process *)

LEMMA SafeChild ==
  ASSUME SafeInv, ChildExits \/ ChildCrashes
  PROVE  SafeInv'
<1> USE DEF words, history, caller, locals
<1>1. /\ child.state = "running" /\ UNCHANGED <<words, input, output, caller, wpc, locals, history>>
      /\ \/ child' = [child EXCEPT !.state = "exited"] /\ engine' = engine
         \/ /\ child' = [child EXCEPT !.state = "crashed"]
            /\ \E n \in 0..Len(engine) : engine' = SubSeq(engine, 1, n)
  BY DEF ChildExits, ChildCrashes
<1>2. profile = "sox" /\ engine \in Seq(Frames)
  BY <1>1 DEF SafeInv, GenInv, FramesOK
<1>3. /\ child' \in [state : {"none", "running", "exited", "crashed"}, in : BOOLEAN, out : BOOLEAN]
      /\ child'.state = "exited" \/ child'.state = "crashed"
      /\ child'.state = "exited" => engine' = engine
  BY <1>1 DEF SafeInv, WordsOK
<1>4. PICK n \in 0..Len(engine) : engine' = SubSeq(engine, 1, n)
  <2>1. SubSeq(engine, 1, Len(engine)) = engine /\ Len(engine) \in 0..Len(engine)
    BY <1>2, SubSeqFull, LenProperties
  <2> QED BY <1>1, <2>1
<1>5. /\ engine' \in Seq(Frames) /\ Len(engine') = n /\ n <= Len(engine) /\ n \in Nat
      /\ \A g : \A b \in Int : Run(engine, g, b) => Run(engine', g, b)
  <2>1. /\ SubSeq(engine, 1, n) \in Seq(Frames) /\ Len(SubSeq(engine, 1, n)) = n
        /\ \A g : \A b \in Int : Run(engine, g, b) => Run(SubSeq(engine, 1, n), g, b)
    BY <1>2, SplitRun
  <2> QED BY <1>4, <2>1, Numbers
<1>6. WordsOK' /\ FramesOK' /\ GenInv'
  BY <1>1, <1>2, <1>3, <1>5 DEF SafeInv, WordsOK, FramesOK, GenInv, Ready
<1>7. RoomInv' /\ CallerInv'
  BY <1>1 DEF SafeInv, RoomInv, CallerInv, Delivering, Fetching, Target, Ready
<1>8. ASSUME wpc' # "clear" PROVE PipeInv'
  <2>1. PipeInv
    BY <1>1, <1>8 DEF SafeInv
  <2>2. Given' = Given /\ Taken' = Taken /\ Delivering' = Delivering /\ OutGen' = OutGen
    BY <1>1 DEF Given, Taken, Delivering, Fetching, OutGen
  <2>3. Given \in Int /\ Taken \in Int
    <3>1. /\ Given = output.write \/ Given = output.write + Len(made)
          /\ Taken = input.read \/ Taken = input.read - Len(stage)
      BY DEF Given, Taken
    <3>2. output.write \in Nat /\ Len(made) \in Nat /\ input.read \in Nat /\ Len(stage) \in Nat
      BY Numbers
    <3> QED BY <3>1, <3>2
  <2>4. Given + n <= Taken
    BY <1>2, <1>5, <2>1, <2>3, Numbers DEF PipeInv
  <2>5. Run(engine', wgen, Given)
    BY <1>2, <1>5, <2>1, <2>3 DEF PipeInv
  <2>6. child'.state # "crashed" /\ wpc # "exit" => Given + Len(engine') = Taken
    BY <1>1, <1>2, <1>3, <2>1 DEF PipeInv
  <2> QED BY <1>1, <1>2, <1>5, <2>1, <2>2, <2>4, <2>5, <2>6 DEF PipeInv
<1> QED BY <1>6, <1>7, <1>8 DEF SafeInv

-----------------------------------------------------------------------------
LEMMA SafeInit == Init => SafeInv
<1> SUFFICES ASSUME Init PROVE SafeInv
  OBVIOUS
<1>1. /\ input = EmptyRing /\ output = EmptyRing /\ cpc = "idle" /\ batch = <<>> /\ stage = <<>>
      /\ made = <<>> /\ engine = <<>> /\ got = <<>> /\ pushed = 0 /\ wgen = 0 /\ room = 0
      /\ wpc = (IF profile = "bypass" THEN "none" ELSE "top") /\ generation = 1 /\ child = NoChild
      /\ acknowledged = (IF profile = "bypass" THEN 1 ELSE 0)
      /\ profile \in Profiles /\ eof = 0 /\ done = 0 /\ error = FALSE /\ stop = FALSE /\ weof = FALSE
  BY DEF Init
<1>2. child \in [state : {"none", "running", "exited", "crashed"}, in : BOOLEAN, out : BOOLEAN]
      /\ child.state = "none"
  BY <1>1 DEF NoChild
<1>3. /\ 0 \in 0..MaxGen /\ 1 \in 0..MaxGen /\ 1 \in 1..MaxGen /\ 0 \in 0..Capacity /\ 0 \in 0..MaxFrames
  BY SrcAssumption
<1>4. WordsOK
  BY <1>1, <1>2, <1>3 DEF WordsOK
<1>5. FramesOK
  BY <1>1, EmptyFacts DEF FramesOK
<1>6. GenInv
  BY <1>1, <1>2 DEF GenInv, Ready
<1>7. Len(got) = 0 /\ Len(stage) = 0 /\ Len(engine) = 0 /\ output.read = 0 /\ output.write = 0
      /\ input.read = 0 /\ input.write = 0
  BY <1>1, EmptyFacts
<1>8. CallerInv
  BY <1>1, <1>7, EmptyFacts DEF CallerInv, Target
<1>9. RoomInv
  BY <1>1 DEF RoomInv, Delivering, Fetching
<1>10. PipeInv
  <2>1. Given = 0 /\ Taken = 0 /\ ~Delivering
    <3>1. Taken = input.read - Len(stage) /\ Given = output.write /\ ~Delivering
      BY <1>1 DEF Given, Taken, Delivering, Fetching
    <3>2. Taken = 0 - 0
      BY <1>7, <3>1
    <3> QED BY <1>7, <3>1, <3>2
  <2> QED BY <1>1, <1>7, <2>1, EmptyFacts DEF PipeInv
<1> QED BY <1>4, <1>5, <1>6, <1>8, <1>9, <1>10 DEF SafeInv

LEMMA SafeNext == SafeInv /\ [Next]_vars => SafeInv'
<1> SUFFICES ASSUME SafeInv, [Next]_vars PROVE SafeInv'
  OBVIOUS
<1>1. CASE \E n \in 1..Capacity : Push(n) \/ Pull(n)
  BY <1>1, SafePush, SafePull
<1>2. CASE Finish \/ Reset \/ Destroy \/ Join
  BY <1>2, SafeMarks
<1>3. CASE PushCopy \/ PushPublish \/ PullPublish \/ ResetRaise
  BY <1>3, SafePushCopy, SafePushPublish, SafePullPublish, SafeResetRaise
<1>4. CASE Worker
  BY <1>4, SafeTop, SafeClear, SafeStart, SafeFetch, SafeFetchPublish, SafeLook, SafeResample,
     SafePipeWrite, SafePipeData, SafePipeEmpty, SafeRingCopy, SafeRingPublish, SafeSettle DEF Worker
<1>5. CASE ChildExits \/ ChildCrashes
  BY <1>5, SafeChild
<1>6. CASE UNCHANGED vars
  <2>1. UNCHANGED <<profile, generation, acknowledged, eof, done, error, stop, input, output, cpc, batch,
                    wpc, wgen, stage, made, room, weof, engine, child, pushed, got>>
    BY <1>6 DEF vars, words, caller, locals, engines, history
  <2>2. WordsOK' /\ FramesOK' /\ GenInv' /\ CallerInv'
    BY <2>1 DEF SafeInv, WordsOK, FramesOK, GenInv, CallerInv, Ready, Target
  <2>3. OutGen' = OutGen
    BY <2>1 DEF OutGen
  <2> QED BY <2>1, <2>2, <2>3, CallerStill
<1> QED BY <1>1, <1>2, <1>3, <1>4, <1>5, <1>6 DEF Next, Pulls, Continue, Freed

\* The rings keep their bounds, and what the PipeWire thread pulls are the frames it
\* pushed in this generation, in order and each once, however the two threads, resets
\* and the death of SoX interleave.
THEOREM FramesAlwaysSafe == Spec => []FramesSafe
<1>1. SafeInv => FramesSafe
  <2> SUFFICES ASSUME SafeInv PROVE FramesSafe
    OBVIOUS
  <2>1. \A r \in {input, output} :
          /\ r.read \in 0..MaxFrames /\ r.write \in r.read..MaxFrames /\ Available(r) <= Capacity
          /\ r.data \in [0..Capacity - 1 -> Frames]
    <3>1. ASSUME NEW r, RingOK(r)
          PROVE  /\ r.read \in 0..MaxFrames /\ r.write \in r.read..MaxFrames /\ Available(r) <= Capacity
                 /\ r.data \in [0..Capacity - 1 -> Frames]
      <4>1. r.read \in Nat /\ r.write \in Nat /\ r.read <= r.write /\ r.write <= MaxFrames
            /\ Available(r) \in 0..Capacity
        BY <3>1, RingNums
      <4>2. r.data \in [0..Capacity - 1 -> Frames]
        BY <3>1 DEF RingOK
      <4> QED BY <4>1, <4>2, ConstOK
    <3> QED BY <3>1 DEF SafeInv, FramesOK
  <2>2. TypeOK
    BY <2>1 DEF SafeInv, WordsOK, FramesOK, TypeOK
  <2>3. InOrder
    <3>1. got \in Seq(Frames) /\ Run(got, generation, 0)
      BY DEF SafeInv, FramesOK, CallerInv
    <3>2. ASSUME NEW k \in DOMAIN got PROVE got[k] = <<generation, k>>
      <4>1. k \in 1..Len(got) /\ 0 + k = k
        BY <3>1, LenProperties
      <4> QED BY <3>1, <4>1 DEF Run
    <3> QED BY <3>2 DEF InOrder
  <2> QED BY <2>2, <2>3 DEF FramesSafe
<1> QED BY <1>1, SafeInit, SafeNext, PTL DEF Spec

-----------------------------------------------------------------------------
(* Complete: what is done was delivered *)

LEMMA GenNums ==
  ASSUME SafeInv
  PROVE  /\ generation \in Nat /\ generation > 0 /\ wgen \in Nat /\ done \in Nat /\ eof \in Nat
         /\ profile # "bypass" => wgen <= generation
  BY ConstOK DEF SafeInv, WordsOK, GenInv

\* Steps of the caller: an end that the worker may have seen stays one.
LEMMA EndCaller ==
  ASSUME SafeInv, EndInv, MarkInv', UNCHANGED <<profile, wpc, wgen, stage, made, weof, engine, child>>,
         profile # "bypass" =>
           /\ UNCHANGED <<done, error>> /\ output'.write = output.write
           /\ Closed => Closed' /\ input' = input
  PROVE  EndInv'
<1> SUFFICES ASSUME profile # "bypass" PROVE ChildInv' /\ DoneInv'
  BY DEF EndInv
<1>1. SeenAll => SeenAll'
  BY DEF SeenAll
<1>2. ChildInv'
  BY <1>1 DEF EndInv, ChildInv
<1>3. DoneInv'
  BY <1>1 DEF EndInv, DoneInv, Delivering
<1> QED BY <1>2, <1>3

\* A caller that pushes has not ended the stream.
LEMMA PushOpen ==
  ASSUME SafeInv, EndInv, profile # "bypass",
         cpc \in {"push", "pushed"} \/ (cpc = "idle" /\ Ready /\ eof # generation)
  PROVE  ~Closed
<1>1. Ready
  BY DEF SafeInv, GenInv
<1>2. wgen = generation
  BY <1>1, ReadyFacts
<1>3. eof # generation /\ cpc # "reset"
  BY DEF EndInv, MarkInv
<1> QED BY <1>2, <1>3, GenNums DEF Closed

LEMMA EndPush ==
  ASSUME SafeInv, EndInv, (\E n \in 1..Capacity : Push(n)) \/ PushCopy \/ PushPublish
  PROVE  EndInv'
<1> USE DEF words, locals, engines, history
<1>1. /\ UNCHANGED <<profile, generation, eof, stop, done, error, wpc, wgen, stage, made, weof, engine, child>>
      /\ cpc' \in {"push", "pushed", "idle"}
      /\ cpc \in {"push", "pushed"} \/ (cpc = "idle" /\ Ready /\ eof # generation)
      /\ cpc' = "idle" \/ eof # generation
      /\ profile # "bypass" => output' = output
  BY DEF Push, PushCopy, PushPublish, SetTarget, EndInv, MarkInv
<1>2. profile # "bypass" => ~Closed
  BY <1>1, PushOpen
<1>3. MarkInv'
  BY <1>1 DEF EndInv, MarkInv
<1> QED BY <1>1, <1>2, <1>3, EndCaller

LEMMA EndPull ==
  ASSUME SafeInv, EndInv, (\E n \in 1..Capacity : Pull(n)) \/ PullPublish \/ Join
  PROVE  EndInv'
<1> USE DEF words, locals, engines, history
<1>1. /\ UNCHANGED <<profile, generation, eof, stop, done, error, wpc, wgen, stage, made, weof, engine, child, input>>
      /\ cpc \in {"idle", "pull", "join"} /\ cpc' \in {"pull", "idle", "freed"}
      /\ (cpc = "join" <=> cpc' = "freed")
      /\ output' = output \/ output' = [output EXCEPT !.read = @ + Len(batch)]
  BY DEF Pull, PullPublish, Join
<1>2. output'.write = output.write
  BY <1>1 DEF SafeInv, FramesOK, RingOK
<1>3. MarkInv'
  BY <1>1 DEF EndInv, MarkInv
<1>4. Closed => Closed'
  BY <1>1 DEF Closed
<1> QED BY <1>1, <1>2, <1>3, <1>4, EndCaller

LEMMA EndMarks ==
  ASSUME SafeInv, EndInv, Finish \/ Reset \/ Destroy
  PROVE  EndInv'
<1> USE DEF words, locals, engines, history, caller
<1>1. /\ UNCHANGED <<profile, generation, error, input, output, wpc, wgen, stage, made, weof, engine, child>>
      /\ cpc = "idle" /\ (profile # "bypass" => done' = done)
      /\ \/ eof' = generation /\ cpc' = cpc /\ stop' = stop
         \/ eof' = 0 /\ cpc' = "reset" /\ stop' = stop
         \/ eof' = eof /\ cpc' = "join"
  BY DEF Finish, Reset, Destroy
<1>2. MarkInv'
  <2>1. ~stop
    BY <1>1 DEF EndInv, MarkInv
  <2>2. wpc # "exit"
    BY <2>1 DEF EndInv, MarkInv
  <2> QED BY <1>1, <2>1, <2>2, GenNums DEF EndInv, MarkInv
<1>3. Closed => Closed'
  BY <1>1 DEF Closed
<1> QED BY <1>1, <1>2, <1>3, EndCaller

LEMMA EndResetRaise ==
  ASSUME SafeInv, EndInv, ResetRaise
  PROVE  EndInv'
<1> USE DEF words, locals, engines, history, caller
<1>1. /\ cpc = "reset" /\ cpc' = "idle" /\ generation' = generation + 1
      /\ UNCHANGED <<profile, eof, stop, batch, wpc, wgen, stage, made, weof, engine, child>>
      /\ profile # "bypass" => UNCHANGED <<input, output, done, error>>
  BY DEF ResetRaise
<1>2. eof <= generation
  BY DEF EndInv, MarkInv
<1>3. eof <= generation' /\ eof # generation'
  BY <1>1, <1>2, GenNums
<1>4. MarkInv'
  BY <1>1, <1>3 DEF EndInv, MarkInv
<1>5. profile # "bypass" => wgen < generation'
  BY <1>1, GenNums
<1>6. profile # "bypass" => Closed'
  BY <1>1, <1>5 DEF Closed
<1> QED BY <1>1, <1>4, <1>6, EndCaller

\* Inside a pass nothing is done yet, and SoX has been started.
LEMMA PassFacts ==
  ASSUME SafeInv, EndInv, wpc \notin {"none", "top", "clear", "start", "exit"}
  PROVE  /\ profile # "bypass" /\ ChildInv /\ DoneInv /\ MarkInv
         /\ done <= wgen /\ ~(done = wgen /\ wgen > 0)
         /\ profile = "sox" => child.state # "none"
         /\ profile # "sox" => child.state = "none"
<1>1. profile # "bypass"
  BY NotBypass
<1>2. ChildInv /\ DoneInv /\ MarkInv
  BY <1>1 DEF EndInv
<1>3. profile # "sox" => child.state = "none"
  BY DEF SafeInv, GenInv
<1> QED BY <1>1, <1>2, <1>3 DEF ChildInv, DoneInv

\* Steps inside a pass that end in the same pass.
LEMMA PassEnd ==
  ASSUME SafeInv, EndInv, wpc \notin {"none", "top", "clear", "start", "exit"},
         UNCHANGED <<profile, generation, eof, stop, cpc, done, wgen>>,
         wpc' \notin {"none", "clear", "start", "exit"},
         child'.state = child.state, SeenAll => stage' = stage /\ input'.read = input.read,
         input'.write = input.write,
         profile = "sox" =>
           /\ ~child'.in => ~child.in \/ SeenAll
           /\ ~child.in => ~child'.in
           /\ ~child'.out => child.state # "running" /\ engine' = <<>>,
         wpc' = "look-input" /\ weof' => Closed,
         wpc' \in {"process", "read", "ring-copy", "ring-publish", "settle"} /\ weof' => SeenAll,
         wpc' = "settle" /\ profile = "low" /\ weof' /\ made' = <<>> => engine' = <<>>,
         Delivering' => made' # <<>>,
         wpc' = "read" => profile = "sox"
  PROVE  EndInv'
<1>1. /\ profile # "bypass" /\ ChildInv /\ DoneInv /\ MarkInv
      /\ done <= wgen /\ ~(done = wgen /\ wgen > 0)
      /\ profile = "sox" => child.state # "none"
      /\ profile # "sox" => child.state = "none"
  BY PassFacts
<1>2. Closed' = Closed
  BY DEF Closed
<1>3. SeenAll => SeenAll'
  BY <1>2 DEF SeenAll
<1>4. MarkInv'
  BY <1>1 DEF MarkInv
<1>5. ChildInv'
  BY <1>1, <1>3 DEF ChildInv
<1>6. DoneInv'
  BY <1>1, <1>2, <1>3 DEF DoneInv
<1> QED BY <1>4, <1>5, <1>6 DEF EndInv

LEMMA EndTop ==
  ASSUME SafeInv, EndInv, Top
  PROVE  EndInv'
<1> USE DEF words, history, caller
<1>1. /\ wpc = "top"
      /\ UNCHANGED <<words, input, output, caller, stage, made, room, weof, engine, history>>
  BY DEF Top
<1>2. profile # "bypass" /\ ChildInv /\ DoneInv /\ MarkInv
  BY <1>1, NotBypass DEF EndInv
<1>3. CASE stop /\ wpc' = "exit" /\ child' = NoChild /\ wgen' = wgen
  <2>1. child'.state = "none"
    BY <1>3 DEF NoChild
  <2>2. Closed' = Closed
    BY <1>1, <1>3 DEF Closed
  <2>3. MarkInv' /\ ChildInv'
    BY <1>1, <1>2, <1>3, <2>1 DEF MarkInv, ChildInv
  <2>4. DoneInv'
    BY <1>1, <1>2, <1>3, <2>2 DEF DoneInv, Delivering
  <2> QED BY <2>3, <2>4 DEF EndInv
<1>4. CASE wpc' = "clear" /\ wgen' = generation /\ generation # wgen /\ child' = child
  <2>1. MarkInv' /\ ChildInv'
    BY <1>1, <1>2, <1>4 DEF MarkInv, ChildInv
  <2>2. done < generation /\ done <= generation /\ done # generation
    BY <1>2, <1>4, GenNums DEF DoneInv
  <2>3. done' < wgen' /\ done' <= wgen' /\ done' # wgen'
    BY <1>1, <1>4, <2>2
  <2>4. DoneInv'
    BY <1>4, <2>3 DEF DoneInv, Delivering
  <2> QED BY <2>1, <2>4 DEF EndInv
<1>5. CASE /\ wgen' = wgen /\ child' = child
           /\ wpc' = "top" \/ (wpc' = "fetch" /\ ~error /\ done # wgen /\ wgen = generation)
  <2>1. Closed' = Closed
    BY <1>1, <1>5 DEF Closed
  <2>2. SeenAll' = SeenAll
    BY <1>1, <2>1 DEF SeenAll
  <2>3. wpc' = "fetch" => wgen # 0
    BY <1>5, GenNums
  <2>4. MarkInv' /\ ChildInv'
    BY <1>1, <1>2, <1>5, <2>2, <2>3 DEF MarkInv, ChildInv
  <2>5. DoneInv'
    BY <1>1, <1>2, <1>5, <2>1 DEF DoneInv, Delivering
  <2> QED BY <2>4, <2>5 DEF EndInv
<1> QED BY <1>3, <1>4, <1>5 DEF Top

LEMMA EndClear ==
  ASSUME SafeInv, EndInv, Clear
  PROVE  EndInv'
<1> USE DEF history, caller
<1>1. /\ wpc = "clear" /\ wpc' = "start" /\ done' = 0 /\ child' = NoChild
      /\ UNCHANGED <<profile, generation, eof, stop, cpc, wgen>>
  BY DEF Clear
<1>2. MarkInv'
  BY <1>1 DEF EndInv, MarkInv
<1>3. ChildInv'
  <2>1. child'.state = "none"
    BY <1>1 DEF NoChild
  <2> QED BY <1>1, <2>1 DEF ChildInv
<1>4. DoneInv'
  BY <1>1, GenNums DEF DoneInv, Delivering
<1> QED BY <1>2, <1>3, <1>4 DEF EndInv

LEMMA EndStart ==
  ASSUME SafeInv, EndInv, Start
  PROVE  EndInv'
<1> USE DEF history, caller, locals
<1>1. /\ wpc = "start" /\ error' \in BOOLEAN
      /\ child' = (IF profile = "sox" /\ ~error' THEN NewChild ELSE child)
      /\ wpc' = (IF error' THEN "top" ELSE "fetch")
      /\ UNCHANGED <<profile, generation, eof, done, stop, input, output, caller, locals, engine, history>>
  BY DEF Start
<1>2. profile # "bypass" /\ ChildInv /\ DoneInv /\ MarkInv
  BY <1>1, NotBypass DEF EndInv
<1>3. done = 0 /\ done <= wgen
  BY <1>1, <1>2 DEF DoneInv
<1>4. MarkInv' /\ DoneInv'
  BY <1>1, <1>2, <1>3 DEF MarkInv, DoneInv, Delivering
<1>5. Closed' = Closed /\ SeenAll' = SeenAll
  BY <1>1 DEF Closed, SeenAll
<1>6. CASE profile = "sox" /\ ~error'
  <2>1. child'.state = "running" /\ child'.in /\ child'.out
    BY <1>1, <1>6 DEF NewChild
  <2> QED BY <1>4, <2>1 DEF EndInv, ChildInv
<1>7. CASE ~(profile = "sox" /\ ~error')
  <2>1. child' = child
    BY <1>1, <1>7
  <2>2. ChildInv'
    BY <1>1, <1>2, <1>5, <1>7, <2>1 DEF ChildInv
  <2> QED BY <1>4, <2>2 DEF EndInv
<1> QED BY <1>6, <1>7

LEMMA EndFetch ==
  ASSUME SafeInv, EndInv, Fetch \/ FetchPublish
  PROVE  EndInv'
<1> USE DEF words, history, caller, engines, locals
<1>1. /\ wpc \in {"fetch", "fetched"} /\ wpc' \in {"fetched", "look"}
      /\ UNCHANGED <<words, output, caller, wgen, made, room, weof, engines, history>>
      /\ \/ input' = input /\ (stage' = stage \/ Available(input) > 0)
         \/ input' = [input EXCEPT !.read = @ + Len(stage)] /\ stage' = stage
  BY DEF Fetch, FetchPublish
<1>2. wpc \notin {"none", "top", "clear", "start", "exit"}
  BY <1>1
<1>3. ChildInv /\ (profile = "sox" => child.state # "none")
  BY <1>2, PassFacts
<1>4. input'.write = input.write
  BY <1>1 DEF SafeInv, FramesOK, RingOK
<1>5. SeenAll => stage' = stage /\ input'.read = input.read
  <2> SUFFICES ASSUME SeenAll PROVE stage' = stage /\ input'.read = input.read
    OBVIOUS
  <2>1. Available(input) = 0 /\ Len(stage) = 0
    <3>1. Len(stage) = 0
      BY EmptyFacts DEF SeenAll
    <3>2. Available(input) = input.write - input.read /\ input.read = input.write /\ input.read \in Nat
      BY Numbers DEF SeenAll
    <3> QED BY <3>1, <3>2
  <2>2. CASE input' = input
    BY <1>1, <2>1, <2>2 DEF SeenAll
  <2>3. CASE input' = [input EXCEPT !.read = @ + Len(stage)] /\ stage' = stage
    <3>1. input'.read = input.read + Len(stage) /\ input.read \in Nat
      BY <2>3 DEF SafeInv, FramesOK, RingOK
    <3> QED BY <2>1, <2>3, <3>1
  <2> QED BY <1>1, <2>1, <2>2, <2>3
<1>6. ~child.out /\ profile = "sox" => child.state # "running" /\ engine = <<>>
  BY <1>1, <1>3 DEF ChildInv
<1> QED BY <1>1, <1>2, <1>4, <1>5, <1>6, PassEnd DEF Delivering

LEMMA EndLook ==
  ASSUME SafeInv, EndInv, Look \/ LookInput \/ ResampleIdle
  PROVE  EndInv'
<1> USE DEF words, history, caller, engines, locals
<1>1. /\ wpc \in {"look", "look-input", "process"}
      /\ UNCHANGED <<words, input, output, caller, wgen, stage, made, engines, history>>
      /\ \/ wpc' = "look-input" /\ weof' = (eof = wgen)
         \/ wpc = "look-input" /\ wpc' = "process" /\ weof' = (weof /\ Available(input) = 0 /\ stage = <<>>)
         \/ wpc' = "top"
  BY DEF Look, LookInput, ResampleIdle
<1>2. wpc \notin {"none", "top", "clear", "start", "exit"}
  BY <1>1
<1>3. ChildInv /\ DoneInv /\ (profile = "sox" => child.state # "none") /\ profile # "bypass"
  BY <1>2, PassFacts
<1>4. ~child.out /\ profile = "sox" => child.state # "running" /\ engine = <<>>
  BY <1>1, <1>3 DEF ChildInv
<1>5. wpc' = "look-input" /\ weof' => Closed
  <2>1. eof = wgen => Closed
    BY <1>3, GenNums DEF Closed
  <2> QED BY <1>1, <2>1
<1>6. wpc' = "process" /\ weof' => SeenAll
  <2> SUFFICES ASSUME wpc' = "process", weof' PROVE SeenAll
    OBVIOUS
  <2>1. wpc = "look-input" /\ weof /\ Available(input) = 0 /\ stage = <<>>
    BY <1>1
  <2>2. Closed
    BY <1>3, <2>1 DEF DoneInv
  <2>3. input.read = input.write
    BY <2>1, Numbers
  <2> QED BY <2>1, <2>2, <2>3 DEF SeenAll
<1>7. wpc' \in {"look-input", "process", "top"}
  BY <1>1
<1> QED BY <1>1, <1>2, <1>4, <1>5, <1>6, <1>7, PassEnd DEF Delivering

LEMMA EndResample ==
  ASSUME SafeInv, EndInv, Resample
  PROVE  EndInv'
<1> USE DEF history, caller
<1>1. /\ wpc = "process" /\ profile = "low" /\ room > 0 /\ wpc' = AfterEngine
      /\ UNCHANGED <<profile, generation, acknowledged, eof, done, stop, input, output, caller,
                     wgen, room, weof, child, history>>
  BY DEF Resample
<1>2. PICK taken \in 0..Len(stage), n \in 0..Least(room, Block) :
        LET held == engine \o SubSeq(stage, 1, taken) IN
        /\ n <= Len(held) /\ (weof => n = Least(Len(held), Least(room, Block)))
        /\ stage' = SubSeq(stage, taken + 1, Len(stage))
        /\ made' = SubSeq(held, 1, n) /\ engine' = SubSeq(held, n + 1, Len(held))
  BY DEF Resample
<1> DEFINE held == engine \o SubSeq(stage, 1, taken)
<1>3. held \in Seq(Frames) /\ stage \in Seq(Frames)
  <2>1. stage \in Seq(Frames) /\ engine \in Seq(Frames)
    BY DEF SafeInv, FramesOK
  <2>2. SubSeq(stage, 1, taken) \in Seq(Frames)
    BY <2>1, SplitRun
  <2> QED BY <2>1, <2>2, ConcatProperties
<1>4. /\ n <= Len(held) /\ (weof => n = Least(Len(held), Least(room, Block)))
      /\ made' = SubSeq(held, 1, n) /\ engine' = SubSeq(held, n + 1, Len(held))
  BY <1>2
<1> HIDE DEF held
<1>5. Least(room, Block) \in Nat /\ Least(room, Block) > 0 /\ Len(held) \in Nat /\ n \in 0..Len(held)
  <2>1. room \in Nat /\ Block \in Nat /\ Block > 0 /\ Len(held) \in Nat
    BY <1>3, Numbers, ConstOK, LenProperties
  <2>2. Least(room, Block) \in Nat /\ Least(room, Block) > 0
    BY <1>1, <2>1 DEF Least
  <2> QED BY <1>2, <1>4, <2>1, <2>2
<1>6. /\ Len(made') = n /\ engine' \in Seq(Frames) /\ Len(engine') = Len(held) - n
  BY <1>3, <1>4, <1>5, SplitRun
<1>7. weof /\ made' = <<>> => engine' = <<>>
  <2> SUFFICES ASSUME weof, made' = <<>> PROVE engine' = <<>>
    OBVIOUS
  <2>1. n = 0
    BY <1>6, EmptyFacts
  <2>2. Len(held) = 0
    BY <1>4, <1>5, <2>1 DEF Least
  <2>3. Len(engine') = 0
    BY <1>6, <2>1, <2>2
  <2> QED BY <1>6, <2>3, EmptySeq
<1>8. SeenAll => stage' = stage
  <2> SUFFICES ASSUME SeenAll PROVE stage' = stage
    OBVIOUS
  <2>1. stage = <<>> /\ Len(stage) = 0
    BY EmptyFacts DEF SeenAll
  <2>2. stage' \in Seq(Frames) /\ Len(stage') = Len(stage) - taken /\ taken = 0
    BY <1>2, <1>3, <2>1, SplitRun
  <2>3. Len(stage') = 0
    BY <2>1, <2>2
  <2> QED BY <2>1, <2>2, <2>3, EmptySeq
<1>9. wpc \notin {"none", "top", "clear", "start", "exit"}
  BY <1>1
<1>10. weof => SeenAll
  <2>1. DoneInv
    BY <1>9, PassFacts
  <2> QED BY <1>1, <2>1 DEF DoneInv
<1>11. wpc' \in {"settle", "ring-copy"} /\ (wpc' = "ring-copy" => made' # <<>>)
  BY <1>1 DEF AfterEngine
<1> QED BY <1>1, <1>7, <1>8, <1>9, <1>10, <1>11, PassEnd DEF Delivering

LEMMA EndPipeWrite ==
  ASSUME SafeInv, EndInv, PipeWrite
  PROVE  EndInv'
<1> USE DEF history, caller
<1>1. /\ wpc = "process" /\ profile = "sox" /\ wpc' = "read"
      /\ child' = [child EXCEPT !.in = @ /\ ~weof]
      /\ (stage' = stage /\ engine' = engine) \/ (stage # <<>> /\ child.state = "running")
      /\ UNCHANGED <<profile, generation, acknowledged, eof, done, stop, input, output, caller,
                     wgen, made, room, weof, history>>
  BY DEF PipeWrite
<1>2. wpc \notin {"none", "top", "clear", "start", "exit"}
  BY <1>1
<1>3. ChildInv /\ DoneInv /\ child.state # "none"
  BY <1>1, <1>2, PassFacts
<1>4. /\ child'.state = child.state /\ child'.out = child.out
      /\ child'.in = (child.in /\ ~weof)
  BY <1>1 DEF SafeInv, WordsOK
<1>5. weof => SeenAll
  BY <1>1, <1>3 DEF DoneInv
<1>6. SeenAll => stage' = stage
  BY <1>1 DEF SeenAll
<1>7. ~child'.out => child.state # "running" /\ engine' = <<>>
  BY <1>1, <1>3, <1>4 DEF ChildInv
<1>8. /\ ~child'.in => ~child.in \/ SeenAll
      /\ ~child.in => ~child'.in
  BY <1>4, <1>5
<1> QED BY <1>1, <1>2, <1>4, <1>5, <1>6, <1>7, <1>8, PassEnd DEF Delivering

LEMMA EndPipeRead ==
  ASSUME SafeInv, EndInv, PipeData \/ PipeEmpty
  PROVE  EndInv'
<1> USE DEF words, history, caller, locals
<1>1. /\ wpc = "read" /\ wpc' \in {"settle", "ring-copy"}
      /\ UNCHANGED <<words, input, output, caller, wgen, stage, room, weof, history>>
  BY DEF PipeData, PipeEmpty, AfterEngine
<1>2. wpc \notin {"none", "top", "clear", "start", "exit"}
  BY <1>1
<1>3. ChildInv /\ DoneInv
  BY <1>2, PassFacts
<1>4. profile = "sox" /\ (weof => SeenAll)
  BY <1>1, <1>3 DEF DoneInv
<1>5. child.state # "none"
  BY <1>2, <1>4, PassFacts
<1>6. CASE PipeData
  <2>1. child' = child /\ child.out /\ wpc' = AfterEngine
    BY <1>6 DEF PipeData
  <2> QED BY <1>1, <1>2, <1>4, <2>1, PassEnd DEF Delivering, AfterEngine
<1>7. CASE PipeEmpty
  <2>1. /\ wpc' = "settle" /\ engine' = engine
        /\ (room > 0 /\ child.out) => (child.state = "running" \/ engine = <<>>)
        /\ child' = [child EXCEPT !.out = @ /\ (room = 0 \/ child.state = "running")]
    BY <1>7 DEF PipeEmpty
  <2>2. /\ child'.state = child.state /\ child'.in = child.in
        /\ child'.out = (child.out /\ (room = 0 \/ child.state = "running"))
    BY <2>1 DEF SafeInv, WordsOK
  <2>3. room = 0 \/ room > 0
    BY Numbers
  <2>4. ~child.out => child.state # "running" /\ engine = <<>>
    BY <1>1, <1>3, <1>5 DEF ChildInv
  <2>5. ~child'.out => child.state # "running" /\ engine' = <<>>
    BY <2>1, <2>2, <2>3, <2>4
  <2> QED BY <1>1, <1>2, <1>4, <2>1, <2>2, <2>5, PassEnd DEF Delivering
<1> QED BY <1>6, <1>7

LEMMA EndRing ==
  ASSUME SafeInv, EndInv, RingCopy \/ RingPublish
  PROVE  EndInv'
<1> USE DEF words, history, caller, locals, engines
<1>1. /\ wpc \in {"ring-copy", "ring-publish"} /\ wpc' \in {"ring-publish", "settle"}
      /\ UNCHANGED <<words, input, caller, locals, engines, history>>
  BY DEF RingCopy, RingPublish
<1>2. wpc \notin {"none", "top", "clear", "start", "exit"}
  BY <1>1
<1>3. ChildInv /\ DoneInv /\ (profile = "sox" => child.state # "none")
  BY <1>2, PassFacts
<1>4. made # <<>> /\ (weof => SeenAll)
  BY <1>1, <1>3 DEF DoneInv, Delivering
<1>5. ~child.out /\ profile = "sox" => child.state # "running" /\ engine = <<>>
  BY <1>1, <1>3 DEF ChildInv
<1> QED BY <1>1, <1>2, <1>4, <1>5, PassEnd

\* The generation is done: everything was delivered, or there was an error.
LEMMA EndSettle ==
  ASSUME SafeInv, EndInv, Settle
  PROVE  EndInv'
<1> USE DEF history, caller, engines
<1>1. /\ wpc = "settle" /\ wpc' = "top" /\ made' = <<>>
      /\ error' = (error \/ child.state = "crashed")
      /\ \/ done' = done
         \/ /\ done' = wgen
            /\ \/ profile = "low" /\ weof /\ made = <<>>
               \/ profile = "sox" /\ child.state # "running" /\ ~child.out
      /\ UNCHANGED <<profile, generation, acknowledged, eof, stop, input, output, caller,
                     wgen, stage, room, weof, engines, history>>
  BY DEF Settle
<1>2. /\ profile # "bypass" /\ ChildInv /\ DoneInv /\ MarkInv
      /\ done <= wgen /\ ~(done = wgen /\ wgen > 0)
      /\ profile = "sox" => child.state # "none"
      /\ profile # "sox" => child.state = "none"
  BY <1>1, PassFacts
<1>3. Closed' = Closed /\ SeenAll' = SeenAll
  BY <1>1 DEF Closed, SeenAll
<1>4. MarkInv' /\ ChildInv'
  BY <1>1, <1>2, <1>3 DEF MarkInv, ChildInv
<1>5. done' <= wgen
  BY <1>1, <1>2, GenNums
<1>6. ASSUME done' = wgen, wgen > 0, ~error'
      PROVE  Closed /\ output.write = input.write
  <2>1. SeenAll /\ engine = <<>> /\ child.state # "crashed"
    <3>1. CASE profile = "low" /\ weof /\ made = <<>>
      BY <1>1, <1>2, <3>1 DEF DoneInv
    <3>2. CASE profile = "sox" /\ child.state # "running" /\ ~child.out
      <4>1. child.state = "exited"
        BY <1>1, <1>2, <1>6, <3>2 DEF SafeInv, WordsOK
      <4> QED BY <1>1, <1>2, <3>2, <4>1 DEF ChildInv
    <3> QED BY <1>1, <1>2, <1>6, <3>1, <3>2
  <2>2. Given + Len(engine) = Taken /\ Given = output.write /\ Taken = input.read - Len(stage)
    BY <1>1, <1>2, <2>1 DEF SafeInv, PipeInv, Given, Taken, Delivering, Fetching
  <2>3. Len(engine) = 0 /\ Len(stage) = 0 /\ input.read = input.write /\ Closed
    BY <2>1, EmptyFacts DEF SeenAll
  <2>4. output.write \in Nat /\ input.read \in Nat
    BY Numbers
  <2> QED BY <2>2, <2>3, <2>4
<1>7. DoneInv'
  BY <1>1, <1>3, <1>5, <1>6 DEF DoneInv, Delivering
<1> QED BY <1>4, <1>7 DEF EndInv

LEMMA EndChild ==
  ASSUME SafeInv, EndInv, ChildExits \/ ChildCrashes
  PROVE  EndInv'
<1> USE DEF words, history, caller, locals
<1>1. /\ child.state = "running" /\ UNCHANGED <<words, input, output, caller, wpc, locals, history>>
      /\ \/ child' = [child EXCEPT !.state = "exited"] /\ ~child.in
         \/ child' = [child EXCEPT !.state = "crashed"]
  BY DEF ChildExits, ChildCrashes
<1>2. profile = "sox"
  BY <1>1 DEF SafeInv, GenInv
<1>3. ChildInv /\ DoneInv /\ MarkInv
  BY <1>2 DEF EndInv
<1>4. /\ child'.in = child.in /\ child'.out = child.out /\ child'.state \in {"exited", "crashed"}
      /\ child'.state = "exited" => ~child.in
  BY <1>1 DEF SafeInv, WordsOK
<1>5. Closed' = Closed /\ SeenAll' = SeenAll
  BY <1>1 DEF Closed, SeenAll
<1>6. ChildInv'
  BY <1>1, <1>3, <1>4, <1>5 DEF ChildInv
<1>7. DoneInv' /\ MarkInv'
  BY <1>1, <1>2, <1>3, <1>5 DEF DoneInv, MarkInv, Delivering
<1> QED BY <1>6, <1>7 DEF EndInv

LEMMA EndInit == Init => EndInv
<1> SUFFICES ASSUME Init PROVE EndInv
  OBVIOUS
<1>1. MarkInv
  BY DEF Init, MarkInv
<1>2. profile # "bypass" => ChildInv
  BY DEF Init, ChildInv, NoChild
<1>3. profile # "bypass" => DoneInv
  BY DEF Init, DoneInv, Delivering
<1> QED BY <1>1, <1>2, <1>3 DEF EndInv

LEMMA EndNext == SafeInv /\ EndInv /\ [Next]_vars => EndInv'
<1> SUFFICES ASSUME SafeInv, EndInv, [Next]_vars PROVE EndInv'
  OBVIOUS
<1>1. CASE (\E n \in 1..Capacity : Push(n)) \/ PushCopy \/ PushPublish
  BY <1>1, EndPush
<1>2. CASE Pulls \/ PullPublish \/ Join
  BY <1>2, EndPull DEF Pulls
<1>3. CASE Finish \/ Reset \/ Destroy
  BY <1>3, EndMarks
<1>4. CASE ResetRaise
  BY <1>4, EndResetRaise
<1>5. CASE Worker
  BY <1>5, EndTop, EndClear, EndStart, EndFetch, EndLook, EndResample, EndPipeWrite, EndPipeRead,
     EndRing, EndSettle DEF Worker
<1>6. CASE ChildExits \/ ChildCrashes
  BY <1>6, EndChild
<1>7. CASE UNCHANGED vars
  <2>1. UNCHANGED <<profile, generation, acknowledged, eof, done, error, stop, input, output, cpc, batch,
                    wpc, wgen, stage, made, room, weof, engine, child, pushed, got>>
    BY <1>7 DEF vars, words, caller, locals, engines, history
  <2>2. MarkInv' /\ (Closed => Closed')
    BY <2>1 DEF EndInv, MarkInv, Closed
  <2> QED BY <2>1, <2>2, EndCaller
<1> QED BY <1>1, <1>2, <1>3, <1>4, <1>5, <1>6, <1>7 DEF Next, Continue, Freed

\* fx_worker_finished is the truth: when it says so without an error, every frame that
\* was accepted in the generation has been pulled.
THEOREM CompleteAlways == Spec => []Complete
<1>1. SafeInv /\ EndInv => Complete
  <2> SUFFICES ASSUME SafeInv, EndInv, cpc = "idle", Finished, ~error PROVE Len(got) = pushed
    BY DEF Complete
  <2>1. Ready /\ done = generation /\ Available(output) = 0
    BY DEF Finished
  <2>2. /\ profile # "bypass" => wgen = generation
        /\ Target.write = pushed /\ output.read = Len(got)
    BY <2>1, ReadyFacts
  <2>3. output.read = output.write
    BY <2>1, Numbers
  <2>4. output.write = Target.write
    <3>1. CASE profile = "bypass"
      BY <3>1 DEF Target
    <3>2. CASE profile # "bypass"
      BY <2>1, <2>2, <3>2, GenNums DEF EndInv, DoneInv, Target
    <3> QED BY <3>1, <3>2
  <2> QED BY <2>2, <2>3, <2>4
<1>2. Spec => [](SafeInv /\ EndInv)
  BY SafeInit, SafeNext, EndInit, EndNext, PTL DEF Spec
<1> QED BY <1>1, <1>2, PTL
==============================================================================
