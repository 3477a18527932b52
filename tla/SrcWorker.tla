------------------------------- MODULE SrcWorker -------------------------------
(***************************************************************************)
(* The playback resampler worker (native_src/worker.c): the PipeWire       *)
(* thread pushes frames into one ring and pulls resampled frames from      *)
(* another, a worker thread moves them through soxr or through a SoX child *)
(* process.  The rings are lock-free; a reset raises a generation number   *)
(* that the worker acknowledges once it has cleared everything of the old  *)
(* one, and every call of the PipeWire thread does nothing until then.     *)
(*                                                                         *)
(* Frames carry the generation and position they were pushed with, and one *)
(* output frame stands for one input frame: what the engines compute is    *)
(* left out, and so are the statistics and the wake-up descriptor, which   *)
(* only shortens a poll of at most five milliseconds.                      *)
(***************************************************************************)
EXTENDS Integers, Sequences

CONSTANTS
  Profiles,    \* the kinds of worker to look at: bypass, low (soxr), sox
  Capacity,    \* frames in a ring
  Block,       \* frames moved in one pass, BLOCK
  Pipe,        \* bound: frames inside SoX and its pipes
  MaxFrames,   \* bound: frames pushed in a generation
  MaxGen       \* bound: generations

ASSUME SrcAssumption ==
  /\ Profiles \subseteq {"bypass", "low", "sox"}
  /\ {Capacity, Block, Pipe, MaxGen} \subseteq Nat \ {0}
  /\ MaxFrames \in Nat

VARIABLES
  profile,
  generation, acknowledged, eof, done, error, stop,   \* the shared words
  input, output,                                      \* the rings
  cpc, batch,                                         \* PipeWire thread: step, frames in hand
  wpc, wgen, stage, made, room, weof,                 \* worker thread: step and locals
  engine, child,                                      \* inside the resampler; the SoX process
  pushed, got                                         \* history of this generation

words   == <<profile, generation, acknowledged, eof, done, error, stop>>
caller  == <<cpc, batch>>
locals  == <<wgen, stage, made, room, weof>>
engines == <<engine, child>>
history == <<pushed, got>>
vars    == <<words, input, output, caller, wpc, locals, engines, history>>

NoFrame   == <<0, 0>>
Frames    == (0..MaxGen) \X (0..MaxFrames)
EmptyRing == [read |-> 0, write |-> 0, data |-> [i \in 0..Capacity - 1 |-> NoFrame]]
NoChild   == [state |-> "none", in |-> FALSE, out |-> FALSE]
NewChild  == [state |-> "running", in |-> TRUE, out |-> TRUE]

Least(a, b) == IF a < b THEN a ELSE b

Available(r) == r.write - r.read

\* The copies of ring_write and ring_read, before the index is published.
Put(r, s) ==
  [r EXCEPT !.data = [i \in 0..Capacity - 1 |->
     LET k == ((i - r.write) % Capacity) + 1 IN IF k <= Len(s) THEN s[k] ELSE r.data[i]]]
Get(r, n) == [k \in 1..n |-> r.data[(r.read + k - 1) % Capacity]]

Ready    == generation = acknowledged
Finished == Ready /\ done = generation /\ Available(output) = 0     \* fx_worker_finished

TypeOK ==
  /\ profile \in Profiles
  /\ generation \in 1..MaxGen /\ acknowledged \in 0..MaxGen
  /\ eof \in 0..MaxGen /\ done \in 0..MaxGen /\ error \in BOOLEAN /\ stop \in BOOLEAN
  /\ \A r \in {input, output} :
       /\ r.read \in 0..MaxFrames /\ r.write \in r.read..MaxFrames /\ Available(r) <= Capacity
       /\ r.data \in [0..Capacity - 1 -> Frames]
  /\ cpc \in {"idle", "push", "pushed", "pull", "reset", "join", "freed"}
  /\ wpc \in {"none", "top", "clear", "start", "fetch", "fetched", "look", "look-input",
              "process", "read", "ring-copy", "ring-publish", "settle", "exit"}
  /\ \A s \in {batch, stage, made, engine, got} : s \in Seq(Frames)
  /\ wgen \in 0..MaxGen /\ room \in 0..Capacity /\ weof \in BOOLEAN
  /\ child \in [state : {"none", "running", "exited", "crashed"}, in : BOOLEAN, out : BOOLEAN]
  /\ pushed \in 0..MaxFrames

\* fx_worker_create: generation 1, and a thread unless the rates are equal.
Init ==
  /\ profile \in Profiles
  /\ generation = 1 /\ acknowledged = (IF profile = "bypass" THEN 1 ELSE 0)
  /\ eof = 0 /\ done = 0 /\ error = FALSE /\ stop = FALSE
  /\ input = EmptyRing /\ output = EmptyRing
  /\ cpc = "idle" /\ batch = <<>>
  /\ wpc = (IF profile = "bypass" THEN "none" ELSE "top")
  /\ wgen = 0 /\ stage = <<>> /\ made = <<>> /\ room = 0 /\ weof = FALSE
  /\ engine = <<>> /\ child = NoChild
  /\ pushed = 0 /\ got = <<>>

-----------------------------------------------------------------------------
(* The PipeWire thread *)

\* The ring that fx_worker_push fills.
Target == IF profile = "bypass" THEN output ELSE input

SetTarget(r) == IF profile = "bypass" THEN output' = r /\ UNCHANGED input
                                      ELSE input' = r /\ UNCHANGED output

\* fx_worker_push: refused until the generation is acknowledged, after the end and
\* after an error; otherwise as many frames as there is room for.
Push(n) ==
  /\ cpc = "idle" /\ Ready /\ eof # generation /\ ~error
  /\ LET count == Least(n, Capacity - Available(Target)) IN
       /\ count > 0 /\ pushed + count <= MaxFrames
       /\ batch' = [k \in 1..count |-> <<generation, pushed + k>>]
  /\ cpc' = "push"
  /\ UNCHANGED <<words, input, output, wpc, locals, engines, history>>

PushCopy ==
  /\ cpc = "push" /\ cpc' = "pushed"
  /\ SetTarget(Put(Target, batch))
  /\ UNCHANGED <<words, batch, wpc, locals, engines, history>>

PushPublish ==
  /\ cpc = "pushed" /\ cpc' = "idle"
  /\ SetTarget([Target EXCEPT !.write = @ + Len(batch)])
  /\ pushed' = pushed + Len(batch) /\ batch' = <<>>
  /\ UNCHANGED <<words, wpc, locals, engines, got>>

\* fx_worker_pull: as many frames as there are.
Pull(n) ==
  /\ cpc = "idle" /\ Ready
  /\ LET count == Least(n, Available(output)) IN
       /\ count > 0
       /\ batch' = Get(output, count)
  /\ cpc' = "pull"
  /\ UNCHANGED <<words, input, output, wpc, locals, engines, history>>

PullPublish ==
  /\ cpc = "pull" /\ cpc' = "idle"
  /\ output' = [output EXCEPT !.read = @ + Len(batch)]
  /\ got' = got \o batch /\ batch' = <<>>
  /\ UNCHANGED <<words, input, wpc, locals, engines, pushed>>

\* fx_worker_finish, also before the acknowledgement.
Finish ==
  /\ cpc = "idle" /\ eof # generation
  /\ eof' = generation
  /\ done' = IF profile = "bypass" THEN generation ELSE done
  /\ UNCHANGED <<profile, generation, acknowledged, error, stop, input, output, caller, wpc,
                 locals, engines, history>>

\* fx_worker_reset: the end is taken back first, then the generation is raised.
Reset ==
  /\ cpc = "idle" /\ generation < MaxGen
  /\ eof' = 0 /\ cpc' = "reset"
  /\ UNCHANGED <<profile, generation, acknowledged, done, error, stop, input, output, batch, wpc,
                 locals, engines, history>>

ResetRaise ==
  /\ cpc = "reset" /\ cpc' = "idle"
  /\ generation' = generation + 1 /\ pushed' = 0 /\ got' = <<>>
  /\ IF profile = "bypass"
       THEN /\ acknowledged' = generation' /\ input' = EmptyRing /\ output' = EmptyRing
            /\ done' = 0 /\ error' = FALSE
       ELSE UNCHANGED <<acknowledged, input, output, done, error>>
  /\ UNCHANGED <<profile, eof, stop, batch, wpc, locals, engines>>

\* fx_worker_destroy: stop, join, free.
Destroy ==
  /\ cpc = "idle" /\ cpc' = "join" /\ stop' = (profile # "bypass")
  /\ UNCHANGED <<profile, generation, acknowledged, eof, done, error, input, output, batch, wpc,
                 locals, engines, history>>

Join ==
  /\ cpc = "join" /\ wpc \in {"none", "exit"} /\ cpc' = "freed"
  /\ UNCHANGED <<words, input, output, batch, wpc, locals, engines, history>>

-----------------------------------------------------------------------------
(* The worker thread *)

\* The loop looks for the end of the worker and for a new generation.
Top ==
  /\ wpc = "top"
  /\ \/ stop /\ wpc' = "exit" /\ child' = NoChild /\ UNCHANGED wgen
     \/ /\ ~stop /\ wgen' = generation /\ UNCHANGED child
        /\ wpc' = CASE generation # wgen -> "clear"
                    [] generation = wgen /\ ~error /\ done # wgen -> "fetch"
                    [] OTHER -> "top"
  /\ UNCHANGED <<words, input, output, caller, stage, made, room, weof, engine, history>>

\* Mutant: the output ring keeps the frames of the old generation.
ClearInputOnly ==
  /\ wpc = "clear" /\ wpc' = "start"
  /\ input' = EmptyRing /\ done' = 0 /\ error' = FALSE
  /\ stage' = <<>> /\ made' = <<>> /\ engine' = <<>> /\ child' = NoChild
  /\ UNCHANGED <<profile, generation, acknowledged, eof, stop, output, caller, wgen, room, weof, history>>

\* Mutant: the end of the stream is cleared with the rest.
ClearEnd ==
  /\ wpc = "clear" /\ wpc' = "start"
  /\ input' = EmptyRing /\ output' = EmptyRing /\ done' = 0 /\ error' = FALSE /\ eof' = 0
  /\ stage' = <<>> /\ made' = <<>> /\ engine' = <<>> /\ child' = NoChild
  /\ UNCHANGED <<profile, generation, acknowledged, stop, caller, wgen, room, weof, history>>

\* stop_child, clear_generation and the locals.
Clear ==
  /\ wpc = "clear" /\ wpc' = "start"
  /\ input' = EmptyRing /\ output' = EmptyRing /\ done' = 0 /\ error' = FALSE
  /\ stage' = <<>> /\ made' = <<>> /\ engine' = <<>> /\ child' = NoChild
  /\ UNCHANGED <<profile, generation, acknowledged, eof, stop, caller, wgen, room, weof, history>>

\* The engine of the generation is started, or not, and the generation acknowledged.
Start ==
  /\ wpc = "start"
  /\ error' \in BOOLEAN /\ acknowledged' = wgen
  /\ child' = IF profile = "sox" /\ ~error' THEN NewChild ELSE child
  /\ wpc' = IF error' THEN "top" ELSE "fetch"
  /\ UNCHANGED <<profile, generation, eof, done, stop, input, output, caller, locals, engine, history>>

\* ring_read into the stage, when it is empty.
Fetch ==
  /\ wpc = "fetch"
  /\ IF stage = <<>> /\ Available(input) > 0
       THEN stage' = Get(input, Least(Block, Available(input))) /\ wpc' = "fetched"
       ELSE stage' = stage /\ wpc' = "look"
  /\ UNCHANGED <<words, input, output, caller, wgen, made, room, weof, engines, history>>

FetchPublish ==
  /\ wpc = "fetched" /\ wpc' = "look"
  /\ input' = [input EXCEPT !.read = @ + Len(stage)]
  /\ UNCHANGED <<words, output, caller, locals, engines, history>>

\* The room in the output, and the end mark: loaded before the input is looked at.
Look ==
  /\ wpc = "look" /\ wpc' = "look-input"
  /\ room' = Capacity - Available(output)
  /\ weof' = (eof = wgen)
  /\ UNCHANGED <<words, input, output, caller, wgen, stage, made, engines, history>>

\* Mutant: the end mark alone ends the stream, whatever the input still holds.
LookInputBlind ==
  /\ wpc = "look-input" /\ wpc' = "process"
  /\ weof' = (weof /\ stage = <<>>)
  /\ UNCHANGED <<words, input, output, caller, wgen, stage, made, room, engines, history>>

LookInput ==
  /\ wpc = "look-input" /\ wpc' = "process"
  /\ weof' = (weof /\ Available(input) = 0 /\ stage = <<>>)
  /\ UNCHANGED <<words, input, output, caller, wgen, stage, made, room, engines, history>>

\* Where a pass goes on after the engine: ring_write of nothing is skipped.
AfterEngine == IF made' = <<>> THEN "settle" ELSE "ring-copy"

\* soxr_process: it takes input or gives output, and at the end gives all it has.
Resample ==
  /\ wpc = "process" /\ profile = "low" /\ room > 0 /\ (stage # <<>> \/ weof)
  /\ \E taken \in 0..Len(stage), n \in 0..Least(room, Block) :
       LET held == engine \o SubSeq(stage, 1, taken) IN
       /\ n <= Len(held)
       /\ weof => n = Least(Len(held), Least(room, Block))
       /\ ~weof => taken + n > 0
       /\ stage' = SubSeq(stage, taken + 1, Len(stage))
       /\ made' = SubSeq(held, 1, n) /\ engine' = SubSeq(held, n + 1, Len(held))
  /\ error' \in {error, TRUE}
  /\ wpc' = AfterEngine
  /\ UNCHANGED <<profile, generation, acknowledged, eof, done, stop, input, output, caller,
                 wgen, room, weof, child, history>>

\* No room or nothing to do for soxr: the next pass.
ResampleIdle ==
  /\ wpc = "process" /\ profile = "low" /\ ~(room > 0 /\ (stage # <<>> \/ weof))
  /\ wpc' = "top"
  /\ UNCHANGED <<words, input, output, caller, locals, engines, history>>

\* Write to SoX what its pipe takes; at the end close the pipe.
PipeWrite ==
  /\ wpc = "process" /\ profile = "sox" /\ wpc' = "read"
  /\ IF stage # <<>> /\ child.in
       THEN \/ \E n \in IF Len(engine) < Pipe THEN 1..Least(Len(stage), Pipe - Len(engine)) ELSE {0} :
                 /\ child.state = "running"
                 /\ engine' = engine \o SubSeq(stage, 1, n)
                 /\ stage' = SubSeq(stage, n + 1, Len(stage)) /\ error' = error
            \/ /\ child.state # "running"
               /\ error' = TRUE /\ UNCHANGED <<engine, stage>>
       ELSE UNCHANGED <<engine, stage, error>>
  /\ child' = [child EXCEPT !.in = @ /\ ~weof]
  /\ UNCHANGED <<profile, generation, acknowledged, eof, done, stop, input, output, caller,
                 wgen, made, room, weof, history>>

\* Read from SoX what it has written.
PipeData ==
  /\ wpc = "read" /\ room > 0 /\ child.out
  /\ \E n \in 1..Least(room, Block) :
       /\ n <= Len(engine)
       /\ made' = SubSeq(engine, 1, n) /\ engine' = SubSeq(engine, n + 1, Len(engine))
  /\ wpc' = AfterEngine
  /\ UNCHANGED <<words, input, output, caller, wgen, stage, room, weof, child, history>>

\* Nothing to read: no room, a pipe that is closed or empty, or the end of a child
\* that is gone.
PipeEmpty ==
  /\ wpc = "read" /\ wpc' = "settle"
  /\ (room > 0 /\ child.out) => (child.state = "running" \/ engine = <<>>)
  /\ child' = [child EXCEPT !.out = @ /\ (room = 0 \/ child.state = "running")]
  /\ UNCHANGED <<words, input, output, caller, locals, engine, history>>

\* ring_write to the output.
RingCopy ==
  /\ wpc = "ring-copy" /\ wpc' = "ring-publish"
  /\ output' = Put(output, made)
  /\ UNCHANGED <<words, input, caller, locals, engines, history>>

RingPublish ==
  /\ wpc = "ring-publish" /\ wpc' = "settle"
  /\ output' = [output EXCEPT !.write = @ + Len(made)]
  /\ UNCHANGED <<words, input, caller, locals, engines, history>>

\* The generation is done when soxr has nothing left, or SoX is gone and read to
\* its end; a crash is an error, stored first.
Settle ==
  /\ wpc = "settle" /\ wpc' = "top" /\ made' = <<>>
  /\ error' = (error \/ child.state = "crashed")
  /\ done' = IF (profile = "low" /\ weof /\ made = <<>>)
                \/ (profile = "sox" /\ child.state # "running" /\ ~child.out)
               THEN wgen ELSE done
  /\ UNCHANGED <<profile, generation, acknowledged, eof, stop, input, output, caller,
                 wgen, stage, room, weof, engines, history>>

-----------------------------------------------------------------------------
(* The SoX process *)

\* It exits once its input is closed; what it wrote stays readable.
ChildExits ==
  /\ child.state = "running" /\ ~child.in
  /\ child' = [child EXCEPT !.state = "exited"]
  /\ UNCHANGED <<words, input, output, caller, wpc, locals, engine, history>>

\* It dies with frames that it had not written.
ChildCrashes ==
  /\ child.state = "running"
  /\ child' = [child EXCEPT !.state = "crashed"]
  /\ \E n \in 0..Len(engine) : engine' = SubSeq(engine, 1, n)
  /\ UNCHANGED <<words, input, output, caller, wpc, locals, history>>

-----------------------------------------------------------------------------

Freed == cpc = "freed" /\ UNCHANGED vars

Worker == Top \/ Clear \/ Start \/ Fetch \/ FetchPublish \/ Look \/ LookInput
          \/ Resample \/ ResampleIdle \/ PipeWrite \/ PipeData \/ PipeEmpty
          \/ RingCopy \/ RingPublish \/ Settle

\* A call that was begun, and the pulling of frames that are there.
Continue == PushCopy \/ PushPublish \/ PullPublish \/ ResetRaise \/ Join
Pulls    == \E n \in 1..Capacity : Pull(n)

Next == \/ (\E n \in 1..Capacity : Push(n)) \/ Pulls \/ Finish \/ Reset \/ Destroy \/ Continue
        \/ Worker \/ ChildExits \/ ChildCrashes \/ Freed

\* SoX passes frames on once its pipe is full or its input is closed.
MustPass == PipeData /\ (~child.in \/ Len(engine) = Pipe)

\* The worker polls with a timeout, the graph calls its resampler every cycle, and
\* SoX passes on what it must and ends when its input does.
Spec == /\ Init /\ [][Next]_vars
        /\ WF_vars(Worker) /\ WF_vars(Continue) /\ WF_vars(Pulls)
        /\ SF_vars(MustPass) /\ WF_vars(ChildExits)

-----------------------------------------------------------------------------
(* Properties *)

\* What the PipeWire thread pulls are the frames it pushed in this generation, in
\* order, each once: nothing of an older generation, overwritten or torn.
InOrder == \A k \in DOMAIN got : got[k] = <<generation, k>>

\* fx_worker_finished without an error means that every accepted frame was pulled.
Complete == (cpc = "idle" /\ Finished /\ ~error) => Len(got) = pushed

\* A finished stream drains: also one that was finished before its reset was
\* acknowledged, while the input ring was full, or whose engine holds frames back.
FinishEnds ==
  \A g \in 1..MaxGen :
    (eof = g /\ generation = g) ~> (Finished \/ error \/ generation # g \/ cpc \in {"reset", "join", "freed"})

\* fx_worker_destroy returns.
DestroyReturns == cpc = "join" ~> cpc = "freed"

\* Whatever was asked of the worker comes about: the end of a stream, its destruction.
Ends == FinishEnds /\ DestroyReturns

\* The rings keep their bounds and deliver the frames in order.
FramesSafe == TypeOK /\ InOrder
=============================================================================
