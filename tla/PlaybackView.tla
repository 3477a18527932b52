----------------------------- MODULE PlaybackView -----------------------------
(***************************************************************************)
(* The playback state of the page (static/playback_core.js and the "init"  *)
(* and "playback" messages of static/app.js).  It arrives three ways: as   *)
(* pushes on the socket, in order; as answers to status reads; as answers  *)
(* to the page's own commands.  Commands also change the page at once, as  *)
(* a guess.  The content of a state is its revision: "rev" counts every    *)
(* change, "seq" (_seq) only the ones of the player, and starts again with *)
(* every server process.  Request ids and the identity of state.playback   *)
(* are compared for equality only, so a request carries what the           *)
(* comparison will say.                                                    *)
(***************************************************************************)
EXTENDS Naturals, Sequences, FiniteSets

CONSTANT Instances  \* the cases to look at; a behaviour is in one of them

Kinds == {"play", "refs", "toggle", "queue", "cover"}

\* revs: changes of a process's state; restarts: of the server; drops: connections
\* lost otherwise; reads: status reads under way at once; cmds: commands in all,
\* of these kinds.
ASSUME ViewAssumption ==
  Instances \subseteq [revs : Nat, restarts : Nat, drops : Nat, reads : Nat, cmds : Nat,
                       kinds : SUBSET Kinds]

VARIABLES
  srv,    \* the server's state
  open,   \* the socket is open
  wire,   \* messages on the socket
  view,   \* state.playback; rev 0 is a guess of the page
  reads,  \* status reads under way
  cmds,   \* commands under way
  busy,   \* playbackActionInFlight
  spent   \* commands and drops so far, and the instance that bounds them

vars == <<srv, open, wire, view, reads, cmds, busy, spent>>

States == [ep : Nat, seq : Nat, rev : Nat]

Blank == [ep |-> 0, seq |-> 0, rev |-> 0]

\* same: state.playback is still the object the read started with; mine: no
\* later resync has claimed the generation.
ReadReqs == [snap : BOOLEAN, same : BOOLEAN, mine : BOOLEAN,
             ans : {"none", "ok", "fail"}, st : States]

\* id: the request id is still the last one of its kind; prev: the revision shown
\* before; late: history, a play was started after it.
Commands == [kind : Kinds, no : Nat, id : BOOLEAN, prev : Nat, late : BOOLEAN,
             ans : {"none", "ok", "fail"}, st : States]

\* Messages on the socket.
Messages == [init : BOOLEAN, st : States]

TypeOK ==
  /\ srv \in States /\ view \in States
  /\ open \in BOOLEAN /\ wire \in Seq(Messages) /\ (~open => wire = <<>>)
  /\ reads \subseteq ReadReqs /\ cmds \subseteq Commands /\ busy \in BOOLEAN
  /\ spent \in [cmds : Nat, drops : Nat, max : Instances]
  /\ \A r, s \in reads : r.snap /\ s.snap /\ r.mine /\ s.mine => r = s

Init ==
  /\ srv = [ep |-> 1, seq |-> 0, rev |-> 1] /\ view = Blank
  /\ open = FALSE /\ wire = <<>> /\ reads = {} /\ cmds = {} /\ busy = FALSE
  /\ spent \in [cmds : {0}, drops : {0}, max : Instances]

-----------------------------------------------------------------------------
\* The server.

Push(st) == wire' = IF open THEN Append(wire, [init |-> FALSE, st |-> st]) ELSE wire

CanChange == srv.rev < spent.max.revs + srv.ep - 1

\* The player changes.
PlayerChange ==
  /\ CanChange /\ srv' = [srv EXCEPT !.seq = @ + 1, !.rev = @ + 1] /\ Push(srv')
  /\ UNCHANGED <<open, view, reads, cmds, busy, spent>>

\* An external provider takes over; the player's counter does not move.
OwnerChange ==
  /\ CanChange /\ srv' = [srv EXCEPT !.rev = @ + 1] /\ Push(srv')
  /\ UNCHANGED <<open, view, reads, cmds, busy, spent>>

Answered(r, st) == [r EXCEPT !.ans = "ok", !.st = st]
Failed(r) == IF r.ans = "none" THEN [r EXCEPT !.ans = "fail"] ELSE r

\* The process is replaced.  A restart takes seconds: the answers to commands that the
\* old process has given are in before it, and what it had not answered fails.  (One
\* that came later would be taken by its higher counter, and all that the new process
\* says after its init dropped.)  Answers to reads may come at any time.
Restart ==
  /\ srv.ep <= spent.max.restarts /\ \A c \in cmds : c.ans = "none"
  /\ srv' = [ep |-> srv.ep + 1, seq |-> 0, rev |-> srv.rev + 1]
  /\ open' = FALSE /\ wire' = <<>>
  /\ reads' = {Failed(r) : r \in reads} /\ cmds' = {Failed(c) : c \in cmds}
  /\ UNCHANGED <<view, busy, spent>>

Drop ==
  /\ open /\ spent.drops < spent.max.drops /\ spent' = [spent EXCEPT !.drops = @ + 1]
  /\ open' = FALSE /\ wire' = <<>>
  /\ UNCHANGED <<srv, view, reads, cmds, busy>>

Connect ==
  /\ ~open /\ open' = TRUE /\ wire' = <<[init |-> TRUE, st |-> srv]>>
  /\ UNCHANGED <<srv, view, reads, cmds, busy, spent>>

AnswerRead(r) ==
  /\ r.ans = "none" /\ reads' = (reads \ {r}) \union {Answered(r, srv)}
  /\ UNCHANGED <<srv, open, wire, view, cmds, busy, spent>>

FailRead(r) ==
  /\ r.ans = "none" /\ reads' = (reads \ {r}) \union {Failed(r)}
  /\ UNCHANGED <<srv, open, wire, view, cmds, busy, spent>>

\* A command succeeds with or without a change, and answers the state it leaves.
AnswerCmd(c) ==
  /\ c.ans = "none"
  /\ \/ CanChange /\ srv' = [srv EXCEPT !.seq = @ + 1, !.rev = @ + 1] /\ Push(srv')
     \/ UNCHANGED <<srv, wire>>
  /\ cmds' = (cmds \ {c}) \union {Answered(c, srv')}
  /\ UNCHANGED <<open, view, reads, busy, spent>>

FailCmd(c) ==
  /\ c.ans = "none" /\ cmds' = (cmds \ {c}) \union {Failed(c)}
  /\ UNCHANGED <<srv, open, wire, view, reads, busy, spent>>

-----------------------------------------------------------------------------
\* The page.

\* Mutant: snapshots are judged by the counter too.
StaleAlways(st, snapshot) == st.seq < view.seq

Stale(st, snapshot) == ~snapshot /\ st.seq < view.seq

\* An accepted state replaces the object; "left" are the reads still under way.
MergePlaybackState(st, snapshot, left) ==
  IF Stale(st, snapshot)
  THEN view' = view /\ reads' = left
  ELSE view' = st /\ reads' = {[r EXCEPT !.same = FALSE] : r \in left}

NewRead(snap) ==
  [snap |-> snap, same |-> TRUE, mine |-> TRUE, ans |-> "none", st |-> Blank]

\* fetchMetadata, fetchPlaybackStatus and the position poll.
FetchStatus ==
  /\ Cardinality(reads) < spent.max.reads /\ reads' = reads \union {NewRead(FALSE)}
  /\ UNCHANGED <<srv, open, wire, view, cmds, busy, spent>>

\* Mutant: a read counts although the page has moved on.
AnyRead(r) == r.ans = "ok"

Usable(r) == r.ans = "ok" /\ r.same /\ (r.snap => r.mine)

ReadDone(r) ==
  /\ r.ans # "none"
  /\ IF Usable(r)
     THEN MergePlaybackState(r.st, r.snap, reads \ {r})
     ELSE view' = view /\ reads' = reads \ {r}
  /\ UNCHANGED <<srv, open, wire, cmds, busy, spent>>

\* Mutant: a later resync leaves the earlier one its generation.
ResyncShares(left) == {[r EXCEPT !.same = FALSE] : r \in left} \union {NewRead(TRUE)}

\* resyncPlaybackAfterReconnect claims the generation and reads.
Resync(left) ==
  {[r EXCEPT !.same = FALSE, !.mine = @ /\ ~r.snap] : r \in left} \union {NewRead(TRUE)}

OnInit ==
  /\ wire # <<>> /\ Head(wire).init /\ wire' = Tail(wire)
  /\ IF Stale(Head(wire).st, TRUE) THEN view' = view ELSE view' = Head(wire).st
  /\ reads' = Resync(reads)
  /\ UNCHANGED <<srv, open, cmds, busy, spent>>

OnPlayback ==
  /\ wire # <<>> /\ ~Head(wire).init /\ wire' = Tail(wire)
  /\ MergePlaybackState(Head(wire).st, FALSE, reads) /\ busy' = FALSE
  /\ UNCHANGED <<srv, open, cmds, spent>>

Guess == view' = [view EXCEPT !.rev = 0]

\* Starting a command of a kind makes the ids of that kind's earlier ones old; a
\* new play takes over from all.
Superseded(kind) ==
  {[c EXCEPT !.id = IF kind \in {"play", "refs"} THEN @ /\ c.kind \notin {"play", "refs"}
                    ELSE IF kind = "toggle" THEN @ /\ c.kind # "toggle" ELSE @,
             !.late = @ \/ kind \in {"play", "refs"}] : c \in cmds}

Begin(kind) ==
  /\ kind \in spent.max.kinds /\ spent.cmds < spent.max.cmds
  /\ spent' = [spent EXCEPT !.cmds = @ + 1]
  /\ cmds' = Superseded(kind) \union
       {[kind |-> kind, no |-> spent.cmds + 1, id |-> TRUE, prev |-> view.rev,
         late |-> FALSE, ans |-> "none", st |-> Blank]}
  /\ UNCHANGED <<srv, open, wire, reads>>

\* playRadio and playLocal show the new track at once; playLibraryRefs does not.
Play ==
  \/ Begin("play") /\ Guess /\ busy' = TRUE
  \/ Begin("refs") /\ UNCHANGED view /\ busy' = TRUE

TogglePlayback == ~busy /\ Begin("toggle") /\ Guess /\ busy' = TRUE

\* previousInQueue, nextInQueue, clearQueue.
QueueCommand == ~busy /\ Begin("queue") /\ UNCHANGED view /\ busy' = TRUE

PlayCoverQueueIndex == Begin("cover") /\ UNCHANGED <<view, busy>>

\* Mutant: the answer of a play is used whatever was asked since.
PlayIdIgnored(c) == FALSE

PlayDropped(c) == ~c.id

PlayDone(c) ==
  /\ c.kind \in {"play", "refs"}
  /\ IF PlayDropped(c) THEN UNCHANGED <<view, reads, busy>>
     ELSE /\ busy' = FALSE
          /\ IF c.ans = "ok" THEN MergePlaybackState(c.st, FALSE, reads)
             ELSE /\ IF c.kind = "play" THEN Guess ELSE UNCHANGED view
                  /\ UNCHANGED reads

ToggleDone(c) ==
  /\ c.kind = "toggle"
  /\ IF ~c.id THEN UNCHANGED <<view, reads, busy>>
     ELSE /\ busy' = FALSE
          /\ IF c.ans = "ok" THEN MergePlaybackState(c.st, FALSE, reads)
             ELSE view' = [view EXCEPT !.rev = c.prev] /\ UNCHANGED reads

QueueDone(c) ==
  /\ c.kind \in {"queue", "cover"} /\ busy' = (busy /\ c.kind = "cover")
  /\ IF c.ans = "ok" THEN MergePlaybackState(c.st, FALSE, reads) ELSE UNCHANGED <<view, reads>>

CmdDone(c) ==
  /\ c.ans # "none" /\ cmds' = cmds \ {c}
  /\ PlayDone(c) \/ ToggleDone(c) \/ QueueDone(c)
  /\ UNCHANGED <<srv, open, wire, spent>>

-----------------------------------------------------------------------------
ServerStep == PlayerChange \/ OwnerChange \/ Restart \/ Drop \/ Connect
Requests == \E r \in reads : AnswerRead(r) \/ FailRead(r) \/ ReadDone(r)
CmdSteps == \E c \in cmds : AnswerCmd(c) \/ FailCmd(c) \/ CmdDone(c)
User == Play \/ TogglePlayback \/ QueueCommand \/ PlayCoverQueueIndex

Next == ServerStep \/ Requests \/ CmdSteps \/ User \/ FetchStatus \/ OnInit \/ OnPlayback

\* The socket is re-established and its messages handled, the polls go on, every
\* request ends, and the server answers again and again.
Fairness ==
  /\ WF_vars(Connect) /\ WF_vars(OnInit) /\ WF_vars(OnPlayback) /\ WF_vars(FetchStatus)
  /\ WF_vars(\E r \in reads : ReadDone(r)) /\ SF_vars(\E r \in reads : AnswerRead(r))
  /\ WF_vars(\E c \in cmds : CmdDone(c)) /\ WF_vars(\E c \in cmds : AnswerCmd(c) \/ FailCmd(c))

Spec == Init /\ [][Next]_vars /\ Fairness

-----------------------------------------------------------------------------
\* The answer of a status read never takes the page back to an earlier state than
\* it shows, not even between states with the same player counter: the identity
\* check of fetchMetadata, the position poll and the resync.
ReadsNeverRegress == [][\A r \in reads : ReadDone(r) => view.rev <= view'.rev]_vars

\* A play that a later play replaced changes nothing any more, however late its
\* answer comes (requestId in playRadio, playLocal and playLibraryRefs).
SupersededPlayDropped ==
  [][\A c \in cmds : c.kind \in {"play", "refs"} /\ c.late /\ CmdDone(c) => view' = view]_vars

\* Once the server's state stays as it is, the page comes to show it for good,
\* whatever commands failed, sockets were lost or processes replaced before; the
\* answers to commands come before the process that gave them is replaced.
Converges == <>[](view.rev = srv.rev)

\* The page's view of the player keeps the order PlaybackOrder states.
Order == INSTANCE PlaybackOrder WITH
  server <- [ep |-> srv.ep, seq |-> srv.seq],
  shown <- [ep |-> view.ep, seq |-> view.seq],
  attaching <- (wire # <<>> /\ wire[1].init)

\* The detailed page implements the order.
ImplementsOrder == Order!Spec
==============================================================================
