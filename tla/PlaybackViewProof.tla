-------------------------- MODULE PlaybackViewProof --------------------------
(***************************************************************************)
(* The page's playback state (module PlaybackView), for any number of      *)
(* changes, processes, lost connections, reads and commands: its types,    *)
(* that reads never take it back, that replaced plays change nothing, and  *)
(* that every step keeps the order of module PlaybackOrder.                *)
(***************************************************************************)
EXTENDS PlaybackView, SequenceTheorems, TLAPS

\* st is a state that process s has been in.
OfProcess(st, s) == st.ep = s.ep /\ st.seq <= s.seq /\ st.rev <= s.rev

\* st is not after s.
NotAfter(st, s) == Order!UpTo(st, s) /\ st.rev <= s.rev

\* What is on the socket comes from the process at its other end; an init is its first message.
WireInv == \A i \in 1..Len(wire) : OfProcess(wire[i].st, srv) /\ (i > 1 => ~wire[i].init)

\* The page is never ahead of the server.
ShownInv == NotAfter(view, srv)

\* The answer to a read r is not after the server s; and while the page's state v is the
\* object the read started with, it is before neither v nor anything that one of the
\* commands cs may put back.
ReadOK(r, v, s, cs) ==
  r.ans = "ok" => /\ NotAfter(r.st, s)
                  /\ r.same => NotAfter(v, r.st) /\ \A c \in cs : c.prev <= r.st.rev

\* The answer to a command is the current process's, and a play that was replaced has
\* lost its id.
CmdOK(c, s) ==
  /\ c.prev <= s.rev
  /\ c.ans = "ok" => OfProcess(c.st, s)
  /\ c.kind \in {"play", "refs"} /\ c.late => ~c.id

ReadInv == \A r \in reads : ReadOK(r, view, srv, cmds)

CmdInv == \A c \in cmds : CmdOK(c, srv)

\* The inductive invariant.
ViewInv == TypeOK /\ WireInv /\ ShownInv /\ ReadInv /\ CmdInv

\* The types of the reads, with the one resync that holds the generation.
ReadsTyped(rs) ==
  /\ rs \subseteq ReadReqs
  /\ \A r, s \in rs : r.snap /\ s.snap /\ r.mine /\ s.mine => r = s

-----------------------------------------------------------------------------
\* States and their order.

LEMMA OrderFacts ==
  ASSUME NEW a \in States, NEW b \in States, NEW c \in States
  PROVE  /\ NotAfter(a, a)
         /\ NotAfter(a, b) /\ NotAfter(b, c) => NotAfter(a, c)
         /\ OfProcess(a, b) => NotAfter(a, b)
         /\ OfProcess(a, a)
  BY DEF States, NotAfter, OfProcess, Order!UpTo

\* The state of the server goes forward within one process.
Forward(s, t) ==
  s \in States /\ t \in States /\ t.ep = s.ep /\ s.seq <= t.seq /\ s.rev <= t.rev

LEMMA ForwardFacts ==
  ASSUME NEW s, NEW t, Forward(s, t), NEW a \in States
  PROVE  (OfProcess(a, s) => OfProcess(a, t)) /\ (NotAfter(a, s) => NotAfter(a, t))
  BY DEF States, NotAfter, OfProcess, Order!UpTo, Forward

\* A change of the player, and one of the owner only.
LEMMA ChangeForward ==
  ASSUME srv \in States,
         srv' = [srv EXCEPT !.seq = @ + 1, !.rev = @ + 1] \/ srv' = [srv EXCEPT !.rev = @ + 1]
  PROVE  Forward(srv, srv')
<1>1. ASSUME NEW n \in Nat, NEW m \in Nat, srv.seq <= n, srv.rev <= m,
             srv' = [srv EXCEPT !.seq = n, !.rev = m]
      PROVE  Forward(srv, srv')
  BY <1>1 DEF States, Forward
<1>2. srv.seq \in Nat /\ srv.rev \in Nat
  BY DEF States
<1>3. CASE srv' = [srv EXCEPT !.seq = @ + 1, !.rev = @ + 1]
  <2> DEFINE n == srv.seq + 1
             m == srv.rev + 1
  <2>1. n \in Nat /\ m \in Nat /\ srv.seq <= n /\ srv.rev <= m
    BY <1>2
  <2>2. srv' = [srv EXCEPT !.seq = n, !.rev = m]
    BY <1>3
  <2> HIDE DEF n, m
  <2> QED BY <1>1, <2>1, <2>2
<1>4. CASE srv' = [srv EXCEPT !.rev = @ + 1]
  <2> DEFINE m == srv.rev + 1
  <2>1. m \in Nat /\ srv.rev <= m
    BY <1>2
  <2>2. srv' = [srv EXCEPT !.rev = m]
    BY <1>4
  <2> HIDE DEF m
  <2> QED BY <2>1, <2>2 DEF States, Forward
<1> QED BY <1>3, <1>4

\* The state of a new process.
LEMMA RestartFacts ==
  ASSUME srv \in States, srv' = [ep |-> srv.ep + 1, seq |-> 0, rev |-> srv.rev + 1], NEW a \in States
  PROVE  srv' \in States /\ (NotAfter(a, srv) => NotAfter(a, srv'))
  BY DEF States, NotAfter, Order!UpTo

LEMMA GuessState ==
  ASSUME NEW v \in States, NEW n \in Nat, NEW s \in States
  PROVE  LET w == [v EXCEPT !.rev = n]
         IN w \in States /\ w.rev = n /\ (NotAfter(v, s) /\ n <= s.rev => NotAfter(w, s))
  BY DEF States, NotAfter, Order!UpTo

LEMMA BlankState == Blank \in States
  BY DEF Blank, States

-----------------------------------------------------------------------------
\* Reads.

LEMMA ReadFields ==
  ASSUME NEW r \in ReadReqs
  PROVE  /\ r.st \in States /\ r.ans \in {"none", "ok", "fail"}
         /\ r.snap \in BOOLEAN /\ r.same \in BOOLEAN /\ r.mine \in BOOLEAN
  BY DEF ReadReqs

LEMMA OldObject ==
  ASSUME NEW r \in ReadReqs
  PROVE  LET n == [r EXCEPT !.same = FALSE]
         IN /\ n \in ReadReqs /\ n.snap = r.snap /\ n.mine = r.mine /\ n.ans = r.ans
            /\ n.st = r.st /\ n.same = FALSE
  BY DEF ReadReqs

LEMMA NewReadFields ==
  ASSUME NEW b \in BOOLEAN
  PROVE  LET n == NewRead(b)
         IN n \in ReadReqs /\ n.snap = b /\ n.mine = TRUE /\ n.ans = "none"
  BY BlankState DEF NewRead, ReadReqs

LEMMA AnsweredRead ==
  ASSUME NEW r \in ReadReqs, NEW st \in States
  PROVE  LET n == Answered(r, st)
         IN /\ n \in ReadReqs /\ n.snap = r.snap /\ n.mine = r.mine /\ n.same = r.same
            /\ n.ans = "ok" /\ n.st = st
  BY DEF ReadReqs, Answered

LEMMA FailedRead ==
  ASSUME NEW r \in ReadReqs
  PROVE  LET n == Failed(r)
         IN /\ n \in ReadReqs /\ n.snap = r.snap /\ n.mine = r.mine /\ n.same = r.same
            /\ n.st = r.st /\ (n.ans = "ok" <=> r.ans = "ok")
  BY DEF ReadReqs, Failed

\* The reads of a page that has replaced its state.
LEMMA OldObjects ==
  ASSUME NEW left, ReadsTyped(left)
  PROVE  ReadsTyped({[r EXCEPT !.same = FALSE] : r \in left})
<1> DEFINE f(r) == [r EXCEPT !.same = FALSE]
<1>1. ASSUME NEW r \in left PROVE f(r) \in ReadReqs /\ f(r).snap = r.snap /\ f(r).mine = r.mine
  BY OldObject DEF ReadsTyped
<1> HIDE DEF f
<1>2. ReadsTyped({f(r) : r \in left})
  BY <1>1 DEF ReadsTyped
<1> QED BY <1>2 DEF f

LEMMA FewerReads ==
  ASSUME NEW rs, ReadsTyped(rs), NEW left, left \subseteq rs
  PROVE  ReadsTyped(left)
  BY DEF ReadsTyped

\* One read is answered.
LEMMA OneRead ==
  ASSUME NEW rs, ReadsTyped(rs), NEW r \in rs, NEW n \in ReadReqs, n.snap = r.snap, n.mine = r.mine
  PROVE  ReadsTyped((rs \ {r}) \union {n})
  BY DEF ReadsTyped

\* A state the page may take: it is the server's, and the page ends up not after the server.
LEMMA MergeKeeps ==
  ASSUME ViewInv, NEW st \in States, NotAfter(st, srv), NEW snapshot \in BOOLEAN,
         NEW left, left \subseteq reads, MergePlaybackState(st, snapshot, left),
         UNCHANGED srv, cmds' \subseteq cmds
  PROVE  view' \in States /\ ReadsTyped(reads') /\ ShownInv' /\ ReadInv'
<1>1. ReadsTyped(left) /\ srv \in States /\ view \in States
  BY FewerReads DEF ViewInv, TypeOK, ReadsTyped
<1>2. CASE Stale(st, snapshot)
  <2>1. view' = view /\ reads' = left
    BY <1>2 DEF MergePlaybackState
  <2> QED BY <1>1, <2>1 DEF ViewInv, ShownInv, ReadInv, ReadOK
<1>3. CASE ~Stale(st, snapshot)
  <2>1. view' = st /\ reads' = {[r EXCEPT !.same = FALSE] : r \in left}
    BY <1>3 DEF MergePlaybackState
  <2>2. ASSUME NEW n \in reads' PROVE ReadOK(n, view', srv', cmds')
    <3>1. PICK r \in left : n = [r EXCEPT !.same = FALSE]
      BY <2>1
    <3>2. r \in ReadReqs /\ ReadOK(r, view, srv, cmds)
      BY <1>1 DEF ReadsTyped, ViewInv, ReadInv
    <3>3. n.same = FALSE /\ n.ans = r.ans /\ n.st = r.st
      BY <3>1, <3>2, OldObject
    <3> QED BY <3>2, <3>3 DEF ReadOK
  <2> QED BY <1>1, <2>1, <2>2, OldObjects DEF ShownInv, ReadInv
<1> QED BY <1>2, <1>3

-----------------------------------------------------------------------------
\* Commands.

LEMMA CmdFields ==
  ASSUME NEW c \in Commands
  PROVE  /\ c.st \in States /\ c.ans \in {"none", "ok", "fail"} /\ c.prev \in Nat /\ c.kind \in Kinds
         /\ c.id \in BOOLEAN /\ c.late \in BOOLEAN
  BY DEF Commands

LEMMA AnsweredCmd ==
  ASSUME NEW c \in Commands, NEW st \in States
  PROVE  LET n == Answered(c, st)
         IN /\ n \in Commands /\ n.prev = c.prev /\ n.kind = c.kind /\ n.late = c.late
            /\ n.id = c.id /\ n.ans = "ok" /\ n.st = st
  BY DEF Commands, Answered

LEMMA FailedCmd ==
  ASSUME NEW c \in Commands
  PROVE  LET n == Failed(c)
         IN /\ n \in Commands /\ n.prev = c.prev /\ n.kind = c.kind /\ n.late = c.late
            /\ n.id = c.id /\ n.st = c.st /\ (n.ans = "ok" <=> c.ans = "ok")
  BY DEF Commands, Failed

-----------------------------------------------------------------------------
\* The server's steps.

\* Everything else stands while the server goes forward within its process.
LEMMA ServerForward ==
  ASSUME ViewInv, Forward(srv, srv'), UNCHANGED <<open, view, reads, busy, spent>>,
         wire' = wire \/ Push(srv')
  PROVE  /\ srv' \in States /\ wire' \in Seq(Messages) /\ (~open' => wire' = <<>>)
         /\ WireInv' /\ ShownInv'
         /\ \A r \in reads : ReadOK(r, view, srv', cmds)
         /\ \A c \in cmds : CmdOK(c, srv')
<1>1. srv \in States /\ srv' \in States /\ view \in States /\ wire \in Seq(Messages)
  BY DEF Forward, ViewInv, TypeOK
<1>2. ASSUME NEW i \in 1..Len(wire) PROVE OfProcess(wire[i].st, srv') /\ (i > 1 => ~wire[i].init)
  <2>1. wire[i] \in Messages
    BY <1>1, ElementOfSeq
  <2>2. wire[i].st \in States
    BY <2>1 DEF Messages
  <2>3. OfProcess(wire[i].st, srv) /\ (i > 1 => ~wire[i].init)
    BY DEF ViewInv, WireInv
  <2> QED BY <2>2, <2>3, ForwardFacts
<1>3. wire' \in Seq(Messages) /\ (~open' => wire' = <<>>) /\ WireInv'
  <2>1. CASE wire' = wire
    BY <1>1, <1>2, <2>1 DEF WireInv, ViewInv, TypeOK
  <2>2. CASE Push(srv') /\ open
    <3> DEFINE m == [init |-> FALSE, st |-> srv']
    <3>1. wire' = Append(wire, m) /\ m \in Messages /\ m.init = FALSE /\ m.st = srv'
      BY <1>1, <2>2 DEF Push, Messages
    <3> HIDE DEF m
    <3>2. /\ wire' \in Seq(Messages) /\ Len(wire') = Len(wire) + 1
          /\ \A i \in 1..Len(wire) : wire'[i] = wire[i]
          /\ wire'[Len(wire) + 1] = m
      BY <1>1, <3>1, AppendProperties
    <3>3. Len(wire) \in Nat
      BY <1>1, LenProperties
    <3>4. OfProcess(srv', srv')
      BY <1>1, OrderFacts
    <3>5. ASSUME NEW i \in 1..Len(wire') PROVE OfProcess(wire'[i].st, srv') /\ (i > 1 => ~wire'[i].init)
      <4>1. CASE i \in 1..Len(wire)
        BY <1>2, <3>2, <4>1
      <4>2. CASE i = Len(wire) + 1
        BY <3>1, <3>2, <3>4, <4>2
      <4> QED BY <3>2, <3>3, <4>1, <4>2
    <3> QED BY <2>2, <3>2, <3>5 DEF WireInv
  <2>3. CASE Push(srv') /\ ~open
    BY <1>1, <1>2, <2>3 DEF Push, WireInv, ViewInv, TypeOK
  <2> QED BY <2>1, <2>2, <2>3
<1>4. ShownInv'
  BY <1>1, ForwardFacts DEF ViewInv, ShownInv
<1>5. ASSUME NEW r \in reads PROVE ReadOK(r, view, srv', cmds)
  <2>1. r.st \in States
    BY ReadFields DEF ViewInv, TypeOK
  <2> QED BY <2>1, ForwardFacts DEF ReadOK, ViewInv, ReadInv
<1>6. ASSUME NEW c \in cmds PROVE CmdOK(c, srv')
  <2>1. c.st \in States /\ c.prev \in Nat
    BY CmdFields DEF ViewInv, TypeOK
  <2>2. CmdOK(c, srv)
    BY DEF ViewInv, CmdInv
  <2>3. c.prev <= srv'.rev
    BY <2>1, <2>2 DEF CmdOK, Forward, States
  <2> QED BY <2>1, <2>2, <2>3, ForwardFacts DEF CmdOK
<1> QED BY <1>1, <1>3, <1>4, <1>5, <1>6

LEMMA ChangeKeeps == ASSUME ViewInv, PlayerChange \/ OwnerChange PROVE ViewInv'
<1>1. Forward(srv, srv')
  BY ChangeForward DEF PlayerChange, OwnerChange, ViewInv, TypeOK
<1>2. UNCHANGED <<open, view, reads, cmds, busy, spent>> /\ Push(srv')
  BY DEF PlayerChange, OwnerChange
<1>3. TypeOK'
  BY <1>1, <1>2, ServerForward DEF ViewInv, TypeOK
<1> QED BY <1>1, <1>2, <1>3, ServerForward DEF ViewInv, ReadInv, CmdInv

LEMMA AnswerCmdKeeps == ASSUME ViewInv, NEW c \in cmds, AnswerCmd(c) PROVE ViewInv'
<1>1. Forward(srv, srv') /\ (wire' = wire \/ Push(srv')) /\ UNCHANGED <<open, view, reads, busy, spent>>
  <2>1. srv \in States
    BY DEF ViewInv, TypeOK
  <2>2. Forward(srv, srv)
    BY <2>1 DEF Forward, States
  <2> QED BY <2>1, <2>2, ChangeForward DEF AnswerCmd
<1> DEFINE n == Answered(c, srv')
<1>2. c \in Commands /\ srv' \in States /\ cmds \subseteq Commands
  BY <1>1 DEF ViewInv, TypeOK, Forward
<1>3. /\ n \in Commands /\ n.prev = c.prev /\ n.kind = c.kind /\ n.late = c.late
      /\ n.id = c.id /\ n.ans = "ok" /\ n.st = srv'
  BY <1>2, AnsweredCmd
<1>4. cmds' = (cmds \ {c}) \union {n}
  BY DEF AnswerCmd
<1> HIDE DEF n
<1>5. CmdOK(c, srv')
  BY <1>1, ServerForward
<1>6. CmdOK(n, srv')
  BY <1>2, <1>3, <1>5, OrderFacts DEF CmdOK
<1>7. CmdInv'
  BY <1>1, <1>4, <1>6, ServerForward DEF CmdInv
<1>8. ReadInv'
  <2> SUFFICES ASSUME NEW r \in reads PROVE ReadOK(r, view', srv', cmds')
    BY <1>1 DEF ReadInv
  <2>1. ReadOK(r, view, srv', cmds)
    BY <1>1, ServerForward
  <2> QED BY <1>1, <1>3, <1>4, <2>1 DEF ReadOK
<1>9. TypeOK'
  BY <1>1, <1>2, <1>3, <1>4, ServerForward DEF ViewInv, TypeOK
<1> QED BY <1>1, <1>7, <1>8, <1>9, ServerForward DEF ViewInv

LEMMA FailCmdKeeps == ASSUME ViewInv, NEW c \in cmds, FailCmd(c) PROVE ViewInv'
<1> DEFINE n == Failed(c)
<1>1. c \in Commands /\ cmds \subseteq Commands /\ c.ans = "none"
  BY DEF ViewInv, TypeOK, FailCmd
<1>2. /\ n \in Commands /\ n.prev = c.prev /\ n.kind = c.kind /\ n.late = c.late
      /\ n.id = c.id /\ n.ans # "ok"
  BY <1>1, FailedCmd
<1>3. cmds' = (cmds \ {c}) \union {n} /\ UNCHANGED <<srv, open, wire, view, reads, busy, spent>>
  BY DEF FailCmd
<1> HIDE DEF n
<1>4. CmdInv'
  BY <1>2, <1>3 DEF ViewInv, CmdInv, CmdOK
<1>5. ReadInv'
  <2> SUFFICES ASSUME NEW r \in reads PROVE ReadOK(r, view, srv, cmds')
    BY <1>3 DEF ReadInv
  <2> QED BY <1>2, <1>3 DEF ReadOK, ViewInv, ReadInv
<1>6. TypeOK'
  BY <1>1, <1>2, <1>3 DEF ViewInv, TypeOK
<1>7. WireInv' /\ ShownInv'
  BY <1>3 DEF ViewInv, WireInv, ShownInv
<1> QED BY <1>4, <1>5, <1>6, <1>7 DEF ViewInv

LEMMA RestartKeeps == ASSUME ViewInv, Restart PROVE ViewInv'
<1>1. /\ srv' = [ep |-> srv.ep + 1, seq |-> 0, rev |-> srv.rev + 1] /\ open' = FALSE /\ wire' = <<>>
      /\ reads' = {Failed(r) : r \in reads} /\ cmds' = {Failed(c) : c \in cmds}
      /\ UNCHANGED <<view, busy, spent>> /\ \A c \in cmds : c.ans = "none"
  BY DEF Restart
<1>2. srv \in States /\ view \in States /\ reads \subseteq ReadReqs /\ cmds \subseteq Commands
      /\ ReadsTyped(reads)
  BY DEF ViewInv, TypeOK, ReadsTyped
<1>3. srv' \in States /\ \A a \in States : NotAfter(a, srv) => NotAfter(a, srv')
  BY <1>1, <1>2, RestartFacts
<1>4. srv.rev \in Nat /\ srv'.rev = srv.rev + 1
  BY <1>1, <1>2 DEF States
<1>5. ASSUME NEW n \in cmds' PROVE n \in Commands /\ CmdOK(n, srv')
  <2>1. PICK c \in cmds : n = Failed(c)
    BY <1>1
  <2>2. c \in Commands /\ c.ans = "none" /\ CmdOK(c, srv) /\ c.prev \in Nat
    BY <1>1, <1>2, CmdFields DEF ViewInv, CmdInv
  <2>3. /\ n \in Commands /\ n.prev = c.prev /\ n.kind = c.kind /\ n.late = c.late
        /\ n.id = c.id /\ n.ans # "ok"
    BY <2>1, <2>2, FailedCmd
  <2>4. n.prev <= srv'.rev
    BY <1>4, <2>2, <2>3 DEF CmdOK
  <2> QED BY <2>2, <2>3, <2>4 DEF CmdOK
<1>6. ASSUME NEW n \in reads' PROVE ReadOK(n, view', srv', cmds')
  <2>1. PICK r \in reads : n = Failed(r)
    BY <1>1
  <2>2. r \in ReadReqs /\ ReadOK(r, view, srv, cmds) /\ r.st \in States
    BY <1>2, ReadFields DEF ViewInv, ReadInv
  <2>3. n.same = r.same /\ n.st = r.st /\ (n.ans = "ok" <=> r.ans = "ok")
    BY <2>1, <2>2, FailedRead
  <2>4. ASSUME NEW m \in cmds' PROVE \E c \in cmds : m.prev = c.prev
    BY <1>1, <1>2, FailedCmd
  <2> QED BY <1>1, <1>3, <2>2, <2>3, <2>4 DEF ReadOK
<1>7. ReadsTyped(reads')
  <2>1. ASSUME NEW r \in reads
        PROVE  Failed(r) \in ReadReqs /\ Failed(r).snap = r.snap /\ Failed(r).mine = r.mine
    BY <1>2, FailedRead
  <2> QED BY <1>1, <1>2, <2>1 DEF ReadsTyped
<1>8. wire' \in Seq(Messages) /\ WireInv'
  BY <1>1 DEF WireInv
<1>9. TypeOK'
  BY <1>1, <1>2, <1>3, <1>5, <1>7, <1>8 DEF ViewInv, TypeOK, ReadsTyped
<1> QED BY <1>1, <1>2, <1>3, <1>5, <1>6, <1>8, <1>9 DEF ViewInv, ShownInv, ReadInv, CmdInv

LEMMA DropKeeps == ASSUME ViewInv, Drop PROVE ViewInv'
<1>1. open' = FALSE /\ wire' = <<>> /\ UNCHANGED <<srv, view, reads, cmds, busy>>
  BY DEF Drop
<1>2. spent' \in [cmds : Nat, drops : Nat, max : Instances]
  BY DEF Drop, ViewInv, TypeOK
<1>3. wire' \in Seq(Messages) /\ WireInv'
  BY <1>1 DEF WireInv
<1>4. TypeOK'
  BY <1>1, <1>2, <1>3 DEF ViewInv, TypeOK
<1> QED BY <1>1, <1>3, <1>4 DEF ViewInv, ShownInv, ReadInv, CmdInv

LEMMA ConnectKeeps == ASSUME ViewInv, Connect PROVE ViewInv'
<1> DEFINE m == [init |-> TRUE, st |-> srv]
<1>1. m \in Messages /\ m.st = srv /\ srv \in States
  BY DEF ViewInv, TypeOK, Messages
<1>2. open' = TRUE /\ wire' = <<m>> /\ UNCHANGED <<srv, view, reads, cmds, busy, spent>>
  BY DEF Connect
<1> HIDE DEF m
<1>3. wire' \in Seq(Messages) /\ Len(wire') = 1 /\ wire'[1] = m
  BY <1>1, <1>2
<1>4. OfProcess(srv, srv)
  BY <1>1, OrderFacts
<1>5. WireInv'
  BY <1>1, <1>2, <1>3, <1>4 DEF WireInv
<1>6. TypeOK'
  BY <1>2, <1>3 DEF ViewInv, TypeOK
<1> QED BY <1>2, <1>5, <1>6 DEF ViewInv, ShownInv, ReadInv, CmdInv

LEMMA AnswerReadKeeps == ASSUME ViewInv, NEW r \in reads, AnswerRead(r) \/ FailRead(r) PROVE ViewInv'
<1>1. /\ reads' = (reads \ {r}) \union {Answered(r, srv)} \/ reads' = (reads \ {r}) \union {Failed(r)}
      /\ UNCHANGED <<srv, open, wire, view, cmds, busy, spent>> /\ r.ans = "none"
  BY DEF AnswerRead, FailRead
<1>2. srv \in States /\ r \in ReadReqs /\ ReadsTyped(reads) /\ cmds \subseteq Commands /\ view \in States
  BY DEF ViewInv, TypeOK, ReadsTyped
<1>3. PICK n : reads' = (reads \ {r}) \union {n} /\ (n = Answered(r, srv) \/ n = Failed(r))
  BY <1>1
<1>4. /\ n \in ReadReqs /\ n.snap = r.snap /\ n.mine = r.mine
      /\ n.ans = "ok" => n.st = srv
  BY <1>1, <1>2, <1>3, AnsweredRead, FailedRead
<1>5. ReadOK(n, view, srv, cmds)
  <2>1. NotAfter(srv, srv) /\ NotAfter(view, srv) /\ \A c \in cmds : c.prev <= srv.rev
    BY <1>2, OrderFacts DEF ViewInv, ShownInv, CmdInv, CmdOK
  <2> QED BY <1>4, <2>1 DEF ReadOK
<1>6. ReadInv' /\ ReadsTyped(reads')
  BY <1>1, <1>2, <1>3, <1>4, <1>5, OneRead DEF ViewInv, ReadInv
<1>7. TypeOK'
  BY <1>1, <1>6 DEF ViewInv, TypeOK, ReadsTyped
<1> QED BY <1>1, <1>6, <1>7 DEF ViewInv, WireInv, ShownInv, CmdInv

-----------------------------------------------------------------------------
\* The page's steps.

LEMMA ReadDoneKeeps == ASSUME ViewInv, NEW r \in reads, ReadDone(r) PROVE ViewInv'
<1>1. UNCHANGED <<srv, open, wire, cmds, busy, spent>>
  BY DEF ReadDone
<1>2. view' \in States /\ ReadsTyped(reads') /\ ShownInv' /\ ReadInv'
  <2>1. CASE Usable(r)
    <3>1. r \in ReadReqs /\ MergePlaybackState(r.st, r.snap, reads \ {r})
      BY <2>1 DEF ReadDone, ViewInv, TypeOK
    <3>2. r.st \in States /\ r.snap \in BOOLEAN /\ NotAfter(r.st, srv)
      BY <2>1, <3>1, ReadFields DEF Usable, ViewInv, ReadInv, ReadOK
    <3> QED BY <1>1, <3>1, <3>2, MergeKeeps
  <2>2. CASE ~Usable(r)
    <3>1. view' = view /\ reads' = reads \ {r}
      BY <2>2 DEF ReadDone
    <3>2. ReadsTyped(reads')
      BY <3>1, FewerReads DEF ViewInv, TypeOK, ReadsTyped
    <3> QED BY <1>1, <3>1, <3>2 DEF ViewInv, TypeOK, ShownInv, ReadInv
  <2> QED BY <2>1, <2>2
<1>3. TypeOK'
  BY <1>1, <1>2 DEF ViewInv, TypeOK, ReadsTyped
<1> QED BY <1>1, <1>2, <1>3 DEF ViewInv, WireInv, CmdInv

LEMMA FetchStatusKeeps == ASSUME ViewInv, FetchStatus PROVE ViewInv'
<1>1. reads' = reads \union {NewRead(FALSE)} /\ UNCHANGED <<srv, open, wire, view, cmds, busy, spent>>
  BY DEF FetchStatus
<1>2. ReadsTyped(reads') /\ ReadInv'
  BY <1>1, NewReadFields DEF ViewInv, TypeOK, ReadsTyped, ReadInv, ReadOK
<1>3. TypeOK'
  BY <1>1, <1>2 DEF ViewInv, TypeOK, ReadsTyped
<1> QED BY <1>1, <1>2, <1>3 DEF ViewInv, WireInv, ShownInv, CmdInv

\* The first message is taken off the socket.
LEMMA TakeMessage ==
  ASSUME ViewInv, wire # <<>>, wire' = Tail(wire), UNCHANGED <<srv, open>>
  PROVE  /\ wire' \in Seq(Messages) /\ WireInv' /\ (~open' => wire' = <<>>)
         /\ Head(wire) = wire[1] /\ Head(wire) \in Messages
         /\ OfProcess(Head(wire).st, srv) /\ NotAfter(Head(wire).st, srv) /\ Head(wire).st \in States
         /\ wire' # <<>> => ~wire'[1].init
<1>1. wire \in Seq(Messages) /\ srv \in States
  BY DEF ViewInv, TypeOK
<1>2. /\ Head(wire) \in Messages /\ wire' \in Seq(Messages) /\ Head(wire) = wire[1]
      /\ Len(wire') = Len(wire) - 1 /\ Len(wire) \in Nat /\ Len(wire) > 0
      /\ \A i \in 1..Len(wire') : wire'[i] = wire[i + 1]
  BY <1>1
<1>3. WireInv'
  <2> SUFFICES ASSUME NEW i \in 1..Len(wire')
               PROVE  OfProcess(wire'[i].st, srv) /\ ~wire'[i].init
    BY DEF WireInv
  <2>1. wire'[i] = wire[i + 1] /\ i + 1 \in 1..Len(wire) /\ i + 1 > 1
    BY <1>2
  <2> QED BY <2>1 DEF ViewInv, WireInv
<1>4. OfProcess(Head(wire).st, srv)
  BY <1>2 DEF ViewInv, WireInv
<1>5. Head(wire).st \in States
  BY <1>2 DEF Messages
<1>6. NotAfter(Head(wire).st, srv)
  BY <1>1, <1>4, <1>5, OrderFacts
<1>7. wire' # <<>> => ~wire'[1].init
  <2> SUFFICES ASSUME wire' # <<>> PROVE ~wire'[1].init
    OBVIOUS
  <2>1. 1 \in 1..Len(wire') /\ wire'[1] = wire[2] /\ 2 \in 1..Len(wire)
    BY <1>2, EmptySeq
  <2> QED BY <2>1 DEF ViewInv, WireInv
<1> QED BY <1>2, <1>3, <1>4, <1>5, <1>6, <1>7 DEF ViewInv, TypeOK

LEMMA OnInitKeeps == ASSUME ViewInv, OnInit PROVE ViewInv'
<1> DEFINE st == Head(wire).st
           f(r) == [r EXCEPT !.same = FALSE, !.mine = @ /\ ~r.snap]
<1>1. UNCHANGED <<srv, open, cmds, busy, spent>> /\ wire # <<>> /\ wire' = Tail(wire) /\ view' = st
      /\ reads' = {f(r) : r \in reads} \union {NewRead(TRUE)}
  BY DEF OnInit, Stale, Resync
<1>2. st \in States /\ NotAfter(st, srv)
  BY <1>1, TakeMessage
<1> HIDE DEF st
<1>3. ASSUME NEW r \in reads
      PROVE  /\ f(r) \in ReadReqs /\ f(r).snap = r.snap /\ f(r).same = FALSE
             /\ f(r).snap => ~f(r).mine
             /\ f(r).ans = r.ans /\ f(r).st = r.st
  <2>1. r \in ReadReqs
    BY DEF ViewInv, TypeOK
  <2> DEFINE b == r.mine /\ ~r.snap
  <2>2. b \in BOOLEAN /\ (r.snap => ~b)
    BY Zenon
  <2>3. f(r) = [r EXCEPT !.same = FALSE, !.mine = b]
    OBVIOUS
  <2> HIDE DEF b, f
  <2> QED BY <2>1, <2>2, <2>3 DEF ReadReqs
<1> HIDE DEF f
<1>4. ReadsTyped(reads')
  BY <1>1, <1>3, NewReadFields DEF ReadsTyped
<1>5. ReadInv'
  <2> SUFFICES ASSUME NEW n \in reads' PROVE ReadOK(n, view', srv', cmds')
    BY DEF ReadInv
  <2>1. CASE n = NewRead(TRUE)
    BY <2>1, NewReadFields DEF ReadOK
  <2>2. CASE n # NewRead(TRUE)
    <3>1. PICK r \in reads : n = f(r)
      BY <1>1, <2>2
    <3> QED BY <1>1, <1>3, <3>1 DEF ReadOK, ViewInv, ReadInv
  <2> QED BY <2>1, <2>2
<1>6. TypeOK'
  BY <1>1, <1>2, <1>4, TakeMessage DEF ViewInv, TypeOK, ReadsTyped
<1> QED BY <1>1, <1>2, <1>5, <1>6, TakeMessage DEF ViewInv, ShownInv, CmdInv

LEMMA OnPlaybackKeeps == ASSUME ViewInv, OnPlayback PROVE ViewInv'
<1>1. UNCHANGED <<srv, open, cmds, spent>> /\ wire # <<>> /\ wire' = Tail(wire) /\ busy' = FALSE
      /\ MergePlaybackState(Head(wire).st, FALSE, reads)
  BY DEF OnPlayback
<1>2. view' \in States /\ ReadsTyped(reads') /\ ShownInv' /\ ReadInv'
  BY <1>1, TakeMessage, MergeKeeps
<1>3. TypeOK'
  BY <1>1, <1>2, TakeMessage DEF ViewInv, TypeOK, ReadsTyped
<1> QED BY <1>1, <1>2, <1>3, TakeMessage DEF ViewInv, CmdInv

\* The page guesses, or takes a guess back: the reads of the present object stay usable.
LEMMA SetRev ==
  ASSUME ViewInv, NEW n \in Nat, view' = [view EXCEPT !.rev = n], n <= srv.rev,
         \A r \in reads : r.ans = "ok" /\ r.same => n <= r.st.rev
  PROVE  /\ view' \in States /\ NotAfter(view', srv)
         /\ \A r \in reads : ReadOK(r, view', srv, cmds)
<1>1. view \in States /\ srv \in States /\ NotAfter(view, srv)
  BY DEF ViewInv, TypeOK, ShownInv
<1>2. view' \in States /\ NotAfter(view', srv)
  BY <1>1, GuessState
<1>3. ASSUME NEW r \in reads PROVE ReadOK(r, view', srv, cmds)
  <2>1. r.st \in States /\ ReadOK(r, view, srv, cmds)
    BY ReadFields DEF ViewInv, TypeOK, ReadInv
  <2> QED BY <1>1, <2>1, GuessState DEF ReadOK
<1> QED BY <1>2, <1>3

LEMMA GuessOK ==
  ASSUME ViewInv, Guess
  PROVE  /\ view' \in States /\ NotAfter(view', srv)
         /\ \A r \in reads : ReadOK(r, view', srv, cmds)
<1>1. 0 <= srv.rev /\ \A r \in reads : 0 <= r.st.rev
  <2>1. srv \in States /\ \A r \in reads : r.st \in States
    BY ReadFields DEF ViewInv, TypeOK
  <2> QED BY <2>1 DEF States
<1> QED BY <1>1, SetRev DEF Guess

\* A command is started: those it takes over from lose their ids.
LEMMA BeginKeeps ==
  ASSUME ViewInv, NEW kind \in Kinds, Begin(kind), Guess \/ UNCHANGED view, busy' \in BOOLEAN
  PROVE  ViewInv'
<1> DEFINE new == [kind |-> kind, no |-> spent.cmds + 1, id |-> TRUE, prev |-> view.rev,
                   late |-> FALSE, ans |-> "none", st |-> Blank]
           i(c) == IF kind \in {"play", "refs"} THEN c.id /\ c.kind \notin {"play", "refs"}
                   ELSE IF kind = "toggle" THEN c.id /\ c.kind # "toggle" ELSE c.id
           l(c) == c.late \/ kind \in {"play", "refs"}
           f(c) == [c EXCEPT !.id = i(c), !.late = l(c)]
<1>1. UNCHANGED <<srv, open, wire, reads>>
  BY DEF Begin
<1>2. cmds' = {f(c) : c \in cmds} \union {new}
  BY DEF Begin, Superseded
<1>3. srv \in States /\ view \in States /\ cmds \subseteq Commands /\ spent.cmds \in Nat
  BY DEF ViewInv, TypeOK
<1>4. spent' \in [cmds : Nat, drops : Nat, max : Instances]
  <2> DEFINE n == spent.cmds + 1
  <2>1. spent' = [spent EXCEPT !.cmds = n] /\ n \in Nat
    BY <1>3 DEF Begin
  <2> HIDE DEF n
  <2> QED BY <2>1 DEF ViewInv, TypeOK
<1>5. new \in Commands /\ new.prev = view.rev /\ new.ans # "ok" /\ new.late = FALSE
  BY <1>3, BlankState DEF Commands, States
<1>6. ASSUME NEW c \in cmds
      PROVE  /\ f(c) \in Commands /\ f(c).prev = c.prev /\ f(c).ans = c.ans /\ f(c).st = c.st
             /\ CmdOK(f(c), srv)
  <2>1. c \in Commands /\ CmdOK(c, srv)
    BY <1>3 DEF ViewInv, CmdInv
  <2>2. c.id \in BOOLEAN /\ c.late \in BOOLEAN
    BY <2>1, CmdFields
  <2>3. i(c) \in BOOLEAN /\ l(c) \in BOOLEAN
    BY <2>2, Zenon
  <2>4. c.kind \in {"play", "refs"} /\ l(c) => ~i(c)
    BY <2>1 DEF CmdOK
  <2> HIDE DEF i, l
  <2>5. /\ f(c) \in Commands /\ f(c).prev = c.prev /\ f(c).ans = c.ans /\ f(c).st = c.st
        /\ f(c).kind = c.kind /\ f(c).id = i(c) /\ f(c).late = l(c)
    BY <2>1, <2>3 DEF Commands
  <2> QED BY <2>1, <2>4, <2>5 DEF CmdOK
<1> HIDE DEF new, f, i, l
<1>7. new.prev <= srv.rev
  BY <1>5 DEF ViewInv, ShownInv, NotAfter
<1>8. CmdInv' /\ cmds' \subseteq Commands
  BY <1>1, <1>2, <1>5, <1>6, <1>7 DEF CmdInv, CmdOK
<1>9. /\ view' \in States /\ NotAfter(view', srv)
      /\ \A r \in reads : ReadOK(r, view', srv, cmds)
  BY <1>3, GuessOK DEF ViewInv, ShownInv, ReadInv
<1>10. ReadInv'
  <2> SUFFICES ASSUME NEW r \in reads PROVE ReadOK(r, view', srv, cmds')
    BY <1>1 DEF ReadInv
  <2>1. r.ans = "ok" /\ r.same => new.prev <= r.st.rev
    BY <1>5 DEF ViewInv, ReadInv, ReadOK, NotAfter
  <2> QED BY <1>2, <1>6, <1>9, <2>1 DEF ReadOK
<1>11. TypeOK'
  BY <1>1, <1>4, <1>8, <1>9 DEF ViewInv, TypeOK
<1> QED BY <1>1, <1>8, <1>9, <1>10, <1>11 DEF ViewInv, WireInv, ShownInv

LEMMA UserKeeps == ASSUME ViewInv, User PROVE ViewInv'
<1>1. busy \in BOOLEAN
  BY DEF ViewInv, TypeOK
<1> QED BY <1>1, BeginKeeps
        DEF User, Play, TogglePlayback, QueueCommand, PlayCoverQueueIndex, Kinds

\* What a command that has ended does to the page.
LEMMA CmdDoneEffect ==
  ASSUME ViewInv, NEW c \in cmds, CmdDone(c)
  PROVE  /\ busy' \in BOOLEAN
         /\ \/ MergePlaybackState(c.st, FALSE, reads) /\ c.ans = "ok"
            \/ reads' = reads /\ (view' = view \/ Guess \/ view' = [view EXCEPT !.rev = c.prev])
<1>1. busy \in BOOLEAN
  BY DEF ViewInv, TypeOK
<1>2. (busy /\ c.kind = "cover") \in BOOLEAN
  BY Zenon
<1>3. busy' \in BOOLEAN
  BY <1>1, <1>2 DEF CmdDone, PlayDone, ToggleDone, QueueDone
<1> QED BY <1>3 DEF CmdDone, PlayDone, ToggleDone, QueueDone

LEMMA CmdDoneKeeps == ASSUME ViewInv, NEW c \in cmds, CmdDone(c) PROVE ViewInv'
<1>1. UNCHANGED <<srv, open, wire, spent>> /\ cmds' = cmds \ {c} /\ busy' \in BOOLEAN
  BY CmdDoneEffect DEF CmdDone
<1>2. c \in Commands /\ CmdOK(c, srv) /\ srv \in States /\ view \in States
  BY DEF ViewInv, TypeOK, CmdInv
<1>3. c.st \in States /\ c.prev \in Nat
  BY <1>2, CmdFields
<1>4. view' \in States /\ ReadsTyped(reads') /\ ShownInv' /\ ReadInv'
  <2>1. CASE MergePlaybackState(c.st, FALSE, reads) /\ c.ans = "ok"
    <3>1. NotAfter(c.st, srv)
      BY <1>2, <1>3, <2>1, OrderFacts DEF CmdOK
    <3> QED BY <1>1, <1>3, <2>1, <3>1, MergeKeeps
  <2>2. CASE reads' = reads /\ (view' = view \/ Guess \/ view' = [view EXCEPT !.rev = c.prev])
    <3>1. /\ view' \in States /\ NotAfter(view', srv)
          /\ \A r \in reads : ReadOK(r, view', srv, cmds)
      <4>1. CASE view' = view
        BY <4>1 DEF ViewInv, TypeOK, ShownInv, ReadInv
      <4>2. CASE Guess
        BY <4>2, GuessOK
      <4>3. CASE view' = [view EXCEPT !.rev = c.prev]
        <5>1. c.prev <= srv.rev /\ \A r \in reads : r.ans = "ok" /\ r.same => c.prev <= r.st.rev
          BY <1>2 DEF CmdOK, ViewInv, ReadInv, ReadOK
        <5> QED BY <1>3, <4>3, <5>1, SetRev
      <4> QED BY <2>2, <4>1, <4>2, <4>3
    <3>2. ReadInv'
      BY <1>1, <2>2, <3>1 DEF ReadInv, ReadOK
    <3> QED BY <1>1, <2>2, <3>1, <3>2 DEF ShownInv, ViewInv, TypeOK, ReadsTyped
  <2> QED BY <2>1, <2>2, CmdDoneEffect
<1>5. TypeOK'
  BY <1>1, <1>4 DEF ViewInv, TypeOK, ReadsTyped
<1> QED BY <1>1, <1>4, <1>5 DEF ViewInv, WireInv, CmdInv

-----------------------------------------------------------------------------
LEMMA InitView == Init => ViewInv
<1> SUFFICES ASSUME Init PROVE ViewInv
  OBVIOUS
<1>1. srv \in States /\ view \in States /\ NotAfter(view, srv)
  BY DEF Init, Blank, States, NotAfter, Order!UpTo
<1>2. wire = <<>> /\ reads = {} /\ cmds = {} /\ open = FALSE /\ busy = FALSE
  BY DEF Init
<1>3. spent \in [cmds : Nat, drops : Nat, max : Instances]
  BY DEF Init
<1>4. wire \in Seq(Messages) /\ WireInv
  BY <1>2 DEF WireInv
<1>5. TypeOK
  BY <1>1, <1>2, <1>3, <1>4 DEF TypeOK
<1> QED BY <1>1, <1>2, <1>4, <1>5 DEF ViewInv, ShownInv, ReadInv, CmdInv

LEMMA NextView == ViewInv /\ [Next]_vars => ViewInv'
<1> SUFFICES ASSUME ViewInv, [Next]_vars PROVE ViewInv'
  OBVIOUS
<1>1. CASE ServerStep
  BY <1>1, ChangeKeeps, RestartKeeps, DropKeeps, ConnectKeeps DEF ServerStep
<1>2. CASE Requests
  BY <1>2, AnswerReadKeeps, ReadDoneKeeps DEF Requests
<1>3. CASE CmdSteps
  BY <1>3, AnswerCmdKeeps, FailCmdKeeps, CmdDoneKeeps DEF CmdSteps
<1>4. CASE User
  BY <1>4, UserKeeps
<1>5. CASE FetchStatus \/ OnInit \/ OnPlayback
  BY <1>5, FetchStatusKeeps, OnInitKeeps, OnPlaybackKeeps
<1>6. CASE UNCHANGED vars
  BY <1>6 DEF vars, ViewInv, TypeOK, WireInv, ShownInv, ReadInv, CmdInv
<1> QED BY <1>1, <1>2, <1>3, <1>4, <1>5, <1>6 DEF Next

LEMMA ViewInductive == Spec => []ViewInv
  BY InitView, NextView, PTL DEF Spec

\* The page's state keeps its types, and at most one resync holds the generation.
THEOREM ViewTypes == Spec => []TypeOK
<1>1. ViewInv => TypeOK
  BY DEF ViewInv
<1> QED BY <1>1, ViewInductive, PTL

\* No answer to a status read takes the page back, however many reads, commands and
\* restarts it meets.
THEOREM ReadsNeverRegressAlways == Spec => ReadsNeverRegress
<1>1. ViewInv => [\A r \in reads : ReadDone(r) => view.rev <= view'.rev]_vars
  <2> SUFFICES ASSUME ViewInv, NEW r \in reads, ReadDone(r) PROVE view.rev <= view'.rev
    OBVIOUS
  <2>1. view.rev \in Nat
    BY DEF ViewInv, TypeOK, States
  <2>2. view' = view \/ (view' = r.st /\ r.ans = "ok" /\ r.same)
    BY DEF ReadDone, MergePlaybackState, Usable
  <2> QED BY <2>1, <2>2 DEF ViewInv, ReadInv, ReadOK, NotAfter
<1> QED BY <1>1, ViewInductive, PTL DEF ReadsNeverRegress

\* The answer to a play that a later play replaced never changes the page.
THEOREM SupersededPlayAlwaysDropped == Spec => SupersededPlayDropped
<1>1. ViewInv => [\A c \in cmds : c.kind \in {"play", "refs"} /\ c.late /\ CmdDone(c) => view' = view]_vars
  <2> SUFFICES ASSUME ViewInv, NEW c \in cmds, c.kind \in {"play", "refs"}, c.late, CmdDone(c)
               PROVE  view' = view
    OBVIOUS
  <2>1. ~c.id
    BY DEF ViewInv, CmdInv, CmdOK
  <2> QED BY <2>1 DEF CmdDone, PlayDone, PlayDropped, ToggleDone, QueueDone
<1> QED BY <1>1, ViewInductive, PTL DEF SupersededPlayDropped

-----------------------------------------------------------------------------
\* The steps of the page as steps of PlaybackOrder.

Attaching == wire # <<>> /\ wire[1].init

\* A step that changes neither counter nor process of the two states.
LEMMA SameOrder ==
  ASSUME srv'.ep = srv.ep, srv'.seq = srv.seq, view'.ep = view.ep, view'.seq = view.seq,
         Attaching' = Attaching
  PROVE  UNCHANGED Order!vars
  BY DEF Order!vars, Attaching

\* A push leaves the first message where it is.
LEMMA PushAttaching ==
  ASSUME ViewInv, NEW st \in States, Push(st)
  PROVE  Attaching' = Attaching
<1>1. wire \in Seq(Messages)
  BY DEF ViewInv, TypeOK
<1>2. CASE open
  <2> DEFINE m == [init |-> FALSE, st |-> st]
  <2>1. wire' = Append(wire, m) /\ m \in Messages /\ m.init = FALSE
    BY <1>2 DEF Push, Messages
  <2> HIDE DEF m
  <2>2. /\ wire' \in Seq(Messages) /\ Len(wire') = Len(wire) + 1 /\ Len(wire) \in Nat
        /\ \A i \in 1..Len(wire) : wire'[i] = wire[i]
        /\ wire'[Len(wire) + 1] = m
    BY <1>1, <2>1, AppendProperties
  <2>3. wire' # <<>>
    BY <2>2, EmptySeq
  <2>4. CASE wire = <<>>
    <3>1. wire'[1] = m
      BY <2>2, <2>4
    <3> QED BY <2>1, <2>4, <3>1 DEF Attaching
  <2>5. CASE wire # <<>>
    <3>1. 1 \in 1..Len(wire)
      BY <1>1, <2>2, <2>5, EmptySeq
    <3>2. wire'[1] = wire[1]
      BY <2>2, <3>1
    <3> QED BY <2>3, <2>5, <3>2 DEF Attaching
  <2> QED BY <2>4, <2>5
<1>3. CASE ~open
  BY <1>3 DEF Push, Attaching
<1> QED BY <1>2, <1>3

\* The page takes a state of the server that is not before its own.
LEMMA AdoptStep ==
  ASSUME ViewInv, UNCHANGED srv, Attaching' = Attaching,
         Order!UpTo(view, view'), Order!UpTo(view', srv)
  PROVE  Order!Next
  BY DEF Order!Next, Order!Adopt, Order!UpTo, Attaching

\* A change of the player's counter, pushed or not.
LEMMA ChangeOrder ==
  ASSUME ViewInv, srv' = [srv EXCEPT !.seq = @ + 1, !.rev = @ + 1], Push(srv'), UNCHANGED view
  PROVE  Order!Next
<1>1. srv \in States /\ srv' \in States
  BY ChangeForward DEF ViewInv, TypeOK, Forward
<1>2. srv'.ep = srv.ep /\ srv'.seq = srv.seq + 1
  BY <1>1 DEF States
<1>3. Attaching' = Attaching
  BY <1>1, PushAttaching
<1> QED BY <1>2, <1>3 DEF Order!Next, Order!Change, Attaching

LEMMA ServerOrder == ASSUME ViewInv, ServerStep PROVE [Order!Next]_(Order!vars)
<1>1. srv \in States
  BY DEF ViewInv, TypeOK
<1>2. CASE PlayerChange
  BY <1>2, ChangeOrder DEF PlayerChange
<1>3. CASE OwnerChange
  <2>1. Push(srv') /\ srv' = [srv EXCEPT !.rev = @ + 1] /\ UNCHANGED view
    BY <1>3 DEF OwnerChange
  <2>2. srv' \in States /\ srv'.ep = srv.ep /\ srv'.seq = srv.seq
    BY <1>1, <2>1, ChangeForward DEF Forward, States
  <2> QED BY <2>1, <2>2, PushAttaching, SameOrder
<1>4. CASE Restart
  <2>1. srv'.ep = srv.ep + 1 /\ srv'.seq = 0 /\ UNCHANGED view /\ Attaching' = FALSE
    BY <1>4 DEF Restart, Attaching
  <2> QED BY <2>1 DEF Order!Next, Order!Restart, Attaching
<1>5. CASE Drop \/ Connect
  <2>1. UNCHANGED <<srv, view>>
    BY <1>5 DEF Drop, Connect
  <2>2. Attaching' \in BOOLEAN
    BY Zenon DEF Attaching
  <2> QED BY <2>1, <2>2 DEF Order!Next, Order!Socket, Attaching
<1> QED BY <1>2, <1>3, <1>4, <1>5 DEF ServerStep

\* A state of the current process, if accepted, is not before the one shown.
LEMMA MergeOrder ==
  ASSUME ViewInv, NEW st \in States, OfProcess(st, srv), NEW left,
         MergePlaybackState(st, FALSE, left), UNCHANGED srv, Attaching' = Attaching
  PROVE  Order!Next
<1>1. srv \in States /\ view \in States /\ Order!UpTo(view, srv)
  BY DEF ViewInv, TypeOK, ShownInv, NotAfter
<1>2. CASE view' = view
  <2>1. Order!UpTo(view, view)
    BY <1>1, OrderFacts DEF NotAfter
  <2> QED BY <1>1, <1>2, <2>1, AdoptStep
<1>3. CASE view' = st /\ ~(st.seq < view.seq)
  <2>1. Order!UpTo(view, st) /\ Order!UpTo(st, srv)
    BY <1>1, <1>3 DEF Order!UpTo, OfProcess, States
  <2> QED BY <1>3, <2>1, AdoptStep
<1> QED BY <1>2, <1>3 DEF MergePlaybackState, Stale

LEMMA RequestsOrder == ASSUME ViewInv, Requests PROVE [Order!Next]_(Order!vars)
<1>1. PICK r \in reads : AnswerRead(r) \/ FailRead(r) \/ ReadDone(r)
  BY DEF Requests
<1>2. CASE AnswerRead(r) \/ FailRead(r)
  BY <1>2, SameOrder DEF AnswerRead, FailRead, Attaching
<1>3. CASE ReadDone(r)
  <2>1. UNCHANGED <<srv, wire>>
    BY <1>3 DEF ReadDone
  <2>2. CASE view' = view
    BY <2>1, <2>2, SameOrder DEF Attaching
  <2>3. CASE view' # view
    <3>1. view' = r.st /\ r.ans = "ok" /\ r.same
      BY <1>3, <2>3 DEF ReadDone, MergePlaybackState, Usable
    <3>2. Order!UpTo(view, r.st) /\ Order!UpTo(r.st, srv)
      BY <3>1 DEF ViewInv, ReadInv, ReadOK, NotAfter
    <3> QED BY <2>1, <3>1, <3>2, AdoptStep DEF Attaching
  <2> QED BY <2>2, <2>3
<1> QED BY <1>1, <1>2, <1>3

\* A guess keeps counter and process.
LEMMA RevOrder ==
  ASSUME ViewInv, NEW n \in Nat, view' = view \/ view' = [view EXCEPT !.rev = n], UNCHANGED <<srv, wire>>
  PROVE  UNCHANGED Order!vars
<1>1. view'.ep = view.ep /\ view'.seq = view.seq
  BY DEF ViewInv, TypeOK, States
<1> QED BY <1>1, SameOrder DEF Attaching

LEMMA CmdOrder == ASSUME ViewInv, CmdSteps PROVE [Order!Next]_(Order!vars)
<1>1. PICK c \in cmds : AnswerCmd(c) \/ FailCmd(c) \/ CmdDone(c)
  BY DEF CmdSteps
<1>2. CASE AnswerCmd(c) \/ FailCmd(c)
  <2>1. CASE UNCHANGED <<srv, wire>>
    BY <1>2, <2>1, SameOrder DEF AnswerCmd, FailCmd, Attaching
  <2>2. CASE ~UNCHANGED <<srv, wire>>
    BY <1>2, <2>2, ChangeOrder DEF AnswerCmd, FailCmd
  <2> QED BY <2>1, <2>2
<1>3. CASE CmdDone(c)
  <2>1. UNCHANGED <<srv, wire>> /\ c \in Commands /\ CmdOK(c, srv)
    BY <1>3 DEF CmdDone, ViewInv, TypeOK, CmdInv
  <2>2. c.st \in States /\ c.prev \in Nat
    BY <2>1, CmdFields
  <2>3. CASE MergePlaybackState(c.st, FALSE, reads) /\ c.ans = "ok"
    BY <2>1, <2>2, <2>3, MergeOrder DEF CmdOK, Attaching
  <2>4. CASE view' = view \/ Guess \/ view' = [view EXCEPT !.rev = c.prev]
    BY <2>1, <2>2, <2>4, RevOrder DEF Guess
  <2> QED BY <1>3, <2>3, <2>4, CmdDoneEffect
<1> QED BY <1>1, <1>2, <1>3

LEMMA MessageOrder == ASSUME ViewInv, OnInit \/ OnPlayback PROVE [Order!Next]_(Order!vars)
<1>1. wire # <<>> /\ wire' = Tail(wire) /\ UNCHANGED <<srv, open>>
  BY DEF OnInit, OnPlayback
<1>2. Attaching' = FALSE /\ (Attaching <=> Head(wire).init)
  BY <1>1, TakeMessage DEF Attaching
<1>3. CASE OnInit
  <2>1. Attaching /\ view' = Head(wire).st
    BY <1>2, <1>3 DEF OnInit, Stale
  <2>2. view'.ep = srv.ep /\ Order!UpTo(view', srv)
    BY <1>1, <2>1, TakeMessage DEF OfProcess, NotAfter
  <2> QED BY <1>1, <1>2, <2>1, <2>2 DEF Order!Next, Order!Attach, Order!UpTo, Attaching
<1>4. CASE OnPlayback
  <2>1. MergePlaybackState(Head(wire).st, FALSE, reads) /\ Attaching = FALSE
    BY <1>2, <1>4 DEF OnPlayback, Attaching
  <2> QED BY <1>1, <1>2, <2>1, TakeMessage, MergeOrder
<1> QED BY <1>3, <1>4

\* Every step of the page is a step of PlaybackOrder or changes none of its variables.
LEMMA StepOrder == ViewInv /\ [Next]_vars => [Order!Next]_(Order!vars)
<1> SUFFICES ASSUME ViewInv, [Next]_vars PROVE [Order!Next]_(Order!vars)
  OBVIOUS
<1>1. CASE User
  <2>1. UNCHANGED <<srv, wire>> /\ (view' = view \/ view' = [view EXCEPT !.rev = 0])
    BY <1>1 DEF User, Play, TogglePlayback, QueueCommand, PlayCoverQueueIndex, Begin, Guess
  <2> QED BY <2>1, RevOrder
<1>2. CASE FetchStatus \/ UNCHANGED vars
  BY <1>2, SameOrder DEF FetchStatus, vars, Attaching
<1> QED BY <1>1, <1>2, ServerOrder, RequestsOrder, CmdOrder, MessageOrder DEF Next

\* The page implements PlaybackOrder up to its liveness: it starts as PlaybackOrder does,
\* and whatever answers, pushes, guesses and restarts it meets, what it shows of the player
\* never falls back within a process or to an earlier one, but when a new socket attaches,
\* and is never ahead of the server.
THEOREM KeepsOrder == Spec => Order!Init /\ [][Order!Next]_(Order!vars)
<1>1. Init => Order!Init
  BY DEF Init, Order!Init, Blank
<1> QED BY <1>1, StepOrder, ViewInductive, PTL DEF Spec
=============================================================================
