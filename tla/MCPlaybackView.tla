---------------------------- MODULE MCPlaybackView ----------------------------
(* The page's playback state for TLC: reads that overlap; two commands of any *)
(* kind; a command among reads, a restart and a lost connection.              *)
EXTENDS PlaybackView
Case(revs, restarts, drops, width, number, kinds) ==
  [revs |-> revs, restarts |-> restarts, drops |-> drops, reads |-> width, cmds |-> number,
   kinds |-> kinds]
Cases == {Case(3, 1, 1, 2, 0, {}), Case(2, 0, 0, 1, 2, Kinds),
          Case(2, 1, 1, 1, 1, {"play", "toggle", "queue"})}
===============================================================================
