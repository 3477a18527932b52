---------------------------- MODULE PlaybackOrder ----------------------------
(***************************************************************************)
(* What the page promises about the playback state it shows                *)
(* (static/playback_core.js, mergePlaybackState): it follows the player's  *)
(* counter forward, from one server process to the next, steps back only   *)
(* when a new socket attaches, and catches up once the player is quiet.    *)
(***************************************************************************)
EXTENDS Naturals

VARIABLES
  server,    \* process and counter of the player
  shown,     \* process and counter of the state the page shows
  attaching  \* a socket is open whose init the page has not handled

vars == <<server, shown, attaching>>

\* Order of two states: a later process, or a higher counter of the same one.
UpTo(s, t) == s.ep < t.ep \/ (s.ep = t.ep /\ s.seq <= t.seq)

Init ==
  /\ server = [ep |-> 1, seq |-> 0] /\ shown = [ep |-> 0, seq |-> 0]
  /\ attaching = FALSE

Change  == server' = [server EXCEPT !.seq = @ + 1] /\ UNCHANGED <<shown, attaching>>
Restart == server' = [ep |-> server.ep + 1, seq |-> 0] /\ attaching' = FALSE /\ UNCHANGED shown
Socket  == attaching' \in BOOLEAN /\ UNCHANGED <<server, shown>>

\* Some state of the server that is not before the one shown.
Adopt ==
  /\ UpTo(shown, shown') /\ UpTo(shown', server)
  /\ UNCHANGED <<server, attaching>>

\* The init of a new socket counts whatever was shown before.
Attach ==
  /\ attaching /\ attaching' = FALSE
  /\ shown'.ep = server.ep /\ UpTo(shown', server)
  /\ UNCHANGED server

Next == Change \/ Restart \/ Socket \/ Adopt \/ Attach

\* Unless the player goes on changing for ever, the page ends up with its state.
CatchesUp == []<><<TRUE>>_server \/ <>[](shown = server)

Spec == Init /\ [][Next]_vars /\ CatchesUp
==============================================================================
