--------------------------- MODULE MCRadioReconnect ---------------------------
(* The radio reconnect for TLC: plays and stops beside a shutdown; replays,   *)
(* which do not reset; plays that commit while a reset is still draining.      *)
EXTENDS RadioReconnect
Case(number, kinds, reports, stops, slow) ==
  [ops |-> number, kinds |-> kinds, events |-> reports, stops |-> stops, slow |-> slow]
Cases == {Case(3, {"play", "stop"}, 3, 1, FALSE), Case(2, {"play", "replay"}, 4, 0, FALSE),
          Case(3, {"play", "stop"}, 2, 0, TRUE)}
===============================================================================
