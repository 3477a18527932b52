------------------------------- MODULE MCFooter -------------------------------
(* The footer and its polls for TLC: a user and a failing read beside one       *)
(* change of the server, and a page left alone that misses broadcasts.          *)
EXTENDS Footer
Bounds(c, u, x, miss) == [changes |-> c, user |-> u, fails |-> x, miss |-> miss]
SmallInstances == {Bounds(1, 1, 0, FALSE), Bounds(0, 1, 1, FALSE), Bounds(1, 0, 0, TRUE)}
===============================================================================
