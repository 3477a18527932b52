--------------------------- MODULE MCVolumeControl ----------------------------
(* The volume control for TLC: with another client and late pushes, with a     *)
(* longer drag and pushes that arrive before the answers they precede, and     *)
(* with a user who is faster than the first read.                              *)
EXTENDS VolumeControl
Case(inputs, others, fails, prompt, loaded) ==
  [inputs |-> inputs, others |-> others, fails |-> fails, prompt |-> prompt, loaded |-> loaded]
Cases == {Case(3, 1, 1, FALSE, TRUE), Case(4, 0, 1, TRUE, TRUE), Case(2, 0, 1, TRUE, FALSE)}
===============================================================================
