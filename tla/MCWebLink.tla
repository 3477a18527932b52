------------------------------ MODULE MCWebLink ------------------------------
(* The page's connection for TLC: answers in time, or late answers and          *)
(* sockets that cannot be created.                                              *)
EXTENDS WebLink
TwoOddities == {{}, {"late", "throws"}}
==============================================================================
