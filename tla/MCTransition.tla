----------------------------- MODULE MCTransition -----------------------------
(* Transition with the environments that TLC explores. *)
EXTENDS Transition

\* Failures at every stage, crashes, disturbed mutes and source switches; no hold.
NoHold == {"crash", "disturb", "stale"}

\* A hold that begins at any time, and nothing else.
Holding == {"hold"}

\* Everything at once.
Everything == Events
=============================================================================
