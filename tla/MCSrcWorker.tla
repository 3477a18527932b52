------------------------------ MODULE MCSrcWorker ------------------------------
(* SrcWorker with all its profiles. *)
EXTENDS SrcWorker

AllProfiles == {"bypass", "low", "sox"}
=============================================================================
