---------------------------- MODULE MCWorkerPool ----------------------------
(* Two helpers, three batches of mixed sizes, words that do not wrap. *)
EXTENDS WorkerPool
MixedJobs == {1, 2, 3, 4}
=============================================================================
