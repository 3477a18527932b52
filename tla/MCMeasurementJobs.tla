--------------------------- MODULE MCMeasurementJobs ---------------------------
(* The measurement runs for TLC: three sweeps in a row; the tasks and the      *)
(* recovery; a sweep beside the tasks; the wizard beside a sweep; cancelled    *)
(* runs whose jobs need not end.                                               *)
EXTENDS MeasurementJobs
Case(kinds, flows, faults, cancels, ends) ==
  [kinds |-> kinds, flows |-> flows, faults |-> faults, cancels |-> cancels, ends |-> ends]
TaskKinds == {"sub", "align", "recovery"}
Cases == {Case({"sweep"}, 3, 2, 1, TRUE), Case(TaskKinds, 2, 2, 1, TRUE),
          Case({"sweep"} \union Tasks, 2, 2, 1, TRUE),
          Case({"sweep", "hybrid"}, 2, 2, 1, TRUE), Case(TaskKinds, 2, 0, 2, FALSE),
          Case({"sweep"} \union Tasks, 3, 0, 2, FALSE),
          Case({"sweep", "hybrid"}, 2, 0, 2, FALSE)}
=============================================================================
