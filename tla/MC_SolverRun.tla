----------------------------- MODULE MC_SolverRun -----------------------------
(* Small instances of SolverRun: two candidates, three evaluations.         *)
EXTENDS SolverRun, TLC

MC_Settings ==
  {{"process", "cancel", "deadline", "errors", "crash"}, {"cancel", "deadline", "errors"},
   {"process", "population", "cancel", "deadline", "errors", "crash"},
   {"population", "cancel", "deadline", "errors"}}
===============================================================================
