-------------------------- MODULE MC_CommandExecution --------------------------
(* Small instances of CommandExecution: two threads and two cells.          *)
EXTENDS CommandExecution, TLC

(* One user, with several edits in a command;  with failures;  with other   *)
(* workspaces;  with batches;  with cells that rules fill;  and two users.  *)
MC_Settings == {{}, {"fails"}, {"replace"}, {"batch"}, {"rules"}, {"threads"}}

MC_MaxEdits(s) == IF s = {} THEN 2 ELSE 1

MC_Rules == {{"rules"}}

MC_Symmetry ==
  Permutations(Thread) \cup Permutations(Cell) \cup Permutations(Number)
================================================================================
