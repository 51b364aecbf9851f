-------------------------- MODULE MC_SolverService --------------------------
(* SolverService with two values and the points the runs need.              *)
EXTENDS SolverService, TLC

Values == {0, 1}

(* 0,0,...  1,1,...  and the points that mix them.                           *)
Zeros    == [c \in Cell |-> 0]
Ones     == [c \in Cell |-> 1]
Mixed    == [c \in Cell |-> IF c = 1 THEN 0 ELSE 1]

TwoPoints    == {Ones, Mixed}
OnePoint     == {Ones}
NoPoints     == {}

NoFront      == {{}}
SingleFronts == {{}, {Zeros}, {Ones}}
OneFront     == {{Ones}}
TwoPointFront == {{}, {Zeros}, {Ones, Mixed}}

CallersFail  == {"stale", "start_fails"}
AppliesFail  == {"apply_fails", "expiry"}
Turbulent    == Hazards \ {"expiry"}

NoClients == {}

JobSymmetry == Permutations(Job)
ClientSymmetry == Permutations(Client)
=============================================================================
