--------------------------- MODULE MC_Recalculation ---------------------------
(* Small instances of Recalculation: three cells, numbers modulo two.       *)
EXTENDS Recalculation, TLC, SequencesExt

CONSTANTS a, b, c

MC_Cell == {a, b, c}

(* One more than the sum of what was read.                                  *)
MC_Compute(r, nums) ==
  FoldLeft(LAMBDA sum, ref : sum + nums[ref], 1, r.refs) % 2

(* c reads b reads a.                                                       *)
Chain == (a :> NoRule) @@ (b :> Rule("all", <<a>>)) @@ (c :> Rule("all", <<b>>))
(* c reads a and b, and b only if a is not zero.                            *)
Branch == (a :> NoRule) @@ (b :> Rule("all", <<a>>)) @@ (c :> Rule("if", <<a, b>>))
(* b and c read each other.                                                 *)
Cycle == (a :> NoRule) @@ (b :> Rule("all", <<c>>)) @@ (c :> Rule("all", <<b, a>>))
(* ... but b reads c only if a is not zero.                                 *)
Latent == (a :> NoRule) @@ (b :> Rule("if", <<a, c>>)) @@ (c :> Rule("all", <<b>>))

MC_Acyclic == {Chain, Branch}
MC_Workspaces == {Chain, Branch, Cycle, Latent}

(* A rule for an input, one that closes a cycle, and one that opens it.     *)
MC_AcyclicRules == {<<a, Rule("all", <<>>)>>, <<c, Rule("if", <<b, a>>)>>}
MC_NewRules == {<<a, Rule("all", <<c>>)>>, <<b, Rule("all", <<>>)>>,
                <<c, Rule("if", <<b, a>>)>>}

===============================================================================
