---------------------------- MODULE MC_SnapshotStore ----------------------------
(* Small instances of SnapshotStore: two processes, payloads of two fields. *)
EXTENDS SnapshotStore, TLC

CONSTANTS p1, p2, f, g, one, two, oneFloat

MC_Process == {p1, p2}
MC_Value == {one, two, oneFloat}
MC_EqualTo == oneFloat :> one

(* Payloads that differ in one field.                                       *)
MC_Payload == {(f :> v) @@ (g :> one) : v \in MC_Value}

(* Without loss;  two windows that open a workspace that has no store;      *)
(* everything that may go wrong, by one process and by two;  checkpoints    *)
(* put anywhere;  and values with twins.                                    *)
MC_Settings == {{"restore", "full", "new"}, {"shared", "full", "new"},
                {"stop", "restore", "delete"},
                {"shared", "stop", "restore", "delete"},
                {"shared", "write_fails", "anywhere"},
                {"restore", "anywhere"}, {"restore", "twin"}}

MC_Limit(s) == IF "shared" \in s THEN 3
               ELSE IF "full" \in s THEN 5 ELSE 4

(* A process that is closed and opened again.                               *)
MC_Restarts == {{"stop"}}

MC_Symmetry == Permutations(Process)
=================================================================================
