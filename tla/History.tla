------------------------------- MODULE History -------------------------------
(***************************************************************************)
(* What undo promises: a line of states with a cursor.  A change drops     *)
(* what was undone before it; undo and redo move the cursor.               *)
(* CommandExecution implements it.                                         *)
(***************************************************************************)
EXTENDS Naturals, Sequences

CONSTANTS
  State,   (* the states of the workspace                                   *)
  Limit    (* how many of them undo remembers                               *)

VARIABLE
  line     (* past: the states undo goes back to, the latest last;          *)
           (* present;  future: those redo goes to, the next one last       *)

Init == \E s \in State : line = [past |-> <<>>, present |-> s, future |-> <<>>]

Latest(s) == IF Len(s) <= Limit THEN s ELSE SubSeq(s, Len(s) - Limit + 1, Len(s))
Last(s) == s[Len(s)]
Front(s) == SubSeq(s, 1, Len(s) - 1)

Change(l) ==
  {[past |-> Latest(Append(l.past, l.present)), present |-> s, future |-> <<>>] :
     s \in State}

Undo(l) ==
  {[past |-> Front(l.past), present |-> p, future |-> Append(l.future, l.present)] :
     p \in IF l.past = <<>> THEN {} ELSE {Last(l.past)}}

Redo(l) ==
  {[past |-> Append(l.past, l.present), present |-> f, future |-> Front(l.future)] :
     f \in IF l.future = <<>> THEN {} ELSE {Last(l.future)}}

(* Another workspace: nothing of the old one can be brought back.           *)
Replace(l) == {[past |-> <<>>, present |-> s, future |-> <<>>] : s \in State}

Next == \E l \in {line} : line' \in Change(l) \cup Undo(l) \cup Redo(l) \cup Replace(l)

Spec == Init /\ [][Next]_line

=============================================================================
