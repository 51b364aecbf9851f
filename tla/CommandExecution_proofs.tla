------------------------ MODULE CommandExecution_proofs ------------------------
(***************************************************************************)
(* Proofs about CommandExecution, for any threads, cells, numbers and any  *)
(* limits, in every setting.                                               *)
(*                                                                         *)
(*   - IInv: a group is open only while a command runs.  GroupsEndTheorem. *)
(*   - TypeInv: the types, with what edits hold: undo brings back the      *)
(*     value of a rule only into a cell that has one.  TypeTheorem.        *)
(*   - UserInv, for one user: the open group is that of the command that   *)
(*     runs (Turns); both stacks together keep to the limit and what is    *)
(*     gone lies below what is not (GoneFirst); and each step along a      *)
(*     stack can be taken back (Faithful).  With it every step maps to one *)
(*     of History or none.  LinearHistoryTheorem.                          *)
(***************************************************************************)
EXTENDS CommandExecution, Integers, FiniteSetTheorems, SequenceTheorems,
        WellFoundedInduction, TLAPS

(* What a thread executes is a command or nothing, and a group is open only *)
(* while some thread executes one: a command's end closes whatever group is *)
(* open, and edits outside of commands open none.                           *)
Commands == [kind : Kind, left : Nat] \cup {Nothing}

(* The invariant of GroupsEnd.                                              *)
IInv ==
  /\ command \in [Thread -> Commands]
  /\ GroupsEnd

(* A thread that takes a step of its command still executes it.             *)
LEMMA StepKeepsCommand ==
  ASSUME command \in [Thread -> Commands], NEW t \in Thread, ~Idle(t), command[t].left > 0,
         StepTaken(t)
  PROVE  command' \in [Thread -> Commands] /\ ~Idle(t)'
<1>1. command[t] \in [kind : Kind, left : Nat] BY DEF Commands, Idle
<1>2. command'[t] = [command[t] EXCEPT !.left = command[t].left - 1] BY DEF StepTaken
<1>3. command'[t] \in [kind : Kind, left : Nat] BY <1>1, <1>2
<1>4. command'[t] # Nothing BY <1>3 DEF Kind, Nothing
<1> QED BY <1>3, <1>4 DEF StepTaken, Commands, Idle

(* A thread with steps left executes a command.                             *)
LEMMA RunningIsNotIdle ==
  ASSUME NEW t \in Thread, NEW kind \in Kind, Running(t, kind)
  PROVE  ~Idle(t) /\ command[t].left > 0
BY DEF Running, Idle, Nothing, Kind

(* At first no group is open.                                               *)
LEMMA InitIInv ==
  ASSUME CommandAssumption, Init
  PROVE  IInv
BY DEF Init, IInv, Commands, GroupsEnd

(* Every step closes the group that its command leaves.                     *)
LEMMA NextIInv ==
  ASSUME CommandAssumption, setting \in Settings, IInv, [Next]_vars
  PROVE  IInv'
<1> USE DEF IInv
<1>1. CASE UNCHANGED vars BY <1>1 DEF vars, GroupsEnd, Idle
<1>2. ASSUME NEW c \in Cell, Evaluate(c) PROVE IInv'
  BY <1>2 DEF Evaluate, GroupsEnd, Idle
<1>3. ASSUME NEW t \in Thread, NEW kind \in Kind, Begin(t, kind) PROVE IInv'
  <2>1. MaxEdits(setting) \in Nat BY DEF CommandAssumption
  <2>2. command'[t] \in [kind : Kind, left : Nat] BY <1>3, <2>1 DEF Begin
  <2>3. command'[t] # Nothing BY <2>2 DEF Nothing, Kind
  <2> QED BY <1>3, <2>2, <2>3 DEF Begin, GroupsEnd, Idle, Commands
<1>4. ASSUME NEW t \in Thread, NEW kind \in Kind, Running(t, kind), StepTaken(t) PROVE IInv'
  BY <1>4, StepKeepsCommand, RunningIsNotIdle DEF GroupsEnd, Idle
<1>5. ASSUME NEW t \in Thread, Succeed(t) \/ Fail(t) PROVE IInv'
  BY <1>5 DEF Succeed, Fail, GroupsEnd, Commands
<1> QED
  BY <1>1, <1>2, <1>3, <1>4, <1>5 DEF Next, SetCell, SetCells, RunUndo, RunRedo, Replace, Kind

(* A group never outlives the commands.                                     *)
THEOREM GroupsEndTheorem == Spec => []GroupsEnd
<1>1. Init => setting \in Settings /\ IInv BY InitIInv, CommandAssumption DEF Init
<1>2. setting \in Settings /\ IInv /\ [Next]_vars => (setting \in Settings /\ IInv)'
  <2> SUFFICES ASSUME setting \in Settings, IInv, [Next]_vars
               PROVE  (setting \in Settings /\ IInv)'
    OBVIOUS
  <2>1. setting' = setting
    BY DEF Next, vars, Evaluate, Begin, SetCell, SetCells, RunUndo, RunRedo, Replace, Succeed, Fail
  <2> QED BY <2>1, NextIInv, CommandAssumption
<1>3. IInv => GroupsEnd BY DEF IInv
<1> QED BY <1>1, <1>2, <1>3, PTL DEF Spec

-----------------------------------------------------------------------------
(* Induction, and concatenation.                                            *)

(* A set of naturals that is not empty has a least one.                     *)
LEMMA LeastNat ==
  ASSUME NEW T, T \subseteq Nat, T # {}
  PROVE  \E m \in T : \A n \in T : m <= n
<1> DEFINE R == {p \in Nat \X Nat : p[1] < p[2]}
<1>1. IsWellFoundedOn(R, Nat)
  BY NatLessThanWellFounded DEF OpToRel
<1>2. \A m, n \in Nat : n < m => <<n, m>> \in R
  OBVIOUS
<1> HIDE DEF R
<1>3. PICK m \in T : \A n \in T : ~ (<<n, m>> \in R)
  BY <1>1, WFMin
<1>4. \A n \in T : ~(n < m)
  BY <1>2, <1>3
<1>5. \A n \in T : m <= n
  BY <1>4
<1> QED
  BY <1>5

(* A set of indices that is not empty has a greatest one.                   *)
LEMMA GreatestIndex ==
  ASSUME NEW n \in Nat, NEW I, I \subseteq 1..n, I # {}
  PROVE  \E m \in I : \A k \in I : k <= m
<1> DEFINE T == {n - k : k \in I}
<1>1. T \subseteq Nat /\ T # {}
  <2>1. ASSUME NEW k \in I PROVE n - k \in Nat
    <3>1. k \in Int /\ k <= n
      OBVIOUS
    <3> QED
      BY <3>1
  <2> QED
    BY <2>1
<1>2. PICK d \in T : \A e \in T : d <= e
  BY <1>1, LeastNat
<1>3. PICK m \in I : d = n - m
  BY <1>2
<1>4. ASSUME NEW k \in I PROVE k <= m
  <2>1. n - k \in T
    OBVIOUS
  <2>2. n - m <= n - k
    BY <1>2, <1>3, <2>1
  <2>3. m \in Int /\ k \in Int
    OBVIOUS
  <2> QED
    BY <2>2, <2>3
<1> QED
  BY <1>4

(* Induction, for a set of naturals.                                        *)
LEMMA NatSetInduction ==
  ASSUME NEW S, 0 \in S, \A n \in Nat : n \in S => n + 1 \in S
  PROVE  Nat \subseteq S
<1> SUFFICES ASSUME ~(Nat \subseteq S) PROVE FALSE
  OBVIOUS
<1>1. PICK m \in Nat \ S : \A n \in Nat \ S : m <= n
  BY LeastNat
<1>2. m # 0 /\ m - 1 \in Nat
  BY <1>1
<1>3. m - 1 \in S
  BY <1>1, <1>2
<1> QED
  BY <1>1, <1>2, <1>3

(* Induction, for a set of sequences, each of which grows at its end.       *)
LEMMA SeqSetInduction ==
  ASSUME NEW S, NEW P, <<>> \in P, \A s \in Seq(S), e \in S : s \in P => Append(s, e) \in P
  PROVE  Seq(S) \subseteq P
<1> DEFINE N == {n \in Nat : \A s \in Seq(S) : Len(s) = n => s \in P}
<1>1. 0 \in N
  <2> SUFFICES ASSUME NEW s \in Seq(S), Len(s) = 0 PROVE s \in P
    OBVIOUS
  <2>1. s = <<>>
    BY EmptySeq
  <2> QED
    BY <2>1
<1>2. ASSUME NEW n \in Nat, n \in N PROVE n + 1 \in N
  <2> SUFFICES ASSUME NEW s \in Seq(S), Len(s) = n + 1 PROVE s \in P
    OBVIOUS
  <2>1. s # <<>>
    BY EmptySeq
  <2>2. PICK t \in Seq(S), e \in S : s = Append(t, e)
    BY <2>1, SequenceEmptyOrAppend
  <2>3. Len(s) = Len(t) + 1 /\ Len(t) \in Nat
    BY <2>2, AppendProperties, LenProperties
  <2>4. t \in P
    BY <1>2, <2>3
  <2> QED
    BY <2>2, <2>4
<1> HIDE DEF N
<1>3. Nat \subseteq N
  BY <1>1, <1>2, NatSetInduction
<1>4. ASSUME NEW s \in Seq(S) PROVE s \in P
  <2>1. Len(s) \in N
    BY <1>3, LenProperties
  <2> QED
    BY <2>1 DEF N
<1> QED
  BY <1>4

(* The recursive functions of Concat and Walk go on from what is before.    *)
StepOf(what, z, s, f, n) ==
  IF n = 0 THEN z
  ELSE IF what = "concat" THEN f[n - 1] \o s[n]
  ELSE IF what = "undo" THEN Undo(f[n - 1], s[Len(s) - n + 1])
  ELSE Do(f[n - 1], s[Len(s) - n + 1])

(* They exist, by induction over the length.                                *)
LEMMA IterationExists ==
  ASSUME NEW what, NEW z, NEW s, Len(s) \in Nat
  PROVE  \E f : f = [n \in 0..Len(s) |-> StepOf(what, z, s, f, n)]
<1> DEFINE Is(f, k) == f = [n \in 0..k |-> StepOf(what, z, s, f, n)]
           S == {k \in Nat : \E f : Is(f, k)}
<1>1. 0 \in S
  <2>1. PICK f : f = [n \in 0..0 |-> z]
    OBVIOUS
  <2>2. Is(f, 0)
    BY <2>1 DEF StepOf
  <2> QED
    BY <2>2
<1>2. ASSUME NEW k \in Nat, k \in S PROVE k + 1 \in S
  <2>1. PICK f : Is(f, k)
    BY <1>2
  <2> DEFINE g == [n \in 0..k + 1 |-> IF n = k + 1 THEN StepOf(what, z, s, f, n) ELSE f[n]]
  <2>2. \A n \in 0..k : g[n] = f[n] /\ f[n] = StepOf(what, z, s, f, n)
    BY <2>1
  <2>3. \A n \in 0..k + 1 : StepOf(what, z, s, g, n) = StepOf(what, z, s, f, n)
    <3> SUFFICES ASSUME NEW n \in 0..k + 1, n # 0 PROVE g[n - 1] = f[n - 1]
      BY DEF StepOf
    <3>1. n - 1 \in 0..k
      OBVIOUS
    <3> QED
      BY <2>2, <3>1
  <2>4. g[k + 1] = StepOf(what, z, s, f, k + 1) /\ DOMAIN g = 0..k + 1
    OBVIOUS
  <2>5. \A n \in 0..k + 1 : g[n] = StepOf(what, z, s, g, n)
    <3> SUFFICES ASSUME NEW n \in 0..k + 1 PROVE g[n] = StepOf(what, z, s, f, n)
      BY <2>3
    <3>1. n = k + 1 \/ n \in 0..k
      OBVIOUS
    <3> QED
      BY <2>2, <2>4, <3>1
  <2>6. Is(g, k + 1)
    BY <2>4, <2>5
  <2> HIDE DEF g
  <2> QED
    BY <2>6
<1> HIDE DEF S
<1>3. Nat \subseteq S
  BY <1>1, <1>2, NatSetInduction
<1> QED
  BY <1>3 DEF S

(* The concatenations of the first sequences of ss.                         *)
Joined(ss) ==
  CHOOSE f : f = [i \in 0..Len(ss) |-> IF i = 0 THEN <<>> ELSE f[i - 1] \o ss[i]]

(* Concat is the last of them.                                              *)
LEMMA ConcatIsJoined == \A ss : Concat(ss) = Joined(ss)[Len(ss)]
BY DEF Concat, Joined

(* Each of them is the one before, with one more sequence.                  *)
LEMMA JoinedEquation ==
  ASSUME NEW ss, Len(ss) \in Nat
  PROVE  \A i \in 0..Len(ss) : Joined(ss)[i] = IF i = 0 THEN <<>> ELSE Joined(ss)[i - 1] \o ss[i]
<1>1. PICK f : f = [n \in 0..Len(ss) |-> StepOf("concat", <<>>, ss, f, n)]
  BY IterationExists
<1>2. f = [i \in 0..Len(ss) |-> IF i = 0 THEN <<>> ELSE f[i - 1] \o ss[i]]
  BY <1>1 DEF StepOf
<1>3. \E g : g = [i \in 0..Len(ss) |-> IF i = 0 THEN <<>> ELSE g[i - 1] \o ss[i]]
  BY <1>2
<1>4. Joined(ss) = [i \in 0..Len(ss) |-> IF i = 0 THEN <<>> ELSE Joined(ss)[i - 1] \o ss[i]]
  BY <1>3 DEF Joined
<1> DEFINE j == Joined(ss)
<1> HIDE DEF j
<1>5. j = [i \in 0..Len(ss) |-> IF i = 0 THEN <<>> ELSE j[i - 1] \o ss[i]]
  BY <1>4 DEF j
<1>6. \A i \in 0..Len(ss) : j[i] = IF i = 0 THEN <<>> ELSE j[i - 1] \o ss[i]
  BY <1>5
<1> QED
  BY <1>6 DEF j

(* Concat of nothing.                                                       *)
LEMMA ConcatNothing == Concat(<<>>) = <<>>
<1>1. Len(<<>>) = 0
  OBVIOUS
<1> QED
  BY <1>1, ConcatIsJoined, JoinedEquation

(* Concat of one more sequence.                                             *)
LEMMA ConcatOneMore ==
  ASSUME NEW S, NEW ss \in Seq(S), NEW s \in S
  PROVE  Concat(Append(ss, s)) = Concat(ss) \o s
<1> DEFINE tt == Append(ss, s)
           f == Joined(ss)
           g == Joined(tt)
           N == {n \in Nat : n <= Len(ss) => f[n] = g[n]}
<1>1. /\ Len(ss) \in Nat /\ Len(tt) = Len(ss) + 1
      /\ \A i \in 1..Len(ss) : tt[i] = ss[i]
      /\ tt[Len(ss) + 1] = s
  BY LenProperties, AppendProperties
<1> HIDE DEF tt
<1>2. \A i \in 0..Len(ss) : f[i] = IF i = 0 THEN <<>> ELSE f[i - 1] \o ss[i]
  BY <1>1, JoinedEquation
<1>3. \A i \in 0..Len(ss) + 1 : g[i] = IF i = 0 THEN <<>> ELSE g[i - 1] \o tt[i]
  BY <1>1, JoinedEquation
<1> HIDE DEF f, g
<1>4. 0 \in N
  BY <1>1, <1>2, <1>3
<1>5. ASSUME NEW n \in Nat, n \in N PROVE n + 1 \in N
  <2> SUFFICES ASSUME n + 1 <= Len(ss) PROVE f[n + 1] = g[n + 1]
    OBVIOUS
  <2>1. /\ n + 1 \in 0..Len(ss) /\ n + 1 \in 0..Len(ss) + 1 /\ n + 1 \in 1..Len(ss)
        /\ n + 1 # 0 /\ (n + 1) - 1 = n /\ n <= Len(ss)
    BY <1>1
  <2>2. f[n] = g[n]
    BY <1>5, <2>1
  <2>3. f[n + 1] = f[n] \o ss[n + 1]
    BY <1>2, <2>1
  <2>4. g[n + 1] = g[n] \o tt[n + 1]
    BY <1>3, <2>1
  <2> QED
    BY <1>1, <2>1, <2>2, <2>3, <2>4
<1>6. f[Len(ss)] = g[Len(ss)]
  <2> HIDE DEF N
  <2>1. Nat \subseteq N
    BY <1>4, <1>5, NatSetInduction
  <2> QED
    BY <1>1, <2>1 DEF N
<1>7. g[Len(ss) + 1] = g[Len(ss)] \o s
  <2>1. Len(ss) + 1 \in 0..Len(ss) + 1 /\ Len(ss) + 1 # 0 /\ (Len(ss) + 1) - 1 = Len(ss)
    BY <1>1
  <2>2. g[Len(ss) + 1] = g[Len(ss)] \o tt[Len(ss) + 1]
    BY <1>3, <2>1
  <2> QED
    BY <1>1, <2>2
<1>8. Concat(ss) = f[Len(ss)] /\ Concat(tt) = g[Len(ss) + 1]
  BY <1>1, ConcatIsJoined DEF f, g
<1> QED
  BY <1>6, <1>7, <1>8 DEF tt

(* Concat makes a sequence of sequences of some elements one of these.      *)
LEMMA ConcatType ==
  ASSUME NEW S, NEW ss \in Seq(Seq(S))
  PROVE  Concat(ss) \in Seq(S)
<1> DEFINE P == {s \in Seq(Seq(S)) : Concat(s) \in Seq(S)}
<1>1. <<>> \in P
  BY ConcatNothing, EmptySeq
<1>2. ASSUME NEW s \in Seq(Seq(S)), NEW e \in Seq(S), s \in P PROVE Append(s, e) \in P
  <2>1. Append(s, e) \in Seq(Seq(S))
    BY AppendProperties
  <2>2. Concat(Append(s, e)) = Concat(s) \o e
    BY ConcatOneMore
  <2>3. Concat(s) \o e \in Seq(S)
    BY <1>2, ConcatProperties
  <2> QED
    BY <2>1, <2>2, <2>3
<1> HIDE DEF P
<1>3. Seq(Seq(S)) \subseteq P
  BY <1>1, <1>2, SeqSetInduction
<1> QED
  BY <1>3 DEF P

-----------------------------------------------------------------------------
(* The types.                                                               *)

(* The edits that undo restores a value of a rule by are on cells that have *)
(* one.                                                                     *)
FineEdit == {e \in Edit : e.before = Computed => e.cell \in RuleCell}

(* Actions of such edits.                                                   *)
FineAction == Seq(FineEdit)

(* Cells as they can be: a mark is on a value, and a value of a rule is in  *)
(* a cell that has one.                                                     *)
CellsFine(cells) ==
  /\ cells.value \in [Cell -> Content]
  /\ cells.override \subseteq {c \in Cell : cells.value[c] # Empty}
  /\ \A c \in Cell : cells.value[c] = Computed => c \in RuleCell
  /\ \A c \in Cell \ cells.override : cells.value[c] \notin Number

(* The type invariant, with the two stacks and the group made of such       *)
(* edits, and at most one group.                                            *)
TypeInv ==
  /\ setting \in Settings /\ marked \subseteq Cell
  /\ CellsFine(Cells)
  /\ undo \in Seq(FineAction) /\ redo \in Seq(FineAction)
  /\ Len(undo) <= MaxHistory /\ Len(redo) <= MaxHistory
  /\ group = {} \/ \E g \in Seq(FineAction) : group = {g}
  /\ command \in [Thread -> [kind : Kind, left : 0..MaxEdits(setting)] \cup {Nothing}]

(* The cells with rules are among the marked ones.                          *)
LEMMA RuleCellMarked ==
  ASSUME marked \subseteq Cell
  PROVE  RuleCell \subseteq marked /\ RuleCell \subseteq Cell
BY DEF RuleCell

(* What is written is fine if the last contents are.                        *)
LEMMA WrittenFine ==
  ASSUME CommandAssumption, NEW cells, CellsFine(cells), NEW v,
         \A c \in DOMAIN v : /\ v[c] \in Content
                             /\ v[c] = Computed => c \in RuleCell
  PROVE  CellsFine(Written(cells, v))
<1> DEFINE w == Written(cells, v)
<1>1. /\ w.value = [c \in Cell |-> IF c \in DOMAIN v THEN v[c]
                                   ELSE IF c \in cells.override THEN cells.value[c]
                                   ELSE Empty]
      /\ w.override = {c \in Cell : IF c \in DOMAIN v THEN v[c] # Empty
                                    ELSE c \in cells.override}
  BY DEF Written
<1> HIDE DEF w
<1>2. ASSUME NEW c \in Cell
      PROVE  /\ w.value[c] \in Content
             /\ c \in w.override => w.value[c] # Empty
             /\ w.value[c] = Computed => c \in RuleCell
             /\ c \notin w.override => w.value[c] \notin Number
  <2>1. CASE c \in DOMAIN v
    <3>1. w.value[c] = v[c] /\ (c \in w.override <=> v[c] # Empty)
      BY <1>1, <2>1
    <3> QED
      BY <2>1, <3>1 DEF CommandAssumption
  <2>2. CASE c \notin DOMAIN v
    <3>1. /\ w.value[c] = IF c \in cells.override THEN cells.value[c] ELSE Empty
          /\ c \in w.override <=> c \in cells.override
      BY <1>1, <2>2
    <3> QED
      BY <3>1 DEF CommandAssumption, CellsFine, Content, Typed
  <2> QED
    BY <2>1, <2>2
<1>3. w.value \in [Cell -> Content]
  <2>1. DOMAIN w.value = Cell /\ w.value = [c \in Cell |-> w.value[c]]
    BY <1>1
  <2> QED
    BY <1>2, <2>1
<1>4. w.override \subseteq Cell
  BY <1>1
<1>5. CellsFine(w)
  BY <1>2, <1>3, <1>4 DEF CellsFine
<1> QED
  BY <1>5 DEF w

(* The last and the first edit of an edited cell are edits of it.           *)
LEMMA FirstFinalExist ==
  ASSUME NEW S, NEW a \in Seq(S), NEW c \in Edited(a)
  PROVE  /\ Final(EditsOf(a, c)) \in EditsOf(a, c)
         /\ \A k \in EditsOf(a, c) : k <= Final(EditsOf(a, c))
         /\ First(EditsOf(a, c)) \in EditsOf(a, c)
         /\ \A k \in EditsOf(a, c) : First(EditsOf(a, c)) <= k
<1> DEFINE I == EditsOf(a, c)
<1>1. I \subseteq 1..Len(a) /\ Len(a) \in Nat
  BY LenProperties DEF EditsOf
<1>2. I # {}
  BY DEF Edited, EditsOf
<1>3. I \subseteq Nat
  BY <1>1
<1> HIDE DEF I
<1>4. \E i \in I : \A k \in I : k <= i
  BY <1>1, <1>2, GreatestIndex
<1>5. \E i \in I : \A k \in I : i <= k
  BY <1>2, <1>3, LeastNat
<1>6. Final(I) \in I /\ \A k \in I : k <= Final(I)
  BY <1>4 DEF Final
<1>7. First(I) \in I /\ \A k \in I : First(I) <= k
  BY <1>5 DEF First
<1> QED
  BY <1>6, <1>7 DEF I

(* Doing and undoing actions leaves the cells fine.                         *)
LEMMA DoFine ==
  ASSUME CommandAssumption, NEW cells, CellsFine(cells), NEW a \in FineAction
  PROVE  CellsFine(Do(cells, a))
<1> DEFINE after == [c \in Edited(a) |-> a[Final(EditsOf(a, c))].after]
<1>1. ASSUME NEW c \in Edited(a)
      PROVE  after[c] \in Content /\ after[c] # Computed
  <2>1. Final(EditsOf(a, c)) \in 1..Len(a)
    <3>1. Final(EditsOf(a, c)) \in DOMAIN a
      BY FirstFinalExist DEF FineAction, EditsOf
    <3> QED
      BY <3>1, LenProperties DEF FineAction
  <2>2. a[Final(EditsOf(a, c))] \in Edit
    BY <2>1, ElementOfSeq DEF FineAction, FineEdit
  <2>3. after[c] \in Typed
    BY <2>2 DEF Edit
  <2> QED
    BY <2>3 DEF Content, Typed, CommandAssumption
<1>2. DOMAIN after = Edited(a)
  OBVIOUS
<1>3. Do(cells, a) = IF a = Gone THEN cells ELSE Written(cells, after)
  BY DEF Do
<1> HIDE DEF after
<1>4. CellsFine(Written(cells, after))
  BY <1>1, <1>2, WrittenFine
<1> QED
  BY <1>3, <1>4

(* Undoing an action keeps the cells fine: what it brings back is what was  *)
(* there before, a value of a rule only in a cell that has one.             *)
LEMMA UndoFine ==
  ASSUME CommandAssumption, NEW cells, CellsFine(cells), NEW a \in FineAction
  PROVE  CellsFine(Undo(cells, a))
<1> DEFINE before == [c \in Edited(a) |-> a[First(EditsOf(a, c))].before]
<1>1. ASSUME NEW c \in Edited(a)
      PROVE  before[c] \in Content /\ (before[c] = Computed => c \in RuleCell)
  <2>1. First(EditsOf(a, c)) \in 1..Len(a) /\ a[First(EditsOf(a, c))].cell = c
    <3>1. First(EditsOf(a, c)) \in EditsOf(a, c)
      BY FirstFinalExist DEF FineAction
    <3> QED
      BY <3>1, LenProperties DEF FineAction, EditsOf
  <2>2. a[First(EditsOf(a, c))] \in FineEdit
    BY <2>1, ElementOfSeq DEF FineAction
  <2> QED
    BY <2>1, <2>2 DEF Edit, FineEdit
<1>2. DOMAIN before = Edited(a)
  OBVIOUS
<1>3. Undo(cells, a) = IF a = Gone THEN cells ELSE Written(cells, before)
  BY DEF Undo
<1> HIDE DEF before
<1>4. CellsFine(Written(cells, before))
  BY <1>1, <1>2, WrittenFine
<1> QED
  BY <1>3, <1>4

(* The histories keep to their limit.                                       *)
LEMMA LatestFine ==
  ASSUME CommandAssumption, NEW S, NEW s \in Seq(S)
  PROVE  Latest(s) \in Seq(S) /\ Len(Latest(s)) <= MaxHistory
<1>1. Len(s) \in Nat /\ MaxHistory \in Nat
  BY LenProperties DEF CommandAssumption
<1>2. CASE Len(s) <= MaxHistory
  BY <1>2 DEF Latest
<1>3. CASE ~(Len(s) <= MaxHistory)
  <2> DEFINE m == Len(s) - MaxHistory + 1
  <2>1. m \in Int /\ Len(s) \in Int /\ m <= Len(s) /\ Len(s) - m + 1 = MaxHistory
        /\ \A i \in m..Len(s) : i \in 1..Len(s)
    BY <1>1, <1>3
  <2>2. \A i \in m..Len(s) : s[i] \in S
    BY <2>1, ElementOfSeq
  <2> HIDE DEF m
  <2>3. SubSeq(s, m, Len(s)) \in Seq(S) /\ Len(SubSeq(s, m, Len(s))) = MaxHistory
    BY <2>1, <2>2, SubSeqProperties
  <2> QED
    BY <1>1, <1>3, <2>3 DEF Latest, m
<1> QED
  BY <1>2, <1>3

(* The last of a stack, and the rest.                                       *)
LEMMA LastFront ==
  ASSUME NEW S, NEW s \in Seq(S), s # <<>>
  PROVE  /\ Last(s) \in S /\ Front(s) \in Seq(S)
         /\ Len(Front(s)) = Len(s) - 1 /\ Len(s) \in Nat /\ Len(s) # 0
         /\ s = Append(Front(s), Last(s))
<1>1. PICK t \in Seq(S), e \in S : s = Append(t, e)
  BY SequenceEmptyOrAppend
<1>2. /\ Len(s) = Len(t) + 1 /\ Len(t) \in Nat /\ s[Len(t) + 1] = e
      /\ \A i \in 1..Len(t) : s[i] = t[i]
  BY <1>1, AppendProperties, LenProperties
<1>3. Last(s) = e
  BY <1>2 DEF Last
<1>4. Front(s) = t
  <2>1. /\ 1 \in Int /\ Len(s) - 1 = Len(t) /\ Len(t) \in Int /\ Len(t) - 1 + 1 = Len(t)
        /\ \A i \in 1..Len(t) : 1 + i - 1 = i
    BY <1>2
  <2>2. \A i \in 1..Len(t) : s[i] \in S
    BY <1>2, ElementOfSeq
  <2>3. /\ SubSeq(s, 1, Len(t)) \in Seq(S)
        /\ Len(SubSeq(s, 1, Len(t))) = IF 1 <= Len(t) THEN Len(t) - 1 + 1 ELSE 0
        /\ \A i \in 1..Len(t) - 1 + 1 : SubSeq(s, 1, Len(t))[i] = s[1 + i - 1]
    BY <2>1, <2>2, SubSeqProperties
  <2>4. Len(SubSeq(s, 1, Len(t))) = Len(t)
    BY <1>2, <2>3
  <2>5. \A i \in 1..Len(t) : SubSeq(s, 1, Len(t))[i] = t[i]
    BY <1>2, <2>1, <2>3
  <2>6. SubSeq(s, 1, Len(t)) = t
    BY <2>3, <2>4, <2>5, SeqEqual
  <2> QED
    BY <2>1, <2>6 DEF Front
<1> QED
  BY <1>1, <1>2, <1>3, <1>4

(* The stacks and the group are fine.                                       *)
StacksFine ==
  /\ undo \in Seq(FineAction) /\ redo \in Seq(FineAction)
  /\ Len(undo) <= MaxHistory /\ Len(redo) <= MaxHistory
  /\ group = {} \/ \E g \in Seq(FineAction) : group = {g}

(* What the threads execute.                                                *)
CommandFine ==
  command \in [Thread -> [kind : Kind, left : 0..MaxEdits(setting)] \cup {Nothing}]

(* What is fine depends on the setting and the marked cells alone.          *)
LEMMA FineStays ==
  ASSUME UNCHANGED <<setting, marked>>
  PROVE  RuleCell' = RuleCell /\ FineEdit' = FineEdit /\ FineAction' = FineAction
<1>1. RuleCell' = RuleCell
  BY DEF RuleCell, May
<1>2. FineEdit' = FineEdit
  BY <1>1 DEF FineEdit, Edit
<1> QED
  BY <1>1, <1>2 DEF FineAction

(* Cells that have become others are fine if these are.                     *)
LEMMA BecomeFine ==
  ASSUME UNCHANGED <<setting, marked>>, NEW cells, CellsFine(cells), Become(cells)
  PROVE  CellsFine(Cells)'
BY FineStays DEF CellsFine, Cells, Become

(* The element of a set of one.                                             *)
LEMMA TheOne == ASSUME NEW x PROVE The({x}) = x
BY DEF The

(* The stacks and the group stay fine if the new ones are.                  *)
LEMMA StacksBecomeFine ==
  ASSUME UNCHANGED <<setting, marked>>,
         undo' \in Seq(FineAction), redo' \in Seq(FineAction),
         Len(undo') <= MaxHistory, Len(redo') <= MaxHistory,
         group' = {} \/ \E g \in Seq(FineAction) : group' = {g}
  PROVE  StacksFine'
BY FineStays DEF StacksFine

(* A push.                                                                  *)
LEMMA PushFine ==
  ASSUME CommandAssumption, TypeInv, UNCHANGED <<setting, marked>>, NEW a \in FineAction,
         PushAndDo(a)
  PROVE  CellsFine(Cells)' /\ StacksFine'
<1>1. CellsFine(Cells)'
  <2>1. CellsFine(Do(Cells, a))
    BY DoFine DEF TypeInv
  <2> QED
    BY <2>1, BecomeFine DEF PushAndDo
<1>2. CASE group # {}
  <2>1. PICK g \in Seq(FineAction) : group = {g}
    BY <1>2 DEF TypeInv
  <2>2. group' = {Append(g, a)} /\ UNCHANGED <<undo, redo>>
    BY <1>2, <2>1, TheOne DEF PushAndDo
  <2>3. Append(g, a) \in Seq(FineAction)
    BY AppendProperties
  <2> QED
    BY <1>1, <2>2, <2>3, StacksBecomeFine DEF TypeInv
<1>3. CASE group = {}
  <2>1. undo' = Latest(Append(undo, a)) /\ redo' = <<>> /\ group' = {}
    BY <1>3 DEF PushAndDo
  <2>2. Append(undo, a) \in Seq(FineAction)
    BY AppendProperties DEF TypeInv
  <2>3. undo' \in Seq(FineAction) /\ Len(undo') <= MaxHistory
    BY <2>1, <2>2, LatestFine
  <2>4. redo' \in Seq(FineAction) /\ Len(redo') <= MaxHistory
    BY <2>1, EmptySeq DEF CommandAssumption
  <2> QED
    BY <1>1, <2>1, <2>3, <2>4, StacksBecomeFine
<1> QED
  BY <1>2, <1>3

(* A step of a command.                                                     *)
LEMMA StepTakenFine ==
  ASSUME CommandAssumption, TypeInv, NEW t \in Thread, NEW kind \in Kind,
         Running(t, kind), StepTaken(t), setting' = setting
  PROVE  CommandFine'
<1>1. MaxEdits(setting) \in Nat
  BY DEF CommandAssumption, TypeInv
<1>2. command[t] \in [kind : Kind, left : 0..MaxEdits(setting)] \cup {Nothing}
  BY DEF TypeInv
<1>3. command[t] \in [kind : Kind, left : 0..MaxEdits(setting)] /\ command[t].left > 0
  BY <1>2 DEF Running, Nothing, Kind
<1>4. PICK k \in [kind : Kind, left : 0..MaxEdits(setting)] : k = command[t]
  BY <1>3
<1>5. k.left - 1 \in 0..MaxEdits(setting)
  BY <1>1, <1>3, <1>4
<1>6. [k EXCEPT !.left = k.left - 1] \in [kind : Kind, left : 0..MaxEdits(setting)]
  BY <1>4, <1>5
<1>7. command' = [command EXCEPT ![t] = [k EXCEPT !.left = k.left - 1]]
  BY <1>4 DEF StepTaken
<1>8. command' \in [Thread -> [kind : Kind, left : 0..MaxEdits(setting)] \cup {Nothing}]
  BY <1>6, <1>7 DEF TypeInv
<1> QED
  BY <1>8 DEF CommandFine

(* The end of a command.                                                    *)
LEMMA EndFine ==
  ASSUME TypeInv, NEW t \in Thread, command' = [command EXCEPT ![t] = Nothing],
         setting' = setting
  PROVE  CommandFine'
BY DEF CommandFine, TypeInv

(* The new edits are fine.                                                  *)
LEMMA EditOfFine ==
  ASSUME TypeInv, NEW c \in Cell, NEW v \in Typed
  PROVE  EditOf(c, v) \in FineEdit
<1>1. value[c] \in Content /\ (value[c] = Computed => c \in RuleCell)
  BY DEF TypeInv, CellsFine, Cells
<1> QED
  BY <1>1 DEF EditOf, FineEdit, Edit

(* The parts of the invariant together.                                     *)
LEMMA TypeParts ==
  /\ TypeInv <=> /\ setting \in Settings /\ marked \subseteq Cell
                 /\ CellsFine(Cells) /\ StacksFine /\ CommandFine
  /\ TypeInv' <=> /\ setting' \in Settings /\ marked' \subseteq Cell
                  /\ CellsFine(Cells)' /\ StacksFine' /\ CommandFine'
BY DEF TypeInv, StacksFine, CommandFine

(* Stacks that do not change stay fine.                                     *)
LEMMA SameStacks ==
  ASSUME TypeInv, UNCHANGED <<setting, marked, undo, redo, group>>
  PROVE  StacksFine'
BY FineStays DEF TypeInv, StacksFine

(* Cells that do not change stay fine.                                      *)
LEMMA SameCells ==
  ASSUME TypeInv, UNCHANGED <<setting, marked, cellVars>>
  PROVE  CellsFine(Cells)'
<1>1. Become(Cells)
  BY DEF Become, Cells, cellVars
<1> QED
  BY <1>1, BecomeFine DEF TypeInv

(* One lemma for each action.                                               *)
LEMMA EvaluateTypes ==
  ASSUME CommandAssumption, TypeInv, NEW c \in Cell, Evaluate(c)
  PROVE  TypeInv'
<1>1. /\ c \in RuleCell \ override /\ value' = [value EXCEPT ![c] = Computed]
      /\ UNCHANGED <<setting, marked, override, undo, redo, group, command>>
  BY DEF Evaluate
<1> DEFINE cells == [value |-> [value EXCEPT ![c] = Computed], override |-> override]
<1>2. CellsFine(cells)
  BY <1>1 DEF TypeInv, CellsFine, Cells, Content, CommandAssumption
<1>3. Become(cells)
  BY <1>1 DEF Become
<1> HIDE DEF cells
<1>4. CellsFine(Cells)'
  BY <1>1, <1>2, <1>3, BecomeFine
<1>5. CommandFine'
  BY <1>1 DEF TypeInv, CommandFine
<1> QED
  BY <1>1, <1>4, <1>5, SameStacks, TypeParts

(* The start of a command keeps the types.                                  *)
LEMMA BeginTypes ==
  ASSUME CommandAssumption, TypeInv, NEW t \in Thread, NEW kind \in Kind, Begin(t, kind)
  PROVE  TypeInv'
<1>1. /\ group' = {<<>>} /\ UNCHANGED <<setting, marked, cellVars, undo, redo>>
      /\ command' = [command EXCEPT ![t] =
           [kind |-> kind, left |-> IF kind = "edit" THEN MaxEdits(setting) ELSE 1]]
  BY DEF Begin
<1>2. MaxEdits(setting) \in Nat \ {0}
  BY DEF CommandAssumption, TypeInv
<1>3. [kind |-> kind, left |-> IF kind = "edit" THEN MaxEdits(setting) ELSE 1]
        \in [kind : Kind, left : 0..MaxEdits(setting)]
  BY <1>2
<1>4. CommandFine'
  BY <1>1, <1>3 DEF CommandFine, TypeInv
<1>5. StacksFine'
  <2>1. <<>> \in Seq(FineAction)
    BY EmptySeq
  <2> QED
    BY <1>1, <2>1, StacksBecomeFine DEF TypeInv
<1> QED
  BY <1>1, <1>4, <1>5, SameCells, TypeParts

(* The edit of a cell keeps the types.                                      *)
LEMMA SetCellTypes ==
  ASSUME CommandAssumption, TypeInv, NEW t \in Thread, NEW c \in Cell, NEW v \in Typed,
         SetCell(t, c, v)
  PROVE  TypeInv'
<1>1. /\ Running(t, "edit") /\ PushAndDo(<<EditOf(c, v)>>) /\ StepTaken(t)
      /\ UNCHANGED <<setting, marked>>
  BY DEF SetCell
<1>2. <<EditOf(c, v)>> \in FineAction
  BY EditOfFine DEF FineAction
<1>3. CellsFine(Cells)' /\ StacksFine'
  BY <1>1, <1>2, PushFine
<1>4. CommandFine'
  BY <1>1, StepTakenFine DEF Kind
<1> QED
  BY <1>1, <1>3, <1>4, TypeParts

(* The edit of several cells keeps the types.                               *)
LEMMA SetCellsTypes ==
  ASSUME CommandAssumption, TypeInv, NEW t \in Thread, NEW e1 \in Entry, NEW e2 \in Entry,
         SetCells(t, <<e1, e2>>)
  PROVE  TypeInv'
<1> DEFINE Changes(e) == value[e[1]] # e[2] \/ e[1] \notin override
           entries == <<e1, e2>>
           Part(i) == IF Changes(entries[i]) THEN <<EditOf(entries[i][1], entries[i][2])>>
                      ELSE <<>>
           edits == Concat([i \in DOMAIN entries |-> Part(i)])
<1>1. /\ Running(t, "edit") /\ PushAndDo(edits) /\ StepTaken(t)
      /\ UNCHANGED <<setting, marked>>
  BY DEF SetCells
<1>2. edits \in FineAction
  <2>1. ASSUME NEW i \in {1, 2} PROVE Part(i) \in FineAction
    <3>1. entries[i] \in Entry /\ entries[i][1] \in Cell /\ entries[i][2] \in Typed
      BY DEF Entry, Typed
    <3>2. EditOf(entries[i][1], entries[i][2]) \in FineEdit
      BY <3>1, EditOfFine
    <3> QED
      BY <3>2, EmptySeq DEF FineAction
  <2>2. DOMAIN entries = 1..2 /\ 1..2 = {1, 2}
    OBVIOUS
  <2> HIDE DEF Part, entries
  <2>3. [i \in DOMAIN entries |-> Part(i)] \in Seq(FineAction)
    BY <2>1, <2>2
  <2> QED
    BY <2>3, ConcatType DEF FineAction
<1> HIDE DEF edits
<1>3. CellsFine(Cells)' /\ StacksFine'
  BY <1>1, <1>2, PushFine
<1>4. CommandFine'
  BY <1>1, StepTakenFine DEF Kind
<1> QED
  BY <1>1, <1>3, <1>4, TypeParts

(* Undo and redo move an action from one stack to the other.                *)
LEMMA MoveFine ==
  ASSUME CommandAssumption, NEW S, NEW s \in Seq(S), NEW r \in Seq(S), s # <<>>,
         Len(s) <= MaxHistory
  PROVE  /\ Last(s) \in S
         /\ Front(s) \in Seq(S) /\ Len(Front(s)) <= MaxHistory
         /\ Latest(Append(r, Last(s))) \in Seq(S)
         /\ Len(Latest(Append(r, Last(s)))) <= MaxHistory
<1>1. Last(s) \in S /\ Front(s) \in Seq(S) /\ Len(Front(s)) = Len(s) - 1 /\ Len(s) \in Nat
  BY LastFront
<1>2. Append(r, Last(s)) \in Seq(S)
  BY <1>1, AppendProperties
<1>3. Len(Front(s)) <= MaxHistory
  BY <1>1 DEF CommandAssumption
<1> QED
  BY <1>1, <1>2, <1>3, LatestFine

(* Undo keeps the types.                                                    *)
LEMMA RunUndoTypes ==
  ASSUME CommandAssumption, TypeInv, NEW t \in Thread, RunUndo(t)
  PROVE  TypeInv'
<1>1. Running(t, "undo") /\ StepTaken(t) /\ UNCHANGED <<setting, marked, group>>
  BY DEF RunUndo
<1>2. CommandFine'
  BY <1>1, StepTakenFine DEF Kind
<1>3. CASE undo = <<>>
  <2>1. UNCHANGED <<cellVars, undo, redo>>
    BY <1>3 DEF RunUndo, cellVars
  <2> QED
    BY <1>1, <1>2, <2>1, SameCells, SameStacks, TypeParts
<1>4. CASE undo # <<>>
  <2>1. /\ Become(Undo(Cells, Last(undo))) /\ undo' = Front(undo)
        /\ redo' = Latest(Append(redo, Last(undo)))
    BY <1>4 DEF RunUndo
  <2>2. /\ Last(undo) \in FineAction
        /\ undo' \in Seq(FineAction) /\ Len(undo') <= MaxHistory
        /\ redo' \in Seq(FineAction) /\ Len(redo') <= MaxHistory
    BY <1>4, <2>1, MoveFine DEF TypeInv
  <2>3. StacksFine'
    BY <1>1, <2>2, StacksBecomeFine DEF TypeInv
  <2>4. CellsFine(Cells)'
    BY <1>1, <2>1, <2>2, UndoFine, BecomeFine DEF TypeInv
  <2> QED
    BY <1>1, <1>2, <2>3, <2>4, TypeParts
<1> QED
  BY <1>3, <1>4

(* Redo keeps the types.                                                    *)
LEMMA RunRedoTypes ==
  ASSUME CommandAssumption, TypeInv, NEW t \in Thread, RunRedo(t)
  PROVE  TypeInv'
<1>1. Running(t, "redo") /\ StepTaken(t) /\ UNCHANGED <<setting, marked, group>>
  BY DEF RunRedo
<1>2. CommandFine'
  BY <1>1, StepTakenFine DEF Kind
<1>3. CASE redo = <<>>
  <2>1. UNCHANGED <<cellVars, undo, redo>>
    BY <1>3 DEF RunRedo, cellVars
  <2> QED
    BY <1>1, <1>2, <2>1, SameCells, SameStacks, TypeParts
<1>4. CASE redo # <<>>
  <2>1. /\ Become(Do(Cells, Last(redo))) /\ redo' = Front(redo)
        /\ undo' = Latest(Append(undo, Last(redo)))
    BY <1>4 DEF RunRedo
  <2>2. /\ Last(redo) \in FineAction
        /\ undo' \in Seq(FineAction) /\ Len(undo') <= MaxHistory
        /\ redo' \in Seq(FineAction) /\ Len(redo') <= MaxHistory
    BY <1>4, <2>1, MoveFine DEF TypeInv
  <2>3. StacksFine'
    BY <1>1, <2>2, StacksBecomeFine DEF TypeInv
  <2>4. CellsFine(Cells)'
    BY <1>1, <2>1, <2>2, DoFine, BecomeFine DEF TypeInv
  <2> QED
    BY <1>1, <1>2, <2>3, <2>4, TypeParts
<1> QED
  BY <1>3, <1>4

(* The actions on cubes that are gone are fine.                             *)
LEMMA AllGoneFine ==
  ASSUME NEW s \in Seq(FineAction)
  PROVE  AllGone(s) \in Seq(FineAction) /\ Len(AllGone(s)) = Len(s)
<1>1. Len(s) \in Nat /\ DOMAIN s = 1..Len(s)
  BY LenProperties
<1>2. Gone \in FineAction
  BY EmptySeq DEF Gone, FineAction
<1> QED
  BY <1>1, <1>2 DEF AllGone

(* Another workspace keeps the types.                                       *)
LEMMA ReplaceTypes ==
  ASSUME CommandAssumption, TypeInv, NEW t \in Thread, Replace(t)
  PROVE  TypeInv'
<1>1. /\ Running(t, "restore") \/ Running(t, "load")
      /\ StepTaken(t) /\ UNCHANGED <<setting, marked>>
      /\ undo' = AllGone(undo) /\ redo' = AllGone(redo)
      /\ group' = {AllGone(g) : g \in group}
  BY DEF Replace
<1>2. CommandFine'
  BY <1>1, StepTakenFine DEF Kind
<1>3. CellsFine(Cells)'
  <2>1. /\ override' \in SUBSET (Cell \ RuleCell)
        /\ value' \in [Cell -> Typed] /\ \A c \in Cell : c \in override' <=> value'[c] # Empty
    BY DEF Replace
  <2> DEFINE cells == [value |-> value', override |-> override']
  <2>2. CellsFine(cells)
    BY <2>1 DEF CellsFine, Content, Typed, CommandAssumption
  <2>3. Become(cells)
    BY DEF Become
  <2> HIDE DEF cells
  <2> QED
    BY <1>1, <2>2, <2>3, BecomeFine
<1>4. /\ undo' \in Seq(FineAction) /\ Len(undo') <= MaxHistory
      /\ redo' \in Seq(FineAction) /\ Len(redo') <= MaxHistory
  BY <1>1, AllGoneFine DEF TypeInv
<1>5. group' = {} \/ \E g \in Seq(FineAction) : group' = {g}
  <2>1. CASE group = {}
    BY <1>1, <2>1
  <2>2. ASSUME NEW g \in Seq(FineAction), group = {g} PROVE group' = {AllGone(g)}
    BY <1>1, <2>2
  <2> QED
    BY <2>1, <2>2, AllGoneFine DEF TypeInv
<1> QED
  BY <1>1, <1>2, <1>3, <1>4, <1>5, StacksBecomeFine, TypeParts DEF TypeInv

(* The end of a command keeps the types.                                    *)
LEMMA SucceedTypes ==
  ASSUME CommandAssumption, TypeInv, NEW t \in Thread, Succeed(t)
  PROVE  TypeInv'
<1> DEFINE pushed == {Concat(g) : g \in group \ {<<>>}}
<1>1. /\ undo' = IF command[t].kind = "restore" THEN <<>>
                 ELSE IF pushed # {} THEN Latest(Append(undo, The(pushed))) ELSE undo
      /\ redo' = IF command[t].kind = "restore" \/ pushed # {} THEN <<>> ELSE redo
      /\ group' = {}
      /\ command' = [command EXCEPT ![t] = Nothing]
      /\ UNCHANGED <<setting, marked, cellVars>>
  BY DEF Succeed
<1>2. pushed # {} => The(pushed) \in FineAction
  <2> SUFFICES ASSUME pushed # {} PROVE The(pushed) \in FineAction
    OBVIOUS
  <2>1. PICK g \in Seq(FineAction) : group = {g}
    BY DEF TypeInv
  <2>2. pushed = {Concat(g)}
    BY <2>1
  <2>3. The(pushed) = Concat(g)
    BY <2>2, TheOne
  <2> QED
    BY <2>3, ConcatType DEF FineAction
<1> HIDE DEF pushed
<1>3. <<>> \in Seq(FineAction) /\ Len(<<>>) <= MaxHistory
  BY EmptySeq DEF CommandAssumption
<1>4. undo' \in Seq(FineAction) /\ Len(undo') <= MaxHistory
  <2>1. pushed # {} => Append(undo, The(pushed)) \in Seq(FineAction)
    BY <1>2, AppendProperties DEF TypeInv
  <2>2. pushed # {} => /\ Latest(Append(undo, The(pushed))) \in Seq(FineAction)
                       /\ Len(Latest(Append(undo, The(pushed)))) <= MaxHistory
    BY <2>1, LatestFine
  <2> QED
    BY <1>1, <1>3, <2>2 DEF TypeInv
<1>5. redo' \in Seq(FineAction) /\ Len(redo') <= MaxHistory
  BY <1>1, <1>3 DEF TypeInv
<1>6. StacksFine'
  BY <1>1, <1>4, <1>5, StacksBecomeFine
<1> QED
  BY <1>1, <1>6, SameCells, EndFine, TypeParts

(* The failure of a command keeps the types.                                *)
LEMMA FailTypes ==
  ASSUME TypeInv, NEW t \in Thread, Fail(t)
  PROVE  TypeInv'
<1>1. /\ group' = {} /\ command' = [command EXCEPT ![t] = Nothing]
      /\ UNCHANGED <<setting, marked, cellVars, undo, redo>>
  BY DEF Fail
<1>2. StacksFine'
  BY <1>1, StacksBecomeFine DEF TypeInv
<1> QED
  BY <1>1, <1>2, SameCells, EndFine, TypeParts

(* The types at first.                                                      *)
LEMMA InitTypes ==
  ASSUME CommandAssumption, Init
  PROVE  TypeInv
<1>1. CellsFine(Cells)
  BY DEF Init, CellsFine, Cells, Content, Typed, CommandAssumption
<1>2. StacksFine
  BY EmptySeq DEF Init, StacksFine, CommandAssumption
<1> QED
  BY <1>1, <1>2, TypeParts DEF Init, CommandFine

(* Every step keeps the types.                                              *)
LEMMA NextTypes ==
  ASSUME CommandAssumption, TypeInv, [Next]_vars
  PROVE  TypeInv'
<1>1. CASE UNCHANGED vars
  <2>1. UNCHANGED <<setting, marked, cellVars, undo, redo, group, command>>
    BY <1>1 DEF vars
  <2>2. CommandFine'
    BY <2>1 DEF TypeInv, CommandFine
  <2> QED
    BY <2>1, <2>2, SameCells, SameStacks, TypeParts
<1> QED
  BY <1>1, EvaluateTypes, BeginTypes, SetCellTypes, SetCellsTypes, RunUndoTypes, RunRedoTypes,
     ReplaceTypes, SucceedTypes, FailTypes DEF Next

(* The types of all variables: what the stacks and the open group hold,     *)
(* that the histories keep to their limit, that a cell with a mark has a    *)
(* value, and that one without a mark has none that was typed.              *)
THEOREM TypeTheorem == Spec => []TypeOK
<1>1. Init => TypeInv BY InitTypes, CommandAssumption
<1>2. TypeInv /\ [Next]_vars => TypeInv' BY NextTypes, CommandAssumption
<1>3. TypeInv => TypeOK
  <2> SUFFICES ASSUME TypeInv PROVE TypeOK
    OBVIOUS
  <2>1. FineAction \subseteq Action
    <3>1. FineEdit \subseteq Edit
      BY DEF FineEdit
    <3> QED
      BY <3>1, SeqMonotonic DEF FineAction, Action
  <2>2. Seq(FineAction) \subseteq Seq(Action)
    BY <2>1, SeqMonotonic
  <2>3. group \subseteq Seq(Action)
    BY <2>2 DEF TypeInv
  <2>4. Cardinality(group) <= 1
    <3>1. CASE group = {}
      BY <3>1, FS_EmptySet
    <3>2. ASSUME NEW g \in Seq(FineAction), group = {g} PROVE Cardinality(group) = 1
      BY <3>2, FS_Singleton
    <3> QED
      BY <3>1, <3>2 DEF TypeInv
  <2> QED
    BY <2>2, <2>3, <2>4 DEF TypeInv, TypeOK, CellsFine, Cells
<1> QED BY <1>1, <1>2, <1>3, PTL DEF Spec

-----------------------------------------------------------------------------
(* What is seen along a stack.                                              *)

(* A step along a stack, and the step back.                                 *)
Move(way, cells, a) == IF way = "undo" THEN Undo(cells, a) ELSE Do(cells, a)

(* The way back.                                                            *)
Other(way) == IF way = "undo" THEN "redo" ELSE "undo"

(* The cells after the first steps along a stack.                           *)
At(way, cells, l) ==
  CHOOSE f : f = [k \in 0..Len(l) |-> IF k = 0 THEN cells
                                     ELSE Move(way, f[k - 1], l[Len(l) - k + 1])]

(* What Walk shows of them.                                                 *)
Seen(way, cells, l) == [i \in 1..Len(l) |-> Shown(At(way, cells, l)[Len(l) - i + 1])]

(* Each step along a stack can be taken back.                               *)
Honest(way, cells, l) ==
  \A k \in 1..Len(l) :
    Shown(Move(Other(way), At(way, cells, l)[k], l[Len(l) - k + 1]))
      = Shown(At(way, cells, l)[k - 1])

(* The cells after no step, and after one more.                             *)
LEMMA AtEquation ==
  ASSUME NEW way, NEW cells, NEW l, Len(l) \in Nat
  PROVE  \A k \in 0..Len(l) : At(way, cells, l)[k] =
           IF k = 0 THEN cells ELSE Move(way, At(way, cells, l)[k - 1], l[Len(l) - k + 1])
<1> DEFINE what == IF way = "undo" THEN "undo" ELSE "redo"
<1>1. PICK f : f = [n \in 0..Len(l) |-> StepOf(what, cells, l, f, n)]
  BY IterationExists
<1>2. ASSUME NEW n \in 0..Len(l)
      PROVE  StepOf(what, cells, l, f, n) =
               IF n = 0 THEN cells ELSE Move(way, f[n - 1], l[Len(l) - n + 1])
  BY DEF StepOf, Move
<1> HIDE DEF what
<1>3. f = [k \in 0..Len(l) |-> IF k = 0 THEN cells ELSE Move(way, f[k - 1], l[Len(l) - k + 1])]
  BY <1>1, <1>2
<1>4. \E g : g = [k \in 0..Len(l) |-> IF k = 0 THEN cells
                                     ELSE Move(way, g[k - 1], l[Len(l) - k + 1])]
  BY <1>3
<1>5. At(way, cells, l) =
        [k \in 0..Len(l) |-> IF k = 0 THEN cells
                             ELSE Move(way, At(way, cells, l)[k - 1], l[Len(l) - k + 1])]
  BY <1>4 DEF At
<1> DEFINE j == At(way, cells, l)
<1> HIDE DEF j
<1>6. j = [k \in 0..Len(l) |-> IF k = 0 THEN cells ELSE Move(way, j[k - 1], l[Len(l) - k + 1])]
  BY <1>5 DEF j
<1>7. \A k \in 0..Len(l) : j[k] = IF k = 0 THEN cells ELSE Move(way, j[k - 1], l[Len(l) - k + 1])
  BY <1>6
<1> QED
  BY <1>7 DEF j

(* Walk goes through these cells.                                           *)
LEMMA WalkIsSeen ==
  ASSUME NEW cells, NEW l, Len(l) \in Nat
  PROVE  /\ Walk(cells, l, Undo) = Seen("undo", cells, l)
         /\ Walk(cells, l, Do) = Seen("redo", cells, l)
<1> DEFINE U(f) == f = [k \in 0..Len(l) |-> IF k = 0 THEN cells
                                           ELSE Undo(f[k - 1], l[Len(l) - k + 1])]
           D(f) == f = [k \in 0..Len(l) |-> IF k = 0 THEN cells
                                           ELSE Do(f[k - 1], l[Len(l) - k + 1])]
<1>1. At("undo", cells, l) = CHOOSE f : U(f)
  BY DEF At, Move
<1>2. At("redo", cells, l) = CHOOSE f : D(f)
  BY DEF At, Move
<1>3. Walk(cells, l, Undo) = [i \in 1..Len(l) |-> Shown((CHOOSE f : U(f))[Len(l) - i + 1])]
  BY DEF Walk
<1>4. Walk(cells, l, Do) = [i \in 1..Len(l) |-> Shown((CHOOSE f : D(f))[Len(l) - i + 1])]
  BY DEF Walk
<1> QED
  BY <1>1, <1>2, <1>3, <1>4 DEF Seen

(* One more action on the stack is one more step before the others.         *)
LEMMA AtOneMore ==
  ASSUME NEW way, NEW cells, NEW S, NEW l \in Seq(S), NEW a \in S
  PROVE  /\ At(way, cells, Append(l, a))[0] = cells
         /\ \A k \in 0..Len(l) :
              At(way, cells, Append(l, a))[k + 1] = At(way, Move(way, cells, a), l)[k]
<1> DEFINE m == Append(l, a)
           f == At(way, cells, m)
           g == At(way, Move(way, cells, a), l)
           N == {k \in Nat : k <= Len(l) => f[k + 1] = g[k]}
<1>1. /\ Len(l) \in Nat /\ Len(m) = Len(l) + 1
      /\ \A i \in 1..Len(l) : m[i] = l[i]
      /\ m[Len(l) + 1] = a
  BY LenProperties, AppendProperties
<1> HIDE DEF m
<1>2. \A k \in 0..Len(l) + 1 : f[k] = IF k = 0 THEN cells
                                      ELSE Move(way, f[k - 1], m[(Len(l) + 1) - k + 1])
  <2>1. Len(m) \in Nat
    BY <1>1
  <2>2. \A k \in 0..Len(m) : f[k] = IF k = 0 THEN cells
                                    ELSE Move(way, f[k - 1], m[Len(m) - k + 1])
    BY <2>1, AtEquation
  <2> HIDE DEF f
  <2> QED
    BY <1>1, <2>2
<1>3. \A k \in 0..Len(l) : g[k] = IF k = 0 THEN Move(way, cells, a)
                                  ELSE Move(way, g[k - 1], l[Len(l) - k + 1])
  BY <1>1, AtEquation
<1> HIDE DEF f, g
<1>4. f[0] = cells
  BY <1>1, <1>2
<1>5. 0 \in N
  <2>1. 1 \in 0..Len(l) + 1 /\ 1 - 1 = 0 /\ (Len(l) + 1) - 1 + 1 = Len(l) + 1 /\ 0 \in 0..Len(l)
    BY <1>1
  <2>2. f[1] = Move(way, f[1 - 1], m[(Len(l) + 1) - 1 + 1])
    BY <1>2, <2>1
  <2>3. f[1] = Move(way, cells, a)
    BY <1>1, <1>4, <2>1, <2>2
  <2>4. g[0] = Move(way, cells, a)
    BY <1>3, <2>1
  <2> QED
    BY <2>3, <2>4
<1>6. ASSUME NEW k \in Nat, k \in N PROVE k + 1 \in N
  <2> SUFFICES ASSUME k + 1 <= Len(l) PROVE f[(k + 1) + 1] = g[k + 1]
    OBVIOUS
  <2>1. /\ (k + 1) + 1 \in 0..Len(l) + 1 /\ (k + 1) + 1 # 0 /\ ((k + 1) + 1) - 1 = k + 1
        /\ k + 1 \in 0..Len(l) /\ k + 1 # 0 /\ (k + 1) - 1 = k /\ k <= Len(l)
        /\ (Len(l) + 1) - ((k + 1) + 1) + 1 = Len(l) - (k + 1) + 1
        /\ Len(l) - (k + 1) + 1 \in 1..Len(l)
    BY <1>1
  <2>2. f[(k + 1) + 1] = Move(way, f[((k + 1) + 1) - 1], m[(Len(l) + 1) - ((k + 1) + 1) + 1])
    BY <1>2, <2>1
  <2>3. g[k + 1] = Move(way, g[(k + 1) - 1], l[Len(l) - (k + 1) + 1])
    BY <1>3, <2>1
  <2>4. f[k + 1] = g[k]
    BY <1>6, <2>1
  <2>5. m[Len(l) - (k + 1) + 1] = l[Len(l) - (k + 1) + 1]
    BY <1>1, <2>1
  <2> QED
    BY <2>1, <2>2, <2>3, <2>4, <2>5
<1>7. \A k \in 0..Len(l) : f[k + 1] = g[k]
  <2> HIDE DEF N
  <2>1. Nat \subseteq N
    BY <1>5, <1>6, NatSetInduction
  <2> QED
    BY <1>1, <2>1 DEF N
<1> QED
  BY <1>4, <1>7 DEF f, g, m

(* Without the oldest action the steps are the same, but for the last.      *)
LEMMA AtTail ==
  ASSUME NEW way, NEW cells, NEW S, NEW l \in Seq(S), l # <<>>
  PROVE  \A k \in 0..Len(l) - 1 : At(way, cells, Tail(l))[k] = At(way, cells, l)[k]
<1> DEFINE m == Tail(l)
           f == At(way, cells, m)
           g == At(way, cells, l)
           N == {k \in Nat : k <= Len(m) => f[k] = g[k]}
<1>1. /\ Len(l) \in Nat /\ Len(m) = Len(l) - 1 /\ Len(m) \in Nat
      /\ \A i \in 1..Len(m) : m[i] = l[i + 1]
  BY LenProperties, HeadTailProperties
<1> HIDE DEF m
<1>2. \A k \in 0..Len(m) : f[k] = IF k = 0 THEN cells
                                  ELSE Move(way, f[k - 1], m[Len(m) - k + 1])
  BY <1>1, AtEquation
<1>3. \A k \in 0..Len(l) : g[k] = IF k = 0 THEN cells
                                  ELSE Move(way, g[k - 1], l[Len(l) - k + 1])
  BY <1>1, AtEquation
<1> HIDE DEF f, g
<1>4. 0 \in N
  BY <1>1, <1>2, <1>3
<1>5. ASSUME NEW k \in Nat, k \in N PROVE k + 1 \in N
  <2> SUFFICES ASSUME k + 1 <= Len(m) PROVE f[k + 1] = g[k + 1]
    OBVIOUS
  <2>1. /\ k + 1 \in 0..Len(m) /\ k + 1 \in 0..Len(l) /\ k + 1 # 0 /\ (k + 1) - 1 = k
        /\ k <= Len(m) /\ Len(m) - (k + 1) + 1 \in 1..Len(m)
        /\ (Len(m) - (k + 1) + 1) + 1 = Len(l) - (k + 1) + 1
    BY <1>1
  <2>2. f[k + 1] = Move(way, f[(k + 1) - 1], m[Len(m) - (k + 1) + 1])
    BY <1>2, <2>1
  <2>3. g[k + 1] = Move(way, g[(k + 1) - 1], l[Len(l) - (k + 1) + 1])
    BY <1>3, <2>1
  <2>4. f[k] = g[k]
    BY <1>5, <2>1
  <2>5. m[Len(m) - (k + 1) + 1] = l[(Len(m) - (k + 1) + 1) + 1]
    BY <1>1, <2>1
  <2> QED
    BY <2>1, <2>2, <2>3, <2>4, <2>5
<1>6. \A k \in 0..Len(m) : f[k] = g[k]
  <2> HIDE DEF N
  <2>1. Nat \subseteq N
    BY <1>4, <1>5, NatSetInduction
  <2> QED
    BY <1>1, <2>1 DEF N
<1> QED
  BY <1>1, <1>6 DEF f, g, m

(* What a step shows: the edited cells that are not marked get what the     *)
(* edits say, and the others stay.                                          *)
Turned(way, x, a) ==
  [c \in Cell |->
     IF c \in Edited(a) \ marked
     THEN IF way = "undo" THEN a[First(EditsOf(a, c))].before ELSE a[Final(EditsOf(a, c))].after
     ELSE x[c]]

(* What is shown of cells that have been written.                           *)
LEMMA ShownWritten ==
  ASSUME NEW cells, NEW v
  PROVE  Shown(Written(cells, v)) =
           [c \in Cell |-> IF c \in DOMAIN v \ marked THEN v[c] ELSE Shown(cells)[c]]
<1> DEFINE w == Written(cells, v)
<1>1. /\ w.value = [c \in Cell |-> IF c \in DOMAIN v THEN v[c]
                                   ELSE IF c \in cells.override THEN cells.value[c]
                                   ELSE Empty]
      /\ w.override = {c \in Cell : IF c \in DOMAIN v THEN v[c] # Empty
                                    ELSE c \in cells.override}
  BY DEF Written
<1> HIDE DEF w
<1>2. ASSUME NEW c \in Cell
      PROVE  (IF c \in w.override \ marked THEN w.value[c] ELSE Empty)
               = (IF c \in DOMAIN v \ marked THEN v[c]
                  ELSE IF c \in cells.override \ marked THEN cells.value[c] ELSE Empty)
  <2>1. /\ w.value[c] = IF c \in DOMAIN v THEN v[c]
                        ELSE IF c \in cells.override THEN cells.value[c] ELSE Empty
        /\ c \in w.override <=> IF c \in DOMAIN v THEN v[c] # Empty ELSE c \in cells.override
    BY <1>1
  <2>2. CASE c \in DOMAIN v
    BY <2>1, <2>2
  <2>3. CASE c \notin DOMAIN v
    BY <2>1, <2>3
  <2> QED
    BY <2>2, <2>3
<1>3. Shown(w) = [c \in Cell |-> IF c \in DOMAIN v \ marked THEN v[c] ELSE Shown(cells)[c]]
  BY <1>2 DEF Shown
<1> QED
  BY <1>3 DEF w

(* What is shown after an action depends on what was shown before.          *)
LEMMA ShownMoved ==
  ASSUME NEW way, NEW cells, NEW a
  PROVE  Shown(Move(way, cells, a)) = Turned(way, Shown(cells), a)
<1>1. CASE a = Gone
  <2>1. Move(way, cells, a) = cells
    BY <1>1 DEF Move, Undo, Do
  <2>2. Edited(a) = {}
    BY <1>1 DEF Edited, Gone
  <2> QED
    BY <2>1, <2>2 DEF Turned, Shown
<1>2. CASE a # Gone /\ way = "undo"
  <2> DEFINE before == [c \in Edited(a) |-> a[First(EditsOf(a, c))].before]
  <2>1. Move(way, cells, a) = Written(cells, before)
    BY <1>2 DEF Move, Undo
  <2>2. DOMAIN before = Edited(a) /\ \A c \in Edited(a) : before[c] = a[First(EditsOf(a, c))].before
    OBVIOUS
  <2> HIDE DEF before
  <2>3. Shown(Move(way, cells, a)) =
          [c \in Cell |-> IF c \in DOMAIN before \ marked THEN before[c] ELSE Shown(cells)[c]]
    BY <2>1, ShownWritten
  <2> QED
    BY <1>2, <2>2, <2>3 DEF Turned
<1>3. CASE a # Gone /\ way # "undo"
  <2> DEFINE after == [c \in Edited(a) |-> a[Final(EditsOf(a, c))].after]
  <2>1. Move(way, cells, a) = Written(cells, after)
    BY <1>3 DEF Move, Do
  <2>2. DOMAIN after = Edited(a) /\ \A c \in Edited(a) : after[c] = a[Final(EditsOf(a, c))].after
    OBVIOUS
  <2> HIDE DEF after
  <2>3. Shown(Move(way, cells, a)) =
          [c \in Cell |-> IF c \in DOMAIN after \ marked THEN after[c] ELSE Shown(cells)[c]]
    BY <2>1, ShownWritten
  <2> QED
    BY <1>3, <2>2, <2>3 DEF Turned
<1> QED
  BY <1>1, <1>2, <1>3

(* Steps from cells that show the same show the same.                       *)
LEMMA AtShown ==
  ASSUME NEW way, NEW c1, NEW c2, Shown(c1) = Shown(c2), NEW l, Len(l) \in Nat
  PROVE  \A k \in 0..Len(l) : Shown(At(way, c1, l)[k]) = Shown(At(way, c2, l)[k])
<1> DEFINE f == At(way, c1, l)
           g == At(way, c2, l)
           N == {k \in Nat : k <= Len(l) => Shown(f[k]) = Shown(g[k])}
<1>1. \A k \in 0..Len(l) : f[k] = IF k = 0 THEN c1 ELSE Move(way, f[k - 1], l[Len(l) - k + 1])
  BY AtEquation
<1>2. \A k \in 0..Len(l) : g[k] = IF k = 0 THEN c2 ELSE Move(way, g[k - 1], l[Len(l) - k + 1])
  BY AtEquation
<1> HIDE DEF f, g
<1>3. 0 \in N
  <2>1. f[0] = c1 /\ g[0] = c2
    BY <1>1, <1>2
  <2> QED
    BY <2>1
<1>4. ASSUME NEW k \in Nat, k \in N PROVE k + 1 \in N
  <2> SUFFICES ASSUME k + 1 <= Len(l) PROVE Shown(f[k + 1]) = Shown(g[k + 1])
    OBVIOUS
  <2>1. k + 1 \in 0..Len(l) /\ k + 1 # 0 /\ (k + 1) - 1 = k /\ k <= Len(l)
    OBVIOUS
  <2>2. f[k + 1] = Move(way, f[k], l[Len(l) - (k + 1) + 1])
    BY <1>1, <2>1
  <2>3. g[k + 1] = Move(way, g[k], l[Len(l) - (k + 1) + 1])
    BY <1>2, <2>1
  <2>4. Shown(f[k]) = Shown(g[k])
    BY <1>4, <2>1
  <2>5. /\ Shown(f[k + 1]) = Turned(way, Shown(f[k]), l[Len(l) - (k + 1) + 1])
        /\ Shown(g[k + 1]) = Turned(way, Shown(g[k]), l[Len(l) - (k + 1) + 1])
    BY <2>2, <2>3, ShownMoved
  <2> QED
    BY <2>4, <2>5
<1>5. \A k \in 0..Len(l) : Shown(f[k]) = Shown(g[k])
  <2> HIDE DEF N
  <2>1. Nat \subseteq N
    BY <1>3, <1>4, NatSetInduction
  <2>2. \A k \in 0..Len(l) : k \in Nat /\ k <= Len(l)
    OBVIOUS
  <2> QED
    BY <2>1, <2>2 DEF N
<1> QED
  BY <1>5 DEF f, g

(* What is seen along a stack, with one more action.                        *)
LEMMA SeenOneMore ==
  ASSUME NEW way, NEW cells, NEW S, NEW l \in Seq(S), NEW a \in S
  PROVE  /\ Seen(way, cells, Append(l, a))
              = Append(Seen(way, Move(way, cells, a), l), Shown(Move(way, cells, a)))
         /\ Honest(way, cells, Append(l, a)) <=>
              /\ Shown(Move(Other(way), Move(way, cells, a), a)) = Shown(cells)
              /\ Honest(way, Move(way, cells, a), l)
<1> DEFINE m == Append(l, a)
           next == Move(way, cells, a)
           f == At(way, cells, m)
           g == At(way, next, l)
           n == Len(l)
<1>1. /\ n \in Nat /\ Len(m) = n + 1 /\ \A i \in 1..n : m[i] = l[i]
      /\ m[n + 1] = a
  BY LenProperties, AppendProperties
<1>2. f[0] = cells /\ \A k \in 0..n : f[k + 1] = g[k]
  BY AtOneMore
<1>3. g[0] = next
  <2>1. \A k \in 0..n : g[k] = IF k = 0 THEN next ELSE Move(way, g[k - 1], l[n - k + 1])
    BY <1>1, AtEquation
  <2> QED
    BY <1>1, <2>1
<1>4. /\ Seen(way, cells, m) = [i \in 1..Len(m) |-> Shown(f[Len(m) - i + 1])]
      /\ Seen(way, next, l) = [i \in 1..n |-> Shown(g[n - i + 1])]
  BY DEF Seen
<1>5. /\ Honest(way, cells, m) <=>
           \A k \in 1..Len(m) : Shown(Move(Other(way), f[k], m[Len(m) - k + 1])) = Shown(f[k - 1])
      /\ Honest(way, next, l) <=>
           \A k \in 1..n : Shown(Move(Other(way), g[k], l[n - k + 1])) = Shown(g[k - 1])
  BY DEF Honest
<1> HIDE DEF m, next, f, g, n
<1>6. Seen(way, cells, m) = Append(Seen(way, next, l), Shown(next))
  <2> DEFINE s == [i \in 1..n |-> Shown(g[n - i + 1])]
             T == {Shown(g[k]) : k \in 0..n}
             u == [i \in 1..n + 1 |-> Shown(f[(n + 1) - i + 1])]
  <2>1. s \in Seq(T) /\ Len(s) = n /\ \A i \in 1..n : s[i] = Shown(g[n - i + 1])
    <3>1. \A i \in 1..n : n - i + 1 \in 0..n
      BY <1>1
    <3>2. s \in [1..n -> T] /\ \A i \in 1..n : s[i] = Shown(g[n - i + 1])
      BY <3>1
    <3> HIDE DEF T, s
    <3>3. s \in Seq(T) /\ Len(s) = n
      BY <1>1, <3>2
    <3> QED
      BY <3>2, <3>3
  <2>2. Shown(next) \in T
    BY <1>1, <1>3
  <2>3. \A i \in 1..n + 1 : u[i] = IF i = n + 1 THEN Shown(next) ELSE s[i]
    <3> SUFFICES ASSUME NEW i \in 1..n + 1
                 PROVE  Shown(f[(n + 1) - i + 1]) = IF i = n + 1 THEN Shown(next)
                                                    ELSE Shown(g[n - i + 1])
      BY <1>1
    <3>1. CASE i = n + 1
      <4>1. (n + 1) - i + 1 = 0 + 1 /\ 0 \in 0..n
        BY <1>1, <3>1
      <4> QED
        BY <1>2, <1>3, <3>1, <4>1
    <3>2. CASE i # n + 1
      <4>1. (n + 1) - i + 1 = (n - i + 1) + 1 /\ n - i + 1 \in 0..n
        BY <1>1, <3>2
      <4> QED
        BY <1>2, <3>2, <4>1
    <3> QED
      BY <3>1, <3>2
  <2>4. DOMAIN u = 1..n + 1
    OBVIOUS
  <2> HIDE DEF s, T, u
  <2>5. /\ Append(s, Shown(next)) \in Seq(T) /\ Len(Append(s, Shown(next))) = n + 1
        /\ \A i \in 1..n : Append(s, Shown(next))[i] = s[i]
        /\ Append(s, Shown(next))[n + 1] = Shown(next)
    BY <2>1, <2>2, AppendProperties
  <2>6. DOMAIN Append(s, Shown(next)) = 1..n + 1
    BY <2>5, LenProperties
  <2>7. \A i \in 1..n + 1 : i # n + 1 => i \in 1..n
    BY <1>1
  <2>8. \A i \in 1..n + 1 : u[i] = Append(s, Shown(next))[i]
    BY <2>3, <2>5, <2>7
  <2>9. /\ u = [i \in 1..n + 1 |-> u[i]]
        /\ Append(s, Shown(next)) = [i \in 1..n + 1 |-> Append(s, Shown(next))[i]]
    <3>1. u = [i \in 1..n + 1 |-> u[i]]
      BY <2>4 DEF u
    <3>2. Append(s, Shown(next)) = [i \in 1..n + 1 |-> Append(s, Shown(next))[i]]
      BY <2>5, <2>6, LenProperties
    <3> QED
      BY <3>1, <3>2
  <2>10. u = Append(s, Shown(next))
    BY <2>8, <2>9
  <2> QED
    BY <1>1, <1>4, <2>10 DEF u, s
<1>7. Honest(way, cells, m) <=>
        Shown(Move(Other(way), next, a)) = Shown(cells) /\ Honest(way, next, l)
  <2> DEFINE Good(k) == Shown(Move(Other(way), f[k], m[(n + 1) - k + 1])) = Shown(f[k - 1])
             Fair(k) == Shown(Move(Other(way), g[k], l[n - k + 1])) = Shown(g[k - 1])
  <2>1. Good(1) <=> Shown(Move(Other(way), next, a)) = Shown(cells)
    <3>1. 0 \in 0..n /\ 0 + 1 = 1 /\ 1 - 1 = 0 /\ (n + 1) - 1 + 1 = n + 1
      BY <1>1
    <3>2. f[1] = next
      BY <1>2, <1>3, <3>1
    <3> QED
      BY <1>1, <1>2, <3>1, <3>2
  <2>2. ASSUME NEW k \in 1..n PROVE Good(k + 1) <=> Fair(k)
    <3>1. /\ k \in 0..n /\ k - 1 \in 0..n /\ (k + 1) - 1 = (k - 1) + 1
          /\ (n + 1) - (k + 1) + 1 = n - k + 1 /\ n - k + 1 \in 1..n
      BY <1>1
    <3>2. f[k + 1] = g[k] /\ f[(k + 1) - 1] = g[k - 1] /\ m[n - k + 1] = l[n - k + 1]
      BY <1>1, <1>2, <3>1
    <3> QED
      BY <3>1, <3>2
  <2>3. Honest(way, cells, m) <=> \A k \in 1..n + 1 : Good(k)
    BY <1>1, <1>5
  <2>4. Honest(way, next, l) <=> \A k \in 1..n : Fair(k)
    BY <1>5
  <2> HIDE DEF Good, Fair
  <2>5. ASSUME \A k \in 1..n + 1 : Good(k) PROVE Good(1) /\ \A k \in 1..n : Fair(k)
    <3>1. 1 \in 1..n + 1 /\ \A k \in 1..n : k + 1 \in 1..n + 1
      BY <1>1
    <3> QED
      BY <2>2, <2>5, <3>1
  <2>6. ASSUME Good(1), \A k \in 1..n : Fair(k), NEW k \in 1..n + 1 PROVE Good(k)
    <3>1. k = 1 \/ (k - 1 \in 1..n /\ (k - 1) + 1 = k)
      BY <1>1
    <3>2. k - 1 \in 1..n => (Good((k - 1) + 1) <=> Fair(k - 1))
      BY <2>2
    <3> QED
      BY <2>6, <3>1, <3>2
  <2> QED
    BY <2>1, <2>3, <2>4, <2>5, <2>6
<1> QED
  BY <1>6, <1>7 DEF m, next

(* What is seen along a stack without its oldest action.                    *)
LEMMA SeenTail ==
  ASSUME NEW way, NEW cells, NEW S, NEW l \in Seq(S), l # <<>>
  PROVE  /\ Seen(way, cells, Tail(l)) = Tail(Seen(way, cells, l))
         /\ Honest(way, cells, l) => Honest(way, cells, Tail(l))
<1> DEFINE m == Tail(l)
           f == At(way, cells, m)
           g == At(way, cells, l)
           n == Len(l)
<1>1. /\ n \in Nat \ {0} /\ Len(m) = n - 1 /\ \A i \in 1..Len(m) : m[i] = l[i + 1]
  BY EmptySeq, LenProperties, HeadTailProperties
<1>2. \A k \in 0..n - 1 : f[k] = g[k]
  BY AtTail
<1>3. /\ Seen(way, cells, m) = [i \in 1..Len(m) |-> Shown(f[Len(m) - i + 1])]
      /\ Seen(way, cells, l) = [i \in 1..n |-> Shown(g[n - i + 1])]
  BY DEF Seen
<1>4. /\ Honest(way, cells, m) <=>
           \A k \in 1..Len(m) : Shown(Move(Other(way), f[k], m[Len(m) - k + 1])) = Shown(f[k - 1])
      /\ Honest(way, cells, l) <=>
           \A k \in 1..n : Shown(Move(Other(way), g[k], l[n - k + 1])) = Shown(g[k - 1])
  BY DEF Honest
<1> HIDE DEF m, f, g, n
<1>5. Seen(way, cells, m) = Tail(Seen(way, cells, l))
  <2> DEFINE s == [i \in 1..n |-> Shown(g[n - i + 1])]
             u == [i \in 1..n - 1 |-> Shown(f[(n - 1) - i + 1])]
             T == {Shown(g[k]) : k \in 0..n}
  <2>1. s \in Seq(T) /\ Len(s) = n /\ s # <<>>
    <3>1. \A i \in 1..n : n - i + 1 \in 0..n
      BY <1>1
    <3>2. s \in [1..n -> T]
      BY <3>1
    <3> HIDE DEF T
    <3>3. s \in Seq(T) /\ Len(s) = n
      BY <1>1, <3>2
    <3> HIDE DEF s
    <3> QED
      BY <1>1, <3>3
  <2>2. \A i \in 1..n : s[i] = Shown(g[n - i + 1])
    OBVIOUS
  <2>3. \A i \in 1..n - 1 : u[i] = s[i + 1]
    <3> SUFFICES ASSUME NEW i \in 1..n - 1
                 PROVE  Shown(f[(n - 1) - i + 1]) = Shown(g[n - (i + 1) + 1])
      <4>1. \A i \in 1..n - 1 : i + 1 \in 1..n
        BY <1>1
      <4> QED
        BY <4>1
    <3>1. (n - 1) - i + 1 = n - (i + 1) + 1 /\ (n - 1) - i + 1 \in 0..n - 1
      BY <1>1
    <3> QED
      BY <1>2, <3>1
  <2>4. DOMAIN u = 1..n - 1 /\ u = [i \in 1..n - 1 |-> u[i]]
    OBVIOUS
  <2> HIDE DEF s, u, T
  <2>5. /\ Tail(s) \in Seq(T) /\ Len(Tail(s)) = n - 1
        /\ \A i \in 1..n - 1 : Tail(s)[i] = s[i + 1]
    BY <2>1, HeadTailProperties
  <2>6. Tail(s) = [i \in 1..n - 1 |-> Tail(s)[i]]
    BY <2>5, LenProperties
  <2>7. u = Tail(s)
    BY <2>3, <2>4, <2>5, <2>6
  <2> QED
    BY <1>1, <1>3, <2>7 DEF u, s
<1>6. ASSUME Honest(way, cells, l) PROVE Honest(way, cells, m)
  <2> SUFFICES ASSUME NEW k \in 1..n - 1
               PROVE  Shown(Move(Other(way), f[k], m[(n - 1) - k + 1])) = Shown(f[k - 1])
    BY <1>1, <1>4
  <2>1. /\ k \in 1..n /\ k \in 0..n - 1 /\ k - 1 \in 0..n - 1
        /\ (n - 1) - k + 1 \in 1..n - 1 /\ ((n - 1) - k + 1) + 1 = n - k + 1
    BY <1>1
  <2>2. m[(n - 1) - k + 1] = l[n - k + 1] /\ f[k] = g[k] /\ f[k - 1] = g[k - 1]
    BY <1>1, <1>2, <2>1
  <2>3. Shown(Move(Other(way), g[k], l[n - k + 1])) = Shown(g[k - 1])
    BY <1>4, <1>6, <2>1
  <2> QED
    BY <2>2, <2>3
<1> QED
  BY <1>5, <1>6 DEF m

(* From cells that show the same, the same is seen.                         *)
LEMMA SeenShown ==
  ASSUME NEW way, NEW c1, NEW c2, Shown(c1) = Shown(c2), NEW l, Len(l) \in Nat
  PROVE  /\ Seen(way, c1, l) = Seen(way, c2, l)
         /\ Honest(way, c1, l) => Honest(way, c2, l)
<1> DEFINE f == At(way, c1, l)
           g == At(way, c2, l)
<1>1. \A k \in 0..Len(l) : Shown(f[k]) = Shown(g[k])
  BY AtShown
<1>2. /\ Seen(way, c1, l) = [i \in 1..Len(l) |-> Shown(f[Len(l) - i + 1])]
      /\ Seen(way, c2, l) = [i \in 1..Len(l) |-> Shown(g[Len(l) - i + 1])]
  BY DEF Seen
<1>3. /\ Honest(way, c1, l) <=>
           \A k \in 1..Len(l) : Shown(Move(Other(way), f[k], l[Len(l) - k + 1])) = Shown(f[k - 1])
      /\ Honest(way, c2, l) <=>
           \A k \in 1..Len(l) : Shown(Move(Other(way), g[k], l[Len(l) - k + 1])) = Shown(g[k - 1])
  BY DEF Honest
<1> HIDE DEF f, g
<1>4. \A i \in 1..Len(l) : Len(l) - i + 1 \in 0..Len(l)
  OBVIOUS
<1>5. \A i \in 1..Len(l) : Shown(f[Len(l) - i + 1]) = Shown(g[Len(l) - i + 1])
  BY <1>1, <1>4
<1>6. ASSUME Honest(way, c1, l), NEW k \in 1..Len(l)
      PROVE  Shown(Move(Other(way), g[k], l[Len(l) - k + 1])) = Shown(g[k - 1])
  <2> DEFINE a == l[Len(l) - k + 1]
  <2> HIDE DEF a
  <2>1. k \in 0..Len(l) /\ k - 1 \in 0..Len(l)
    OBVIOUS
  <2>2. Shown(Move(Other(way), f[k], a)) = Shown(f[k - 1])
    BY <1>3, <1>6 DEF a
  <2>3. /\ Shown(Move(Other(way), f[k], a)) = Turned(Other(way), Shown(f[k]), a)
        /\ Shown(Move(Other(way), g[k], a)) = Turned(Other(way), Shown(g[k]), a)
    BY ShownMoved
  <2>4. Shown(f[k]) = Shown(g[k]) /\ Shown(f[k - 1]) = Shown(g[k - 1])
    BY <1>1, <2>1
  <2> QED
    BY <2>2, <2>3, <2>4 DEF a
<1> QED
  BY <1>2, <1>3, <1>5, <1>6

(* Nothing is seen along an empty stack.                                    *)
LEMMA SeenNothing ==
  ASSUME NEW way, NEW cells
  PROVE  Seen(way, cells, <<>>) = <<>> /\ Honest(way, cells, <<>>)
<1>1. Len(<<>>) = 0 /\ 1..0 = {}
  OBVIOUS
<1>2. Seen(way, cells, <<>>) = [i \in {} |-> Shown(At(way, cells, <<>>)[Len(<<>>) - i + 1])]
  BY <1>1 DEF Seen
<1>3. \A f : DOMAIN f = {} /\ f = [i \in {} |-> f[i]] => f = <<>>
  OBVIOUS
<1> QED
  BY <1>1, <1>2 DEF Honest

-----------------------------------------------------------------------------
(* The actions that are live.                                               *)

(* What Live takes for an action.                                           *)
Piece(a) == IF a = Gone THEN <<>> ELSE <<a>>

(* The same for each action.                                                *)
Pieces(s) == [i \in DOMAIN s |-> Piece(s[i])]

(* What is live, piece by piece.                                            *)
LEMMA LiveIsConcat == \A s : Live(s) = Concat(Pieces(s))
BY DEF Live, Pieces, Piece

(* The pieces are sequences of actions.                                     *)
LEMMA PiecesType ==
  ASSUME NEW S, NEW s \in Seq(S)
  PROVE  Pieces(s) \in Seq(Seq(S)) /\ Len(Pieces(s)) = Len(s)
<1>1. Len(s) \in Nat /\ DOMAIN s = 1..Len(s) /\ \A i \in 1..Len(s) : s[i] \in S
  BY LenProperties, ElementOfSeq
<1>2. \A i \in 1..Len(s) : Piece(s[i]) \in Seq(S)
  BY <1>1, EmptySeq DEF Piece
<1>3. Pieces(s) = [i \in 1..Len(s) |-> Piece(s[i])]
  BY <1>1 DEF Pieces
<1>4. Pieces(s) \in [1..Len(s) -> Seq(S)]
  BY <1>2, <1>3
<1> QED
  BY <1>1, <1>4

(* Nothing is live in an empty stack.                                       *)
LEMMA LiveNothing == Live(<<>>) = <<>>
<1>1. Pieces(<<>>) = <<>>
  <2>1. Pieces(<<>>) \in Seq(Seq({})) /\ Len(Pieces(<<>>)) = 0
    BY PiecesType, EmptySeq
  <2> QED
    BY <2>1, EmptySeq
<1> QED
  BY <1>1, LiveIsConcat, ConcatNothing

(* What a push adds to what is live.                                        *)
LEMMA LiveOneMore ==
  ASSUME NEW S, NEW s \in Seq(S), NEW a \in S
  PROVE  /\ Live(s) \in Seq(S)
         /\ Live(Append(s, a)) = IF a = Gone THEN Live(s) ELSE Append(Live(s), a)
<1> DEFINE m == Append(s, a)
<1>1. /\ Len(s) \in Nat /\ Len(m) = Len(s) + 1 /\ m \in Seq(S)
      /\ \A i \in 1..Len(s) : m[i] = s[i]
      /\ m[Len(s) + 1] = a /\ DOMAIN s = 1..Len(s) /\ DOMAIN m = 1..Len(s) + 1
  BY LenProperties, AppendProperties
<1> HIDE DEF m
<1>2. Pieces(s) \in Seq(Seq(S)) /\ Len(Pieces(s)) = Len(s)
  BY PiecesType
<1>3. Piece(a) \in Seq(S)
  BY EmptySeq DEF Piece
<1>4. Pieces(m) = Append(Pieces(s), Piece(a))
  <2>1. /\ Append(Pieces(s), Piece(a)) \in Seq(Seq(S))
        /\ Len(Append(Pieces(s), Piece(a))) = Len(s) + 1
        /\ \A i \in 1..Len(s) : Append(Pieces(s), Piece(a))[i] = Pieces(s)[i]
        /\ Append(Pieces(s), Piece(a))[Len(s) + 1] = Piece(a)
    BY <1>2, <1>3, AppendProperties
  <2>2. Pieces(m) \in Seq(Seq(S)) /\ Len(Pieces(m)) = Len(s) + 1
    BY <1>1, PiecesType
  <2>3. \A i \in 1..Len(s) : Pieces(m)[i] = Pieces(s)[i] /\ Pieces(m)[Len(s) + 1] = Piece(a)
    BY <1>1 DEF Pieces
  <2>4. Pieces(m)[Len(s) + 1] = Piece(a)
    BY <1>1 DEF Pieces
  <2>5. \A i \in 1..Len(s) + 1 : Pieces(m)[i] = Append(Pieces(s), Piece(a))[i]
    <3> SUFFICES ASSUME NEW i \in 1..Len(s) + 1
                 PROVE  Pieces(m)[i] = Append(Pieces(s), Piece(a))[i]
      OBVIOUS
    <3>1. i = Len(s) + 1 \/ i \in 1..Len(s)
      BY <1>1
    <3> QED
      BY <2>1, <2>3, <2>4, <3>1
  <2> HIDE DEF Pieces
  <2> QED
    BY <2>1, <2>2, <2>5, SeqEqual
<1>5. Concat(Pieces(m)) = Concat(Pieces(s)) \o Piece(a)
  BY <1>2, <1>3, <1>4, ConcatOneMore
<1>6. Live(s) \in Seq(S)
  BY <1>2, ConcatType, LiveIsConcat
<1>7. Live(m) = Live(s) \o Piece(a)
  BY <1>5, LiveIsConcat
<1>8. Live(s) \o <<>> = Live(s) /\ Live(s) \o <<a>> = Append(Live(s), a)
  BY <1>6, ConcatEmptySeq, AppendIsConcat
<1> QED
  BY <1>6, <1>7, <1>8 DEF Piece, m

(* What is live is made of actions, no more than the stack has.             *)
LEMMA LiveType ==
  ASSUME NEW S, NEW s \in Seq(S)
  PROVE  Live(s) \in Seq(S) /\ Len(Live(s)) <= Len(s) /\ Len(Live(s)) \in Nat
<1> DEFINE P == {t \in Seq(S) : Live(t) \in Seq(S) /\ Len(Live(t)) <= Len(t)}
<1>1. <<>> \in P
  <2>1. <<>> \in Seq(S) /\ Len(<<>>) = 0 /\ Live(<<>>) = <<>>
    BY LiveNothing, EmptySeq
  <2>2. Len(Live(<<>>)) = 0 /\ Live(<<>>) \in Seq(S)
    BY <2>1
  <2>3. Len(Live(<<>>)) <= Len(<<>>)
    BY <2>1, <2>2
  <2> QED
    BY <2>1, <2>2, <2>3
<1>2. ASSUME NEW t \in Seq(S), NEW a \in S, t \in P PROVE Append(t, a) \in P
  <2>1. /\ Live(t) \in Seq(S) /\ Len(Live(t)) <= Len(t) /\ Append(t, a) \in Seq(S)
        /\ Len(t) \in Nat /\ Len(Live(t)) \in Nat /\ Len(Append(t, a)) = Len(t) + 1
    BY <1>2, AppendProperties, LenProperties
  <2>2. Live(Append(t, a)) = IF a = Gone THEN Live(t) ELSE Append(Live(t), a)
    BY LiveOneMore
  <2>3. Append(Live(t), a) \in Seq(S) /\ Len(Append(Live(t), a)) = Len(Live(t)) + 1
    BY <2>1, AppendProperties
  <2> QED
    BY <2>1, <2>2, <2>3
<1> HIDE DEF P
<1>3. Seq(S) \subseteq P
  BY <1>1, <1>2, SeqSetInduction
<1>4. Live(s) \in Seq(S) /\ Len(Live(s)) <= Len(s)
  BY <1>3 DEF P
<1> QED
  BY <1>4, LenProperties

(* Of actions that are all gone nothing is left, and of live ones all are.  *)
LEMMA LiveGone ==
  ASSUME NEW S, NEW s \in Seq(S)
  PROVE  /\ (\A i \in 1..Len(s) : s[i] = Gone) => Live(s) = <<>>
         /\ (\A i \in 1..Len(s) : s[i] # Gone) => Live(s) = s
<1> DEFINE P == {t \in Seq(S) : /\ (\A i \in 1..Len(t) : t[i] = Gone) => Live(t) = <<>>
                                /\ (\A i \in 1..Len(t) : t[i] # Gone) => Live(t) = t}
<1>1. <<>> \in P
  BY LiveNothing, EmptySeq
<1>2. ASSUME NEW t \in Seq(S), NEW a \in S, t \in P PROVE Append(t, a) \in P
  <2>1. /\ Append(t, a) \in Seq(S) /\ Len(t) \in Nat /\ Len(Append(t, a)) = Len(t) + 1
        /\ \A i \in 1..Len(t) : Append(t, a)[i] = t[i]
        /\ Append(t, a)[Len(t) + 1] = a
    BY AppendProperties, LenProperties
  <2>2. \A i \in 1..Len(t) : i \in 1..Len(Append(t, a))
    BY <2>1
  <2>3. Len(t) + 1 \in 1..Len(Append(t, a))
    BY <2>1
  <2>4. Live(Append(t, a)) = IF a = Gone THEN Live(t) ELSE Append(Live(t), a)
    BY LiveOneMore
  <2> DEFINE m == Append(t, a)
  <2> HIDE DEF m
  <2>5. ASSUME \A i \in 1..Len(m) : m[i] = Gone PROVE Live(m) = <<>>
    <3>1. a = Gone /\ \A i \in 1..Len(t) : t[i] = Gone
      BY <2>1, <2>2, <2>3, <2>5 DEF m
    <3> QED
      BY <1>2, <2>4, <3>1 DEF m
  <2>6. ASSUME \A i \in 1..Len(m) : m[i] # Gone PROVE Live(m) = m
    <3>1. a # Gone /\ \A i \in 1..Len(t) : t[i] # Gone
      BY <2>1, <2>2, <2>3, <2>6 DEF m
    <3> QED
      BY <1>2, <2>4, <3>1 DEF m
  <2> QED
    BY <2>1, <2>5, <2>6 DEF m
<1> HIDE DEF P
<1>3. Seq(S) \subseteq P
  BY <1>1, <1>2, SeqSetInduction
<1> QED
  BY <1>3 DEF P

(* An oldest action that is gone may be dropped.                            *)
LEMMA LiveTail ==
  ASSUME NEW S, NEW s \in Seq(S), s # <<>>, s[1] = Gone
  PROVE  Live(Tail(s)) = Live(s)
<1> DEFINE P == {t \in Seq(S) : t # <<>> /\ t[1] = Gone => Live(Tail(t)) = Live(t)}
<1>1. <<>> \in P
  BY EmptySeq
<1>2. ASSUME NEW t \in Seq(S), NEW a \in S, t \in P PROVE Append(t, a) \in P
  <2>1. Append(t, a) \in Seq(S)
    BY AppendProperties
  <2> SUFFICES ASSUME Append(t, a)[1] = Gone PROVE Live(Tail(Append(t, a))) = Live(Append(t, a))
    BY <2>1
  <2>2. Tail(Append(t, a)) = IF t = <<>> THEN <<>> ELSE Append(Tail(t), a)
    BY HeadTailAppend
  <2>3. Live(Append(t, a)) = IF a = Gone THEN Live(t) ELSE Append(Live(t), a)
    BY LiveOneMore
  <2>4. CASE t = <<>>
    <3>1. Append(t, a)[1] = a
      BY <2>4, EmptySeq, AppendProperties
    <3> QED
      BY <2>2, <2>3, <2>4, <3>1
  <2>5. CASE t # <<>>
    <3>1. t[1] = Gone
      <4>1. 1 \in 1..Len(t)
        BY <2>5, EmptySeq
      <4> QED
        BY <4>1, AppendProperties
    <3>2. Live(Tail(t)) = Live(t)
      BY <1>2, <2>5, <3>1
    <3>3. Tail(t) \in Seq(S)
      BY <2>5, HeadTailProperties
    <3>4. Live(Append(Tail(t), a)) = IF a = Gone THEN Live(Tail(t)) ELSE Append(Live(Tail(t)), a)
      BY <3>3, LiveOneMore
    <3> QED
      BY <2>2, <2>3, <2>5, <3>2, <3>4
  <2> QED
    BY <2>4, <2>5
<1> HIDE DEF P
<1>3. Seq(S) \subseteq P
  BY <1>1, <1>2, SeqSetInduction
<1> QED
  BY <1>3 DEF P

(* A stack whose oldest actions are those that are gone: its limit drops    *)
(* the oldest live one, if that is in excess.                               *)
LEMMA LiveLatest ==
  ASSUME CommandAssumption, NEW S, NEW s \in Seq(S), Len(s) <= MaxHistory + 1,
         \A i, k \in 1..Len(s) : i < k /\ s[k] = Gone => s[i] = Gone
  PROVE  /\ Live(Latest(s)) = Latest(Live(s))
         /\ Latest(s) = s \/ (s # <<>> /\ Latest(s) = Tail(s))
         /\ Latest(Live(s)) = Live(s) \/ (Live(s) # <<>> /\ Latest(Live(s)) = Tail(Live(s)))
<1>1. Len(s) \in Nat /\ MaxHistory \in Nat \ {0}
  BY LenProperties DEF CommandAssumption
<1>2. Live(s) \in Seq(S) /\ Len(Live(s)) <= Len(s) /\ Len(Live(s)) \in Nat
  BY LiveType
<1>3. CASE Len(s) <= MaxHistory
  BY <1>1, <1>2, <1>3 DEF Latest
<1>4. CASE ~(Len(s) <= MaxHistory)
  <2>1. Len(s) = MaxHistory + 1 /\ Len(s) - MaxHistory + 1 = 2 /\ s # <<>>
    BY <1>1, <1>4
  <2>2. Latest(s) = Tail(s)
    BY <1>4, <2>1, TailIsSubSeq DEF Latest
  <2>3. CASE s[1] = Gone
    <3>1. Live(Tail(s)) = Live(s)
      BY <2>1, <2>3, LiveTail
    <3>2. Tail(s) \in Seq(S) /\ Len(Tail(s)) = MaxHistory
      BY <1>1, <2>1, HeadTailProperties
    <3>3. Len(Live(Tail(s))) <= MaxHistory
      BY <3>2, LiveType
    <3>4. Latest(Live(s)) = Live(s)
      BY <3>1, <3>3 DEF Latest
    <3> QED
      BY <2>1, <2>2, <3>1, <3>4
  <2>4. CASE s[1] # Gone
    <3>1. \A i \in 1..Len(s) : s[i] # Gone
      <4> SUFFICES ASSUME NEW i \in 1..Len(s), s[i] = Gone PROVE FALSE
        OBVIOUS
      <4>1. i # 1 /\ 1 \in 1..Len(s)
        BY <1>1, <2>1, <2>4
      <4>2. 1 < i
        BY <1>1, <4>1
      <4> QED
        BY <2>4, <4>1, <4>2
    <3>2. /\ Tail(s) \in Seq(S) /\ Len(Tail(s)) = Len(s) - 1
          /\ \A i \in 1..Len(Tail(s)) : Tail(s)[i] = s[i + 1]
      BY <2>1, HeadTailProperties
    <3>3. \A i \in 1..Len(Tail(s)) : Tail(s)[i] # Gone
      <4> SUFFICES ASSUME NEW i \in 1..Len(Tail(s)) PROVE s[i + 1] # Gone
        BY <3>2
      <4>1. i + 1 \in 1..Len(s)
        BY <1>1, <3>2
      <4> QED
        BY <3>1, <4>1
    <3>4. Live(s) = s /\ Live(Tail(s)) = Tail(s)
      BY <3>1, <3>2, <3>3, LiveGone
    <3> QED
      BY <2>1, <2>2, <3>4
  <2> QED
    BY <2>3, <2>4
<1> QED
  BY <1>3, <1>4

(* The first and the last of a set of indices are what they should be.      *)
LEMMA FirstIs ==
  ASSUME NEW I, I \subseteq Nat, NEW i \in I, \A k \in I : i <= k
  PROVE  First(I) = i
<1>1. First(I) \in I /\ \A k \in I : First(I) <= k
  BY DEF First
<1>2. First(I) <= i /\ i <= First(I) /\ First(I) \in Nat /\ i \in Nat
  BY <1>1
<1> QED
  BY <1>2

(* The last of the edits of a cell.                                         *)
LEMMA FinalIs ==
  ASSUME NEW I, I \subseteq Nat, NEW i \in I, \A k \in I : k <= i
  PROVE  Final(I) = i
<1>1. Final(I) \in I /\ \A k \in I : k <= Final(I)
  BY DEF Final
<1>2. Final(I) <= i /\ i <= Final(I) /\ Final(I) \in Nat /\ i \in Nat
  BY <1>1
<1> QED
  BY <1>2

(* The first edit of a cell.                                                *)
FirstEdit(a, c) == a[First(EditsOf(a, c))]

(* The last one.                                                            *)
FinalEdit(a, c) == a[Final(EditsOf(a, c))]

(* The edits of two actions, one after the other.                           *)
LEMMA EditsOfBoth ==
  ASSUME NEW S, NEW a \in Seq(S), NEW b \in Seq(S), NEW c
  PROVE  /\ c \in Edited(a \o b) <=> c \in Edited(a) \/ c \in Edited(b)
         /\ c \in Edited(a) => FirstEdit(a \o b, c) = FirstEdit(a, c)
         /\ c \notin Edited(a) /\ c \in Edited(b) => FirstEdit(a \o b, c) = FirstEdit(b, c)
         /\ c \in Edited(b) => FinalEdit(a \o b, c) = FinalEdit(b, c)
         /\ c \notin Edited(b) /\ c \in Edited(a) => FinalEdit(a \o b, c) = FinalEdit(a, c)
<1> DEFINE s == a \o b
           m == Len(a)
           n == Len(b)
           A == EditsOf(a, c)
           B == EditsOf(b, c)
           I == EditsOf(s, c)
<1>1. /\ m \in Nat /\ n \in Nat /\ s \in Seq(S) /\ Len(s) = m + n
      /\ \A i \in 1..m + n : s[i] = IF i <= m THEN a[i] ELSE b[i - m]
  BY LenProperties, ConcatProperties
<1>2. /\ A = {i \in 1..m : a[i].cell = c} /\ B = {i \in 1..n : b[i].cell = c}
      /\ I = {i \in 1..m + n : s[i].cell = c}
  <2>1. DOMAIN a = 1..m /\ DOMAIN b = 1..n /\ DOMAIN s = 1..m + n
    BY <1>1, LenProperties
  <2> QED
    BY <2>1 DEF EditsOf
<1>3. (c \in Edited(a) <=> A # {}) /\ (c \in Edited(b) <=> B # {}) /\ (c \in Edited(s) <=> I # {})
  BY DEF Edited, EditsOf
<1>4. /\ c \in Edited(a) => /\ First(A) \in A /\ \A k \in A : First(A) <= k
                            /\ Final(A) \in A /\ \A k \in A : k <= Final(A)
      /\ c \in Edited(b) => /\ First(B) \in B /\ \A k \in B : First(B) <= k
                            /\ Final(B) \in B /\ \A k \in B : k <= Final(B)
  BY FirstFinalExist
<1> HIDE DEF s, m, n, A, B, I
<1>5. ASSUME NEW i \in A PROVE i \in I /\ s[i] = a[i] /\ i \in 1..m
  <2>1. i \in 1..m /\ i \in 1..m + n /\ i <= m
    BY <1>1, <1>2
  <2> QED
    BY <1>1, <1>2, <2>1
<1>6. ASSUME NEW i \in B PROVE m + i \in I /\ s[m + i] = b[i] /\ i \in 1..n
  <2>1. i \in 1..n /\ m + i \in 1..m + n /\ ~(m + i <= m) /\ (m + i) - m = i
    BY <1>1, <1>2
  <2> QED
    BY <1>1, <1>2, <2>1
<1>7. ASSUME NEW i \in I PROVE i \in A \/ (i > m /\ i - m \in B)
  <2>1. i \in 1..m + n
    BY <1>2
  <2>2. CASE i <= m
    <3>1. i \in 1..m
      BY <1>1, <2>1, <2>2
    <3> QED
      BY <1>1, <1>2, <2>1, <2>2, <3>1
  <2>3. CASE ~(i <= m)
    <3>1. i > m /\ i - m \in 1..n
      BY <1>1, <2>1, <2>3
    <3> QED
      BY <1>1, <1>2, <2>1, <2>3, <3>1
  <2> QED
    BY <2>2, <2>3
<1>8. I \subseteq Nat /\ A \subseteq Nat /\ B \subseteq Nat
  BY <1>2
<1>9. c \in Edited(s) <=> c \in Edited(a) \/ c \in Edited(b)
  <2>1. I # {} <=> A # {} \/ B # {}
    BY <1>5, <1>6, <1>7
  <2> QED
    BY <1>3, <2>1
<1>10. ASSUME c \in Edited(a) PROVE s[First(I)] = a[First(A)]
  <2>1. First(A) \in A /\ \A k \in A : First(A) <= k
    BY <1>4, <1>10
  <2>2. First(A) \in I /\ s[First(A)] = a[First(A)] /\ First(A) \in 1..m
    BY <1>5, <2>1
  <2>3. \A k \in I : First(A) <= k
    <3> SUFFICES ASSUME NEW k \in I PROVE First(A) <= k
      OBVIOUS
    <3>1. k \in Nat
      BY <1>8
    <3> QED
      BY <1>1, <1>7, <2>1, <2>2, <3>1
  <2>4. First(I) = First(A)
    BY <1>8, <2>2, <2>3, FirstIs
  <2> QED
    BY <2>2, <2>4
<1>11. ASSUME c \notin Edited(a), c \in Edited(b) PROVE s[First(I)] = b[First(B)]
  <2>1. First(B) \in B /\ \A k \in B : First(B) <= k
    BY <1>4, <1>11
  <2>2. m + First(B) \in I /\ s[m + First(B)] = b[First(B)] /\ First(B) \in 1..n
    BY <1>6, <2>1
  <2>3. \A k \in I : m + First(B) <= k
    <3> SUFFICES ASSUME NEW k \in I PROVE m + First(B) <= k
      OBVIOUS
    <3>1. k \in Nat /\ k - m \in B
      BY <1>3, <1>7, <1>8, <1>11
    <3>2. First(B) <= k - m
      BY <2>1, <3>1
    <3> QED
      BY <1>1, <2>2, <3>1, <3>2
  <2>4. First(I) = m + First(B)
    BY <1>8, <2>2, <2>3, FirstIs
  <2> QED
    BY <2>2, <2>4
<1>12. ASSUME c \in Edited(b) PROVE s[Final(I)] = b[Final(B)]
  <2>1. Final(B) \in B /\ \A k \in B : k <= Final(B)
    BY <1>4, <1>12
  <2>2. m + Final(B) \in I /\ s[m + Final(B)] = b[Final(B)] /\ Final(B) \in 1..n
    BY <1>6, <2>1
  <2>3. \A k \in I : k <= m + Final(B)
    <3> SUFFICES ASSUME NEW k \in I PROVE k <= m + Final(B)
      OBVIOUS
    <3>1. k \in Nat
      BY <1>8
    <3>2. CASE k \in A
      <4>1. k \in 1..m
        BY <1>5, <3>2
      <4> QED
        BY <1>1, <2>2, <4>1
    <3>3. CASE k - m \in B
      <4>1. k - m <= Final(B)
        BY <2>1, <3>3
      <4> QED
        BY <1>1, <2>2, <3>1, <4>1
    <3> QED
      BY <1>7, <3>2, <3>3
  <2>4. Final(I) = m + Final(B)
    BY <1>8, <2>2, <2>3, FinalIs
  <2> QED
    BY <2>2, <2>4
<1>13. ASSUME c \notin Edited(b), c \in Edited(a) PROVE s[Final(I)] = a[Final(A)]
  <2>1. Final(A) \in A /\ \A k \in A : k <= Final(A)
    BY <1>4, <1>13
  <2>2. Final(A) \in I /\ s[Final(A)] = a[Final(A)]
    BY <1>5, <2>1
  <2>3. \A k \in I : k <= Final(A)
    <3> SUFFICES ASSUME NEW k \in I PROVE k <= Final(A)
      OBVIOUS
    <3>1. k \in A
      BY <1>3, <1>7, <1>13
    <3> QED
      BY <2>1, <3>1
  <2>4. Final(I) = Final(A)
    BY <1>8, <2>2, <2>3, FinalIs
  <2> QED
    BY <2>2, <2>4
<1> QED
  BY <1>9, <1>10, <1>11, <1>12, <1>13 DEF s, A, B, I, FirstEdit, FinalEdit

-----------------------------------------------------------------------------
(* The line.                                                                *)

(* The line that undo and redo move along.                                  *)
TheLine ==
  IF "threads" \in setting THEN NoLine
  ELSE The({LineFrom(s) : s \in {Before}})

(* The line from some cells, along two stacks.                              *)
LineOf(cells, u, r) ==
  [past |-> Seen("undo", cells, u), present |-> Shown(cells), future |-> Seen("redo", cells, r)]

(* The line, for one user, by what is seen along the stacks.                *)
LEMMA LineIs ==
  ASSUME TypeInv, "threads" \notin setting
  PROVE  TheLine = LineOf(Settled, Live(undo), Live(redo))
<1>1. The({LineFrom(s) : s \in {Before}}) = LineFrom(Before)
  <2>1. {LineFrom(s) : s \in {Before}} = {LineFrom(Before)}
    OBVIOUS
  <2> QED
    BY <2>1, TheOne
<1>2. Len(Live(undo)) \in Nat /\ Len(Live(redo)) \in Nat
  BY LiveType DEF TypeInv
<1> QED
  BY <1>1, <1>2, WalkIsSeen DEF TheLine, LineFrom, LineOf, Before

(* What is shown depends on the marked cells, which do not change.          *)
LEMMA ShownStays ==
  ASSUME marked' = marked, NEW s, s = Settled', NEW u, u = Live(undo'), NEW r, r = Live(redo')
  PROVE  /\ Shown(Settled)' = Shown(s)
         /\ Honest("undo", Settled, Live(undo))' <=> Honest("undo", s, u)
         /\ Honest("redo", Settled, Live(redo))' <=> Honest("redo", s, r)
         /\ LineOf(Settled, Live(undo), Live(redo))' = LineOf(s, u, r)
<1>1. Live(undo)' = u /\ Live(redo)' = r
  BY DEF Live
<1>2. Shown(Settled)' = Shown(s)
  BY DEF Shown
<1>3. Honest("undo", Settled, Live(undo))' <=> Honest("undo", s, u)
  BY <1>1 DEF Honest, Shown
<1>4. Honest("redo", Settled, Live(redo))' <=> Honest("redo", s, r)
  BY <1>1 DEF Honest, Shown
<1>5. Seen("undo", Settled, Live(undo))' = Seen("undo", s, u)
  BY <1>1 DEF Seen, Shown
<1>6. Seen("redo", Settled, Live(redo))' = Seen("redo", s, r)
  BY <1>1 DEF Seen, Shown
<1>7. LineOf(Settled, Live(undo), Live(redo))' = LineOf(s, u, r)
  BY <1>2, <1>5, <1>6 DEF LineOf
<1> QED
  BY <1>2, <1>3, <1>4, <1>7

(* The same in the next state.                                              *)
LEMMA LineIsPrimed ==
  ASSUME TypeInv', "threads" \notin setting', marked' = marked,
         NEW s, s = Settled', NEW u, u = Live(undo'), NEW r, r = Live(redo')
  PROVE  TheLine' = LineOf(s, u, r)
<1>1. The({LineFrom(b) : b \in {Before}})' = LineFrom(Before)'
  <2>1. {LineFrom(b) : b \in {Before}}' = {LineFrom(Before)'}
    OBVIOUS
  <2> QED
    BY <2>1, TheOne
<1>2. Len(u) \in Nat /\ Len(r) \in Nat
  BY LiveType DEF TypeInv
<1>3. Walk(s, u, Undo) = Seen("undo", s, u) /\ Walk(s, r, Do) = Seen("redo", s, r)
  BY <1>2, WalkIsSeen
<1>4. Walk(Settled, Live(undo), Undo)' = Walk(s, u, Undo)
  BY DEF Walk, Shown
<1>5. Walk(Settled, Live(redo), Do)' = Walk(s, r, Do)
  BY DEF Walk, Shown
<1>6. Shown(Settled)' = Shown(s)
  BY DEF Shown
<1> QED
  BY <1>1, <1>3, <1>4, <1>5, <1>6 DEF TheLine, LineFrom, LineOf, Before

-----------------------------------------------------------------------------
(* Actions and what they turn.                                              *)

(* Two actions, one after the other, turn the shown cells as one does.      *)
LEMMA TurnedTwice ==
  ASSUME NEW S, NEW a \in Seq(S), NEW b \in Seq(S), NEW x
  PROVE  /\ Turned("undo", x, a \o b) = Turned("undo", Turned("undo", x, b), a)
         /\ Turned("redo", x, a \o b) = Turned("redo", Turned("redo", x, a), b)
<1> DEFINE s == a \o b
           FA(c) == FirstEdit(a, c)
           FB(c) == FirstEdit(b, c)
           FS(c) == FirstEdit(s, c)
           LA(c) == FinalEdit(a, c)
           LB(c) == FinalEdit(b, c)
           LS(c) == FinalEdit(s, c)
<1>1. ASSUME NEW c
      PROVE  /\ c \in Edited(s) <=> c \in Edited(a) \/ c \in Edited(b)
             /\ c \in Edited(a) => FS(c) = FA(c)
             /\ c \notin Edited(a) /\ c \in Edited(b) => FS(c) = FB(c)
             /\ c \in Edited(b) => LS(c) = LB(c)
             /\ c \notin Edited(b) /\ c \in Edited(a) => LS(c) = LA(c)
  BY EditsOfBoth
<1>2. \A y : /\ Turned("undo", y, a) =
                     [c \in Cell |-> IF c \in Edited(a) \ marked THEN FA(c).before ELSE y[c]]
             /\ Turned("undo", y, b) =
                     [c \in Cell |-> IF c \in Edited(b) \ marked THEN FB(c).before ELSE y[c]]
             /\ Turned("undo", y, s) =
                     [c \in Cell |-> IF c \in Edited(s) \ marked THEN FS(c).before ELSE y[c]]
  BY DEF Turned, FirstEdit
<1>3. \A y : /\ Turned("redo", y, a) =
                     [c \in Cell |-> IF c \in Edited(a) \ marked THEN LA(c).after ELSE y[c]]
             /\ Turned("redo", y, b) =
                     [c \in Cell |-> IF c \in Edited(b) \ marked THEN LB(c).after ELSE y[c]]
             /\ Turned("redo", y, s) =
                     [c \in Cell |-> IF c \in Edited(s) \ marked THEN LS(c).after ELSE y[c]]
  BY DEF Turned, FinalEdit
<1> HIDE DEF s, FA, FB, FS, LA, LB, LS
<1>4. Turned("undo", x, s) = Turned("undo", Turned("undo", x, b), a)
  <2>1. Turned("undo", Turned("undo", x, b), a) =
          [c \in Cell |-> IF c \in Edited(a) \ marked THEN FA(c).before
                          ELSE IF c \in Edited(b) \ marked THEN FB(c).before ELSE x[c]]
    BY <1>2
  <2>2. ASSUME NEW c \in Cell
        PROVE  (IF c \in Edited(s) \ marked THEN FS(c).before ELSE x[c])
                 = (IF c \in Edited(a) \ marked THEN FA(c).before
                    ELSE IF c \in Edited(b) \ marked THEN FB(c).before ELSE x[c])
    BY <1>1
  <2>3. Turned("undo", x, s) =
             [c \in Cell |-> IF c \in Edited(s) \ marked THEN FS(c).before ELSE x[c]]
    BY <1>2
  <2> QED
    BY <2>1, <2>2, <2>3
<1>5. Turned("redo", x, s) = Turned("redo", Turned("redo", x, a), b)
  <2>1. Turned("redo", Turned("redo", x, a), b) =
          [c \in Cell |-> IF c \in Edited(b) \ marked THEN LB(c).after
                          ELSE IF c \in Edited(a) \ marked THEN LA(c).after ELSE x[c]]
    BY <1>3
  <2>2. ASSUME NEW c \in Cell
        PROVE  (IF c \in Edited(s) \ marked THEN LS(c).after ELSE x[c])
                 = (IF c \in Edited(b) \ marked THEN LB(c).after
                    ELSE IF c \in Edited(a) \ marked THEN LA(c).after ELSE x[c])
    BY <1>1
  <2>3. Turned("redo", x, s) =
             [c \in Cell |-> IF c \in Edited(s) \ marked THEN LS(c).after ELSE x[c]]
    BY <1>3
  <2> QED
    BY <2>1, <2>2, <2>3
<1> QED
  BY <1>4, <1>5 DEF s

(* An action that was just done can be undone: each edit holds what was in  *)
(* its cell before all of them.                                             *)
Fresh(a) == \A i \in 1..Len(a) : a[i].before = value[a[i].cell]

(* An action whose edits all know what was there is undone by going back to *)
(* it.                                                                      *)
LEMMA FreshUndone ==
  ASSUME CommandAssumption, TypeInv, NEW a \in FineAction, Fresh(a)
  PROVE  Turned("undo", Turned("redo", Shown(Cells), a), a) = Shown(Cells)
<1> DEFINE F(c) == a[First(EditsOf(a, c))]
           L(c) == a[Final(EditsOf(a, c))]
           x == Shown(Cells)
<1>1. x = [c \in Cell |-> IF c \in override \ marked THEN value[c] ELSE Empty]
  BY DEF Shown, Cells
<1>2. ASSUME NEW c \in Edited(a) PROVE F(c).before = value[c]
  <2>1. First(EditsOf(a, c)) \in EditsOf(a, c)
    BY FirstFinalExist DEF FineAction
  <2>2. First(EditsOf(a, c)) \in 1..Len(a) /\ a[First(EditsOf(a, c))].cell = c
    BY <2>1, LenProperties DEF EditsOf, FineAction
  <2> QED
    BY <2>2 DEF Fresh
<1>3. ASSUME NEW c \in Cell \ marked PROVE x[c] = value[c]
  <2>1. value[c] \in Content /\ value[c] # Computed
    BY RuleCellMarked DEF TypeInv, CellsFine, Cells
  <2>2. c \notin override => value[c] \notin Number
    BY DEF TypeInv, CellsFine, Cells
  <2> QED
    BY <1>1, <2>1, <2>2 DEF Content, Typed
<1>4. Turned("redo", x, a) = [c \in Cell |-> IF c \in Edited(a) \ marked THEN L(c).after ELSE x[c]]
  BY DEF Turned
<1>5. \A y : Turned("undo", y, a) =
                  [c \in Cell |-> IF c \in Edited(a) \ marked THEN F(c).before ELSE y[c]]
  BY DEF Turned
<1> HIDE DEF F, L, x
<1>6. Turned("undo", Turned("redo", x, a), a) =
        [c \in Cell |-> IF c \in Edited(a) \ marked THEN F(c).before ELSE x[c]]
  BY <1>4, <1>5
<1>7. ASSUME NEW c \in Cell PROVE (IF c \in Edited(a) \ marked THEN F(c).before ELSE x[c]) = x[c]
  BY <1>2, <1>3
<1>8. x = [c \in Cell |-> x[c]]
  BY <1>1
<1>9. Turned("undo", Turned("redo", x, a), a) = x
  BY <1>6, <1>7, <1>8
<1> QED
  BY <1>9 DEF x

(* An action on marked cells does not show.                                 *)
LEMMA MarkedTurned ==
  ASSUME NEW way, NEW cells, NEW a, Edited(a) \subseteq marked
  PROVE  Turned(way, Shown(cells), a) = Shown(cells)
BY DEF Turned, Shown

(* One step along a stack, with the action put on the other stack: what was *)
(* next is there, what was there is next on the other side, and everything  *)
(* can still be taken back.                                                 *)
LEMMA OneStep ==
  ASSUME NEW way \in {"undo", "redo"}, NEW cells, NEW S, NEW l \in Seq(S), NEW r \in Seq(S),
         NEW a \in S, Honest(way, cells, Append(l, a)), Honest(Other(way), cells, r)
  PROVE  LET next == Move(way, cells, a)
         IN  /\ Honest(way, next, l) /\ Honest(Other(way), next, Append(r, a))
             /\ Seen(way, cells, Append(l, a)) = Append(Seen(way, next, l), Shown(next))
             /\ Seen(Other(way), next, Append(r, a))
                  = Append(Seen(Other(way), cells, r), Shown(cells))
<1> DEFINE next == Move(way, cells, a)
           back == Move(Other(way), next, a)
<1>1. /\ Seen(way, cells, Append(l, a)) = Append(Seen(way, next, l), Shown(next))
      /\ Shown(back) = Shown(cells) /\ Honest(way, next, l)
  <2>1. /\ Seen(way, cells, Append(l, a))
              = Append(Seen(way, Move(way, cells, a), l), Shown(Move(way, cells, a)))
        /\ Honest(way, cells, Append(l, a)) <=>
              /\ Shown(Move(Other(way), Move(way, cells, a), a)) = Shown(cells)
              /\ Honest(way, Move(way, cells, a), l)
    BY SeenOneMore
  <2> QED
    BY <2>1
<1>2. Other(Other(way)) = way
  BY DEF Other
<1>3. /\ Seen(Other(way), next, Append(r, a)) = Append(Seen(Other(way), back, r), Shown(back))
      /\ Honest(Other(way), next, Append(r, a)) <=>
           /\ Shown(Move(way, back, a)) = Shown(next)
           /\ Honest(Other(way), back, r)
  <2> DEFINE other == Other(way)
  <2> HIDE DEF next, other
  <2>1. /\ Seen(other, next, Append(r, a))
              = Append(Seen(other, Move(other, next, a), r), Shown(Move(other, next, a)))
        /\ Honest(other, next, Append(r, a)) <=>
              /\ Shown(Move(Other(other), Move(other, next, a), a)) = Shown(next)
              /\ Honest(other, Move(other, next, a), r)
    BY SeenOneMore
  <2> QED
    BY <1>2, <2>1 DEF other
<1>4. Shown(Move(way, back, a)) = Shown(next)
  <2>1. /\ Shown(Move(way, back, a)) = Turned(way, Shown(back), a)
        /\ Shown(next) = Turned(way, Shown(cells), a)
    BY ShownMoved
  <2> HIDE DEF back, next
  <2> QED
    BY <1>1, <2>1
<1>5. /\ Seen(Other(way), back, r) = Seen(Other(way), cells, r)
      /\ Honest(Other(way), back, r)
  <2>1. Len(r) \in Nat
    BY LenProperties
  <2> HIDE DEF back, next
  <2> QED
    BY <1>1, <2>1, SeenShown
<1> HIDE DEF back, next
<1>6. /\ Honest(way, next, l) /\ Honest(Other(way), next, Append(r, a))
      /\ Seen(way, cells, Append(l, a)) = Append(Seen(way, next, l), Shown(next))
      /\ Seen(Other(way), next, Append(r, a))
           = Append(Seen(Other(way), cells, r), Shown(cells))
  BY <1>1, <1>3, <1>4, <1>5
<1> QED
  BY <1>6 DEF next

(* What is shown is a state of the line.                                    *)
LEMMA ShownType ==
  ASSUME CommandAssumption, TypeInv, NEW cells, CellsFine(cells)
  PROVE  Shown(cells) \in [Cell -> Typed]
<1>1. ASSUME NEW c \in Cell
      PROVE  (IF c \in cells.override \ marked THEN cells.value[c] ELSE Empty) \in Typed
  <2>1. cells.value[c] \in Content /\ (cells.value[c] = Computed => c \in RuleCell)
    BY DEF CellsFine
  <2>2. RuleCell \subseteq marked
    BY RuleCellMarked DEF TypeInv
  <2> QED
    BY <2>1, <2>2 DEF Content, Typed
<1> QED
  BY <1>1 DEF Shown

(* The cells before the command that is running.                            *)
LEMMA SettledIs ==
  ASSUME CommandAssumption, TypeInv
  PROVE  /\ group = {} => Settled = Cells
         /\ \A g : group = {g} => Settled = Undo(Cells, Concat(g))
         /\ group = {<<>>} => Settled = Cells
         /\ CellsFine(Settled)
<1>1. group = {} => Settled = Cells
  BY DEF Settled
<1>2. ASSUME NEW g, group = {g} PROVE Settled = Undo(Cells, Concat(g))
  BY <1>2, TheOne DEF Settled
<1>3. group = {<<>>} => Settled = Cells
  BY <1>2, ConcatNothing DEF Undo, Gone
<1>4. CellsFine(Settled)
  <2>1. CASE group = {}
    BY <1>1, <2>1 DEF TypeInv
  <2>2. ASSUME NEW g \in Seq(FineAction), group = {g} PROVE CellsFine(Settled)
    <3>1. Concat(g) \in FineAction
      BY ConcatType DEF FineAction
    <3>2. CellsFine(Undo(Cells, Concat(g)))
      BY <3>1, UndoFine DEF TypeInv
    <3> QED
      BY <1>2, <2>2, <3>2
  <2> QED
    BY <2>1, <2>2 DEF TypeInv
<1> QED
  BY <1>1, <1>2, <1>3, <1>4

(* What is seen along a stack is a sequence.                                *)
LEMMA SeenType ==
  ASSUME NEW way, NEW cells, NEW l, Len(l) \in Nat, NEW e
  PROVE  \E T : Seen(way, cells, l) \in Seq(T) /\ e \in T /\ Len(Seen(way, cells, l)) = Len(l)
<1> DEFINE n == Len(l)
           s == [i \in 1..n |-> Shown(At(way, cells, l)[n - i + 1])]
           T == {Shown(At(way, cells, l)[k]) : k \in 0..n} \cup {e}
<1>1. \A i \in 1..n : n - i + 1 \in 0..n
  OBVIOUS
<1>2. s \in [1..n -> T] /\ e \in T
  BY <1>1
<1>3. Seen(way, cells, l) = s
  BY DEF Seen
<1> HIDE DEF s, T
<1>4. s \in Seq(T) /\ Len(s) = n
  BY <1>2
<1> QED
  BY <1>2, <1>3, <1>4

(* The last and the rest of a sequence with one more.                       *)
LEMMA LastFrontMore ==
  ASSUME NEW T, NEW s \in Seq(T), NEW e \in T
  PROVE  Last(Append(s, e)) = e /\ Front(Append(s, e)) = s /\ Append(s, e) # <<>>
<1>1. Append(s, e) \in Seq(T) /\ Append(s, e) # <<>>
  BY AppendProperties
<1>2. /\ Last(Append(s, e)) \in T /\ Front(Append(s, e)) \in Seq(T)
      /\ Append(s, e) = Append(Front(Append(s, e)), Last(Append(s, e)))
  BY <1>1, LastFront
<1> DEFINE f == Front(Append(s, e))
           d == Last(Append(s, e))
<1> HIDE DEF f, d
<1>3. f \in Seq(T) /\ d \in T /\ Append(s, e) = Append(f, d)
  BY <1>2 DEF f, d
<1>4. f = s /\ d = e
  BY <1>3, AppendInjective
<1> QED
  BY <1>1, <1>4 DEF f, d

-----------------------------------------------------------------------------
(* One user.                                                                *)

(* Commands of one user take turns, and the open group is the one of the    *)
(* command that runs.                                                       *)
Turns ==
  /\ \A t, u \in Thread : ~Idle(t) /\ ~Idle(u) => t = u
  /\ group # {} <=> \E t \in Thread : ~Idle(t)
  /\ \A t \in Thread : ~Idle(t) /\ command[t].kind # "edit" => group = {<<>>}
  /\ \A g \in group : g # <<>> => Concat(g) # Gone

(* Both stacks together keep to the limit, and what is gone is older than   *)
(* what is not: redo would come to it later.                                *)
GoneFirst ==
  /\ Len(undo) + Len(redo) <= MaxHistory
  /\ \A i, k \in 1..Len(undo) : i < k /\ undo[k] = Gone => undo[i] = Gone
  /\ \A i, k \in 1..Len(redo) : i < k /\ redo[i] = Gone => redo[k] = Gone
  /\ \A i \in 1..Len(redo), k \in 1..Len(undo) : redo[i] = Gone => undo[k] = Gone

(* Every step along the stacks can be taken back, and the open group leads  *)
(* from the cells before the command to those there are.                    *)
Faithful ==
  /\ Honest("undo", Settled, Live(undo)) /\ Honest("redo", Settled, Live(redo))
  /\ \A g \in group : Shown(Do(Settled, Concat(g))) = Shown(Cells)

(* The invariant of LinearHistory, for one user.                            *)
UserInv == "threads" \notin setting => Turns /\ GoneFirst /\ Faithful

(* A step of a command changes no other command, nor its kind.              *)
LEMMA StepTurns ==
  ASSUME TypeInv, NEW t \in Thread, NEW kind \in Kind, Running(t, kind), StepTaken(t)
  PROVE  /\ ~Idle(t) /\ command[t].kind = kind
         /\ \A u \in Thread : /\ Idle(u)' <=> Idle(u)
                              /\ command'[u].kind = command[u].kind
<1>1. ~Idle(t) /\ command[t].kind = kind
  BY DEF Running, Idle, Nothing, Kind
<1>2. command[t] \in [kind : Kind, left : 0..MaxEdits(setting)]
  BY <1>1 DEF TypeInv, Idle
<1>3. PICK r : r = [command[t] EXCEPT !.left = command[t].left - 1]
  OBVIOUS
<1>4. command' = [command EXCEPT ![t] = r] /\ r.kind = kind
  BY <1>1, <1>2, <1>3 DEF StepTaken
<1>5. r # Nothing
  BY <1>4 DEF Nothing, Kind
<1>6. ASSUME NEW u \in Thread
      PROVE  (Idle(u)' <=> Idle(u)) /\ command'[u].kind = command[u].kind
  <2>1. command'[u] = IF u = t THEN r ELSE command[u]
    BY <1>4 DEF TypeInv
  <2> QED
    BY <1>1, <1>4, <1>5, <2>1 DEF Idle
<1> QED
  BY <1>1, <1>6

(* The group of a running command.                                          *)
LEMMA OpenGroup ==
  ASSUME TypeInv, Turns, NEW t \in Thread, ~Idle(t)
  PROVE  \E g \in Seq(FineAction) : group = {g}
BY DEF TypeInv, Turns

(* The end of a command leaves all threads idle.                            *)
LEMMA EndTurns ==
  ASSUME TypeInv, Turns, NEW t \in Thread, ~Idle(t), group' = {},
         command' = [command EXCEPT ![t] = Nothing]
  PROVE  Turns'
<1>1. \A u \in Thread : Idle(u)'
  <2> SUFFICES ASSUME NEW u \in Thread PROVE command'[u] = Nothing
    BY DEF Idle
  <2>1. command'[u] = IF u = t THEN Nothing ELSE command[u]
    BY DEF TypeInv
  <2> QED
    BY <2>1 DEF Turns, Idle
<1> QED
  BY <1>1 DEF Turns

(* A push into the group.                                                   *)
LEMMA PushTurns ==
  ASSUME TypeInv, Turns, NEW t \in Thread, Running(t, "edit"), StepTaken(t),
         NEW a \in FineAction, a # <<>>, PushAndDo(a)
  PROVE  /\ Turns'
         /\ \E g \in Seq(FineAction) : group = {g} /\ group' = {Append(g, a)}
         /\ UNCHANGED <<undo, redo>>
<1>1. /\ ~Idle(t) /\ command[t].kind = "edit"
      /\ \A u \in Thread : (Idle(u)' <=> Idle(u)) /\ command'[u].kind = command[u].kind
  BY StepTurns DEF Kind
<1>2. PICK g \in Seq(FineAction) : group = {g}
  BY <1>1, OpenGroup
<1>3. group' = {Append(g, a)} /\ UNCHANGED <<undo, redo>>
  BY <1>2, TheOne DEF PushAndDo
<1>4. Concat(Append(g, a)) # Gone
  <2>1. Concat(Append(g, a)) = Concat(g) \o a
    BY ConcatOneMore
  <2>2. Concat(g) \in Seq(FineEdit) /\ a \in Seq(FineEdit)
    BY ConcatType DEF FineAction
  <2>3. Concat(g) \o a # <<>>
    BY <2>2, ConcatEqualIffEmpty
  <2> QED
    BY <2>1, <2>3 DEF Gone
<1>5. Turns'
  <2>1. \A u, v \in Thread : ~Idle(u)' /\ ~Idle(v)' => u = v
    BY <1>1 DEF Turns
  <2>2. group' # {} /\ \E u \in Thread : ~Idle(u)'
    BY <1>1, <1>3
  <2>3. \A u \in Thread : ~Idle(u)' /\ command'[u].kind # "edit" => group' = {<<>>}
    BY <1>1 DEF Turns
  <2>4. \A h \in group' : Concat(h) # Gone
    BY <1>3, <1>4
  <2>5. (\A h \in group : h # <<>> => Concat(h) # Gone)'
    BY <2>4 DEF Concat
  <2> QED
    BY <2>1, <2>2, <2>3, <2>5 DEF Turns
<1> QED
  BY <1>2, <1>3, <1>5

(* Where the cells before the command will be.                              *)
LEMMA SettledNext ==
  ASSUME NEW c2, c2 = Cells'
  PROVE  /\ group' = {} => Settled' = c2
         /\ \A g : group' = {g} => Settled' = Undo(c2, Concat(g))
         /\ group' = {<<>>} => Settled' = c2
<1>1. Settled' = IF group' = {} THEN c2 ELSE Undo(c2, Concat(The(group')))
  BY DEF Settled
<1>2. ASSUME NEW g, group' = {g} PROVE Settled' = Undo(c2, Concat(g))
  <2>1. The(group') = g
    BY <1>2, TheOne
  <2> QED
    BY <1>1, <1>2, <2>1
<1>3. group' = {<<>>} => Settled' = c2
  BY <1>2, ConcatNothing DEF Undo, Gone
<1> QED
  BY <1>1, <1>2, <1>3

(* The rest of the invariant and the line after a step.                     *)
LEMMA Lands ==
  ASSUME marked' = marked, setting' = setting, "threads" \notin setting, TypeInv',
         NEW s, s = Settled', NEW c2, c2 = Cells',
         NEW u, u = Live(undo'), NEW r, r = Live(redo'),
         Honest("undo", s, u), Honest("redo", s, r),
         \A g \in group' : Shown(Do(s, Concat(g))) = Shown(c2)
  PROVE  Faithful' /\ TheLine' = LineOf(s, u, r)
<1>1. /\ Honest("undo", Settled, Live(undo))' /\ Honest("redo", Settled, Live(redo))'
  BY ShownStays
<1>2. (\A g \in group : Shown(Do(Settled, Concat(g))) = Shown(Cells))'
  <2>1. Shown(Cells)' = Shown(c2)
    BY DEF Shown
  <2>2. ASSUME NEW g PROVE Shown(Do(Settled, Concat(g)))' = Shown(Do(s, Concat(g)))
    BY DEF Shown
  <2> QED
    BY <2>1, <2>2
<1>3. TheLine' = LineOf(s, u, r)
  BY LineIsPrimed
<1> QED
  BY <1>1, <1>2, <1>3 DEF Faithful

(* A step that leaves the stacks and what is shown of the cells before the  *)
(* command leaves the line.                                                 *)
LEMMA LineStays ==
  ASSUME TypeInv, TypeInv', Faithful, UNCHANGED <<setting, marked, undo, redo>>,
         "threads" \notin setting,
         NEW s, s = Settled', NEW c2, c2 = Cells', Shown(s) = Shown(Settled),
         \A g \in group' : Shown(Do(s, Concat(g))) = Shown(c2)
  PROVE  Faithful' /\ TheLine' = TheLine
<1> DEFINE u == Live(undo)
           r == Live(redo)
<1>1. Len(u) \in Nat /\ Len(r) \in Nat
  BY LiveType DEF TypeInv
<1>2. Honest("undo", Settled, u) /\ Honest("redo", Settled, r)
  BY DEF Faithful
<1>3. TheLine = LineOf(Settled, u, r)
  BY LineIs
<1>4. u = Live(undo') /\ r = Live(redo')
  OBVIOUS
<1> HIDE DEF u, r
<1>5. /\ Honest("undo", s, u) /\ Honest("redo", s, r)
      /\ Seen("undo", s, u) = Seen("undo", Settled, u)
      /\ Seen("redo", s, r) = Seen("redo", Settled, r)
  BY <1>1, <1>2, SeenShown
<1>6. Faithful' /\ TheLine' = LineOf(s, u, r)
  BY <1>4, <1>5, Lands
<1> QED
  BY <1>3, <1>5, <1>6 DEF LineOf

-----------------------------------------------------------------------------
(* The steps of one user.                                                   *)

(* What a step of one user keeps, and what it does to the line.             *)
UserStep ==
  /\ Turns' /\ GoneFirst' /\ Faithful'
  /\ Line!Next \/ TheLine' = TheLine

(* What a step of one user starts from.                                     *)
OneUser == TypeInv /\ "threads" \notin setting /\ Turns /\ GoneFirst /\ Faithful

(* Stacks that do not change.                                               *)
LEMMA SameGone ==
  ASSUME GoneFirst, UNCHANGED <<undo, redo>>
  PROVE  GoneFirst'
BY DEF GoneFirst

(* The next states of the line.                                             *)
LEMMA LineSteps ==
  ASSUME TheLine' \in Line!Change(TheLine) \cup Line!Undo(TheLine) \cup Line!Redo(TheLine)
                        \cup Line!Replace(TheLine)
  PROVE  Line!Next
BY DEF Line!Next, TheLine

(* The value of a rule is not shown.                                        *)
LEMMA EvaluateUser ==
  ASSUME CommandAssumption, OneUser, TypeInv', NEW c \in Cell, Evaluate(c)
  PROVE  UserStep
<1>1. /\ c \in RuleCell \ override /\ value' = [value EXCEPT ![c] = Computed]
      /\ UNCHANGED <<setting, marked, override, undo, redo, group, command>>
  BY DEF Evaluate
<1>2. Turns' /\ GoneFirst'
  BY <1>1, SameGone DEF OneUser, Turns, Idle
<1>3. PICK c2 : c2 = Cells'
  OBVIOUS
<1>4. PICK s : s = Settled'
  OBVIOUS
<1>5. Shown(c2) = Shown(Cells)
  <2>1. c2.override = override /\ \A d \in override : c2.value[d] = value[d]
    <3>1. value \in [Cell -> Content] /\ override \subseteq Cell
      BY DEF OneUser, TypeInv, CellsFine, Cells
    <3>2. c2 = [value |-> [value EXCEPT ![c] = Computed], override |-> override]
      BY <1>1, <1>3 DEF Cells
    <3> QED
      BY <1>1, <3>1, <3>2
  <2> QED
    BY <2>1 DEF Shown, Cells
<1>6. Shown(s) = Shown(Settled) /\ \A g \in group' : Shown(Do(s, Concat(g))) = Shown(c2)
  <2>1. CASE group = {}
    BY <1>1, <1>3, <1>4, <1>5, <2>1, SettledIs, SettledNext DEF OneUser
  <2>2. ASSUME NEW g, group = {g}
        PROVE  Shown(s) = Shown(Settled) /\ Shown(Do(s, Concat(g))) = Shown(c2)
    <3>1. Settled = Undo(Cells, Concat(g)) /\ s = Undo(c2, Concat(g))
      BY <1>1, <1>3, <1>4, <2>2, SettledIs, SettledNext DEF OneUser
    <3> DEFINE a == Concat(g)
    <3> HIDE DEF a
    <3>2. Settled = Move("undo", Cells, a) /\ s = Move("undo", c2, a)
      BY <3>1 DEF Move, a
    <3>3. Shown(s) = Shown(Settled)
      BY <1>5, <3>2, ShownMoved
    <3>4. Shown(Do(Settled, a)) = Shown(Cells)
      BY <2>2 DEF OneUser, Faithful, a
    <3>5. Shown(Do(Settled, a)) = Turned("redo", Shown(Settled), a)
          /\ Shown(Do(s, a)) = Turned("redo", Shown(s), a)
      <4>1. Do(Settled, a) = Move("redo", Settled, a) /\ Do(s, a) = Move("redo", s, a)
        BY DEF Move
      <4> QED
        BY <4>1, ShownMoved
    <3> QED
      BY <1>5, <3>3, <3>4, <3>5 DEF a
  <2> QED
    BY <1>1, <2>1, <2>2 DEF OneUser, TypeInv
<1>7. Faithful' /\ TheLine' = TheLine
  BY <1>1, <1>3, <1>4, <1>6, LineStays DEF OneUser
<1> QED
  BY <1>2, <1>7 DEF UserStep

(* The start of a command changes nothing.                                  *)
LEMMA BeginUser ==
  ASSUME CommandAssumption, OneUser, TypeInv', NEW t \in Thread, NEW kind \in Kind, Begin(t, kind)
  PROVE  UserStep
<1>1. /\ group' = {<<>>} /\ UNCHANGED <<setting, marked, cellVars, undo, redo>>
      /\ command' = [command EXCEPT ![t] =
           [kind |-> kind, left |-> IF kind = "edit" THEN MaxEdits(setting) ELSE 1]]
      /\ \A u \in Thread : Idle(u)
  BY DEF Begin, OneUser, May
<1>2. group = {}
  BY <1>1 DEF OneUser, Turns
<1>3. Turns'
  <2>1. ASSUME NEW u \in Thread PROVE ~Idle(u)' <=> u = t
    <3>1. command'[u] = IF u = t
                        THEN [kind |-> kind, left |-> IF kind = "edit" THEN MaxEdits(setting) ELSE 1]
                        ELSE command[u]
      BY <1>1 DEF OneUser, TypeInv
    <3>2. [kind |-> kind, left |-> IF kind = "edit" THEN MaxEdits(setting) ELSE 1] # Nothing
      BY DEF Nothing, Kind
    <3> QED
      BY <1>1, <3>1, <3>2 DEF Idle
  <2>2. group' = {<<>>}
    BY <1>1
  <2> QED
    BY <2>1, <2>2 DEF Turns
<1>4. GoneFirst'
  BY <1>1, SameGone DEF OneUser
<1>5. PICK c2 : c2 = Cells'
  OBVIOUS
<1>6. PICK s : s = Settled'
  OBVIOUS
<1>7. c2 = Cells /\ s = Cells /\ Settled = Cells
  BY <1>1, <1>2, <1>5, <1>6, SettledIs, SettledNext DEF OneUser, Cells, cellVars
<1>8. \A g \in group' : Shown(Do(s, Concat(g))) = Shown(c2)
  BY <1>1, <1>7, ConcatNothing DEF Do, Gone
<1>9. Faithful' /\ TheLine' = TheLine
  BY <1>1, <1>5, <1>6, <1>7, <1>8, LineStays DEF OneUser
<1> QED
  BY <1>3, <1>4, <1>9 DEF UserStep

(* A push.                                                                  *)
LEMMA PushUser ==
  ASSUME CommandAssumption, OneUser, TypeInv', UNCHANGED <<setting, marked>>,
         NEW t \in Thread, Running(t, "edit"), StepTaken(t),
         NEW a \in FineAction, a # <<>>, Fresh(a), PushAndDo(a)
  PROVE  UserStep
<1>1. /\ Turns' /\ UNCHANGED <<undo, redo>>
      /\ \E g \in Seq(FineAction) : group = {g} /\ group' = {Append(g, a)}
  BY PushTurns DEF OneUser
<1>2. PICK g \in Seq(FineAction) : group = {g} /\ group' = {Append(g, a)}
  BY <1>1
<1>3. GoneFirst'
  BY <1>1, SameGone DEF OneUser
<1>4. PICK c2 : c2 = Cells'
  OBVIOUS
<1>5. PICK s : s = Settled'
  OBVIOUS
<1> DEFINE b == Concat(g)
<1>6. Concat(Append(g, a)) = b \o a /\ b \in Seq(FineEdit) /\ a \in Seq(FineEdit)
  BY ConcatOneMore, ConcatType DEF FineAction
<1>7. c2 = Do(Cells, a)
  <2>1. Do(Cells, a) = [value |-> Do(Cells, a).value, override |-> Do(Cells, a).override]
    BY DEF Cells, Do, Written
  <2>2. Become(Do(Cells, a))
    BY DEF PushAndDo
  <2>3. Cells' = Do(Cells, a)
    BY <2>1, <2>2 DEF Become, Cells
  <2> QED
    BY <1>4, <2>3
<1>8. Settled = Undo(Cells, b)
  BY <1>2, SettledIs DEF OneUser
<1>9. s = Undo(c2, b \o a)
  BY <1>2, <1>4, <1>5, <1>6, SettledNext
<1>10. Shown(Do(Settled, b)) = Shown(Cells)
  BY <1>2 DEF OneUser, Faithful
<1>11. Turned("undo", Turned("redo", Shown(Cells), a), a) = Shown(Cells)
  BY FreshUndone DEF OneUser
<1> HIDE DEF b
<1>12. /\ Shown(c2) = Turned("redo", Shown(Cells), a)
       /\ Shown(Settled) = Turned("undo", Shown(Cells), b)
       /\ Shown(s) = Turned("undo", Shown(c2), b \o a)
       /\ Turned("redo", Shown(Settled), b) = Shown(Cells)
       /\ Shown(Do(s, b \o a)) = Turned("redo", Shown(s), b \o a)
  <2>1. /\ c2 = Move("redo", Cells, a) /\ Settled = Move("undo", Cells, b)
        /\ s = Move("undo", c2, b \o a) /\ Do(Settled, b) = Move("redo", Settled, b)
        /\ Do(s, b \o a) = Move("redo", s, b \o a)
    BY <1>7, <1>8, <1>9 DEF Move
  <2> QED
    BY <1>10, <2>1, ShownMoved
<1>13. Shown(s) = Shown(Settled)
  <2>1. Turned("undo", Shown(c2), b \o a) = Turned("undo", Turned("undo", Shown(c2), a), b)
    BY <1>6, TurnedTwice
  <2> QED
    BY <1>11, <1>12, <2>1
<1>14. Shown(Do(s, b \o a)) = Shown(c2)
  <2>1. Turned("redo", Shown(Settled), b \o a)
          = Turned("redo", Turned("redo", Shown(Settled), b), a)
    BY <1>6, TurnedTwice
  <2> QED
    BY <1>12, <1>13, <2>1
<1>15. \A h \in group' : Shown(Do(s, Concat(h))) = Shown(c2)
  BY <1>2, <1>6, <1>14
<1>16. Faithful' /\ TheLine' = TheLine
  BY <1>1, <1>4, <1>5, <1>13, <1>15, LineStays DEF OneUser
<1> QED
  BY <1>1, <1>3, <1>16 DEF UserStep

(* An edit of a cell.                                                       *)
LEMMA SetCellUser ==
  ASSUME CommandAssumption, OneUser, TypeInv', NEW t \in Thread, NEW c \in Cell, NEW v \in Typed,
         SetCell(t, c, v)
  PROVE  UserStep
<1>1. /\ Running(t, "edit") /\ PushAndDo(<<EditOf(c, v)>>) /\ StepTaken(t)
      /\ UNCHANGED <<setting, marked>>
  BY DEF SetCell
<1> DEFINE a == <<EditOf(c, v)>>
<1>2. a \in FineAction /\ a # <<>>
  BY EditOfFine DEF FineAction, OneUser
<1>3. Fresh(a)
  BY DEF Fresh, EditOf
<1> HIDE DEF a
<1>4. PushAndDo(a)
  BY <1>1 DEF a
<1> QED
  BY <1>1, <1>2, <1>3, <1>4, PushUser

(* Concatenated actions are fresh if each is.                               *)
LEMMA FreshTwo ==
  ASSUME NEW p \in FineAction, NEW q \in FineAction, Fresh(p), Fresh(q)
  PROVE  Fresh(p \o q)
<1>1. /\ Len(p) \in Nat /\ Len(q) \in Nat /\ Len(p \o q) = Len(p) + Len(q)
      /\ \A i \in 1..Len(p) + Len(q) : (p \o q)[i] = IF i <= Len(p) THEN p[i] ELSE q[i - Len(p)]
  BY ConcatProperties, LenProperties DEF FineAction
<1>2. ASSUME NEW i \in 1..Len(p) + Len(q)
      PROVE  (p \o q)[i].before = value[(p \o q)[i].cell]
  <2>1. CASE i <= Len(p)
    <3>1. i \in 1..Len(p) /\ (p \o q)[i] = p[i]
      BY <1>1, <2>1
    <3> QED
      BY <3>1 DEF Fresh
  <2>2. CASE ~(i <= Len(p))
    <3>1. i - Len(p) \in 1..Len(q) /\ (p \o q)[i] = q[i - Len(p)]
      BY <1>1, <2>2
    <3> QED
      BY <3>1 DEF Fresh
  <2> QED
    BY <2>1, <2>2
<1> QED
  BY <1>1, <1>2 DEF Fresh

(* An edit of several cells.                                                *)
LEMMA SetCellsUser ==
  ASSUME CommandAssumption, OneUser, TypeInv', NEW t \in Thread, NEW e1 \in Entry, NEW e2 \in Entry,
         SetCells(t, <<e1, e2>>)
  PROVE  UserStep
<1> DEFINE Changes(e) == value[e[1]] # e[2] \/ e[1] \notin override
           entries == <<e1, e2>>
           Part(e) == IF Changes(e) THEN <<EditOf(e[1], e[2])>> ELSE <<>>
           parts == [i \in DOMAIN entries |-> Part(entries[i])]
           edits == Concat(parts)
<1>1. /\ Running(t, "edit") /\ PushAndDo(edits) /\ StepTaken(t) /\ edits # <<>>
      /\ UNCHANGED <<setting, marked>>
  BY DEF SetCells
<1>2. ASSUME NEW e \in Entry PROVE Part(e) \in FineAction /\ Fresh(Part(e))
  <2>1. e[1] \in Cell /\ e[2] \in Typed
    BY DEF Entry, Typed
  <2>2. EditOf(e[1], e[2]) \in FineEdit
    BY <2>1, EditOfFine DEF OneUser
  <2>3. <<>> \in FineAction /\ Len(<<>>) = 0
    BY EmptySeq DEF FineAction
  <2> QED
    BY <2>2, <2>3 DEF Fresh, EditOf, FineAction
<1>3. parts = Append(Append(<<>>, Part(e1)), Part(e2))
  <2>1. DOMAIN entries = 1..2 /\ entries[1] = e1 /\ entries[2] = e2
    OBVIOUS
  <2>2. parts = <<Part(e1), Part(e2)>>
    <3> HIDE DEF Part
    <3> QED
      BY <2>1
  <2> HIDE DEF Part, parts
  <2> QED
    BY <2>2
<1> HIDE DEF Part, parts
<1>4. edits = (<<>> \o Part(e1)) \o Part(e2)
  <2>1. /\ <<>> \in Seq(FineAction) /\ Part(e1) \in FineAction /\ Part(e2) \in FineAction
        /\ Append(<<>>, Part(e1)) \in Seq(FineAction)
    BY <1>2, EmptySeq, AppendProperties
  <2>2. Concat(Append(<<>>, Part(e1))) = Concat(<<>>) \o Part(e1)
    BY <2>1, ConcatOneMore
  <2>3. Concat(Append(Append(<<>>, Part(e1)), Part(e2)))
          = Concat(Append(<<>>, Part(e1))) \o Part(e2)
    BY <2>1, ConcatOneMore
  <2> QED
    BY <1>3, <2>2, <2>3, ConcatNothing
<1>5. edits = Part(e1) \o Part(e2)
  <2>1. <<>> \o Part(e1) = Part(e1)
    BY <1>2, ConcatEmptySeq DEF FineAction
  <2> QED
    BY <1>4, <2>1
<1>6. edits \in FineAction /\ Fresh(edits)
  <2>1. Part(e1) \o Part(e2) \in FineAction
    BY <1>2, ConcatProperties DEF FineAction
  <2> QED
    BY <1>2, <1>5, <2>1, FreshTwo
<1> HIDE DEF edits
<1> QED
  BY <1>1, <1>6, PushUser

(* The rest of the invariant when a command takes a step that does not      *)
(* change the open group.                                                   *)
LEMMA SameGroupTurns ==
  ASSUME TypeInv, Turns, NEW t \in Thread, NEW kind \in Kind, Running(t, kind), StepTaken(t),
         group' = group
  PROVE  Turns'
<1>1. \A u \in Thread : (Idle(u)' <=> Idle(u)) /\ command'[u].kind = command[u].kind
  BY StepTurns
<1>2. (\A g \in group : g # <<>> => Concat(g) # Gone)'
  BY DEF Turns, Concat
<1> QED
  BY <1>1, <1>2 DEF Turns

(* A command that does not edit runs in an empty group.                     *)
LEMMA EmptyGroup ==
  ASSUME CommandAssumption, OneUser, NEW t \in Thread, NEW kind \in Kind, Running(t, kind),
         kind # "edit"
  PROVE  ~Idle(t) /\ group = {<<>>} /\ Settled = Cells
<1>1. ~Idle(t) /\ command[t].kind = kind
  BY DEF Running, Idle, Nothing, Kind
<1>2. group = {<<>>}
  BY <1>1 DEF OneUser, Turns
<1> QED
  BY <1>1, <1>2, SettledIs DEF OneUser

(* An action moves from one stack to the other: what is where.              *)
LEMMA MovedPlaces ==
  ASSUME CommandAssumption, NEW S, NEW s \in Seq(S), NEW r \in Seq(S), s # <<>>,
         Len(s) + Len(r) <= MaxHistory
  PROVE  /\ Len(Front(s)) + Len(Append(r, Last(s))) <= MaxHistory
         /\ Last(s) = s[Len(s)]
         /\ Len(s) \in Nat /\ Len(r) \in Nat
         /\ Len(Front(s)) = Len(s) - 1 /\ Len(s) \in 1..Len(s)
         /\ \A i \in 1..Len(s) - 1 : Front(s)[i] = s[i]
         /\ Len(Append(r, Last(s))) = Len(r) + 1
         /\ \A i \in 1..Len(r) : Append(r, Last(s))[i] = r[i]
         /\ Append(r, Last(s))[Len(r) + 1] = Last(s)
<1> DEFINE f == Front(s)
           a == Last(s)
<1>1. /\ a \in S /\ f \in Seq(S) /\ Len(f) = Len(s) - 1 /\ Len(s) \in Nat /\ Len(s) # 0
      /\ s = Append(f, a)
  BY LastFront
<1>2. a = s[Len(s)]
  BY DEF Last
<1> HIDE DEF f, a
<1>3. /\ Len(r) \in Nat /\ Len(Append(r, a)) = Len(r) + 1
      /\ \A i \in 1..Len(r) : Append(r, a)[i] = r[i]
      /\ Append(r, a)[Len(r) + 1] = a
  BY <1>1, AppendProperties, LenProperties
<1>4. Len(f) + Len(Append(r, a)) <= MaxHistory
  BY <1>1, <1>3 DEF CommandAssumption
<1>5. \A i \in 1..Len(s) - 1 : f[i] = s[i]
  <2>1. \A i \in 1..Len(f) : Append(f, a)[i] = f[i]
    BY <1>1, AppendProperties
  <2> QED
    BY <1>1, <2>1
<1>6. Len(s) \in 1..Len(s)
  BY <1>1
<1> QED
  BY <1>1, <1>2, <1>3, <1>4, <1>5, <1>6 DEF f, a

(* And what is live.                                                        *)
LEMMA MovedLive ==
  ASSUME CommandAssumption, NEW S, NEW s \in Seq(S), NEW r \in Seq(S), s # <<>>,
         Len(s) + Len(r) <= MaxHistory
  PROVE  /\ Latest(Append(r, Last(s))) = Append(r, Last(s))
         /\ Live(s) = IF Last(s) = Gone THEN Live(Front(s)) ELSE Append(Live(Front(s)), Last(s))
         /\ Live(Append(r, Last(s))) = IF Last(s) = Gone THEN Live(r) ELSE Append(Live(r), Last(s))
         /\ Last(s) \in S /\ Front(s) \in Seq(S)
<1> DEFINE f == Front(s)
           a == Last(s)
<1>1. /\ a \in S /\ f \in Seq(S) /\ Len(f) = Len(s) - 1 /\ Len(s) \in Nat /\ Len(s) # 0
      /\ s = Append(f, a)
  BY LastFront
<1> HIDE DEF f, a
<1>2. Len(r) \in Nat /\ Len(Append(r, a)) = Len(r) + 1
  BY <1>1, AppendProperties, LenProperties
<1>3. Latest(Append(r, a)) = Append(r, a)
  BY <1>1, <1>2 DEF Latest, CommandAssumption
<1>4. Live(s) = IF a = Gone THEN Live(f) ELSE Append(Live(f), a)
  BY <1>1, LiveOneMore
<1>5. Live(Append(r, a)) = IF a = Gone THEN Live(r) ELSE Append(Live(r), a)
  BY <1>1, LiveOneMore
<1> QED
  BY <1>1, <1>3, <1>4, <1>5 DEF f, a

(* Undo keeps what is gone behind what is not.                              *)
LEMMA UndoGone ==
  ASSUME CommandAssumption, TypeInv, GoneFirst, undo # <<>>,
         undo' = Front(undo), redo' = Append(redo, Last(undo))
  PROVE  GoneFirst'
<1> DEFINE m == Len(undo)
           n == Len(redo)
           a == Last(undo)
<1>1. /\ m \in Nat /\ n \in Nat /\ a = undo[m] /\ m \in 1..m
      /\ Len(undo') = m - 1 /\ Len(redo') = n + 1 /\ Len(undo') + Len(redo') <= MaxHistory
      /\ \A i \in 1..m - 1 : undo'[i] = undo[i]
      /\ \A i \in 1..n : redo'[i] = redo[i]
      /\ redo'[n + 1] = a
  <2> DEFINE p == undo
             q == redo
  <2>1. p \in Seq(FineAction) /\ q \in Seq(FineAction) /\ p # <<>> /\ Len(p) + Len(q) <= MaxHistory
    <3>1. Len(undo) \in Nat /\ Len(redo) \in Nat
      BY LenProperties DEF TypeInv
    <3> QED
      BY <3>1 DEF TypeInv, GoneFirst
  <2> HIDE DEF p, q
  <2>2. /\ Len(Front(p)) + Len(Append(q, Last(p))) <= MaxHistory
        /\ Last(p) = p[Len(p)]
        /\ Len(p) \in Nat /\ Len(q) \in Nat
        /\ Len(Front(p)) = Len(p) - 1 /\ Len(p) \in 1..Len(p)
        /\ \A i \in 1..Len(p) - 1 : Front(p)[i] = p[i]
        /\ Len(Append(q, Last(p))) = Len(q) + 1
        /\ \A i \in 1..Len(q) : Append(q, Last(p))[i] = q[i]
        /\ Append(q, Last(p))[Len(q) + 1] = Last(p)
    BY <2>1, MovedPlaces
  <2>3. undo = p /\ redo = q /\ undo' = Front(p) /\ redo' = Append(q, Last(p))
    BY DEF p, q
  <2> QED
    BY <2>2, <2>3
<1>2. /\ \A i, k \in 1..m : i < k /\ undo[k] = Gone => undo[i] = Gone
      /\ \A i, k \in 1..n : i < k /\ redo[i] = Gone => redo[k] = Gone
      /\ \A i \in 1..n, k \in 1..m : redo[i] = Gone => undo[k] = Gone
  BY DEF GoneFirst
<1> HIDE DEF m, n, a
<1>3. \A i \in 1..m - 1 : i \in 1..m /\ i < m
  BY <1>1
<1>4. \A i \in 1..n + 1 : i = n + 1 \/ i \in 1..n
  BY <1>1
<1>5. \A i, k \in 1..m - 1 : i < k /\ undo'[k] = Gone => undo'[i] = Gone
  BY <1>1, <1>2, <1>3
<1>6. \A i, k \in 1..n + 1 : i < k /\ redo'[i] = Gone => redo'[k] = Gone
  <2> SUFFICES ASSUME NEW i \in 1..n + 1, NEW k \in 1..n + 1, i < k, redo'[i] = Gone
               PROVE  redo'[k] = Gone
    OBVIOUS
  <2>1. i \in 1..n /\ redo[i] = Gone
    BY <1>1, <1>4
  <2>2. CASE k = n + 1
    BY <1>1, <1>2, <2>1, <2>2
  <2>3. CASE k \in 1..n
    BY <1>1, <1>2, <2>1, <2>3
  <2> QED
    BY <1>4, <2>2, <2>3
<1>7. \A i \in 1..n + 1, k \in 1..m - 1 : redo'[i] = Gone => undo'[k] = Gone
  <2> SUFFICES ASSUME NEW i \in 1..n + 1, NEW k \in 1..m - 1, redo'[i] = Gone
               PROVE  undo[k] = Gone
    BY <1>1
  <2>1. CASE i = n + 1
    BY <1>1, <1>2, <1>3, <2>1
  <2>2. CASE i \in 1..n
    BY <1>1, <1>2, <1>3, <2>2
  <2> QED
    BY <1>4, <2>1, <2>2
<1> QED
  BY <1>1, <1>5, <1>6, <1>7 DEF GoneFirst

(* And so does redo.                                                        *)
LEMMA RedoGone ==
  ASSUME CommandAssumption, TypeInv, GoneFirst, redo # <<>>,
         redo' = Front(redo), undo' = Append(undo, Last(redo))
  PROVE  GoneFirst'
<1> DEFINE m == Len(undo)
           n == Len(redo)
           a == Last(redo)
<1>1. /\ m \in Nat /\ n \in Nat /\ a = redo[n] /\ n \in 1..n
      /\ Len(undo') = m + 1 /\ Len(redo') = n - 1 /\ Len(undo') + Len(redo') <= MaxHistory
      /\ \A i \in 1..n - 1 : redo'[i] = redo[i]
      /\ \A i \in 1..m : undo'[i] = undo[i]
      /\ undo'[m + 1] = a
  <2> DEFINE p == redo
             q == undo
  <2>1. p \in Seq(FineAction) /\ q \in Seq(FineAction) /\ p # <<>> /\ Len(p) + Len(q) <= MaxHistory
    <3>1. Len(undo) \in Nat /\ Len(redo) \in Nat
      BY LenProperties DEF TypeInv
    <3> QED
      BY <3>1 DEF TypeInv, GoneFirst
  <2> HIDE DEF p, q
  <2>2. /\ Len(Front(p)) + Len(Append(q, Last(p))) <= MaxHistory
        /\ Last(p) = p[Len(p)]
        /\ Len(p) \in Nat /\ Len(q) \in Nat
        /\ Len(Front(p)) = Len(p) - 1 /\ Len(p) \in 1..Len(p)
        /\ \A i \in 1..Len(p) - 1 : Front(p)[i] = p[i]
        /\ Len(Append(q, Last(p))) = Len(q) + 1
        /\ \A i \in 1..Len(q) : Append(q, Last(p))[i] = q[i]
        /\ Append(q, Last(p))[Len(q) + 1] = Last(p)
    BY <2>1, MovedPlaces
  <2>3. redo = p /\ undo = q /\ redo' = Front(p) /\ undo' = Append(q, Last(p))
    BY DEF p, q
  <2>4. Len(undo') + Len(redo') = Len(redo') + Len(undo')
    BY <2>2, <2>3
  <2> QED
    BY <2>2, <2>3, <2>4
<1>2. /\ \A i, k \in 1..m : i < k /\ undo[k] = Gone => undo[i] = Gone
      /\ \A i, k \in 1..n : i < k /\ redo[i] = Gone => redo[k] = Gone
      /\ \A i \in 1..n, k \in 1..m : redo[i] = Gone => undo[k] = Gone
  BY DEF GoneFirst
<1> HIDE DEF m, n, a
<1>3. \A i \in 1..n - 1 : i \in 1..n /\ i < n
  BY <1>1
<1>4. \A i \in 1..m + 1 : i = m + 1 \/ i \in 1..m
  BY <1>1
<1>5. \A i, k \in 1..n - 1 : i < k /\ redo'[i] = Gone => redo'[k] = Gone
  BY <1>1, <1>2, <1>3
<1>6. \A i, k \in 1..m + 1 : i < k /\ undo'[k] = Gone => undo'[i] = Gone
  <2> SUFFICES ASSUME NEW i \in 1..m + 1, NEW k \in 1..m + 1, i < k, undo'[k] = Gone
               PROVE  undo'[i] = Gone
    OBVIOUS
  <2>1. i \in 1..m
    BY <1>1, <1>4
  <2>2. CASE k = m + 1
    BY <1>1, <1>2, <2>1, <2>2
  <2>3. CASE k \in 1..m
    BY <1>1, <1>2, <2>1, <2>3
  <2> QED
    BY <1>4, <2>2, <2>3
<1>7. \A i \in 1..n - 1, k \in 1..m + 1 : redo'[i] = Gone => undo'[k] = Gone
  <2> SUFFICES ASSUME NEW i \in 1..n - 1, NEW k \in 1..m + 1, redo'[i] = Gone
               PROVE  undo'[k] = Gone
    OBVIOUS
  <2>1. redo[i] = Gone /\ i \in 1..n /\ i < n
    BY <1>1, <1>3
  <2>2. CASE k = m + 1
    BY <1>1, <1>2, <2>1, <2>2
  <2>3. CASE k \in 1..m
    BY <1>1, <1>2, <2>1, <2>3
  <2> QED
    BY <1>4, <2>2, <2>3
<1> QED
  BY <1>1, <1>5, <1>6, <1>7 DEF GoneFirst

(* Undo moves the cursor back by one state, or finds nothing to undo.       *)
LEMMA RunUndoUser ==
  ASSUME CommandAssumption, OneUser, TypeInv', NEW t \in Thread, RunUndo(t)
  PROVE  UserStep
<1>1. Running(t, "undo") /\ StepTaken(t) /\ UNCHANGED <<setting, marked, group>> /\ "undo" \in Kind
  BY DEF RunUndo, Kind
<1>2. ~Idle(t) /\ group = {<<>>} /\ Settled = Cells
  BY <1>1, EmptyGroup
<1>3. Turns'
  BY <1>1, SameGroupTurns DEF OneUser
<1>4. PICK c2 : c2 = Cells'
  OBVIOUS
<1>5. Settled' = c2
  BY <1>1, <1>2, <1>4, SettledNext
<1>6. \A g \in group' : Shown(Do(c2, Concat(g))) = Shown(c2)
  BY <1>1, <1>2, ConcatNothing DEF Do, Gone
<1>7. CASE undo = <<>>
  <2>1. UNCHANGED <<cellVars, undo, redo>>
    BY <1>7 DEF RunUndo, cellVars
  <2>2. GoneFirst'
    BY <2>1, SameGone DEF OneUser
  <2>3. c2 = Cells
    BY <1>4, <2>1 DEF Cells, cellVars
  <2>4. Faithful' /\ TheLine' = TheLine
    BY <1>1, <1>2, <1>4, <1>5, <1>6, <2>1, <2>3, LineStays DEF OneUser
  <2> QED
    BY <1>3, <2>2, <2>4 DEF UserStep
<1>8. CASE undo # <<>>
  <2> DEFINE a == Last(undo)
             f == Front(undo)
             L == Live(f)
             R == Live(redo)
  <2>1. Become(Undo(Cells, a)) /\ undo' = f /\ redo' = Latest(Append(redo, a))
    BY <1>8 DEF RunUndo
  <2>2. /\ Latest(Append(redo, a)) = Append(redo, a)
        /\ Live(undo) = IF a = Gone THEN L ELSE Append(L, a)
        /\ Live(Append(redo, a)) = IF a = Gone THEN R ELSE Append(R, a)
        /\ a \in FineAction /\ f \in Seq(FineAction)
    <3>1. /\ undo \in Seq(FineAction) /\ redo \in Seq(FineAction)
          /\ Len(undo) + Len(redo) <= MaxHistory
      BY DEF OneUser, TypeInv, GoneFirst
    <3>2. /\ Latest(Append(redo, Last(undo))) = Append(redo, Last(undo))
          /\ Live(undo) = IF Last(undo) = Gone THEN Live(Front(undo))
                         ELSE Append(Live(Front(undo)), Last(undo))
          /\ Live(Append(redo, Last(undo))) = IF Last(undo) = Gone THEN Live(redo)
                                             ELSE Append(Live(redo), Last(undo))
          /\ Last(undo) \in FineAction /\ Front(undo) \in Seq(FineAction)
      BY <1>8, <3>1, MovedLive
    <3> QED
      BY <3>2
  <2>3. GoneFirst'
    BY <1>8, <2>1, <2>2, UndoGone DEF OneUser
  <2>4. c2 = Move("undo", Cells, a)
    <3>1. Undo(Cells, a) = [value |-> Undo(Cells, a).value, override |-> Undo(Cells, a).override]
      BY DEF Cells, Undo, Written
    <3> QED
      BY <1>4, <2>1, <3>1 DEF Become, Cells, Move
  <2>5. L \in Seq(FineAction) /\ R \in Seq(FineAction) /\ Len(L) \in Nat /\ Len(R) \in Nat
    BY <2>2, LiveType DEF OneUser, TypeInv
  <2>6. Honest("undo", Cells, Live(undo)) /\ Honest("redo", Cells, R)
    BY <1>2 DEF OneUser, Faithful
  <2>7. TheLine = LineOf(Cells, Live(undo), R)
    BY <1>2, LineIs DEF OneUser
  <2>8. Live(undo') = L /\ Live(redo') = IF a = Gone THEN R ELSE Append(R, a)
    BY <2>1, <2>2
  <2> HIDE DEF a, f, L, R
  <2>9. CASE a = Gone
    <3>1. c2 = Cells
      BY <2>4, <2>9 DEF Move, Undo
    <3>2. Live(undo') = L /\ Live(redo') = R /\ Live(undo) = L
      BY <2>2, <2>8, <2>9
    <3>3. Faithful' /\ TheLine' = LineOf(c2, L, R)
      BY <1>1, <1>4, <1>5, <1>6, <2>6, <3>1, <3>2, Lands DEF OneUser
    <3>4. TheLine' = TheLine
      BY <2>7, <3>1, <3>2, <3>3
    <3> QED
      BY <1>3, <2>3, <3>3, <3>4 DEF UserStep
  <2>10. CASE a # Gone
    <3>1. Live(undo) = Append(L, a) /\ Live(undo') = L /\ Live(redo') = Append(R, a)
      BY <2>2, <2>8, <2>10
    <3>2. /\ Honest("undo", c2, L) /\ Honest("redo", c2, Append(R, a))
          /\ Seen("undo", Cells, Append(L, a)) = Append(Seen("undo", c2, L), Shown(c2))
          /\ Seen("redo", c2, Append(R, a)) = Append(Seen("redo", Cells, R), Shown(Cells))
      <4>1. Other("undo") = "redo"
        BY DEF Other
      <4>2. Honest("undo", Cells, Append(L, a)) /\ Honest(Other("undo"), Cells, R)
        BY <2>6, <3>1, <4>1
      <4>3. LET next == Move("undo", Cells, a)
            IN  /\ Honest("undo", next, L) /\ Honest(Other("undo"), next, Append(R, a))
                /\ Seen("undo", Cells, Append(L, a)) = Append(Seen("undo", next, L), Shown(next))
                /\ Seen(Other("undo"), next, Append(R, a))
                     = Append(Seen(Other("undo"), Cells, R), Shown(Cells))
        BY <2>2, <2>5, <4>2, OneStep
      <4> QED
        BY <2>4, <4>1, <4>3
    <3>3. Faithful' /\ TheLine' = LineOf(c2, L, Append(R, a))
      BY <1>1, <1>4, <1>5, <1>6, <3>1, <3>2, Lands DEF OneUser
    <3>4. Line!Next
      <4> DEFINE P == Seen("undo", c2, L)
                 F == Seen("redo", Cells, R)
      <4>1. \E T : Seen("undo", c2, L) \in Seq(T) /\ Shown(c2) \in T
                  /\ Len(Seen("undo", c2, L)) = Len(L)
        BY <2>5, SeenType
      <4>2. PICK T : P \in Seq(T) /\ Shown(c2) \in T
        BY <4>1
      <4>3. Last(Append(P, Shown(c2))) = Shown(c2) /\ Front(Append(P, Shown(c2))) = P
            /\ Append(P, Shown(c2)) # <<>>
        BY <4>2, LastFrontMore
      <4> HIDE DEF P, F
      <4>4. TheLine = [past |-> Append(P, Shown(c2)), present |-> Shown(Cells), future |-> F]
        BY <2>7, <3>1, <3>2 DEF LineOf, P, F
      <4>5. TheLine' = [past |-> P, present |-> Shown(c2), future |-> Append(F, Shown(Cells))]
        BY <3>2, <3>3 DEF LineOf, P, F
      <4>6. TheLine' \in Line!Undo(TheLine)
        BY <4>3, <4>4, <4>5 DEF Line!Undo, Line!Last, Line!Front, Last, Front
      <4> QED
        BY <4>6, LineSteps
    <3> QED
      BY <1>3, <2>3, <3>3, <3>4 DEF UserStep
  <2> QED
    BY <2>9, <2>10
<1> QED
  BY <1>7, <1>8

(* Redo moves the cursor on by one state, or finds nothing to redo.         *)
LEMMA RunRedoUser ==
  ASSUME CommandAssumption, OneUser, TypeInv', NEW t \in Thread, RunRedo(t)
  PROVE  UserStep
<1>1. Running(t, "redo") /\ StepTaken(t) /\ UNCHANGED <<setting, marked, group>> /\ "redo" \in Kind
  BY DEF RunRedo, Kind
<1>2. ~Idle(t) /\ group = {<<>>} /\ Settled = Cells
  BY <1>1, EmptyGroup
<1>3. Turns'
  BY <1>1, SameGroupTurns DEF OneUser
<1>4. PICK c2 : c2 = Cells'
  OBVIOUS
<1>5. Settled' = c2
  BY <1>1, <1>2, <1>4, SettledNext
<1>6. \A g \in group' : Shown(Do(c2, Concat(g))) = Shown(c2)
  BY <1>1, <1>2, ConcatNothing DEF Do, Gone
<1>7. CASE redo = <<>>
  <2>1. UNCHANGED <<cellVars, undo, redo>>
    BY <1>7 DEF RunRedo, cellVars
  <2>2. GoneFirst'
    BY <2>1, SameGone DEF OneUser
  <2>3. c2 = Cells
    BY <1>4, <2>1 DEF Cells, cellVars
  <2>4. Faithful' /\ TheLine' = TheLine
    BY <1>1, <1>2, <1>4, <1>5, <1>6, <2>1, <2>3, LineStays DEF OneUser
  <2> QED
    BY <1>3, <2>2, <2>4 DEF UserStep
<1>8. CASE redo # <<>>
  <2> DEFINE a == Last(redo)
             f == Front(redo)
             L == Live(f)
             U == Live(undo)
  <2>1. Become(Do(Cells, a)) /\ redo' = f /\ undo' = Latest(Append(undo, a))
    BY <1>8 DEF RunRedo
  <2>2. /\ Latest(Append(undo, a)) = Append(undo, a)
        /\ Live(redo) = IF a = Gone THEN L ELSE Append(L, a)
        /\ Live(Append(undo, a)) = IF a = Gone THEN U ELSE Append(U, a)
        /\ a \in FineAction /\ f \in Seq(FineAction)
    <3>1. /\ redo \in Seq(FineAction) /\ undo \in Seq(FineAction)
          /\ Len(redo) + Len(undo) <= MaxHistory
      <4>1. Len(undo) \in Nat /\ Len(redo) \in Nat
        BY LenProperties DEF OneUser, TypeInv
      <4> QED
        BY <4>1 DEF OneUser, TypeInv, GoneFirst
    <3>2. /\ Latest(Append(undo, Last(redo))) = Append(undo, Last(redo))
          /\ Live(redo) = IF Last(redo) = Gone THEN Live(Front(redo))
                         ELSE Append(Live(Front(redo)), Last(redo))
          /\ Live(Append(undo, Last(redo))) = IF Last(redo) = Gone THEN Live(undo)
                                             ELSE Append(Live(undo), Last(redo))
          /\ Last(redo) \in FineAction /\ Front(redo) \in Seq(FineAction)
      BY <1>8, <3>1, MovedLive
    <3> QED
      BY <3>2
  <2>3. GoneFirst'
    BY <1>8, <2>1, <2>2, RedoGone DEF OneUser
  <2>4. c2 = Move("redo", Cells, a)
    <3>1. Do(Cells, a) = [value |-> Do(Cells, a).value, override |-> Do(Cells, a).override]
      BY DEF Cells, Do, Written
    <3> QED
      BY <1>4, <2>1, <3>1 DEF Become, Cells, Move
  <2>5. L \in Seq(FineAction) /\ U \in Seq(FineAction) /\ Len(L) \in Nat /\ Len(U) \in Nat
    BY <2>2, LiveType DEF OneUser, TypeInv
  <2>6. Honest("redo", Cells, Live(redo)) /\ Honest("undo", Cells, U)
    BY <1>2 DEF OneUser, Faithful
  <2>7. TheLine = LineOf(Cells, U, Live(redo))
    BY <1>2, LineIs DEF OneUser
  <2>8. Live(redo') = L /\ Live(undo') = IF a = Gone THEN U ELSE Append(U, a)
    BY <2>1, <2>2
  <2> HIDE DEF a, f, L, U
  <2>9. CASE a = Gone
    <3>1. c2 = Cells
      BY <2>4, <2>9 DEF Move, Do
    <3>2. Live(redo') = L /\ Live(undo') = U /\ Live(redo) = L
      BY <2>2, <2>8, <2>9
    <3>3. Faithful' /\ TheLine' = LineOf(c2, U, L)
      BY <1>1, <1>4, <1>5, <1>6, <2>6, <3>1, <3>2, Lands DEF OneUser
    <3>4. TheLine' = TheLine
      BY <2>7, <3>1, <3>2, <3>3
    <3> QED
      BY <1>3, <2>3, <3>3, <3>4 DEF UserStep
  <2>10. CASE a # Gone
    <3>1. Live(redo) = Append(L, a) /\ Live(redo') = L /\ Live(undo') = Append(U, a)
      BY <2>2, <2>8, <2>10
    <3>2. /\ Honest("redo", c2, L) /\ Honest("undo", c2, Append(U, a))
          /\ Seen("redo", Cells, Append(L, a)) = Append(Seen("redo", c2, L), Shown(c2))
          /\ Seen("undo", c2, Append(U, a)) = Append(Seen("undo", Cells, U), Shown(Cells))
      <4>1. Other("redo") = "undo"
        BY DEF Other
      <4>2. Honest("redo", Cells, Append(L, a)) /\ Honest(Other("redo"), Cells, U)
        BY <2>6, <3>1, <4>1
      <4>3. LET next == Move("redo", Cells, a)
            IN  /\ Honest("redo", next, L) /\ Honest(Other("redo"), next, Append(U, a))
                /\ Seen("redo", Cells, Append(L, a)) = Append(Seen("redo", next, L), Shown(next))
                /\ Seen(Other("redo"), next, Append(U, a))
                     = Append(Seen(Other("redo"), Cells, U), Shown(Cells))
        BY <2>2, <2>5, <4>2, OneStep
      <4> QED
        BY <2>4, <4>1, <4>3
    <3>3. Faithful' /\ TheLine' = LineOf(c2, Append(U, a), L)
      BY <1>1, <1>4, <1>5, <1>6, <3>1, <3>2, Lands DEF OneUser
    <3>4. Line!Next
      <4> DEFINE P == Seen("undo", Cells, U)
                 F == Seen("redo", c2, L)
      <4>1. \E T : Seen("redo", c2, L) \in Seq(T) /\ Shown(c2) \in T
                  /\ Len(Seen("redo", c2, L)) = Len(L)
        BY <2>5, SeenType
      <4>2. PICK T : F \in Seq(T) /\ Shown(c2) \in T
        BY <4>1
      <4>3. Last(Append(F, Shown(c2))) = Shown(c2) /\ Front(Append(F, Shown(c2))) = F
            /\ Append(F, Shown(c2)) # <<>>
        BY <4>2, LastFrontMore
      <4> HIDE DEF P, F
      <4>4. TheLine = [past |-> P, present |-> Shown(Cells), future |-> Append(F, Shown(c2))]
        BY <2>7, <3>1, <3>2 DEF LineOf, P, F
      <4>5. TheLine' = [past |-> Append(P, Shown(Cells)), present |-> Shown(c2), future |-> F]
        BY <3>2, <3>3 DEF LineOf, P, F
      <4>6. TheLine' \in Line!Redo(TheLine)
        BY <4>3, <4>4, <4>5 DEF Line!Redo, Line!Last, Line!Front, Last, Front
      <4> QED
        BY <4>6, LineSteps
    <3> QED
      BY <1>3, <2>3, <3>3, <3>4 DEF UserStep
  <2> QED
    BY <2>9, <2>10
<1> QED
  BY <1>7, <1>8

(* Another workspace starts another line.                                   *)
LEMMA ReplaceUser ==
  ASSUME CommandAssumption, OneUser, TypeInv', NEW t \in Thread, Replace(t)
  PROVE  UserStep
<1>1. /\ StepTaken(t) /\ UNCHANGED <<setting, marked>>
      /\ undo' = AllGone(undo) /\ redo' = AllGone(redo)
      /\ group' = {AllGone(g) : g \in group}
  BY DEF Replace
<1>2. PICK kind \in Kind : Running(t, kind) /\ kind # "edit"
  BY DEF Replace, Kind
<1>3. ~Idle(t) /\ group = {<<>>} /\ Settled = Cells
  BY <1>2, EmptyGroup
<1>4. group' = {<<>>} /\ group' = group
  <2>1. AllGone(<<>>) \in Seq(FineAction) /\ Len(AllGone(<<>>)) = 0
    BY AllGoneFine, EmptySeq
  <2>2. AllGone(<<>>) = <<>>
    BY <2>1, EmptySeq
  <2> QED
    BY <1>1, <1>3, <2>2
<1>5. Turns'
  BY <1>1, <1>2, <1>4, SameGroupTurns DEF OneUser
<1>6. ASSUME NEW s \in Seq(FineAction)
      PROVE  /\ Live(AllGone(s)) = <<>> /\ Len(AllGone(s)) = Len(s)
             /\ \A i \in 1..Len(s) : AllGone(s)[i] = Gone
  <2>1. AllGone(s) \in Seq(FineAction) /\ Len(AllGone(s)) = Len(s)
    BY AllGoneFine
  <2>2. \A i \in 1..Len(s) : AllGone(s)[i] = Gone
    BY LenProperties DEF AllGone
  <2> QED
    BY <2>1, <2>2, LiveGone
<1>7. GoneFirst'
  <2>1. /\ Len(undo') = Len(undo) /\ \A i \in 1..Len(undo) : undo'[i] = Gone
        /\ Len(redo') = Len(redo) /\ \A i \in 1..Len(redo) : redo'[i] = Gone
    BY <1>1, <1>6 DEF OneUser, TypeInv
  <2> QED
    BY <2>1 DEF GoneFirst, OneUser
<1>8. PICK c2 : c2 = Cells'
  OBVIOUS
<1>9. Settled' = c2
  BY <1>4, <1>8, SettledNext
<1>10. \A g \in group' : Shown(Do(c2, Concat(g))) = Shown(c2)
  BY <1>4, ConcatNothing DEF Do, Gone
<1>11. Live(undo') = <<>> /\ Live(redo') = <<>>
  BY <1>1, <1>6 DEF OneUser, TypeInv
<1>12. /\ Seen("undo", c2, <<>>) = <<>> /\ Honest("undo", c2, <<>>)
       /\ Seen("redo", c2, <<>>) = <<>> /\ Honest("redo", c2, <<>>)
  BY SeenNothing
<1>13. Faithful' /\ TheLine' = LineOf(c2, <<>>, <<>>)
  BY <1>1, <1>8, <1>9, <1>10, <1>11, <1>12, Lands DEF OneUser
<1>14. Shown(c2) \in [Cell -> Typed]
  <2>1. CellsFine(c2)
    BY <1>1, <1>8, FineStays DEF TypeInv, CellsFine
  <2> QED
    BY <2>1, ShownType DEF OneUser
<1>15. TheLine' \in Line!Replace(TheLine)
  BY <1>12, <1>13, <1>14 DEF LineOf, Line!Replace
<1> QED
  BY <1>5, <1>7, <1>13, <1>15, LineSteps DEF UserStep

(* The limit drops the same from the stack and from what is seen along it.  *)
LEMMA SeenLatest ==
  ASSUME CommandAssumption, NEW way, NEW cells, NEW S, NEW l \in Seq(S), Len(l) <= MaxHistory + 1
  PROVE  /\ Seen(way, cells, Latest(l)) = Latest(Seen(way, cells, l))
         /\ Honest(way, cells, l) => Honest(way, cells, Latest(l))
<1> DEFINE s == Seen(way, cells, l)
<1>1. Len(l) \in Nat /\ MaxHistory \in Nat \ {0}
  BY LenProperties DEF CommandAssumption
<1>2. PICK T : s \in Seq(T) /\ Len(s) = Len(l)
  BY <1>1, SeenType
<1> HIDE DEF s
<1>3. CASE Len(l) <= MaxHistory
  BY <1>2, <1>3 DEF Latest, s
<1>4. CASE ~(Len(l) <= MaxHistory)
  <2>1. Len(l) - MaxHistory + 1 = 2 /\ l # <<>> /\ Len(s) # 0
    BY <1>1, <1>2, <1>4
  <2>2. s # <<>>
    BY <2>1
  <2>3. Latest(l) = Tail(l)
    BY <1>4, <2>1, TailIsSubSeq DEF Latest
  <2>4. Latest(s) = Tail(s)
    BY <1>2, <1>4, <2>1, <2>2, TailIsSubSeq DEF Latest
  <2>5. /\ Seen(way, cells, Tail(l)) = Tail(Seen(way, cells, l))
        /\ Honest(way, cells, l) => Honest(way, cells, Tail(l))
    BY <2>1, SeenTail
  <2> QED
    BY <2>3, <2>4, <2>5 DEF s
<1> QED
  BY <1>3, <1>4

(* The end of a command with edits adds one state, and the end of a restore *)
(* starts another line.                                                     *)
LEMMA SucceedUser ==
  ASSUME CommandAssumption, OneUser, TypeInv', NEW t \in Thread, Succeed(t)
  PROVE  UserStep
<1> DEFINE pushed == {Concat(g) : g \in group \ {<<>>}}
<1>1. /\ MayEnd(t)
      /\ undo' = IF command[t].kind = "restore" THEN <<>>
                 ELSE IF pushed # {} THEN Latest(Append(undo, The(pushed))) ELSE undo
      /\ redo' = IF command[t].kind = "restore" \/ pushed # {} THEN <<>> ELSE redo
      /\ group' = {}
      /\ command' = [command EXCEPT ![t] = Nothing]
      /\ UNCHANGED <<setting, marked, cellVars>>
  BY DEF Succeed
<1>2. ~Idle(t)
  BY <1>1 DEF MayEnd
<1>3. Turns'
  BY <1>1, <1>2, EndTurns DEF OneUser
<1>4. PICK g \in Seq(FineAction) : group = {g}
  BY <1>2, OpenGroup DEF OneUser
<1>5. PICK c2 : c2 = Cells'
  OBVIOUS
<1>6. c2 = Cells /\ Settled' = c2
  BY <1>1, <1>5, SettledNext DEF Cells, cellVars
<1>7. \A h \in group' : Shown(Do(c2, Concat(h))) = Shown(c2)
  BY <1>1
<1>8. CASE command[t].kind = "restore"
  <2>1. undo' = <<>> /\ redo' = <<>> /\ Live(<<>>) = <<>>
    BY <1>1, <1>8, LiveNothing
  <2>2. GoneFirst'
    BY <2>1 DEF GoneFirst, CommandAssumption
  <2>3. /\ Seen("undo", c2, <<>>) = <<>> /\ Honest("undo", c2, <<>>)
        /\ Seen("redo", c2, <<>>) = <<>> /\ Honest("redo", c2, <<>>)
    BY SeenNothing
  <2>4. Faithful' /\ TheLine' = LineOf(c2, <<>>, <<>>)
    BY <1>1, <1>5, <1>6, <1>7, <2>1, <2>3, Lands DEF OneUser
  <2>5. Shown(c2) \in [Cell -> Typed]
    BY <1>6, ShownType DEF OneUser, TypeInv
  <2>6. TheLine' \in Line!Replace(TheLine)
    BY <2>3, <2>4, <2>5 DEF LineOf, Line!Replace
  <2> QED
    BY <1>3, <2>2, <2>4, <2>6, LineSteps DEF UserStep
<1>9. CASE command[t].kind # "restore" /\ g = <<>>
  <2>1. pushed = {}
    BY <1>4, <1>9
  <2>2. UNCHANGED <<undo, redo>>
    BY <1>1, <1>9, <2>1
  <2>3. Settled = Cells
    BY <1>4, <1>9, SettledIs DEF OneUser
  <2>4. GoneFirst'
    BY <2>2, SameGone DEF OneUser
  <2>5. Faithful' /\ TheLine' = TheLine
    BY <1>1, <1>5, <1>6, <1>7, <2>2, <2>3, LineStays DEF OneUser
  <2> QED
    BY <1>3, <2>4, <2>5 DEF UserStep
<1>10. CASE command[t].kind # "restore" /\ g # <<>>
  <2> DEFINE a == Concat(g)
             m == Append(undo, a)
             U == Live(undo)
  <2>1. The(pushed) = a /\ pushed # {}
    <3>1. pushed = {a}
      BY <1>4, <1>10
    <3> HIDE DEF pushed, a
    <3> QED
      BY <3>1, TheOne
  <2>2. a # Gone /\ a \in FineAction
    BY <1>4, <1>10, ConcatType DEF OneUser, Turns, FineAction
  <2>3. undo' = Latest(m) /\ redo' = <<>>
    BY <1>1, <1>10, <2>1
  <2>4. Settled = Move("undo", Cells, a) /\ Shown(Move("redo", Settled, a)) = Shown(Cells)
    BY <1>4, SettledIs DEF OneUser, Faithful, Move
  <2> HIDE DEF a, pushed
  <2>5. /\ undo \in Seq(FineAction) /\ Len(undo) \in Nat /\ Len(undo) <= MaxHistory
        /\ m \in Seq(FineAction) /\ Len(m) = Len(undo) + 1 /\ m[Len(undo) + 1] = a
        /\ \A i \in 1..Len(undo) : m[i] = undo[i]
    BY <2>2, AppendProperties, LenProperties DEF OneUser, TypeInv
  <2>6. /\ U \in Seq(FineAction) /\ Len(U) <= Len(undo) /\ Len(U) \in Nat
        /\ Live(m) = Append(U, a)
    BY <2>2, <2>5, LiveType, LiveOneMore
  <2>7. /\ Append(U, a) \in Seq(FineAction) /\ Len(Append(U, a)) <= MaxHistory + 1
    <3>1. Append(U, a) \in Seq(FineAction) /\ Len(Append(U, a)) = Len(U) + 1
      BY <2>2, <2>6, AppendProperties
    <3>2. MaxHistory \in Nat
      BY DEF CommandAssumption
    <3> QED
      BY <2>5, <2>6, <3>1, <3>2
  <2> HIDE DEF m, U
  <2>8. \A i, k \in 1..Len(m) : i < k /\ m[k] = Gone => m[i] = Gone
    <3> SUFFICES ASSUME NEW i \in 1..Len(m), NEW k \in 1..Len(m), i < k, m[k] = Gone
                 PROVE  m[i] = Gone
      OBVIOUS
    <3>1. k # Len(undo) + 1
      BY <2>2, <2>5
    <3>2. i \in 1..Len(undo) /\ k \in 1..Len(undo)
      BY <2>5, <3>1
    <3> QED
      BY <2>5, <3>2 DEF OneUser, GoneFirst
  <2>9. /\ Live(Latest(m)) = Latest(Append(U, a))
        /\ Latest(m) = m \/ (m # <<>> /\ Latest(m) = Tail(m))
    <3>1. Len(m) <= MaxHistory + 1
      <4>1. MaxHistory \in Nat
        BY DEF CommandAssumption
      <4> QED
        BY <2>5, <4>1
    <3> QED
      BY <2>5, <2>6, <2>8, <3>1, LiveLatest
  <2>10. GoneFirst'
    <3>1. Latest(m) \in Seq(FineAction) /\ Len(Latest(m)) <= MaxHistory /\ Len(Latest(m)) \in Nat
      BY <2>5, LatestFine, LenProperties
    <3>2. \A i, k \in 1..Len(Latest(m)) : i < k /\ Latest(m)[k] = Gone => Latest(m)[i] = Gone
      <4>1. CASE Latest(m) = m
        BY <2>8, <4>1
      <4>2. CASE m # <<>> /\ Latest(m) = Tail(m)
        <5>1. /\ Len(Tail(m)) = Len(m) - 1 /\ Len(m) \in Nat
              /\ \A i \in 1..Len(Tail(m)) : Tail(m)[i] = m[i + 1]
          BY <2>5, <4>2, HeadTailProperties, LenProperties
        <5> SUFFICES ASSUME NEW i \in 1..Len(Tail(m)), NEW k \in 1..Len(Tail(m)), i < k,
                            m[k + 1] = Gone
                     PROVE  m[i + 1] = Gone
          BY <4>2, <5>1
        <5>2. i + 1 \in 1..Len(m) /\ k + 1 \in 1..Len(m) /\ i + 1 < k + 1
          BY <5>1
        <5> QED
          BY <2>8, <5>2
      <4> QED
        BY <2>9, <4>1, <4>2
    <3>3. Len(redo') = 0 /\ Len(undo') + Len(redo') <= MaxHistory
      BY <2>3, <3>1
    <3> QED
      BY <2>3, <3>2, <3>3 DEF GoneFirst
  <2>11. /\ Seen("undo", Cells, Append(U, a)) = Append(Seen("undo", Settled, U), Shown(Settled))
         /\ Honest("undo", Cells, Append(U, a))
    <3>1. /\ Seen("undo", Cells, Append(U, a))
               = Append(Seen("undo", Move("undo", Cells, a), U), Shown(Move("undo", Cells, a)))
          /\ Honest("undo", Cells, Append(U, a)) <=>
               /\ Shown(Move(Other("undo"), Move("undo", Cells, a), a)) = Shown(Cells)
               /\ Honest("undo", Move("undo", Cells, a), U)
      BY <2>2, <2>6, SeenOneMore
    <3>2. Other("undo") = "redo" /\ Honest("undo", Settled, U)
      BY DEF Other, OneUser, Faithful, U
    <3> QED
      BY <2>4, <3>1, <3>2
  <2>12. /\ Seen("undo", Cells, Latest(Append(U, a))) = Latest(Seen("undo", Cells, Append(U, a)))
         /\ Honest("undo", Cells, Latest(Append(U, a)))
    BY <2>7, <2>11, SeenLatest
  <2>13. /\ Seen("redo", Cells, <<>>) = <<>> /\ Honest("redo", Cells, <<>>)
    BY SeenNothing
  <2>14. Live(undo') = Latest(Append(U, a)) /\ Live(redo') = <<>>
    BY <2>3, <2>9, LiveNothing
  <2>15. Faithful' /\ TheLine' = LineOf(Cells, Latest(Append(U, a)), <<>>)
    BY <1>1, <1>5, <1>6, <1>7, <2>12, <2>13, <2>14, Lands DEF OneUser
  <2>16. TheLine = LineOf(Settled, U, Live(redo))
    BY LineIs DEF OneUser, U
  <2>17. Shown(Cells) \in [Cell -> Typed]
    BY ShownType DEF OneUser, TypeInv
  <2>18. TheLine' \in Line!Change(TheLine)
    <3>1. TheLine' = [past |-> Latest(Append(TheLine.past, TheLine.present)),
                      present |-> Shown(Cells), future |-> <<>>]
      BY <2>11, <2>12, <2>13, <2>15, <2>16 DEF LineOf
    <3> QED
      BY <2>17, <3>1 DEF Line!Change, Line!Latest, Latest
  <2> QED
    BY <1>3, <2>10, <2>15, <2>18, LineSteps DEF UserStep
<1> QED
  BY <1>8, <1>9, <1>10

(* A command that fails leaves only what is not shown.                      *)
LEMMA FailUser ==
  ASSUME CommandAssumption, OneUser, TypeInv', NEW t \in Thread, Fail(t)
  PROVE  UserStep
<1>1. /\ ~Idle(t) /\ group' = {} /\ command' = [command EXCEPT ![t] = Nothing]
      /\ \A g \in group : \A j \in DOMAIN Concat(g) : Concat(g)[j].cell \in marked
      /\ UNCHANGED <<setting, marked, cellVars, undo, redo>>
  BY DEF Fail
<1>2. Turns' /\ GoneFirst'
  BY <1>1, EndTurns, SameGone DEF OneUser
<1>3. PICK g \in Seq(FineAction) : group = {g}
  BY <1>1, OpenGroup DEF OneUser
<1>4. PICK c2 : c2 = Cells'
  OBVIOUS
<1>5. c2 = Cells /\ Settled' = c2
  BY <1>1, <1>4, SettledNext DEF Cells, cellVars
<1>6. Shown(Settled) = Shown(Cells)
  <2>1. Edited(Concat(g)) \subseteq marked
    BY <1>1, <1>3 DEF Edited
  <2>2. Settled = Move("undo", Cells, Concat(g))
    BY <1>3, SettledIs DEF OneUser, Move
  <2>3. Shown(Settled) = Turned("undo", Shown(Cells), Concat(g))
    BY <2>2, ShownMoved
  <2> QED
    BY <2>1, <2>3, MarkedTurned
<1>7. Faithful' /\ TheLine' = TheLine
  BY <1>1, <1>4, <1>5, <1>6, LineStays DEF OneUser
<1> QED
  BY <1>2, <1>7 DEF UserStep

-----------------------------------------------------------------------------
(* The whole.                                                               *)

(* A step of nobody.                                                        *)
LEMMA StutterUser ==
  ASSUME OneUser, TypeInv', UNCHANGED vars
  PROVE  UserStep
<1>1. UNCHANGED <<setting, marked, cellVars, undo, redo, group, command>>
  BY DEF vars
<1>2. Turns' /\ GoneFirst'
  BY <1>1, SameGone DEF OneUser, Turns, Idle
<1>3. Cells' = Cells
  BY <1>1 DEF Cells, cellVars
<1>4. PICK s : s = Settled'
  OBVIOUS
<1>5. s = Settled
  BY <1>1, <1>3, <1>4 DEF Settled
<1>6. PICK c2 : c2 = Cells'
  OBVIOUS
<1>7. \A g \in group' : Shown(Do(s, Concat(g))) = Shown(c2)
  BY <1>1, <1>3, <1>5, <1>6 DEF OneUser, Faithful
<1>8. Faithful' /\ TheLine' = TheLine
  BY <1>1, <1>4, <1>5, <1>6, <1>7, LineStays DEF OneUser
<1> QED
  BY <1>2, <1>8 DEF UserStep

(* Every step of one user.                                                  *)
LEMMA NextUser ==
  ASSUME CommandAssumption, OneUser, TypeInv', [Next]_vars
  PROVE  UserStep
<1>1. CASE UNCHANGED vars
  BY <1>1, StutterUser
<1>2. ASSUME NEW c \in Cell, Evaluate(c) PROVE UserStep
  BY <1>2, EvaluateUser
<1>3. ASSUME NEW t \in Thread, NEW kind \in Kind, Begin(t, kind) PROVE UserStep
  BY <1>3, BeginUser
<1>4. ASSUME NEW t \in Thread, NEW c \in Cell, NEW v \in Typed, SetCell(t, c, v) PROVE UserStep
  BY <1>4, SetCellUser
<1>5. ASSUME NEW t \in Thread, NEW e1 \in Entry, NEW e2 \in Entry, SetCells(t, <<e1, e2>>)
      PROVE  UserStep
  BY <1>5, SetCellsUser
<1>6. ASSUME NEW t \in Thread, RunUndo(t) \/ RunRedo(t) PROVE UserStep
  BY <1>6, RunUndoUser, RunRedoUser
<1>7. ASSUME NEW t \in Thread, Replace(t) \/ Succeed(t) \/ Fail(t) PROVE UserStep
  BY <1>7, ReplaceUser, SucceedUser, FailUser
<1> QED
  BY <1>1, <1>2, <1>3, <1>4, <1>5, <1>6, <1>7 DEF Next

(* The setting of a run does not change.                                    *)
LEMMA SettingStays == [Next]_vars => setting' = setting
<1> SUFFICES ASSUME [Next]_vars PROVE setting' = setting
  OBVIOUS
<1>1. ASSUME NEW t \in Thread, NEW c \in Cell, NEW v \in Typed, SetCell(t, c, v)
      PROVE  setting' = setting
  BY <1>1 DEF SetCell
<1>2. ASSUME NEW t \in Thread, NEW e1 \in Entry, NEW e2 \in Entry, SetCells(t, <<e1, e2>>)
      PROVE  setting' = setting
  BY <1>2 DEF SetCells
<1>3. ASSUME NEW t \in Thread, Replace(t) PROVE setting' = setting
  BY <1>3 DEF Replace
<1>4. ASSUME NEW t \in Thread, RunUndo(t) \/ RunRedo(t) PROVE setting' = setting
  BY <1>4 DEF RunUndo, RunRedo
<1>5. ASSUME NEW t \in Thread, Succeed(t) \/ Fail(t) PROVE setting' = setting
  BY <1>5 DEF Succeed, Fail
<1>6. ASSUME NEW t \in Thread, NEW kind \in Kind, Begin(t, kind) PROVE setting' = setting
  BY <1>6 DEF Begin
<1>7. ASSUME NEW c \in Cell, Evaluate(c) PROVE setting' = setting
  BY <1>7 DEF Evaluate
<1> QED
  BY <1>1, <1>2, <1>3, <1>4, <1>5, <1>6, <1>7 DEF Next, vars

(* At first nothing can be undone or redone.                                *)
LEMMA InitUser ==
  ASSUME CommandAssumption, Init
  PROVE  UserInv /\ Line!Init
<1>1. TypeInv
  BY InitTypes
<1>2. undo = <<>> /\ redo = <<>> /\ group = {} /\ \A t \in Thread : Idle(t)
  BY DEF Init, Idle
<1>3. Live(undo) = <<>> /\ Live(redo) = <<>>
  BY <1>2, LiveNothing
<1>4. Settled = Cells
  BY <1>2 DEF Settled
<1>5. /\ Seen("undo", Cells, <<>>) = <<>> /\ Honest("undo", Cells, <<>>)
      /\ Seen("redo", Cells, <<>>) = <<>> /\ Honest("redo", Cells, <<>>)
  BY SeenNothing
<1>6. UserInv
  <2>1. Turns
    BY <1>2 DEF Turns
  <2>2. GoneFirst
    BY <1>2 DEF GoneFirst, CommandAssumption
  <2>3. Faithful
    BY <1>2, <1>3, <1>4, <1>5 DEF Faithful
  <2> QED
    BY <2>1, <2>2, <2>3 DEF UserInv
<1>7. \E s \in [Cell -> Typed] : TheLine = [past |-> <<>>, present |-> s, future |-> <<>>]
  <2>1. CASE "threads" \in setting
    BY <2>1 DEF TheLine, NoLine, Typed
  <2>2. CASE "threads" \notin setting
    <3>1. TheLine = LineOf(Cells, <<>>, <<>>)
      BY <1>1, <1>3, <1>4, <2>2, LineIs
    <3>2. Shown(Cells) \in [Cell -> Typed]
      BY <1>1, ShownType DEF TypeInv
    <3> QED
      BY <1>5, <3>1, <3>2 DEF LineOf
  <2> QED
    BY <2>1, <2>2
<1>8. Line!Init
  BY <1>7 DEF Line!Init, TheLine
<1> QED
  BY <1>6, <1>8

(* A step keeps the invariant and moves along the line or leaves it.        *)
LEMMA StepUser ==
  ASSUME CommandAssumption, TypeInv, TypeInv', UserInv, [Next]_vars
  PROVE  UserInv' /\ (Line!Next \/ TheLine' = TheLine)
<1>1. setting' = setting
  BY SettingStays
<1>2. CASE "threads" \in setting
  <2>1. UserInv'
    BY <1>1, <1>2 DEF UserInv
  <2>2. TheLine = NoLine /\ TheLine' = NoLine
    BY <1>1, <1>2 DEF TheLine, NoLine
  <2> QED
    BY <2>1, <2>2
<1>3. CASE "threads" \notin setting
  <2>1. UserStep
    BY <1>3, NextUser DEF OneUser, UserInv
  <2> QED
    BY <2>1 DEF UserStep, UserInv
<1> QED
  BY <1>2, <1>3

(* Undo and redo implement History: for one user, the states that can be    *)
(* undone and redone to are a line with a cursor.  A command with all its   *)
(* edits is one step of it, undo and redo move the cursor by one command    *)
(* and bring back exactly the state that was there, the limit forgets the   *)
(* oldest states, and another workspace forgets all.                        *)
THEOREM LinearHistoryTheorem == Spec => LinearHistory
<1> DEFINE Inv == TypeInv /\ UserInv
<1>1. Init => Inv /\ Line!Init
  BY InitTypes, InitUser, CommandAssumption
<1>2. Inv /\ [Next]_vars => Inv'
  BY NextTypes, StepUser, CommandAssumption
<1>3. Inv /\ Inv' /\ [Next]_vars
        => [Line!Next]_(IF "threads" \in setting THEN NoLine
                        ELSE The({LineFrom(s) : s \in {Before}}))
  BY StepUser, CommandAssumption DEF TheLine
<1> HIDE DEF Inv
<1> QED
  BY <1>1, <1>2, <1>3, PTL DEF Spec, LinearHistory, Line!Spec
=============================================================================
