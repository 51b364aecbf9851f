------------------------ MODULE Recalculation_proofs ------------------------
(***************************************************************************)
(* Proofs about Recalculation, for any cells, numbers, rules and           *)
(* arithmetic: type correctness, the recursion guard, that dirty cells are *)
(* empty and hard values kept; then, from Denotation being the least       *)
(* fixpoint of the rules, that what is computed is right, and that what a  *)
(* deletion leaves stale is on the cells that need a void one.             *)
(***************************************************************************)
EXTENDS Recalculation, SequenceTheorems, NaturalsInduction, WellFoundedInduction,
        FiniteSetTheorems, TLAPS

(* The stack is that of the running operation, and holds rule cells only.   *)
StackOK ==
  /\ task = "idle" => stack = <<>>
  /\ Evaluating \subseteq RuleCell

(* The invariant of the evaluation.                                         *)
IInv == TypeOK /\ StackOK /\ NoNestedEvaluation /\ DirtyIsEmpty

-----------------------------------------------------------------------------
(* Rules.                                                                   *)

(* An evaluation that has read all it needs yields a number or CIRC.        *)
LEMMA ResultType ==
  ASSUME NEW c \in Cell, NEW r \in RulesOf(c), r # NoRule,
         NEW read \in Reads, NextRead(r, read) = {}
  PROVE  Result(r, read) \in Content
<1>1. IsRule(c, r)
  BY RecalculationAssumption
<1>2. /\ DOMAIN read \subseteq Cell
      /\ \A d \in DOMAIN read : read[d] \in Content
  BY DEF Reads
<1>3. Needed(r, read) \subseteq DOMAIN read
  BY DEF NextRead
<1>4. ASSUME \A d \in Needed(r, read) : read[d] # CIRC
      PROVE  Result(r, read) \in Content
  <2>1. CASE r.kind = "all"
    <3>1. Numbers(r, read) \in [Cell -> Number]
      BY RecalculationAssumption DEF Numbers
    <3>2. Compute(r, Numbers(r, read)) \in Number
      BY <1>1, <2>1, <3>1 DEF IsRule
    <3> QED
      BY <1>4, <2>1, <3>2 DEF Result, Content
  <2>2. CASE r.kind = "if"
    <3>1. Len(r.refs) = 2 /\ r.refs \in Seq(Cell)
      BY <1>1, <2>2 DEF IsRule
    <3>2. r.refs[1] \in Needed(r, read)
      BY <3>1 DEF Needed
    <3>3. /\ r.refs[1] \in DOMAIN read
          /\ read[r.refs[1]] \in Content
          /\ read[r.refs[1]] # CIRC
      BY <1>2, <1>3, <1>4, <3>2
    <3>4. ASSUME Num(read[r.refs[1]]) # 0
          PROVE  r.refs[2] \in Needed(r, read)
      BY <3>1, <3>3, <3>4 DEF Needed
    <3>5. ASSUME Num(read[r.refs[1]]) # 0
          PROVE  Num(read[r.refs[2]]) \in Content
      BY <1>2, <1>3, <3>4, <3>5, RecalculationAssumption DEF Num, Content
    <3> QED
      BY <1>4, <2>2, <3>5, RecalculationAssumption DEF Result, Content
  <2>3. r.kind # "none"
    BY <1>1 DEF IsRule, NoRule
  <2> QED
    BY <1>1, <2>1, <2>2, <2>3 DEF IsRule
<1> QED
  BY <1>4 DEF Result, Content

-----------------------------------------------------------------------------
(* Invalidation.                                                            *)

(* The cells an edit reaches have nodes.                                    *)
LEMMA ReachedHasNode ==
  ASSUME TypeOK, NEW c \in Cell, NEW dropped \in SUBSET Cell
  PROVE  Reached(c, dropped) \subseteq nodes \cup {c}
<1> DEFINE T == nodes \cup {c}
<1>1. T \in SUBSET Cell
  BY DEF TypeOK
<1>2. \A d \in Cell : precedents[d] \cap T # {} => d \in T
  BY DEF TypeOK
<1>3. \A t \in T \cap dropped : precedents[t] \subseteq T
  BY DEF TypeOK
<1>4. c \in T /\ Closed(T, dropped)
  BY <1>2, <1>3 DEF Closed
<1> QED
  BY <1>1, <1>4 DEF Reached

-----------------------------------------------------------------------------
(* The stack.                                                               *)

(* Entering an evaluation.                                                  *)
LEMMA EvaluateStack ==
  ASSUME TypeOK, NEW c \in Cell, Evaluate(c)
  PROVE  /\ stack' \in Seq(Frame)
         /\ Evaluating' = Evaluating \cup {c}
         /\ NoNestedEvaluation /\ c \notin Evaluating => NoNestedEvaluation'
<1> DEFINE f == [cell |-> c, read |-> [d \in {} |-> Empty]]
<1>1. f \in Frame
  <2>1. [d \in {} |-> Empty] \in [{} -> Content]
    OBVIOUS
  <2> QED
    BY <2>1 DEF Frame, Reads
<1>2. stack \in Seq(Frame) /\ stack' = Append(stack, f)
  BY DEF TypeOK, Evaluate
<1>3. stack' \in Seq(Frame) /\ DOMAIN stack' = DOMAIN stack \cup {Len(stack) + 1}
  BY <1>1, <1>2
<1>4. /\ stack'[Len(stack) + 1].cell = c
      /\ \A i \in DOMAIN stack : stack'[i] = stack[i]
  BY <1>1, <1>2
<1>5. Evaluating' = Evaluating \cup {c}
  BY <1>3, <1>4 DEF Evaluating
<1>6. ASSUME NoNestedEvaluation, c \notin Evaluating
      PROVE  NoNestedEvaluation'
  BY <1>3, <1>4, <1>6 DEF NoNestedEvaluation, Evaluating
<1> QED
  BY <1>3, <1>5, <1>6

(* The evaluation on top ends.                                              *)
LEMMA BelowStack ==
  ASSUME TypeOK, stack # <<>>
  PROVE  /\ Below \in Seq(Frame)
         /\ Len(Below) = Len(stack) - 1
         /\ \A i \in 1..Len(Below) : Below[i] = stack[i]
         /\ Top \in Frame /\ Top.cell \in Evaluating
<1> DEFINE n == Len(stack) - 1
<1>1. stack \in Seq(Frame) /\ Len(stack) \in Nat \ {0}
  BY DEF TypeOK
<1>2. n \in Nat /\ \A i \in 1..n : stack[i] \in Frame
  BY <1>1
<1>3. /\ Below \in Seq(Frame)
      /\ Len(Below) = n
      /\ \A i \in 1..n : Below[i] = stack[i]
  <2> HIDE DEF n
  <2>1. Below = SubSeq(stack, 1, n)
    BY DEF Below, n
  <2>2. /\ SubSeq(stack, 1, n) \in Seq(Frame)
        /\ Len(SubSeq(stack, 1, n)) = IF 1 <= n THEN n - 1 + 1 ELSE 0
        /\ \A i \in 1..(n - 1 + 1) : SubSeq(stack, 1, n)[i] = stack[1 + i - 1]
    BY <1>2, SubSeqProperties
  <2> QED
    BY <1>2, <2>1, <2>2
<1>4. Len(stack) \in DOMAIN stack /\ stack[Len(stack)] \in Frame
  BY <1>1
<1> QED
  BY <1>3, <1>4 DEF Top, Evaluating

(* A value returned to a stack that is part of the present one.             *)
LEMMA ReturnStack ==
  ASSUME TypeOK, StackOK, NoNestedEvaluation,
         NEW s \in Seq(Frame), Len(s) <= Len(stack),
         \A i \in 1..Len(s) : s[i] = stack[i],
         NEW c \in Cell, NEW v \in Content, Return(s, c, v)
  PROVE  /\ stack' \in Seq(Frame)
         /\ task' \in Tasks
         /\ answer' \subseteq [cell : Cell, value : Content]
         /\ Evaluating' \subseteq Evaluating
         /\ NoNestedEvaluation'
         /\ task' = "idle" => stack' = <<>>
<1>0. stack \in Seq(Frame) /\ DOMAIN stack = 1..Len(stack)
  BY DEF TypeOK
<1>1. CASE s = <<>>
  <2>1. stack' = <<>>
    BY <1>1 DEF Return
  <2> QED
    BY <1>1, <2>1 DEF Return, TypeOK, Tasks, Evaluating, NoNestedEvaluation
<1>2. CASE s # <<>>
  <2> DEFINE n == Len(s)
             R == [d \in DOMAIN s[n].read \cup {c} |-> IF d = c THEN v ELSE s[n].read[d]]
  <2>1. n \in Nat \ {0} /\ s[n] \in Frame
    BY <1>2
  <2>2. R \in Reads
    <3>1. PICK S \in SUBSET Cell : s[n].read \in [S -> Content]
      BY <2>1 DEF Frame, Reads
    <3>2. R \in [S \cup {c} -> Content]
      BY <3>1
    <3> QED
      BY <3>2 DEF Reads
  <2>3. stack' = [s EXCEPT ![n] = [s[n] EXCEPT !.read = R]]
    BY <1>2 DEF Return, Received
  <2>4. [s[n] EXCEPT !.read = R] \in Frame /\ [s[n] EXCEPT !.read = R].cell = s[n].cell
    BY <2>1, <2>2 DEF Frame
  <2>5. stack' \in Seq(Frame) /\ DOMAIN stack' = 1..n
    BY <2>1, <2>3, <2>4
  <2>6. \A i \in 1..n : stack'[i].cell = stack[i].cell
    BY <2>1, <2>3, <2>4
  <2>7. Evaluating' \subseteq Evaluating
    BY <1>0, <2>5, <2>6 DEF Evaluating
  <2>8. NoNestedEvaluation'
    BY <1>0, <2>5, <2>6 DEF NoNestedEvaluation
  <2>9. UNCHANGED <<task, answer>> /\ task # "idle"
    <3>1. stack # <<>>
      BY <2>1, <1>0
    <3> QED
      BY <1>2, <3>1 DEF Return, StackOK
  <2> QED
    BY <2>5, <2>7, <2>8, <2>9 DEF TypeOK
<1> QED
  BY <1>1, <1>2

-----------------------------------------------------------------------------
(* The graph.                                                               *)

GraphOK ==
  /\ nodes \subseteq Cell
  /\ precedents \in [Cell -> SUBSET nodes]
  /\ \A c \in Cell : precedents[c] # {} => c \in nodes
  /\ dirty \subseteq nodes
  /\ tracked \subseteq Cell

(* A read that needs no evaluation leaves the graph well formed, and makes  *)
(* nothing dirty.                                                           *)
LEMMA SupplyGraph ==
  ASSUME TypeOK, NEW c \in Cell, NEW callers \in SUBSET Cell, Supply(c, callers)
  PROVE  GraphOK' /\ dirty' \subseteq dirty
<1>1. CASE Cached(c) /\ UNCHANGED <<nodes, precedents, dirty>>
  BY <1>1 DEF Supply, TypeOK, GraphOK
<1>2. CASE AddEdge(c, callers) /\ dirty' \subseteq dirty
  <2>1. nodes' \subseteq Cell /\ nodes \subseteq nodes'
    BY <1>2 DEF AddEdge, TypeOK
  <2>2. callers # {} => callers \cup {c} \subseteq nodes'
    BY <1>2 DEF AddEdge
  <2>3. precedents' \in [Cell -> SUBSET nodes']
    BY <1>2, <2>1, <2>2 DEF AddEdge, TypeOK
  <2>4. \A d \in Cell : precedents'[d] # {} => d \in nodes'
    BY <1>2, <2>1, <2>2 DEF AddEdge, TypeOK
  <2> QED
    BY <1>2, <2>1, <2>3, <2>4 DEF Supply, TypeOK, GraphOK
<1> QED
  BY <1>1, <1>2 DEF Supply

-----------------------------------------------------------------------------
(* Preservation, step by step.                                              *)

(* A rule cell's evaluation ends, normally or with CIRC.                    *)
LEMMA ConcludeInv ==
  ASSUME IInv, stack # <<>>, NEW reads \in SUBSET Cell, NEW v \in Content,
         Conclude(Top.cell, reads, v), UNCHANGED <<batchVars, todo>>
  PROVE  IInv'
<1> DEFINE f == Top.cell
<1>1. /\ Below \in Seq(Frame) /\ Len(Below) <= Len(stack)
      /\ \A i \in 1..Len(Below) : Below[i] = stack[i]
      /\ f \in Cell /\ f \in RuleCell
  <2>1. Len(stack) \in Nat
    BY DEF IInv, TypeOK
  <2> QED
    BY <2>1, BelowStack DEF IInv, StackOK, Frame
<1>2. /\ stack' \in Seq(Frame)
      /\ task' \in Tasks
      /\ answer' \subseteq [cell : Cell, value : Content]
      /\ Evaluating' \subseteq Evaluating
      /\ NoNestedEvaluation'
      /\ task' = "idle" => stack' = <<>>
  BY <1>1, ReturnStack DEF Conclude, IInv
<1>3. RuleCell' = RuleCell
  BY DEF Conclude, RuleCell, HasRule
<1>4. /\ value' \in [Cell -> Content]
      /\ \A d \in Cell : d # f => value'[d] = value[d]
  BY <1>1 DEF Conclude, IInv, TypeOK
<1>5. f \notin override
  BY <1>1 DEF RuleCell
<1>6. GraphOK'
  <2>1. nodes' = nodes \cup {f} \cup reads /\ nodes' \subseteq Cell
    BY <1>1 DEF Conclude, IInv, TypeOK
  <2>2. precedents' \in [Cell -> SUBSET nodes']
    BY <2>1 DEF Conclude, IInv, TypeOK
  <2>3. \A d \in Cell : precedents'[d] # {} => d \in nodes'
    BY <2>1 DEF Conclude, IInv, TypeOK
  <2> QED
    BY <1>1, <2>1, <2>2, <2>3 DEF Conclude, IInv, TypeOK, GraphOK
<1>7. TypeOK'
  BY <1>2, <1>4, <1>5, <1>6 DEF Conclude, IInv, TypeOK, GraphOK, batchVars
<1>8. DirtyIsEmpty'
  BY <1>1, <1>3, <1>4 DEF Conclude, IInv, DirtyIsEmpty, TypeOK, RuleCell
<1> QED
  BY <1>2, <1>3, <1>7, <1>8 DEF IInv, StackOK

(* A rule refers to cells.                                                  *)
LEMMA ReferenceType ==
  ASSUME IInv, stack # <<>>, NEW c \in NextRead(rule[Top.cell], Top.read)
  PROVE  c \in Cell
<1>1. Top.cell \in Cell /\ Top.cell \in Evaluating
  BY BelowStack DEF IInv, Frame
<1>2. IsRule(Top.cell, rule[Top.cell])
  BY <1>1, RecalculationAssumption DEF IInv, TypeOK
<1>3. rule[Top.cell].refs \in Seq(Cell)
  BY <1>2 DEF IsRule
<1> QED
  BY <1>3 DEF NextRead, Needed

(* An evaluation reads its next reference and keeps IInv.                   *)
LEMMA ReadReferenceInv ==
  ASSUME IInv, ReadReference
  PROVE  IInv'
<1>0. PICK c \in NextRead(rule[Top.cell], Top.read) :
        ReadSupplied(c) \/ ReadEvaluated(c) \/ ReadCircular(c)
  BY DEF ReadReference
<1>1. stack # <<>> /\ UNCHANGED <<batchVars, todo>>
  BY DEF ReadReference
<1>2. c \in Cell
  BY <1>0, <1>1, ReferenceType
<1>3. Top \in Frame /\ DOMAIN Top.read \subseteq Cell
  BY <1>1, BelowStack DEF IInv, Frame, Reads
<1>4. CASE ReadSupplied(c)
  <2>1. Callers \in SUBSET Cell
    BY <1>3 DEF Callers, Frame
  <2>2. GraphOK' /\ dirty' \subseteq dirty
    BY <1>2, <1>4, <2>1, SupplyGraph DEF ReadSupplied, IInv
  <2>3. /\ stack \in Seq(Frame) /\ Len(stack) \in Nat
        /\ value[c] \in Content
    BY <1>2 DEF IInv, TypeOK
  <2>4. /\ stack' \in Seq(Frame)
        /\ task' \in Tasks
        /\ answer' \subseteq [cell : Cell, value : Content]
        /\ Evaluating' \subseteq Evaluating
        /\ NoNestedEvaluation'
        /\ task' = "idle" => stack' = <<>>
    BY <1>2, <1>4, <2>3, ReturnStack DEF ReadSupplied, IInv
  <2>5. RuleCell' = RuleCell /\ UNCHANGED cellVars
    BY <1>4 DEF ReadSupplied, cellVars, RuleCell, HasRule
  <2>6. TypeOK'
    BY <1>1, <2>2, <2>4, <2>5 DEF IInv, TypeOK, GraphOK, cellVars, batchVars
  <2>7. DirtyIsEmpty'
    BY <2>2, <2>5 DEF IInv, DirtyIsEmpty, cellVars
  <2> QED
    BY <2>4, <2>5, <2>6, <2>7 DEF IInv, StackOK
<1>5. CASE ReadEvaluated(c)
  <2>1. c \in RuleCell /\ c \notin override
    BY <1>5 DEF ReadEvaluated, Supplied, RuleCell
  <2>2. /\ stack' \in Seq(Frame)
        /\ Evaluating' = Evaluating \cup {c}
        /\ NoNestedEvaluation'
    BY <1>2, <1>5, EvaluateStack DEF ReadEvaluated, IInv
  <2>3. value' \in [Cell -> Content] /\ value'[c] = Empty
        /\ \A d \in Cell : d # c => value'[d] = value[d]
    BY <1>2, <1>5 DEF ReadEvaluated, Evaluate, IInv, TypeOK, Content
  <2>4. RuleCell' = RuleCell
    BY <1>5 DEF ReadEvaluated, RuleCell, HasRule
  <2>5. TypeOK'
    BY <1>1, <1>5, <2>1, <2>2, <2>3
    DEF ReadEvaluated, IInv, TypeOK, graphVars, batchVars
  <2>6. DirtyIsEmpty'
    BY <1>5, <2>3, <2>4 DEF ReadEvaluated, IInv, DirtyIsEmpty, graphVars, RuleCell
  <2>7. task' # "idle"
    BY <1>1, <1>5 DEF ReadEvaluated, IInv, StackOK
  <2> QED
    BY <2>1, <2>2, <2>4, <2>5, <2>6, <2>7 DEF IInv, StackOK
<1>6. CASE ReadCircular(c)
  <2>1. CIRC \in Content
    BY DEF Content
  <2> QED
    BY <1>1, <1>2, <1>3, <1>6, <2>1, ConcludeInv DEF ReadCircular
<1> QED
  BY <1>0, <1>4, <1>5, <1>6

(* What a finished evaluation yields.                                       *)
LEMMA TopResult ==
  ASSUME IInv, stack # <<>>, NextRead(rule[Top.cell], Top.read) = {}
  PROVE  Result(rule[Top.cell], Top.read) \in Content
<1>1. Top \in Frame /\ Top.cell \in RuleCell
  BY BelowStack DEF IInv, StackOK
<1>2. /\ Top.cell \in Cell /\ Top.read \in Reads
      /\ rule[Top.cell] \in RulesOf(Top.cell) /\ rule[Top.cell] # NoRule
  BY <1>1 DEF Frame, RuleCell, HasRule, IInv, TypeOK
<1> QED
  BY <1>2, ResultType

(* An evaluation that ends keeps IInv.                                      *)
LEMMA FinishEvaluationInv ==
  ASSUME IInv, FinishEvaluation
  PROVE  IInv'
<1>1. Top \in Frame /\ DOMAIN Top.read \subseteq Cell
  BY BelowStack DEF FinishEvaluation, IInv, Frame, Reads
<1>2. Result(rule[Top.cell], Top.read) \in Content
  BY TopResult DEF FinishEvaluation
<1> QED
  BY <1>1, <1>2, ConcludeInv DEF FinishEvaluation

(* A view that ends keeps IInv: it records nothing.                         *)
LEMMA FinishViewInv ==
  ASSUME IInv, FinishView
  PROVE  IInv'
<1>1. /\ Below \in Seq(Frame) /\ Len(Below) <= Len(stack)
      /\ \A i \in 1..Len(Below) : Below[i] = stack[i]
      /\ Top.cell \in Cell
  <2>1. Len(stack) \in Nat
    BY DEF IInv, TypeOK
  <2> QED
    BY <2>1, BelowStack DEF FinishView, IInv, Frame
<1>2. Result(rule[Top.cell], Top.read) \in Content
  BY TopResult DEF FinishView
<1>3. /\ stack' \in Seq(Frame)
      /\ task' \in Tasks
      /\ answer' \subseteq [cell : Cell, value : Content]
      /\ Evaluating' \subseteq Evaluating
      /\ NoNestedEvaluation'
      /\ task' = "idle" => stack' = <<>>
  BY <1>1, <1>2, ReturnStack DEF FinishView, IInv
<1>4. RuleCell' = RuleCell
  BY DEF FinishView, cellVars, RuleCell, HasRule
<1>5. TypeOK'
  BY <1>3 DEF FinishView, IInv, TypeOK, cellVars, graphVars, batchVars
<1>6. DirtyIsEmpty'
  BY <1>4 DEF FinishView, IInv, DirtyIsEmpty, cellVars, graphVars
<1> QED
  BY <1>3, <1>4, <1>5, <1>6 DEF IInv, StackOK

(* An evaluation that starts on an empty stack.                             *)
LEMMA EnterInv ==
  ASSUME IInv, NEW c \in RuleCell, stack = <<>>, Evaluate(c),
         UNCHANGED <<override, rule, graphVars>>
  PROVE  /\ value' \in [Cell -> Content]
         /\ override' \subseteq {d \in Cell : value'[d] \in Number}
         /\ stack' \in Seq(Frame)
         /\ Evaluating' \subseteq RuleCell'
         /\ NoNestedEvaluation'
         /\ DirtyIsEmpty'
<1>1. c \in Cell /\ c \notin override /\ Evaluating = {}
  BY DEF RuleCell, Evaluating
<1>2. /\ stack' \in Seq(Frame)
      /\ Evaluating' = {c}
      /\ NoNestedEvaluation'
  BY <1>1, EvaluateStack DEF IInv
<1>3. value' \in [Cell -> Content] /\ value'[c] = Empty
      /\ \A d \in Cell : d # c => value'[d] = value[d]
  BY <1>1 DEF Evaluate, IInv, TypeOK, Content
<1>4. RuleCell' = RuleCell
  BY DEF RuleCell, HasRule
<1> QED
  BY <1>1, <1>2, <1>3, <1>4 DEF IInv, TypeOK, DirtyIsEmpty, graphVars, RuleCell

(* A read that starts keeps IInv.                                           *)
LEMMA ReadCellInv ==
  ASSUME IInv, NEW c \in Cell, ReadCell(c)
  PROVE  IInv'
<1>0. stack = <<>> /\ task = "idle" /\ UNCHANGED <<override, rule, batchVars, todo>>
  BY DEF ReadCell, Idle, IInv, StackOK
<1>1. CASE /\ Supply(c, {})
           /\ answer' = {[cell |-> c, value |-> value[c]]}
           /\ UNCHANGED <<value, stack, task>>
  <2>1. GraphOK' /\ dirty' \subseteq dirty
    BY <1>1, SupplyGraph DEF IInv
  <2>2. RuleCell' = RuleCell /\ Evaluating' = Evaluating
    BY <1>0, <1>1 DEF RuleCell, HasRule, Evaluating
  <2>3. value[c] \in Content
    BY DEF IInv, TypeOK
  <2>4. TypeOK'
    BY <1>0, <1>1, <2>1, <2>3 DEF IInv, TypeOK, GraphOK, batchVars
  <2>5. DirtyIsEmpty' /\ NoNestedEvaluation'
    BY <1>1, <2>1, <2>2 DEF IInv, DirtyIsEmpty, NoNestedEvaluation
  <2> QED
    BY <1>0, <1>1, <2>2, <2>4, <2>5 DEF IInv, StackOK
<1>2. CASE /\ ~Supplied(c)
           /\ Evaluate(c)
           /\ task' = "read" /\ answer' = {}
           /\ UNCHANGED graphVars
  <2>1. c \in RuleCell
    BY <1>2 DEF Supplied
  <2>2. TypeOK'
    BY <1>0, <1>2, <2>1, EnterInv DEF IInv, TypeOK, batchVars, graphVars, Tasks
  <2> QED
    BY <1>0, <1>2, <2>1, <2>2, EnterInv DEF IInv, StackOK
<1> QED
  BY <1>1, <1>2 DEF ReadCell

(* A view that starts keeps IInv.                                           *)
LEMMA ViewCellInv ==
  ASSUME IInv, NEW c \in Cell, ViewCell(c)
  PROVE  IInv'
<1>0. /\ stack = <<>> /\ task = "idle"
      /\ UNCHANGED <<override, rule, graphVars, batchVars, todo>>
  BY DEF ViewCell, Idle, IInv, StackOK
<1>1. CASE /\ answer' = {[cell |-> c, value |-> value[c]]}
           /\ UNCHANGED <<value, stack, task>>
  <2>1. value[c] \in Content
    BY DEF IInv, TypeOK
  <2>2. RuleCell' = RuleCell /\ Evaluating' = Evaluating
    BY <1>0, <1>1 DEF RuleCell, HasRule, Evaluating
  <2>3. TypeOK'
    BY <1>0, <1>1, <2>1 DEF IInv, TypeOK, graphVars, batchVars
  <2> QED
    BY <1>0, <1>1, <2>2, <2>3
    DEF IInv, StackOK, DirtyIsEmpty, NoNestedEvaluation, graphVars
<1>2. CASE /\ c \in RuleCell
           /\ Evaluate(c)
           /\ task' = "view" /\ answer' = {}
  <2>1. TypeOK'
    BY <1>0, <1>2, EnterInv DEF IInv, TypeOK, batchVars, graphVars, Tasks
  <2> QED
    BY <1>0, <1>2, <2>1, EnterInv DEF IInv, StackOK
<1> QED
  BY <1>1, <1>2 DEF ViewCell

(* The recompute of one cell of a frontier keeps IInv.                      *)
LEMMA RecomputeCellInv ==
  ASSUME IInv, NEW c \in Cell, RecomputeCell(c)
  PROVE  IInv'
<1>0. /\ stack = <<>> /\ task # "idle"
      /\ UNCHANGED <<override, rule, graphVars, task, batchVars, answer>>
      /\ todo' \subseteq Cell
  BY DEF RecomputeCell, IInv, TypeOK
<1>1. CASE c \in RuleCell /\ Evaluate(c)
  <2>1. TypeOK'
    BY <1>0, <1>1, EnterInv DEF IInv, TypeOK, batchVars, graphVars
  <2> QED
    BY <1>0, <1>1, <2>1, EnterInv DEF IInv, StackOK
<1>2. CASE UNCHANGED <<value, stack>>
  <2>1. RuleCell' = RuleCell /\ Evaluating' = Evaluating
    BY <1>0, <1>2 DEF RuleCell, HasRule, Evaluating
  <2>2. TypeOK'
    BY <1>0, <1>2 DEF IInv, TypeOK, graphVars, batchVars
  <2> QED
    BY <1>0, <1>2, <2>1, <2>2
    DEF IInv, StackOK, DirtyIsEmpty, NoNestedEvaluation, graphVars
<1> QED
  BY <1>1, <1>2 DEF RecomputeCell

(* The evaluation of one cell of the sweep keeps IInv.                      *)
LEMMA BootstrapCellInv ==
  ASSUME IInv, NEW c \in Cell, BootstrapCell(c)
  PROVE  IInv'
<1>0. /\ stack = <<>> /\ task # "idle"
      /\ UNCHANGED <<override, rule, task, batchVars, answer>>
      /\ todo' \subseteq Cell
  BY DEF BootstrapCell, IInv, TypeOK
<1>1. CASE Supply(c, {}) /\ UNCHANGED <<value, stack>>
  <2>1. GraphOK' /\ dirty' \subseteq dirty
    BY <1>1, SupplyGraph DEF IInv
  <2>2. RuleCell' = RuleCell /\ Evaluating' = Evaluating
    BY <1>0, <1>1 DEF RuleCell, HasRule, Evaluating
  <2>3. TypeOK'
    BY <1>0, <1>1, <2>1 DEF IInv, TypeOK, GraphOK, batchVars
  <2>4. DirtyIsEmpty' /\ NoNestedEvaluation'
    BY <1>1, <2>1, <2>2 DEF IInv, DirtyIsEmpty, NoNestedEvaluation
  <2> QED
    BY <1>0, <2>2, <2>3, <2>4 DEF IInv, StackOK
<1>2. CASE ~Supplied(c) /\ Evaluate(c) /\ UNCHANGED graphVars
  <2>1. c \in RuleCell
    BY <1>2 DEF Supplied
  <2>2. TypeOK'
    BY <1>0, <1>2, <2>1, EnterInv DEF IInv, TypeOK, batchVars, graphVars
  <2> QED
    BY <1>0, <1>2, <2>1, <2>2, EnterInv DEF IInv, StackOK
<1> QED
  BY <1>1, <1>2 DEF BootstrapCell

(* An edit, which marks and unmarks in one call, keeps IInv.                *)
LEMMA EditCellInv ==
  ASSUME IInv, NEW c \in Cell, NEW v \in Number \cup {Empty}, EditCell(c, v)
  PROVE  IInv'
<1> DEFINE dropped == {d \in RuleCell \ {c} : value[d] # Empty}
           reached == Reached(c, dropped)
<1>1. dropped \in SUBSET Cell
  BY DEF RuleCell
<1>2. reached \subseteq nodes \cup {c} /\ reached \subseteq Cell
  BY <1>1, ReachedHasNode DEF IInv, Reached
<1> HIDE DEF reached
<1>3. /\ override' = IF v = Empty THEN override \ {c} ELSE override \cup {c}
      /\ value' = [d \in Cell |-> IF d = c THEN v
                                  ELSE IF d \in reached \cap dropped THEN Empty
                                  ELSE value[d]]
      /\ dirty' = dirty \cup reached
      /\ nodes' = nodes \cup {c}
      /\ answer' = {}
      /\ UNCHANGED <<rule, precedents, tracked, stack, task, batchVars, todo>>
      /\ stack = <<>>
  BY DEF EditCell, reached, Idle, IInv, StackOK
<1>4. value' \in [Cell -> Content]
  BY <1>3 DEF IInv, TypeOK, Content
<1>5. override' \subseteq {d \in Cell : value'[d] \in Number}
  <2> SUFFICES ASSUME NEW d \in override' PROVE d \in Cell /\ value'[d] \in Number
    OBVIOUS
  <2>1. CASE d = c
    BY <1>3, <2>1
  <2>2. CASE d # c
    <3>1. d \in override /\ d \in Cell /\ value[d] \in Number
      BY <1>3, <2>2 DEF IInv, TypeOK
    <3>2. d \notin dropped
      BY <3>1 DEF RuleCell
    <3> QED
      BY <1>3, <2>2, <3>1, <3>2
  <2> QED
    BY <2>1, <2>2
<1>6. GraphOK'
  BY <1>2, <1>3 DEF IInv, TypeOK, GraphOK
<1>7. TypeOK'
  BY <1>3, <1>4, <1>5, <1>6 DEF IInv, TypeOK, GraphOK, batchVars
<1>8. DirtyIsEmpty'
  <2> SUFFICES ASSUME NEW d \in dirty', d \in RuleCell' PROVE value'[d] = Empty
    BY DEF DirtyIsEmpty
  <2>1. d \in Cell /\ rule[d] # NoRule /\ d \notin override'
    BY <1>3 DEF RuleCell, HasRule
  <2>2. CASE d = c
    BY <1>3, <2>1, <2>2
  <2>3. CASE d # c
    <3>1. d \in RuleCell
      BY <1>3, <2>1, <2>3 DEF RuleCell, HasRule
    <3>2. CASE d \in dirty
      BY <1>3, <2>1, <2>3, <3>1, <3>2 DEF IInv, DirtyIsEmpty
    <3>3. CASE d \in reached
      BY <1>3, <2>1, <2>3, <3>1, <3>3
    <3> QED
      BY <1>3, <3>2, <3>3
  <2> QED
    BY <2>2, <2>3
<1>9. StackOK' /\ NoNestedEvaluation'
  BY <1>3 DEF StackOK, Evaluating, NoNestedEvaluation
<1> QED
  BY <1>7, <1>8, <1>9 DEF IInv

(* A new rule keeps IInv.                                                   *)
LEMMA SetRuleInv ==
  ASSUME IInv, NEW n \in NewRules, SetRule(n[1], n[2])
  PROVE  IInv'
<1> DEFINE c == n[1]
           r == n[2]
<1>1. c \in Cell /\ r \in RulesOf(c) /\ r # NoRule
  BY RecalculationAssumption DEF RulesOf
<1>2. /\ rule' = [rule EXCEPT ![c] = r]
      /\ override' = override \ {c}
      /\ value' = [d \in Cell |-> IF d \in RuleCell \cup {c} THEN Empty ELSE value[d]]
      /\ nodes' = nodes \cup {c}
      /\ dirty' = nodes \cup {c}
      /\ stack' = <<[cell |-> c, read |-> [d \in {} |-> Empty]]>>
      /\ task' = "compute" /\ answer' = {}
      /\ UNCHANGED <<precedents, tracked, batchVars, todo>>
  BY DEF SetRule
<1>3. stack' \in Seq(Frame) /\ DOMAIN stack' = {1} /\ stack'[1].cell = c
  <2>1. [d \in {} |-> Empty] \in [{} -> Content]
    OBVIOUS
  <2>2. [cell |-> c, read |-> [d \in {} |-> Empty]] \in Frame
    BY <1>1, <2>1 DEF Frame, Reads
  <2> QED
    BY <1>2, <2>2
<1>4. value' \in [Cell -> Content]
  BY <1>2 DEF IInv, TypeOK, Content
<1>5. override' \subseteq {d \in Cell : value'[d] \in Number}
  BY <1>2 DEF IInv, TypeOK, RuleCell
<1>6. DOMAIN rule' = Cell /\ \A d \in Cell : rule'[d] \in RulesOf(d)
  BY <1>1, <1>2 DEF IInv, TypeOK
<1>7. GraphOK'
  BY <1>1, <1>2 DEF IInv, TypeOK, GraphOK
<1>8. TypeOK'
  BY <1>2, <1>3, <1>4, <1>5, <1>6, <1>7
  DEF IInv, TypeOK, GraphOK, batchVars, Tasks
<1>9. DirtyIsEmpty'
  BY <1>2 DEF DirtyIsEmpty, RuleCell, HasRule, IInv, TypeOK
<1>10. StackOK'
  <2>1. c \in RuleCell'
    BY <1>1, <1>2 DEF RuleCell, HasRule, IInv, TypeOK
  <2> QED
    BY <1>2, <1>3, <2>1 DEF StackOK, Evaluating
<1>11. NoNestedEvaluation'
  BY <1>3 DEF NoNestedEvaluation
<1> QED
  BY <1>8, <1>9, <1>10, <1>11 DEF IInv

(* The deletion of a rule keeps IInv.                                       *)
LEMMA DeleteRuleInv ==
  ASSUME IInv, NEW c \in Cell, DeleteRule(c)
  PROVE  IInv'
<1>1. /\ rule' = [rule EXCEPT ![c] = NoRule]
      /\ value' = IF c \in override THEN value ELSE [value EXCEPT ![c] = Empty]
      /\ answer' = {}
      /\ UNCHANGED <<override, graphVars, stack, task, batchVars, todo>>
      /\ stack = <<>>
  BY DEF DeleteRule, Idle, IInv, StackOK
<1>2. value' \in [Cell -> Content]
      /\ \A d \in Cell : d # c \/ c \in override => value'[d] = value[d]
  BY <1>1 DEF IInv, TypeOK, Content
<1>3. \A d \in Cell : rule'[d] \in RulesOf(d)
  BY <1>1 DEF IInv, TypeOK, RulesOf
<1>4. TypeOK'
  BY <1>1, <1>2, <1>3 DEF IInv, TypeOK, graphVars, batchVars
<1>5. RuleCell' = RuleCell \ {c}
  BY <1>1 DEF RuleCell, HasRule, IInv, TypeOK
<1>6. DirtyIsEmpty'
  BY <1>1, <1>2, <1>5 DEF IInv, DirtyIsEmpty, graphVars, RuleCell
<1>7. StackOK' /\ NoNestedEvaluation'
  BY <1>1 DEF StackOK, Evaluating, NoNestedEvaluation
<1> QED
  BY <1>4, <1>6, <1>7 DEF IInv

(* The schedule of a recalculation is made of dirty cells.                  *)
LEMMA StartFrontierType ==
  ASSUME NEW dirtyCells \in SUBSET Cell, StartFrontier(dirtyCells)
  PROVE  /\ batch' \subseteq Cell /\ done' \subseteq batch'
         /\ before' \in [Cell -> SUBSET batch']
         /\ frontier' \subseteq batch'
         /\ todo' \subseteq Cell
BY DEF StartFrontier, Ready

(* The start of a recompute keeps IInv.                                     *)
LEMMA RecomputeDirtyInv ==
  ASSUME IInv, RecomputeDirty
  PROVE  IInv'
<1>1. dirty \in SUBSET Cell /\ StartFrontier(dirty) /\ task' = "recompute"
      /\ answer' = {} /\ UNCHANGED <<cellVars, graphVars, stack>>
  BY DEF RecomputeDirty, IInv, TypeOK
<1>2. TypeOK'
  BY <1>1, StartFrontierType DEF IInv, TypeOK, cellVars, graphVars, Tasks
<1>3. RuleCell' = RuleCell /\ Evaluating' = Evaluating
  BY <1>1 DEF RuleCell, HasRule, Evaluating, cellVars
<1> QED
  BY <1>1, <1>2, <1>3
  DEF IInv, StackOK, DirtyIsEmpty, NoNestedEvaluation, cellVars, graphVars

(* The start of a full recalculation keeps IInv.                            *)
LEMMA RecalculateAllInv ==
  ASSUME IInv, RecalculateAll
  PROVE  IInv'
<1>1. /\ value' = [c \in Cell |-> IF c \in RuleCell THEN Empty ELSE value[c]]
      /\ dirty' = nodes
      /\ answer' = {}
      /\ UNCHANGED <<override, rule, nodes, precedents, tracked, stack>>
      /\ stack = <<>>
  BY DEF RecalculateAll, Idle, IInv, StackOK
<1>2. nodes \in SUBSET Cell /\ override \subseteq Cell /\ RuleCell \subseteq Cell
  BY DEF IInv, TypeOK, RuleCell
<1>3. /\ batch' \subseteq Cell /\ done' \subseteq batch'
      /\ before' \in [Cell -> SUBSET batch']
      /\ frontier' \subseteq batch'
      /\ todo' \subseteq Cell
      /\ task' \in Tasks
  <2>1. CASE StartFrontier(nodes) /\ task' = "recalculate"
    BY <1>2, <2>1, StartFrontierType DEF Tasks
  <2>2. CASE todo' = override \cup RuleCell /\ task' = "bootstrap" /\ UNCHANGED batchVars
    BY <1>2, <2>2 DEF IInv, TypeOK, batchVars, Tasks
  <2> QED
    BY <2>1, <2>2 DEF RecalculateAll
<1>4. value' \in [Cell -> Content]
      /\ override' \subseteq {c \in Cell : value'[c] \in Number}
  BY <1>1 DEF IInv, TypeOK, Content, RuleCell
<1>5. TypeOK'
  BY <1>1, <1>3, <1>4 DEF IInv, TypeOK
<1>6. DirtyIsEmpty'
  BY <1>1 DEF DirtyIsEmpty, RuleCell, HasRule
<1>7. StackOK' /\ NoNestedEvaluation'
  BY <1>1 DEF StackOK, Evaluating, NoNestedEvaluation
<1> QED
  BY <1>5, <1>6, <1>7 DEF IInv

(* The change from one frontier to the next keeps IInv.                     *)
LEMMA CloseFrontierInv ==
  ASSUME IInv, CloseFrontier
  PROVE  IInv'
<1> DEFINE next == Ready(batch, before, done \cup frontier)
<1>1. /\ stack = <<>>
      /\ dirty' \subseteq dirty
      /\ UNCHANGED <<cellVars, nodes, precedents, tracked, stack, answer>>
  BY DEF CloseFrontier
<1>2. /\ batch' \subseteq Cell /\ done' \subseteq batch'
      /\ before' \in [Cell -> SUBSET batch']
      /\ frontier' \subseteq batch'
      /\ todo' \subseteq Cell
      /\ task' \in Tasks
  <2>1. next \subseteq batch
    BY DEF Ready
  <2>2. CASE next = {}
    BY <2>2 DEF CloseFrontier, NoCells, Tasks
  <2>3. CASE next # {}
    BY <2>1, <2>3 DEF CloseFrontier, IInv, TypeOK
  <2> QED
    BY <2>2, <2>3
<1>3. TypeOK'
  BY <1>1, <1>2 DEF IInv, TypeOK, cellVars
<1>4. DirtyIsEmpty'
  BY <1>1 DEF IInv, DirtyIsEmpty, cellVars, RuleCell, HasRule
<1>5. StackOK' /\ NoNestedEvaluation'
  BY <1>1 DEF StackOK, Evaluating, NoNestedEvaluation
<1> QED
  BY <1>3, <1>4, <1>5 DEF IInv

(* The end of the sweep keeps IInv.                                         *)
LEMMA BootstrapDoneInv ==
  ASSUME IInv, BootstrapDone
  PROVE  IInv'
<1>1. /\ stack = <<>> /\ task' = "idle"
      /\ UNCHANGED <<cellVars, graphVars, stack, batchVars, todo, answer>>
  BY DEF BootstrapDone
<1>2. TypeOK'
  BY <1>1 DEF IInv, TypeOK, cellVars, graphVars, batchVars, Tasks
<1>3. DirtyIsEmpty'
  BY <1>1 DEF IInv, DirtyIsEmpty, cellVars, graphVars, RuleCell, HasRule
<1>4. StackOK' /\ NoNestedEvaluation'
  BY <1>1 DEF StackOK, Evaluating, NoNestedEvaluation
<1> QED
  BY <1>2, <1>3, <1>4 DEF IInv

-----------------------------------------------------------------------------
(* The invariant.                                                           *)

(* A new workspace satisfies IInv.                                          *)
LEMMA InitInv ==
  ASSUME Init
  PROVE  IInv
<1>1. \A c \in Cell : rule[c] \in RulesOf(c)
  BY DEF Init, RulesOf
<1>2. DOMAIN rule = Cell
  BY RecalculationAssumption DEF Init
<1>3. override \subseteq {c \in Cell : value[c] \in Number}
  BY DEF Init
<1>4. /\ value \in [Cell -> Content]
      /\ precedents \in [Cell -> SUBSET nodes] /\ before \in [Cell -> SUBSET batch]
      /\ \A c \in Cell : precedents[c] = {}
      /\ stack = <<>> /\ stack \in Seq(Frame)
      /\ task \in Tasks
  BY DEF Init, NoCells, Content, Tasks
<1>5. TypeOK
  BY <1>1, <1>2, <1>3, <1>4 DEF Init, TypeOK
<1>6. StackOK /\ NoNestedEvaluation /\ DirtyIsEmpty
  BY <1>4 DEF Init, StackOK, Evaluating, NoNestedEvaluation, DirtyIsEmpty
<1> QED
  BY <1>5, <1>6 DEF IInv

(* Every step of the engine keeps IInv.                                     *)
LEMMA NextInv ==
  ASSUME IInv, [Next]_vars
  PROVE  IInv'
<1>1. CASE Operation
  <2>1. ASSUME NEW c \in Cell, ReadCell(c) PROVE IInv'
    BY <2>1, ReadCellInv
  <2>2. ASSUME NEW c \in Cell, ViewCell(c) PROVE IInv'
    BY <2>2, ViewCellInv
  <2>3. ASSUME NEW c \in Cell, DeleteRule(c) PROVE IInv'
    BY <2>3, DeleteRuleInv
  <2>4. ASSUME NEW c \in Cell, NEW v \in Number \cup {Empty}, EditCell(c, v)
        PROVE  IInv'
    BY <2>4, EditCellInv
  <2>5. ASSUME NEW n \in NewRules, SetRule(n[1], n[2]) PROVE IInv'
    BY <2>5, SetRuleInv
  <2>6. CASE RecomputeDirty
    BY <2>6, RecomputeDirtyInv
  <2>7. CASE RecalculateAll
    BY <2>7, RecalculateAllInv
  <2> QED
    BY <1>1, <2>1, <2>2, <2>3, <2>4, <2>5, <2>6, <2>7 DEF Operation
<1>2. CASE Step
  <2>1. CASE ReadReference
    BY <2>1, ReadReferenceInv
  <2>2. CASE FinishEvaluation
    BY <2>2, FinishEvaluationInv
  <2>3. CASE FinishView
    BY <2>3, FinishViewInv
  <2>4. ASSUME NEW c \in Cell, RecomputeCell(c) PROVE IInv'
    BY <2>4, RecomputeCellInv
  <2>5. ASSUME NEW c \in Cell, BootstrapCell(c) PROVE IInv'
    BY <2>5, BootstrapCellInv
  <2>6. CASE CloseFrontier
    BY <2>6, CloseFrontierInv
  <2>7. CASE BootstrapDone
    BY <2>7, BootstrapDoneInv
  <2> QED
    BY <1>2, <2>1, <2>2, <2>3, <2>4, <2>5, <2>6, <2>7 DEF Step
<1>3. CASE UNCHANGED vars
  <2>1. TypeOK'
    BY <1>3 DEF IInv, TypeOK, vars, cellVars, graphVars, batchVars
  <2> QED
    BY <1>3, <2>1
    DEF IInv, StackOK, Evaluating, NoNestedEvaluation, DirtyIsEmpty, RuleCell,
        HasRule, vars, cellVars, graphVars
<1> QED
  BY <1>1, <1>2, <1>3 DEF Next

(* The inductive invariant: types, the shape of the stack of evaluations,   *)
(* no evaluation inside itself, no dirty rule cell with a value.            *)
THEOREM InvTheorem == Spec => []IInv
<1>1. Init => IInv
  BY InitInv
<1>2. IInv /\ [Next]_vars => IInv'
  BY NextInv
<1> QED
  BY <1>1, <1>2, PTL DEF Spec

(* Type correctness.                                                        *)
THEOREM TypeTheorem == Spec => []TypeOK
<1>1. IInv => TypeOK
  BY DEF IInv
<1> QED
  BY <1>1, InvTheorem, PTL

(* The recursion guard of _get_cell_by_addr keeps evaluations from nesting  *)
(* in themselves, whatever the rules refer to.                              *)
THEOREM NoNestedEvaluationTheorem == Spec => []NoNestedEvaluation
<1>1. IInv => NoNestedEvaluation
  BY DEF IInv
<1> QED
  BY <1>1, InvTheorem, PTL

(* A rule cell that is marked dirty holds no value, so that a view cannot   *)
(* show one.                                                                *)
THEOREM DirtyIsEmptyTheorem == Spec => []DirtyIsEmpty
<1>1. IInv => DirtyIsEmpty
  BY DEF IInv
<1> QED
  BY <1>1, InvTheorem, PTL

-----------------------------------------------------------------------------
(* Hard values.                                                             *)

(* No step of a running operation touches a hard value.                     *)
LEMMA StepKeepsHardValues ==
  ASSUME IInv, Step, NEW c \in override
  PROVE  c \in override' /\ value'[c] = value[c]
<1>0. c \in Cell /\ c \notin RuleCell
  BY DEF IInv, TypeOK, RuleCell
<1>1. ASSUME NEW d \in Cell, d \in RuleCell, Evaluate(d)
      PROVE  value'[c] = value[c]
  BY <1>0, <1>1 DEF Evaluate, IInv, TypeOK
<1>2. ASSUME stack # <<>>, NEW reads, NEW v, Conclude(Top.cell, reads, v)
      PROVE  c \in override' /\ value'[c] = value[c]
  <2>1. Top.cell \in RuleCell
    BY <1>2, BelowStack DEF IInv, StackOK
  <2> QED
    BY <1>0, <1>2, <2>1 DEF Conclude, IInv, TypeOK
<1>3. CASE ReadReference
  <2>1. PICK d \in NextRead(rule[Top.cell], Top.read) :
          ReadSupplied(d) \/ ReadEvaluated(d) \/ ReadCircular(d)
    BY <1>3 DEF ReadReference
  <2>2. stack # <<>> /\ d \in Cell
    BY <1>3, <2>1, ReferenceType DEF ReadReference
  <2>3. CASE ReadSupplied(d)
    BY <2>3 DEF ReadSupplied, cellVars
  <2>4. CASE ReadEvaluated(d)
    BY <1>1, <2>2, <2>4 DEF ReadEvaluated, Supplied
  <2>5. CASE ReadCircular(d)
    BY <1>2, <2>2, <2>5 DEF ReadCircular
  <2> QED
    BY <2>1, <2>3, <2>4, <2>5
<1>4. CASE FinishEvaluation
  BY <1>2, <1>4 DEF FinishEvaluation
<1>5. CASE FinishView \/ CloseFrontier \/ BootstrapDone
  BY <1>5 DEF FinishView, CloseFrontier, BootstrapDone, cellVars
<1>6. ASSUME NEW d \in Cell, RecomputeCell(d)
      PROVE  c \in override' /\ value'[c] = value[c]
  BY <1>1, <1>6 DEF RecomputeCell
<1>7. ASSUME NEW d \in Cell, BootstrapCell(d)
      PROVE  c \in override' /\ value'[c] = value[c]
  BY <1>1, <1>7 DEF BootstrapCell, Supplied
<1> QED
  BY <1>3, <1>4, <1>5, <1>6, <1>7 DEF Step

(* An operation takes a hard value away only if it edits the cell or gives  *)
(* it a rule.                                                               *)
LEMMA OperationKeepsHardValues ==
  ASSUME IInv, Operation, NEW c \in override
  PROVE  \/ c \in override' /\ value'[c] = value[c]
         \/ \E v \in Number \cup {Empty} : EditCell(c, v)
         \/ \E r \in RulesOf(c) : SetRule(c, r)
<1>0. c \in Cell /\ c \notin RuleCell
  BY DEF IInv, TypeOK, RuleCell
<1>1. ASSUME NEW d \in Cell, ReadCell(d) \/ ViewCell(d)
      PROVE  c \in override' /\ value'[c] = value[c]
  <2>1. CASE UNCHANGED <<value, override>>
    BY <2>1
  <2>2. CASE d \in RuleCell /\ Evaluate(d) /\ UNCHANGED override
    BY <1>0, <2>2 DEF Evaluate, IInv, TypeOK
  <2> QED
    BY <1>1, <2>1, <2>2 DEF ReadCell, ViewCell, Supplied
<1>2. ASSUME NEW d \in Cell, DeleteRule(d)
      PROVE  c \in override' /\ value'[c] = value[c]
  BY <1>0, <1>2 DEF DeleteRule, IInv, TypeOK
<1>3. ASSUME NEW d \in Cell, NEW v \in Number \cup {Empty}, EditCell(d, v), d # c
      PROVE  c \in override' /\ value'[c] = value[c]
  BY <1>0, <1>3 DEF EditCell
<1>4. ASSUME NEW n \in NewRules, SetRule(n[1], n[2])
      PROVE  \/ c \in override' /\ value'[c] = value[c]
             \/ \E r \in RulesOf(c) : SetRule(c, r)
  <2>1. CASE n[1] = c
    <3>1. n[2] \in RulesOf(c)
      BY <2>1 DEF RulesOf
    <3> QED
      BY <1>4, <2>1, <3>1
  <2>2. CASE n[1] # c
    BY <1>0, <1>4, <2>2 DEF SetRule
  <2> QED
    BY <2>1, <2>2
<1>5. CASE RecomputeDirty
  BY <1>5 DEF RecomputeDirty, cellVars
<1>6. CASE RecalculateAll
  BY <1>0, <1>6 DEF RecalculateAll
<1> QED
  BY <1>0, <1>1, <1>2, <1>3, <1>4, <1>5, <1>6 DEF Operation

(* Hard numbers win: evaluation, recalculation and deletion of rules never  *)
(* change a value the user typed.                                           *)
THEOREM HardValuesTheorem == Spec => HardValuesKept
<1> DEFINE Kept(c) ==
      \/ c \in override' /\ value'[c] = value[c]
      \/ \E v \in Number \cup {Empty} : EditCell(c, v)
      \/ \E r \in RulesOf(c) : SetRule(c, r)
<1>1. IInv /\ [Next]_vars => [\A c \in override : Kept(c)]_vars
  <2> SUFFICES ASSUME IInv, Next, NEW c \in override
               PROVE  Kept(c)
    OBVIOUS
  <2>1. CASE Step
    BY <2>1, StepKeepsHardValues
  <2>2. CASE Operation
    BY <2>2, OperationKeepsHardValues
  <2> QED
    BY <2>1, <2>2 DEF Next
<1> QED
  BY <1>1, InvTheorem, PTL DEF Spec, HardValuesKept

-----------------------------------------------------------------------------
(* Induction over the naturals.                                             *)

(* A set of naturals that is not empty has a least one.                     *)
LEMMA LeastNat ==
  ASSUME NEW T, T \subseteq Nat, T # {}
  PROVE  \E m \in T : \A n \in T : m <= n
<1> DEFINE R == {p \in Nat \X Nat : p[1] < p[2]}
<1>1. IsWellFoundedOn(R, Nat)
  BY NatLessThanWellFounded DEF OpToRel
<1>2. \A m, n \in Nat : n < m => <<n, m>> \in R
  OBVIOUS
<1> HIDE DEF R
<1>3. PICK m \in T : \A n \in T : ~ (<<n, m>> \in R)
  BY <1>1, WFMin
<1>4. \A n \in T : ~(n < m)
  BY <1>2, <1>3
<1>5. \A n \in T : m <= n
  BY <1>4
<1> QED
  BY <1>5

(* What holds of zero, and of a number that follows one it holds of, holds  *)
(* of all.                                                                  *)
LEMMA NatSetInduction ==
  ASSUME NEW S, 0 \in S, \A n \in Nat : n \in S => n + 1 \in S
  PROVE  Nat \subseteq S
<1> SUFFICES ASSUME ~(Nat \subseteq S) PROVE FALSE
  OBVIOUS
<1>1. PICK m \in Nat \ S : \A n \in Nat \ S : m <= n
  BY LeastNat
<1>2. m # 0 /\ m - 1 \in Nat
  BY <1>1
<1>3. m - 1 \in S
  BY <1>1, <1>2
<1> QED
  BY <1>1, <1>2, <1>3

-----------------------------------------------------------------------------
(* What a rule needs, and its result, depend on what it reads.              *)

(* The references that are read, and those after which a rule goes on.      *)
GoesOn(r, f, x) == x \in DOMAIN f /\ f[x] # CIRC /\ (r.kind = "if" => Num(f[x]) # 0)
Index(r, f) == {k \in DOMAIN r.refs : \A l \in 1..(k - 1) : GoesOn(r, f, r.refs[l])}

(* Needed, by indices.                                                      *)
LEMMA NeededIs ==
  ASSUME NEW r, NEW f
  PROVE  Needed(r, f) = {r.refs[i] : i \in Index(r, f)}
<1>1. Index(r, f) = {k \in DOMAIN r.refs :
                      \A l \in 1..(k - 1) :
                        /\ r.refs[l] \in DOMAIN f
                        /\ f[r.refs[l]] # CIRC
                        /\ r.kind = "if" => Num(f[r.refs[l]]) # 0}
  BY DEF Index, GoesOn
<1> QED
  BY <1>1, Zenon DEF Needed

(* More is needed when more has been read.                                  *)
LEMMA IndexGrows ==
  ASSUME NEW r, NEW f, NEW g,
         \A x : x \in DOMAIN f /\ f[x] # CIRC => x \in DOMAIN g /\ g[x] = f[x]
  PROVE  Index(r, f) \subseteq Index(r, g)
BY DEF Index, GoesOn

(* ... likewise for the cells.                                              *)
LEMMA NeededGrows ==
  ASSUME NEW r, NEW f, NEW g,
         \A x : x \in DOMAIN f /\ f[x] # CIRC => x \in DOMAIN g /\ g[x] = f[x]
  PROVE  Needed(r, f) \subseteq Needed(r, g)
<1>1. Index(r, f) \subseteq Index(r, g)
  BY IndexGrows
<1> QED
  BY <1>1, NeededIs

(* A rule that has read all it needs needs the same of a setting that holds *)
(* what it has read.                                                        *)
LEMMA NeededSettles ==
  ASSUME NEW S, NEW r, r.refs \in Seq(S), NEW f, NEW g,
         NextRead(r, f) = {},
         \A x \in DOMAIN f : x \in DOMAIN g /\ g[x] = f[x]
  PROVE  Needed(r, g) = Needed(r, f)
<1>1. Index(r, f) \subseteq Index(r, g)
  BY IndexGrows
<1>2. DOMAIN r.refs = 1..Len(r.refs) /\ Len(r.refs) \in Nat
  OBVIOUS
<1>3. Index(r, g) \subseteq Index(r, f)
  <2> SUFFICES ASSUME Index(r, g) \ Index(r, f) # {} PROVE FALSE
    OBVIOUS
  <2>1. Index(r, g) \ Index(r, f) \subseteq Nat
    BY <1>2 DEF Index
  <2>2. PICK k \in Index(r, g) \ Index(r, f) :
          \A n \in Index(r, g) \ Index(r, f) : k <= n
    BY <2>1, LeastNat
  <2>3. k \in 1..Len(r.refs) /\ \A l \in 1..(k - 1) : GoesOn(r, g, r.refs[l])
    BY <1>2, <2>2 DEF Index
  <2>4. PICK l \in 1..(k - 1) : ~GoesOn(r, f, r.refs[l])
    BY <1>2, <2>2, <2>3 DEF Index
  <2>5. l \in Index(r, g) /\ ~(k <= l)
    BY <1>2, <2>3 DEF Index
  <2>6. l \in Index(r, f)
    BY <2>2, <2>5
  <2>7. r.refs[l] \in Needed(r, f)
    BY <2>6, NeededIs
  <2>8. r.refs[l] \in DOMAIN f
    BY <2>7 DEF NextRead
  <2> QED
    BY <2>3, <2>4, <2>8 DEF GoesOn
<1>4. Index(r, g) = Index(r, f)
  BY <1>1, <1>3
<1> QED
  BY <1>4, NeededIs

(* The result depends on what is needed.                                    *)
LEMMA SameResult ==
  ASSUME NEW S, NEW r, r.refs \in Seq(S), r.kind # "if" \/ Len(r.refs) = 2, NEW f, NEW g,
         Needed(r, g) = Needed(r, f), Needed(r, f) \subseteq DOMAIN f,
         \A x \in Needed(r, f) : g[x] = f[x],
         r.kind \in {"all", "if"}
  PROVE  Result(r, g) = Result(r, f)
<1>1. CASE \E x \in Needed(r, f) : f[x] = CIRC
  BY <1>1 DEF Result
<1>2. CASE ~(\E x \in Needed(r, f) : f[x] = CIRC) /\ r.kind = "all"
  <2>1. Numbers(r, g) = Numbers(r, f)
    BY DEF Numbers
  <2> QED
    BY <1>2, <2>1 DEF Result
<1>3. CASE ~(\E x \in Needed(r, f) : f[x] = CIRC) /\ r.kind = "if"
  <2>1. 1 \in DOMAIN r.refs /\ 2 \in DOMAIN r.refs
    BY <1>3
  <2>2. 1 \in Index(r, f)
    BY <2>1 DEF Index
  <2>3. r.refs[1] \in Needed(r, f)
    BY <2>2, NeededIs
  <2>4. ASSUME Num(f[r.refs[1]]) # 0
        PROVE  r.refs[2] \in Needed(r, f)
    <3>1. GoesOn(r, f, r.refs[1])
      BY <1>3, <2>3, <2>4 DEF GoesOn
    <3>2. 2 \in Index(r, f)
      BY <2>1, <3>1 DEF Index
    <3> QED
      BY <3>2, NeededIs
  <2> QED
    BY <1>3, <2>3, <2>4 DEF Result
<1> QED
  BY <1>1, <1>2, <1>3

(* Two settings that agree on what is needed in one of them.                *)
LEMMA ResultDepends ==
  ASSUME NEW S, NEW r, r.refs \in Seq(S), r.kind # "if" \/ Len(r.refs) = 2,
         r.kind \in {"all", "if"}, NEW f, NEW g,
         Needed(r, f) \subseteq DOMAIN f, Needed(r, f) \subseteq DOMAIN g,
         \A x \in Needed(r, f) : g[x] = f[x]
  PROVE  Needed(r, g) = Needed(r, f) /\ Result(r, g) = Result(r, f)
<1> DEFINE h == [x \in Needed(r, f) |-> f[x]]
<1>1. DOMAIN h = Needed(r, f) /\ \A x \in Needed(r, f) : h[x] = f[x]
  OBVIOUS
<1> HIDE DEF h
<1>2. Needed(r, h) \subseteq Needed(r, f)
  BY <1>1, NeededGrows
<1>3. NextRead(r, h) = {}
  BY <1>1, <1>2 DEF NextRead
<1>4. Needed(r, f) = Needed(r, h)
  BY <1>1, <1>3, NeededSettles
<1>5. Needed(r, g) = Needed(r, h)
  BY <1>1, <1>3, NeededSettles
<1> QED
  BY <1>1, <1>4, <1>5, SameResult

(* The cells a rule reads in no particular order: one at a time is next.    *)
LEMMA NextReadSingle ==
  ASSUME NEW S, NEW r, r.refs \in Seq(S), NEW f, NEW x \in NextRead(r, f), NEW y \in NextRead(r, f)
  PROVE  x = y
<1>1. DOMAIN r.refs = 1..Len(r.refs) /\ Len(r.refs) \in Nat
  OBVIOUS
<1>2. PICK i \in Index(r, f) : x = r.refs[i]
  BY NeededIs DEF NextRead
<1>3. PICK k \in Index(r, f) : y = r.refs[k]
  BY NeededIs DEF NextRead
<1>4. i \in 1..Len(r.refs) /\ k \in 1..Len(r.refs)
  BY <1>1 DEF Index
<1>5. ~(i < k)
  <2> SUFFICES ASSUME i < k PROVE FALSE
    OBVIOUS
  <2>1. i \in 1..(k - 1)
    BY <1>4
  <2>2. GoesOn(r, f, r.refs[i])
    BY <2>1 DEF Index
  <2> QED
    BY <1>2, <2>2 DEF GoesOn, NextRead
<1>6. ~(k < i)
  <2> SUFFICES ASSUME k < i PROVE FALSE
    OBVIOUS
  <2>1. k \in 1..(i - 1)
    BY <1>4
  <2>2. GoesOn(r, f, r.refs[k])
    BY <2>1 DEF Index
  <2> QED
    BY <1>3, <2>2 DEF GoesOn, NextRead
<1>7. i = k
  BY <1>4, <1>5, <1>6
<1> QED
  BY <1>2, <1>3, <1>7

(* A rule that reads an error has read all it needs.                        *)
LEMMA ErrorEnds ==
  ASSUME NEW S, NEW r, r.refs \in Seq(S), NEW f, NEW c \in NextRead(r, f),
         NEW g, DOMAIN g = DOMAIN f \cup {c}, g[c] = CIRC,
         \A x \in DOMAIN f : x # c => g[x] = f[x]
  PROVE  NextRead(r, g) = {}
<1>1. Needed(r, g) \subseteq Needed(r, f)
  BY NeededGrows DEF NextRead
<1>2. Needed(r, f) \subseteq DOMAIN f \cup {c}
  BY NextReadSingle DEF NextRead
<1> QED
  BY <1>1, <1>2 DEF NextRead

-----------------------------------------------------------------------------
(* What cells should show, as a fixpoint.                                   *)

(* A rule reads cells, with all of its references or as IF.                 *)
LEMMA RuleShape ==
  ASSUME NEW c \in Cell, NEW r \in RulesOf(c), r # NoRule
  PROVE  /\ r.refs \in Seq(Cell)
         /\ \A i \in DOMAIN r.refs : r.refs[i] \in Cell
         /\ r.kind \in {"all", "if"}
         /\ r.kind # "if" \/ Len(r.refs) = 2
<1>1. IsRule(c, r)
  BY RecalculationAssumption
<1>2. r.kind # "none"
  BY <1>1 DEF IsRule, NoRule
<1>3. r.refs \in Seq(Cell)
  BY <1>1 DEF IsRule
<1> QED
  BY <1>1, <1>2, <1>3 DEF IsRule

(* A rule needs cells.                                                      *)
LEMMA NeededType ==
  ASSUME NEW c \in Cell, NEW r \in RulesOf(c), r # NoRule, NEW f
  PROVE  Needed(r, f) \subseteq Cell
<1>1. \A i \in DOMAIN r.refs : r.refs[i] \in Cell
  BY RuleShape
<1> QED
  BY <1>1, NeededIs DEF Index

(* What a rule yields is a number or CIRC, but never nothing.               *)
LEMMA ResultNotEmpty ==
  ASSUME NEW c \in Cell, NEW r \in RulesOf(c), r # NoRule,
         NEW read \in Reads, NextRead(r, read) = {}
  PROVE  Result(r, read) \in Content \ {Empty}
<1>1. Result(r, read) \in Content
  BY ResultType
<1>2. IsRule(c, r)
  BY RecalculationAssumption
<1>3. CASE r.kind = "all"
  <2>1. DOMAIN read \subseteq Cell /\ \A d \in DOMAIN read : read[d] \in Content
    BY DEF Reads
  <2>2. Needed(r, read) \subseteq DOMAIN read
    BY DEF NextRead
  <2>3. Numbers(r, read) \in [Cell -> Number]
    BY RecalculationAssumption DEF Numbers
  <2>4. Compute(r, Numbers(r, read)) \in Number
    BY <1>2, <1>3, <2>3 DEF IsRule
  <2> QED
    BY <1>1, <1>3, <2>4, RecalculationAssumption DEF Result
<1>4. CASE r.kind # "all"
  BY <1>1, <1>4, RecalculationAssumption DEF Result, Num
<1> QED
  BY <1>3, <1>4

(* Rules, hard values and the cells that show their rule's value.           *)
Setting(R, v, C) ==
  /\ C \subseteq Cell /\ v \in [Cell -> Content]
  /\ \A c \in C : R[c] \in RulesOf(c) /\ R[c] # NoRule

Showing == [Cell -> Content]

(* A rule over what all cells show.                                         *)
LEMMA ResultOver ==
  ASSUME NEW c \in Cell, NEW r \in RulesOf(c), r # NoRule, NEW f \in Showing
  PROVE  /\ Needed(r, f) \subseteq Cell /\ DOMAIN f = Cell
         /\ Result(r, f) \in Content \ {Empty}
<1>1. Needed(r, f) \subseteq Cell
  BY NeededType
<1>2. DOMAIN f = Cell /\ f \in Reads
  BY DEF Showing, Reads
<1>3. NextRead(r, f) = {}
  BY <1>1, <1>2 DEF NextRead
<1> QED
  BY <1>1, <1>2, <1>3, ResultNotEmpty

(* The iteration of Denotation: it starts with errors everywhere.           *)
Bottom == [c \in Cell |-> CIRC]
Once(R, v, C, f) == [c \in Cell |-> IF c \in C THEN Result(R[c], f) ELSE v[c]]
Iterate(R, v, C, den, n) == IF n = 0 THEN Bottom ELSE Once(R, v, C, den[n - 1])
AreIterates(R, v, C, den, N) == den = [n \in 0..N |-> Iterate(R, v, C, den, n)]
Iterates(R, v, C) == CHOOSE den : AreIterates(R, v, C, den, Cardinality(Cell))
Den(R, v, C) == Iterates(R, v, C)[Cardinality(Cell)]

(* Denotation is where it ends.                                             *)
LEMMA DenotationIs ==
  /\ Denotation = Den(rule, value, RuleCell)
  /\ Denotation' = Den(rule', value', RuleCell')
BY Zenon DEF Denotation, Den, Iterates, AreIterates, Iterate, Once, Bottom

(* There are such functions, of every length.                               *)
LEMMA IteratesExist ==
  ASSUME NEW R, NEW v, NEW C, NEW N \in Nat
  PROVE  \E f : AreIterates(R, v, C, f, N)
<1> DEFINE Is(f, k) == f = [n \in 0..k |-> Iterate(R, v, C, f, n)]
           S == {k \in Nat : \E f : Is(f, k)}
<1>1. 0 \in S
  <2>1. PICK f : f = [n \in 0..0 |-> Bottom]
    OBVIOUS
  <2>2. Is(f, 0)
    BY <2>1 DEF Iterate
  <2> QED
    BY <2>2
<1>2. ASSUME NEW k \in Nat, k \in S PROVE k + 1 \in S
  <2>1. PICK f : Is(f, k)
    BY <1>2
  <2> DEFINE g == [n \in 0..k + 1 |-> IF n = k + 1 THEN Iterate(R, v, C, f, n) ELSE f[n]]
  <2>2. \A n \in 0..k : g[n] = f[n] /\ f[n] = Iterate(R, v, C, f, n)
    BY <2>1
  <2>3. \A n \in 0..k + 1 : Iterate(R, v, C, g, n) = Iterate(R, v, C, f, n)
    <3> SUFFICES ASSUME NEW n \in 0..k + 1, n # 0 PROVE g[n - 1] = f[n - 1]
      BY DEF Iterate
    <3>1. n - 1 \in 0..k
      OBVIOUS
    <3> QED
      BY <2>2, <3>1
  <2>4. g[k + 1] = Iterate(R, v, C, f, k + 1) /\ DOMAIN g = 0..k + 1
    OBVIOUS
  <2>5. \A n \in 0..k + 1 : g[n] = Iterate(R, v, C, g, n)
    <3> SUFFICES ASSUME NEW n \in 0..k + 1 PROVE g[n] = Iterate(R, v, C, f, n)
      BY <2>3
    <3>1. n = k + 1 \/ n \in 0..k
      OBVIOUS
    <3> QED
      BY <2>2, <2>4, <3>1
  <2>6. Is(g, k + 1)
    BY <2>4, <2>5
  <2> HIDE DEF g
  <2> QED
    BY <2>6
<1> HIDE DEF S
<1>3. Nat \subseteq S
  BY <1>1, <1>2, NatSetInduction
<1> QED
  BY <1>3 DEF S, AreIterates

(* Cells can be counted.                                                    *)
LEMMA CellCount == Cardinality(Cell) \in Nat
BY RecalculationAssumption, FS_CardinalityType

(* Each iterate is made of the one before.                                  *)
LEMMA IteratesEquation ==
  ASSUME NEW R, NEW v, NEW C
  PROVE  \A n \in 0..Cardinality(Cell) :
           Iterates(R, v, C)[n] = Iterate(R, v, C, Iterates(R, v, C), n)
<1>1. \E f : AreIterates(R, v, C, f, Cardinality(Cell))
  BY CellCount, IteratesExist
<1> DEFINE it == Iterates(R, v, C)
<1>2. it = [n \in 0..Cardinality(Cell) |-> Iterate(R, v, C, it, n)]
  BY <1>1 DEF Iterates, AreIterates
<1> HIDE DEF it
<1>3. \A n \in 0..Cardinality(Cell) : it[n] = Iterate(R, v, C, it, n)
  BY <1>2
<1> QED
  BY <1>3 DEF it

(* An error may become a value, and a value stays.                          *)
Weaker(f, g) == \A c \in Cell : f[c] = CIRC \/ f[c] = g[c]

(* What is weaker than a weaker setting is weaker.                          *)
LEMMA WeakerTransitive ==
  ASSUME NEW f, NEW g, NEW h, Weaker(f, g), Weaker(g, h)
  PROVE  Weaker(f, h)
BY DEF Weaker

(* Where more is known, a rule yields the same or, instead of an error, a   *)
(* value.                                                                   *)
LEMMA OnceGrows ==
  ASSUME NEW R, NEW v, NEW C, Setting(R, v, C),
         NEW f \in Showing, NEW g \in Showing, Weaker(f, g)
  PROVE  Weaker(Once(R, v, C, f), Once(R, v, C, g))
<1> SUFFICES ASSUME NEW c \in C, c \in Cell, Result(R[c], f) # CIRC
             PROVE  Result(R[c], f) = Result(R[c], g)
  BY DEF Weaker, Once
<1> DEFINE r == R[c]
<1>1. r \in RulesOf(c) /\ r # NoRule
  BY DEF Setting
<1> HIDE DEF r
<1>2. Needed(r, f) \subseteq Cell /\ DOMAIN f = Cell /\ DOMAIN g = Cell
  BY <1>1, ResultOver
<1>3. \A x \in Needed(r, f) : f[x] # CIRC
  BY DEF Result, r
<1>4. \A x \in Needed(r, f) : g[x] = f[x]
  BY <1>2, <1>3 DEF Weaker
<1>5. r.refs \in Seq(Cell) /\ r.kind \in {"all", "if"} /\ (r.kind # "if" \/ Len(r.refs) = 2)
  BY <1>1, RuleShape
<1>6. Result(r, g) = Result(r, f)
  BY <1>2, <1>4, <1>5, ResultDepends
<1> QED
  BY <1>6 DEF r

(* Once makes of a setting another.                                         *)
LEMMA OnceType ==
  ASSUME NEW R, NEW v, NEW C, Setting(R, v, C), NEW f \in Showing
  PROVE  Once(R, v, C, f) \in Showing
<1>1. \A c \in C : Result(R[c], f) \in Content
  BY ResultOver DEF Setting
<1> QED
  BY <1>1 DEF Once, Showing, Setting

(* What holds of errors everywhere, and is kept by Once where Once adds to  *)
(* what is known, holds of what cells should show.                          *)
LEMMA DenInduction ==
  ASSUME NEW R, NEW v, NEW C, Setting(R, v, C), NEW P, Bottom \in P,
         \A f \in Showing :
           f \in P /\ Weaker(f, Once(R, v, C, f)) => Once(R, v, C, f) \in P
  PROVE  /\ Den(R, v, C) \in P /\ Den(R, v, C) \in Showing
         /\ Weaker(Den(R, v, C), Once(R, v, C, Den(R, v, C)))
<1> DEFINE it == Iterates(R, v, C)
           Next1(f) == Once(R, v, C, f)
           N == Cardinality(Cell)
           S == {n \in Nat : n <= N =>
                   it[n] \in P /\ it[n] \in Showing /\ Weaker(it[n], Next1(it[n]))}
<1>1. N \in Nat
  BY CellCount
<1>2. \A n \in 0..N : it[n] = Iterate(R, v, C, it, n)
  BY IteratesEquation
<1> HIDE DEF it, N
<1>3. 0 \in S
  <2>1. it[0] = Bottom
    BY <1>1, <1>2 DEF Iterate
  <2>2. Bottom \in Showing /\ \A g : Weaker(Bottom, g)
    BY DEF Bottom, Showing, Content, Weaker
  <2> HIDE DEF Next1
  <2> QED
    BY <2>1, <2>2
<1>4. ASSUME NEW n \in Nat, n \in S PROVE n + 1 \in S
  <2> SUFFICES ASSUME n + 1 <= N
               PROVE  it[n + 1] \in P /\ it[n + 1] \in Showing
                      /\ Weaker(it[n + 1], Next1(it[n + 1]))
    OBVIOUS
  <2>1. it[n + 1] = Next1(it[n])
    <3>1. n + 1 \in 0..N /\ n + 1 # 0 /\ (n + 1) - 1 = n
      BY <1>1
    <3> QED
      BY <1>2, <3>1 DEF Iterate
  <2>2. it[n] \in P /\ it[n] \in Showing /\ Weaker(it[n], Next1(it[n]))
    BY <1>1, <1>4
  <2>3. Next1(it[n]) \in P
    BY <2>2
  <2>4. Next1(it[n]) \in Showing
    BY <2>2, OnceType
  <2>5. Weaker(Next1(it[n]), Next1(Next1(it[n])))
    BY <2>2, <2>4, OnceGrows
  <2> HIDE DEF Next1
  <2> QED
    BY <2>1, <2>3, <2>4, <2>5
<1> HIDE DEF S
<1>5. Nat \subseteq S
  BY <1>3, <1>4, NatSetInduction
<1>6. it[N] \in P /\ it[N] \in Showing /\ Weaker(it[N], Next1(it[N]))
  BY <1>1, <1>5 DEF S
<1> QED
  BY <1>6 DEF Den, it, N

(* The cells with more than an error.                                       *)
Known(f) == {c \in Cell : f[c] # CIRC}

(* What is known grows, or stays for good.                                  *)
LEMMA KnownGrows ==
  ASSUME NEW f \in Showing, NEW g \in Showing, Weaker(f, g), f # g
  PROVE  /\ Cardinality(Known(f)) \in Nat /\ Cardinality(Known(g)) \in Nat
         /\ Cardinality(Known(g)) > Cardinality(Known(f))
<1>1. Known(f) \subseteq Known(g) /\ Known(f) # Known(g)
  <2>1. PICK c \in Cell : f[c] # g[c]
    BY DEF Showing
  <2>2. c \in Known(g) /\ c \notin Known(f)
    BY <2>1 DEF Known, Weaker
  <2>3. Known(f) \subseteq Known(g)
    BY DEF Known, Weaker
  <2> QED
    BY <2>2, <2>3
<1>2. IsFiniteSet(Known(g))
  BY RecalculationAssumption, FS_Subset DEF Known
<1>3. IsFiniteSet(Known(f))
  BY RecalculationAssumption, FS_Subset DEF Known
<1>4. Cardinality(Known(f)) \in Nat /\ Cardinality(Known(g)) \in Nat
  BY <1>2, <1>3, FS_CardinalityType
<1>5. /\ Cardinality(Known(f)) <= Cardinality(Known(g))
      /\ Cardinality(Known(g)) = Cardinality(Known(f)) => Known(g) = Known(f)
  BY <1>1, <1>2, FS_Subset
<1> QED
  BY <1>1, <1>4, <1>5

(* The iteration has come to an end: what cells should show is what the     *)
(* rules yield over it, and the hard values.                                *)
LEMMA DenFixpoint ==
  ASSUME NEW R, NEW v, NEW C, Setting(R, v, C)
  PROVE  Once(R, v, C, Den(R, v, C)) = Den(R, v, C)
<1> DEFINE it == Iterates(R, v, C)
           Next1(f) == Once(R, v, C, f)
           N == Cardinality(Cell)
           S == {n \in Nat : n <= N =>
                   /\ it[n] \in Showing /\ Weaker(it[n], Next1(it[n]))
                   /\ Next1(it[n]) = it[n] \/ Cardinality(Known(it[n])) >= n}
<1>1. N \in Nat
  BY CellCount
<1>2. \A n \in 0..N : it[n] = Iterate(R, v, C, it, n)
  BY IteratesEquation
<1> HIDE DEF it, N
<1>3. 0 \in S
  <2>1. it[0] = Bottom
    BY <1>1, <1>2 DEF Iterate
  <2>2. Bottom \in Showing /\ \A g : Weaker(Bottom, g)
    BY DEF Bottom, Showing, Content, Weaker
  <2>3. IsFiniteSet(Known(Bottom))
    BY RecalculationAssumption, FS_Subset DEF Known
  <2>4. Cardinality(Known(Bottom)) >= 0
    BY <2>3, FS_CardinalityType
  <2> HIDE DEF Next1
  <2> QED
    BY <2>1, <2>2, <2>4
<1>4. ASSUME NEW n \in Nat, n \in S PROVE n + 1 \in S
  <2> SUFFICES ASSUME n + 1 <= N
               PROVE  /\ it[n + 1] \in Showing /\ Weaker(it[n + 1], Next1(it[n + 1]))
                      /\ Next1(it[n + 1]) = it[n + 1] \/ Cardinality(Known(it[n + 1])) >= n + 1
    OBVIOUS
  <2> DEFINE f == it[n]
             g == Next1(f)
  <2>1. it[n + 1] = g
    <3>1. n + 1 \in 0..N /\ n + 1 # 0 /\ (n + 1) - 1 = n
      BY <1>1
    <3> QED
      BY <1>2, <3>1 DEF Iterate
  <2>2. f \in Showing /\ Weaker(f, g) /\ (g = f \/ Cardinality(Known(f)) >= n)
    BY <1>1, <1>4
  <2> HIDE DEF f
  <2>3. g \in Showing
    BY <2>2, OnceType
  <2>4. Weaker(g, Next1(g))
    BY <2>2, <2>3, OnceGrows
  <2>5. Next1(g) = g \/ Cardinality(Known(g)) >= n + 1
    <3>1. CASE g = f
      BY <3>1
    <3>2. CASE g # f
      <4> HIDE DEF g
      <4>1. /\ Cardinality(Known(f)) \in Nat /\ Cardinality(Known(g)) \in Nat
            /\ Cardinality(Known(g)) > Cardinality(Known(f))
        BY <2>2, <2>3, <3>2, KnownGrows
      <4> QED
        BY <2>2, <3>2, <4>1
    <3> QED
      BY <3>1, <3>2
  <2> HIDE DEF g, Next1
  <2> QED
    BY <2>1, <2>3, <2>4, <2>5
<1> HIDE DEF S
<1>5. Nat \subseteq S
  BY <1>3, <1>4, NatSetInduction
<1> DEFINE D == it[N]
<1>6. /\ D \in Showing /\ Weaker(D, Next1(D))
      /\ Next1(D) = D \/ Cardinality(Known(D)) >= N
  BY <1>1, <1>5 DEF S
<1> HIDE DEF D
<1>7. Next1(D) \in Showing
  BY <1>6, OnceType
<1>8. Next1(D) = D
  <2> SUFFICES ASSUME Next1(D) # D PROVE FALSE
    OBVIOUS
  <2> HIDE DEF Next1
  <2>1. /\ Cardinality(Known(D)) \in Nat /\ Cardinality(Known(Next1(D))) \in Nat
        /\ Cardinality(Known(Next1(D))) > Cardinality(Known(D))
    BY <1>6, <1>7, KnownGrows
  <2>2. Known(Next1(D)) \subseteq Cell
    BY DEF Known
  <2>3. Cardinality(Known(Next1(D))) <= Cardinality(Cell)
    BY <2>2, RecalculationAssumption, FS_Subset
  <2> QED
    BY <1>1, <1>6, <2>1, <2>3 DEF N
<1> QED
  BY <1>8 DEF Den, it, N, D

(* Cells each of which needs one of the others, or itself, show errors.     *)
LEMMA CircleIsError ==
  ASSUME NEW R, NEW v, NEW C, Setting(R, v, C), NEW D, D = Den(R, v, C),
         NEW K, K \subseteq C, \A c \in K : Needed(R[c], D) \cap K # {}
  PROVE  \A c \in K : D[c] = CIRC
<1> DEFINE f == [c \in Cell |-> IF c \in K THEN CIRC ELSE D[c]]
           P == {g \in Showing : Weaker(g, f)}
<1>1. D \in Showing /\ Once(R, v, C, D) = D
  <2>1. D \in Showing
    <3>1. /\ Bottom \in Showing
          /\ \A g \in Showing : g \in Showing /\ Weaker(g, Once(R, v, C, g))
                                  => Once(R, v, C, g) \in Showing
      BY OnceType DEF Bottom, Showing, Content
    <3> QED
      BY <3>1, DenInduction
  <2> QED
    BY <2>1, DenFixpoint
<1>2. f \in Showing /\ Weaker(f, D)
  BY <1>1 DEF Showing, Content, Weaker
<1>3. \A c \in Cell : c \in K => f[c] = CIRC
  OBVIOUS
<1>4. \A c \in Cell : c \notin K => f[c] = D[c]
  OBVIOUS
<1> HIDE DEF f
<1>5. Weaker(Once(R, v, C, f), D)
  BY <1>1, <1>2, OnceGrows
<1>6. ASSUME NEW c \in K
      PROVE  Once(R, v, C, f)[c] = CIRC
  <2> DEFINE r == R[c]
  <2>1. c \in Cell /\ c \in C /\ r \in RulesOf(c) /\ r # NoRule
    BY DEF Setting
  <2> HIDE DEF r
  <2>2. Needed(r, f) \subseteq Cell /\ DOMAIN f = Cell /\ DOMAIN D = Cell
    BY <1>1, <1>2, <2>1, ResultOver
  <2>3. r.refs \in Seq(Cell) /\ r.kind \in {"all", "if"} /\ (r.kind # "if" \/ Len(r.refs) = 2)
    BY <2>1, RuleShape
  <2>4. ASSUME \A x \in Needed(r, f) : f[x] # CIRC
        PROVE  FALSE
    <3>1. \A x \in Needed(r, f) : D[x] = f[x]
      BY <1>2, <2>2, <2>4 DEF Weaker
    <3>2. Needed(r, D) = Needed(r, f)
      BY <2>2, <2>3, <3>1, ResultDepends
    <3>3. PICK x \in Needed(r, D) : x \in K
      BY DEF r
    <3> QED
      BY <1>3, <2>2, <2>4, <3>2, <3>3
  <2>5. Result(r, f) = CIRC
    BY <2>4 DEF Result
  <2> QED
    BY <2>1, <2>5 DEF Once, r
<1>7. Weaker(Once(R, v, C, f), f)
  BY <1>4, <1>5, <1>6 DEF Weaker
<1>8. Bottom \in P
  BY DEF Bottom, Showing, Content, Weaker
<1>9. ASSUME NEW g \in Showing, g \in P PROVE Once(R, v, C, g) \in P
  <2>1. Weaker(Once(R, v, C, g), Once(R, v, C, f))
    BY <1>2, <1>9, OnceGrows
  <2>2. Weaker(Once(R, v, C, g), f)
    BY <1>7, <2>1, WeakerTransitive
  <2> QED
    BY <2>2, OnceType
<1>10. D \in P
  <2> HIDE DEF P
  <2> QED
    BY <1>8, <1>9, DenInduction
<1> QED
  BY <1>3, <1>10 DEF Weaker, Setting

(* What cells should show is a setting that the rules yield.                *)
LEMMA DenEquation ==
  ASSUME NEW R, NEW v, NEW C, Setting(R, v, C), NEW D, D = Den(R, v, C)
  PROVE  /\ D \in Showing
         /\ \A c \in Cell : D[c] = IF c \in C THEN Result(R[c], D) ELSE v[c]
<1>1. /\ Bottom \in Showing
      /\ \A g \in Showing : g \in Showing /\ Weaker(g, Once(R, v, C, g))
                              => Once(R, v, C, g) \in Showing
  BY OnceType DEF Bottom, Showing, Content
<1>2. D \in Showing
  BY <1>1, DenInduction
<1>3. Once(R, v, C, D) = D
  BY DenFixpoint
<1>4. \A c \in Cell : Once(R, v, C, D)[c] = IF c \in C THEN Result(R[c], D) ELSE v[c]
  BY DEF Once
<1> QED
  BY <1>2, <1>3, <1>4

(* Cells that need each other only show the same whatever the rest is.      *)
LEMMA AgreeOnClosed ==
  ASSUME NEW R, NEW v, NEW C, Setting(R, v, C), NEW D, D = Den(R, v, C),
         NEW Q, NEW w, NEW B, Setting(Q, w, B), NEW E, E = Den(Q, w, B),
         NEW G, G \subseteq Cell,
         \A c \in G : /\ c \in B <=> c \in C
                      /\ c \in C => Q[c] = R[c] /\ Needed(R[c], D) \subseteq G
                      /\ c \notin C => w[c] = v[c]
  PROVE  \A c \in G : E[c] = D[c]
<1>1. D \in Showing /\ \A c \in Cell : D[c] = IF c \in C THEN Result(R[c], D) ELSE v[c]
  BY DenEquation
<1>2. E \in Showing /\ \A c \in Cell : E[c] = IF c \in B THEN Result(Q[c], E) ELSE w[c]
  BY DenEquation
<1>3. \A c \in G : E[c] = CIRC \/ E[c] = D[c]
  <2> DEFINE P == {g \in Showing : \A c \in G : g[c] = CIRC \/ g[c] = D[c]}
  <2>1. Bottom \in P
    BY DEF Bottom, Showing, Content
  <2>2. ASSUME NEW g \in Showing, g \in P PROVE Once(Q, w, B, g) \in P
    <3> SUFFICES ASSUME NEW c \in G
                 PROVE  Once(Q, w, B, g)[c] = CIRC \/ Once(Q, w, B, g)[c] = D[c]
      BY OnceType
    <3>1. CASE c \notin C
      BY <1>1, <3>1 DEF Once
    <3>2. CASE c \in C
      <4> DEFINE r == R[c]
                 h == [x \in Cell |-> IF x \in G THEN D[x] ELSE g[x]]
      <4>1. c \in Cell /\ r \in RulesOf(c) /\ r # NoRule /\ Q[c] = r
        BY <3>2 DEF Setting
      <4>2. h \in Showing
        BY <1>1 DEF Showing
      <4>3. \A x \in G : h[x] = D[x]
        OBVIOUS
      <4>4. Weaker(g, h)
        BY <2>2 DEF Weaker
      <4>5. Needed(r, D) \subseteq G
        BY <3>2
      <4> HIDE DEF h, r
      <4>6. r.refs \in Seq(Cell) /\ r.kind \in {"all", "if"} /\ (r.kind # "if" \/ Len(r.refs) = 2)
        BY <4>1, RuleShape
      <4>7. DOMAIN D = Cell /\ DOMAIN h = Cell /\ Needed(r, D) \subseteq Cell
        BY <1>1, <4>1, <4>2, ResultOver
      <4>8. Result(r, h) = Result(r, D)
        BY <4>3, <4>5, <4>6, <4>7, ResultDepends
      <4>9. Weaker(Once(Q, w, B, g), Once(Q, w, B, h))
        BY <4>2, <4>4, OnceGrows
      <4>10. c \in B /\ Once(Q, w, B, h)[c] = Result(r, h)
        BY <3>2, <4>1 DEF Once
      <4>11. D[c] = Result(r, D)
        BY <1>1, <3>2, <4>1 DEF r
      <4> QED
        BY <4>1, <4>8, <4>9, <4>10, <4>11 DEF Weaker
    <3> QED
      BY <3>1, <3>2
  <2>3. E \in P
    <3> HIDE DEF P
    <3> QED
      BY <2>1, <2>2, DenInduction
  <2> QED
    BY <2>3
<1>4. \A c \in G : D[c] = CIRC \/ D[c] = E[c]
  <2> DEFINE P == {g \in Showing : Weaker(g, D) /\ \A c \in G : g[c] = CIRC \/ g[c] = E[c]}
  <2>1. Bottom \in P
    BY DEF Bottom, Showing, Content, Weaker
  <2>2. ASSUME NEW g \in Showing, g \in P PROVE Once(R, v, C, g) \in P
    <3>1. Weaker(Once(R, v, C, g), D)
      <4>1. Weaker(Once(R, v, C, g), Once(R, v, C, D))
        BY <1>1, <2>2, OnceGrows
      <4> QED
        BY <4>1, DenFixpoint
    <3> SUFFICES ASSUME NEW c \in G
                 PROVE  Once(R, v, C, g)[c] = CIRC \/ Once(R, v, C, g)[c] = E[c]
      BY <3>1, OnceType
    <3>2. CASE c \notin C
      BY <1>2, <3>2 DEF Once
    <3>3. CASE c \in C
      <4> DEFINE r == R[c]
      <4>1. c \in Cell /\ r \in RulesOf(c) /\ r # NoRule /\ Q[c] = r /\ c \in B
        BY <3>3 DEF Setting
      <4>2. Needed(r, D) \subseteq G
        BY <3>3
      <4>3. Once(R, v, C, g)[c] = Result(r, g) /\ E[c] = Result(r, E)
        BY <1>2, <3>3, <4>1 DEF Once
      <4> HIDE DEF r
      <4>4. r.refs \in Seq(Cell) /\ r.kind \in {"all", "if"} /\ (r.kind # "if" \/ Len(r.refs) = 2)
        BY <4>1, RuleShape
      <4>5. DOMAIN D = Cell /\ DOMAIN g = Cell /\ DOMAIN E = Cell /\ Needed(r, g) \subseteq Cell
        BY <1>1, <1>2, <4>1, ResultOver
      <4>6. Weaker(g, D)
        BY <2>2
      <4>7. Needed(r, g) \subseteq Needed(r, D)
        BY <4>5, <4>6, NeededGrows DEF Weaker
      <4>8. CASE \E x \in Needed(r, g) : g[x] = CIRC
        BY <4>3, <4>8 DEF Result
      <4>9. CASE \A x \in Needed(r, g) : g[x] # CIRC
        <5>1. \A x \in Needed(r, g) : E[x] = g[x]
          BY <2>2, <4>2, <4>7, <4>9
        <5>2. Result(r, E) = Result(r, g)
          BY <4>4, <4>5, <5>1, ResultDepends
        <5> QED
          BY <4>3, <5>2
      <4> QED
        BY <4>8, <4>9
    <3> QED
      BY <3>2, <3>3
  <2>3. D \in P
    <3> HIDE DEF P
    <3> QED
      BY <2>1, <2>2, DenInduction
  <2> QED
    BY <2>3
<1> QED
  BY <1>3, <1>4

(* A rule that has read all it needs needs no more of a setting that agrees *)
(* with what it has read, where it says anything of that.                   *)
LEMMA NeededWithin ==
  ASSUME NEW S, NEW r, r.refs \in Seq(S), NEW f, NEW g,
         NextRead(r, f) = {},
         \A x \in DOMAIN f \cap DOMAIN g : g[x] = f[x]
  PROVE  Needed(r, g) \subseteq Needed(r, f)
<1>1. DOMAIN r.refs = 1..Len(r.refs) /\ Len(r.refs) \in Nat
  OBVIOUS
<1>2. Index(r, g) \subseteq Index(r, f)
  <2> SUFFICES ASSUME Index(r, g) \ Index(r, f) # {} PROVE FALSE
    OBVIOUS
  <2>1. Index(r, g) \ Index(r, f) \subseteq Nat
    BY <1>1 DEF Index
  <2>2. PICK k \in Index(r, g) \ Index(r, f) :
          \A n \in Index(r, g) \ Index(r, f) : k <= n
    BY <2>1, LeastNat
  <2>3. k \in 1..Len(r.refs) /\ \A l \in 1..(k - 1) : GoesOn(r, g, r.refs[l])
    BY <1>1, <2>2 DEF Index
  <2>4. PICK l \in 1..(k - 1) : ~GoesOn(r, f, r.refs[l])
    BY <1>1, <2>2, <2>3 DEF Index
  <2>5. l \in Index(r, g) /\ ~(k <= l)
    BY <1>1, <2>3 DEF Index
  <2>6. l \in Index(r, f)
    BY <2>2, <2>5
  <2>7. r.refs[l] \in Needed(r, f)
    BY <2>6, NeededIs
  <2>8. r.refs[l] \in DOMAIN f
    BY <2>7 DEF NextRead
  <2> QED
    BY <2>3, <2>4, <2>8 DEF GoesOn
<1> QED
  BY <1>2, NeededIs

(* What is needed is the same in settings that agree on it, unknown cells   *)
(* among them.                                                              *)
LEMMA NeededSame ==
  ASSUME NEW S, NEW r, r.refs \in Seq(S), NEW f, NEW g,
         \A x \in Needed(r, f) : x \in DOMAIN f <=> x \in DOMAIN g,
         \A x \in Needed(r, f) \cap DOMAIN f : g[x] = f[x]
  PROVE  Needed(r, g) = Needed(r, f)
<1>1. \A l \in Index(r, f) : GoesOn(r, f, r.refs[l]) <=> GoesOn(r, g, r.refs[l])
  <2> SUFFICES ASSUME NEW l \in Index(r, f)
               PROVE  GoesOn(r, f, r.refs[l]) <=> GoesOn(r, g, r.refs[l])
    OBVIOUS
  <2>1. r.refs[l] \in Needed(r, f)
    BY NeededIs
  <2> QED
    BY <2>1 DEF GoesOn
<1>2. DOMAIN r.refs = 1..Len(r.refs) /\ Len(r.refs) \in Nat
  OBVIOUS
<1>3. Index(r, f) \subseteq Index(r, g)
  <2> SUFFICES ASSUME NEW k \in Index(r, f), NEW l \in 1..(k - 1)
               PROVE  GoesOn(r, g, r.refs[l])
    BY DEF Index
  <2>1. k \in 1..Len(r.refs) /\ \A m \in 1..(k - 1) : GoesOn(r, f, r.refs[m])
    BY <1>2 DEF Index
  <2>2. l \in Index(r, f)
    BY <1>2, <2>1 DEF Index
  <2> QED
    BY <1>1, <2>1, <2>2
<1>4. Index(r, g) \subseteq Index(r, f)
  <2> SUFFICES ASSUME Index(r, g) \ Index(r, f) # {} PROVE FALSE
    OBVIOUS
  <2>1. Index(r, g) \ Index(r, f) \subseteq Nat
    BY <1>2 DEF Index
  <2>2. PICK k \in Index(r, g) \ Index(r, f) :
          \A n \in Index(r, g) \ Index(r, f) : k <= n
    BY <2>1, LeastNat
  <2>3. k \in 1..Len(r.refs) /\ \A l \in 1..(k - 1) : GoesOn(r, g, r.refs[l])
    BY <1>2, <2>2 DEF Index
  <2>4. PICK l \in 1..(k - 1) : ~GoesOn(r, f, r.refs[l])
    BY <1>2, <2>2, <2>3 DEF Index
  <2>5. l \in Index(r, g) /\ ~(k <= l)
    BY <1>2, <2>3 DEF Index
  <2>6. l \in Index(r, f)
    BY <2>2, <2>5
  <2> QED
    BY <1>1, <2>3, <2>4, <2>6
<1>5. Index(r, f) = Index(r, g)
  BY <1>3, <1>4
<1> QED
  BY <1>5, NeededIs

-----------------------------------------------------------------------------
(* Stale cells: cells that a deleted rule may have left behind, and those   *)
(* that need them.                                                          *)

(* T is closed under what the rules of C need.                              *)
Needing(T, R, C, D) == \A e \in C : Needed(R[e], D) \cap T # {} => e \in T

(* The cells that need one of V, directly or not.                           *)
Stale(V, R, C, D) ==
  {d \in Cell : \A T \in SUBSET Cell : V \subseteq T /\ Needing(T, R, C, D) => d \in T}

(* S is such a set.                                                         *)
Spread(S, R, C, D) ==
  S \subseteq Cell /\ \A e \in C : e \in S <=> Needed(R[e], D) \cap S # {}

(* It is the least set that has V and is closed.                            *)
LEMMA StaleSpreads ==
  ASSUME NEW V, V \subseteq Cell, NEW R, NEW C, C \subseteq Cell, V \cap C = {}, NEW D
  PROVE  /\ V \subseteq Stale(V, R, C, D) /\ Stale(V, R, C, D) \subseteq V \cup C
         /\ Spread(Stale(V, R, C, D), R, C, D)
         /\ \A T \in SUBSET Cell :
              V \subseteq T /\ Needing(T, R, C, D) => Stale(V, R, C, D) \subseteq T
<1> DEFINE S == Stale(V, R, C, D)
<1>1. V \subseteq S /\ S \subseteq Cell
  BY DEF Stale
<1>2. \A T \in SUBSET Cell : V \subseteq T /\ Needing(T, R, C, D) => S \subseteq T
  BY DEF Stale
<1>3. ASSUME NEW e \in C, Needed(R[e], D) \cap S # {} PROVE e \in S
  <2> SUFFICES ASSUME NEW T \in SUBSET Cell, V \subseteq T, Needing(T, R, C, D) PROVE e \in T
    BY DEF Stale
  <2>1. S \subseteq T
    BY <1>2
  <2>2. Needed(R[e], D) \cap T # {}
    BY <1>3, <2>1
  <2> QED
    BY <2>2 DEF Needing
<1> HIDE DEF S
<1>4. S \subseteq V \cup C
  <2>1. V \cup C \in SUBSET Cell /\ Needing(V \cup C, R, C, D)
    BY DEF Needing
  <2> QED
    BY <1>2, <2>1
<1>5. ASSUME NEW e \in C, e \in S, Needed(R[e], D) \cap S = {} PROVE FALSE
  <2>1. S \ {e} \in SUBSET Cell /\ V \subseteq S \ {e}
    BY <1>1, <1>5
  <2>2. Needing(S \ {e}, R, C, D)
    BY <1>3, <1>5 DEF Needing
  <2> QED
    BY <1>2, <1>5, <2>1, <2>2
<1>6. Spread(S, R, C, D)
  BY <1>1, <1>3, <1>5 DEF Spread
<1> QED
  BY <1>1, <1>2, <1>4, <1>6 DEF S

(* Without a cell to start from there are none.                             *)
LEMMA NoneStale == \A R, C, D : Stale({}, R, C, D) = {} /\ Spread({}, R, C, D)
<1> SUFFICES ASSUME NEW R, NEW C, NEW D
             PROVE  Stale({}, R, C, D) = {} /\ Spread({}, R, C, D)
  OBVIOUS
<1>1. Needing({}, R, C, D)
  BY DEF Needing
<1> QED
  BY <1>1 DEF Stale, Spread

(* What is known of the cells that are not stale.                           *)
Clear(D, S) == [d \in Cell \ S |-> D[d]]

(* A rule that is not stale needs no more than that.                        *)
LEMMA ClearNeeds ==
  ASSUME NEW c \in Cell, NEW r \in RulesOf(c), r # NoRule, NEW D \in Showing, NEW S
  PROVE  /\ Needed(r, Clear(D, S)) \subseteq Needed(r, D)
         /\ Needed(r, D) \cap S = {} => Needed(r, Clear(D, S)) = Needed(r, D)
         /\ Needed(r, Clear(D, S)) \cap S = {} => Needed(r, D) = Needed(r, Clear(D, S))
<1> DEFINE g == Clear(D, S)
<1>1. /\ DOMAIN D = Cell /\ DOMAIN g = Cell \ S /\ \A x \in DOMAIN g : g[x] = D[x]
  BY DEF Showing, Clear
<1> HIDE DEF g
<1>2. r.refs \in Seq(Cell) /\ Needed(r, D) \subseteq Cell /\ Needed(r, g) \subseteq Cell
  BY RuleShape, NeededType
<1>3. Needed(r, g) \subseteq Needed(r, D)
  BY <1>1, NeededGrows
<1>4. Needed(r, D) \cap S = {} => Needed(r, g) = Needed(r, D)
  BY <1>1, <1>2, NeededSame
<1>5. Needed(r, g) \cap S = {} => Needed(r, D) = Needed(r, g)
  BY <1>1, <1>2, NeededSame
<1> QED
  BY <1>3, <1>4, <1>5 DEF g

(* The first stale cell a rule needs is the only one if it shows an error.  *)
LEMMA OnlyStale ==
  ASSUME NEW Q, NEW r, r.refs \in Seq(Q), NEW D, NEW S,
         NEW y \in Needed(r, Clear(D, S)), y \in S, D[y] = CIRC,
         NEW z \in Needed(r, D), z \in S
  PROVE  z = y
<1>1. DOMAIN r.refs = 1..Len(r.refs) /\ Len(r.refs) \in Nat
  OBVIOUS
<1>2. PICK l \in Index(r, Clear(D, S)) : y = r.refs[l]
  BY NeededIs
<1>3. PICK k \in Index(r, D) : z = r.refs[k]
  BY NeededIs
<1>4. l \in 1..Len(r.refs) /\ k \in 1..Len(r.refs)
  BY <1>1 DEF Index
<1>5. ~(k < l)
  <2> SUFFICES ASSUME k < l PROVE FALSE
    OBVIOUS
  <2>1. k \in 1..(l - 1)
    BY <1>4
  <2>2. GoesOn(r, Clear(D, S), r.refs[k])
    BY <2>1 DEF Index
  <2> QED
    BY <1>3, <2>2 DEF GoesOn, Clear
<1>6. ~(l < k)
  <2> SUFFICES ASSUME l < k PROVE FALSE
    OBVIOUS
  <2>1. l \in 1..(k - 1)
    BY <1>4
  <2>2. GoesOn(r, D, r.refs[l])
    BY <2>1 DEF Index
  <2> QED
    BY <1>2, <2>2 DEF GoesOn
<1>7. l = k
  BY <1>4, <1>5, <1>6
<1> QED
  BY <1>2, <1>3, <1>7

-----------------------------------------------------------------------------
(* The values: what is computed is up to date, with edges from all it was   *)
(* computed from, and so is what evaluations have read.                     *)

(* What evaluations will store; the one of a view stores nothing.           *)
Making == {stack[i].cell : i \in {k \in DOMAIN stack : task # "view" \/ k > 1}}

(* A value, or one in the making.                                           *)
Present(d) == value[d] # Empty \/ d \in Making

(* Up to the first stale one, c has edges from the cells it needs, and they *)
(* are present; if none is stale its value is right.                        *)
Upheld(D, S, c) ==
  /\ c \notin S => value[c] = D[c]
  /\ Needed(rule[c], Clear(D, S)) \subseteq precedents[c]
  /\ \A d \in Needed(rule[c], Clear(D, S)) \cap RuleCell : Present(d)

(* What evaluation s of a rule in R has read is right and was needed.       *)
Correct(D, S, R, s) ==
  /\ \A d \in DOMAIN s.read \ S : s.read[d] = D[d]
  /\ s.cell \notin S => DOMAIN s.read \subseteq Needed(R[s.cell], D)

(* Each evaluation is on what the one further out reads next.               *)
LinkedIn(R, s) ==
  \A i \in 1..Len(s) - 1 : s[i + 1].cell \in NextRead(R[s[i].cell], s[i].read)

(* Cells that have had their turn in a recalculation.                       *)
Scheduled == done \cup (frontier \ todo)

(* What a read or a view has returned is right.                             *)
Right(D, S, a) == a.cell \notin S => a.value = D[a.cell]

(* All is as D says, but for the stale cells S.                             *)
Sound(D, S) ==
  /\ \A c \in RuleCell : value[c] # Empty => Upheld(D, S, c)
  /\ \A i \in DOMAIN stack : Correct(D, S, rule, stack[i])
  /\ \A i \in DOMAIN stack : \A d \in DOMAIN stack[i].read \cap RuleCell : Present(d)
  /\ LinkedIn(rule, stack)
  /\ \A a \in answer : Right(D, S, a)
  /\ \A c \in Scheduled \cap RuleCell : Present(c)

(* No rules of a run refer to each other in a circle.                       *)
NoCircles ==
  \A K \in SUBSET Cell : K # {} =>
    \E c \in K : \A r \in RulesOf(c) : \A i \in DOMAIN r.refs : r.refs[i] \notin K

(* A view in the middle of a circle leaves values without edges.            *)
SafeViews == "view" \notin Operations \/ NoCircles

(* Nothing is stale where no rule is deleted, or since a full recalculation *)
(* emptied the rule cells.                                                  *)
Tidy ==
  \/ task \in {"recalculate", "bootstrap"}
  \/ SafeViews /\ "delete_rule" \notin Operations

(* Frontiers and views exist only in the calls that make them.              *)
NoBatch == task \notin {"recompute", "recalculate"} => done = {} /\ frontier = {}
NoView == "view" \notin Operations => task # "view"

(* The invariant of the values: all that is computed is right, has its      *)
(* edges and is present below; or all but what a deletion left stale.       *)
ValueInv ==
  /\ NoBatch
  /\ NoView
  /\ \A D \in {Denotation} :
       /\ Tidy => Sound(D, {})
       /\ SafeViews => Sound(D, Stale(Void, rule, RuleCell, D))

(* What the cells should show is as the rules and the hard values say.      *)
LEMMA DenotationEquation ==
  ASSUME TypeOK
  PROVE  /\ Setting(rule, value, RuleCell)
         /\ Denotation \in Showing
         /\ \A c \in RuleCell : Denotation[c] = Result(rule[c], Denotation)
         /\ \A c \in Cell \ RuleCell : Denotation[c] = value[c]
<1>1. Setting(rule, value, RuleCell)
  BY DEF TypeOK, Setting, RuleCell, HasRule
<1> DEFINE D == Denotation
<1>2. D = Den(rule, value, RuleCell)
  BY DenotationIs
<1> HIDE DEF D
<1>3. /\ D \in Showing
      /\ \A c \in Cell : D[c] = IF c \in RuleCell THEN Result(rule[c], D) ELSE value[c]
  BY <1>1, <1>2, DenEquation
<1>4. RuleCell \subseteq Cell
  BY DEF RuleCell
<1> QED
  BY <1>1, <1>3, <1>4 DEF D

(* It changes with rules and hard values only.                              *)
LEMMA SameDenotation ==
  ASSUME TypeOK, TypeOK', rule' = rule, RuleCell' = RuleCell,
         \A c \in Cell \ RuleCell : value'[c] = value[c]
  PROVE  Denotation' = Denotation
<1>1. Setting(rule, value, RuleCell) /\ Setting(rule', value', RuleCell')
  BY DEF TypeOK, Setting, RuleCell, HasRule
<1>2. PICK D : D = Denotation
  OBVIOUS
<1>3. PICK E : E = Denotation'
  OBVIOUS
<1>4. D = Den(rule, value, RuleCell) /\ E = Den(rule', value', RuleCell')
  BY <1>2, <1>3, DenotationIs
<1>5. D \in Showing /\ E \in Showing
  BY <1>1, <1>4, DenEquation
<1>6. \A c \in Cell : c \in RuleCell => Needed(rule[c], D) \subseteq Cell
  BY NeededType DEF TypeOK, RuleCell, HasRule
<1>7. \A c \in Cell : E[c] = D[c]
  <2> DEFINE C == RuleCell
             B == RuleCell'
  <2>1. B = C
    OBVIOUS
  <2> HIDE DEF B, C
  <2>2. \A c \in Cell : /\ c \in B <=> c \in C
                        /\ c \in C => rule'[c] = rule[c] /\ Needed(rule[c], D) \subseteq Cell
                        /\ c \notin C => value'[c] = value[c]
    BY <1>6, <2>1 DEF C
  <2>3. Setting(rule, value, C) /\ Setting(rule', value', B)
        /\ D = Den(rule, value, C) /\ E = Den(rule', value', B)
    BY <1>1, <1>4 DEF B, C
  <2> QED
    BY <2>2, <2>3, AgreeOnClosed
<1> QED
  BY <1>2, <1>3, <1>5, <1>7 DEF Showing

(* A step that changes no cell, and adds edges at most.                     *)
LEMMA QuietSound ==
  ASSUME IInv, NEW D, NEW S, Sound(D, S), UNCHANGED <<cellVars, stack>>,
         stack = <<>> \/ task' = task,
         \A c \in Cell : precedents[c] \subseteq precedents'[c],
         \A a \in answer' : Right(D, S, a),
         \A c \in Scheduled' \cap RuleCell : Present(c)
  PROVE  Sound(D, S)'
<1>1. RuleCell' = RuleCell /\ value' = value /\ rule' = rule
      /\ stack' = stack
  BY DEF cellVars, RuleCell, HasRule
<1>0. Making' = Making
  BY <1>1 DEF Making
<1>2. \A d : Present(d)' <=> Present(d)
  BY <1>0, <1>1 DEF Present
<1>3. ASSUME NEW c \in RuleCell, value[c] # Empty
      PROVE  Upheld(D, S, c)'
  BY <1>1, <1>2, <1>3 DEF Sound, Upheld, RuleCell
<1>4. \A a \in answer' : Right(D, S, a)'
  BY DEF Right
<1> QED
  BY <1>1, <1>2, <1>3, <1>4 DEF Sound

(* What the evaluation of a cell that is not stale reads next is needed.    *)
LEMMA NextIsNeeded ==
  ASSUME NEW D \in Showing, NEW S, NEW R, NEW s \in Frame, Correct(D, S, R, s),
         s.cell \notin S, Needed(R[s.cell], D) \cap S = {}
  PROVE  NextRead(R[s.cell], s.read) \subseteq Needed(R[s.cell], D)
<1>1. DOMAIN s.read \subseteq Cell /\ DOMAIN D = Cell
  BY DEF Frame, Reads, Showing
<1>2. \A d \in DOMAIN s.read : d \in DOMAIN D /\ s.read[d] = D[d]
  BY <1>1 DEF Correct
<1>3. Needed(R[s.cell], s.read) \subseteq Needed(R[s.cell], D)
  BY <1>2, NeededGrows
<1> QED
  BY <1>3 DEF NextRead

(* The cells of the evaluations under way are those of the frames.          *)
LEMMA MakingIs ==
  ASSUME IInv
  PROVE  /\ Making \subseteq Evaluating
         /\ task # "view" => Making = Evaluating
         /\ stack = <<>> => Making = {} /\ Evaluating = {}
<1>1. stack \in Seq(Frame)
  BY DEF IInv, TypeOK
<1> QED
  BY <1>1 DEF Making, Evaluating

(* The evaluation of a cell that is to be stored makes it present.          *)
LEMMA EvaluatePresent ==
  ASSUME IInv, NEW c \in Cell, Evaluate(c), task = "view" => stack # <<>>,
         task' = "view" <=> task = "view"
  PROVE  Present(c)' /\ \A d \in Cell : Present(d) => Present(d)'
<1> PICK n : n = Len(stack)
  OBVIOUS
<1>1. /\ stack \in Seq(Frame) /\ n \in Nat /\ DOMAIN stack = 1..n
      /\ value \in [Cell -> Content] /\ (stack # <<>> => n > 0)
  BY DEF IInv, TypeOK
<1>2. /\ DOMAIN stack' = 1..n + 1 /\ stack'[n + 1].cell = c
      /\ \A i \in 1..n : stack'[i] = stack[i]
  BY <1>1 DEF Evaluate
<1>3. \A i \in 1..n : i \in 1..n + 1
  BY <1>1
<1>4. Making \subseteq Making'
  BY <1>1, <1>2, <1>3 DEF Making
<1>5. c \in Making'
  <2>1. n + 1 \in DOMAIN stack' /\ (task' = "view" => n + 1 > 1)
    BY <1>1, <1>2
  <2> QED
    BY <1>2, <2>1 DEF Making
<1>6. value' = [value EXCEPT ![c] = Empty]
  BY DEF Evaluate
<1> QED
  BY <1>1, <1>4, <1>5, <1>6 DEF Present

(* A rule cell's evaluation begins, at the outset or for one further out.   *)
LEMMA EvaluateSound ==
  ASSUME IInv, NEW D, NEW S, Sound(D, S), NEW c \in Cell, c \in RuleCell, Evaluate(c),
         UNCHANGED <<override, rule, precedents>>,
         stack # <<>> => c \in NextRead(rule[Top.cell], Top.read),
         \A d \in Cell : Present(d) => Present(d)',
         answer' \subseteq answer, \A d \in Scheduled' \cap RuleCell : Present(d)'
  PROVE  Sound(D, S)'
<1> DEFINE f == [cell |-> c, read |-> [d \in {} |-> Empty]]
           n == Len(stack)
<1>1. /\ stack \in Seq(Frame) /\ n \in Nat /\ DOMAIN stack = 1..n
      /\ value \in [Cell -> Content]
  BY DEF IInv, TypeOK
<1>3. RuleCell' = RuleCell
  BY DEF RuleCell, HasRule
<1>4. value' = [value EXCEPT ![c] = Empty]
  BY DEF Evaluate
<1>5. \A d \in Cell : Present(d) => Present(d)'
  OBVIOUS
<1>7. /\ DOMAIN stack' = 1..n + 1 /\ Len(stack') = n + 1
      /\ stack'[n + 1] = f /\ \A i \in 1..n : stack'[i] = stack[i]
  BY <1>1 DEF Evaluate
<1>8. f.cell = c /\ DOMAIN f.read = {}
  OBVIOUS
<1> HIDE DEF f, n
<1>9. ASSUME NEW d \in RuleCell, value'[d] # Empty
      PROVE  Upheld(D, S, d)'
  <2>1. d \in Cell /\ RuleCell \subseteq Cell
    BY DEF RuleCell
  <2>2. value[d] # Empty /\ value'[d] = value[d]
    BY <1>1, <1>4, <1>9, <2>1
  <2>3. Upheld(D, S, d)
    BY <2>2 DEF Sound
  <2> QED
    BY <1>3, <1>5, <2>1, <2>2, <2>3 DEF Upheld
<1>10. \A i \in DOMAIN stack' : Correct(D, S, rule, stack'[i])
  <2>1. Correct(D, S, rule, f)
    BY <1>8 DEF Correct
  <2> QED
    BY <1>1, <1>7, <2>1 DEF Sound
<1>11. \A i \in DOMAIN stack' : \A d \in DOMAIN stack'[i].read \cap RuleCell : Present(d)'
  <2> SUFFICES ASSUME NEW i \in DOMAIN stack', NEW d \in DOMAIN stack'[i].read \cap RuleCell
               PROVE  Present(d)'
    OBVIOUS
  <2>1. i \in 1..n /\ stack'[i] = stack[i]
    BY <1>1, <1>7, <1>8
  <2>2. d \in DOMAIN stack[i].read \cap RuleCell /\ d \in Cell
    BY <2>1 DEF RuleCell
  <2>3. Present(d)
    BY <1>1, <2>1, <2>2 DEF Sound
  <2> QED
    BY <1>5, <2>2, <2>3
<1>12. LinkedIn(rule, stack')
  <2> SUFFICES ASSUME NEW i \in 1..n
               PROVE  stack'[i + 1].cell \in NextRead(rule[stack'[i].cell], stack'[i].read)
    BY <1>1, <1>7 DEF LinkedIn
  <2>1. CASE i = n
    <3>1. stack'[i + 1] = f /\ stack'[i] = Top /\ stack # <<>>
      BY <1>1, <1>7, <2>1 DEF Top, n
    <3> QED
      BY <1>8, <3>1
  <2>2. CASE i # n
    <3>1. i \in 1..n - 1 /\ i \in 1..n /\ i + 1 \in 1..n
      BY <1>1, <2>2
    <3>2. stack[i + 1].cell \in NextRead(rule[stack[i].cell], stack[i].read)
      BY <3>1 DEF Sound, LinkedIn, n
    <3> QED
      BY <1>7, <3>1, <3>2
  <2> QED
    BY <2>1, <2>2
<1>13. \A a \in answer' : Right(D, S, a)'
  BY DEF Sound, Right
<1>14. \A d \in Scheduled' \cap RuleCell : Present(d)'
  OBVIOUS
<1> QED
  BY <1>3, <1>9, <1>10, <1>11, <1>12, <1>13, <1>14 DEF Sound

(* A value goes to the evaluations s.                                       *)
LEMMA ReturnSound ==
  ASSUME IInv, NEW D \in Showing, NEW S, Spread(S, rule, RuleCell, D), NEW s \in Seq(Frame),
         \A i \in DOMAIN s : s[i].cell \in RuleCell,
         \A i \in DOMAIN s : Correct(D, S, rule, s[i]), LinkedIn(rule, s),
         NEW c \in Cell, NEW v, c \notin S => v = D[c],
         s # <<>> => c \in NextRead(rule[s[Len(s)].cell], s[Len(s)].read),
         Return(s, c, v)
  PROVE  /\ Len(stack') = Len(s) /\ DOMAIN stack' = 1..Len(s)
         /\ \A i \in 1..Len(s) : stack'[i].cell = s[i].cell
         /\ \A i \in 1..Len(s) : DOMAIN stack'[i].read \subseteq DOMAIN s[i].read \cup {c}
         /\ \A i \in DOMAIN stack' : Correct(D, S, rule, stack'[i])
         /\ LinkedIn(rule, stack')
         /\ \A a \in answer' : a \in answer \/ Right(D, S, a)
<1>1. CASE s = <<>>
  <2>1. /\ stack' = <<>> /\ Len(s) = 0
        /\ \A a \in answer' : a = [cell |-> c, value |-> v]
    BY <1>1 DEF Return
  <2>2. DOMAIN stack' = {} /\ Len(stack') = 0 /\ 1..Len(s) = {} /\ DOMAIN stack' = 1..Len(s)
    BY <2>1
  <2>3. LinkedIn(rule, stack')
    BY <2>2 DEF LinkedIn
  <2> QED
    BY <2>1, <2>2, <2>3 DEF Right
<1>2. CASE s # <<>>
  <2> DEFINE n == Len(s)
             Q == [d \in DOMAIN s[n].read \cup {c} |-> IF d = c THEN v ELSE s[n].read[d]]
             t == [s[n] EXCEPT !.read = Q]
  <2>1. n \in Nat /\ n # 0 /\ s[n] \in Frame /\ DOMAIN s = 1..n /\ Len(s) = n
    BY <1>2
  <2>2. stack' = [s EXCEPT ![n] = t] /\ UNCHANGED answer
    BY <1>2 DEF Return, Received
  <2>3. t.cell = s[n].cell /\ t.read = Q
    BY <2>1 DEF Frame
  <2>4. /\ DOMAIN Q = DOMAIN s[n].read \cup {c}
        /\ \A d \in DOMAIN s[n].read \cup {c} : Q[d] = IF d = c THEN v ELSE s[n].read[d]
    OBVIOUS
  <2>5. Correct(D, S, rule, t)
    <3>1. Correct(D, S, rule, s[n])
      BY <2>1
    <3>2. s[n].cell \notin S => c \in Needed(rule[s[n].cell], D)
      <4> SUFFICES ASSUME s[n].cell \notin S PROVE c \in Needed(rule[s[n].cell], D)
        OBVIOUS
      <4>1. c \in NextRead(rule[s[n].cell], s[n].read)
        BY <1>2
      <4>2. Needed(rule[s[n].cell], D) \cap S = {}
        BY <2>1 DEF Spread
      <4> QED
        BY <2>1, <3>1, <4>1, <4>2, NextIsNeeded
    <3> HIDE DEF Q, t
    <3> QED
      BY <2>3, <2>4, <3>1, <3>2 DEF Correct
  <2> HIDE DEF t, Q, n
  <2>6. /\ DOMAIN stack' = 1..n /\ Len(stack') = n /\ stack'[n] = t
        /\ \A i \in 1..n - 1 : stack'[i] = s[i]
    <3>1. /\ DOMAIN stack' = 1..n /\ stack'[n] = t
          /\ \A i \in 1..n : i # n => stack'[i] = s[i]
      BY <2>1, <2>2
    <3>2. Len(stack') = n
      BY <2>1, <3>1, <2>2
    <3>3. \A i \in 1..n - 1 : i \in 1..n /\ i # n
      BY <2>1
    <3> QED
      BY <3>1, <3>2, <3>3
  <2>7. \A i \in 1..n : stack'[i].cell = s[i].cell
    BY <2>1, <2>3, <2>6
  <2>8. \A i \in 1..n : DOMAIN stack'[i].read \subseteq DOMAIN s[i].read \cup {c}
    BY <2>1, <2>3, <2>4, <2>6
  <2>9. \A i \in DOMAIN stack' : Correct(D, S, rule, stack'[i])
    <3> SUFFICES ASSUME NEW i \in 1..n PROVE Correct(D, S, rule, stack'[i])
      BY <2>6
    <3>1. i = n \/ i \in 1..n - 1
      BY <2>1
    <3> QED
      BY <2>1, <2>5, <2>6, <3>1
  <2>10. LinkedIn(rule, stack')
    <3> SUFFICES ASSUME NEW i \in 1..n - 1
                 PROVE  stack'[i + 1].cell \in NextRead(rule[stack'[i].cell], stack'[i].read)
      BY <2>6 DEF LinkedIn
    <3>1. i + 1 \in 1..n /\ stack'[i] = s[i]
      BY <2>1, <2>6
    <3>2. s[i + 1].cell \in NextRead(rule[s[i].cell], s[i].read)
      BY <2>1 DEF LinkedIn
    <3> QED
      BY <2>7, <3>1, <3>2
  <2> QED
    BY <2>2, <2>6, <2>7, <2>8, <2>9, <2>10
<1> QED
  BY <1>1, <1>2

(* The evaluation on top ends with the right value, and with edges from all *)
(* it needs.                                                                *)
LEMMA ConcludeSound ==
  ASSUME IInv, NEW D \in Showing, NEW S, Spread(S, rule, RuleCell, D), Sound(D, S),
         stack # <<>>, NEW reads \in SUBSET Cell, NEW v, v \in Content, v # Empty,
         Top.cell \notin S => v = D[Top.cell],
         Needed(rule[Top.cell], Clear(D, S)) \subseteq reads,
         \A d \in reads \cap RuleCell : Present(d),
         Conclude(Top.cell, reads, v), UNCHANGED <<batchVars, todo>>
  PROVE  Sound(D, S)'
<1> PICK f : f = Top.cell
  OBVIOUS
<1> PICK s : s = Below
  OBVIOUS
<1> PICK n : n = Len(stack)
  OBVIOUS
<1>1. /\ stack \in Seq(Frame) /\ n \in Nat /\ n # 0 /\ DOMAIN stack = 1..n
      /\ value \in [Cell -> Content] /\ precedents \in [Cell -> SUBSET nodes]
  BY DEF IInv, TypeOK
<1>2. /\ s \in Seq(Frame) /\ Len(s) = n - 1 /\ DOMAIN s = 1..n - 1
      /\ \A i \in 1..n - 1 : s[i] = stack[i]
      /\ f \in Cell /\ f \in Evaluating
  <2>1. /\ s \in Seq(Frame) /\ Len(s) = n - 1
        /\ \A i \in 1..Len(s) : s[i] = stack[i]
        /\ Top \in Frame /\ f \in Evaluating
    BY BelowStack DEF IInv
  <2>2. DOMAIN s = 1..Len(s)
    BY <2>1
  <2> QED
    BY <2>1, <2>2 DEF Frame
<1>3. f \in RuleCell
  BY <1>2 DEF IInv, StackOK
<1>4. /\ value' = [value EXCEPT ![f] = v]
      /\ precedents' = [precedents EXCEPT ![f] = reads]
      /\ UNCHANGED <<override, rule>>
      /\ Return(s, f, v)
  BY DEF Conclude
<1>5. RuleCell' = RuleCell
  BY <1>4 DEF RuleCell, HasRule
<1>6. \A i \in DOMAIN s : Correct(D, S, rule, s[i])
  <2>1. \A i \in 1..n - 1 : i \in 1..n
    BY <1>1
  <2> QED
    BY <1>1, <1>2, <2>1 DEF Sound
<1>7. LinkedIn(rule, s)
  <2> SUFFICES ASSUME NEW i \in 1..Len(s) - 1
               PROVE  s[i + 1].cell \in NextRead(rule[s[i].cell], s[i].read)
    BY DEF LinkedIn
  <2>1. i \in 1..n - 1 /\ i + 1 \in 1..n - 1
    BY <1>1, <1>2
  <2>2. stack[i + 1].cell \in NextRead(rule[stack[i].cell], stack[i].read)
    BY <2>1 DEF Sound, LinkedIn
  <2> QED
    BY <1>2, <2>1, <2>2
<1>8. s # <<>> => f \in NextRead(rule[s[Len(s)].cell], s[Len(s)].read)
  <2> SUFFICES ASSUME s # <<>> PROVE f \in NextRead(rule[s[Len(s)].cell], s[Len(s)].read)
    OBVIOUS
  <2>1. Len(s) \in 1..n - 1 /\ n - 1 \in 1..n - 1
    BY <1>1, <1>2
  <2>2. stack[(n - 1) + 1].cell \in NextRead(rule[stack[n - 1].cell], stack[n - 1].read)
    BY <2>1 DEF Sound, LinkedIn
  <2>3. (n - 1) + 1 = n /\ stack[n].cell = f
    BY <1>1 DEF Top
  <2> QED
    BY <1>2, <2>1, <2>2, <2>3
<1>9. /\ Len(stack') = n - 1 /\ DOMAIN stack' = 1..n - 1
      /\ \A i \in 1..n - 1 : stack'[i].cell = s[i].cell
      /\ \A i \in 1..n - 1 : DOMAIN stack'[i].read \subseteq DOMAIN s[i].read \cup {f}
      /\ \A i \in DOMAIN stack' : Correct(D, S, rule, stack'[i])
      /\ LinkedIn(rule, stack')
      /\ \A a \in answer' : a \in answer \/ Right(D, S, a)
  <2>1. (f \notin S => v = D[f]) /\ \A i \in DOMAIN s : s[i].cell \in RuleCell
    <3>1. \A i \in 1..n - 1 : i \in DOMAIN stack
      BY <1>1
    <3> QED
      BY <1>2, <3>1 DEF IInv, StackOK, Evaluating
  <2>2. /\ Len(stack') = Len(s) /\ DOMAIN stack' = 1..Len(s)
        /\ \A i \in 1..Len(s) : stack'[i].cell = s[i].cell
        /\ \A i \in 1..Len(s) : DOMAIN stack'[i].read \subseteq DOMAIN s[i].read \cup {f}
        /\ \A i \in DOMAIN stack' : Correct(D, S, rule, stack'[i])
        /\ LinkedIn(rule, stack')
        /\ \A a \in answer' : a \in answer \/ Right(D, S, a)
    <3>1. s \in Seq(Frame) /\ f \in Cell /\ Return(s, f, v)
      BY <1>2, <1>4
    <3>2. s # <<>> => f \in NextRead(rule[s[Len(s)].cell], s[Len(s)].read)
      BY <1>8
    <3> HIDE DEF LinkedIn
    <3> QED
      BY <1>6, <1>7, <2>1, <3>1, <3>2, ReturnSound
  <2> QED
    BY <1>2, <2>2
<1>10. \A d \in Making : d = f \/ d \in Making'
  <2> SUFFICES ASSUME NEW i \in 1..n, task # "view" \/ i > 1, stack[i].cell # f
               PROVE  stack[i].cell \in Making'
    BY <1>1 DEF Making
  <2>1. stack[n].cell = f
    BY DEF Top
  <2>2. i \in 1..n - 1
    BY <1>1, <2>1
  <2>3. i \in DOMAIN stack' /\ stack'[i].cell = stack[i].cell
    BY <1>2, <1>9, <2>2
  <2>4. task' = task
    BY <1>2, <1>4, <2>2 DEF Return
  <2> QED
    BY <2>3, <2>4 DEF Making
<1>11. Present(f)'
  BY <1>1, <1>2, <1>4 DEF Present
<1>12. ASSUME NEW d \in Cell, Present(d) PROVE Present(d)'
  <2>1. CASE d = f
    BY <1>11, <2>1
  <2>2. CASE d # f
    BY <1>1, <1>4, <1>10, <1>12, <2>2 DEF Present
  <2> QED
    BY <2>1, <2>2
<1>13. ASSUME NEW d \in RuleCell, value'[d] # Empty
       PROVE  Upheld(D, S, d)'
  <2>1. d \in Cell /\ RuleCell \subseteq Cell
    BY DEF RuleCell
  <2>2. CASE d = f
    <3>1. (f \notin S => value'[f] = D[f]) /\ precedents'[f] = reads
      BY <1>1, <1>2, <1>4
    <3>2. Needed(rule[f], Clear(D, S)) \subseteq reads /\ \A x \in reads \cap RuleCell : Present(x)
      OBVIOUS
    <3> QED
      BY <1>4, <1>5, <1>12, <2>1, <2>2, <3>1, <3>2 DEF Upheld
  <2>3. CASE d # f
    <3>1. value'[d] = value[d] /\ precedents'[d] = precedents[d]
      BY <1>1, <1>4, <2>1, <2>3
    <3>2. Upheld(D, S, d)
      BY <1>13, <3>1 DEF Sound
    <3> QED
      BY <1>4, <1>5, <1>12, <2>1, <3>1, <3>2 DEF Upheld
  <2> QED
    BY <2>2, <2>3
<1>14. \A i \in DOMAIN stack' : \A d \in DOMAIN stack'[i].read \cap RuleCell : Present(d)'
  <2> SUFFICES ASSUME NEW i \in 1..n - 1, NEW d \in DOMAIN stack'[i].read \cap RuleCell
               PROVE  Present(d)'
    BY <1>9
  <2>1. d \in DOMAIN s[i].read \cup {f} /\ d \in Cell
    BY <1>9 DEF RuleCell
  <2>2. CASE d = f
    BY <1>11, <2>2
  <2>3. CASE d # f
    <3>1. i \in DOMAIN stack /\ d \in DOMAIN stack[i].read \cap RuleCell
      BY <1>1, <1>2, <2>1, <2>3
    <3>2. Present(d)
      BY <3>1 DEF Sound
    <3> QED
      BY <1>12, <2>1, <3>2
  <2> QED
    BY <2>2, <2>3
<1>15. \A a \in answer' : Right(D, S, a)'
  BY <1>9 DEF Sound, Right
<1>16. \A d \in Scheduled' \cap RuleCell : Present(d)'
  <2>1. Scheduled' = Scheduled /\ RuleCell \subseteq Cell
    BY DEF Scheduled, batchVars, RuleCell
  <2> QED
    BY <1>12, <2>1 DEF Sound
<1> QED
  BY <1>4, <1>5, <1>9, <1>13, <1>14, <1>15, <1>16 DEF Sound

-----------------------------------------------------------------------------
(* The steps of an evaluation keep the values right.                        *)

(* What is at hand is right.                                                *)
LEMMA SuppliedIsRight ==
  ASSUME IInv, NEW D, D = Denotation, NEW S, Sound(D, S), NEW c \in Cell, Supplied(c)
  PROVE  (c \notin S => value[c] = D[c]) /\ (c \in RuleCell => Present(c))
<1>1. CASE c \notin RuleCell
  BY <1>1, DenotationEquation DEF IInv
<1>2. CASE c \in RuleCell
  <2>1. value[c] # Empty
    BY <1>2 DEF Supplied, Cached
  <2> QED
    BY <1>2, <2>1 DEF Sound, Upheld, Present
<1> QED
  BY <1>1, <1>2

(* It may make an edge, and takes none away.                                *)
LEMMA SupplyEdges ==
  ASSUME IInv, NEW c \in Cell, NEW callers, Supply(c, callers)
  PROVE  \A d \in Cell : precedents[d] \subseteq precedents'[d]
<1>1. precedents \in [Cell -> SUBSET nodes]
  BY DEF IInv, TypeOK
<1> QED
  BY <1>1 DEF Supply, AddEdge

(* The evaluation on top, and its rule.                                     *)
LEMMA TopFacts ==
  ASSUME IInv, stack # <<>>
  PROVE  /\ Top \in Frame /\ Top = stack[Len(stack)] /\ Len(stack) \in DOMAIN stack
         /\ Top.cell \in Cell /\ Top.cell \in RuleCell /\ Top.cell \in Evaluating
         /\ rule[Top.cell] \in RulesOf(Top.cell) /\ rule[Top.cell] # NoRule
         /\ DOMAIN Top.read \subseteq Cell /\ Top.read \in Reads
<1>1. Top \in Frame /\ Top.cell \in Evaluating
  BY BelowStack DEF IInv
<1>2. Top.cell \in RuleCell
  BY <1>1 DEF IInv, StackOK
<1>3. Len(stack) \in DOMAIN stack
  BY DEF IInv, TypeOK
<1> QED
  BY <1>1, <1>2, <1>3 DEF Frame, Reads, RuleCell, HasRule, IInv, TypeOK, Top

(* A reference that is at hand.                                             *)
LEMMA ReadSuppliedSound ==
  ASSUME IInv, NEW D, D = Denotation, NEW S, Spread(S, rule, RuleCell, D), Sound(D, S),
         stack # <<>>, NEW c \in Cell, c \in NextRead(rule[Top.cell], Top.read),
         ReadSupplied(c), UNCHANGED <<batchVars, todo>>
  PROVE  Sound(D, S)'
<1> PICK s : s = stack
  OBVIOUS
<1> PICK n : n = Len(stack)
  OBVIOUS
<1>1. /\ s \in Seq(Frame) /\ n \in Nat /\ n # 0 /\ DOMAIN s = 1..n /\ Len(s) = n /\ s # <<>>
      /\ s[n] = Top
  BY DEF IInv, TypeOK, Top
<1>2. (c \notin S => value[c] = D[c]) /\ (c \in RuleCell => Present(c))
  BY SuppliedIsRight DEF ReadSupplied
<1>3. D \in Showing
  BY DenotationEquation DEF IInv
<1>4. UNCHANGED cellVars /\ Return(s, c, value[c])
      /\ \A d \in Cell : precedents[d] \subseteq precedents'[d]
  BY SupplyEdges DEF ReadSupplied
<1>5. /\ Len(stack') = n /\ DOMAIN stack' = 1..n
      /\ \A i \in 1..n : stack'[i].cell = s[i].cell
      /\ \A i \in 1..n : DOMAIN stack'[i].read \subseteq DOMAIN s[i].read \cup {c}
      /\ \A i \in DOMAIN stack' : Correct(D, S, rule, stack'[i])
      /\ LinkedIn(rule, stack')
      /\ \A a \in answer' : a \in answer \/ Right(D, S, a)
  <2>1. \A i \in DOMAIN s : Correct(D, S, rule, s[i])
    BY DEF Sound
  <2>2. LinkedIn(rule, s)
    BY DEF Sound
  <2>3. c \in NextRead(rule[s[Len(s)].cell], s[Len(s)].read)
    BY <1>1
  <2>4. \A i \in DOMAIN s : s[i].cell \in RuleCell
    BY DEF IInv, StackOK, Evaluating
  <2>5. s \in Seq(Frame) /\ Return(s, c, value[c]) /\ Len(s) = n
    BY <1>1, <1>4
  <2> QED
    BY <1>2, <1>3, <2>1, <2>2, <2>3, <2>4, <2>5, ReturnSound
<1>6. RuleCell' = RuleCell /\ value' = value /\ rule' = rule
  BY <1>4 DEF cellVars, RuleCell, HasRule
<1>7. Making' = Making
  <2>1. \A i \in 1..n : stack'[i].cell = stack[i].cell
    BY <1>5
  <2>2. task' = task
    BY <1>1, <1>4 DEF Return
  <2> QED
    BY <1>1, <1>5, <2>1, <2>2 DEF Making
<1>8. \A d : Present(d)' <=> Present(d)
  BY <1>6, <1>7 DEF Present
<1>9. ASSUME NEW d \in RuleCell, value[d] # Empty
      PROVE  Upheld(D, S, d)'
  <2>1. Upheld(D, S, d) /\ d \in Cell
    BY <1>9 DEF Sound, RuleCell
  <2> QED
    BY <1>4, <1>6, <1>8, <2>1 DEF Upheld
<1>10. \A i \in DOMAIN stack' : \A d \in DOMAIN stack'[i].read \cap RuleCell : Present(d)'
  <2> SUFFICES ASSUME NEW i \in 1..n, NEW d \in DOMAIN stack'[i].read \cap RuleCell
               PROVE  Present(d)
    BY <1>5, <1>8
  <2>1. d = c \/ d \in DOMAIN stack[i].read \cap RuleCell
    BY <1>5
  <2>2. i \in DOMAIN stack
    BY <1>1
  <2> QED
    BY <1>2, <2>1, <2>2 DEF Sound
<1>11. \A d \in Scheduled' \cap RuleCell : Present(d)'
  <2>1. Scheduled' = Scheduled
    BY DEF Scheduled, batchVars
  <2> QED
    BY <1>8, <2>1 DEF Sound
<1>12. \A a \in answer' : Right(D, S, a)'
  BY <1>5 DEF Sound, Right
<1> QED
  BY <1>5, <1>6, <1>9, <1>10, <1>11, <1>12 DEF Sound

(* The evaluations from that of c on, when the one on top refers to c.      *)
LEMMA CircleOf ==
  ASSUME IInv, LinkedIn(rule, stack), stack # <<>>, NEW c \in Evaluating,
         c \in NextRead(rule[Top.cell], Top.read)
  PROVE  \E k \in 1..Len(stack) :
           /\ c = stack[k].cell
           /\ \A i \in k..Len(stack) :
                \E l \in k..Len(stack) :
                  /\ l = IF i = Len(stack) THEN k ELSE i + 1
                  /\ stack[l].cell \in NextRead(rule[stack[i].cell], stack[i].read)
<1> PICK n : n = Len(stack)
  OBVIOUS
<1>1. /\ stack \in Seq(Frame) /\ n \in Nat /\ n # 0 /\ DOMAIN stack = 1..n /\ stack[n] = Top
  BY DEF IInv, TypeOK, Top
<1>2. PICK k \in 1..n : c = stack[k].cell
  BY <1>1 DEF Evaluating
<1>3. ASSUME NEW i \in k..n
      PROVE  \E l \in k..n :
               /\ l = IF i = n THEN k ELSE i + 1
               /\ stack[l].cell \in NextRead(rule[stack[i].cell], stack[i].read)
  <2>1. CASE i = n
    BY <1>1, <1>2, <2>1
  <2>2. CASE i # n
    <3>1. i \in 1..Len(stack) - 1 /\ i + 1 \in k..n
      BY <1>1, <2>2
    <3>2. stack[i + 1].cell \in NextRead(rule[stack[i].cell], stack[i].read)
      BY <3>1 DEF LinkedIn
    <3> QED
      BY <2>2, <3>1, <3>2
  <2> QED
    BY <2>1, <2>2
<1> QED
  BY <1>2, <1>3

(* A reference to a cell that is being evaluated: both show errors, unless  *)
(* they are stale.                                                          *)
LEMMA CircleFound ==
  ASSUME IInv, NEW D, D = Denotation, NEW S, Spread(S, rule, RuleCell, D), Sound(D, S),
         stack # <<>>, NEW c \in Evaluating, c \in NextRead(rule[Top.cell], Top.read),
         c \notin S \/ Top.cell \notin S
  PROVE  D[c] = CIRC /\ D[Top.cell] = CIRC
<1> PICK n : n = Len(stack)
  OBVIOUS
<1>1. /\ stack \in Seq(Frame) /\ n \in Nat /\ n # 0 /\ DOMAIN stack = 1..n /\ stack[n] = Top
  BY DEF IInv, TypeOK, Top
<1>2. PICK k \in 1..n :
        /\ c = stack[k].cell
        /\ \A i \in k..n :
             \E l \in k..n :
               /\ l = IF i = n THEN k ELSE i + 1
               /\ stack[l].cell \in NextRead(rule[stack[i].cell], stack[i].read)
  BY CircleOf DEF Sound
<1> DEFINE K == {stack[i].cell : i \in k..n}
<1>3. /\ Setting(rule, value, RuleCell) /\ D = Den(rule, value, RuleCell)
      /\ D \in Showing
  BY DenotationEquation, DenotationIs DEF IInv
<1>4. K \subseteq RuleCell
  BY <1>1 DEF IInv, StackOK, Evaluating
<1>5. ASSUME NEW i \in k..n, stack[i].cell \notin S,
             NEW l \in k..n, l = IF i = n THEN k ELSE i + 1
      PROVE  stack[l].cell \in Needed(rule[stack[i].cell], D) /\ stack[l].cell \notin S
  <2>1. i \in 1..n /\ stack[i] \in Frame /\ stack[i].cell \in K
    BY <1>1
  <2>2. Correct(D, S, rule, stack[i])
    BY <1>1, <2>1 DEF Sound
  <2>3. Needed(rule[stack[i].cell], D) \cap S = {}
    BY <1>4, <1>5, <2>1 DEF Spread
  <2>4. NextRead(rule[stack[i].cell], stack[i].read) \subseteq Needed(rule[stack[i].cell], D)
    BY <1>3, <1>5, <2>1, <2>2, <2>3, NextIsNeeded
  <2>5. stack[l].cell \in NextRead(rule[stack[i].cell], stack[i].read)
    BY <1>2, <1>5
  <2> QED
    BY <2>3, <2>4, <2>5
<1>6. stack[k].cell \notin S
  <2>1. CASE Top.cell \notin S
    <3>1. n \in k..n /\ k \in k..n
      BY <1>1
    <3> QED
      BY <1>1, <1>5, <2>1, <3>1
  <2> QED
    BY <1>2, <2>1
<1>7. \A i \in k..n : stack[i].cell \notin S
  <2> DEFINE T == {i \in k..n : stack[i].cell \in S}
  <2> SUFFICES ASSUME T # {} PROVE FALSE
    OBVIOUS
  <2>1. T \subseteq Nat
    BY <1>1
  <2>2. PICK m \in T : \A i \in T : m <= i
    BY <2>1, LeastNat
  <2>3. m \in k..n /\ stack[m].cell \in S /\ m # k
    BY <1>6, <2>2
  <2>4. /\ m - 1 \in k..n /\ ~(m <= m - 1) /\ m - 1 # n /\ m = (m - 1) + 1
    BY <1>1, <2>3
  <2>5. stack[m - 1].cell \notin S
    BY <2>2, <2>4
  <2> QED
    BY <1>5, <2>3, <2>4, <2>5
<1>8. \A d \in K : Needed(rule[d], D) \cap K # {}
  <2> SUFFICES ASSUME NEW i \in k..n
               PROVE  Needed(rule[stack[i].cell], D) \cap K # {}
    OBVIOUS
  <2>1. PICK l \in k..n : l = IF i = n THEN k ELSE i + 1
    BY <1>2
  <2> QED
    BY <1>5, <1>7, <2>1
<1>9. c \in K /\ Top.cell \in K
  BY <1>1, <1>2
<1> HIDE DEF K
<1>10. \A d \in K : D[d] = CIRC
  BY <1>3, <1>4, <1>8, CircleIsError
<1> QED
  BY <1>9, <1>10

(* Without circles no evaluation refers to one that is under way.           *)
LEMMA NoCircleFound ==
  ASSUME IInv, NoCircles, LinkedIn(rule, stack), stack # <<>>, NEW c \in Evaluating,
         c \in NextRead(rule[Top.cell], Top.read)
  PROVE  FALSE
<1> PICK n : n = Len(stack)
  OBVIOUS
<1>1. /\ stack \in Seq(Frame) /\ n \in Nat /\ n # 0 /\ DOMAIN stack = 1..n
  BY DEF IInv, TypeOK
<1>2. PICK k \in 1..n :
        \A i \in k..n :
          \E l \in k..n : stack[l].cell \in NextRead(rule[stack[i].cell], stack[i].read)
  BY CircleOf
<1> DEFINE K == {stack[i].cell : i \in k..n}
<1>3. K \subseteq Cell /\ K # {} /\ K \subseteq RuleCell
  BY <1>1 DEF IInv, StackOK, Evaluating, RuleCell
<1>4. PICK d \in K : \A r \in RulesOf(d) : \A i \in DOMAIN r.refs : r.refs[i] \notin K
  BY <1>3 DEF NoCircles
<1>5. PICK i \in k..n : d = stack[i].cell
  OBVIOUS
<1>6. PICK l \in k..n : stack[l].cell \in NextRead(rule[stack[i].cell], stack[i].read)
  BY <1>2
<1>7. stack[l].cell \in K /\ rule[d] \in RulesOf(d)
  BY <1>3 DEF IInv, TypeOK
<1>8. PICK m \in DOMAIN rule[d].refs : stack[l].cell = rule[d].refs[m]
  BY <1>5, <1>6 DEF NextRead, Needed
<1> QED
  BY <1>4, <1>7, <1>8

(* A circular reference ends the evaluation with an error, which is right.  *)
LEMMA ReadCircularSound ==
  ASSUME IInv, NEW D, D = Denotation, NEW S, Spread(S, rule, RuleCell, D), Sound(D, S),
         stack # <<>>, task # "view", NEW c \in Cell,
         c \in NextRead(rule[Top.cell], Top.read), ReadCircular(c),
         UNCHANGED <<batchVars, todo>>
  PROVE  Sound(D, S)'
<1> DEFINE f == Top.cell
           r == rule[f]
           reads == DOMAIN Top.read \cup {c}
           g == [d \in reads |-> IF d = c THEN CIRC ELSE Top.read[d]]
<1>1. /\ Top \in Frame /\ f \in Cell /\ r \in RulesOf(f) /\ r # NoRule
      /\ DOMAIN Top.read \subseteq Cell /\ Len(stack) \in DOMAIN stack
      /\ Top = stack[Len(stack)]
  BY TopFacts
<1>2. (c \notin S => D[c] = CIRC) /\ (f \notin S => D[f] = CIRC)
  BY CircleFound DEF ReadCircular
<1>3. D \in Showing /\ DOMAIN D = Cell
  BY DenotationEquation DEF IInv, Showing
<1>4. r.refs \in Seq(Cell)
  BY <1>1, RuleShape
<1>5. Correct(D, S, rule, Top)
  BY <1>1 DEF Sound
<1>6. /\ DOMAIN g = reads /\ g[c] = CIRC
      /\ \A d \in DOMAIN Top.read : d # c => g[d] = Top.read[d]
  OBVIOUS
<1>7. c \in NextRead(r, Top.read)
  OBVIOUS
<1>8. \A d \in DOMAIN Top.read \cap RuleCell : Present(d)
  BY <1>1 DEF Sound
<1>9. Conclude(f, reads, CIRC)
  BY DEF ReadCircular
<1>10. Present(c)
  BY MakingIs DEF ReadCircular, Present
<1>11. \A d \in DOMAIN Top.read \ S : Top.read[d] = D[d]
  BY <1>5 DEF Correct
<1>12. \A x \in DOMAIN g \cap DOMAIN Clear(D, S) : Clear(D, S)[x] = g[x]
  BY <1>1, <1>2, <1>3, <1>6, <1>11 DEF Clear
<1> HIDE DEF g, r
<1>13. NextRead(r, g) = {}
  BY <1>4, <1>6, <1>7, ErrorEnds
<1>14. Needed(r, Clear(D, S)) \subseteq Needed(r, g)
  BY <1>4, <1>12, <1>13, NeededWithin
<1>15. Needed(r, Clear(D, S)) \subseteq reads
  BY <1>6, <1>13, <1>14 DEF NextRead
<1>16. \A d \in reads \cap RuleCell : Present(d)
  BY <1>8, <1>10
<1>17. reads \in SUBSET Cell /\ CIRC \in Content /\ CIRC # Empty
  BY <1>1, RecalculationAssumption DEF Content
<1>18. /\ Needed(rule[Top.cell], Clear(D, S)) \subseteq reads
       /\ Top.cell \notin S => CIRC = D[Top.cell]
  BY <1>2, <1>15 DEF r
<1> HIDE DEF reads
<1> QED
  BY <1>3, <1>9, <1>16, <1>17, <1>18, ConcludeSound

(* An evaluation that has read what it needs yields what its cell should    *)
(* show.                                                                    *)
LEMMA FinishIsRight ==
  ASSUME IInv, NEW D, D = Denotation, NEW S, Spread(S, rule, RuleCell, D), Sound(D, S),
         stack # <<>>, NextRead(rule[Top.cell], Top.read) = {}
  PROVE  /\ Result(rule[Top.cell], Top.read) \in Content \ {Empty}
         /\ Top.cell \notin S => Result(rule[Top.cell], Top.read) = D[Top.cell]
         /\ Needed(rule[Top.cell], Clear(D, S)) \subseteq DOMAIN Top.read
         /\ DOMAIN Top.read \subseteq Cell
         /\ \A d \in DOMAIN Top.read \cap RuleCell : Present(d)
<1> DEFINE f == Top.cell
           r == rule[f]
           g == Top.read
           reads == DOMAIN g
           v == Result(r, g)
<1>1. /\ Top \in Frame /\ f \in Cell /\ f \in RuleCell /\ r \in RulesOf(f) /\ r # NoRule
      /\ reads \subseteq Cell /\ Len(stack) \in DOMAIN stack /\ g \in Reads
      /\ Top = stack[Len(stack)]
  BY TopFacts
<1>2. D \in Showing /\ DOMAIN D = Cell /\ D[f] = Result(r, D)
  BY <1>1, DenotationEquation DEF IInv, Showing
<1>3. r.refs \in Seq(Cell) /\ r.kind \in {"all", "if"} /\ (r.kind # "if" \/ Len(r.refs) = 2)
  BY <1>1, RuleShape
<1>4. \A x \in DOMAIN g \ S : g[x] = D[x]
  BY <1>1 DEF Sound, Correct
<1>5. \A d \in reads \cap RuleCell : Present(d)
  BY <1>1 DEF Sound
<1>6. v \in Content \ {Empty}
  BY <1>1, ResultNotEmpty
<1>7. f \notin S => DOMAIN g \cap S = {}
  BY <1>1 DEF Sound, Correct, Spread
<1>8. NextRead(r, g) = {}
  OBVIOUS
<1> HIDE DEF r, g
<1>9. Needed(r, g) \subseteq reads
  BY <1>8 DEF NextRead
<1>10. Needed(r, Clear(D, S)) \subseteq Needed(r, g)
  <2>1. \A x \in DOMAIN g \cap DOMAIN Clear(D, S) : Clear(D, S)[x] = g[x]
    BY <1>2, <1>4 DEF Clear
  <2> QED
    BY <1>3, <1>8, <2>1, NeededWithin
<1>11. ASSUME f \notin S PROVE v = D[f]
  <2>1. \A x \in DOMAIN g : x \in DOMAIN D /\ D[x] = g[x]
    BY <1>1, <1>2, <1>4, <1>7, <1>11
  <2>2. Needed(r, D) = Needed(r, g)
    BY <1>3, <1>8, <2>1, NeededSettles
  <2>3. Result(r, D) = v
    BY <1>3, <1>9, <2>1, <2>2, SameResult
  <2> QED
    BY <1>2, <2>3
<1> QED
  BY <1>1, <1>5, <1>6, <1>9, <1>10, <1>11 DEF r, g

(* ... which is stored,                                                     *)
LEMMA FinishEvaluationSound ==
  ASSUME IInv, NEW D, D = Denotation, NEW S, Spread(S, rule, RuleCell, D), Sound(D, S),
         FinishEvaluation
  PROVE  Sound(D, S)'
<1> PICK reads : reads = DOMAIN Top.read
  OBVIOUS
<1> PICK v : v = Result(rule[Top.cell], Top.read)
  OBVIOUS
<1>1. /\ stack # <<>> /\ NextRead(rule[Top.cell], Top.read) = {}
      /\ Conclude(Top.cell, reads, v) /\ UNCHANGED <<batchVars, todo>>
  BY DEF FinishEvaluation
<1>2. /\ reads \in SUBSET Cell /\ v \in Content /\ v # Empty
      /\ Top.cell \notin S => v = D[Top.cell]
      /\ Needed(rule[Top.cell], Clear(D, S)) \subseteq reads
      /\ \A d \in reads \cap RuleCell : Present(d)
  BY <1>1, FinishIsRight
<1>3. D \in Showing
  BY DenotationEquation DEF IInv
<1> QED
  BY <1>1, <1>2, <1>3, ConcludeSound

(* ... or just shown.                                                       *)
LEMMA FinishViewSound ==
  ASSUME IInv, NEW D, D = Denotation, NEW S, Spread(S, rule, RuleCell, D), Sound(D, S),
         FinishView
  PROVE  Sound(D, S)'
<1> PICK v : v = Result(rule[Top.cell], Top.read)
  OBVIOUS
<1>1. /\ stack # <<>> /\ NextRead(rule[Top.cell], Top.read) = {} /\ ~Recording
      /\ Return(Below, Top.cell, v)
      /\ UNCHANGED <<cellVars, graphVars, batchVars, todo>>
  BY DEF FinishView
<1>2. Top.cell \notin S => v = D[Top.cell]
  BY <1>1, FinishIsRight
<1>3. task = "view" /\ Len(stack) = 1 /\ DOMAIN stack = {1}
  <2>1. stack \in Seq(Frame) /\ task = "view" /\ ~(Len(stack) > 1)
    BY <1>1 DEF Recording, IInv, TypeOK
  <2>2. Len(stack) \in Nat /\ Len(stack) # 0 /\ DOMAIN stack = 1..Len(stack)
    BY <1>1, <2>1
  <2> QED
    BY <2>1, <2>2
<1>4. Below = <<>>
  <2>1. Below \in Seq(Frame) /\ Len(Below) = 0
    BY <1>1, <1>3, BelowStack DEF IInv
  <2> QED
    BY <2>1
<1>5. stack' = <<>> /\ answer' = {[cell |-> Top.cell, value |-> v]}
  BY <1>1, <1>3, <1>4 DEF Return
<1>6. Making = {} /\ Making' = {}
  BY <1>3, <1>5 DEF Making
<1>7. RuleCell' = RuleCell /\ UNCHANGED <<value, rule, precedents>> /\ Scheduled' = Scheduled
  BY <1>1 DEF cellVars, graphVars, batchVars, RuleCell, HasRule, Scheduled
<1>8. \A d : Present(d)' <=> Present(d)
  BY <1>6, <1>7 DEF Present
<1>9. ASSUME NEW c \in RuleCell, value[c] # Empty PROVE Upheld(D, S, c)'
  BY <1>7, <1>8, <1>9 DEF Sound, Upheld
<1>10. \A c \in Scheduled' \cap RuleCell : Present(c)'
  BY <1>7, <1>8 DEF Sound
<1>11. DOMAIN stack' = {} /\ LinkedIn(rule', stack')
  BY <1>5 DEF LinkedIn
<1>12. \A a \in answer' : Right(D, S, a)'
  BY <1>2, <1>5 DEF Right
<1> QED
  BY <1>7, <1>9, <1>10, <1>11, <1>12 DEF Sound

(* An evaluation begins for a step of a call.                               *)
LEMMA StepEvaluates ==
  ASSUME IInv, NEW D, NEW S, Sound(D, S), NEW c \in Cell, c \in RuleCell, Evaluate(c),
         UNCHANGED <<override, rule, precedents>>,
         stack # <<>> => c \in NextRead(rule[Top.cell], Top.read),
         task = "view" => stack # <<>>, task' = "view" <=> task = "view",
         answer' \subseteq answer, Scheduled' \subseteq Scheduled \cup {c}
  PROVE  Sound(D, S)'
<1>1. Present(c)' /\ \A d \in Cell : Present(d) => Present(d)'
  BY EvaluatePresent
<1>2. \A d \in Scheduled' \cap RuleCell : Present(d)'
  BY <1>1 DEF Sound, RuleCell
<1> QED
  BY <1>1, <1>2, EvaluateSound

(* The steps of a call of the engine keep the values right.                 *)
LEMMA StepSound ==
  ASSUME IInv, IInv', SafeViews \/ task \in {"recalculate", "bootstrap"}, NoView,
         NEW D, D = Denotation, NEW S, Spread(S, rule, RuleCell, D), Sound(D, S), Step
  PROVE  Sound(D, S)' /\ Denotation' = D /\ UNCHANGED <<override, rule>>
<1>1. value \in [Cell -> Content] /\ RuleCell \subseteq Cell
  BY DEF IInv, TypeOK, RuleCell
<1>2. ASSUME UNCHANGED <<override, rule>>, \A c \in Cell \ RuleCell : value'[c] = value[c]
      PROVE  Denotation' = D /\ UNCHANGED <<override, rule>>
  BY <1>2, SameDenotation DEF IInv, RuleCell, HasRule
<1>3. ASSUME UNCHANGED <<override, rule>>, NEW c \in RuleCell, NEW v,
             value' = [value EXCEPT ![c] = v]
      PROVE  Denotation' = D /\ UNCHANGED <<override, rule>>
  BY <1>1, <1>2, <1>3
<1>4. ASSUME UNCHANGED cellVars
      PROVE  Denotation' = D /\ UNCHANGED <<override, rule>>
  BY <1>2, <1>4 DEF cellVars
<1>5. CASE ReadReference
  <2>1. PICK c \in NextRead(rule[Top.cell], Top.read) :
          ReadSupplied(c) \/ ReadEvaluated(c) \/ ReadCircular(c)
    BY <1>5 DEF ReadReference
  <2>2. stack # <<>> /\ UNCHANGED <<batchVars, todo>>
    BY <1>5 DEF ReadReference
  <2>3. c \in Cell /\ Top.cell \in RuleCell
    BY <2>2, ReferenceType, TopFacts
  <2>4. CASE ReadSupplied(c)
    <3>1. Sound(D, S)'
      BY <2>2, <2>3, <2>4, ReadSuppliedSound
    <3> QED
      BY <1>4, <2>4, <3>1 DEF ReadSupplied
  <2>5. CASE ReadEvaluated(c)
    <3>1. /\ c \in RuleCell /\ Evaluate(c) /\ UNCHANGED <<override, rule, precedents, answer>>
      BY <2>3, <2>5 DEF ReadEvaluated, Supplied, graphVars
    <3>2. Scheduled' \subseteq Scheduled \cup {c}
      BY <2>2 DEF Scheduled, batchVars
    <3>3. c \in NextRead(rule[Top.cell], Top.read) /\ task' = task
      BY <2>5 DEF ReadEvaluated
    <3>4. Sound(D, S)'
      BY <2>2, <2>3, <3>1, <3>2, <3>3, StepEvaluates
    <3> QED
      BY <1>3, <3>1, <3>4 DEF Evaluate
  <2>6. CASE ReadCircular(c)
    <3>0. task # "view"
      <4> SUFFICES ASSUME task = "view" PROVE FALSE
        OBVIOUS
      <4>1. NoCircles
        BY DEF SafeViews, NoView
      <4> QED
        BY <2>2, <2>6, <4>1, NoCircleFound DEF ReadCircular, Sound
    <3>1. Sound(D, S)'
      BY <2>2, <2>3, <2>6, <3>0, ReadCircularSound
    <3> QED
      BY <1>3, <2>3, <2>6, <3>1 DEF ReadCircular, Conclude
  <2> QED
    BY <2>1, <2>4, <2>5, <2>6
<1>6. CASE FinishEvaluation
  <2>1. Sound(D, S)'
    BY <1>6, FinishEvaluationSound
  <2>2. Top.cell \in RuleCell
    BY <1>6, TopFacts DEF FinishEvaluation
  <2> QED
    BY <1>3, <1>6, <2>1, <2>2 DEF FinishEvaluation, Conclude
<1>7. CASE FinishView
  BY <1>4, <1>7, FinishViewSound DEF FinishView
<1>8. ASSUME NEW c \in Cell, RecomputeCell(c)
      PROVE  Sound(D, S)' /\ Denotation' = D /\ UNCHANGED <<override, rule>>
  <2>1. /\ stack = <<>> /\ UNCHANGED <<override, rule, graphVars, task, batchVars, answer>>
        /\ todo' = todo \ {c}
    BY <1>8 DEF RecomputeCell
  <2>2. Scheduled' \subseteq Scheduled \cup {c}
    BY <2>1 DEF Scheduled, batchVars
  <2>3. CASE c \in RuleCell
    <3>1. Evaluate(c) /\ UNCHANGED <<override, rule, precedents>>
      BY <1>8, <2>1, <2>3 DEF RecomputeCell, graphVars
    <3>2. Sound(D, S)'
      BY <1>8, <2>1, <2>2, <2>3, <3>1, StepEvaluates DEF RecomputeCell
    <3> QED
      BY <1>3, <2>3, <3>1, <3>2 DEF Evaluate
  <2>4. CASE c \notin RuleCell
    <3>1. UNCHANGED <<cellVars, stack, precedents, answer>>
      BY <1>8, <2>1, <2>4 DEF RecomputeCell, cellVars, graphVars
    <3>2. \A a \in answer' : Right(D, S, a)
      BY <3>1 DEF Sound
    <3>3. \A d \in Scheduled' \cap RuleCell : Present(d)
      BY <2>2, <2>4 DEF Sound
    <3>4. Sound(D, S)'
      BY <2>1, <3>1, <3>2, <3>3, QuietSound
    <3> QED
      BY <1>4, <3>1, <3>4
  <2> QED
    BY <2>3, <2>4
<1>9. ASSUME NEW c \in Cell, BootstrapCell(c)
      PROVE  Sound(D, S)' /\ Denotation' = D /\ UNCHANGED <<override, rule>>
  <2>1. /\ stack = <<>> /\ UNCHANGED <<override, rule, task, batchVars, answer>>
        /\ task = "bootstrap" /\ todo' = todo \ {c}
    BY <1>9 DEF BootstrapCell
  <2>2. Scheduled' \subseteq Scheduled \cup {c}
    BY <2>1 DEF Scheduled, batchVars
  <2>3. CASE ~Supplied(c)
    <3>1. Evaluate(c) /\ c \in RuleCell /\ UNCHANGED <<override, rule, precedents>>
      BY <1>9, <2>1, <2>3 DEF BootstrapCell, graphVars, Supplied
    <3>2. Sound(D, S)'
      BY <2>1, <2>2, <3>1, StepEvaluates
    <3> QED
      BY <1>3, <3>1, <3>2 DEF Evaluate
  <2>4. CASE Supplied(c)
    <3>1. UNCHANGED <<cellVars, stack, answer>> /\ Supply(c, {})
      BY <1>9, <2>1, <2>4 DEF BootstrapCell, cellVars
    <3>2. \A a \in answer' : Right(D, S, a)
      BY <3>1 DEF Sound
    <3>3. \A d \in Scheduled' \cap RuleCell : Present(d)
      BY <2>2, <2>4, SuppliedIsRight DEF Sound
    <3>4. \A d \in Cell : precedents[d] \subseteq precedents'[d]
      BY <3>1, SupplyEdges
    <3>5. Sound(D, S)'
      BY <2>1, <3>1, <3>2, <3>3, <3>4, QuietSound
    <3> QED
      BY <1>4, <3>1, <3>5
  <2> QED
    BY <2>3, <2>4
<1>10. CASE CloseFrontier
  <2>1. UNCHANGED <<cellVars, precedents, stack, answer>> /\ todo = {} /\ stack = <<>>
    BY <1>10 DEF CloseFrontier
  <2>2. Scheduled' \subseteq Scheduled
    BY <1>10, <2>1 DEF CloseFrontier, Scheduled
  <2>3. \A a \in answer' : Right(D, S, a)
    BY <2>1 DEF Sound
  <2>4. \A d \in Scheduled' \cap RuleCell : Present(d)
    BY <2>2 DEF Sound
  <2>5. Sound(D, S)'
    BY <2>1, <2>3, <2>4, QuietSound
  <2> QED
    BY <1>4, <2>1, <2>5
<1>11. CASE BootstrapDone
  <2>1. /\ UNCHANGED <<cellVars, precedents, stack, answer>> /\ Scheduled' = Scheduled
        /\ stack = <<>>
    BY <1>11 DEF BootstrapDone, graphVars, Scheduled, batchVars
  <2>2. \A a \in answer' : Right(D, S, a)
    BY <2>1 DEF Sound
  <2>3. \A d \in Scheduled' \cap RuleCell : Present(d)
    BY <2>1 DEF Sound
  <2>4. Sound(D, S)'
    BY <2>1, <2>2, <2>3, QuietSound
  <2> QED
    BY <1>4, <2>1, <2>4
<1> QED
  BY <1>5, <1>6, <1>7, <1>8, <1>9, <1>10, <1>11 DEF Step

-----------------------------------------------------------------------------
(* Operations.                                                              *)

(* Nothing is computed: nothing is wrong.                                   *)
LEMMA EmptySound ==
  ASSUME NEW D, NEW S, \A c \in RuleCell' : value'[c] = Empty,
         \A i \in DOMAIN stack' : DOMAIN stack'[i].read = {},
         Len(stack') \in {0, 1}, answer' = {}, Scheduled' = {}
  PROVE  Sound(D, S)'
<1>1. LinkedIn(rule, stack)'
  BY DEF LinkedIn
<1>2. \A i \in DOMAIN stack' : Correct(D, S, rule', stack'[i])
  BY DEF Correct
<1> QED
  BY <1>1, <1>2 DEF Sound

(* What an edit reaches is closed under the recorded edges.                 *)
LEMMA ReachedIsClosed ==
  ASSUME NEW c \in Cell, NEW dropped
  PROVE  /\ c \in Reached(c, dropped)
         /\ \A d \in Cell : precedents[d] \cap Reached(c, dropped) # {} => d \in Reached(c, dropped)
<1>1. c \in Reached(c, dropped)
  BY DEF Reached
<1>2. ASSUME NEW d \in Cell, NEW e \in precedents[d], e \in Reached(c, dropped)
      PROVE  d \in Reached(c, dropped)
  <2> SUFFICES ASSUME NEW T \in SUBSET Cell, c \in T, Closed(T, dropped) PROVE d \in T
    BY DEF Reached
  <2>1. e \in T
    BY <1>2 DEF Reached
  <2> QED
    BY <2>1 DEF Closed
<1> QED
  BY <1>1, <1>2

(* V are cells without a rule; W are those after a step, which may have made *)
(* c one of them.                                                           *)
Grown(V, W, c) ==
  /\ V \subseteq Cell /\ V \cap RuleCell = {} /\ W \subseteq Cell
  /\ V \ {c} \subseteq W /\ W \subseteq V \cup {c}

(* What is left after an edit is right, or as stale as before: no cell that *)
(* keeps its value needs one that has lost it, or the edited cell, before a *)
(* stale one.                                                               *)
LEMMA EditSound ==
  ASSUME IInv, IInv', NoBatch, NEW D, D = Denotation, NEW E, E = Denotation',
         NEW c \in Cell, NEW v \in Number \cup {Empty}, EditCell(c, v),
         NEW V, NEW W, Grown(V, W, c), W \cap RuleCell' = {},
         NEW S, S = Stale(V, rule, RuleCell, D), Sound(D, S),
         NEW Z, Z = Stale(W, rule', RuleCell', E)
  PROVE  Sound(E, Z)'
<1> PICK dropped : dropped = {d \in RuleCell \ {c} : value[d] # Empty}
  OBVIOUS
<1> PICK reached : reached = Reached(c, dropped)
  OBVIOUS
<1>1. /\ task = "idle" /\ stack = <<>>
      /\ override' = IF v = Empty THEN override \ {c} ELSE override \cup {c}
      /\ value' = [d \in Cell |-> IF d = c THEN v
                                  ELSE IF d \in reached \cap dropped THEN Empty
                                  ELSE value[d]]
      /\ answer' = {}
      /\ UNCHANGED <<rule, precedents, tracked, stack, task, batchVars, todo>>
  BY DEF EditCell, Idle, IInv, StackOK
<1>2. Making = {}
  BY <1>1, MakingIs
<1>3. Scheduled' = {}
  BY <1>1 DEF Scheduled, batchVars, NoBatch
<1>4. \A d \in Cell : d # c => (d \in RuleCell' <=> d \in RuleCell)
  BY <1>1 DEF RuleCell, HasRule
<1>5. RuleCell \subseteq Cell /\ RuleCell' \subseteq Cell
  BY DEF RuleCell
<1>6. c \in reached /\ \A d \in Cell : precedents[d] \cap reached # {} => d \in reached
  BY ReachedIsClosed
<1>7. /\ Setting(rule, value, RuleCell) /\ Setting(rule', value', RuleCell')
      /\ D = Den(rule, value, RuleCell) /\ E = Den(rule', value', RuleCell')
  BY DenotationIs DEF IInv, TypeOK, Setting, RuleCell, HasRule
<1>8. D \in Showing /\ E \in Showing /\ DOMAIN D = Cell /\ DOMAIN E = Cell
  BY <1>7, DenEquation DEF Showing
<1>9. /\ V \subseteq S /\ S \subseteq V \cup RuleCell /\ Spread(S, rule, RuleCell, D)
      /\ \A T \in SUBSET Cell : V \subseteq T /\ Needing(T, rule, RuleCell, D) => S \subseteq T
  BY <1>5, StaleSpreads DEF Grown
<1>10. /\ W \subseteq Z /\ Spread(Z, rule', RuleCell', E)
       /\ \A T \in SUBSET Cell :
            W \subseteq T /\ Needing(T, rule', RuleCell', E) => Z \subseteq T
  BY <1>5, StaleSpreads DEF Grown
<1>11. \A d \in RuleCell : rule[d] \in RulesOf(d) /\ rule[d] # NoRule /\ d \in Cell
                          /\ rule[d].refs \in Seq(Cell)
  BY RuleShape DEF IInv, TypeOK, RuleCell, HasRule
<1> DEFINE N(d) == Needed(rule[d], Clear(D, S))
           U == {d \in Cell : d # c /\ d \notin reached /\ (d \in RuleCell => value[d] # Empty)}
           G == U \ S
<1>12. ASSUME NEW d \in U, d \in RuleCell
       PROVE  Upheld(D, S, d) /\ N(d) \subseteq U
  <2>1. Upheld(D, S, d)
    BY <1>12 DEF Sound
  <2>2. N(d) \subseteq precedents[d] /\ N(d) \subseteq Cell
    BY <1>11, <1>12, <2>1, NeededType DEF Upheld
  <2>3. ASSUME NEW y \in N(d) PROVE y \in U
    <3>1. y \notin reached
      BY <1>6, <2>2, <2>3
    <3>2. y \in RuleCell => value[y] # Empty
      BY <1>2, <2>1 DEF Upheld, Present
    <3> QED
      BY <1>6, <2>2, <3>1, <3>2
  <2> QED
    BY <2>1, <2>3
<1>13. \A d \in U : value'[d] = value[d] /\ (d \in RuleCell' <=> d \in RuleCell) /\ d \in Cell
  BY <1>1, <1>4
<1>14. ASSUME NEW d \in G, d \in RuleCell
       PROVE  Needed(rule[d], D) = N(d) /\ N(d) \subseteq G
  <2>1. Needed(rule[d], D) \cap S = {}
    BY <1>9, <1>14 DEF Spread
  <2>2. Needed(rule[d], D) = N(d)
    BY <1>8, <1>11, <1>14, <2>1, ClearNeeds
  <2> QED
    BY <1>12, <1>14, <2>1, <2>2
<1>15. \A d \in G : E[d] = D[d]
  <2>1. \A d \in G : /\ d \in RuleCell' <=> d \in RuleCell
                     /\ d \in RuleCell => rule'[d] = rule[d] /\ Needed(rule[d], D) \subseteq G
                     /\ d \notin RuleCell => value'[d] = value[d]
    BY <1>1, <1>13, <1>14
  <2>2. G \subseteq Cell
    OBVIOUS
  <2> HIDE DEF G
  <2> PICK C : C = RuleCell
    OBVIOUS
  <2> PICK B : B = RuleCell'
    OBVIOUS
  <2>3. /\ Setting(rule, value, C) /\ Setting(rule', value', B)
        /\ D = Den(rule, value, C) /\ E = Den(rule', value', B)
    BY <1>7
  <2>4. \A d \in G : /\ d \in B <=> d \in C
                     /\ d \in C => rule'[d] = rule[d] /\ Needed(rule[d], D) \subseteq G
                     /\ d \notin C => value'[d] = value[d]
    BY <2>1
  <2> QED
    BY <2>2, <2>3, <2>4, AgreeOnClosed
<1> HIDE DEF N, U
<1>16. ASSUME NEW d \in G, d \in RuleCell
       PROVE  Needed(rule[d], E) = N(d)
  <2>1. /\ N(d) \subseteq G /\ G \subseteq Cell /\ Needed(rule[d], D) = N(d)
        /\ rule[d].refs \in Seq(Cell)
    BY <1>11, <1>13, <1>14, <1>16
  <2>2. Needed(rule[d], E) = Needed(rule[d], D)
    BY <1>8, <1>15, <2>1, NeededSame
  <2> QED
    BY <2>1, <2>2
<1>17. G \cap Z = {}
  <2>1. W \subseteq Cell \ G
    BY <1>9, <1>13 DEF Grown, U
  <2>2. Needing(Cell \ G, rule', RuleCell', E)
    BY <1>1, <1>5, <1>13, <1>14, <1>16 DEF Needing
  <2> QED
    BY <1>10, <2>1, <2>2
<1> DEFINE K == (U \cap S) \ Z
<1>18. K \subseteq RuleCell
  <2>1. \A d \in U : d # c
    BY DEF U
  <2> QED
    BY <1>9, <1>10, <2>1 DEF Grown
<1>19. ASSUME NEW x \in K
       PROVE  \E y \in N(x) : y \in K /\ y \in Needed(rule[x], D)
  <2> PICK r : r = rule[x]
    OBVIOUS
  <2>1. x \in U /\ x \in RuleCell /\ x \in S /\ x \notin Z /\ x \in RuleCell'
        /\ r \in RulesOf(x) /\ r # NoRule /\ x \in Cell /\ r.refs \in Seq(Cell)
        /\ N(x) = Needed(r, Clear(D, S))
    BY <1>11, <1>13, <1>18 DEF N
  <2>2. N(x) \subseteq Needed(r, D) /\ N(x) \cap S # {}
    BY <1>8, <1>9, <2>1, ClearNeeds DEF Spread
  <2>3. PICK y \in N(x) : y \in S
    BY <2>2
  <2>4. N(x) \subseteq U
    BY <1>12, <2>1
  <2>5. y \in Needed(r, E)
    <3> DEFINE h == [z \in N(x) \ S |-> D[z]]
    <3>1. DOMAIN h = N(x) \ S /\ \A z \in DOMAIN h : h[z] = D[z] /\ z \in Cell /\ E[z] = D[z]
      BY <1>13, <1>15, <2>4
    <3> HIDE DEF h
    <3>2. /\ \A z \in N(x) : z \in DOMAIN Clear(D, S) <=> z \in DOMAIN h
          /\ \A z \in N(x) \cap DOMAIN Clear(D, S) : h[z] = Clear(D, S)[z]
      BY <1>13, <2>4, <3>1 DEF Clear
    <3>3. Needed(r, h) = N(x)
      BY <2>1, <3>2, NeededSame
    <3>4. Needed(r, h) \subseteq Needed(r, E)
      BY <1>8, <3>1, NeededGrows
    <3> QED
      BY <3>3, <3>4
  <2>6. y \notin Z
    BY <1>1, <1>10, <2>1, <2>5 DEF Spread
  <2> QED
    BY <2>2, <2>3, <2>4, <2>6
<1>20. K = {}
  <2>1. \A x \in K : D[x] = CIRC
    <3>1. \A x \in K : Needed(rule[x], D) \cap K # {}
      BY <1>19
    <3> HIDE DEF K
    <3> QED
      BY <1>7, <1>18, <3>1, CircleIsError
  <2>2. V \subseteq S \ K
    BY <1>9, <1>18 DEF Grown
  <2>3. Needing(S \ K, rule, RuleCell, D)
    <3> SUFFICES ASSUME NEW e \in RuleCell, NEW z \in Needed(rule[e], D), z \in S \ K,
                        e \notin S \ K
                 PROVE  FALSE
      BY DEF Needing
    <3>1. e \in S
      BY <1>9 DEF Spread
    <3>2. PICK y \in N(e) : y \in K
      BY <1>19, <3>1
    <3>3. y \in Needed(rule[e], Clear(D, S)) /\ y \in S /\ D[y] = CIRC
      BY <2>1, <3>2 DEF N
    <3>4. z = y
      BY <1>11, <3>3, OnlyStale
    <3> QED
      BY <3>2, <3>4
  <2>4. S \ K \in SUBSET Cell
    BY <1>9 DEF Spread
  <2>5. S \subseteq S \ K
    BY <1>9, <2>2, <2>3, <2>4
  <2> QED
    BY <2>5
<1>21. \A d \in U : d \in S <=> d \in Z
  BY <1>17, <1>20
<1>22. ASSUME NEW d \in RuleCell', value'[d] # Empty
       PROVE  Upheld(E, Z, d)'
  <2>1. d # c
    <3> SUFFICES ASSUME d = c PROVE FALSE
      OBVIOUS
    <3>1. c \notin override' /\ value'[c] = v
      BY <1>1 DEF RuleCell
    <3>2. v = Empty
      BY <1>1, <3>1
    <3> QED
      BY <1>22, <3>1, <3>2
  <2>2. d \in Cell /\ d \in RuleCell
    BY <1>4, <1>5, <2>1
  <2>3. d \notin reached \cap dropped /\ value'[d] = value[d]
    BY <1>1, <1>22, <2>1, <2>2
  <2>4. d \in U
    BY <1>22, <2>1, <2>2, <2>3 DEF U
  <2>5. Upheld(D, S, d) /\ N(d) \subseteq U /\ rule[d].refs \in Seq(Cell)
        /\ N(d) = Needed(rule[d], Clear(D, S))
    BY <1>11, <1>12, <2>2, <2>4 DEF N
  <2>6. Needed(rule[d], Clear(E, Z)) = N(d)
    <3> PICK r : r = rule[d]
      OBVIOUS
    <3> PICK f : f = Clear(D, S)
      OBVIOUS
    <3> PICK g : g = Clear(E, Z)
      OBVIOUS
    <3> PICK M : M = N(d)
      OBVIOUS
    <3>1. M = Needed(r, f) /\ r.refs \in Seq(Cell) /\ M \subseteq U
      BY <2>5
    <3>2. \A z \in M : z \in DOMAIN f <=> z \in DOMAIN g
      BY <1>13, <1>21, <3>1 DEF Clear
    <3>3. \A z \in M \cap DOMAIN f : g[z] = f[z]
      BY <1>13, <1>15, <1>21, <3>1 DEF Clear
    <3> HIDE DEF G
    <3>4. Needed(r, g) = Needed(r, f)
      BY ONLY <3>1, <3>2, <3>3, NeededSame
    <3> QED
      BY <2>5, <3>1, <3>4
  <2>7. d \notin Z => value'[d] = E[d]
    BY <1>15, <1>21, <2>3, <2>4, <2>5 DEF Upheld
  <2>8. Needed(rule'[d], Clear(E, Z)) \subseteq precedents'[d]
    BY <1>1, <2>5, <2>6 DEF Upheld
  <2>9. \A y \in Needed(rule'[d], Clear(E, Z)) \cap RuleCell' : Present(y)'
    <3> SUFFICES ASSUME NEW y \in N(d), y \in RuleCell' PROVE Present(y)'
      BY <1>1, <2>6
    <3>1. y \in U /\ y \in RuleCell /\ value'[y] = value[y]
      BY <1>13, <2>5
    <3> QED
      BY <3>1 DEF Present, U
  <2> QED
    BY <2>7, <2>8, <2>9 DEF Upheld
<1>23. DOMAIN stack' = {} /\ LinkedIn(rule', stack')
  BY <1>1 DEF LinkedIn
<1>24. \A a \in answer' : Right(E, Z, a)'
  BY <1>1
<1> QED
  BY <1>3, <1>22, <1>23, <1>24 DEF Sound

(* A deletion that empties a cell leaves the cells that need it as they     *)
(* are: they are stale now.                                                 *)
LEMMA DeleteRuleSound ==
  ASSUME IInv, IInv', NoBatch, NEW D, D = Denotation, NEW E, E = Denotation',
         NEW c \in Cell, DeleteRule(c),
         NEW S, S = Stale(Void, rule, RuleCell, D), Sound(D, S),
         NEW Z, Z = Stale(Void', rule', RuleCell', E)
  PROVE  Sound(E, Z)'
<1> PICK V : V = Void
  OBVIOUS
<1> PICK W : W = Void'
  OBVIOUS
<1>1. /\ task = "idle" /\ stack = <<>> /\ rule' = [rule EXCEPT ![c] = NoRule]
      /\ value' = IF c \in override THEN value ELSE [value EXCEPT ![c] = Empty]
      /\ answer' = {} /\ UNCHANGED <<override, precedents, stack, task>>
      /\ DOMAIN rule = Cell /\ value \in [Cell -> Content]
  BY DEF DeleteRule, Idle, IInv, StackOK, graphVars, TypeOK
<1>2. Making = {}
  BY <1>1, MakingIs
<1>3. Scheduled' = {}
  BY DEF DeleteRule, Idle, Scheduled, batchVars, NoBatch
<1>4. /\ RuleCell' = RuleCell \ {c} /\ RuleCell \subseteq Cell /\ RuleCell' \subseteq Cell
      /\ \A d \in Cell : d # c => rule'[d] = rule[d] /\ value'[d] = value[d]
      /\ c \in override => value' = value /\ c \notin RuleCell
      /\ c \notin override => c \in W
  BY <1>1 DEF RuleCell, HasRule, Void
<1>5. /\ V \subseteq Cell /\ W \subseteq Cell /\ V \subseteq W
      /\ V \cap RuleCell = {} /\ W \cap RuleCell' = {}
  BY <1>1 DEF Void, RuleCell, HasRule
<1>6. /\ Setting(rule, value, RuleCell) /\ Setting(rule', value', RuleCell')
      /\ D = Den(rule, value, RuleCell) /\ E = Den(rule', value', RuleCell')
  BY DenotationIs DEF IInv, TypeOK, Setting, RuleCell, HasRule
<1>7. D \in Showing /\ E \in Showing /\ DOMAIN D = Cell /\ DOMAIN E = Cell
  BY <1>6, DenEquation DEF Showing
<1>8. /\ V \subseteq S /\ S \subseteq V \cup RuleCell /\ Spread(S, rule, RuleCell, D)
      /\ \A T \in SUBSET Cell : V \subseteq T /\ Needing(T, rule, RuleCell, D) => S \subseteq T
  BY <1>4, <1>5, StaleSpreads
<1>9. W \subseteq Z /\ Spread(Z, rule', RuleCell', E)
  <2> PICK B : B = RuleCell'
    OBVIOUS
  <2>1. Z = Stale(W, rule', B, E) /\ B \subseteq Cell /\ W \subseteq Cell /\ W \cap B = {}
    BY <1>4, <1>5
  <2>2. W \subseteq Z /\ Spread(Z, rule', B, E)
    BY ONLY <2>1, StaleSpreads
  <2> QED
    BY <2>2
<1>10. \A d \in RuleCell : rule[d] \in RulesOf(d) /\ rule[d] # NoRule /\ d \in Cell
                          /\ rule[d].refs \in Seq(Cell)
  BY RuleShape DEF IInv, TypeOK, RuleCell, HasRule
<1> DEFINE G == Cell \ Z
<1>11. ASSUME NEW d \in RuleCell', d \notin Z
       PROVE  Needed(rule[d], E) \subseteq G
  <2>1. Needed(rule[d], E) \cap Z = {} /\ d \in RuleCell
    BY <1>1, <1>4, <1>9, <1>11 DEF Spread
  <2> QED
    BY <1>10, <2>1, NeededType
<1>12. \A d \in G : D[d] = E[d]
  <2>1. \A d \in G : /\ d \in RuleCell <=> d \in RuleCell'
                     /\ d \in RuleCell' => rule[d] = rule'[d] /\ Needed(rule'[d], E) \subseteq G
                     /\ d \notin RuleCell' => value[d] = value'[d]
    BY <1>4, <1>9, <1>11
  <2>2. G \subseteq Cell
    OBVIOUS
  <2> HIDE DEF G
  <2> PICK C : C = RuleCell
    OBVIOUS
  <2> PICK B : B = RuleCell'
    OBVIOUS
  <2>3. /\ Setting(rule, value, C) /\ Setting(rule', value', B)
        /\ D = Den(rule, value, C) /\ E = Den(rule', value', B)
    BY <1>6
  <2>4. \A d \in G : /\ d \in C <=> d \in B
                     /\ d \in B => rule[d] = rule'[d] /\ Needed(rule'[d], E) \subseteq G
                     /\ d \notin B => value[d] = value'[d]
    BY <2>1
  <2> QED
    BY <2>2, <2>3, <2>4, AgreeOnClosed
<1>13. S \subseteq Z
  <2>1. Needing(Z, rule, RuleCell, D)
    <3> SUFFICES ASSUME NEW e \in RuleCell, NEW y \in Needed(rule[e], D), y \in Z, e \notin Z
                 PROVE  FALSE
      BY DEF Needing
    <3>1. e \in RuleCell'
      BY <1>4, <1>9
    <3>2. Needed(rule[e], E) \subseteq G /\ rule[e].refs \in Seq(Cell)
      BY <1>10, <1>11, <3>1
    <3>3. Needed(rule[e], D) = Needed(rule[e], E)
      BY <1>7, <1>12, <3>2, NeededSame
    <3> QED
      BY <3>2, <3>3
  <2>2. Z \in SUBSET Cell
    BY <1>9 DEF Spread
  <2> QED
    BY <1>5, <1>8, <1>9, <2>1, <2>2
<1>14. ASSUME NEW d \in RuleCell', value'[d] # Empty
       PROVE  Upheld(E, Z, d)'
  <2>1. d # c /\ d \in RuleCell /\ d \in Cell /\ rule'[d] = rule[d] /\ value'[d] = value[d]
    BY <1>4
  <2>2. Upheld(D, S, d)
    BY <1>14, <2>1 DEF Sound
  <2>3. Needed(rule[d], Clear(E, Z)) \subseteq Needed(rule[d], Clear(D, S))
    <3> PICK f : f = Clear(E, Z)
      OBVIOUS
    <3> PICK g : g = Clear(D, S)
      OBVIOUS
    <3>1. \A x : x \in DOMAIN f /\ f[x] # CIRC => x \in DOMAIN g /\ g[x] = f[x]
      BY <1>12, <1>13 DEF Clear
    <3>2. Needed(rule[d], f) \subseteq Needed(rule[d], g)
      BY <3>1, NeededGrows
    <3> QED
      BY <3>2
  <2>4. d \notin Z => value'[d] = E[d]
    BY <1>12, <1>13, <2>1, <2>2 DEF Upheld
  <2>5. \A y \in Needed(rule[d], Clear(E, Z)) \cap RuleCell' : Present(y)'
    BY <1>2, <1>4, <2>2, <2>3 DEF Upheld, Present
  <2> QED
    BY <1>1, <2>1, <2>2, <2>3, <2>4, <2>5 DEF Upheld
<1>15. DOMAIN stack' = {} /\ LinkedIn(rule', stack')
  BY <1>1 DEF LinkedIn
<1>16. \A a \in answer' : Right(E, Z, a)'
  BY <1>1
<1> QED
  BY <1>3, <1>14, <1>15, <1>16 DEF Sound

(* The operation that runs changes to or from a recalculation only by the   *)
(* steps of one.                                                            *)
LEMMA TaskChanges ==
  ASSUME IInv, [Next]_vars
  PROVE  \/ task' = task
         \/ task' \in {"idle", "read", "compute", "recompute"}
         \/ task' = "view" /\ "view" \in Operations
         \/ RecalculateAll
<1>1. CASE Operation
  BY <1>1 DEF Operation, ReadCell, ViewCell, DeleteRule, EditCell, SetRule, RecomputeDirty, Idle
<1>2. CASE Step
  <2>1. ASSUME NEW s, NEW c, NEW v, Return(s, c, v)
        PROVE  task' = task \/ task' = "idle"
    BY <2>1 DEF Return
  <2>2. CASE ReadReference
    BY <2>1, <2>2 DEF ReadReference, ReadSupplied, ReadEvaluated, ReadCircular, Conclude
  <2>3. CASE FinishEvaluation
    BY <2>1, <2>3 DEF FinishEvaluation, Conclude
  <2>4. CASE FinishView
    BY <2>1, <2>4 DEF FinishView
  <2> QED
    BY <1>2, <2>2, <2>3, <2>4
    DEF Step, RecomputeCell, BootstrapCell, CloseFrontier, BootstrapDone
<1>3. CASE UNCHANGED vars
  BY <1>3 DEF vars
<1> QED
  BY <1>1, <1>2, <1>3 DEF Next

(* The cells that have had their turn are those of a recalculation.         *)
LEMMA BatchChanges ==
  ASSUME IInv, NoBatch, [Next]_vars
  PROVE  NoBatch'
<1> SUFFICES \/ /\ UNCHANGED <<done, frontier>>
                /\ task' = task \/ task \notin {"recompute", "recalculate"}
             \/ task' \in {"recompute", "recalculate"}
             \/ done' = {} /\ frontier' = {}
  BY DEF NoBatch
<1>1. CASE Operation
  <2>1. CASE RecalculateAll
    BY <2>1 DEF RecalculateAll, Idle, batchVars
  <2> QED
    BY <1>1, <2>1 DEF Operation, ReadCell, ViewCell, DeleteRule, EditCell, SetRule,
      RecomputeDirty, Idle, batchVars
<1>2. CASE Step
  <2>1. ASSUME NEW s, NEW c, NEW v, Return(s, c, v)
        PROVE  task' = task \/ task \notin {"recompute", "recalculate"}
    BY <2>1 DEF Return
  <2>2. CASE ReadReference
    <3>1. UNCHANGED <<done, frontier>>
      BY <2>2 DEF ReadReference, batchVars
    <3> QED
      BY <2>1, <2>2, <3>1 DEF ReadReference, ReadSupplied, ReadEvaluated, ReadCircular, Conclude
  <2>3. CASE FinishEvaluation
    BY <2>1, <2>3 DEF FinishEvaluation, Conclude, batchVars
  <2>4. CASE FinishView
    BY <2>1, <2>4 DEF FinishView, batchVars
  <2>5. CASE CloseFrontier
    BY <2>5 DEF CloseFrontier
  <2> QED
    BY <1>2, <2>2, <2>3, <2>4, <2>5 DEF Step, RecomputeCell, BootstrapCell, BootstrapDone, batchVars
<1>3. CASE UNCHANGED vars
  BY <1>3 DEF vars, batchVars
<1> QED
  BY <1>1, <1>2, <1>3 DEF Next

(* A new rule, or a full recalculation, leaves nothing computed.            *)
LEMMA SetRuleSound ==
  ASSUME IInv, NoBatch, NEW D, NEW S, NEW n \in NewRules, SetRule(n[1], n[2])
  PROVE  Sound(D, S)'
<1> DEFINE c == n[1]
<1>1. /\ task = "idle" /\ rule' = [rule EXCEPT ![c] = n[2]] /\ override' = override \ {c}
      /\ value' = [d \in Cell |-> IF d \in RuleCell \cup {c} THEN Empty ELSE value[d]]
      /\ stack' = <<[cell |-> c, read |-> [d \in {} |-> Empty]]>>
      /\ answer' = {} /\ UNCHANGED batchVars
  BY DEF SetRule, Idle
<1>2. \A d \in RuleCell' : value'[d] = Empty
  <2> SUFFICES ASSUME NEW d \in Cell, d \in RuleCell' PROVE d \in RuleCell \cup {c}
    BY <1>1 DEF RuleCell
  <2> QED
    BY <1>1 DEF RuleCell, HasRule, IInv, TypeOK
<1>3. DOMAIN stack' = {1} /\ Len(stack') = 1 /\ DOMAIN stack'[1].read = {}
  BY <1>1
<1>4. Scheduled' = {}
  BY <1>1 DEF Scheduled, NoBatch, batchVars
<1> QED
  BY <1>1, <1>2, <1>3, <1>4, EmptySound

(* ... and what cells should show is the same after a full recalculation.   *)
LEMMA RecalculateAllSound ==
  ASSUME IInv, NoBatch, NEW D, NEW S, RecalculateAll
  PROVE  Sound(D, S)'
<1>1. /\ value' = [c \in Cell |-> IF c \in RuleCell THEN Empty ELSE value[c]]
      /\ answer' = {} /\ UNCHANGED <<override, rule, stack>> /\ stack = <<>>
  BY DEF RecalculateAll, Idle, IInv, StackOK
<1>2. \A d \in RuleCell' : value'[d] = Empty
  BY <1>1 DEF RuleCell, HasRule
<1>3. DOMAIN stack' = {} /\ Len(stack') = 0
  BY <1>1
<1>4. Scheduled' = {}
  BY DEF RecalculateAll, Idle, StartFrontier, Scheduled, NoBatch, batchVars
<1> QED
  BY <1>1, <1>2, <1>3, <1>4, EmptySound

(* The reading of a cell begins, or is over at once.                        *)
LEMMA ReadCellSound ==
  ASSUME IInv, IInv', NEW D, D = Denotation, NEW S, Sound(D, S), NEW c \in Cell, ReadCell(c)
  PROVE  Sound(D, S)' /\ Denotation' = D /\ UNCHANGED <<override, rule>>
<1>1. /\ stack = <<>> /\ UNCHANGED <<override, rule, batchVars, todo>>
      /\ Scheduled' = Scheduled
  BY DEF ReadCell, Idle, IInv, StackOK, Scheduled, batchVars
<1>2. CASE Supplied(c)
  <2>1. /\ UNCHANGED <<cellVars, stack>> /\ Supply(c, {})
        /\ answer' = {[cell |-> c, value |-> value[c]]}
    BY <1>1, <1>2 DEF ReadCell, cellVars
  <2>2. \A a \in answer' : Right(D, S, a)
    BY <1>2, <2>1, SuppliedIsRight DEF Right
  <2>3. \A d \in Scheduled' \cap RuleCell : Present(d)
    BY <1>1 DEF Sound
  <2>4. \A d \in Cell : precedents[d] \subseteq precedents'[d]
    BY <2>1, SupplyEdges
  <2>5. Sound(D, S)'
    BY <1>1, <2>1, <2>2, <2>3, <2>4, QuietSound
  <2>6. Denotation' = Denotation
    BY <2>1, SameDenotation DEF IInv, cellVars, RuleCell, HasRule
  <2> QED
    BY <1>1, <2>5, <2>6
<1>3. CASE ~Supplied(c)
  <2>1. /\ Evaluate(c) /\ c \in RuleCell /\ answer' = {} /\ task = "idle" /\ task' = "read"
        /\ UNCHANGED <<override, rule, precedents>>
    BY <1>1, <1>3 DEF ReadCell, Supplied, graphVars, Idle
  <2>2. Sound(D, S)'
    <3>1. \A d \in Cell : Present(d) => Present(d)'
      BY <2>1, EvaluatePresent
    <3>2. \A d \in Scheduled' \cap RuleCell : Present(d)'
      BY <1>1, <3>1 DEF Sound, RuleCell
    <3> QED
      BY <1>1, <2>1, <3>1, <3>2, EvaluateSound
  <2>3. \A d \in Cell \ RuleCell : value'[d] = value[d]
    BY <2>1 DEF Evaluate, IInv, TypeOK
  <2>4. Denotation' = Denotation
    BY <2>1, <2>3, SameDenotation DEF IInv, RuleCell, HasRule
  <2> QED
    BY <1>1, <2>2, <2>4
<1> QED
  BY <1>2, <1>3

(* The dirty cells are put on the schedule.                                 *)
LEMMA RecomputeDirtySound ==
  ASSUME IInv, IInv', NEW D, D = Denotation, NEW S, Sound(D, S), RecomputeDirty
  PROVE  Sound(D, S)' /\ Denotation' = D /\ UNCHANGED <<override, rule>>
<1>1. UNCHANGED <<cellVars, stack, precedents>> /\ answer' = {} /\ stack = <<>>
  BY DEF RecomputeDirty, graphVars, Idle, IInv, StackOK
<1>2. Scheduled' = {}
  BY DEF RecomputeDirty, StartFrontier, Scheduled
<1>3. Sound(D, S)'
  BY <1>1, <1>2, QuietSound
<1>4. Denotation' = Denotation
  BY <1>1, SameDenotation DEF IInv, cellVars, RuleCell, HasRule
<1> QED
  BY <1>1, <1>3, <1>4 DEF cellVars

(* A view shows what is there, or begins to evaluate its cell.              *)
LEMMA ViewCellSound ==
  ASSUME IInv, IInv', NEW D, D = Denotation, NEW S, Sound(D, S), NEW c \in Cell, ViewCell(c)
  PROVE  Sound(D, S)' /\ Denotation' = D /\ UNCHANGED <<override, rule>>
<1>1. /\ stack = <<>> /\ task = "idle" /\ UNCHANGED <<override, rule, precedents>>
      /\ Scheduled' = Scheduled
  BY DEF ViewCell, Idle, IInv, StackOK, Scheduled, batchVars, graphVars
<1>2. CASE value[c] # Empty \/ c \notin RuleCell
  <2>1. UNCHANGED <<cellVars, stack, task>> /\ answer' = {[cell |-> c, value |-> value[c]]}
    BY <1>1, <1>2 DEF ViewCell, cellVars
  <2>2. c \notin S => value[c] = D[c]
    BY <1>2, DenotationEquation DEF Sound, Upheld, IInv
  <2>3. \A a \in answer' : Right(D, S, a)
    BY <2>1, <2>2 DEF Right
  <2>4. \A d \in Scheduled' \cap RuleCell : Present(d)
    BY <1>1 DEF Sound
  <2>5. Sound(D, S)'
    BY <1>1, <2>1, <2>3, <2>4, QuietSound
  <2>6. Denotation' = Denotation
    BY <2>1, SameDenotation DEF IInv, cellVars, RuleCell, HasRule
  <2> QED
    BY <1>1, <2>5, <2>6
<1>3. CASE value[c] = Empty /\ c \in RuleCell
  <2>1. Evaluate(c) /\ answer' = {} /\ task' = "view"
    BY <1>1, <1>3 DEF ViewCell
  <2>2. value' = value
    BY <1>3, <2>1 DEF Evaluate, IInv, TypeOK
  <2>3. \A d : Present(d)' <=> Present(d)
    <3>1. DOMAIN stack' = {1}
      BY <1>1, <2>1 DEF Evaluate
    <3>2. Making = {} /\ Making' = {}
      BY <1>1, <2>1, <3>1, MakingIs DEF Making
    <3> QED
      BY <2>2, <3>2 DEF Present
  <2>4. \A d \in Scheduled' \cap RuleCell : Present(d)'
    BY <1>1, <2>3 DEF Sound
  <2>5. Sound(D, S)'
    BY <1>1, <1>3, <2>1, <2>3, <2>4, EvaluateSound
  <2>6. Denotation' = Denotation
    BY <1>1, <2>2, SameDenotation DEF IInv, RuleCell, HasRule
  <2> QED
    BY <1>1, <2>5, <2>6
<1> QED
  BY <1>2, <1>3 DEF ViewCell

-----------------------------------------------------------------------------
(* The invariant of the values.                                             *)

(* Nothing is computed at first.                                            *)
LEMMA InitValues == Init => ValueInv
<1> SUFFICES ASSUME Init PROVE ValueInv
  OBVIOUS
<1>1. /\ \A c \in RuleCell : value[c] = Empty
      /\ stack = <<>> /\ answer = {} /\ done = {} /\ frontier = {} /\ task = "idle"
  BY DEF Init, RuleCell
<1>2. LinkedIn(rule, stack) /\ DOMAIN stack = {}
  BY <1>1 DEF LinkedIn
<1>3. \A D, S : Sound(D, S)
  BY <1>1, <1>2 DEF Sound, Scheduled
<1> QED
  BY <1>1, <1>3 DEF ValueInv, NoBatch, NoView

(* Cells that no rule and no hard value covers.                             *)
LEMMA VoidFacts ==
  ASSUME TypeOK
  PROVE  /\ Void \subseteq Cell /\ Void \cap RuleCell = {} /\ RuleCell \subseteq Cell
         /\ \A D : Spread(Stale(Void, rule, RuleCell, D), rule, RuleCell, D)
<1>1. Void \subseteq Cell /\ Void \cap RuleCell = {} /\ RuleCell \subseteq Cell
  BY DEF Void, RuleCell
<1> QED
  BY <1>1, StaleSpreads

(* Every step keeps what is right so, whether the cells that are stale are  *)
(* counted from the empty ones, or there are none and no rule is deleted.   *)
LEMMA NextSound ==
  ASSUME IInv, IInv', NoBatch, NoView, [Next]_vars,
         SafeViews \/ task \in {"recalculate", "bootstrap"},
         NEW D, D = Denotation, NEW E, E = Denotation', NEW V, NEW W,
         \/ V = Void /\ W = Void'
         \/ V = {} /\ W = {} /\ ~\E c \in Cell : DeleteRule(c),
         NEW S, S = Stale(V, rule, RuleCell, D), Sound(D, S),
         NEW Z, Z = Stale(W, rule', RuleCell', E)
  PROVE  Sound(E, Z)'
<1>1. /\ V \subseteq Cell /\ V \cap RuleCell = {}
      /\ W \subseteq Cell /\ W \cap RuleCell' = {}
  BY DEF Void, RuleCell
<1>2. RuleCell \subseteq Cell
  BY DEF RuleCell
<1>3. Spread(S, rule, RuleCell, D)
  BY <1>1, <1>2, StaleSpreads
<1>4. ASSUME Sound(D, S)', Denotation' = D, UNCHANGED <<override, rule>>
      PROVE  Sound(E, Z)'
  <2>1. E = D /\ RuleCell' = RuleCell /\ Void' = Void /\ rule' = rule
    BY <1>4 DEF RuleCell, HasRule, Void
  <2>2. W = V
    BY <2>1
  <2>3. Z = S
    BY <2>1, <2>2
  <2> QED
    BY <1>4, <2>1, <2>3
<1>5. CASE Step
  BY <1>3, <1>4, <1>5, StepSound
<1>6. CASE Operation
  <2>1. ASSUME NEW c \in Cell, ReadCell(c) PROVE Sound(E, Z)'
    BY <1>4, <2>1, ReadCellSound
  <2>2. ASSUME NEW c \in Cell, ViewCell(c) PROVE Sound(E, Z)'
    BY <1>4, <2>2, ViewCellSound
  <2>3. ASSUME NEW c \in Cell, DeleteRule(c) PROVE Sound(E, Z)'
    <3>1. V = Void /\ W = Void'
      BY <2>3
    <3> QED
      BY <2>3, <3>1, DeleteRuleSound
  <2>4. ASSUME NEW c \in Cell, NEW v \in Number \cup {Empty}, EditCell(c, v)
        PROVE  Sound(E, Z)'
    <3>1. rule' = rule /\ \A d \in Cell : d # c => (d \in override' <=> d \in override)
      BY <2>4 DEF EditCell
    <3>2. Void \ {c} \subseteq Void' /\ Void' \subseteq Void \cup {c}
      BY <3>1 DEF Void, HasRule
    <3>3. Grown(V, W, c)
      BY <1>1, <3>2 DEF Grown
    <3> QED
      BY <1>1, <2>4, <3>3, EditSound
  <2>5. ASSUME NEW n \in NewRules, SetRule(n[1], n[2]) PROVE Sound(E, Z)'
    BY <2>5, SetRuleSound
  <2>6. CASE RecomputeDirty
    BY <1>4, <2>6, RecomputeDirtySound
  <2>7. CASE RecalculateAll
    BY <2>7, RecalculateAllSound
  <2> QED
    BY <1>6, <2>1, <2>2, <2>3, <2>4, <2>5, <2>6, <2>7 DEF Operation
<1>7. CASE UNCHANGED vars
  <2>1. /\ UNCHANGED <<cellVars, stack, precedents, answer, task>> /\ Scheduled' = Scheduled
        /\ UNCHANGED <<override, rule>>
    BY <1>7 DEF vars, graphVars, batchVars, cellVars, Scheduled
  <2>2. Denotation' = Denotation
    BY <2>1, SameDenotation DEF IInv, cellVars, RuleCell, HasRule
  <2>3. \A a \in answer' : Right(D, S, a)
    BY <2>1 DEF Sound
  <2>4. \A d \in Scheduled' \cap RuleCell : Present(d)
    BY <2>1 DEF Sound
  <2>5. Sound(D, S)'
    BY <2>1, <2>3, <2>4, QuietSound
  <2> QED
    BY <1>4, <2>1, <2>2, <2>5
<1> QED
  BY <1>5, <1>6, <1>7 DEF Next

(* Every step keeps the values right.                                       *)
LEMMA NextValues ==
  ASSUME IInv, ValueInv, [Next]_vars
  PROVE  ValueInv'
<1>1. IInv' /\ NoBatch /\ NoView
  BY NextInv DEF ValueInv
<1>2. NoBatch'
  BY BatchChanges DEF ValueInv
<1>3. NoView'
  BY TaskChanges DEF ValueInv, NoView, RecalculateAll
<1> PICK D : D = Denotation
  OBVIOUS
<1>4. ASSUME NEW E, E = Denotation', Tidy' PROVE Sound(E, {})'
  <2>1. CASE RecalculateAll
    BY <1>1, <2>1, RecalculateAllSound
  <2>2. CASE ~RecalculateAll
    <3>1. Tidy
      BY <1>4, <2>2, TaskChanges DEF Tidy, SafeViews
    <3>2. Sound(D, {}) /\ (SafeViews \/ task \in {"recalculate", "bootstrap"})
      BY <3>1 DEF ValueInv, Tidy
    <3>3. ~\E c \in Cell : DeleteRule(c)
      BY <3>1 DEF Tidy, DeleteRule, Idle
    <3> PICK none : none = {}
      OBVIOUS
    <3>4. none = Stale(none, rule, RuleCell, D) /\ none = Stale(none, rule', RuleCell', E)
      BY NoneStale
    <3>5. Sound(E, none)'
      BY <1>1, <1>4, <3>2, <3>3, <3>4, NextSound
    <3> QED
      BY <3>5
  <2> QED
    BY <2>1, <2>2
<1>5. ASSUME NEW E, E = Denotation', SafeViews
      PROVE  \A Z \in {Stale(Void', rule', RuleCell', E)} : Sound(E, Z)'
  <2> PICK S : S = Stale(Void, rule, RuleCell, D)
    OBVIOUS
  <2> PICK Z : Z = Stale(Void', rule', RuleCell', E)
    OBVIOUS
  <2>1. Sound(D, S)
    BY <1>5 DEF ValueInv
  <2>2. PICK V, W : V = Void /\ W = Void'
    OBVIOUS
  <2>3. S = Stale(V, rule, RuleCell, D) /\ Z = Stale(W, rule', RuleCell', E)
    BY <2>2
  <2>4. Sound(E, Z)'
    BY <1>1, <1>5, <2>1, <2>2, <2>3, NextSound
  <2> QED
    BY <2>4
<1> QED
  BY <1>2, <1>3, <1>4, <1>5 DEF ValueInv

(* Both invariants together.                                                *)
LEMMA ValuesTheorem == Spec => [](IInv /\ ValueInv)
<1>1. Init => IInv /\ ValueInv
  BY InitInv, InitValues
<1>2. IInv /\ ValueInv /\ [Next]_vars => IInv' /\ ValueInv'
  BY NextInv, NextValues
<1> HIDE DEF IInv, ValueInv
<1> QED
  BY <1>1, <1>2, PTL DEF Spec

(* Between operations, what is computed and not stale is right.             *)
LEMMA IdleSound ==
  ASSUME IInv, NEW D, D = Denotation, NEW S, Spread(S, rule, RuleCell, D), Sound(D, S),
         stack = <<>>
  PROVE  /\ \A c \in RuleCell : value[c] # Empty /\ c \notin S =>
               value[c] = D[c] /\ Needed(rule[c], D) \subseteq precedents[c]
         /\ \A a \in answer : Right(D, S, a)
         /\ \A c \in Scheduled \cap RuleCell : value[c] # Empty
<1>1. Making = {}
  BY MakingIs
<1>2. ASSUME NEW c \in RuleCell, value[c] # Empty, c \notin S
      PROVE  value[c] = D[c] /\ Needed(rule[c], D) \subseteq precedents[c]
  <2>1. Upheld(D, S, c) /\ Needed(rule[c], D) \cap S = {}
    BY <1>2 DEF Sound, Spread
  <2>2. D \in Showing /\ c \in Cell /\ rule[c] \in RulesOf(c) /\ rule[c] # NoRule
    BY DenotationEquation DEF IInv, TypeOK, RuleCell, HasRule
  <2>3. Needed(rule[c], Clear(D, S)) = Needed(rule[c], D)
    BY <2>1, <2>2, ClearNeeds
  <2> QED
    BY <1>2, <2>1, <2>3 DEF Upheld
<1> QED
  BY <1>1, <1>2 DEF Sound, Present

(* ... all of it, while nothing is stale.                                   *)
LEMMA IdleValues ==
  ASSUME IInv, ValueInv, Tidy, stack = <<>>
  PROVE  /\ \A c \in RuleCell : value[c] # Empty =>
               value[c] = Denotation[c] /\ Needed(rule[c], Denotation) \subseteq precedents[c]
         /\ \A a \in answer : a.value = Denotation[a.cell]
         /\ \A c \in Scheduled \cap RuleCell : value[c] = Denotation[c]
<1> PICK D : D = Denotation
  OBVIOUS
<1> PICK none : none = {}
  OBVIOUS
<1>1. Sound(D, none) /\ Spread(none, rule, RuleCell, D)
  BY NoneStale DEF ValueInv
<1> QED
  BY <1>1, IdleSound DEF Right

(* Where no rule is deleted, and views meet no circular rules: a read       *)
(* returns, and a cell that was computed shows, what the rules and the hard *)
(* values say, after any edits, new rules, views and recalculations         *)
(* (_get_cell_by_addr, set_cell_hardvalue).                                 *)
THEOREM ValuesAreCorrectTheorem ==
  ASSUME "delete_rule" \notin Operations, "view" \notin Operations \/ NoCircles
  PROVE  Spec => []ValuesAreCorrect
<1>1. IInv /\ ValueInv => ValuesAreCorrect
  BY IdleValues DEF ValuesAreCorrect, ReadsAreCorrect, NoStaleValues, Tidy, SafeViews, IInv,
    StackOK
<1> QED
  BY <1>1, ValuesTheorem, PTL

(* Under the same conditions the graph has an edge from every cell that a   *)
(* computed value depends on (add_edge, _reverse_edges).                    *)
THEOREM EdgesRecordedTheorem ==
  ASSUME "delete_rule" \notin Operations, "view" \notin Operations \/ NoCircles
  PROVE  Spec => []EdgesRecorded
<1>1. IInv /\ ValueInv => EdgesRecorded
  BY IdleValues DEF EdgesRecorded, Tidy, SafeViews, IInv, StackOK
<1> QED
  BY <1>1, ValuesTheorem, PTL

(* And the cells that a recalculation has been through when a frontier      *)
(* closes all have their values, and the right ones.                        *)
THEOREM FrontierTheorem ==
  ASSUME "delete_rule" \notin Operations, "view" \notin Operations \/ NoCircles
  PROVE  Spec => FrontierIsSettled
<1> DEFINE A == CloseFrontier =>
                  \A c \in (done \cup frontier) \cap RuleCell : value[c] = Denotation[c]
<1>1. IInv /\ ValueInv => A
  BY IdleValues DEF Tidy, SafeViews, CloseFrontier, Scheduled
<1> QED
  BY <1>1, ValuesTheorem, PTL DEF FrontierIsSettled

(* What is stale refers to an empty cell, directly or not.                  *)
LEMMA StaleIsOnVoid ==
  ASSUME NEW D, NEW d \in Stale(Void, rule, RuleCell, D)
  PROVE  OnVoid(d)
<1> SUFFICES ASSUME NEW T \in SUBSET Cell, Void \subseteq T,
                    \A e \in RuleCell : Refers(e, T) => e \in T
             PROVE  d \in T
  BY DEF OnVoid
<1>1. \A e \in RuleCell : Needed(rule[e], D) \cap T # {} => Refers(e, T)
  BY DEF Needed, Refers
<1> QED
  BY <1>1 DEF Stale, Needing

(* With deletions of rules, whose dependents keep their values: a value     *)
(* that is out of date is one of a rule that refers, directly or not, to a  *)
(* cell with neither a rule nor a hard value; no other cell shows, and no   *)
(* view or read returns, anything wrong (delete_rule).                      *)
THEOREM StaleOnVoidTheorem ==
  ASSUME "view" \notin Operations \/ NoCircles
  PROVE  Spec => []StaleOnVoid
<1>1. IInv /\ ValueInv => StaleOnVoid
  <2> SUFFICES ASSUME IInv, ValueInv, task = "idle"
               PROVE  /\ \A d \in RuleCell : value[d] \notin {Empty, Denotation[d]} => OnVoid(d)
                      /\ \A a \in answer : a.value # Denotation[a.cell] => OnVoid(a.cell)
    BY DEF StaleOnVoid
  <2> PICK D : D = Denotation
    OBVIOUS
  <2> PICK S : S = Stale(Void, rule, RuleCell, D)
    OBVIOUS
  <2>1. Sound(D, S) /\ Spread(S, rule, RuleCell, D) /\ stack = <<>>
    BY VoidFacts DEF ValueInv, SafeViews, IInv, StackOK
  <2>2. \A d \in S : OnVoid(d)
    BY StaleIsOnVoid
  <2> QED
    BY <2>1, <2>2, IdleSound DEF Right
<1> QED
  BY <1>1, ValuesTheorem, PTL

(* With views and deletions too: a full recalculation leaves no wrong value *)
(* (recalculate_all, _bootstrap_dependency_graph).                          *)
THEOREM SweepTheorem == Spec => SweepIsFresh
<1> DEFINE A == (task \in {"recalculate", "bootstrap"} /\ task' = "idle") =>
                  \A c \in RuleCell : value[c] # Empty => value[c] = Denotation[c]
<1>1. IInv /\ ValueInv /\ [Next]_vars => [A]_vars
  <2> SUFFICES ASSUME IInv, ValueInv, Next, task \in {"recalculate", "bootstrap"}, task' = "idle"
               PROVE  stack = <<>>
    BY IdleValues DEF Tidy
  <2>1. ASSUME NEW s, NEW c, NEW v, Return(s, c, v) PROVE FALSE
    BY <2>1 DEF Return
  <2>2. ~Operation
    BY DEF Operation, ReadCell, ViewCell, DeleteRule, EditCell, SetRule, RecomputeDirty,
      RecalculateAll, Idle
  <2>3. ~ReadReference
    BY <2>1 DEF ReadReference, ReadSupplied, ReadEvaluated, ReadCircular, Conclude
  <2>4. ~FinishEvaluation /\ ~FinishView
    BY <2>1 DEF FinishEvaluation, FinishView, Conclude
  <2> QED
    BY <2>2, <2>3, <2>4 DEF Next, Step, RecomputeCell, BootstrapCell, CloseFrontier, BootstrapDone
<1> QED
  BY <1>1, ValuesTheorem, PTL DEF SweepIsFresh, Spec

=============================================================================
