----------------------------- MODULE Recalculation -----------------------------
(***************************************************************************)
(* Lazy evaluation of rule cells and incremental recalculation: the cells  *)
(* of one cube, their rules, the dependency graph (lib_openm/deps.py) and  *)
(* the operations of lib_openm/_engine_core.py that read, edit, invalidate *)
(* and recompute them.                                                     *)
(*                                                                         *)
(* A cell holds a hard value the user typed (an override), or a value its  *)
(* rule computed and the engine caches.  A read evaluates the rule if the  *)
(* cache is empty or dirty, reads the cells the rule refers to on the way, *)
(* and records them as precedents; an edit walks the recorded edges to     *)
(* empty what depends on the edited cell.  One thread uses the engine.     *)
(* Evaluation is a stack of calls of _get_cell_by_addr, one step per       *)
(* reference and per return.                                               *)
(*                                                                         *)
(* Dependency tracking is on.  Every rule is anchored to one cell and does *)
(* not refer to that cell.  Slice and function nodes, volatile functions   *)
(* and the parallel scheduler are left out.                                *)
(***************************************************************************)
EXTENDS Integers, Sequences, FiniteSets

CONSTANTS
  Cell,         (* the addresses of a cube                                  *)
  Number,       (* the numbers a cell may hold                              *)
  Empty, CIRC,  (* no value, and the error of a circular reference          *)
  Compute(_, _),(* the number a rule makes of the numbers it has read       *)
  Workspaces,   (* rule assignments the engine may start with               *)
  NewRules,     (* what set_rule may write: pairs of a cell and a rule      *)
  Operations    (* the operations of a run                                  *)

AllOperations == {"edit", "view", "read", "recompute", "recalculate",
                  "set_rule", "delete_rule"}

Content == Number \cup {Empty, CIRC}

(* A rule reads its references from left to right: kind "all" computes with *)
(* all of them, "if" is IF(refs[1], refs[2], 0).                            *)
Rule(kind, refs) == [kind |-> kind, refs |-> refs]
NoRule == Rule("none", <<>>)

(* The rules of a run, for each cell.                                       *)
RulesOf(c) == {w[c] : w \in Workspaces} \cup {n[2] : n \in {m \in NewRules : m[1] = c}}
              \cup {NoRule}

IsRule(c, r) ==
  /\ r = Rule(r.kind, r.refs)
  /\ r.refs \in Seq(Cell \ {c})
  /\ \/ r.kind = "none" /\ r.refs = <<>>
     \/ r.kind = "all" /\ \A nums \in [Cell -> Number] : Compute(r, nums) \in Number
     \/ r.kind = "if" /\ Len(r.refs) = 2

ASSUME RecalculationAssumption ==
  /\ IsFiniteSet(Cell)
  /\ 0 \in Number /\ Empty \notin Number /\ CIRC \notin Number /\ Empty # CIRC
  /\ \A w \in Workspaces : DOMAIN w = Cell
  /\ \A n \in NewRules : n[1] \in Cell /\ n[2] # NoRule
  /\ \A c \in Cell : \A r \in RulesOf(c) : IsRule(c, r)
  /\ Operations \subseteq AllOperations

VARIABLES
  value,       (* cube.data                                                 *)
  override,    (* user_override_addrs                                       *)
  rule,        (* the rule anchored at each cell                            *)
  nodes,       (* cells that have a node in the dependency graph            *)
  precedents,  (* _reverse_edges, of which _edges is the inverse            *)
  dirty,       (* _dirty                                                    *)
  tracked,     (* _tracked_nodes                                            *)
  stack,       (* the evaluations under way, the outermost first            *)
  task,        (* the operation that is running                             *)
  batch,       (* recompute: the dirty cells, and of those                  *)
  before,      (* the precedents of each,                                   *)
  done,        (* the processed ones,                                       *)
  todo,        (* and the ready ones, or bootstrap's, not evaluated yet     *)
  frontier,    (* the ready ones                                            *)
  answer       (* what the last read returned, a set of at most one         *)

cellVars  == <<value, override, rule>>
graphVars == <<nodes, precedents, dirty, tracked>>
batchVars == <<batch, before, done, frontier>>
vars == <<cellVars, graphVars, stack, task, batchVars, todo, answer>>

Tasks == {"idle", "read", "view", "compute", "recompute", "recalculate",
          "bootstrap"}

(* The references a rule has read so far.                                   *)
Reads == UNION {[S -> Content] : S \in SUBSET Cell}
Frame == [cell : Cell, read : Reads]

(* Every variable keeps its type; a hard value is a number, and an edge     *)
(* joins cells that have nodes.                                             *)
TypeOK ==
  /\ value \in [Cell -> Content]
  /\ override \subseteq {c \in Cell : value[c] \in Number}
  /\ DOMAIN rule = Cell /\ \A c \in Cell : rule[c] \in RulesOf(c)
  /\ nodes \subseteq Cell
  /\ precedents \in [Cell -> SUBSET nodes]
  /\ \A c \in Cell : precedents[c] # {} => c \in nodes
  /\ dirty \subseteq nodes
  /\ tracked \subseteq Cell
  /\ stack \in Seq(Frame)
  /\ task \in Tasks
  /\ batch \subseteq Cell /\ done \subseteq batch
  /\ before \in [Cell -> SUBSET batch]
  /\ frontier \subseteq batch
  /\ todo \subseteq Cell
  /\ answer \subseteq [cell : Cell, value : Content]

HasRule(c) == rule[c] # NoRule
RuleCell == {c \in Cell : HasRule(c) /\ c \notin override}
NoCells == [c \in Cell |-> {}]

(* A workspace that was just built: hard values, nothing computed.          *)
Init ==
  /\ rule \in Workspaces
  /\ override \in SUBSET Cell
  /\ value \in [Cell -> Number \cup {Empty}]
  /\ \A c \in Cell : value[c] # Empty <=> c \in override
  /\ nodes = {} /\ precedents = NoCells /\ dirty = {} /\ tracked = {}
  /\ stack = <<>> /\ task = "idle"
  /\ batch = {} /\ before = NoCells /\ done = {} /\ frontier = {} /\ todo = {}
  /\ answer = {}

-----------------------------------------------------------------------------
(* Rules: the next reference, and the result.                               *)

(* _coerce_num: an empty cell counts as zero, an error stays an error.      *)
Num(v) == IF v = Empty THEN 0 ELSE v

(* The references a rule needs, given what has been read: an error ends the *)
(* evaluation (the left error wins), IF reads only the branch it takes.     *)
Needed(r, read) ==
  {r.refs[i] : i \in
    {k \in DOMAIN r.refs :
      \A l \in 1..(k - 1) :
        /\ r.refs[l] \in DOMAIN read
        /\ read[r.refs[l]] # CIRC
        /\ r.kind = "if" => Num(read[r.refs[l]]) # 0}}

NextRead(r, read) == Needed(r, read) \ DOMAIN read

Numbers(r, read) ==
  [c \in Cell |-> IF c \in Needed(r, read) /\ read[c] \in Number THEN read[c] ELSE 0]

Result(r, read) ==
  IF \E c \in Needed(r, read) : read[c] = CIRC THEN CIRC
  ELSE IF r.kind = "all" THEN Compute(r, Numbers(r, read))
  ELSE IF Num(read[r.refs[1]]) = 0 THEN 0
  ELSE Num(read[r.refs[2]])

-----------------------------------------------------------------------------
(* _get_cell_by_addr.  "callers" is the cell whose rule makes the call, a   *)
(* set of at most one.                                                      *)

(* Fault: the edge is added without its nodes.                              *)
AddEdgeOnly(c, callers) ==
  /\ precedents' = [p \in Cell |-> IF p \in callers THEN precedents[p] \cup {c}
                                                    ELSE precedents[p]]
  /\ UNCHANGED nodes

(* The cell just read becomes a precedent of its caller.                    *)
AddEdge(c, callers) ==
  /\ precedents' = [p \in Cell |-> IF p \in callers THEN precedents[p] \cup {c}
                                                    ELSE precedents[p]]
  /\ nodes' = IF callers = {} THEN nodes ELSE nodes \cup callers \cup {c}

(* A value that is already computed, clean and has its edges recorded.      *)
Cached(c) ==
  /\ value[c] \notin {Empty, CIRC}
  /\ c \notin dirty
  /\ IF c \in override THEN c \in tracked ELSE precedents[c] # {}

(* The call returns without evaluating: a cached value, a hard value, or an *)
(* empty cell that no rule covers.                                          *)
Supplied(c) == Cached(c) \/ c \notin RuleCell

Supply(c, callers) ==
  /\ tracked' = tracked \cup {c}
  /\ \/ Cached(c) /\ UNCHANGED <<nodes, precedents, dirty>>
     \/ /\ ~Cached(c) /\ c \notin RuleCell
        /\ AddEdge(c, callers)
        /\ dirty' = IF c \in override THEN dirty ELSE dirty \ {c}

(* Otherwise the rule is evaluated, its cached value forgotten.             *)
Evaluate(c) ==
  /\ value' = [value EXCEPT ![c] = Empty]
  /\ stack' = Append(stack, [cell |-> c, read |-> [d \in {} |-> Empty]])

Top == stack[Len(stack)]
Below == SubSeq(stack, 1, Len(stack) - 1)
Evaluating == {stack[i].cell : i \in DOMAIN stack}

(* get_cell_value evaluates the cell it shows outside the eval context, so  *)
(* that its own reads are not recorded.                                     *)
Recording == task # "view" \/ Len(stack) > 1
Callers == IF Recording THEN {Top.cell} ELSE {}

(* The innermost of the evaluations s has read v from c.                    *)
Received(s, c, v) ==
  [s EXCEPT ![Len(s)].read = [d \in DOMAIN @ \cup {c} |-> IF d = c THEN v
                                                          ELSE @[d]]]

(* The call of c by the evaluations s returns v.                            *)
Return(s, c, v) ==
  IF s # <<>> THEN
    /\ stack' = Received(s, c, v)
    /\ UNCHANGED <<task, answer>>
  ELSE
    /\ stack' = <<>>
    /\ task' = IF task \in {"read", "view", "compute"} THEN "idle" ELSE task
    /\ answer' = IF task \in {"read", "view"} THEN {[cell |-> c, value |-> v]}
                 ELSE {}

-----------------------------------------------------------------------------
(* The steps of an evaluation.                                              *)

ReadSupplied(c) ==
  /\ Supplied(c)
  /\ Supply(c, Callers)
  /\ Return(stack, c, value[c])
  /\ UNCHANGED cellVars

(* Fault: no recursion guard.                                               *)
ReadEvaluatedUnguarded(c) ==
  /\ ~Supplied(c)
  /\ Evaluate(c)
  /\ UNCHANGED <<override, rule, graphVars, task, answer>>

ReadEvaluated(c) ==
  /\ ~Supplied(c)
  /\ c \notin Evaluating
  /\ Evaluate(c)
  /\ UNCHANGED <<override, rule, graphVars, task, answer>>

(* The evaluation of f ends with v; its reads replace its precedents, and   *)
(* the dirty mark goes.                                                     *)
Conclude(f, reads, v) ==
  /\ value' = [value EXCEPT ![f] = v]
  /\ precedents' = [precedents EXCEPT ![f] = reads]
  /\ nodes' = nodes \cup {f} \cup reads
  /\ dirty' = dirty \ {f}
  /\ tracked' = tracked \cup {f}
  /\ Return(Below, f, v)
  /\ UNCHANGED <<override, rule>>

(* The cell is being evaluated further out: CircularReferenceError, caught  *)
(* by the evaluation that made the reference.                               *)
ReadCircular(c) ==
  /\ ~Supplied(c)
  /\ c \in Evaluating
  /\ Conclude(Top.cell, DOMAIN Top.read \cup {c}, CIRC)

ReadReference ==
  /\ stack # <<>>
  /\ \E c \in NextRead(rule[Top.cell], Top.read) :
       ReadSupplied(c) \/ ReadEvaluated(c) \/ ReadCircular(c)
  /\ UNCHANGED <<batchVars, todo>>

(* Fault: only cells that hold a value become precedents.                   *)
FinishEvaluationNonEmpty ==
  /\ stack # <<>>
  /\ Recording
  /\ NextRead(rule[Top.cell], Top.read) = {}
  /\ Conclude(Top.cell, {c \in DOMAIN Top.read : Top.read[c] # Empty},
              Result(rule[Top.cell], Top.read))
  /\ UNCHANGED <<batchVars, todo>>

FinishEvaluation ==
  /\ stack # <<>>
  /\ Recording
  /\ NextRead(rule[Top.cell], Top.read) = {}
  /\ Conclude(Top.cell, DOMAIN Top.read, Result(rule[Top.cell], Top.read))
  /\ UNCHANGED <<batchVars, todo>>

(* get_cell_value stores nothing.                                           *)
FinishView ==
  /\ stack # <<>>
  /\ ~Recording
  /\ NextRead(rule[Top.cell], Top.read) = {}
  /\ Return(Below, Top.cell, Result(rule[Top.cell], Top.read))
  /\ UNCHANGED <<cellVars, graphVars, batchVars, todo>>

-----------------------------------------------------------------------------
(* Reading a cell.                                                          *)

Idle(op) == task = "idle" /\ op \in Operations

(* get_cell_by_addr.                                                        *)
ReadCell(c) ==
  /\ Idle("read")
  /\ \/ /\ Supplied(c)
        /\ Supply(c, {})
        /\ answer' = {[cell |-> c, value |-> value[c]]}
        /\ UNCHANGED <<value, stack, task>>
     \/ /\ ~Supplied(c)
        /\ Evaluate(c)
        /\ task' = "read" /\ answer' = {}
        /\ UNCHANGED graphVars
  /\ UNCHANGED <<override, rule, batchVars, todo>>

(* get_cell_value: whatever value is there, clean or not.                   *)
ViewCell(c) ==
  /\ Idle("view")
  /\ \/ /\ value[c] # Empty \/ c \notin RuleCell
        /\ answer' = {[cell |-> c, value |-> value[c]]}
        /\ UNCHANGED <<value, stack, task>>
     \/ /\ value[c] = Empty /\ c \in RuleCell
        /\ Evaluate(c)
        /\ task' = "view" /\ answer' = {}
  /\ UNCHANGED <<override, rule, graphVars, batchVars, todo>>

-----------------------------------------------------------------------------
(* Edits and invalidation.                                                  *)

(* _mark_node_and_dependents_dirty: the cells reached from c along recorded *)
(* edges; a rule cell whose value is dropped drags its precedents along.    *)
Closed(T, dropped) ==
  /\ \A d \in Cell : precedents[d] \cap T # {} => d \in T
  /\ \A t \in T \cap dropped : precedents[t] \subseteq T

(* Fault: the direct dependents only.                                       *)
ReachedDirectly(c, dropped) == {c} \cup {d \in Cell : c \in precedents[d]}

Reached(c, dropped) ==
  {d \in Cell : \A T \in SUBSET Cell : c \in T /\ Closed(T, dropped) => d \in T}

(* Fault: the dependents are marked dirty but keep their values.            *)
EditCellMarking(c, v) ==
  /\ Idle("edit")
  /\ value[c] # v \/ c \in override
  /\ override' = IF v = Empty THEN override \ {c} ELSE override \cup {c}
  /\ value' = [value EXCEPT ![c] = v]
  /\ dirty' = dirty \cup Reached(c, {})
  /\ nodes' = nodes \cup {c}
  /\ answer' = {}
  /\ UNCHANGED <<rule, precedents, tracked, stack, task, batchVars, todo>>

(* set_cell_hardvalue, and clear_cell_hardvalue, which sets Empty.          *)
EditCell(c, v) ==
  LET dropped == {d \in RuleCell \ {c} : value[d] # Empty}
      reached == Reached(c, dropped)
  IN  /\ Idle("edit")
      /\ value[c] # v \/ c \in override
      /\ override' = IF v = Empty THEN override \ {c} ELSE override \cup {c}
      /\ value' = [d \in Cell |-> IF d = c THEN v
                                  ELSE IF d \in reached \cap dropped THEN Empty
                                  ELSE value[d]]
      /\ dirty' = dirty \cup reached
      /\ nodes' = nodes \cup {c}
      /\ answer' = {}
      /\ UNCHANGED <<rule, precedents, tracked, stack, task, batchVars, todo>>

(* Fault: only the cell the rule is for is invalidated.                     *)
SetRuleAlone(c, r) ==
  /\ Idle("set_rule")
  /\ rule' = [rule EXCEPT ![c] = r]
  /\ override' = override \ {c}
  /\ value' = [value EXCEPT ![c] = Empty]
  /\ nodes' = nodes \cup {c}
  /\ dirty' = dirty \cup {c}
  /\ stack' = <<[cell |-> c, read |-> [d \in {} |-> Empty]]>>
  /\ task' = "compute" /\ answer' = {}
  /\ UNCHANGED <<precedents, tracked, batchVars, todo>>

(* set_rule with one target cell, of a rule that is accepted: every node of *)
(* the cube becomes dirty and every computed value goes, the cell's hard    *)
(* value gives way to the rule, and the rule is evaluated.  The code does   *)
(* that twice, the first time to validate the rule, swallowing what the     *)
(* evaluation raises; then it empties the cell again.  The model has the    *)
(* second evaluation.  A rule that does not parse or names what is not      *)
(* there is rolled back by _validate_rule_entry and is not in NewRules.     *)
SetRule(c, r) ==
  /\ Idle("set_rule")
  /\ rule' = [rule EXCEPT ![c] = r]
  /\ override' = override \ {c}
  /\ value' = [d \in Cell |-> IF d \in RuleCell \cup {c} THEN Empty ELSE value[d]]
  /\ nodes' = nodes \cup {c}
  /\ dirty' = nodes \cup {c}
  /\ stack' = <<[cell |-> c, read |-> [d \in {} |-> Empty]]>>
  /\ task' = "compute" /\ answer' = {}
  /\ UNCHANGED <<precedents, tracked, batchVars, todo>>

(* delete_rule: only the rule's own cell is cleared.                        *)
DeleteRule(c) ==
  /\ Idle("delete_rule")
  /\ HasRule(c)
  /\ rule' = [rule EXCEPT ![c] = NoRule]
  /\ value' = IF c \in override THEN value ELSE [value EXCEPT ![c] = Empty]
  /\ answer' = {}
  /\ UNCHANGED <<override, graphVars, stack, task, batchVars, todo>>

-----------------------------------------------------------------------------
(* Recalculation.                                                           *)

(* Fault: the processed cells are ready again.                              *)
ReadyAgain(dirtyCells, edges, processed) ==
  {c \in dirtyCells : edges[c] \subseteq processed}

(* The dirty cells all of whose dirty precedents are processed.             *)
Ready(dirtyCells, edges, processed) ==
  {c \in dirtyCells \ processed : edges[c] \subseteq processed}

StartFrontier(dirtyCells) ==
  LET edges == [c \in Cell |-> IF c \in dirtyCells
                               THEN precedents[c] \cap dirtyCells ELSE {}]
  IN  /\ batch' = dirtyCells /\ before' = edges /\ done' = {}
      /\ frontier' = Ready(dirtyCells, edges, {})
      /\ todo' = frontier'

AnyReady(dirtyCells) == \E c \in dirtyCells : precedents[c] \cap dirtyCells = {}

(* recompute_dirty_nodes; with nothing ready it changes nothing.            *)
RecomputeDirty ==
  /\ Idle("recompute")
  /\ AnyReady(dirty)
  /\ StartFrontier(dirty)
  /\ task' = "recompute" /\ answer' = {}
  /\ UNCHANGED <<cellVars, graphVars, stack>>

(* Fault: the caches are not cleared, and no node is made dirty.            *)
RecalculateAllCached ==
  /\ Idle("recalculate")
  /\ answer' = {}
  /\ \/ AnyReady(dirty) /\ StartFrontier(dirty) /\ task' = "recalculate"
     \/ /\ ~AnyReady(dirty)
        /\ todo' = override \cup RuleCell
        /\ task' = "bootstrap"
        /\ UNCHANGED batchVars
  /\ UNCHANGED <<cellVars, graphVars, stack>>

(* recalculate_all: every rule cell is emptied and every node dirty; when   *)
(* that leaves nothing ready, the graph is built cell by cell.              *)
RecalculateAll ==
  /\ Idle("recalculate")
  /\ value' = [c \in Cell |-> IF c \in RuleCell THEN Empty ELSE value[c]]
  /\ dirty' = nodes
  /\ answer' = {}
  /\ \/ /\ AnyReady(nodes)
        /\ StartFrontier(nodes)
        /\ task' = "recalculate"
     \/ /\ ~AnyReady(nodes)
        /\ todo' = override \cup RuleCell
        /\ task' = "bootstrap"
        /\ UNCHANGED batchVars
  /\ UNCHANGED <<override, rule, nodes, precedents, tracked, stack>>

(* Fault: the evaluation is left to the next read.                          *)
RecomputeCellLater(c) ==
  /\ task \in {"recompute", "recalculate"} /\ stack = <<>>
  /\ c \in todo
  /\ todo' = todo \ {c}
  /\ value' = IF c \in RuleCell THEN [value EXCEPT ![c] = Empty] ELSE value
  /\ UNCHANGED <<override, rule, graphVars, stack, task, batchVars, answer>>

(* Fault: a hard value does not keep the rule from being evaluated.         *)
RecomputeCellOverridden(c) ==
  /\ task \in {"recompute", "recalculate"} /\ stack = <<>>
  /\ c \in todo
  /\ todo' = todo \ {c}
  /\ IF HasRule(c) THEN Evaluate(c) ELSE UNCHANGED <<value, stack>>
  /\ UNCHANGED <<override, rule, graphVars, task, batchVars, answer>>

(* One cell of the frontier: a rule cell is evaluated afresh.  The code     *)
(* goes through the frontier in the order of the keys.                      *)
RecomputeCell(c) ==
  /\ task \in {"recompute", "recalculate"} /\ stack = <<>>
  /\ c \in todo
  /\ todo' = todo \ {c}
  /\ IF c \in RuleCell THEN Evaluate(c) ELSE UNCHANGED <<value, stack>>
  /\ UNCHANGED <<override, rule, graphVars, task, batchVars, answer>>

(* The frontier is clean, and what it was holding up is next.               *)
CloseFrontier ==
  /\ task \in {"recompute", "recalculate"} /\ stack = <<>>
  /\ todo = {}
  /\ dirty' = dirty \ frontier
  /\ LET next == Ready(batch, before, done \cup frontier)
     IN  IF next = {}
         THEN /\ task' = "idle" /\ todo' = {}
              /\ batch' = {} /\ before' = NoCells /\ done' = {} /\ frontier' = {}
         ELSE /\ done' = done \cup frontier
              /\ frontier' = next /\ todo' = next
              /\ UNCHANGED <<task, batch, before>>
  /\ UNCHANGED <<cellVars, nodes, precedents, tracked, stack, answer>>

(* _bootstrap_dependency_graph.                                             *)
BootstrapCell(c) ==
  /\ task = "bootstrap" /\ stack = <<>>
  /\ c \in todo
  /\ todo' = todo \ {c}
  /\ \/ Supplied(c) /\ Supply(c, {}) /\ UNCHANGED <<value, stack>>
     \/ ~Supplied(c) /\ Evaluate(c) /\ UNCHANGED graphVars
  /\ UNCHANGED <<override, rule, task, batchVars, answer>>

BootstrapDone ==
  /\ task = "bootstrap" /\ stack = <<>>
  /\ todo = {}
  /\ task' = "idle"
  /\ UNCHANGED <<cellVars, graphVars, stack, batchVars, todo, answer>>

-----------------------------------------------------------------------------
Operation ==
  \/ \E c \in Cell : ReadCell(c) \/ ViewCell(c) \/ DeleteRule(c)
  \/ \E c \in Cell, v \in Number \cup {Empty} : EditCell(c, v)
  \/ \E n \in NewRules : SetRule(n[1], n[2])
  \/ RecomputeDirty
  \/ RecalculateAll

Step ==
  \/ ReadReference
  \/ FinishEvaluation
  \/ FinishView
  \/ \E c \in Cell : RecomputeCell(c) \/ BootstrapCell(c)
  \/ CloseFrontier
  \/ BootstrapDone

Next == Operation \/ Step

Spec == Init /\ [][Next]_vars

(* A call of the engine runs until it returns.                              *)
LiveSpec == Spec /\ WF_vars(Step)

-----------------------------------------------------------------------------
(* Properties.                                                              *)

(* What each cell should show: the hard value, or the value of its rule     *)
(* over what the others show; CIRC if that never ends.                      *)
Denotation ==
  LET den[n \in 0..Cardinality(Cell)] ==
        IF n = 0 THEN [c \in Cell |-> CIRC]
        ELSE LET inner == den[n - 1]
             IN  [c \in Cell |-> IF c \in RuleCell THEN Result(rule[c], inner)
                                 ELSE value[c]]
  IN  den[Cardinality(Cell)]

(* A read or a view returns what the rules and the hard values say, however *)
(* the workspace came to its present state.                                 *)
ReadsAreCorrect ==
  task = "idle" => \A a \in answer : a.value = Denotation[a.cell]

(* No operation leaves a computed value behind that is not up to date: the  *)
(* value the grid shows without asking for an evaluation.                   *)
NoStaleValues ==
  task = "idle" =>
    \A c \in RuleCell : value[c] # Empty => value[c] = Denotation[c]

ValuesAreCorrect == ReadsAreCorrect /\ NoStaleValues

(* A cell marked dirty shows nothing: get_cell_value, which does not look at *)
(* the mark, never returns a value that is known to be out of date.         *)
DirtyIsEmpty == \A c \in dirty \cap RuleCell : value[c] = Empty

(* "Hard number always wins": only an edit of the cell, or a new rule for   *)
(* it, takes a hard value away; no evaluation, recalculation or deletion    *)
(* that passes through the cell does.                                       *)
HardValuesKept ==
  [][\A c \in override :
       \/ c \in override' /\ value'[c] = value[c]
       \/ \E v \in Number \cup {Empty} : EditCell(c, v)
       \/ \E r \in RulesOf(c) : SetRule(c, r)]_vars

(* A computed value has an edge from every cell its rule depends on now, so *)
(* that an edit of any of them reaches it.                                  *)
EdgesRecorded ==
  task = "idle" =>
    \A c \in RuleCell :
      value[c] # Empty => Needed(rule[c], Denotation) \subseteq precedents[c]

(* No cell is evaluated within its own evaluation: recursion is bounded by  *)
(* the number of cells.                                                     *)
NoNestedEvaluation ==
  \A i, j \in DOMAIN stack : stack[i].cell = stack[j].cell => i = j

(* When a frontier closes, the rule cells processed so far show what the    *)
(* rules say: no cell was evaluated before what it depends on was settled.  *)
FrontierIsSettled ==
  [][CloseFrontier =>
       \A c \in (done \cup frontier) \cap RuleCell : value[c] = Denotation[c]]_vars

(* Every operation ends, circular rules or not.                             *)
OperationsEnd == task # "idle" ~> task = "idle"

(* A deletion of a rule, which invalidates nothing, does no harm but to the *)
(* cells whose rules refer to a cell that has neither a rule nor a hard     *)
(* value, directly or not: the others show, and views and reads return,     *)
(* what the rules and the hard values say.                                  *)
Refers(d, T) == \E i \in DOMAIN rule[d].refs : rule[d].refs[i] \in T
Void == {d \in Cell : ~HasRule(d) /\ d \notin override}
OnVoid(d) == \A T \in SUBSET Cell :
               Void \subseteq T /\ (\A e \in RuleCell : Refers(e, T) => e \in T) => d \in T

StaleOnVoid ==
  task = "idle" =>
    LET shown == Denotation
    IN  /\ \A d \in RuleCell : value[d] \notin {Empty, shown[d]} => OnVoid(d)
        /\ \A a \in answer : a.value # shown[a.cell] => OnVoid(a.cell)

(* A full recalculation leaves nothing stale, deleted rules or not.         *)
SweepIsFresh ==
  [][(task \in {"recalculate", "bootstrap"} /\ task' = "idle") =>
       \A c \in RuleCell : value[c] # Empty => value[c] = Denotation[c]]_vars

(* recalculate_all "Force[s] a full recalculation sweep of the workspace":  *)
(* when it is done every rule cell without a circular reference has a value.*)
FullSweep ==
  [][(task \in {"recalculate", "bootstrap"} /\ task' = "idle") =>
       \A c \in RuleCell : Denotation[c] # CIRC => value[c] # Empty]_vars

=============================================================================
