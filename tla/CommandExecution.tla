--------------------------- MODULE CommandExecution ---------------------------
(***************************************************************************)
(* Commands and undo: the executor (lib_command/core/executor.py), which   *)
(* runs a command inside an undo group, the undo manager                   *)
(* (lib_openm/undo.py), and the edits of cells that the engine makes       *)
(* through it (lib_openm/_engine_core.py).  Cell edits are the only        *)
(* actions that are ever pushed.                                           *)
(*                                                                         *)
(* A thread runs one command at a time.  Each connection of the transport  *)
(* has a thread, and they share one undo manager with one group and no     *)
(* lock.  A step is one push, one undo or redo, or the start or the end of *)
(* a group.                                                                *)
(***************************************************************************)
EXTENDS Naturals, Sequences, FiniteSets

CONSTANTS
  Thread,       (* the threads that execute commands                        *)
  Cell, Number, (* the cells and what may be typed into them                *)
  Empty,        (* no value                                                 *)
  Computed,     (* the value of a rule, kept in its cell                    *)
  MaxHistory,   (* max_history of the undo manager                          *)
  MaxEdits(_),  (* bound on the edits of one command, in each setting       *)
  Settings      (* the settings a run looks at, sets of the following       *)

(* threads: several commands at a time;  fails: commands that raise after   *)
(* some of their edits;  replace: a checkpoint is restored or a file        *)
(* loaded;  batch: several cells in one action;  rules: cells with rules.   *)
Possibilities == {"threads", "fails", "replace", "batch", "rules"}

Typed == Number \cup {Empty}
Content == Typed \cup {Computed}

ASSUME CommandAssumption ==
  /\ Empty \notin Number /\ Computed \notin Number /\ Empty # Computed
  /\ MaxHistory \in Nat \ {0} /\ \A s \in Settings : MaxEdits(s) \in Nat \ {0}
  /\ Settings \subseteq SUBSET Possibilities

VARIABLES
  setting,    (* the setting,                                               *)
  marked,     (* and the cells with rules or those that a failing command   *)
              (* may touch;  neither changes                                *)
  value,      (* cube.data                                                  *)
  override,   (* user_override_addrs                                        *)
  undo,       (* _undo                                                      *)
  redo,       (* _redo                                                      *)
  group,      (* _group: nothing, or the actions of the open group          *)
  command     (* what each thread executes, and the steps it has left       *)

cellVars == <<value, override>>
vars == <<setting, marked, cellVars, undo, redo, group, command>>

May(p) == p \in setting
RuleCell == IF May("rules") THEN marked ELSE {}

(* An action is a list of edits.  One on a cube that is no longer in the    *)
(* workspace changes an object that nobody looks at: it has no edits.       *)
Edit == [cell : Cell, before : Content, after : Typed]
Action == Seq(Edit)
Gone == <<>>

Kind == {"edit", "undo", "redo", "restore", "load"}
Nothing == [kind |-> "none", left |-> 0]
Idle(t) == command[t] = Nothing

(* Hard values are numbers, but for a computed one that undo has brought    *)
(* back; the histories keep to their limit.                                 *)
TypeOK ==
  /\ setting \in Settings /\ marked \subseteq Cell
  /\ value \in [Cell -> Content]
  /\ override \subseteq {c \in Cell : value[c] # Empty}
  /\ \A c \in Cell : value[c] = Computed => c \in RuleCell
  /\ \A c \in Cell \ override : value[c] \notin Number
  /\ undo \in Seq(Action) /\ redo \in Seq(Action)
  /\ Len(undo) <= MaxHistory /\ Len(redo) <= MaxHistory
  /\ group \subseteq Seq(Action) /\ Cardinality(group) <= 1
  /\ command \in [Thread -> [kind : Kind, left : 0..MaxEdits(setting)] \cup {Nothing}]

Init ==
  /\ setting \in Settings
  /\ marked \in SUBSET Cell
  /\ marked = {} \/ May("fails") \/ May("rules")
  /\ override \in SUBSET (Cell \ RuleCell)
  /\ value \in [Cell -> Typed] /\ \A c \in Cell : c \in override <=> value[c] # Empty
  /\ undo = <<>> /\ redo = <<>> /\ group = {}
  /\ command = [t \in Thread |-> Nothing]

The(S) == CHOOSE x \in S : TRUE
Last(s) == s[Len(s)]
Front(s) == SubSeq(s, 1, Len(s) - 1)
Reverse(s) == [i \in DOMAIN s |-> s[Len(s) + 1 - i]]
Concat(ss) ==
  LET upto[i \in 0..Len(ss)] == IF i = 0 THEN <<>> ELSE upto[i - 1] \o ss[i]
  IN  upto[Len(ss)]

(* Fault: a stack without a limit.                                          *)
Unlimited(s) == s

(* A deque with a limit.                                                    *)
Latest(s) ==
  IF Len(s) <= MaxHistory THEN s ELSE SubSeq(s, Len(s) - MaxHistory + 1, Len(s))

-----------------------------------------------------------------------------
(* Cells.                                                                   *)

(* The cells after edits have been made one after another, when v gives     *)
(* what each edited cell holds at last: a mark goes with the value, and     *)
(* what rules have computed elsewhere is forgotten.                         *)
Written(cells, v) ==
  [value |-> [c \in Cell |-> IF c \in DOMAIN v THEN v[c]
                             ELSE IF c \in cells.override THEN cells.value[c]
                             ELSE Empty],
   override |-> {c \in Cell : IF c \in DOMAIN v THEN v[c] # Empty
                              ELSE c \in cells.override}]

EditsOf(action, c) == {i \in DOMAIN action : action[i].cell = c}
Edited(action) == {action[i].cell : i \in DOMAIN action}
First(I) == CHOOSE i \in I : \A k \in I : i <= k
Final(I) == CHOOSE i \in I : \A k \in I : k <= i

(* do: the last edit of a cell tells what it holds.                         *)
Do(cells, action) ==
  LET after == [c \in Edited(action) |-> action[Final(EditsOf(action, c))].after]
  IN  IF action = Gone THEN cells ELSE Written(cells, after)

(* undo, from the last to the first: the first edit tells.                  *)
Undo(cells, action) ==
  LET before == [c \in Edited(action) |-> action[First(EditsOf(action, c))].before]
  IN  IF action = Gone THEN cells ELSE Written(cells, before)

Cells == [value |-> value, override |-> override]
Become(cells) == value' = cells.value /\ override' = cells.override

(* A read computes the value of a rule.                                     *)
Evaluate(c) ==
  /\ c \in RuleCell \ override
  /\ value[c] = Empty
  /\ value' = [value EXCEPT ![c] = Computed]
  /\ UNCHANGED <<setting, marked, override, undo, redo, group, command>>

-----------------------------------------------------------------------------
(* The executor and the undo manager.                                       *)

(* start_group, whatever group is open.                                     *)
Begin(t, kind) ==
  /\ Idle(t)
  /\ May("threads") \/ \A u \in Thread : Idle(u)
  /\ kind \in {"restore", "load"} => May("replace")
  /\ group' = {<<>>}
  /\ command' = [command EXCEPT ![t] =
                   [kind |-> kind, left |-> IF kind = "edit" THEN MaxEdits(setting) ELSE 1]]
  /\ UNCHANGED <<setting, marked, cellVars, undo, redo>>

Running(t, kind) == command[t].kind = kind /\ command[t].left > 0
StepTaken(t) == command' = [command EXCEPT ![t].left = @ - 1]

(* push_and_do: into the group, or on its own when another command has      *)
(* closed it.                                                               *)
PushAndDo(action) ==
  /\ Become(Do(Cells, action))
  /\ IF group # {} THEN group' = {Append(The(group), action)} /\ UNCHANGED <<undo, redo>>
     ELSE undo' = Latest(Append(undo, action)) /\ redo' = <<>> /\ UNCHANGED group

EditOf(c, v) == [cell |-> c, before |-> value[c], after |-> v]

(* set_cell_hardvalue, clear_cell_hardvalue.                                *)
SetCell(t, c, v) ==
  /\ Running(t, "edit")
  /\ value[c] # v \/ c \in override
  /\ PushAndDo(<<EditOf(c, v)>>)
  /\ StepTaken(t)
  /\ UNCHANGED <<setting, marked>>

(* batch_set_cell_hardvalues_by_addr: the values before are those before    *)
(* the whole batch, in which a cell may occur twice.                        *)
SetCells(t, entries) ==
  LET Changes(e) == value[e[1]] # e[2] \/ e[1] \notin override
      edits == Concat([i \in DOMAIN entries |->
                        IF Changes(entries[i]) THEN <<EditOf(entries[i][1], entries[i][2])>>
                        ELSE <<>>])
  IN  /\ May("batch")
      /\ Running(t, "edit")
      /\ edits # <<>>
      /\ PushAndDo(edits)
      /\ StepTaken(t)
      /\ UNCHANGED <<setting, marked>>

RunUndo(t) ==
  /\ Running(t, "undo")
  /\ StepTaken(t)
  /\ IF undo = <<>> THEN UNCHANGED <<cellVars, undo, redo>>
     ELSE /\ Become(Undo(Cells, Last(undo)))
          /\ undo' = Front(undo)
          /\ redo' = Latest(Append(redo, Last(undo)))
  /\ UNCHANGED <<setting, marked, group>>

RunRedo(t) ==
  /\ Running(t, "redo")
  /\ StepTaken(t)
  /\ IF redo = <<>> THEN UNCHANGED <<cellVars, undo, redo>>
     ELSE /\ Become(Do(Cells, Last(redo)))
          /\ redo' = Front(redo)
          /\ undo' = Latest(Append(undo, Last(redo)))
  /\ UNCHANGED <<setting, marked, group>>

AllGone(actions) == [i \in DOMAIN actions |-> Gone]

(* replace_workspace: other cubes take the place of those that actions      *)
(* refer to.                                                                *)
Replace(t) ==
  /\ Running(t, "restore") \/ Running(t, "load")
  /\ StepTaken(t)
  /\ override' \in SUBSET (Cell \ RuleCell)
  /\ value' \in [Cell -> Typed] /\ \A c \in Cell : c \in override' <=> value'[c] # Empty
  /\ undo' = AllGone(undo) /\ redo' = AllGone(redo)
  /\ group' = {AllGone(g) : g \in group}
  /\ UNCHANGED <<setting, marked>>

MayEnd(t) == ~Idle(t) /\ (command[t].kind = "edit" \/ command[t].left = 0)

(* Fault: what was undone can still be redone.                              *)
SucceedRedoKept(t) ==
  LET pushed == {Concat(g) : g \in group \ {<<>>}}
  IN  /\ MayEnd(t)
      /\ undo' = IF command[t].kind = "restore" THEN <<>>
                 ELSE IF pushed # {} THEN Latest(Append(undo, The(pushed))) ELSE undo
      /\ redo' = IF command[t].kind = "restore" THEN <<>> ELSE redo
      /\ group' = {}
      /\ command' = [command EXCEPT ![t] = Nothing]
      /\ UNCHANGED <<setting, marked, cellVars>>

(* end_group.  The event of a restored checkpoint clears the histories; the *)
(* one of a loaded file does not.                                           *)
Succeed(t) ==
  LET pushed == {Concat(g) : g \in group \ {<<>>}}
  IN  /\ MayEnd(t)
      /\ undo' = IF command[t].kind = "restore" THEN <<>>
                 ELSE IF pushed # {} THEN Latest(Append(undo, The(pushed))) ELSE undo
      /\ redo' = IF command[t].kind = "restore" \/ pushed # {} THEN <<>> ELSE redo
      /\ group' = {}
      /\ command' = [command EXCEPT ![t] = Nothing]
      /\ UNCHANGED <<setting, marked, cellVars>>

(* Fault: the group of a failed command stays open.                         *)
FailGroupOpen(t) ==
  /\ ~Idle(t)
  /\ May("fails")
  /\ \A g \in group : \A j \in DOMAIN Concat(g) : Concat(g)[j].cell \in marked
  /\ command' = [command EXCEPT ![t] = Nothing]
  /\ UNCHANGED <<setting, marked, cellVars, undo, redo, group>>

(* cancel_group: a parameter is missing, or the handler raises.  What it    *)
(* has done stays done.  (The marked cells are those it may have touched.)  *)
Fail(t) ==
  /\ ~Idle(t)
  /\ May("fails")
  /\ \A g \in group : \A j \in DOMAIN Concat(g) : Concat(g)[j].cell \in marked
  /\ group' = {}
  /\ command' = [command EXCEPT ![t] = Nothing]
  /\ UNCHANGED <<setting, marked, cellVars, undo, redo>>

-----------------------------------------------------------------------------
Entry == Cell \X Number

Next ==
  \/ \E c \in Cell : Evaluate(c)
  \/ \E t \in Thread :
       \/ \E kind \in Kind : Begin(t, kind)
       \/ \E c \in Cell, v \in Typed : SetCell(t, c, v)
       \/ \E e1, e2 \in Entry : SetCells(t, <<e1, e2>>)
       \/ RunUndo(t) \/ RunRedo(t) \/ Replace(t)
       \/ Succeed(t) \/ Fail(t)

Spec == Init /\ [][Next]_vars

-----------------------------------------------------------------------------
(* Properties.                                                              *)

(* The hard values of the cells that are not marked.                        *)
Shown(cells) ==
  [c \in Cell |-> IF c \in cells.override \ marked THEN cells.value[c] ELSE Empty]

(* The actions on the cubes there are.                                      *)
Live(actions) ==
  Concat([i \in DOMAIN actions |-> IF actions[i] = Gone THEN <<>> ELSE <<actions[i]>>])

(* The states that the actions of a stack lead to, one after the other.     *)
Walk(cells, actions, Step(_, _)) ==
  LET n == Len(actions)
      at[k \in 0..n] == IF k = 0 THEN cells ELSE Step(at[k - 1], actions[n - k + 1])
  IN  [i \in 1..n |-> Shown(at[n - i + 1])]

(* The line, for the state before the command that is running.              *)
LineFrom(s) ==
  [past |-> Walk(s.cells, s.undo, Undo), present |-> Shown(s.cells),
   future |-> Walk(s.cells, s.redo, Do)]
NoLine == [past |-> <<>>, present |-> [c \in Cell |-> Empty], future |-> <<>>]
Settled == IF group = {} THEN Cells ELSE Undo(Cells, Concat(The(group)))
Before == [cells |-> Settled, undo |-> Live(undo), redo |-> Live(redo)]

(* Undo and redo move along a line of states, see History: a command, with  *)
(* all its edits, is undone and redone as a whole, and each state is what   *)
(* it was.  This is so for one user; for the cells no failing command and   *)
(* no rule has touched; and for the present workspace.                      *)
Line == INSTANCE History WITH
  State <- [Cell -> Typed], Limit <- MaxHistory,
  line <- IF "threads" \in setting THEN NoLine
          ELSE The({LineFrom(s) : s \in {Before}})

LinearHistory == Line!Spec

(* A group does not outlive the commands, whatever their interleaving and   *)
(* however they end: an edit made outside of commands can be undone alone.  *)
GroupsEnd == (\A t \in Thread : Idle(t)) => group = {}

(* "each action knows how to execute and reverse itself": undo does not     *)
(* turn what a rule has computed into a value that was typed.               *)
ComputedIsNotTyped == \A c \in override : value[c] # Computed

=============================================================================
