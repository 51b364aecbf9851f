----------------------------- MODULE SnapshotStore -----------------------------
(***************************************************************************)
(* The timeline of a workspace: snapshots stored in SQLite as full         *)
(* payloads or as differences from a base (lib_datastore/datastore.py,     *)
(* delta_engine.py), branches and their heads                              *)
(* (lib_storeadapters/sqlite_snapshot_adapter.py), and the restore of a    *)
(* snapshot with the restructuring that follows it                         *)
(* (lib_runtime/timeline_service.py, lib_timelinewidget/engine.py).        *)
(*                                                                         *)
(* Several processes may have the same workspace open.  They share the     *)
(* tables; each keeps the state of its own delta chain in memory.  One     *)
(* transaction is one step, except that a creation reads its parent in the *)
(* step that writes the row, and the session in the step that writes it.   *)
(*                                                                         *)
(* A snapshot is the number of its creation, so that the numbers are in    *)
(* the order of created_at.  A payload gives each field a value, Absent    *)
(* included; a difference is a payload for the fields that differ, and the *)
(* payload that a checksum is made of stands for the checksum.             *)
(***************************************************************************)
EXTENDS Naturals, FiniteSets

CONSTANTS
  Process,        (* the processes that open the workspace                  *)
  Field, Value,   (* the fields of a payload and their values               *)
  Payload,        (* the payloads that are saved                            *)
  Twin,           (* values that Python finds equal to another value, as    *)
  EqualTo,        (* 1.0 is to 1, and the value each is equal to            *)
  Nobody,         (* nobody holds the lock                                  *)
  MaxSnapshots,   (* bound on the snapshots created,                        *)
  Limit(_),       (* and in each setting                                    *)
  MaxBranch,      (* the branches are 0 (main) and 1.. (main-alt, ...): there *)
                  (* is always another one                                  *)
  MaxDeltaChain,  (* DATASTORE_MAX_DELTA_CHAIN                              *)
  FullEvery,      (* DATASTORE_FULL_SNAPSHOT_EVERY                          *)
  Settings        (* the settings a run looks at, sets of the following     *)

(* shared: several processes at a time;  stop: a process closes or crashes; *)
(* restore, delete, full: these operations;  anywhere: a checkpoint names   *)
(* its branch and parent;  twin: payloads with twins;  write_fails: SQLite  *)
(* errors;  new: the workspace has no store yet, rather than an empty one.  *)
Possibilities == {"shared", "stop", "restore", "delete", "full", "anywhere",
                  "twin", "write_fails", "new"}

Snapshot == 1..MaxSnapshots
None == 0
Id == Snapshot \cup {None}
Branch == 0..MaxBranch
Main == 0

ASSUME SnapshotStoreAssumption ==
  /\ IsFiniteSet(Process) /\ Nobody \notin Process
  /\ MaxSnapshots \in Nat /\ MaxBranch \in Nat /\ MaxSnapshots < MaxBranch
  /\ MaxDeltaChain \in Nat \ {0, 1} /\ FullEvery \in Nat
  /\ Payload \subseteq [Field -> Value] /\ Field # {}
  /\ Twin \subseteq Value /\ EqualTo \in [Twin -> Value \ Twin]
  /\ \A s \in Settings : s \subseteq Possibilities /\ Limit(s) \in 0..MaxSnapshots

VARIABLES
  setting,    (* the setting, which does not change                         *)
  rows,       (* the table snapshots                                        *)
  saved,      (* the payload each snapshot was created from                 *)
  created,    (* how many snapshots have been created                       *)
  file,       (* the file of the store is there                             *)
  heads,      (* the branch heads in the session metadata                   *)
  current,    (* the current branch                                         *)
  lock,       (* who holds the lock of snapshot creation                    *)
  memory,     (* the SQLiteDataStore object of each process                 *)
  pc,         (* what each process is doing                                 *)
  job,        (* the snapshot it is creating                                *)
  plan,       (* after a restore: the rows to rewrite                       *)
  emptied     (* history: after which snapshots an empty session has been   *)
              (* written while nobody held the lock                         *)

vars == <<setting, rows, saved, created, file, heads, current, lock, memory, pc, job, plan,
          emptied>>

May(p) == p \in setting

(* The payload read from a row that holds a difference without applying it: *)
(* none of the fields of a workspace.                                       *)
Foreign == [f \in {} |-> f]
Partial == UNION {[F -> Value] : F \in SUBSET Field}

Row == [parent : Id, branch : Branch, delta : BOOLEAN, base : Id,
        index : Nat, payload : Partial, sum : Payload]

(* _delta_chain is None or the current payload and the number of deltas.    *)
Memory == [lastFull : Id, count : Nat,
           chain : SUBSET [state : Partial, length : Nat]]
Fresh == [lastFull |-> None, count |-> 0, chain |-> {}]

(* from: the checkpoint that is being restored, if any;  id: the snapshot   *)
(* once it has been created.                                                *)
Job == [branch : Branch, parent : Id, full : BOOLEAN, payload : Payload,
        from : Id, id : Id]

(* A process that is not working on a snapshot.                             *)
Jobless == {"down", "new", "made", "idle"}

TypeOK ==
  /\ setting \in Settings
  /\ created \in 0..MaxSnapshots
  /\ DOMAIN rows \subseteq 1..created /\ \A s \in DOMAIN rows : rows[s] \in Row
  /\ saved \in [1..created -> Payload]
  /\ file \in BOOLEAN /\ heads \in [Branch -> Id] /\ current \in Branch
  /\ lock \in Process \cup {Nobody}
  /\ memory \in [Process -> Memory]
  /\ pc \in [Process -> Jobless \cup {"create", "head", "restructure", "rewire"}]
  /\ \A p \in Process : /\ job[p] \subseteq Job /\ Cardinality(job[p]) <= 1
                        /\ job[p] = {} <=> pc[p] \in Jobless
                        /\ lock = p => pc[p] = "head"
                        /\ plan[p] # {} => pc[p] = "rewire"
  /\ emptied \subseteq 0..created

Init ==
  /\ setting \in Settings
  /\ rows = [s \in {} |-> s] /\ saved = [s \in {} |-> s] /\ created = 0
  /\ file = ~May("new") /\ heads = [b \in Branch |-> None] /\ current = Main
  /\ lock = Nobody /\ emptied = {}
  /\ memory = [p \in Process |-> Fresh]
  /\ pc = [p \in Process |-> "down"]
  /\ job = [p \in Process |-> {}] /\ plan = [p \in Process |-> {}]

The(S) == CHOOSE x \in S : TRUE
Greatest(S) == CHOOSE x \in S : \A y \in S : y <= x
Least(S) == CHOOSE x \in S : \A y \in S : x <= y

-----------------------------------------------------------------------------
(* Differences.                                                             *)

(* Two values are compared with their types; when they differ, the new one  *)
(* is recorded unless Python says that they are equal after all.            *)
PythonEqual(v, w) ==
  \/ v = w
  \/ v \in Twin /\ EqualTo[v] = w
  \/ w \in Twin /\ EqualTo[w] = v

(* compute_delta, from a payload or from what _load_raw_payload gave.       *)
DeltaOf(old, new) ==
  [f \in {g \in Field : g \in DOMAIN old => ~PythonEqual(old[g], new[g])} |-> new[f]]

(* apply_delta.                                                             *)
Apply(base, delta) ==
  [f \in DOMAIN base |-> IF f \in DOMAIN delta THEN delta[f] ELSE base[f]]

(* _reconstruct_from_delta: the payload, or nothing when a base is missing  *)
(* or a checksum does not agree.  A base is older than what is rebuilt from *)
(* it.                                                                      *)
Rebuilt ==
  LET rebuilt[s \in Id] ==
        IF s \notin DOMAIN rows THEN {}
        ELSE IF ~rows[s].delta THEN {rows[s].payload}
        ELSE {w \in {Apply(b, rows[s].payload) : b \in rebuilt[rows[s].base]} :
                w = rows[s].sum}
  IN  rebuilt

(* load_snapshot: a difference that has lost its base is given as it is.    *)
Loaded ==
  [s \in Id |-> IF s \in DOMAIN rows /\ rows[s].delta /\ rows[s].base = None
                THEN {Foreign} ELSE Rebuilt[s]]

(* A workspace is made of a payload with the fields of one; without them    *)
(* load_workspace_profiled raises KeyError.                                 *)
Readable == {s \in DOMAIN rows : \E w \in Loaded[s] : DOMAIN w = Field}

-----------------------------------------------------------------------------
(* Opening and closing the workspace.                                       *)

FullRows == {s \in DOMAIN rows : rows[s].index = 0}

(* _recover_delta_state.                                                    *)
Recovered ==
  IF FullRows = {} THEN Fresh
  ELSE LET last == Greatest(FullRows)
       IN  [lastFull |-> last, chain |-> {},
            count |-> Cardinality({s \in DOMAIN rows : s > last})]

(* _session_store finds the file and opens it.                              *)
Open(p) ==
  /\ pc[p] = "down"
  /\ May("shared") \/ \A q \in Process : pc[q] = "down"
  /\ file
  /\ pc' = [pc EXCEPT ![p] = "idle"]
  /\ memory' = [memory EXCEPT ![p] = Recovered]
  /\ UNCHANGED <<setting, rows, saved, created, file, heads, current, lock, job, plan, emptied>>

(* It does not find it, and neither does create_new: the lock of snapshot   *)
(* creation is not taken, get_current_branch has no need of it.             *)
FindNoFile(p) ==
  /\ pc[p] = "down"
  /\ May("shared") \/ \A q \in Process : pc[q] = "down"
  /\ ~file
  /\ pc' = [pc EXCEPT ![p] = "new"]
  /\ UNCHANGED <<setting, rows, saved, created, file, heads, current, lock, memory, job, plan,
                 emptied>>

(* SQLiteDataStore creates the tables that are not there yet.               *)
CreateNew(p) ==
  /\ pc[p] = "new"
  /\ file' = TRUE
  /\ pc' = [pc EXCEPT ![p] = "made"]
  /\ memory' = [memory EXCEPT ![p] = Recovered]
  /\ UNCHANGED <<setting, rows, saved, created, heads, current, lock, job, plan, emptied>>

(* The initial session, whose main has no head, takes the place of what     *)
(* another process may have written since.                                  *)
WriteSession(p) ==
  /\ pc[p] = "made"
  /\ heads' = [b \in Branch |-> None]
  /\ emptied' = IF lock = Nobody THEN emptied \cup {created} ELSE emptied
  /\ pc' = [pc EXCEPT ![p] = "idle"]
  /\ UNCHANGED <<setting, rows, saved, created, file, current, lock, memory, job, plan>>

(* Fault: the lock is a file that outlives the process.                     *)
StopHoldingLock(p) ==
  /\ May("stop")
  /\ pc[p] # "down"
  /\ pc' = [pc EXCEPT ![p] = "down"]
  /\ memory' = [memory EXCEPT ![p] = Fresh]
  /\ job' = [job EXCEPT ![p] = {}] /\ plan' = [plan EXCEPT ![p] = {}]
  /\ UNCHANGED <<setting, rows, saved, created, file, heads, current, lock, emptied>>

(* The process ends, at any point; the operating system frees its lock.     *)
Stop(p) ==
  /\ May("stop")
  /\ pc[p] # "down"
  /\ pc' = [pc EXCEPT ![p] = "down"]
  /\ memory' = [memory EXCEPT ![p] = Fresh]
  /\ lock' = IF lock = p THEN Nobody ELSE lock
  /\ job' = [job EXCEPT ![p] = {}] /\ plan' = [plan EXCEPT ![p] = {}]
  /\ UNCHANGED <<setting, rows, saved, created, file, heads, current, emptied>>

-----------------------------------------------------------------------------
(* Creating a snapshot.                                                     *)

(* The bound leaves room for every creation that has begun.                 *)
Room == created + Cardinality({p \in Process : pc[p] = "create"}) < Limit(setting)

(* create_checkpoint: the branch is chosen before the lock is taken.        *)
Request(p, w, branch, parent, full) ==
  /\ pc[p] = "idle"
  /\ Room
  /\ May("full") \/ ~full
  /\ May("twin") \/ \A f \in Field : w[f] \notin Twin
  /\ \/ branch = current /\ parent = None
     \/ May("anywhere") /\ branch \in {Main, 1} /\ parent \in DOMAIN rows \cup {None}
  /\ pc' = [pc EXCEPT ![p] = "create"]
  /\ job' = [job EXCEPT ![p] = {[branch |-> branch, parent |-> parent,
                                 full |-> full, payload |-> w,
                                 from |-> None, id |-> None]}]
  /\ UNCHANGED <<setting, rows, saved, created, file, heads, current, lock, memory, plan, emptied>>

(* The position of a row after parent.                                      *)
IndexAfter(parent) ==
  (IF parent \in DOMAIN rows THEN rows[parent].index ELSE 0) + 1

(* _should_save_full, and the limit on the stored chain.                    *)
ForcedFull(m, j, parent) ==
  \/ j.full
  \/ FullEvery > 0 /\ m.count >= FullEvery
  \/ parent \in DOMAIN rows /\ IndexAfter(parent) >= MaxDeltaChain

(* The chain in memory; a new one starts from the raw payload of the last   *)
(* full snapshot, if it is still there.                                     *)
ChainOf(m) ==
  IF m.chain # {} THEN m.chain
  ELSE IF m.lastFull \notin DOMAIN rows THEN {}
  ELSE {[state |-> IF rows[m.lastFull].delta THEN Foreign ELSE rows[m.lastFull].payload,
         length |-> 0]}

(* save_snapshot of s: the row, and the memory afterwards.                  *)
Save(m, s, j, parent) ==
  LET chain == ChainOf(m)
      full == \/ ForcedFull(m, j, parent)
              \/ chain = {}
              \/ The(chain).length >= MaxDeltaChain
  IN  IF full
      THEN [row |-> [parent |-> parent, branch |-> j.branch, delta |-> FALSE,
                     base |-> None, index |-> 0, payload |-> j.payload,
                     sum |-> j.payload],
            memory |-> [lastFull |-> s, count |-> 0, chain |-> {}]]
      ELSE [row |-> [parent |-> parent, branch |-> j.branch, delta |-> TRUE,
                     base |-> IF parent # None THEN parent ELSE m.lastFull,
                     index |-> IndexAfter(parent),
                     payload |-> DeltaOf(The(chain).state, j.payload),
                     sum |-> j.payload],
            memory |-> [m EXCEPT !.count = @ + 1,
                                 !.chain = {[state |-> j.payload,
                                             length |-> The(chain).length + 1]}]]

Inserted(s, row) == [t \in DOMAIN rows \cup {s} |-> IF t = s THEN row ELSE rows[t]]

Creating(p) ==
  LET s == created + 1
      j == The(job[p])
      parent == IF j.parent # None THEN j.parent ELSE heads[j.branch]
      save == Save(memory[p], s, j, parent)
  IN  /\ created' = s
      /\ saved' = [t \in 1..s |-> IF t = s THEN j.payload ELSE saved[t]]
      /\ memory' = [memory EXCEPT ![p] = save.memory]
      /\ \/ rows' = Inserted(s, save.row)
         \/ May("write_fails") /\ rows' = rows
      /\ pc' = [pc EXCEPT ![p] = "head"]
      /\ job' = [job EXCEPT ![p] = {[j EXCEPT !.id = s]}]
      /\ UNCHANGED <<setting, file, heads, current, plan, emptied>>

(* Fault: the creation does not wait for the lock.                          *)
CreateRowUnlocked(p) ==
  /\ pc[p] = "create"
  /\ Creating(p)
  /\ UNCHANGED lock

(* The first half of _create_snapshot_locked: the parent is the head of the *)
(* branch unless the caller named one.  The result of save_snapshot, which  *)
(* is FALSE after an SQLite error, is not looked at.                        *)
CreateRow(p) ==
  /\ pc[p] = "create"
  /\ lock = Nobody
  /\ lock' = p
  /\ Creating(p)

(* The second half: the head, and the lock is free.                         *)
CreateHead(p) ==
  LET j == The(job[p])
  IN  /\ pc[p] = "head"
      /\ heads' = [heads EXCEPT ![j.branch] = j.id]
      /\ lock' = Nobody
      /\ IF j.from = None
         THEN /\ pc' = [pc EXCEPT ![p] = "idle"]
              /\ job' = [job EXCEPT ![p] = {}]
         ELSE /\ pc' = [pc EXCEPT ![p] = "restructure"]
              /\ UNCHANGED job
      /\ UNCHANGED <<setting, rows, saved, created, file, current, memory, plan, emptied>>

(* delete_snapshot: the row goes, whatever refers to it.                    *)
DeleteSnapshot(p, s) ==
  /\ May("delete")
  /\ pc[p] = "idle"
  /\ s \in DOMAIN rows
  /\ rows' = [t \in DOMAIN rows \ {s} |-> rows[t]]
  /\ UNCHANGED <<setting, saved, created, file, heads, current, lock, memory, pc, job, plan,
                 emptied>>

-----------------------------------------------------------------------------
(* Restoring a checkpoint.                                                  *)

(* restore_snapshot: the payload replaces the live workspace, and is saved  *)
(* again as a snapshot on main after the one it came from, which becomes    *)
(* the base of the chain.  If it cannot be loaded nothing changes.          *)
Restore(p, s) ==
  /\ May("restore")
  /\ pc[p] = "idle" /\ Room
  /\ s \in Readable
  /\ current' = rows[s].branch
  /\ memory' = [memory EXCEPT ![p] = [lastFull |-> s, count |-> 0, chain |-> {}]]
  /\ pc' = [pc EXCEPT ![p] = "create"]
  /\ job' = [job EXCEPT ![p] = {[branch |-> Main, parent |-> s, full |-> FALSE,
                                 payload |-> The(Loaded[s]), from |-> s, id |-> None]}]
  /\ UNCHANGED <<setting, rows, saved, created, file, heads, lock, plan, emptied>>

(* The links of the rows: what TimelineEngine knows of them.                *)
Links == [s \in DOMAIN rows |-> [branch |-> rows[s].branch, parent |-> rows[s].parent]]
On(links, b) == {s \in DOMAIN links : links[s].branch = b}

(* _find_next_alt_branch.                                                   *)
NextAlt(links) == Least({b \in Branch \ {Main} : On(links, b) = {}})

(* s and the snapshots it comes from, as far as they can be followed.       *)
Ancestors(links, s) ==
  {t \in DOMAIN links :
    \A S \in SUBSET DOMAIN links :
      (s \in S /\ \A u \in S : links[u].parent \in DOMAIN links => links[u].parent \in S)
        => t \in S}

Moved(links, S, b) ==
  [s \in DOMAIN links |-> IF s \in S THEN [links[s] EXCEPT !.branch = b] ELSE links[s]]

(* Fault: what the target comes from stays where it is.                     *)
PromotedBranchOnly(links, target, new) ==
  IF links[target].branch = Main THEN links
  ELSE LET aside == Moved(links, On(links, Main) \ {new}, NextAlt(links))
       IN  [Moved(aside, On(aside, links[target].branch), Main)
             EXCEPT ![new].parent = target]

(* A target on another branch: main becomes an alternative, and the branch  *)
(* of the target and everything the target comes from becomes main.         *)
Promoted(links, target, new) ==
  IF links[target].branch = Main THEN links
  ELSE LET aside == Moved(links, On(links, Main) \ {new}, NextAlt(links))
       IN  [Moved(aside, On(aside, links[target].branch)
                         \cup Ancestors(links, target), Main)
             EXCEPT ![new].parent = target]

(* Fault: everything that has been moved comes after the target.            *)
RewiredAll(links, target, moved) ==
  [s \in DOMAIN links |-> IF s \in moved THEN [links[s] EXCEPT !.parent = target]
                          ELSE links[s]]

(* _restructure_main_branch: the first snapshot of main without a parent    *)
(* (or simply the first) is its root; a later one whose parent is not on    *)
(* main comes after the one before it.  What has been moved away comes      *)
(* after the target, or after another one that has been moved.              *)
Rewired(links, target, moved) ==
  LET main == On(links, Main)
      roots == {s \in main : links[s].parent = None}
      root == IF roots # {} THEN Least(roots) ELSE Least(main)
  IN  [s \in DOMAIN links |->
        IF s = root THEN [links[s] EXCEPT !.parent = None]
        ELSE IF s \in main /\ s > root /\ links[s].parent \notin main
        THEN [links[s] EXCEPT !.parent = Greatest({t \in main : t < s})]
        ELSE IF s \in moved /\ links[s].parent \notin moved
        THEN [links[s] EXCEPT !.parent = target]
        ELSE links[s]]

(* restructure_for_restore: what is newer than the target leaves main,      *)
(* except the snapshot just created.                                        *)
Restructured(links, target, new) ==
  IF target \notin DOMAIN links THEN links
  ELSE LET promoted == Promoted(links, target, new)
           moved == {s \in On(promoted, Main) \ {new} : s > target}
           aside == IF moved = {} THEN promoted
                    ELSE Moved(promoted, moved, NextAlt(promoted))
       IN  Rewired(aside, target, moved)

(* _restructure_after_restore, from the list of the snapshots: the changes  *)
(* to write.                                                                *)
Restructure(p) ==
  LET j == The(job[p])
      links == Restructured(Links, j.from, j.id)
  IN  /\ pc[p] = "restructure"
      /\ plan' = [plan EXCEPT ![p] = {[id |-> s, was |-> Links[s], link |-> links[s]] :
                                        s \in {t \in DOMAIN rows : links[t] # Links[t]}}]
      /\ pc' = [pc EXCEPT ![p] = "rewire"]
      /\ UNCHANGED <<setting, rows, saved, created, file, heads, current, lock, memory, job,
                     emptied>>

(* update_branch_only if the branch has changed, and then, in a transaction *)
(* of its own, update_snapshot_parent, which takes the base of a difference *)
(* along.                                                                   *)
Rewrite(row, c) ==
  IF c.link.branch # c.was.branch
  THEN [row EXCEPT !.branch = c.link.branch]
  ELSE [row EXCEPT !.parent = c.link.parent, !.base = IF row.delta THEN c.link.parent ELSE @]

(* What is left of a change: the parent, if there is another one.           *)
Left(c) ==
  {d \in {[c EXCEPT !.was.branch = c.link.branch]} :
     c.link.branch # c.was.branch /\ d.was # d.link}

(* One row after the other, in the order of the list.                       *)
RewriteRow(p) ==
  /\ pc[p] = "rewire"
  /\ plan[p] # {}
  /\ LET change == CHOOSE c \in plan[p] : \A d \in plan[p] : c.id <= d.id
     IN  /\ plan' = [plan EXCEPT ![p] = (@ \ {change}) \cup Left(change)]
         /\ rows' = [s \in DOMAIN rows |-> IF s = change.id
                                           THEN Rewrite(rows[s], change)
                                           ELSE rows[s]]
  /\ UNCHANGED <<setting, saved, created, file, heads, current, lock, memory, pc, job, emptied>>

RestoreDone(p) ==
  /\ pc[p] = "rewire"
  /\ plan[p] = {}
  /\ current' = Main
  /\ pc' = [pc EXCEPT ![p] = "idle"] /\ job' = [job EXCEPT ![p] = {}]
  /\ UNCHANGED <<setting, rows, saved, created, file, heads, lock, memory, plan, emptied>>

-----------------------------------------------------------------------------
Next ==
  \E p \in Process :
    \/ Open(p) \/ FindNoFile(p) \/ CreateNew(p) \/ WriteSession(p) \/ Stop(p)
    \/ \E w \in Payload, b \in Branch, parent \in Id, full \in BOOLEAN :
         Request(p, w, b, parent, full)
    \/ CreateRow(p) \/ CreateHead(p)
    \/ \E s \in Snapshot : DeleteSnapshot(p, s) \/ Restore(p, s)
    \/ Restructure(p) \/ RewriteRow(p) \/ RestoreDone(p)

Spec == Init /\ [][Next]_vars

-----------------------------------------------------------------------------
(* Properties.                                                              *)

(* One process that does not restart and lets main grow, full snapshots and *)
(* restores included, never loses a snapshot.                               *)
Lossless == setting \subseteq {"restore", "full", "new"}

(* The promise of the store, see Timeline: the workspace made of a snapshot *)
(* is the one it was created from, in every setting, or there is none (as   *)
(* when load_snapshot gives a difference as it is); and there is always one *)
(* in the lossless settings, whatever is restored and moved to other        *)
(* branches.                                                                *)
Contents == INSTANCE Timeline WITH
  Owner <- Process,
  lossy <- ~Lossless,
  content <- [s \in DOMAIN rows |-> IF s \in Readable THEN The(Loaded[s]) ELSE saved[s]],
  readable <- Readable,
  restoring <- [p \in Process |-> {j.payload : j \in {k \in job[p] : k.from # None}}]

KeepsContents == Contents!Spec

(* "so restarts continue the delta chain": a snapshot taken after a restart *)
(* can be loaded like any other.                                            *)
SnapshotsLoad == Readable = DOMAIN rows

(* "so that two windows/processes creating a snapshot at the same time see  *)
(* a consistent main-branch head and form a linear chain instead of         *)
(* siblings": as long as they do nothing else and do not crash in between,  *)
(* a snapshot comes after the one before it, unless a window that found no  *)
(* file has emptied the session since.                                      *)
LinearChain ==
  setting \subseteq {"shared", "full", "twin", "new"} =>
    \A s \in DOMAIN rows :
      rows[s].parent = IF s - 1 \in emptied THEN None ELSE s - 1

(* The sentence as it stands, which the code refutes: a window that opens   *)
(* the store when there is none yet may empty the session after others have *)
(* created snapshots, and the next one is their sibling.                    *)
NoSiblings ==
  setting \subseteq {"shared", "full", "twin", "new"} =>
    \A s \in DOMAIN rows : rows[s].parent = s - 1

(* The number of differences between s and the full snapshot it is rebuilt  *)
(* from.                                                                    *)
Depth ==
  LET depth[s \in Id] ==
        IF s \in DOMAIN rows /\ rows[s].delta THEN depth[rows[s].base] + 1 ELSE 0
  IN  depth

(* A difference is taken from an older snapshot, however the rows are       *)
(* rewired, so that loading one comes to an end;  and no snapshot is        *)
(* rebuilt from a chain longer than the limit, branches, restarts and       *)
(* restores included.  (A restore that comes after a crash, a deletion or a *)
(* misplaced parent can take a base from a short chain to a longer one.)    *)
ChainBounded ==
  /\ \A s \in DOMAIN rows : rows[s].delta => rows[s].base < s
  /\ "restore" \notin setting \/ setting \subseteq {"restore", "full", "twin", "new"} =>
       \A s \in DOMAIN rows : Depth[s] < MaxDeltaChain

Chains == LinearChain /\ ChainBounded

(* A restore that nothing disturbs leaves main a chain from the first       *)
(* snapshot to the target and from there to the new one, its head: all else *)
(* that was on main has gone to another branch.                             *)
RestoredSpine ==
  [][\A p \in Process : RestoreDone(p) /\ setting \subseteq {"restore", "full", "twin", "new"} =>
       LET j == The(job[p])
       IN  /\ heads[Main] = j.id /\ rows[j.id].parent = j.from
           /\ On(Links, Main) = Ancestors(Links, j.id)
           /\ 1 \in On(Links, Main)]_vars

=============================================================================
