---------------------------- MODULE SolverService ----------------------------
(***************************************************************************)
(* Solver jobs on one workspace: SolverService and SolverJobRunner         *)
(* (lib_runtime/solver), the evaluation session that tries candidates out  *)
(* on the live workspace, the lease adapter that admits one session at a   *)
(* time, and the apply adapter that commits a result                       *)
(* (lib_runtime/solver_adapters).                                          *)
(*                                                                         *)
(* A job is one run_solver call and the worker thread it starts.  A client *)
(* is a thread of the job's owner that applies results; every connection   *)
(* has a thread of its own, so calls really run side by side.  A step is   *)
(* the code between two points where another thread can see or change what *)
(* it works on: a critical section, or the write of one variable cell.     *)
(* Callers who do not own the job are refused and are left out, and so is  *)
(* the cancellation token, which only makes a backend stop earlier: the    *)
(* model lets it stop after any evaluation.                                *)
(***************************************************************************)
EXTENDS Integers, FiniteSets

CONSTANTS
  Job,            (* run_solver calls                                       *)
  Client,         (* threads that call apply_solver_result                  *)
  RequestId,      (* apply_request_id values they use                       *)
  NCells,         (* the variable cells are 1..NCells, in problem order     *)
  Value,          (* values of a variable cell                              *)
  Candidates,     (* the points a backend tries                             *)
  Fronts,         (* the sets of points a backend may return; a single      *)
                  (* solution is a set of one, no solution the empty set    *)
  MaxConcurrent,  (* policy.max_concurrent_jobs                             *)
  MaxRetained,    (* policy.max_retained_results                            *)
  MaxEvals,       (* bound on the evaluations of one backend                *)
  Environment     (* what may happen around the service, see below          *)

(* edit: another session sets a variable cell;  stale: a caller passes an   *)
(* expected_revision that is not the current one;  cube_gone: the cube of a *)
(* variable cell was deleted, so that a session's write or restore raises;  *)
(* start_fails: the backend of a job is unknown, its started event cannot   *)
(* be published or its thread not be started;  apply_fails: a cube write or *)
(* the recalculation of an apply raises;  expiry: results reach their time  *)
(* to live.                                                                 *)
Hazards == {"edit", "stale", "cube_gone", "start_fails", "apply_fails", "expiry"}

Cell == 1..NCells
Point == [Cell -> Value]

ASSUME SolverAssumption ==
  /\ NCells \in Nat \ {0}
  /\ MaxConcurrent \in Nat
  /\ MaxRetained \in Nat
  /\ MaxEvals \in Nat
  /\ Candidates \subseteq Point
  /\ Fronts \subseteq SUBSET Point
  /\ Environment \subseteq Hazards

VARIABLES
  cells,       (* the variable cells: value, and membership of              *)
               (* user_override_addrs                                       *)
  leased,      (* the workspace is in _leased_workspaces                    *)
  robbed,      (* jobs whose lease a release by another took (history)      *)
  phase,       (* where a job is in run_solver and then in its worker       *)
  base,        (* base_revision of the job                                  *)
  orig,        (* restoration table of its session                          *)
  candidate,   (* the point it is trying                                    *)
  idx,         (* the next cell its write or restore loop touches           *)
  evals,       (* candidates tried so far                                   *)
  points,      (* solution or Pareto front the backend returned             *)
  solved,      (* the runner holds a result                                 *)
  stored,      (* its entry in _results: none, kept, or evicted             *)
  expired,     (* expires_at of that entry is past                          *)
  applyState,  (* ApplyState of that entry                                  *)
  applyRid,    (* its apply_request_id                                      *)
  receipt,     (* its apply_receipt: none, or a set of one                  *)
  apc,         (* where a client is in apply_solver_result                  *)
  ajob, arid, apoint, aidx,  (* job, request, point and cell of that call   *)
  broken,      (* jobs an apply of which failed once it could write, and    *)
  mixed        (* those to which two calls applied different points at the  *)
               (* same time (history)                                       *)

jobVars    == <<phase, base, orig, candidate, idx, evals, points, solved>>
resultVars == <<stored, expired, applyState, applyRid, receipt>>
applyVars  == <<apc, ajob, arid, apoint, aidx, broken, mixed>>
leaseVars  == <<leased, robbed>>
vars == <<cells, leaseVars, jobVars, resultVars, applyVars>>

Content == [value : Value, override : BOOLEAN]

(* Only overridden cells are hashed; the hash is taken to be injective.     *)
RevisionOf(w) == [c \in {d \in Cell : w[d].override} |-> w[c].value]
Revision == RevisionOf(cells)

(* What cube.set followed by user_override_addrs.add leaves in a cell.      *)
Written(v) == [value |-> v, override |-> TRUE]

(* The revision of a workspace that holds a point in its variable cells.    *)
PointRevision(p) == [c \in Cell |-> p[c]]

NoRequest == "none"
NoJob     == "none"

Phases == {"idle", "rejected", "admitted", "leased", "mismatched", "refused",
           "begun", "captured", "lost", "registered", "orphaned", "solving",
           "writing", "written", "restoring", "closing", "finished", "reported"}
ApplyPcs == {"idle", "claimed", "writing", "recalculating", "failing"}
Revisions == UNION {[S -> Value] : S \in SUBSET Cell}

TypeOK ==
  /\ cells \in [Cell -> Content]
  /\ leased \in BOOLEAN /\ robbed \subseteq Job
  /\ phase \in [Job -> Phases]
  /\ base \in [Job -> Revisions]
  /\ orig \in [Job -> [Cell -> Content]]
  /\ candidate \in [Job -> Point]
  /\ idx \in [Job -> Cell]
  /\ evals \in [Job -> 0..MaxEvals]
  /\ points \in [Job -> SUBSET Point]
  /\ solved \in [Job -> BOOLEAN]
  /\ stored \in [Job -> {"none", "kept", "evicted"}]
  /\ expired \in [Job -> BOOLEAN]
  /\ applyState \in [Job -> {"unapplied", "applying", "applied"}]
  /\ applyRid \in [Job -> RequestId \cup {NoRequest}]
  /\ receipt \in [Job -> SUBSET [rid : RequestId \cup {NoRequest},
                                 point : Point, revision : Revisions]]
  /\ apc \in [Client -> ApplyPcs]
  /\ ajob \in [Client -> Job \cup {NoJob}]
  /\ \A c \in Client : apc[c] # "idle" => ajob[c] \in Job
  /\ arid \in [Client -> RequestId \cup {NoRequest}]
  /\ apoint \in [Client -> Point]
  /\ aidx \in [Client -> Cell]
  /\ broken \subseteq Job /\ mixed \subseteq Job

(* The locals of a call that has not begun have no meaning yet.             *)
Init ==
  /\ cells \in [Cell -> Content]
  /\ leased = FALSE /\ robbed = {}
  /\ phase = [j \in Job |-> "idle"]
  /\ base = [j \in Job |-> Revision]
  /\ orig = [j \in Job |-> cells]
  /\ candidate = [j \in Job |-> [c \in Cell |-> cells[c].value]]
  /\ idx = [j \in Job |-> 1]
  /\ evals = [j \in Job |-> 0]
  /\ points = [j \in Job |-> {}]
  /\ solved = [j \in Job |-> FALSE]
  /\ stored = [j \in Job |-> "none"]
  /\ expired = [j \in Job |-> FALSE]
  /\ applyState = [j \in Job |-> "unapplied"]
  /\ applyRid = [j \in Job |-> NoRequest]
  /\ receipt = [j \in Job |-> {}]
  /\ apc = [c \in Client |-> "idle"]
  /\ ajob = [c \in Client |-> NoJob]
  /\ arid = [c \in Client |-> NoRequest]
  /\ apoint = [c \in Client |-> [d \in Cell |-> cells[d].value]]
  /\ aidx = [c \in Client |-> 1]
  /\ broken = {} /\ mixed = {}

-----------------------------------------------------------------------------
(* run_solver: the caller's part.                                           *)

(* Jobs in _jobs whose state is RUNNING.                                    *)
Running(j) == phase[j] \in {"registered", "orphaned", "solving", "writing",
                            "written", "restoring", "closing"}

Goto(j, p) == phase' = [phase EXCEPT ![j] = p]

(* The concurrency check releases the service lock before the job exists.   *)
RunCheck(j) ==
  /\ phase[j] = "idle"
  /\ Goto(j, IF Cardinality({k \in Job : Running(k)}) < MaxConcurrent
             THEN "admitted" ELSE "rejected")
  /\ UNCHANGED <<cells, leaseVars, base, orig, candidate, idx, evals, points,
                 solved, resultVars, applyVars>>

(* Fault: the lease is not tested.                                          *)
AcquireLeaseUntested(j) ==
  /\ phase[j] = "admitted"
  /\ leased' = TRUE
  /\ Goto(j, "leased")
  /\ UNCHANGED <<cells, robbed, base, orig, candidate, idx, evals, points, solved,
                 resultVars, applyVars>>

(* A session exists from the capture of the restoration table until close   *)
(* has ended.                                                               *)
InSession(j) == phase[j] \in {"captured", "registered", "solving", "writing",
                              "written", "restoring", "closing"}

HoldsLease(j) == InSession(j) \/ phase[j] \in {"leased", "begun", "finished"}

(* Its run_solver call raised after begin_solver_evaluation, with the job   *)
(* in the table or not: it will never run and never release the lease.      *)
Abandoned(j) == phase[j] \in {"lost", "orphaned"}

Owns(j) == (HoldsLease(j) \/ Abandoned(j)) /\ j \notin robbed

(* _release_lease discards the flag, whoever raised it.                     *)
Release(j) ==
  /\ leased' = FALSE
  /\ robbed' = robbed \cup {k \in Job \ {j} : Owns(k)}

(* Begins begin_solver_evaluation.                                          *)
AcquireLease(j) ==
  /\ phase[j] = "admitted"
  /\ leased' = TRUE
  /\ Goto(j, IF leased THEN "rejected" ELSE "leased")
  /\ UNCHANGED <<cells, robbed, base, orig, candidate, idx, evals, points, solved,
                 resultVars, applyVars>>

VerifyRevision(j) ==
  /\ phase[j] = "leased"
  /\ base' = [base EXCEPT ![j] = Revision]
  /\ Goto(j, "begun")
  /\ UNCHANGED <<cells, leaseVars, orig, candidate, idx, evals, points, solved,
                 resultVars, applyVars>>

(* A mismatch releases the lease and raises inside the try block, whose     *)
(* except clause releases the lease once more.                              *)
RevisionMismatch(j) ==
  /\ "stale" \in Environment
  /\ phase[j] = "leased"
  /\ Release(j)
  /\ Goto(j, "mismatched")
  /\ UNCHANGED <<cells, base, orig, candidate, idx, evals, points, solved,
                 resultVars, applyVars>>

ReleaseAndRaise(j, p) ==
  /\ Release(j)
  /\ Goto(j, p)
  /\ UNCHANGED <<cells, base, orig, candidate, idx, evals, points, solved,
                 resultVars, applyVars>>

MismatchRaised(j) == phase[j] = "mismatched" /\ ReleaseAndRaise(j, "refused")

(* A reference does not resolve, the problem is invalid, or a cell holds a  *)
(* value that could not be restored.                                        *)
BeginFails(j) == phase[j] = "begun" /\ ReleaseAndRaise(j, "rejected")

Capture(j) ==
  /\ phase[j] = "begun"
  /\ orig' = [orig EXCEPT ![j] = cells]
  /\ Goto(j, "captured")
  /\ UNCHANGED <<cells, leaseVars, base, candidate, idx, evals, points, solved,
                 resultVars, applyVars>>

(* The job gets its runner and enters _jobs as RUNNING ...                  *)
Register(j) ==
  /\ phase[j] = "captured"
  /\ Goto(j, "registered")
  /\ UNCHANGED <<cells, leaseVars, base, orig, candidate, idx, evals, points,
                 solved, resultVars, applyVars>>

(* ... and its worker thread is started.                                    *)
Start(j) ==
  /\ phase[j] = "registered"
  /\ Goto(j, "solving")
  /\ UNCHANGED <<cells, leaseVars, base, orig, candidate, idx, evals, points,
                 solved, resultVars, applyVars>>

(* Nothing catches what is raised on the way: no runner can be made, or the *)
(* job that has entered the table is not started.                           *)
StartFails(j) ==
  /\ "start_fails" \in Environment
  /\ \/ phase[j] = "captured" /\ Goto(j, "lost")
     \/ phase[j] = "registered" /\ Goto(j, "orphaned")
  /\ UNCHANGED <<cells, leaseVars, base, orig, candidate, idx, evals, points,
                 solved, resultVars, applyVars>>

-----------------------------------------------------------------------------
(* The worker thread: the backend and the session it evaluates with.        *)

(* evaluate_candidate, called by the backend.                               *)
BeginCandidate(j, x) ==
  /\ phase[j] = "solving"
  /\ evals[j] < MaxEvals
  /\ evals' = [evals EXCEPT ![j] = @ + 1]
  /\ candidate' = [candidate EXCEPT ![j] = x]
  /\ idx' = [idx EXCEPT ![j] = 1]
  /\ Goto(j, "writing")
  /\ UNCHANGED <<cells, leaseVars, base, orig, points, solved, resultVars,
                 applyVars>>

(* Fault: one iteration too many.                                           *)
LoopPastEnd(j, next) ==
  IF idx[j] <= NCells
  THEN idx' = [idx EXCEPT ![j] = @ + 1] /\ UNCHANGED phase
  ELSE idx' = [idx EXCEPT ![j] = 1] /\ Goto(j, next)

(* A loop over the cells: one iteration, then the phase that follows.       *)
LoopOver(j, next) ==
  IF idx[j] < NCells
  THEN idx' = [idx EXCEPT ![j] = @ + 1] /\ UNCHANGED phase
  ELSE idx' = [idx EXCEPT ![j] = 1] /\ Goto(j, next)

WriteCell(j) ==
  /\ phase[j] = "writing"
  /\ cells' = [cells EXCEPT ![idx[j]] = Written(candidate[j][idx[j]])]
  /\ LoopOver(j, "written")
  /\ UNCHANGED <<leaseVars, base, orig, candidate, evals, points, solved,
                 resultVars, applyVars>>

WriteFails(j) ==
  /\ "cube_gone" \in Environment
  /\ phase[j] = "writing"
  /\ idx' = [idx EXCEPT ![j] = 1]
  /\ Goto(j, "restoring")
  /\ UNCHANGED <<cells, leaseVars, base, orig, candidate, evals, points, solved,
                 resultVars, applyVars>>

(* Recalculation and the reads of objectives and constraints.  They restore *)
(* whether they return or raise.                                            *)
Evaluate(j) ==
  /\ phase[j] = "written"
  /\ Goto(j, "restoring")
  /\ UNCHANGED <<cells, leaseVars, base, orig, candidate, idx, evals, points,
                 solved, resultVars, applyVars>>

(* _restore, after an evaluation and from close.  JobState.FINISHED is      *)
(* written when close has returned or raised.                               *)
AfterRestore(j) == IF phase[j] = "closing" THEN "finished" ELSE "solving"

(* Fault: the value is restored and the override flag stays.                *)
RestoreValue(j) ==
  /\ phase[j] \in {"restoring", "closing"}
  /\ cells' = [cells EXCEPT ![idx[j]].value = orig[j][idx[j]].value]
  /\ LoopOver(j, AfterRestore(j))
  /\ UNCHANGED <<leaseVars, base, orig, candidate, evals, points, solved,
                 resultVars, applyVars>>

RestoreCell(j) ==
  /\ phase[j] \in {"restoring", "closing"}
  /\ cells' = [cells EXCEPT ![idx[j]] = orig[j][idx[j]]]
  /\ LoopOver(j, AfterRestore(j))
  /\ UNCHANGED <<leaseVars, base, orig, candidate, evals, points, solved,
                 resultVars, applyVars>>

(* evaluate_candidate restores a second time, which fails at the same cell. *)
(* A result the backend returned before is kept.                            *)
RestoreFails(j) ==
  /\ "cube_gone" \in Environment
  /\ phase[j] \in {"restoring", "closing"}
  /\ idx' = [idx EXCEPT ![j] = 1]
  /\ Goto(j, AfterRestore(j))
  /\ UNCHANGED <<cells, leaseVars, base, orig, candidate, evals, points, solved,
                 resultVars, applyVars>>

BackendReturns(j, front) ==
  /\ phase[j] = "solving"
  /\ points' = [points EXCEPT ![j] = front]
  /\ solved' = [solved EXCEPT ![j] = TRUE]
  /\ Goto(j, "closing")
  /\ UNCHANGED <<cells, leaseVars, base, orig, candidate, idx, evals, resultVars,
                 applyVars>>

BackendRaises(j) ==
  /\ phase[j] = "solving"
  /\ Goto(j, "closing")
  /\ UNCHANGED <<cells, leaseVars, base, orig, candidate, idx, evals, points,
                 solved, resultVars, applyVars>>

(* Fault: a job without a result returns early.                             *)
OnJobFinishedWithResult(j) ==
  /\ phase[j] = "finished"
  /\ solved[j]
  /\ stored' = [stored EXCEPT ![j] = "kept"]
  /\ Release(j)
  /\ Goto(j, "reported")
  /\ UNCHANGED <<cells, base, orig, candidate, idx, evals, points, solved,
                 expired, applyState, applyRid, receipt, applyVars>>

(* _on_job_finished: one critical section, of which the lease is the end.   *)
OnJobFinished(j) ==
  /\ phase[j] = "finished"
  /\ stored' = [stored EXCEPT ![j] = IF solved[j] THEN "kept" ELSE "none"]
  /\ Release(j)
  /\ Goto(j, "reported")
  /\ UNCHANGED <<cells, base, orig, candidate, idx, evals, points, solved,
                 expired, applyState, applyRid, receipt, applyVars>>

WorkerStep(j) ==
  \/ \E x \in Candidates : BeginCandidate(j, x)
  \/ WriteCell(j)
  \/ WriteFails(j)
  \/ Evaluate(j)
  \/ RestoreCell(j)
  \/ RestoreFails(j)
  \/ \E front \in Fronts : BackendReturns(j, front)
  \/ BackendRaises(j)
  \/ OnJobFinished(j)

CallerStep(j) ==
  \/ AcquireLease(j)
  \/ VerifyRevision(j)
  \/ RevisionMismatch(j)
  \/ MismatchRaised(j)
  \/ BeginFails(j)
  \/ Capture(j)
  \/ Register(j)
  \/ Start(j)
  \/ StartFails(j)

-----------------------------------------------------------------------------
(* Results and apply_solver_result.                                         *)

(* The clock passes expires_at.                                             *)
Expire(j) ==
  /\ "expiry" \in Environment
  /\ stored[j] = "kept"
  /\ expired' = [expired EXCEPT ![j] = TRUE]
  /\ UNCHANGED <<cells, leaseVars, jobVars, stored, applyState, applyRid, receipt,
                 applyVars>>

(* solver_result and apply_solver_result drop an expired entry they find.   *)
EvictExpired(j) ==
  /\ stored[j] = "kept" /\ expired[j]
  /\ stored' = [stored EXCEPT ![j] = "evicted"]
  /\ UNCHANGED <<cells, leaseVars, jobVars, expired, applyState, applyRid, receipt,
                 applyVars>>

AlreadyApplied(j, r) == receipt[j] # {} /\ applyRid[j] = r

(* The critical section of apply_solver_result.  allow_nonoptimal is an     *)
(* argument of the call, so the termination status turns nobody away who    *)
(* passes it.  The apply state is not looked at.                            *)
ApplyClaim(c, j, r, p) ==
  /\ apc[c] = "idle"
  /\ stored[j] = "kept" /\ ~expired[j]
  /\ ~AlreadyApplied(j, r)
  /\ p \in points[j]
  /\ applyState' = [applyState EXCEPT ![j] = "applying"]
  /\ applyRid' = [applyRid EXCEPT ![j] = r]
  /\ apc' = [apc EXCEPT ![c] = "claimed"]
  /\ ajob' = [ajob EXCEPT ![c] = j]
  /\ arid' = [arid EXCEPT ![c] = r]
  /\ apoint' = [apoint EXCEPT ![c] = p]
  /\ aidx' = [aidx EXCEPT ![c] = 1]
  /\ UNCHANGED <<cells, leaseVars, jobVars, stored, expired, receipt, broken,
                 mixed>>

(* A call that has passed the comparison with base_revision.                *)
Inside(c) == apc[c] \in {"writing", "recalculating"}

(* commit_solver_result_values, which takes neither a lock nor the lease.   *)
Revalidate(c) ==
  /\ apc[c] = "claimed"
  /\ \/ /\ Revision = base[ajob[c]]
        /\ apc' = [apc EXCEPT ![c] = "writing"]
        /\ mixed' = IF \E d \in Client : /\ Inside(d) /\ ajob[d] = ajob[c]
                                       /\ apoint[d] # apoint[c]
                    THEN mixed \cup {ajob[c]} ELSE mixed
     \/ /\ Revision # base[ajob[c]]
        /\ apc' = [apc EXCEPT ![c] = "failing"]
        /\ UNCHANGED mixed
  /\ UNCHANGED <<cells, leaseVars, jobVars, resultVars, ajob, arid, apoint, aidx,
                 broken>>

(* Fault: the value is set and the cell is not marked as an override.       *)
ApplyCellUnmarked(c) ==
  /\ apc[c] = "writing"
  /\ cells' = [cells EXCEPT ![aidx[c]].value = apoint[c][aidx[c]]]
  /\ IF aidx[c] < NCells
     THEN aidx' = [aidx EXCEPT ![c] = @ + 1] /\ UNCHANGED apc
     ELSE aidx' = [aidx EXCEPT ![c] = 1]
          /\ apc' = [apc EXCEPT ![c] = "recalculating"]
  /\ UNCHANGED <<leaseVars, jobVars, resultVars, ajob, arid, apoint, broken, mixed>>

(* batch_set_cell_hardvalues_by_addr.                                       *)
ApplyCell(c) ==
  /\ apc[c] = "writing"
  /\ cells' = [cells EXCEPT ![aidx[c]] = Written(apoint[c][aidx[c]])]
  /\ IF aidx[c] < NCells
     THEN aidx' = [aidx EXCEPT ![c] = @ + 1] /\ UNCHANGED apc
     ELSE aidx' = [aidx EXCEPT ![c] = 1]
          /\ apc' = [apc EXCEPT ![c] = "recalculating"]
  /\ UNCHANGED <<leaseVars, jobVars, resultVars, ajob, arid, apoint, broken, mixed>>

ApplyFails(c) ==
  /\ "apply_fails" \in Environment
  /\ Inside(c)
  /\ apc' = [apc EXCEPT ![c] = "failing"]
  /\ aidx' = [aidx EXCEPT ![c] = 1]
  /\ broken' = broken \cup {ajob[c]}
  /\ UNCHANGED <<cells, leaseVars, jobVars, resultVars, ajob, arid, apoint, mixed>>

(* Fault: the receipt is stored only while the entry still says APPLYING.   *)
ApplyStoreIfApplying(c) ==
  /\ apc[c] = "recalculating"
  /\ IF applyState[ajob[c]] = "applying"
     THEN /\ applyState' = [applyState EXCEPT ![ajob[c]] = "applied"]
          /\ receipt' = [receipt EXCEPT ![ajob[c]] =
               {[rid |-> arid[c], point |-> apoint[c], revision |-> Revision]}]
     ELSE UNCHANGED <<applyState, receipt>>
  /\ apc' = [apc EXCEPT ![c] = "idle"]
  /\ UNCHANGED <<cells, leaseVars, jobVars, stored, expired, applyRid, ajob, arid,
                 apoint, aidx, broken, mixed>>

(* The committed revision is computed, the receipt is stored.               *)
ApplyStore(c) ==
  /\ apc[c] = "recalculating"
  /\ applyState' = [applyState EXCEPT ![ajob[c]] = "applied"]
  /\ receipt' = [receipt EXCEPT ![ajob[c]] =
                   {[rid |-> arid[c], point |-> apoint[c], revision |-> Revision]}]
  /\ apc' = [apc EXCEPT ![c] = "idle"]
  /\ UNCHANGED <<cells, leaseVars, jobVars, stored, expired, applyRid, ajob, arid,
                 apoint, aidx, broken, mixed>>

ApplyRollback(c) ==
  /\ apc[c] = "failing"
  /\ applyState' = [applyState EXCEPT ![ajob[c]] = "unapplied"]
  /\ applyRid' = [applyRid EXCEPT ![ajob[c]] = NoRequest]
  /\ apc' = [apc EXCEPT ![c] = "idle"]
  /\ UNCHANGED <<cells, leaseVars, jobVars, stored, expired, receipt, ajob, arid,
                 apoint, aidx, broken, mixed>>

ApplyStep(c) ==
  \/ Revalidate(c)
  \/ ApplyCell(c)
  \/ ApplyFails(c)
  \/ ApplyStore(c)
  \/ ApplyRollback(c)

(* set_cell_hardvalue_by_addr from any session.                             *)
Edit(d, v) ==
  /\ "edit" \in Environment
  /\ cells' = [cells EXCEPT ![d] = Written(v)]
  /\ UNCHANGED <<leaseVars, jobVars, resultVars, applyVars>>

Next ==
  \/ \E j \in Job : RunCheck(j) \/ CallerStep(j) \/ WorkerStep(j)
  \/ \E j \in Job : Expire(j) \/ EvictExpired(j)
  \/ \E c \in Client : ApplyStep(c)
  \/ \E c \in Client, j \in Job, r \in RequestId :
       \E p \in points[j] : ApplyClaim(c, j, r, p)
  \/ \E d \in Cell, v \in Value : Edit(d, v)

Spec == Init /\ [][Next]_vars

(* Threads that are inside a call run on, backends end.                     *)
FairSpec ==
  /\ Spec
  /\ \A j \in Job : WF_vars(CallerStep(j)) /\ WF_vars(WorkerStep(j))
  /\ \A c \in Client : WF_vars(ApplyStep(c))

-----------------------------------------------------------------------------

(* Two sessions evaluate on the workspace at the same time only if one of   *)
(* them has lost its lease to a release by somebody else, although          *)
(* run_solver lets two jobs past its concurrency check                      *)
(* (engine_solver_evaluation.py, "prevent concurrent solver jobs on the     *)
(* same workspace").                                                        *)
ExclusiveSession ==
  \A j, k \in Job \ robbed : InSession(j) /\ InSession(k) => j = k

(* The lease is taken exactly while some job that has not lost it is        *)
(* between its acquire and its release, or was abandoned there by a failed  *)
(* start: no failure of begin_solver_evaluation or of the worker leaves the *)
(* workspace leased to nobody.                                              *)
LeaseHasOwner == leased <=> \E j \in Job : Owns(j)

(* The one release that may take another's lease is the second one of a     *)
(* caller whose expected revision was stale; any other theft follows from   *)
(* such a one, by the release of a job that was robbed itself.              *)
OnlyStaleRobs == robbed # {} => \E k \in Job : phase[k] = "refused"

LeaseIsExact == ExclusiveSession /\ LeaseHasOwner /\ OnlyStaleRobs

(* With no other writer, and no session that shares the workspace with one  *)
(* that lost its lease, the workspace is as the session found it whenever   *)
(* the backend is computing and when the job reports: candidates never      *)
(* leak, in values or in override flags (solver_evaluation_session.py).     *)
RestoredBetweenEvaluations ==
  \A j \in Job : phase[j] \in {"solving", "finished"} => cells = orig[j]

(* Objectives are read from the candidate that was asked for, all of it.    *)
EvaluatedAsWritten ==
  \A j \in Job : phase[j] = "written" =>
    cells = [c \in Cell |-> Written(candidate[j][c])]

(* The revision a result is pinned to is the one the workspace has when the *)
(* result is stored, so that an undisturbed apply is accepted.              *)
BaseIsRestored ==
  \A j \in Job : phase[j] = "finished" => Revision = base[j]

NoTrace ==
  robbed = {} => RestoredBetweenEvaluations /\ EvaluatedAsWritten /\ BaseIsRestored

(* An entry that says APPLYING has a call that will settle it, also when    *)
(* another call on the same entry has failed or succeeded meanwhile.        *)
ApplyingHasCaller ==
  \A j \in Job : applyState[j] = "applying" =>
    \E c \in Client : apc[c] # "idle" /\ ajob[c] = j

(* The revision on a receipt is the one of a workspace holding the receipt's*)
(* point, unless calls with different points have mixed their writes.       *)
CommittedRevision ==
  \A j \in Job \ mixed : \A r \in receipt[j] : r.revision = PointRevision(r.point)

AppliesAreRecorded == ApplyingHasCaller /\ CommittedRevision

(* The cells 1..k of a point, written over what a job had found.            *)
WrittenTo(o, p, k) == [c \in Cell |-> IF c <= k THEN Written(p[c]) ELSE o[c]]

(* When no worker and no apply is under way the workspace is as the job     *)
(* found it, or holds one of its points in full and there is a receipt for  *)
(* it; after an apply that failed on the way it may also hold the first     *)
(* cells of one point.  A call that comes after such a failure is refused   *)
(* and does not add the cells of another point (engine_solver_apply.py,     *)
(* "Applies solver result values atomically").                              *)
AsFoundOrApplied(j) ==
  \/ cells = orig[j]
  \/ \E r \in receipt[j] : cells = WrittenTo(orig[j], r.point, NCells)
  \/ j \in broken /\ \E p \in points[j], k \in Cell : cells = WrittenTo(orig[j], p, k)

(* When calls with different points overlap, which nothing prevents, their  *)
(* cells mix; but each holds what the job found or the value of a point.    *)
OfSomePoint(j) ==
  \A c \in Cell : cells[c] = orig[j][c] \/ \E p \in points[j] : cells[c] = Written(p[c])

AllOrNothing ==
  \A j \in Job : phase[j] = "reported" =>
    /\ OfSomePoint(j)
    /\ j \notin mixed /\ (\A c \in Client : apc[c] = "idle") => AsFoundOrApplied(j)

(* Every run_solver call returns or raises, and the job of one that has     *)
(* returned reports; the lease is given back, unless the start of a job     *)
(* failed, which keeps it for ever; and every apply returns or raises.      *)
JobsEnd ==
  \A j \in Job : phase[j] # "idle" ~>
    phase[j] \in {"rejected", "refused", "reported"} \/ Abandoned(j)

LeaseFreed == leased ~> ~leased \/ \E j \in Job : Abandoned(j)

AppliesEnd == \A c \in Client : apc[c] # "idle" ~> apc[c] = "idle"

CallsEnd == JobsEnd /\ LeaseFreed /\ AppliesEnd

-----------------------------------------------------------------------------

(* What the documentation says and the code does not do.                    *)

(* engine_solver_evaluation.py: the lease "prevents other commands from     *)
(* mutating the workspace during the solver run".                           *)
LeaseKeepsOthersOut ==
  [][leased /\ cells' # cells =>
       \E j \in Job : Running(j) /\ (phase'[j] # phase[j] \/ idx'[j] # idx[j])
    ]_vars

(* engine_solver_evaluation.py: the leases are there to "prevent concurrent *)
(* solver jobs on the same workspace".                                      *)
NobodyRobbed == robbed = {}

(* solver_ports.py, commit_solver_result_values: "Opens an Engine           *)
(* transaction, revalidates revision inside the transaction lock".          *)
WritesOnBase ==
  [][\A c \in Client :
       apc[c] = "writing" /\ aidx[c] = 1 /\ (apc'[c] = "recalculating" \/ aidx'[c] = 2)
         => Revision = base[ajob[c]]]_vars

(* solver_service.py: "Check idempotency - if already applied with same     *)
(* request ID".                                                             *)
AppliedRequestNotRepeated ==
  [][\A c \in Client, j \in Job :
       apc[c] = "idle" /\ apc'[c] = "claimed" /\ ajob'[c] = j
         => \A r \in receipt[j] : r.rid # arid'[c]]_vars

(* solver_types.py: "Static policy limits enforced by SolverService".       *)
RetainedResults ==
  Cardinality({j \in Job : stored[j] = "kept"}) <= MaxRetained

=============================================================================
