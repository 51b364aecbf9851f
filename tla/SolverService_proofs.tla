------------------------ MODULE SolverService_proofs ------------------------
(***************************************************************************)
(* Proofs about SolverService for any set of jobs, clients and cells.      *)
(*                                                                         *)
(* Exclusion: the lease is a flag without an owner, so the invariant that  *)
(* carries the proof, LeaseInv, says who owns it: the flag is up exactly   *)
(* while one job that was not robbed is between its acquire and its        *)
(* release or was abandoned there, and there is never a second such job.   *)
(*                                                                         *)
(* Restoration: SessionInv follows the loops cell by cell.  Its step uses  *)
(* LeaseInv, which says that no other job writes meanwhile.                *)
(*                                                                         *)
(* Applies: ApplyInv says which cells of which point the calls on one      *)
(* result have written over what the job had found, as long as calls with  *)
(* different points have not overlapped.  It is about one job (OneJob):    *)
(* the results of two would be applied over one another.                   *)
(***************************************************************************)
EXTENDS SolverService, TLAPS

(* The loop over the cells never leaves them.                               *)
LEMMA LoopType ==
  ASSUME TypeOK, NEW j \in Job, NEW next \in Phases, LoopOver(j, next)
  PROVE  idx' \in [Job -> Cell] /\ phase' \in [Job -> Phases]
PROOF
  <1>1. NCells \in Nat \ {0} /\ idx[j] \in 1..NCells
    BY SolverAssumption DEF TypeOK, Cell
  <1>2. CASE idx[j] < NCells
    <2>1. idx[j] + 1 \in 1..NCells
      BY <1>1, <1>2
    <2> QED
      BY <1>2, <2>1 DEF LoopOver, TypeOK, Cell
  <1>3. CASE ~(idx[j] < NCells)
    <2>1. 1 \in 1..NCells
      BY <1>1
    <2> QED
      BY <1>3, <2>1 DEF LoopOver, TypeOK, Cell, Goto
  <1> QED
    BY <1>2, <1>3

(* Any content of the cells has a revision.                                 *)
LEMMA RevisionType ==
  ASSUME NEW w \in [Cell -> Content]
  PROVE  RevisionOf(w) \in Revisions
PROOF
  <1> DEFINE S == {d \in Cell : w[d].override}
  <1>1. S \in SUBSET Cell
    OBVIOUS
  <1>2. [c \in S |-> w[c].value] \in [S -> Value]
    BY DEF Content
  <1> QED
    BY <1>1, <1>2 DEF RevisionOf, Revisions

(* The initial state is well typed.                                         *)
LEMMA TypeInit == Init => TypeOK
PROOF
  <1> SUFFICES ASSUME Init PROVE TypeOK
    OBVIOUS
  <1>1. 1 \in Cell /\ 0 \in 0..MaxEvals
    BY SolverAssumption DEF Cell
  <1>2. Revision \in Revisions
    BY RevisionType DEF Init, Revision
  <1>3. [c \in Cell |-> cells[c].value] \in Point
    BY DEF Init, Content, Point
  <1> QED
    BY <1>1, <1>2, <1>3 DEF Init, TypeOK, Phases, ApplyPcs

(* Every step of the service keeps the types.                               *)
LEMMA TypeStep == TypeOK /\ [Next]_vars => TypeOK'
PROOF
  <1> SUFFICES ASSUME TypeOK, [Next]_vars PROVE TypeOK'
    OBVIOUS
  <1> USE DEF TypeOK, Goto, leaseVars
  <1>0. 1 \in Cell
    BY SolverAssumption DEF Cell
  <1>1. ASSUME NEW j \in Job, RunCheck(j) PROVE TypeOK'
    BY <1>1 DEF RunCheck, Phases, resultVars, applyVars
  <1>2. ASSUME NEW j \in Job, CallerStep(j) PROVE TypeOK'
    <2>1. CASE AcquireLease(j)
      BY <2>1 DEF AcquireLease, Phases, resultVars, applyVars
    <2>2. CASE VerifyRevision(j)
      <3>1. Revision \in Revisions
        BY RevisionType DEF Revision
      <3> QED
        BY <2>2, <3>1 DEF VerifyRevision, Phases, resultVars, applyVars
    <2>3. CASE RevisionMismatch(j)
      BY <2>3 DEF RevisionMismatch, Release, Owns, Phases, resultVars, applyVars
    <2>4. CASE MismatchRaised(j)
      BY <2>4 DEF MismatchRaised, ReleaseAndRaise, Release, Phases, resultVars, applyVars
    <2>5. CASE BeginFails(j)
      BY <2>5 DEF BeginFails, ReleaseAndRaise, Release, Phases, resultVars, applyVars
    <2>6. CASE Capture(j)
      BY <2>6 DEF Capture, Phases, resultVars, applyVars
    <2>7. CASE Register(j) \/ Start(j) \/ StartFails(j)
      BY <2>7 DEF Register, Start, StartFails, Phases, leaseVars, resultVars,
         applyVars
    <2> QED
      BY <1>2, <2>1, <2>2, <2>3, <2>4, <2>5, <2>6, <2>7 DEF CallerStep
  <1>3. ASSUME NEW j \in Job, WorkerStep(j) PROVE TypeOK'
    <2>1. ASSUME NEW x \in Candidates, BeginCandidate(j, x) PROVE TypeOK'
      <3>1. x \in Point /\ evals[j] + 1 \in 0..MaxEvals
        BY <2>1, SolverAssumption DEF BeginCandidate
      <3> QED
        BY <1>0, <2>1, <3>1 DEF BeginCandidate, Phases, resultVars, applyVars
    <2>2. CASE WriteCell(j)
      <3>1. Written(candidate[j][idx[j]]) \in Content
        BY DEF Written, Content, Point
      <3>2. idx' \in [Job -> Cell] /\ phase' \in [Job -> Phases]
        BY <2>2, LoopType DEF WriteCell, Phases
      <3> QED
        BY <2>2, <3>1, <3>2 DEF WriteCell, resultVars, applyVars
    <2>3. CASE WriteFails(j)
      BY <1>0, <2>3 DEF WriteFails, Phases, resultVars, applyVars
    <2>4. CASE Evaluate(j)
      BY <2>4 DEF Evaluate, Phases, resultVars, applyVars
    <2>5. CASE RestoreCell(j)
      <3>1. AfterRestore(j) \in Phases
        BY DEF AfterRestore, Phases
      <3>2. idx' \in [Job -> Cell] /\ phase' \in [Job -> Phases]
        BY <2>5, <3>1, LoopType DEF RestoreCell
      <3> QED
        BY <2>5, <3>2 DEF RestoreCell, resultVars, applyVars
    <2>6. CASE RestoreFails(j)
      BY <1>0, <2>6 DEF RestoreFails, AfterRestore, Phases, resultVars, applyVars
    <2>7. ASSUME NEW front \in Fronts, BackendReturns(j, front) PROVE TypeOK'
      <3>1. front \in SUBSET Point
        BY SolverAssumption
      <3> QED
        BY <2>7, <3>1 DEF BackendReturns, Phases, resultVars, applyVars
    <2>8. CASE BackendRaises(j)
      BY <2>8 DEF BackendRaises, Phases, resultVars, applyVars
    <2>9. CASE OnJobFinished(j)
      BY <2>9 DEF OnJobFinished, Release, Phases, applyVars
    <2> QED
      BY <1>3, <2>1, <2>2, <2>3, <2>4, <2>5, <2>6, <2>7, <2>8, <2>9 DEF WorkerStep
  <1>4. ASSUME NEW j \in Job, Expire(j) \/ EvictExpired(j) PROVE TypeOK'
    BY <1>4 DEF Expire, EvictExpired, jobVars, applyVars
  <1>5. ASSUME NEW c \in Client, ApplyStep(c) PROVE TypeOK'
    <2>1. CASE Revalidate(c)
      BY <2>1 DEF Revalidate, ApplyPcs, jobVars, resultVars
    <2>2. CASE ApplyCell(c)
      <3>0. apoint[c] \in Point /\ aidx[c] \in Cell
        OBVIOUS
      <3>1. Written(apoint[c][aidx[c]]) \in Content
        BY <3>0 DEF Written, Content, Point
      <3>2. aidx[c] < NCells => aidx[c] + 1 \in Cell
        BY SolverAssumption DEF Cell
      <3>3. cells' \in [Cell -> Content]
        BY <2>2, <3>1 DEF ApplyCell
      <3>4. /\ aidx' \in [Client -> Cell] /\ apc' \in [Client -> ApplyPcs]
            /\ \A d \in Client : apc'[d] # "idle" => apc[d] # "idle"
        BY <1>0, <2>2, <3>2 DEF ApplyCell, ApplyPcs
      <3> QED
        BY <2>2, <3>3, <3>4 DEF ApplyCell, jobVars, resultVars
    <2>3. CASE ApplyFails(c)
      <3>1. ajob[c] \in Job
        BY <2>3 DEF ApplyFails, Inside
      <3>2. broken' \subseteq Job
        BY <2>3, <3>1 DEF ApplyFails
      <3> QED
        BY <1>0, <2>3, <3>2 DEF ApplyFails, Inside, ApplyPcs, jobVars, resultVars
    <2>4. CASE ApplyStore(c)
      <3>0. cells \in [Cell -> Content]
        OBVIOUS
      <3>1. Revision \in Revisions
        BY <3>0, RevisionType DEF Revision
      <3>2. {[rid |-> arid[c], point |-> apoint[c], revision |-> Revision]}
              \in SUBSET [rid : RequestId \cup {NoRequest}, point : Point,
                          revision : Revisions]
        BY <3>1
      <3> QED
        BY <2>4, <3>2 DEF ApplyStore, ApplyPcs, jobVars
    <2>5. CASE ApplyRollback(c)
      BY <2>5 DEF ApplyRollback, ApplyPcs, jobVars
    <2> QED
      BY <1>5, <2>1, <2>2, <2>3, <2>4, <2>5 DEF ApplyStep
  <1>6. ASSUME NEW c \in Client, NEW j \in Job, NEW r \in RequestId,
               NEW p \in points[j], ApplyClaim(c, j, r, p)
        PROVE  TypeOK'
    <2>1. p \in Point
      OBVIOUS
    <2> QED
      BY <1>0, <1>6, <2>1 DEF ApplyClaim, ApplyPcs, jobVars
  <1>7. ASSUME NEW d \in Cell, NEW v \in Value, Edit(d, v) PROVE TypeOK'
    <2>1. Written(v) \in Content
      BY DEF Written, Content
    <2> QED
      BY <1>7, <2>1 DEF Edit, jobVars, resultVars, applyVars
  <1>8. CASE UNCHANGED vars
    BY <1>8 DEF vars, jobVars, resultVars, applyVars
  <1> QED
    BY <1>1, <1>2, <1>3, <1>4, <1>5, <1>6, <1>7, <1>8 DEF Next

(* Every variable keeps its type (engine_solver_evaluation.py,              *)
(* solver_service.py): in particular no loop over the variable cells leaves *)
(* the restoration table.                                                   *)
THEOREM TypeCorrect == Spec => []TypeOK
PROOF
  <1> QED
    BY TypeInit, TypeStep, PTL DEF Spec

-----------------------------------------------------------------------------
(* Exclusion.                                                               *)

LeaseInv ==
  /\ LeaseHasOwner
  /\ \A j, k \in Job : Owns(j) /\ Owns(k) => j = k
  /\ \A j \in robbed : phase[j] \notin {"idle", "admitted"}
  /\ OnlyStaleRobs

(* Nobody holds the lease at first.                                         *)
LEMMA LeaseInit == Init => LeaseInv
PROOF
  <1> QED
    BY DEF Init, LeaseInv, LeaseHasOwner, OnlyStaleRobs, Owns, HoldsLease,
       Abandoned, InSession

(* The other jobs keep their phase, whatever a job does.                    *)
LEMMA JobStepLocal ==
  ASSUME TypeOK, NEW j \in Job, RunCheck(j) \/ CallerStep(j) \/ WorkerStep(j)
  PROVE  \A k \in Job \ {j} :
           /\ phase'[k] = phase[k] /\ idx'[k] = idx[k]
           /\ base'[k] = base[k] /\ orig'[k] = orig[k]
           /\ candidate'[k] = candidate[k]
PROOF
  <1> USE DEF TypeOK, Goto, LoopOver
  <1>1. CASE RunCheck(j)
    BY <1>1 DEF RunCheck
  <1>2. CASE CallerStep(j)
    BY <1>2 DEF CallerStep, AcquireLease, VerifyRevision, RevisionMismatch,
       MismatchRaised, BeginFails, ReleaseAndRaise, Capture, Register, Start,
       StartFails
  <1>3. CASE WorkerStep(j)
    BY <1>3 DEF WorkerStep, BeginCandidate, WriteCell, WriteFails, Evaluate,
       RestoreCell, RestoreFails, BackendReturns, BackendRaises, OnJobFinished
  <1> QED
    BY <1>1, <1>2, <1>3

(* A step of a job that does not touch the flag and after which it is where *)
(* it was with the lease: inside, or outside.                               *)
LEMMA LeaseKept ==
  ASSUME TypeOK, LeaseInv, NEW j \in Job, UNCHANGED leaseVars,
         HoldsLease(j) \/ Abandoned(j) <=> (HoldsLease(j) \/ Abandoned(j))',
         phase[j] # "refused",
         phase[j] \in {"idle", "admitted"} \/ phase'[j] \notin {"idle", "admitted"},
         \A k \in Job \ {j} : phase'[k] = phase[k]
  PROVE  LeaseInv'
PROOF
  <1>1. robbed' = robbed /\ leased' = leased
    BY DEF leaseVars
  <1>2. \A k \in Job : Owns(k) <=> Owns(k)'
    BY <1>1 DEF Owns, HoldsLease, Abandoned, InSession
  <1>3. OnlyStaleRobs'
    BY <1>1 DEF LeaseInv, OnlyStaleRobs
  <1>4. \A k \in robbed' : phase'[k] \notin {"idle", "admitted"}
    BY <1>1 DEF LeaseInv, TypeOK
  <1> QED
    BY <1>1, <1>2, <1>3, <1>4 DEF LeaseInv, LeaseHasOwner

(* A release by a job, after which it does not hold the lease.  If another  *)
(* job owned the lease, the one that releases had been robbed, or raises    *)
(* for a stale expected revision.                                           *)
LEMMA LeaseReleased ==
  ASSUME TypeOK, LeaseInv, NEW j \in Job, Release(j),
         ~HoldsLease(j)', ~Abandoned(j)', phase[j] # "refused",
         HoldsLease(j) \/ phase'[j] = "refused",
         phase[j] \notin {"idle", "admitted"}, phase'[j] \notin {"idle", "admitted"},
         \A k \in Job \ {j} : phase'[k] = phase[k]
  PROVE  LeaseInv'
PROOF
  <1>1. leased' = FALSE /\ robbed' = robbed \cup {k \in Job \ {j} : Owns(k)}
    BY DEF Release
  <1>2. \A k \in Job : ~Owns(k)'
    BY <1>1 DEF Owns, HoldsLease, Abandoned, InSession
  <1>3. OnlyStaleRobs'
    <2>1. CASE phase'[j] = "refused"
      BY <2>1 DEF OnlyStaleRobs
    <2>2. CASE robbed # {}
      <3>1. PICK k \in Job : phase[k] = "refused"
        BY <2>2 DEF LeaseInv, OnlyStaleRobs
      <3>2. phase'[k] = "refused"
        BY <3>1
      <3> QED
        BY <3>2 DEF OnlyStaleRobs
    <2>3. CASE robbed = {} /\ HoldsLease(j)
      <3>1. Owns(j)
        BY <2>3 DEF Owns
      <3>2. \A k \in Job \ {j} : ~Owns(k)
        BY <3>1 DEF LeaseInv
      <3> QED
        BY <1>1, <2>3, <3>2 DEF OnlyStaleRobs
    <2> QED
      BY <2>1, <2>2, <2>3
  <1>4. \A k \in robbed' : phase'[k] \notin {"idle", "admitted"}
    BY <1>1 DEF LeaseInv, Owns, HoldsLease, Abandoned, InSession, TypeOK
  <1> QED
    BY <1>1, <1>2, <1>3, <1>4 DEF LeaseInv, LeaseHasOwner

(* Every step keeps the lease with the job that has acquired it.            *)
LEMMA LeaseStep == TypeOK /\ LeaseInv /\ [Next]_vars => LeaseInv'
PROOF
  <1> SUFFICES ASSUME TypeOK, LeaseInv, [Next]_vars PROVE LeaseInv'
    OBVIOUS
  <1>1. ASSUME NEW j \in Job, RunCheck(j) PROVE LeaseInv'
    <2>1. \A k \in Job \ {j} : phase'[k] = phase[k]
      BY <1>1, JobStepLocal
    <2>2. /\ UNCHANGED leaseVars /\ phase[j] = "idle"
          /\ phase'[j] \in {"admitted", "rejected"}
      BY <1>1 DEF RunCheck, Goto, TypeOK
    <2> QED
      BY <2>1, <2>2, LeaseKept DEF HoldsLease, Abandoned, InSession
  <1>2. ASSUME NEW j \in Job, CallerStep(j) PROVE LeaseInv'
    <2>0. \A k \in Job \ {j} : phase'[k] = phase[k]
      BY <1>2, JobStepLocal
    <2>1. CASE AcquireLease(j) /\ leased
      <3>1. /\ UNCHANGED leaseVars /\ phase[j] = "admitted"
            /\ phase'[j] = "rejected"
        BY <2>1 DEF AcquireLease, Goto, TypeOK, leaseVars
      <3> QED
        BY <2>0, <3>1, LeaseKept DEF HoldsLease, Abandoned, InSession
    <2>2. CASE AcquireLease(j) /\ ~leased
      <3>1. \A k \in Job : ~Owns(k)
        BY <2>2 DEF LeaseInv, LeaseHasOwner
      <3>2. /\ phase[j] = "admitted" /\ phase'[j] = "leased" /\ leased'
            /\ robbed' = robbed
        BY <2>2 DEF AcquireLease, Goto, TypeOK
      <3>3. j \notin robbed
        BY <3>2 DEF LeaseInv
      <3>4. Owns(j)'
        BY <3>2, <3>3 DEF Owns, HoldsLease
      <3>5. \A k \in Job \ {j} : ~Owns(k)'
        BY <2>0, <3>1, <3>2 DEF Owns, HoldsLease, Abandoned, InSession
      <3>6. OnlyStaleRobs'
        BY <2>0, <3>2 DEF LeaseInv, OnlyStaleRobs
      <3>7. \A k \in robbed' : phase'[k] \notin {"idle", "admitted"}
        BY <2>0, <3>2, <3>3 DEF LeaseInv, TypeOK
      <3> QED
        BY <3>2, <3>4, <3>5, <3>6, <3>7 DEF LeaseInv, LeaseHasOwner
    <2>3. CASE VerifyRevision(j) \/ Capture(j) \/ Register(j) \/ Start(j)
               \/ StartFails(j)
      <3>1. /\ UNCHANGED leaseVars
            /\ phase[j] \in {"leased", "begun", "captured", "registered"}
            /\ phase'[j] \in {"begun", "captured", "registered", "solving",
                              "lost", "orphaned"}
        BY <2>3 DEF VerifyRevision, Capture, Register, Start, StartFails, Goto,
           TypeOK
      <3> QED
        BY <2>0, <3>1, LeaseKept DEF HoldsLease, Abandoned, InSession
    <2>4. CASE RevisionMismatch(j)
      <3>1. Release(j) /\ phase[j] = "leased" /\ phase'[j] = "mismatched"
        BY <2>4 DEF RevisionMismatch, Goto, TypeOK
      <3> QED
        BY <2>0, <3>1, LeaseReleased DEF HoldsLease, Abandoned, InSession
    <2>5. CASE MismatchRaised(j)
      <3>1. Release(j) /\ phase[j] = "mismatched" /\ phase'[j] = "refused"
        BY <2>5 DEF MismatchRaised, ReleaseAndRaise, Goto, TypeOK
      <3> QED
        BY <2>0, <3>1, LeaseReleased DEF HoldsLease, Abandoned, InSession
    <2>6. CASE BeginFails(j)
      <3>1. Release(j) /\ phase[j] = "begun" /\ phase'[j] = "rejected"
        BY <2>6 DEF BeginFails, ReleaseAndRaise, Goto, TypeOK
      <3> QED
        BY <2>0, <3>1, LeaseReleased DEF HoldsLease, Abandoned, InSession
    <2> QED
      BY <1>2, <2>1, <2>2, <2>3, <2>4, <2>5, <2>6 DEF CallerStep
  <1>3. ASSUME NEW j \in Job, WorkerStep(j) PROVE LeaseInv'
    <2>0. \A k \in Job \ {j} : phase'[k] = phase[k]
      BY <1>3, JobStepLocal
    <2>1. CASE OnJobFinished(j)
      <3>1. Release(j) /\ phase[j] = "finished" /\ phase'[j] = "reported"
        BY <2>1 DEF OnJobFinished, Goto, TypeOK
      <3> QED
        BY <2>0, <3>1, LeaseReleased DEF HoldsLease, Abandoned, InSession
    <2>2. CASE ~OnJobFinished(j)
      <3> DEFINE P == {"solving", "writing", "written", "restoring", "closing",
                       "finished"}
      <3>1. UNCHANGED leaseVars
        BY <1>3, <2>2 DEF WorkerStep, BeginCandidate, WriteCell, WriteFails,
           Evaluate, RestoreCell, RestoreFails, BackendReturns, BackendRaises
      <3>2. phase[j] \in P /\ phase'[j] \in P
        BY <1>3, <2>2 DEF WorkerStep, BeginCandidate, WriteCell, WriteFails,
           Evaluate, RestoreCell, RestoreFails, BackendReturns, BackendRaises,
           LoopOver, AfterRestore, Goto, TypeOK
      <3> QED
        BY <2>0, <3>1, <3>2, LeaseKept DEF HoldsLease, Abandoned, InSession
    <2> QED
      BY <2>1, <2>2
  <1>4. CASE UNCHANGED <<leaseVars, phase>>
    BY <1>4 DEF LeaseInv, LeaseHasOwner, OnlyStaleRobs, Owns, HoldsLease, Abandoned,
       InSession, leaseVars
  <1>5. ASSUME NEW c \in Client, ApplyStep(c) PROVE UNCHANGED <<leaseVars, phase>>
    BY <1>5 DEF ApplyStep, Revalidate, ApplyCell, ApplyFails, ApplyStore,
       ApplyRollback, jobVars
  <1> QED
    BY <1>1, <1>2, <1>3, <1>4, <1>5
       DEF Next, Expire, EvictExpired, ApplyClaim, Edit, vars, jobVars

(* The lease invariant holds of every reachable state.                      *)
LEMMA LeaseInvariant == Spec => [](TypeOK /\ LeaseInv)
PROOF
  <1>1. Init => TypeOK /\ LeaseInv
    BY TypeInit, LeaseInit
  <1>2. TypeOK /\ LeaseInv /\ [Next]_vars => (TypeOK /\ LeaseInv)'
    BY TypeStep, LeaseStep
  <1> QED
    BY <1>1, <1>2, PTL DEF Spec

(* The lease is taken exactly while a job that has not lost it is between   *)
(* its acquire and its release or was abandoned there; two such jobs never  *)
(* evaluate at once; and nobody loses the lease before a caller with a stale*)
(* expected revision has been refused.  Nothing is assumed: this holds for  *)
(* every failure of begin_solver_evaluation, of the start of the job and of *)
(* the worker, and of callers, edits and applies (engine_solver_evaluation, *)
(* solver_service).                                                         *)
THEOREM LeaseExactTheorem == Spec => []LeaseIsExact
PROOF
  <1>1. LeaseInv => LeaseIsExact
    BY DEF LeaseInv, LeaseIsExact, ExclusiveSession, Owns, HoldsLease
  <1> QED
    BY <1>1, LeaseInvariant, PTL

-----------------------------------------------------------------------------
(* Restoration.                                                             *)

(* Nobody edits the workspace, and its cubes stay.                          *)
QuietWorkspace == "edit" \notin Environment /\ "cube_gone" \notin Environment

(* What a session knows of the workspace in each place of its loops.        *)
SessionOf(j) ==
  /\ phase[j] = "begun" => base[j] = Revision
  /\ phase[j] \in {"captured", "registered", "solving", "finished"} => cells = orig[j]
  /\ InSession(j) \/ phase[j] \in {"finished", "reported"} =>
       base[j] = RevisionOf(orig[j])
  /\ phase[j] = "writing" =>
       \A c \in Cell : c < idx[j] => cells[c] = Written(candidate[j][c])
  /\ phase[j] = "written" =>
       \A c \in Cell : cells[c] = Written(candidate[j][c])
  /\ phase[j] \in {"restoring", "closing"} =>
       \A c \in Cell : c < idx[j] => cells[c] = orig[j][c]
  /\ phase[j] \notin {"writing", "restoring", "closing"} => idx[j] = 1

(* Sessions that share the workspace after a theft know nothing of it.      *)
SessionInv == robbed = {} => \A j \in Job : SessionOf(j)

(* No session is open at first.                                             *)
LEMMA SessionInit == Init => SessionInv
PROOF
  <1> QED
    BY DEF Init, SessionInv, SessionOf, InSession

(* One iteration of a loop that sets cell after cell to a goal: what was    *)
(* true of the cells before the index is true of one more.                  *)
LEMMA LoopProgress ==
  ASSUME TypeOK, NEW j \in Job, NEW next \in Phases, LoopOver(j, next),
         NEW goal \in [Cell -> Content],
         cells'[idx[j]] = goal[idx[j]],
         \A c \in Cell \ {idx[j]} : cells'[c] = cells[c],
         \A c \in Cell : c < idx[j] => cells[c] = goal[c]
  PROVE  \/ /\ phase'[j] = phase[j]
            /\ \A c \in Cell : c < idx'[j] => cells'[c] = goal[c]
         \/ /\ phase'[j] = next /\ idx'[j] = 1
            /\ \A c \in Cell : cells'[c] = goal[c]
PROOF
  <1>1. NCells \in Nat \ {0} /\ idx[j] \in 1..NCells
    BY SolverAssumption DEF TypeOK, Cell
  <1>2. cells'[idx[j]] = goal[idx[j]]
    OBVIOUS
  <1>3. \A c \in Cell : c < idx[j] => cells'[c] = goal[c]
    BY <1>1 DEF TypeOK, Cell
  <1>4. CASE idx[j] < NCells
    <2>1. idx'[j] = idx[j] + 1 /\ phase'[j] = phase[j]
      BY <1>4 DEF LoopOver, TypeOK
    <2>2. \A c \in Cell : c < idx'[j] => c < idx[j] \/ c = idx[j]
      BY <1>1, <2>1 DEF Cell
    <2> QED
      BY <1>2, <1>3, <2>1, <2>2
  <1>5. CASE ~(idx[j] < NCells)
    <2>1. idx'[j] = 1 /\ phase'[j] = next
      BY <1>5 DEF LoopOver, TypeOK, Goto
    <2>2. \A c \in Cell : c < idx[j] \/ c = idx[j]
      BY <1>1, <1>5 DEF Cell
    <2> QED
      BY <1>2, <1>3, <2>1, <2>2
  <1> QED
    BY <1>4, <1>5

(* A job that writes holds the lease, so that nobody else is in a place     *)
(* where the content of the cells matters.                                  *)
LEMMA OtherSessionsKept ==
  ASSUME TypeOK, LeaseInv, robbed = {}, \A k \in Job : SessionOf(k), NEW j \in Job,
         RunCheck(j) \/ CallerStep(j) \/ WorkerStep(j)
  PROVE  \A k \in Job \ {j} : SessionOf(k)'
PROOF
  <1> SUFFICES ASSUME NEW k \in Job \ {j} PROVE SessionOf(k)'
    OBVIOUS
  <1>1. /\ phase'[k] = phase[k] /\ idx'[k] = idx[k]
        /\ base'[k] = base[k] /\ orig'[k] = orig[k]
        /\ candidate'[k] = candidate[k]
    BY JobStepLocal
  <1>2. SessionOf(k)
    OBVIOUS
  <1>3. CASE UNCHANGED cells
    BY <1>1, <1>2, <1>3 DEF SessionOf, InSession, Revision, RevisionOf
  <1>4. CASE HoldsLease(j)
    <2>1. ~HoldsLease(k)
      BY <1>4 DEF LeaseInv, Owns
    <2> QED
      BY <1>1, <1>2, <2>1 DEF SessionOf, HoldsLease, InSession, RevisionOf
  <1>5. UNCHANGED cells \/ HoldsLease(j)
    BY DEF RunCheck, CallerStep, AcquireLease, VerifyRevision, RevisionMismatch,
       MismatchRaised, BeginFails, ReleaseAndRaise, Capture, Register, Start,
       StartFails, WorkerStep, BeginCandidate, WriteCell, WriteFails, Evaluate,
       RestoreCell, RestoreFails, BackendReturns, BackendRaises, OnJobFinished,
       HoldsLease, InSession
  <1> QED
    BY <1>3, <1>4, <1>5

(* Who has lost the lease stays in the history.                             *)
LEMMA RobbedGrows ==
  ASSUME TypeOK, [Next]_vars
  PROVE  robbed \subseteq robbed'
PROOF
  <1> QED
    BY DEF Next, RunCheck, CallerStep, AcquireLease, VerifyRevision, RevisionMismatch,
       MismatchRaised, BeginFails, ReleaseAndRaise, Capture, Register, Start,
       StartFails, WorkerStep, BeginCandidate, WriteCell, WriteFails, Evaluate,
       RestoreCell, RestoreFails, BackendReturns, BackendRaises, OnJobFinished,
       Release, Expire, EvictExpired, ApplyStep, Revalidate, ApplyCell, ApplyFails,
       ApplyStore, ApplyRollback, ApplyClaim, Edit, vars, leaseVars

(* Every step other than the cell write of an apply keeps the sessions'     *)
(* view of the workspace, if nobody edits it.                               *)
LEMMA SessionStepUnlessApply ==
  ASSUME QuietWorkspace, TypeOK, LeaseInv, SessionInv,
         [Next]_vars, \A c \in Client : ~ApplyCell(c)
  PROVE  SessionInv'
PROOF
  <1> SUFFICES ASSUME robbed' = {} PROVE \A j \in Job : SessionOf(j)'
    BY DEF SessionInv
  <1>0. robbed = {} /\ \A j \in Job : SessionOf(j)
    BY RobbedGrows DEF SessionInv
  <1> DEFINE Goal == \A j \in Job : SessionOf(j)'
  <1>1. ASSUME NEW j \in Job, RunCheck(j) \/ CallerStep(j) \/ WorkerStep(j),
               SessionOf(j)'
        PROVE  Goal
    BY <1>0, <1>1, OtherSessionsKept
  <1>3. ASSUME NEW j \in Job, RunCheck(j) PROVE Goal
    <2>1. SessionOf(j)
      BY <1>0
    <2>2. /\ phase[j] = "idle" /\ phase'[j] \in {"admitted", "rejected"}
          /\ idx'[j] = idx[j]
      BY <1>3 DEF RunCheck, TypeOK, Goto
    <2>3. SessionOf(j)'
      BY <2>1, <2>2 DEF SessionOf, InSession
    <2> QED
      BY <1>1, <1>3, <2>3
  <1>4. ASSUME NEW j \in Job, CallerStep(j) PROVE Goal
    <2> SUFFICES SessionOf(j)'
      BY <1>1, <1>4
    <2>0. SessionOf(j)
      BY <1>0
    <2> USE DEF TypeOK, Goto
    <2>1. CASE AcquireLease(j) \/ RevisionMismatch(j) \/ MismatchRaised(j)
               \/ BeginFails(j) \/ StartFails(j)
      <3>1. /\ phase[j] \in {"admitted", "leased", "mismatched", "begun", "captured",
                            "registered"}
            /\ phase'[j] \in {"leased", "mismatched", "rejected", "refused", "lost",
                              "orphaned"}
            /\ idx'[j] = idx[j]
        BY <2>1 DEF AcquireLease, RevisionMismatch, MismatchRaised, BeginFails,
           ReleaseAndRaise, StartFails
      <3> QED
        BY <2>0, <3>1 DEF SessionOf, InSession
    <2>2. CASE VerifyRevision(j)
      <3>1. /\ phase[j] = "leased" /\ phase'[j] = "begun" /\ idx'[j] = idx[j]
            /\ base'[j] = Revision /\ cells' = cells
        BY <2>2 DEF VerifyRevision
      <3> QED
        BY <2>0, <3>1 DEF SessionOf, InSession, Revision, RevisionOf
    <2>3. CASE Capture(j)
      <3>1. /\ phase[j] = "begun" /\ phase'[j] = "captured" /\ idx'[j] = idx[j]
            /\ base'[j] = base[j] /\ orig'[j] = cells /\ cells' = cells
        BY <2>3 DEF Capture
      <3> QED
        BY <2>0, <3>1 DEF SessionOf, InSession, Revision, RevisionOf
    <2>4. CASE Register(j) \/ Start(j)
      <3>1. /\ phase[j] \in {"captured", "registered"}
            /\ phase'[j] \in {"registered", "solving"} /\ idx'[j] = idx[j]
            /\ base'[j] = base[j] /\ orig'[j] = orig[j] /\ cells' = cells
        BY <2>4 DEF Register, Start
      <3> QED
        BY <2>0, <3>1 DEF SessionOf, InSession, RevisionOf
    <2> QED
      BY <1>4, <2>1, <2>2, <2>3, <2>4 DEF CallerStep
  <1>5. ASSUME NEW j \in Job, WorkerStep(j) PROVE Goal
    <2> SUFFICES SessionOf(j)'
      BY <1>1, <1>5
    <2>0. SessionOf(j)
      BY <1>0
    <2>1. \A c \in Cell : ~(c < 1)
      BY SolverAssumption DEF Cell
    <2>2. ASSUME NEW x \in Candidates, BeginCandidate(j, x) PROVE SessionOf(j)'
      <3>1. /\ phase[j] = "solving" /\ phase'[j] = "writing" /\ idx'[j] = 1
            /\ base'[j] = base[j] /\ orig'[j] = orig[j]
        BY <2>2 DEF BeginCandidate, TypeOK, Goto
      <3> QED
        BY <2>0, <2>1, <3>1 DEF SessionOf, InSession, RevisionOf
    <2>3. CASE WriteCell(j)
      <3>1. [c \in Cell |-> Written(candidate[j][c])] \in [Cell -> Content]
        BY DEF TypeOK, Written, Content, Point
      <3>2. PICK goal \in [Cell -> Content] :
                   goal = [c \in Cell |-> Written(candidate[j][c])]
        BY <3>1
      <3>3. /\ cells'[idx[j]] = goal[idx[j]]
            /\ \A c \in Cell \ {idx[j]} : cells'[c] = cells[c]
            /\ \A c \in Cell : c < idx[j] => cells[c] = goal[c]
            /\ LoopOver(j, "written") /\ "written" \in Phases
        BY <2>0, <2>3, <3>2 DEF WriteCell, SessionOf, TypeOK, Phases
      <3>4. \A c \in Cell : goal[c] = Written(candidate'[j][c])
        BY <2>3, <3>2 DEF WriteCell
      <3>5. \/ /\ phase'[j] = phase[j]
               /\ \A c \in Cell : c < idx'[j] => cells'[c] = goal[c]
            \/ /\ phase'[j] = "written" /\ idx'[j] = 1
               /\ \A c \in Cell : cells'[c] = goal[c]
        BY <3>3, LoopProgress
      <3>6. base'[j] = base[j] /\ orig'[j] = orig[j] /\ phase[j] = "writing"
        BY <2>3 DEF WriteCell
      <3>7. \/ /\ phase'[j] = "writing"
               /\ \A c \in Cell : c < idx'[j] => cells'[c] = Written(candidate'[j][c])
            \/ /\ phase'[j] = "written" /\ idx'[j] = 1
               /\ \A c \in Cell : cells'[c] = Written(candidate'[j][c])
        BY <3>4, <3>5, <3>6
      <3> QED
        BY <2>0, <3>6, <3>7 DEF SessionOf, InSession
    <2>4. CASE Evaluate(j)
      <3>1. /\ phase[j] = "written" /\ phase'[j] = "restoring" /\ idx'[j] = idx[j]
            /\ base'[j] = base[j] /\ orig'[j] = orig[j]
        BY <2>4 DEF Evaluate, TypeOK, Goto
      <3> QED
        BY <2>0, <2>1, <3>1 DEF SessionOf, InSession, RevisionOf
    <2>5. CASE RestoreCell(j)
      <3>1. PICK goal \in [Cell -> Content] : goal = orig[j]
        BY DEF TypeOK
      <3>2. PICK next \in {"solving", "finished"} : next = AfterRestore(j)
        BY DEF AfterRestore
      <3>3. /\ phase[j] \in {"restoring", "closing"}
            /\ base'[j] = base[j] /\ orig'[j] = orig[j]
            /\ LoopOver(j, next) /\ next \in Phases
        BY <2>5, <3>2 DEF RestoreCell, Phases
      <3>4. /\ cells'[idx[j]] = goal[idx[j]]
            /\ \A c \in Cell \ {idx[j]} : cells'[c] = cells[c]
        BY <2>5, <3>1 DEF RestoreCell, TypeOK
      <3>5. \A c \in Cell : c < idx[j] => cells[c] = goal[c]
        BY <2>0, <3>1, <3>3 DEF SessionOf
      <3>6. \/ /\ phase'[j] = phase[j]
               /\ \A c \in Cell : c < idx'[j] => cells'[c] = goal[c]
            \/ /\ phase'[j] = next /\ idx'[j] = 1
               /\ \A c \in Cell : cells'[c] = goal[c]
        BY <3>3, <3>4, <3>5, LoopProgress
      <3>7. cells' \in [Cell -> Content] /\ orig[j] \in [Cell -> Content]
        BY TypeStep DEF TypeOK
      <3>8. (\A c \in Cell : cells'[c] = orig[j][c]) => cells' = orig[j]
        BY <3>7
      <3> QED
        BY <2>0, <3>1, <3>3, <3>6, <3>8 DEF SessionOf, InSession, RevisionOf
    <2>6. ASSUME NEW front \in Fronts, BackendReturns(j, front)
          PROVE  SessionOf(j)'
      <3>1. /\ phase[j] = "solving" /\ phase'[j] = "closing" /\ idx'[j] = idx[j]
            /\ base'[j] = base[j] /\ orig'[j] = orig[j]
        BY <2>6 DEF BackendReturns, TypeOK, Goto
      <3> QED
        BY <2>0, <2>1, <3>1 DEF SessionOf, InSession, RevisionOf
    <2>7. CASE BackendRaises(j)
      <3>1. /\ phase[j] = "solving" /\ phase'[j] = "closing" /\ idx'[j] = idx[j]
            /\ base'[j] = base[j] /\ orig'[j] = orig[j]
        BY <2>7 DEF BackendRaises, TypeOK, Goto
      <3> QED
        BY <2>0, <2>1, <3>1 DEF SessionOf, InSession, RevisionOf
    <2>8. CASE OnJobFinished(j)
      <3>1. /\ phase[j] = "finished" /\ phase'[j] = "reported" /\ idx'[j] = idx[j]
            /\ base'[j] = base[j] /\ orig'[j] = orig[j]
        BY <2>8 DEF OnJobFinished, TypeOK, Goto
      <3> QED
        BY <2>0, <3>1 DEF SessionOf, InSession, RevisionOf
    <2> QED
      BY <1>5, <2>2, <2>3, <2>4, <2>5, <2>6, <2>7, <2>8
         DEF WorkerStep, WriteFails, RestoreFails, QuietWorkspace
  <1>6. CASE UNCHANGED <<cells, phase, base, orig, candidate, idx>>
    BY <1>0, <1>6 DEF SessionOf, InSession, Revision, RevisionOf
  <1>7. ASSUME NEW c \in Client, ApplyStep(c)
        PROVE  UNCHANGED <<cells, phase, base, orig, candidate, idx>>
    BY <1>7 DEF ApplyStep, Revalidate, ApplyFails, ApplyStore, ApplyRollback,
       jobVars
  <1> QED
    BY <1>3, <1>4, <1>5, <1>6, <1>7
       DEF Next, Expire, EvictExpired, ApplyClaim, Edit, QuietWorkspace,
           vars, jobVars

(* Every step keeps the sessions' view of the workspace, if nobody else writes.*)
LEMMA SessionStep ==
  ASSUME QuietWorkspace, Client = {}
  PROVE  TypeOK /\ LeaseInv /\ SessionInv /\ [Next]_vars => SessionInv'
PROOF
  <1> QED
    BY SessionStepUnlessApply

(* The session invariant holds of every reachable state, if nobody else writes.*)
LEMMA SessionInvariant ==
  ASSUME QuietWorkspace, Client = {}
  PROVE  Spec => [](TypeOK /\ LeaseInv /\ SessionInv)
PROOF
  <1>2. Init => TypeOK /\ LeaseInv /\ SessionInv
    BY TypeInit, LeaseInit, SessionInit
  <1>3. TypeOK /\ LeaseInv /\ SessionInv /\ [Next]_vars
          => (TypeOK /\ LeaseInv /\ SessionInv)'
    BY TypeStep, LeaseStep, SessionStep
  <1> QED
    BY <1>2, <1>3, PTL DEF Spec

(* With no other writer, and until somebody loses the lease, the backend's  *)
(* objectives are read from a workspace that holds the whole candidate it   *)
(* asked for, a session leaves no trace of its candidates, in values or     *)
(* override flags, and a result is pinned to the revision of the workspace  *)
(* in which it is stored (SolverEvaluationSession, _on_job_finished).       *)
THEOREM NoTraceTheorem ==
  ASSUME QuietWorkspace, Client = {}
  PROVE  Spec => []NoTrace
PROOF
  <1>1. ASSUME TypeOK, SessionInv PROVE NoTrace
    <2> SUFFICES ASSUME robbed = {}
                 PROVE  /\ RestoredBetweenEvaluations
                        /\ EvaluatedAsWritten
                        /\ BaseIsRestored
      BY DEF NoTrace
    <2>1. \A j \in Job : SessionOf(j)
      BY <1>1 DEF SessionInv
    <2>2. ASSUME NEW j \in Job, phase[j] = "written"
          PROVE  cells = [c \in Cell |-> Written(candidate[j][c])]
      <3>1. \A c \in Cell : cells[c] = Written(candidate[j][c])
        BY <2>1, <2>2 DEF SessionOf
      <3>2. cells = [c \in Cell |-> cells[c]]
        BY <1>1 DEF TypeOK
      <3> QED
        BY <3>1, <3>2
    <2> QED
      BY <2>1, <2>2 DEF SessionOf, RestoredBetweenEvaluations, EvaluatedAsWritten,
         BaseIsRestored, Revision
  <1> QED
    BY <1>1, SessionInvariant, PTL

-----------------------------------------------------------------------------
(* Applies.                                                                 *)

(* An entry says APPLYING only while a call works on it, whatever the       *)
(* environment does and however many calls there are.                       *)
LEMMA ApplyingLemma == Spec => []ApplyingHasCaller
PROOF
  <1>1. Init => ApplyingHasCaller
    BY DEF Init, ApplyingHasCaller
  <1>2. ASSUME TypeOK, ApplyingHasCaller, [Next]_vars PROVE ApplyingHasCaller'
    <2> USE <1>2 DEF TypeOK, ApplyingHasCaller, ApplyPcs
    <2>1. CASE UNCHANGED <<applyState, apc, ajob>>
      BY <2>1
    <2>2. ASSUME NEW c \in Client, ApplyStep(c) PROVE ApplyingHasCaller'
      <3>1. CASE Revalidate(c) \/ ApplyCell(c) \/ ApplyFails(c)
        <4>1. /\ UNCHANGED <<applyState, ajob>>
              /\ \A d \in Client : apc[d] # "idle" => apc'[d] # "idle"
          BY <3>1 DEF Revalidate, ApplyCell, ApplyFails, resultVars
        <4> QED
          BY <4>1
      <3>2. CASE ApplyStore(c) \/ ApplyRollback(c)
        <4>1. /\ UNCHANGED ajob
              /\ \A d \in Client \ {c} : apc'[d] = apc[d]
              /\ \A j \in Job : applyState'[j] = "applying" =>
                   j # ajob[c] /\ applyState[j] = "applying"
          BY <3>2 DEF ApplyStore, ApplyRollback
        <4> QED
          BY <4>1
      <3> QED
        BY <2>2, <3>1, <3>2 DEF ApplyStep
    <2>3. ASSUME NEW c \in Client, NEW j \in Job, NEW r \in RequestId,
                 NEW p \in points[j], ApplyClaim(c, j, r, p)
          PROVE  ApplyingHasCaller'
      <3>1. /\ apc'[c] # "idle" /\ ajob'[c] = j /\ apc[c] = "idle"
            /\ \A d \in Client \ {c} : apc'[d] = apc[d] /\ ajob'[d] = ajob[d]
            /\ \A k \in Job \ {j} : applyState'[k] = applyState[k]
        BY <2>3 DEF ApplyClaim
      <3> QED
        BY <3>1
    <2>4. ASSUME NEW j \in Job, RunCheck(j) \/ CallerStep(j) \/ WorkerStep(j)
          PROVE  UNCHANGED <<applyState, apc, ajob>>
      BY <2>4 DEF RunCheck, CallerStep, AcquireLease, VerifyRevision,
         RevisionMismatch, MismatchRaised, BeginFails, ReleaseAndRaise, Capture,
         Register, Start, StartFails, WorkerStep, BeginCandidate, WriteCell, WriteFails, Evaluate,
         RestoreCell, RestoreFails, BackendReturns, BackendRaises,
         OnJobFinished, Release, resultVars, applyVars
    <2> QED
      BY <2>1, <2>2, <2>3, <2>4
         DEF Next, Expire, EvictExpired, Edit, vars, resultVars, applyVars
  <1> QED
    BY <1>1, <1>2, TypeCorrect, PTL DEF Spec

(* There is one run_solver call; nobody can rob it.                         *)
OneJob == \A j, k \in Job : j = k

(* A call works on a result that was kept, with one of its points.          *)
CallOnResult(c) ==
  /\ apc[c] # "idle" =>
       /\ ajob[c] \in Job
       /\ phase[ajob[c]] = "reported"
       /\ apoint[c] \in points[ajob[c]]
  /\ apc[c] = "claimed" => aidx[c] = 1

(* Results are those of jobs that ended.                                    *)
KeptResults == \A j \in Job : stored[j] = "kept" => phase[j] = "reported"

(* The cells 1..k of p have been written over what j had found.             *)
FirstCells(j, p, k) ==
  \A d \in Cell : cells[d] = IF d <= k THEN Written(p[d]) ELSE orig[j][d]

(* Every call that writes is writing p and has got no further than k; when  *)
(* there is none, there is a receipt for p, or nothing written, or a call   *)
(* that failed.                                                             *)
CallsWrite(j, p, k) ==
  /\ \A c \in Client : Inside(c) =>
       /\ apoint[c] = p
       /\ apc[c] = "writing" => aidx[c] <= k + 1
       /\ apc[c] = "recalculating" => k = NCells
  /\ \/ \E c \in Client : Inside(c)
     \/ cells = orig[j]
     \/ k = NCells /\ \E r \in receipt[j] : r.point = p
     \/ j \in broken

Held(j, p, k) ==
  /\ FirstCells(j, p, k)
  /\ k # 0 => p \in points[j]
  /\ CallsWrite(j, p, k)

OnePointHeld(j) == \E p \in Point, k \in 0..NCells : Held(j, p, k)

ApplyInv ==
  /\ \A c \in Client : CallOnResult(c)
  /\ KeptResults
  /\ CommittedRevision
  /\ robbed = {}
  /\ \A j \in Job : phase[j] = "reported" =>
       OfSomePoint(j) /\ (j \notin mixed => OnePointHeld(j))

(* No call is applying at first.                                            *)
LEMMA ApplyInit == Init => ApplyInv
PROOF
  <1> QED
    BY DEF Init, ApplyInv, CallOnResult, KeptResults, CommittedRevision

(* The revision of a workspace all of whose variable cells are overridden   *)
(* with the values of a point is the revision of that point.                *)
LEMMA RevisionOfPoint ==
  ASSUME NEW w, NEW p, \A d \in Cell : w[d] = Written(p[d])
  PROVE  RevisionOf(w) = PointRevision(p)
PROOF
  <1>1. ASSUME NEW d \in Cell PROVE w[d].override /\ w[d].value = p[d]
    <2>1. w[d] = [value |-> p[d], override |-> TRUE]
      BY DEF Written
    <2>2. [value |-> p[d], override |-> TRUE].override
      OBVIOUS
    <2>3. [value |-> p[d], override |-> TRUE].value = p[d]
      OBVIOUS
    <2>4. w[d].override
      BY <2>1, <2>2, Zenon
    <2>5. w[d].value = p[d]
      BY <2>1, <2>3, Zenon
    <2> QED
      BY <2>4, <2>5
  <1>2. {d \in Cell : w[d].override} = Cell
    BY <1>1
  <1> QED
    BY <1>1, <1>2 DEF RevisionOf, PointRevision

(* Two workspaces with the same revision agree on the cells that one of     *)
(* them holds as an override.                                               *)
LEMMA SameRevision ==
  ASSUME NEW w \in [Cell -> Content], NEW u \in [Cell -> Content],
         RevisionOf(w) = RevisionOf(u), NEW d \in Cell, w[d].override = TRUE
  PROVE  w[d] = u[d]
PROOF
  <1> DEFINE W == {e \in Cell : w[e].override}
             U == {e \in Cell : u[e].override}
  <1>1. W = DOMAIN RevisionOf(w) /\ U = DOMAIN RevisionOf(u)
    BY DEF RevisionOf
  <1>2. d \in W /\ d \in U
    BY <1>1
  <1>3. RevisionOf(w)[d] = w[d].value /\ RevisionOf(u)[d] = u[d].value
    BY <1>2 DEF RevisionOf
  <1>4. w[d] \in Content /\ u[d] \in Content
    OBVIOUS
  <1>5. u[d].override = TRUE
    BY <1>2, <1>4 DEF Content
  <1>6. w[d].value = u[d].value
    BY <1>3
  <1> QED
    BY <1>4, <1>5, <1>6 DEF Content

(* A workspace of which every cell holds what the job found or the value of *)
(* a point is as the job found it if it has the base revision.              *)
LEMMA BaseMeansOrig ==
  ASSUME TypeOK, NEW j \in Job, Revision = RevisionOf(orig[j]), OfSomePoint(j)
  PROVE  cells = orig[j]
PROOF
  <1>1. cells \in [Cell -> Content] /\ orig[j] \in [Cell -> Content]
    BY DEF TypeOK
  <1>2. ASSUME NEW d \in Cell PROVE cells[d] = orig[j][d]
    <2>1. CASE \E p \in points[j] : cells[d] = Written(p[d])
      <3>1. cells[d].override = TRUE
        BY <2>1 DEF Written
      <3> QED
        BY <1>1, <3>1, SameRevision DEF Revision
    <2> QED
      BY <2>1 DEF OfSomePoint
  <1> QED
    BY <1>1, <1>2

(* Where the job found its cells, nothing of a point is written.            *)
LEMMA NothingWritten ==
  ASSUME NEW j \in Job, NEW p, cells = orig[j]
  PROVE  FirstCells(j, p, 0)
PROOF
  <1>1. \A d \in Cell : ~(d <= 0)
    BY SolverAssumption DEF Cell
  <1> QED
    BY <1>1 DEF FirstCells

(* While the job runs nobody applies; when it reports the workspace is as   *)
(* the job found it.                                                        *)
LEMMA JobStepKeepsApplies ==
  ASSUME OneJob, TypeOK, SessionInv, ApplyInv, NEW j \in Job,
         RunCheck(j) \/ CallerStep(j) \/ WorkerStep(j)
  PROVE  ApplyInv'
PROOF
  <1>1. phase[j] # "reported" /\ UNCHANGED <<applyVars, receipt>>
    BY DEF RunCheck, CallerStep, AcquireLease, VerifyRevision, RevisionMismatch,
       MismatchRaised, BeginFails, ReleaseAndRaise, Capture, Register, Start,
       StartFails, WorkerStep, BeginCandidate, WriteCell, WriteFails, Evaluate,
       RestoreCell, RestoreFails, BackendReturns, BackendRaises, OnJobFinished,
       resultVars
  <1>2. \A c \in Client : apc'[c] = "idle"
    BY <1>1 DEF ApplyInv, CallOnResult, OneJob, applyVars
  <1>3. (\A c \in Client : CallOnResult(c)') /\ CommittedRevision'
    BY <1>1, <1>2 DEF ApplyInv, CallOnResult, CommittedRevision, applyVars
  <1>4. stored[j] # "kept"
    BY <1>1 DEF ApplyInv, KeptResults
  <1>5. robbed' = {}
    <2>1. \A k \in Job : k = j
      BY DEF OneJob
    <2>2. UNCHANGED robbed \/ Release(j)
      BY DEF RunCheck, CallerStep, AcquireLease, VerifyRevision, RevisionMismatch,
         MismatchRaised, BeginFails, ReleaseAndRaise, Capture, Register, Start,
         StartFails, WorkerStep, BeginCandidate, WriteCell, WriteFails, Evaluate,
         RestoreCell, RestoreFails, BackendReturns, BackendRaises, OnJobFinished,
         leaseVars
    <2> QED
      BY <2>1, <2>2 DEF Release, ApplyInv
  <1>6. CASE OnJobFinished(j)
    <2>1. phase'[j] = "reported" /\ UNCHANGED <<cells, orig, points>>
      BY <1>6 DEF OnJobFinished, Goto, TypeOK
    <2>2. cells = orig[j]
      BY <1>6 DEF OnJobFinished, SessionInv, SessionOf, ApplyInv
    <2>3. KeptResults'
      BY <2>1 DEF KeptResults, OneJob
    <2>4. OfSomePoint(j)'
      BY <2>1, <2>2 DEF OfSomePoint
    <2>5. OnePointHeld(j)'
      <3>1. PICK p \in Point : TRUE
        BY DEF TypeOK
      <3>2. FirstCells(j, p, 0)'
        BY <2>1, <2>2, NothingWritten DEF FirstCells
      <3>3. CallsWrite(j, p, 0)'
        BY <1>2, <2>1, <2>2 DEF CallsWrite, Inside
      <3>4. Held(j, p, 0)'
        BY <3>2, <3>3 DEF Held
      <3>5. 0 \in 0..NCells
        BY SolverAssumption
      <3> QED
        BY <3>1, <3>4, <3>5 DEF OnePointHeld
    <2> QED
      BY <1>3, <1>5, <2>3, <2>4, <2>5 DEF ApplyInv, OneJob
  <1>7. CASE ~OnJobFinished(j)
    <2>1. phase'[j] # "reported" /\ UNCHANGED stored
      BY <1>1, <1>7 DEF RunCheck, CallerStep, AcquireLease, VerifyRevision,
         RevisionMismatch, MismatchRaised, BeginFails, ReleaseAndRaise, Capture,
         Register, Start, StartFails, WorkerStep, BeginCandidate, WriteCell,
         WriteFails, Evaluate, RestoreCell, RestoreFails, BackendReturns,
         BackendRaises, LoopOver, AfterRestore, Goto, TypeOK, resultVars
    <2>2. KeptResults'
      BY <1>4, <2>1 DEF KeptResults, OneJob
    <2> QED
      BY <1>3, <1>5, <2>1, <2>2 DEF ApplyInv, OneJob
  <1> QED
    BY <1>6, <1>7

(* A call writes one more cell, or its last; other calls that are writing   *)
(* have the same point, unless points are mixed.                            *)
LEMMA ApplyCellKeepsApplies ==
  ASSUME OneJob, TypeOK, ApplyInv, NEW c \in Client, ApplyCell(c)
  PROVE  ApplyInv'
PROOF
  <1> DEFINE j == ajob[c]
             i == aidx[c]
             v == Written(apoint[c][i])
  <1>1. NCells \in Nat \ {0} /\ i \in 1..NCells
    BY SolverAssumption DEF TypeOK, Cell
  <1>2. /\ apc[c] = "writing" /\ apc'[c] \in {"writing", "recalculating"}
        /\ cells'[i] = v
        /\ \A d \in Cell \ {i} : cells'[d] = cells[d]
        /\ UNCHANGED <<leaseVars, ajob, apoint, phase, points, orig, stored, receipt,
                      broken, mixed>>
        /\ \A d \in Client \ {c} : apc'[d] = apc[d] /\ aidx'[d] = aidx[d]
    BY DEF ApplyCell, TypeOK, jobVars, resultVars
  <1>3. j \in Job /\ phase[j] = "reported" /\ apoint[c] \in points[j]
    BY <1>2 DEF ApplyInv, CallOnResult
  <1>4. \A d \in Client : CallOnResult(d)'
    BY <1>2 DEF ApplyInv, CallOnResult
  <1>5. KeptResults' /\ CommittedRevision' /\ robbed' = {}
    BY <1>2 DEF ApplyInv, KeptResults, CommittedRevision, leaseVars
  <1>6. OfSomePoint(j)'
    <2>1. OfSomePoint(j)
      BY <1>3 DEF ApplyInv
    <2> SUFFICES ASSUME NEW d \in Cell
                 PROVE  \/ cells'[d] = orig[j][d]
                        \/ \E p \in points[j] : cells'[d] = Written(p[d])
      BY <1>2 DEF OfSomePoint
    <2>2. CASE d = i
      BY <1>2, <1>3, <2>2
    <2> QED
      BY <1>2, <2>1, <2>2 DEF OfSomePoint
  <1>7. ASSUME j \notin mixed PROVE OnePointHeld(j)'
    <2>1. PICK p \in Point, k \in 0..NCells : Held(j, p, k)
      BY <1>3, <1>7 DEF ApplyInv, OnePointHeld
    <2>2. Inside(c) /\ apoint[c] = p /\ i <= k + 1
      BY <1>2, <2>1 DEF Held, CallsWrite, Inside
    <2>3. PICK n \in 0..NCells : n = IF i <= k THEN k ELSE i
      BY <1>1
    <2>4. FirstCells(j, p, n)'
      <3> SUFFICES ASSUME NEW d \in Cell
                   PROVE  cells'[d] = IF d <= n THEN Written(p[d]) ELSE orig[j][d]
        BY <1>2 DEF FirstCells
      <3>1. cells[d] = IF d <= k THEN Written(p[d]) ELSE orig[j][d]
        BY <2>1 DEF Held, FirstCells
      <3>2. CASE d = i
        <4>1. d <= n
          BY <1>1, <2>3, <3>2
        <4> QED
          BY <1>2, <2>2, <3>2, <4>1
      <3>3. CASE d # i
        <4>1. d <= n <=> d <= k
          BY <1>1, <2>2, <2>3, <3>3 DEF Cell
        <4> QED
          BY <1>2, <3>1, <3>3, <4>1
      <3> QED
        BY <3>2, <3>3
    <2>5. CallsWrite(j, p, n)'
      <3>1. Inside(c)' /\ apoint'[c] = p
        BY <1>2, <2>2 DEF Inside
      <3>2. apc'[c] = "writing" => aidx'[c] <= n + 1
        <4>1. CASE i < NCells
          <5>1. aidx'[c] = i + 1
            BY <4>1 DEF ApplyCell, TypeOK
          <5> QED
            BY <1>1, <2>3, <5>1
        <4>2. CASE ~(i < NCells)
          BY <4>2 DEF ApplyCell, TypeOK
        <4> QED
          BY <4>1, <4>2
      <3>3. apc'[c] = "recalculating" => n = NCells
        <4>1. CASE i < NCells
          BY <1>2, <4>1 DEF ApplyCell, TypeOK
        <4>2. CASE ~(i < NCells)
          BY <1>1, <2>3, <4>2
        <4> QED
          BY <4>1, <4>2
      <3>4. ASSUME NEW d \in Client \ {c}, Inside(d)'
            PROVE  /\ apoint'[d] = p
                   /\ apc'[d] = "writing" => aidx'[d] <= n + 1
                   /\ apc'[d] = "recalculating" => n = NCells
        <4>1. Inside(d)
          BY <1>2, <3>4 DEF Inside
        <4>2. /\ apoint[d] = p
              /\ apc[d] = "writing" => aidx[d] <= k + 1
              /\ apc[d] = "recalculating" => k = NCells
          BY <2>1, <4>1 DEF Held, CallsWrite
        <4>3. k <= n /\ aidx[d] \in 1..NCells
          BY <1>1, <2>3 DEF TypeOK, Cell
        <4> QED
          BY <1>1, <1>2, <4>2, <4>3
      <3> QED
        BY <3>1, <3>2, <3>3, <3>4 DEF CallsWrite
    <2>6. n # 0 => p \in points'[j]
      BY <1>2, <1>3, <2>2
    <2> QED
      BY <1>2, <2>4, <2>5, <2>6 DEF OnePointHeld, Held
  <1>8. \A k \in Job : k = j
    BY <1>3 DEF OneJob
  <1> QED
    BY <1>2, <1>4, <1>5, <1>6, <1>7, <1>8 DEF ApplyInv

(* The receipt is stored over a workspace that holds its point.             *)
LEMMA ApplyStoreKeepsApplies ==
  ASSUME OneJob, TypeOK, ApplyInv, NEW c \in Client, ApplyStore(c)
  PROVE  ApplyInv'
PROOF
  <1> DEFINE j == ajob[c]
             r == [rid |-> arid[c], point |-> apoint[c], revision |-> Revision]
  <1>1. /\ apc[c] = "recalculating"
        /\ apc' = [apc EXCEPT ![c] = "idle"]
        /\ UNCHANGED <<cells, leaseVars, phase, orig, points, stored, ajob, apoint,
                      aidx, broken, mixed>>
    BY DEF ApplyStore, jobVars
  <1>2. j \in Job /\ phase[j] = "reported"
    BY <1>1 DEF ApplyInv, CallOnResult
  <1>3. receipt'[j] = {r}
    BY <1>2 DEF ApplyStore, TypeOK
  <1>4. \A d \in Client : CallOnResult(d)'
    BY <1>1 DEF ApplyInv, CallOnResult, TypeOK
  <1>5. KeptResults' /\ robbed' = {} /\ OfSomePoint(j)'
    BY <1>1, <1>2 DEF ApplyInv, KeptResults, OfSomePoint, leaseVars
  <1>6. r.point = apoint[c] /\ r.revision = Revision
    OBVIOUS
  <1>7. ASSUME j \notin mixed
        PROVE  OnePointHeld(j)' /\ r.revision = PointRevision(r.point)
    <2>1. PICK p \in Point, k \in 0..NCells : Held(j, p, k)
      BY <1>2, <1>7 DEF ApplyInv, OnePointHeld
    <2>2. apoint[c] = p /\ k = NCells
      BY <1>1, <2>1 DEF Held, CallsWrite, Inside
    <2>3. \A d \in Cell : cells[d] = Written(p[d])
      BY <2>1, <2>2, SolverAssumption DEF Held, FirstCells, Cell
    <2>4. FirstCells(j, p, k)' /\ (k # 0 => p \in points'[j])
      BY <1>1, <2>1 DEF Held, FirstCells
    <2>5. \A d \in Client : Inside(d)' => Inside(d) /\ apc'[d] = apc[d]
      BY <1>1 DEF Inside, TypeOK
    <2>6. CallsWrite(j, p, k)'
      <3>1. k = NCells /\ \E q \in receipt'[j] : q.point = p
        BY <1>3, <1>6, <2>2
      <3>2. \A d \in Client : Inside(d)' =>
              /\ apoint'[d] = p
              /\ apc'[d] = "writing" => aidx'[d] <= k + 1
              /\ apc'[d] = "recalculating" => k = NCells
        BY <1>1, <2>1, <2>5 DEF Held, CallsWrite
      <3> QED
        BY <1>1, <3>1, <3>2 DEF CallsWrite
    <2>7. OnePointHeld(j)'
      BY <1>1, <2>4, <2>6 DEF OnePointHeld, Held
    <2> QED
      BY <1>6, <2>2, <2>3, <2>7, RevisionOfPoint DEF Revision
  <1>8. \A k \in Job : k = j
    BY <1>2 DEF OneJob
  <1>9. CommittedRevision'
    BY <1>1, <1>3, <1>7, <1>8 DEF CommittedRevision
  <1> QED
    BY <1>1, <1>4, <1>5, <1>7, <1>8, <1>9 DEF ApplyInv

(* A call that has found the base revision may write.                       *)
LEMMA RevalidateKeepsApplies ==
  ASSUME OneJob, TypeOK, SessionInv, ApplyInv, NEW c \in Client, Revalidate(c)
  PROVE  ApplyInv'
PROOF
  <1> DEFINE j == ajob[c]
  <1>1. /\ apc[c] = "claimed" /\ apc'[c] \in {"writing", "failing"}
        /\ \A d \in Client \ {c} : apc'[d] = apc[d]
        /\ UNCHANGED <<cells, leaseVars, phase, base, orig, points, stored, receipt,
                      ajob, apoint, aidx, broken>>
        /\ mixed \subseteq mixed'
    BY DEF Revalidate, TypeOK, jobVars, resultVars
  <1>2. /\ j \in Job /\ phase[j] = "reported" /\ apoint[c] \in points[j]
        /\ aidx[c] = 1
    BY <1>1 DEF ApplyInv, CallOnResult
  <1>3. \A d \in Client : CallOnResult(d)'
    BY <1>1 DEF ApplyInv, CallOnResult
  <1>4. /\ KeptResults' /\ robbed' = {} /\ OfSomePoint(j)'
        /\ CommittedRevision'
    BY <1>1, <1>2 DEF ApplyInv, KeptResults, OfSomePoint, CommittedRevision, leaseVars
  <1>5. ASSUME j \notin mixed' PROVE OnePointHeld(j)'
    <2>1. PICK p \in Point, k \in 0..NCells : Held(j, p, k)
      BY <1>1, <1>2, <1>5 DEF ApplyInv, OnePointHeld
    <2>2. \A d \in Client \ {c} : Inside(d)' <=> Inside(d)
      BY <1>1 DEF Inside
    <2>3. ~Inside(c)
      BY <1>1 DEF Inside
    <2>4. CASE apc'[c] = "failing"
      <3>1. \A d \in Client : Inside(d)' <=> Inside(d)
        BY <2>2, <2>3, <2>4 DEF Inside
      <3>2. CallsWrite(j, p, k)'
        BY <1>1, <2>1, <2>3, <3>1 DEF Held, CallsWrite
      <3> QED
        BY <1>1, <2>1, <3>2 DEF OnePointHeld, Held, FirstCells
    <2>5. CASE apc'[c] = "writing"
      <3>1. Revision = base[j]
        BY <1>1, <2>5 DEF Revalidate, TypeOK
      <3>2. base[j] = RevisionOf(orig[j])
        BY <1>2 DEF ApplyInv, SessionInv, SessionOf
      <3>3. cells = orig[j]
        BY <1>2, <3>1, <3>2, BaseMeansOrig DEF ApplyInv
      <3>4. \A d \in Client : Inside(d) => apoint[d] = apoint[c]
        <4> SUFFICES ASSUME NEW d \in Client, Inside(d), apoint[d] # apoint[c]
                     PROVE  FALSE
          OBVIOUS
        <4>1. ajob[d] = j
          BY <1>2 DEF ApplyInv, CallOnResult, Inside, OneJob
        <4>2. j \in mixed'
          BY <2>5, <4>1 DEF Revalidate, TypeOK
        <4> QED
          BY <1>5, <4>2
      <3>5. Inside(c)'
        BY <2>5 DEF Inside
      <3>6. CASE \E d \in Client : Inside(d)
        <4>1. p = apoint[c]
          BY <2>1, <3>4, <3>6 DEF Held, CallsWrite
        <4>2. CallsWrite(j, p, k)'
          <5>1. 1 <= k + 1
            OBVIOUS
          <5>2. ASSUME NEW d \in Client \ {c}, Inside(d)'
                PROVE  /\ apoint'[d] = p
                       /\ apc'[d] = "writing" => aidx'[d] <= k + 1
                       /\ apc'[d] = "recalculating" => k = NCells
            BY <1>1, <2>1, <2>2, <5>2 DEF Held, CallsWrite
          <5> QED
            BY <1>1, <1>2, <2>5, <3>5, <4>1, <5>1, <5>2 DEF CallsWrite
        <4> QED
          BY <1>1, <2>1, <4>2 DEF OnePointHeld, Held, FirstCells
      <3>7. CASE \A d \in Client : ~Inside(d)
        <4> DEFINE q == apoint[c]
        <4>1. q \in Point /\ 0 \in 0..NCells
          BY SolverAssumption DEF TypeOK
        <4>2. FirstCells(j, q, 0)'
          BY <1>1, <1>2, <3>3, NothingWritten DEF FirstCells
        <4>3. CallsWrite(j, q, 0)'
          <5>1. 1 <= 0 + 1
            OBVIOUS
          <5>2. \A d \in Client : Inside(d)' => d = c
            BY <2>2, <3>7
          <5> QED
            BY <1>1, <1>2, <2>5, <3>5, <5>1, <5>2 DEF CallsWrite
        <4>4. Held(j, q, 0)'
          BY <4>2, <4>3 DEF Held
        <4> QED
          BY <1>1, <4>1, <4>4 DEF OnePointHeld
      <3> QED
        BY <3>6, <3>7
    <2> QED
      BY <1>1, <2>4, <2>5
  <1>6. \A k \in Job : k = j
    BY <1>2 DEF OneJob
  <1> QED
    BY <1>1, <1>3, <1>4, <1>5, <1>6 DEF ApplyInv

(* A call fails on the way and leaves what it has written.                  *)
LEMMA ApplyFailsKeepsApplies ==
  ASSUME OneJob, TypeOK, ApplyInv, NEW c \in Client, ApplyFails(c)
  PROVE  ApplyInv'
PROOF
  <1> DEFINE j == ajob[c]
  <1>1. /\ Inside(c) /\ apc' = [apc EXCEPT ![c] = "failing"]
        /\ aidx' = [aidx EXCEPT ![c] = 1]
        /\ broken' = broken \cup {j}
        /\ UNCHANGED <<cells, leaseVars, phase, orig, points, stored, receipt,
                      ajob, apoint, mixed>>
    BY DEF ApplyFails, jobVars, resultVars
  <1>2. j \in Job /\ phase[j] = "reported"
    BY <1>1 DEF ApplyInv, CallOnResult, Inside
  <1>3. \A d \in Client : CallOnResult(d)'
    BY <1>1 DEF ApplyInv, CallOnResult, TypeOK, Inside
  <1>4. /\ KeptResults' /\ robbed' = {} /\ OfSomePoint(j)'
        /\ CommittedRevision'
    BY <1>1, <1>2 DEF ApplyInv, KeptResults, OfSomePoint, CommittedRevision, leaseVars
  <1>5. ASSUME j \notin mixed' PROVE OnePointHeld(j)'
    <2>1. PICK p \in Point, k \in 0..NCells : Held(j, p, k)
      BY <1>1, <1>2, <1>5 DEF ApplyInv, OnePointHeld
    <2>2. ~Inside(c)' /\ \A d \in Client \ {c} : /\ apc'[d] = apc[d]
                                                   /\ aidx'[d] = aidx[d]
      BY <1>1 DEF Inside, TypeOK
    <2>3. CallsWrite(j, p, k)'
      BY <1>1, <2>1, <2>2 DEF Held, CallsWrite, Inside
    <2> QED
      BY <1>1, <2>1, <2>3 DEF OnePointHeld, Held, FirstCells
  <1>6. \A k \in Job : k = j
    BY <1>2 DEF OneJob
  <1> QED
    BY <1>1, <1>3, <1>4, <1>5, <1>6 DEF ApplyInv

(* A step that writes no cell, and by which no call starts or stops to      *)
(* write.                                                                   *)
LEMMA QuietStepKeepsApplies ==
  ASSUME TypeOK, ApplyInv,
         UNCHANGED <<cells, robbed, jobVars, receipt, broken, mixed>>,
         \A j \in Job : stored'[j] = "kept" => stored[j] = "kept",
         \A c \in Client : CallOnResult(c)',
         \A c \in Client : (Inside(c) \/ Inside(c)') =>
           apc'[c] = apc[c] /\ apoint'[c] = apoint[c] /\ aidx'[c] = aidx[c]
  PROVE  ApplyInv'
PROOF
  <1>1. KeptResults' /\ CommittedRevision' /\ robbed' = {}
    BY DEF ApplyInv, KeptResults, CommittedRevision, jobVars
  <1>2. ASSUME NEW j \in Job, phase'[j] = "reported"
        PROVE  OfSomePoint(j)' /\ (j \notin mixed' => OnePointHeld(j)')
    <2>1. phase[j] = "reported" /\ OfSomePoint(j)'
      BY <1>2 DEF ApplyInv, OfSomePoint, jobVars
    <2>2. ASSUME j \notin mixed' PROVE OnePointHeld(j)'
      <3>1. PICK p \in Point, k \in 0..NCells : Held(j, p, k)
        BY <2>1, <2>2 DEF ApplyInv, OnePointHeld
      <3>2. CallsWrite(j, p, k)'
        BY <3>1 DEF Held, CallsWrite, Inside, jobVars
      <3> QED
        BY <3>1, <3>2 DEF OnePointHeld, Held, FirstCells, jobVars
    <2> QED
      BY <2>1, <2>2
  <1> QED
    BY <1>1, <1>2 DEF ApplyInv

(* Every step keeps the sessions' and the calls' view of the workspace.     *)
LEMMA ApplyStepInv ==
  ASSUME QuietWorkspace, OneJob
  PROVE  TypeOK /\ LeaseInv /\ SessionInv /\ ApplyInv /\ [Next]_vars
           => SessionInv' /\ ApplyInv'
PROOF
  <1> SUFFICES ASSUME TypeOK, LeaseInv, SessionInv, ApplyInv, [Next]_vars
               PROVE  SessionInv' /\ ApplyInv'
    OBVIOUS
  <1>1. ASSUME NEW c \in Client, ApplyCell(c) PROVE SessionInv' /\ ApplyInv'
    <2>1. ajob[c] \in Job /\ phase[ajob[c]] = "reported"
      BY <1>1 DEF ApplyCell, ApplyInv, CallOnResult
    <2>2. \A j \in Job : phase[j] = "reported" /\ SessionOf(j)
      BY <2>1 DEF OneJob, SessionInv, ApplyInv
    <2>3. UNCHANGED <<phase, idx, base, orig>>
      BY <1>1 DEF ApplyCell, jobVars
    <2>4. SessionInv'
      BY <2>2, <2>3 DEF SessionInv, SessionOf, InSession, RevisionOf
    <2> QED
      BY <1>1, <2>4, ApplyCellKeepsApplies
  <1>2. CASE \A c \in Client : ~ApplyCell(c)
    <2>1. SessionInv'
      BY <1>2, SessionStepUnlessApply
    <2>2. ASSUME NEW j \in Job, RunCheck(j) \/ CallerStep(j) \/ WorkerStep(j)
          PROVE  ApplyInv'
      BY <2>2, JobStepKeepsApplies
    <2>3. ASSUME NEW c \in Client, ApplyRollback(c) PROVE ApplyInv'
      <3>1. /\ UNCHANGED <<cells, leaseVars, jobVars, stored, receipt, ajob, apoint,
                          aidx, broken, mixed>>
            /\ apc[c] = "failing" /\ apc' = [apc EXCEPT ![c] = "idle"]
        BY <2>3 DEF ApplyRollback
      <3>2. \A d \in Client : CallOnResult(d)'
        BY <3>1 DEF ApplyInv, CallOnResult, jobVars, TypeOK
      <3>3. \A d \in Client : (Inside(d) \/ Inside(d)') => apc'[d] = apc[d]
        BY <3>1 DEF Inside, TypeOK
      <3> QED
        BY <3>1, <3>2, <3>3, QuietStepKeepsApplies DEF leaseVars
    <2>4. ASSUME NEW c \in Client, NEW j \in Job, NEW r \in RequestId,
                 NEW p \in points[j], ApplyClaim(c, j, r, p)
          PROVE  ApplyInv'
      <3>1. /\ UNCHANGED <<cells, leaseVars, jobVars, stored, receipt, broken, mixed>>
            /\ \A d \in Client \ {c} : /\ apc'[d] = apc[d] /\ ajob'[d] = ajob[d]
                                       /\ apoint'[d] = apoint[d]
                                       /\ aidx'[d] = aidx[d]
            /\ apc[c] = "idle" /\ apc'[c] = "claimed" /\ ajob'[c] = j
            /\ apoint'[c] = p /\ aidx'[c] = 1 /\ stored[j] = "kept"
        BY <2>4 DEF ApplyClaim, TypeOK
      <3>2. phase[j] = "reported"
        BY <3>1 DEF ApplyInv, KeptResults
      <3>3. \A d \in Client : CallOnResult(d)'
        BY <3>1, <3>2 DEF ApplyInv, CallOnResult, jobVars
      <3>4. ~Inside(c) /\ ~Inside(c)'
        BY <3>1 DEF Inside
      <3> QED
        BY <3>1, <3>3, <3>4, QuietStepKeepsApplies DEF leaseVars
    <2>5. ASSUME NEW j \in Job, EvictExpired(j) \/ Expire(j) PROVE ApplyInv'
      <3>1. /\ UNCHANGED <<cells, leaseVars, jobVars, receipt, applyVars>>
            /\ \A k \in Job : stored'[k] = "kept" => stored[k] = "kept"
        BY <2>5 DEF EvictExpired, Expire, TypeOK
      <3>2. \A d \in Client : CallOnResult(d)'
        BY <3>1 DEF ApplyInv, CallOnResult, jobVars, applyVars
      <3> QED
        BY <3>1, <3>2, QuietStepKeepsApplies DEF leaseVars, applyVars
    <2>6. ASSUME UNCHANGED vars PROVE ApplyInv'
      <3>1. /\ UNCHANGED <<cells, robbed, jobVars, stored, receipt, broken, mixed>>
            /\ UNCHANGED <<apc, ajob, apoint, aidx>>
        BY <2>6 DEF vars, leaseVars, resultVars, applyVars
      <3>2. \A d \in Client : CallOnResult(d)'
        BY <3>1 DEF ApplyInv, CallOnResult, jobVars
      <3>3. /\ UNCHANGED <<cells, robbed, jobVars, receipt, broken, mixed>>
            /\ \A j \in Job : stored'[j] = "kept" => stored[j] = "kept"
            /\ \A c \in Client : apc'[c] = apc[c] /\ apoint'[c] = apoint[c]
                                 /\ aidx'[c] = aidx[c]
        BY <3>1
      <3> QED
        BY <3>2, <3>3, QuietStepKeepsApplies
    <2>7. ApplyInv'
      BY <1>2, <2>2, <2>3, <2>4, <2>5, <2>6, RevalidateKeepsApplies,
         ApplyFailsKeepsApplies, ApplyStoreKeepsApplies
         DEF Next, ApplyStep, Edit, QuietWorkspace
    <2> QED
      BY <2>1, <2>7
  <1> QED
    BY <1>1, <1>2

(* The invariant of the applies holds of every reachable state.             *)
LEMMA ApplyInvariant ==
  ASSUME QuietWorkspace, OneJob
  PROVE  Spec => [](TypeOK /\ ApplyInv)
PROOF
  <1> DEFINE Inv == TypeOK /\ LeaseInv /\ SessionInv /\ ApplyInv
  <1>1. Init => Inv
    BY TypeInit, LeaseInit, SessionInit, ApplyInit
  <1>2. Inv /\ [Next]_vars => Inv'
    BY TypeStep, LeaseStep, ApplyStepInv
  <1>3. Inv => TypeOK /\ ApplyInv
    OBVIOUS
  <1> HIDE DEF Inv
  <1> QED
    BY <1>1, <1>2, <1>3, PTL DEF Spec

(* One job, no edits and no deleted cubes: every entry that says APPLYING   *)
(* has its call, and the revision on a receipt is the one of the receipt's  *)
(* point unless calls with different points overlapped, however many calls  *)
(* there are and however they interleave, fail and are retried              *)
(* (SolverService.apply_solver_result).                                     *)
THEOREM RecordedTheorem ==
  ASSUME QuietWorkspace, OneJob
  PROVE  Spec => []AppliesAreRecorded
PROOF
  <1>1. ApplyingHasCaller /\ ApplyInv => AppliesAreRecorded
    BY DEF ApplyInv, AppliesAreRecorded
  <1> QED
    BY <1>1, ApplyingLemma, ApplyInvariant, PTL

(* Under the same conditions, applies that fail on the way included, every  *)
(* cell of an ended job holds what the job found or the value of a point;   *)
(* and, unless calls with different points overlapped, the workspace at     *)
(* rest is the one the job found, the whole point of the receipt, or the    *)
(* first cells of one point after a failure: never cells of two points      *)
(* (commit_solver_result_values).                                           *)
THEOREM AllOrNothingTheorem ==
  ASSUME QuietWorkspace, OneJob
  PROVE  Spec => []AllOrNothing
PROOF
  <1>1. ASSUME TypeOK, ApplyInv PROVE AllOrNothing
    <2> SUFFICES ASSUME NEW j \in Job, phase[j] = "reported", j \notin mixed,
                        \A c \in Client : apc[c] = "idle"
                 PROVE  AsFoundOrApplied(j)
      BY <1>1 DEF AllOrNothing, ApplyInv
    <2>1. PICK p \in Point, k \in 0..NCells : Held(j, p, k)
      BY <1>1 DEF ApplyInv, OnePointHeld
    <2>2. cells = WrittenTo(orig[j], p, k)
      <3>1. cells = [c \in Cell |-> cells[c]]
        BY <1>1 DEF TypeOK
      <3> QED
        BY <2>1, <3>1 DEF Held, FirstCells, WrittenTo
    <2>3. CASE k = 0
      <3>1. \A d \in Cell : cells[d] = orig[j][d]
        BY <2>1, <2>3 DEF Held, FirstCells, Cell
      <3>2. cells \in [Cell -> Content] /\ orig[j] \in [Cell -> Content]
        BY <1>1 DEF TypeOK
      <3>3. cells = orig[j]
        BY <3>1, <3>2
      <3> QED
        BY <3>3 DEF AsFoundOrApplied
    <2>4. CASE k # 0
      <3>1. k \in Cell /\ p \in points[j]
        BY <2>1, <2>4, SolverAssumption DEF Held, Cell
      <3>2. \A c \in Client : ~Inside(c)
        BY DEF Inside
      <3>3. \/ cells = orig[j]
            \/ k = NCells /\ \E r \in receipt[j] : r.point = p
            \/ j \in broken
        BY <2>1, <3>2 DEF Held, CallsWrite
      <3> QED
        BY <2>2, <3>1, <3>3 DEF AsFoundOrApplied
    <2> QED
      BY <2>3, <2>4
  <1> QED
    BY <1>1, ApplyInvariant, PTL

=============================================================================
