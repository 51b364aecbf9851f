------------------------- MODULE EngineState_proofs -------------------------
(***************************************************************************)
(* Proofs about EngineState for any set of threads.                        *)
(*                                                                         *)
(* SettledWhenFree is not inductive: a step of a thread is only known to   *)
(* leave the engine settled if the thread is known to hold the mutation    *)
(* lock, and what its next step finds depends on where it is.  IInv adds   *)
(* who holds the lock (Serialized) and, for each place in the call, the    *)
(* states the engine may be in there.  After an interrupt no thread gets   *)
(* past its admission check.                                               *)
(***************************************************************************)
EXTENDS EngineState, TLAPS

Settled == {IDLE, FAULTED, SHUTTING_DOWN}

(* Before its admission check and after its outcome a command leaves the    *)
(* engine settled, or an interrupt did not; a cancelled one is about to     *)
(* fault it.                                                                *)
PlaceState ==
  \A t \in Thread :
    /\ pc[t] = "check" => engineState \in Settled \/ stranded
    /\ pc[t] = "cancelled" => engineState \in {CANCELLING, SHUTTING_DOWN}
    /\ pc[t] = "finally" => engineState \in Settled \/ stranded

(* A command past its admission check is one of the three.                  *)
RunningCommand ==
  \A t \in Thread : pc[t] # "idle" => cmd[t] \in Command

IInv ==
  /\ TypeOK
  /\ Serialized
  /\ SettledWhenFree
  /\ StrandedForGood
  /\ BodyState
  /\ PlaceState
  /\ OutcomeState
  /\ RunningCommand

-----------------------------------------------------------------------------

(* The state each command enters when it is admitted.                       *)
LEMMA TargetStateValues ==
  /\ TargetState["run_recalculation"] = RECALCULATING
  /\ TargetState["save_workspace"] = SAVING
  /\ TargetState["load_workspace"] = LOADING
  /\ \A c \in Command : TargetState[c] \in {RECALCULATING, SAVING, LOADING}
BY DEF TargetState, Command, RECALCULATING, SAVING, LOADING

(* TypeOK and RunningCommand together are inductive.                        *)
LEMMA TypeStep ==
  ASSUME TypeOK, RunningCommand, [Next]_vars
  PROVE  TypeOK' /\ RunningCommand'
<1> USE DEF TypeOK, RunningCommand, EngineStates, Replies, PcStates,
            EnterState, IDLE, MUTATING, LOADING, RECALCULATING, CANCELLING,
            SAVING, FAULTED, SHUTTING_DOWN
<1>1. ASSUME NEW t \in Thread, NEW c \in Command, Acquire(t, c)
      PROVE  TypeOK' /\ RunningCommand'
  BY <1>1 DEF Acquire
<1>2. ASSUME NEW t \in Thread, Denied(t) PROVE TypeOK' /\ RunningCommand'
  BY <1>2 DEF Denied, Rejection
<1>3. ASSUME NEW t \in Thread, CheckState(t)
      PROVE  TypeOK' /\ RunningCommand'
  BY <1>3, TargetStateValues DEF CheckState, Rejection
<1>4. ASSUME NEW t \in Thread, BodyReturns(t)
      PROVE  TypeOK' /\ RunningCommand'
  BY <1>4 DEF BodyReturns
<1>5. ASSUME NEW t \in Thread, BodyRaises(t)
      PROVE  TypeOK' /\ RunningCommand'
  BY <1>5 DEF BodyRaises
<1>6. ASSUME NEW t \in Thread, BodyCancelled(t)
      PROVE  TypeOK' /\ RunningCommand'
  BY <1>6 DEF BodyCancelled
<1>7. ASSUME NEW t \in Thread, FaultAfterCancel(t)
      PROVE  TypeOK' /\ RunningCommand'
  BY <1>7 DEF FaultAfterCancel
<1>8. ASSUME NEW t \in Thread, Release(t) PROVE TypeOK' /\ RunningCommand'
  BY <1>8 DEF Release
<1>9. CASE RequestCancel
  BY <1>9 DEF RequestCancel
<1>10. CASE ShutdownWrite
  BY <1>10 DEF ShutdownWrite
<1>11. CASE ShutdownPublish
  BY <1>11 DEF ShutdownPublish
<1>12. CASE UNCHANGED vars
  BY <1>12 DEF vars
<1>13. ASSUME NEW t \in Thread, BodyInterrupted(t)
       PROVE  TypeOK' /\ RunningCommand'
  BY <1>13 DEF BodyInterrupted
<1>14. QED
  BY <1>1, <1>2, <1>3, <1>4, <1>5, <1>6, <1>7, <1>8, <1>9, <1>10, <1>11,
     <1>12, <1>13 DEF Next, ThreadStep

(* Type correctness: every variable keeps its type in every reachable state.*)
THEOREM TypeCorrect == Spec => []TypeOK
<1>1. Init => TypeOK /\ RunningCommand
  BY DEF Init, TypeOK, RunningCommand, EngineStates, IDLE, Replies, PcStates
<1>2. TypeOK /\ RunningCommand /\ [Next]_vars => (TypeOK /\ RunningCommand)'
  BY TypeStep
<1>3. QED BY <1>1, <1>2, PTL DEF Spec

(* The strengthened invariant holds initially ...                           *)
LEMMA IInvInit == Init => IInv
BY ThreadAssumption
   DEF Init, IInv, TypeOK, Serialized, InCommand, SettledWhenFree, StrandedForGood, BodyState,
       PlaceState, OutcomeState, RunningCommand, Settled, EngineStates, IDLE,
       Replies, PcStates

(* ... and every step preserves it.                                         *)
LEMMA IInvStep == IInv /\ [Next]_vars => IInv'
<1> SUFFICES ASSUME IInv, [Next]_vars PROVE IInv'
  OBVIOUS
<1>0. TypeOK' /\ RunningCommand'
  BY TypeStep DEF IInv
<1> USE ThreadAssumption, <1>0
    DEF IInv, TypeOK, Serialized, InCommand, SettledWhenFree, StrandedForGood, BodyState,
        PlaceState, OutcomeState, RunningCommand, Settled, EnterState,
        IDLE, MUTATING, LOADING, RECALCULATING, CANCELLING, SAVING, FAULTED,
        SHUTTING_DOWN, Cancellable
<1>1. ASSUME NEW t \in Thread, NEW c \in Command, Acquire(t, c) PROVE IInv'
  BY <1>1 DEF Acquire
<1>2. ASSUME NEW t \in Thread, Denied(t) PROVE IInv'
  BY <1>2 DEF Denied
<1>3. ASSUME NEW t \in Thread, CheckState(t) PROVE IInv'
  <2>1. Admitted(cmd[t], engineState) => engineState \in {IDLE, FAULTED}
    BY DEF Admitted, AllowedStates
  <2> QED
    BY <1>3, <2>1, TargetStateValues DEF CheckState, Rejection
<1>4. ASSUME NEW t \in Thread, BodyReturns(t) PROVE IInv'
  BY <1>4 DEF BodyReturns
<1>5. ASSUME NEW t \in Thread, BodyRaises(t) PROVE IInv'
  BY <1>5 DEF BodyRaises
<1>6. ASSUME NEW t \in Thread, BodyCancelled(t) PROVE IInv'
  BY <1>6 DEF BodyCancelled
<1>7. ASSUME NEW t \in Thread, FaultAfterCancel(t) PROVE IInv'
  BY <1>7 DEF FaultAfterCancel
<1>8. ASSUME NEW t \in Thread, Release(t) PROVE IInv'
  BY <1>8 DEF Release
<1>9. CASE RequestCancel
  BY <1>9, TargetStateValues DEF RequestCancel
<1>10. CASE ShutdownWrite
  BY <1>10 DEF ShutdownWrite
<1>11. CASE ShutdownPublish
  BY <1>11 DEF ShutdownPublish
<1>12. CASE UNCHANGED vars
  BY <1>12 DEF vars
<1>13. ASSUME NEW t \in Thread, BodyInterrupted(t) PROVE IInv'
  BY <1>13, TargetStateValues DEF BodyInterrupted
<1>14. QED
  BY <1>1, <1>2, <1>3, <1>4, <1>5, <1>6, <1>7, <1>8, <1>9, <1>10, <1>11,
     <1>12, <1>13 DEF Next, ThreadStep

(* The inductive invariant holds of every reachable state.                  *)
LEMMA InvariantHolds == Spec => []IInv
<1>1. QED BY IInvInit, IInvStep, PTL DEF Spec

(* The engine is never left in a transient state with nobody running, but   *)
(* by an interrupt.                                                         *)
THEOREM SettledTheorem == Spec => []SettledWhenFree
<1>1. IInv => SettledWhenFree
  BY DEF IInv
<1>2. QED BY <1>1, InvariantHolds, PTL

(* A body finds the engine in a state its command allows; a save is never   *)
(* cancelled.                                                               *)
THEOREM BodyStateTheorem == Spec => []BodyState
<1>1. IInv => BodyState
  BY DEF IInv
<1>2. QED BY <1>1, InvariantHolds, PTL

(* After an interrupt in a body no command is admitted any more.            *)
THEOREM StrandedTheorem == Spec => []StrandedForGood
<1>1. IInv => StrandedForGood
  BY DEF IInv
<1>2. QED BY <1>1, InvariantHolds, PTL

(* The outcome of a command is the state it leaves, unless it is shut down. *)
THEOREM OutcomeTheorem == Spec => []OutcomeState
<1>1. IInv => OutcomeState
  BY DEF IInv
<1>2. QED BY <1>1, InvariantHolds, PTL

(* All of it together: commands are serialized, and each finds and leaves   *)
(* the engine as it should.                                                 *)
THEOREM CommandStatesTheorem == Spec => []CommandStates
<1>1. IInv => CommandStates
  BY DEF IInv, CommandStates
<1>2. QED BY <1>1, InvariantHolds, PTL

(* A faulted engine is left only by a recovery command or a shutdown.       *)
THEOREM RecoveryTheorem == Spec => RecoveryOnly
<1>1. ASSUME IInv, [Next]_vars, engineState = FAULTED, engineState' # FAULTED
      PROVE  \/ engineState' = SHUTTING_DOWN
             \/ \E t \in Thread : pc'[t] = "body" /\ IsRecovery(cmd[t])
  <2> USE <1>1 DEF IInv, TypeOK, FAULTED, EnterState
  <2>1. ASSUME NEW t \in Thread, CheckState(t)
        PROVE  pc'[t] = "body" /\ IsRecovery(cmd[t])
    BY <2>1 DEF CheckState, Admitted, AllowedStates, IsRecovery, IDLE
  <2>2. ASSUME NEW t \in Thread, BodyReturns(t) \/ BodyCancelled(t) PROVE FALSE
    BY <2>2, TargetStateValues DEF BodyReturns, BodyCancelled, BodyState,
       RunningCommand, SHUTTING_DOWN, CANCELLING, RECALCULATING, SAVING,
       LOADING
  <2>3. CASE RequestCancel
    BY <2>3 DEF RequestCancel, Cancellable, MUTATING, LOADING, RECALCULATING
  <2>4. CASE ShutdownWrite
    BY <2>4 DEF ShutdownWrite
  <2>5. ASSUME NEW t \in Thread, Denied(t) \/ BodyRaises(t)
                                \/ FaultAfterCancel(t) \/ Release(t)
                                \/ BodyInterrupted(t)
        PROVE  FALSE
    BY <2>5 DEF Denied, BodyRaises, FaultAfterCancel, Release, BodyInterrupted
  <2>6. ASSUME NEW t \in Thread, NEW c \in Command, Acquire(t, c)
        PROVE  FALSE
    BY <2>6 DEF Acquire
  <2>7. QED
    BY <2>1, <2>2, <2>3, <2>4, <2>5, <2>6
       DEF Next, ThreadStep, ShutdownPublish, vars
<1>2. QED BY <1>1, InvariantHolds, PTL DEF RecoveryOnly, Spec

(* The last published state is the engine's, or tells of a shutdown: no     *)
(* command and no cancel changes the state without its event, and the event *)
(* of a shutdown is the only one that can be late.                          *)
THEOREM ObserverTheorem == Spec => []ObserverAgrees
<1>1. Init => ObserverAgrees
  BY DEF Init, ObserverAgrees
<1>2. ASSUME ObserverAgrees, [Next]_vars PROVE ObserverAgrees'
  <2> USE <1>2 DEF ObserverAgrees, EnterState
  <2>1. ASSUME NEW t \in Thread, NEW c \in Command, Acquire(t, c)
        PROVE  ObserverAgrees'
    BY <2>1 DEF Acquire
  <2>2. ASSUME NEW t \in Thread, CheckState(t) PROVE ObserverAgrees'
    BY <2>2 DEF CheckState
  <2>3. ASSUME NEW t \in Thread, BodyReturns(t) \/ BodyRaises(t)
        PROVE  ObserverAgrees'
    BY <2>3 DEF BodyReturns, BodyRaises
  <2>4. ASSUME NEW t \in Thread, BodyCancelled(t) \/ FaultAfterCancel(t)
        PROVE  ObserverAgrees'
    BY <2>4 DEF BodyCancelled, FaultAfterCancel
  <2>5. ASSUME NEW t \in Thread, Denied(t) \/ Release(t) \/ BodyInterrupted(t)
        PROVE  ObserverAgrees'
    BY <2>5 DEF Denied, Release, BodyInterrupted
  <2>6. CASE RequestCancel
    BY <2>6 DEF RequestCancel
  <2>7. CASE ShutdownWrite \/ ShutdownPublish
    BY <2>7 DEF ShutdownWrite, ShutdownPublish
  <2>8. CASE UNCHANGED vars
    BY <2>8 DEF vars
  <2>9. QED
    BY <2>1, <2>2, <2>3, <2>4, <2>5, <2>6, <2>7, <2>8 DEF Next, ThreadStep
<1>3. QED BY <1>1, <1>2, PTL DEF Spec
=============================================================================
