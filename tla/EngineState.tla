----------------------------- MODULE EngineState -----------------------------
(***************************************************************************)
(* The engine lifecycle state machine of lib_openm/engine_state.py and the *)
(* three commands that run through it (lib_command/commands/system.py).    *)
(*                                                                         *)
(* Threads call execute_serialized_command; the GUI or another session     *)
(* calls request_cancel; the host calls shutdown; and Control-C raises     *)
(* KeyboardInterrupt in the main thread of a host that leaves SIGINT to    *)
(* Python (the REPL).  The machine has two locks: the mutation lock, held  *)
(* for the whole command and taken without blocking, and the state lock,   *)
(* held for one read or write of the state.  A step of this module is a    *)
(* maximal piece of code that runs under the state lock, so the state lock *)
(* needs no variable.                                                      *)
(***************************************************************************)

CONSTANTS
  Thread,             (* threads that run commands                          *)
  Interruptible,      (* those that KeyboardInterrupt reaches               *)
  NoThread,           (* owner of a mutation lock that is free              *)
  CanRaiseCancelled   (* the commands whose body may raise                  *)
                      (* CalculationCancelledError                          *)

IDLE          == "idle"
MUTATING      == "mutating"
LOADING       == "loading"
RECALCULATING == "recalculating"
CANCELLING    == "cancelling"
SAVING        == "saving"
FAULTED       == "faulted"
SHUTTING_DOWN == "shutting_down"

EngineStates == {IDLE, MUTATING, LOADING, RECALCULATING, CANCELLING, SAVING,
                 FAULTED, SHUTTING_DOWN}

Command == {"run_recalculation", "save_workspace", "load_workspace"}

ASSUME ThreadAssumption == NoThread \notin Thread /\ Interruptible \subseteq Thread
ASSUME CommandAssumption == CanRaiseCancelled \subseteq Command

(* The arguments the three commands pass; each ends in next_state = IDLE.   *)
AllowedStates(c) == IF c = "save_workspace" THEN {IDLE} ELSE {IDLE, FAULTED}
IsRecovery(c)    == c # "save_workspace"
TargetState == [c \in Command |->
                  CASE c = "run_recalculation" -> RECALCULATING
                    [] c = "save_workspace"    -> SAVING
                    [] c = "load_workspace"    -> LOADING]

(* States from which request_cancel is accepted.                            *)
Cancellable == {MUTATING, LOADING, RECALCULATING}

VARIABLES
  engineState,      (* _engine_state                                        *)
  published,        (* new_state of the last engine.state_changed event     *)
  cancelRequested,  (* _cancel_requested                                    *)
  mutationLock,     (* owner of _mutation_lock                              *)
  pc,               (* where each thread is in execute_serialized_command   *)
  cmd,              (* the command it runs, or ran last                     *)
  reply,            (* what its last call returned or raised                *)
  shutdownPc,       (* shutdown: "none", or "publish" after its write       *)
  stranded          (* an interrupt has ended a command that had not yet    *)
                    (* stored its outcome (history variable)                *)

vars == <<engineState, published, cancelRequested, mutationLock, pc, cmd,
          reply, shutdownPc, stranded>>

PcStates == {"idle", "denied", "check", "body", "cancelled", "finally"}
Replies  == {"none", "ok", "busy", "faulted", "shutting_down", "raised",
              "interrupted"}

TypeOK ==
  /\ engineState \in EngineStates
  /\ published \in EngineStates
  /\ cancelRequested \in BOOLEAN
  /\ mutationLock \in Thread \cup {NoThread}
  /\ pc \in [Thread -> PcStates]
  /\ cmd \in [Thread -> Command \cup {"none"}]
  /\ reply \in [Thread -> Replies]
  /\ shutdownPc \in {"none", "publish"}
  /\ stranded \in BOOLEAN

Init ==
  /\ engineState = IDLE
  /\ published = IDLE
  /\ cancelRequested = FALSE
  /\ mutationLock = NoThread
  /\ pc = [t \in Thread |-> "idle"]
  /\ cmd = [t \in Thread |-> "none"]
  /\ reply = [t \in Thread |-> "none"]
  /\ shutdownPc = "none"
  /\ stranded = FALSE

-----------------------------------------------------------------------------

(* Fault: the state is written and its event forgotten.                     *)
EnterStateUnpublished(s) == engineState' = s /\ UNCHANGED published

(* _enter_state: the write and its event happen under the state lock, and   *)
(* entering the state the machine is in publishes nothing.                  *)
EnterState(s) ==
  /\ engineState' = s
  /\ published' = IF s = engineState THEN published ELSE s

(* Fault: the rejection carries the state and not its class.                *)
RejectionIsState(s) == s

(* The exception class that tells a caller why the state turned it away.    *)
Rejection(s) ==
  IF s = FAULTED THEN "faulted"
  ELSE IF s = SHUTTING_DOWN THEN "shutting_down"
  ELSE "busy"

(* The mutation lock is acquired with blocking=False.                       *)
Acquire(t, c) ==
  /\ pc[t] = "idle"
  /\ cmd' = [cmd EXCEPT ![t] = c]
  /\ reply' = [reply EXCEPT ![t] = "none"]
  /\ \/ /\ mutationLock = NoThread
        /\ mutationLock' = t
        /\ pc' = [pc EXCEPT ![t] = "check"]
     \/ /\ mutationLock # NoThread
        /\ pc' = [pc EXCEPT ![t] = "denied"]
        /\ UNCHANGED mutationLock
  /\ UNCHANGED <<engineState, published, cancelRequested, shutdownPc, stranded>>

(* Fault: the caller waits for the lock where it should be turned away.     *)
DeniedWaits(t) ==
  /\ pc[t] = "denied"
  /\ mutationLock = NoThread
  /\ mutationLock' = t
  /\ pc' = [pc EXCEPT ![t] = "check"]
  /\ UNCHANGED <<engineState, published, cancelRequested, cmd, reply,
                 shutdownPc, stranded>>

(* The lock was held: the state is read later, in a step of its own, only   *)
(* to choose the exception.                                                 *)
Denied(t) ==
  /\ pc[t] = "denied"
  /\ reply' = [reply EXCEPT ![t] = Rejection(engineState)]
  /\ pc' = [pc EXCEPT ![t] = "idle"]
  /\ UNCHANGED <<engineState, published, cancelRequested, mutationLock, cmd,
                 shutdownPc, stranded>>

(* Fault: is_recovery is not looked at.                                     *)
AdmittedWhenFaulted(c, s) == s \in AllowedStates(c) \/ s = FAULTED

Admitted(c, s) == s \in AllowedStates(c) \/ (s = FAULTED /\ IsRecovery(c))

CheckState(t) ==
  /\ pc[t] = "check"
  /\ \/ /\ Admitted(cmd[t], engineState)
        /\ EnterState(TargetState[cmd[t]])
        /\ pc' = [pc EXCEPT ![t] = "body"]
        /\ UNCHANGED reply
     \/ /\ ~Admitted(cmd[t], engineState)
        /\ reply' = [reply EXCEPT ![t] = Rejection(engineState)]
        /\ pc' = [pc EXCEPT ![t] = "finally"]
        /\ UNCHANGED <<engineState, published>>
  /\ UNCHANGED <<cancelRequested, mutationLock, cmd, shutdownPc, stranded>>

(* The body returns and next_state is entered.  No body reads the state     *)
(* machine's cancel flag, so it may return although a cancel was accepted.  *)
BodyReturns(t) ==
  /\ pc[t] = "body"
  /\ EnterState(IDLE)
  /\ reply' = [reply EXCEPT ![t] = "ok"]
  /\ pc' = [pc EXCEPT ![t] = "finally"]
  /\ UNCHANGED <<cancelRequested, mutationLock, cmd, shutdownPc, stranded>>

BodyRaises(t) ==
  /\ pc[t] = "body"
  /\ EnterState(FAULTED)
  /\ reply' = [reply EXCEPT ![t] = "raised"]
  /\ pc' = [pc EXCEPT ![t] = "finally"]
  /\ UNCHANGED <<cancelRequested, mutationLock, cmd, shutdownPc, stranded>>

(* CalculationCancelledError: CANCELLING and FAULTED are entered one after  *)
(* the other, and the state lock is free between them.                      *)
BodyCancelled(t) ==
  /\ pc[t] = "body"
  /\ cmd[t] \in CanRaiseCancelled
  /\ EnterState(CANCELLING)
  /\ pc' = [pc EXCEPT ![t] = "cancelled"]
  /\ UNCHANGED <<cancelRequested, mutationLock, cmd, reply, shutdownPc, stranded>>

(* Fault: a cancelled command is taken for a finished one.                  *)
IdleAfterCancel(t) ==
  /\ pc[t] = "cancelled"
  /\ EnterState(IDLE)
  /\ reply' = [reply EXCEPT ![t] = "raised"]
  /\ pc' = [pc EXCEPT ![t] = "finally"]
  /\ UNCHANGED <<cancelRequested, mutationLock, cmd, shutdownPc, stranded>>

FaultAfterCancel(t) ==
  /\ pc[t] = "cancelled"
  /\ EnterState(FAULTED)
  /\ reply' = [reply EXCEPT ![t] = "raised"]
  /\ pc' = [pc EXCEPT ![t] = "finally"]
  /\ UNCHANGED <<cancelRequested, mutationLock, cmd, shutdownPc, stranded>>

(* KeyboardInterrupt passes both except clauses, or ends the first of them  *)
(* between its two states: the engine stays in the state it is in, and the  *)
(* session that called goes on (executor.py:328).                           *)
BodyInterrupted(t) ==
  /\ pc[t] \in {"body", "cancelled"}
  /\ t \in Interruptible
  /\ reply' = [reply EXCEPT ![t] = "interrupted"]
  /\ pc' = [pc EXCEPT ![t] = "finally"]
  /\ stranded' = TRUE
  /\ UNCHANGED <<engineState, published, cancelRequested, mutationLock, cmd,
                 shutdownPc>>

Release(t) ==
  /\ pc[t] = "finally"
  /\ mutationLock' = NoThread
  /\ pc' = [pc EXCEPT ![t] = "idle"]
  /\ UNCHANGED <<engineState, published, cancelRequested, cmd, reply,
                 shutdownPc, stranded>>

(* From any state outside Cancellable the call returns or raises and        *)
(* changes nothing.                                                         *)
RequestCancel ==
  /\ engineState \in Cancellable
  /\ cancelRequested' = TRUE
  /\ EnterState(CANCELLING)
  /\ UNCHANGED <<mutationLock, pc, cmd, reply, shutdownPc, stranded>>

(* shutdown takes neither the mutation lock nor, for its event, the state   *)
(* lock.                                                                    *)
ShutdownWrite ==
  /\ shutdownPc = "none"
  /\ engineState # SHUTTING_DOWN
  /\ engineState' = SHUTTING_DOWN
  /\ shutdownPc' = "publish"
  /\ UNCHANGED <<published, cancelRequested, mutationLock, pc, cmd, reply,
                 stranded>>

ShutdownPublish ==
  /\ shutdownPc = "publish"
  /\ published' = SHUTTING_DOWN
  /\ shutdownPc' = "none"
  /\ UNCHANGED <<engineState, cancelRequested, mutationLock, pc, cmd, reply,
                 stranded>>

ThreadStep(t) ==
  \/ Denied(t)
  \/ CheckState(t)
  \/ BodyReturns(t)
  \/ BodyRaises(t)
  \/ BodyCancelled(t)
  \/ FaultAfterCancel(t)
  \/ Release(t)

Next ==
  \/ \E t \in Thread :
       (\E c \in Command : Acquire(t, c)) \/ ThreadStep(t) \/ BodyInterrupted(t)
  \/ RequestCancel
  \/ ShutdownWrite
  \/ ShutdownPublish

Spec == Init /\ [][Next]_vars

(* A thread inside the call keeps running; new commands, cancels, shutdowns *)
(* and interrupts need never come.  A body is assumed to end.               *)
FairSpec ==
  /\ Spec
  /\ \A t \in Thread : WF_vars(ThreadStep(t))
  /\ WF_vars(ShutdownPublish)

-----------------------------------------------------------------------------

InCommand(t) == pc[t] \in {"check", "body", "cancelled", "finally"}

(* The engine is in a transient state only while some thread holds the      *)
(* mutation lock and will still move it on: nobody ever finds the engine in *)
(* LOADING, SAVING, RECALCULATING or CANCELLING with no command running     *)
(* (engine_state.py, the finally clause and both except clauses), except    *)
(* after a KeyboardInterrupt in a body, which neither clause catches.       *)
SettledWhenFree ==
  mutationLock = NoThread /\ ~stranded =>
    engineState \in {IDLE, FAULTED, SHUTTING_DOWN}

(* After such an interrupt the engine never settles: every later command is *)
(* turned away, recovery commands as well, and no body runs again.          *)
StrandedForGood ==
  stranded => /\ engineState \notin {IDLE, FAULTED}
              /\ \A t \in Thread : pc[t] \notin {"body", "cancelled"}

(* What a running body may find the engine in: the state its command        *)
(* entered, CANCELLING if that state accepts a cancel, or SHUTTING_DOWN.    *)
(* In particular a save is never marked as cancelling, although             *)
(* request_cancel runs at any moment without the mutation lock.             *)
BodyState ==
  \A t \in Thread : pc[t] = "body" =>
    \/ engineState \in {TargetState[cmd[t]], SHUTTING_DOWN}
    \/ engineState = CANCELLING /\ TargetState[cmd[t]] \in Cancellable

(* Before its lock is released the outcome of a command is the state of     *)
(* the engine, unless the host shut it down: no other thread can slip a     *)
(* state in between, and a late cancel is refused.                          *)
OutcomeState ==
  \A t \in Thread : pc[t] = "finally" =>
    /\ reply[t] = "ok" => engineState \in {IDLE, SHUTTING_DOWN}
    /\ reply[t] = "raised" => engineState \in {FAULTED, SHUTTING_DOWN}

(* One command at a time holds the mutation lock, from its admission check  *)
(* to its finally clause.                                                   *)
Serialized ==
  \A t \in Thread : InCommand(t) <=> mutationLock = t

(* One command at a time, in a state its command allows, and nothing        *)
(* transient left behind but by an interrupt, which ends all commands       *)
(* (execute_serialized_command).                                            *)
CommandStates ==
  Serialized /\ SettledWhenFree /\ StrandedForGood /\ BodyState /\ OutcomeState

(* An observer of engine.state_changed that keeps the last new_state is     *)
(* wrong about the engine in one case only: shutdown publishes after its    *)
(* write, so a command that ends in between makes the observer believe in a *)
(* shutdown that the command has already undone.                            *)
ObserverAgrees ==
  shutdownPc = "none" => published \in {engineState, SHUTTING_DOWN}

(* A faulted engine goes back to work only through a recovery command       *)
(* (recalculation or load), never through a save.                           *)
RecoveryOnly ==
  [][engineState = FAULTED /\ engineState' # FAULTED =>
       \/ engineState' = SHUTTING_DOWN
       \/ \E t \in Thread : pc'[t] = "body" /\ IsRecovery(cmd[t])]_vars

(* Every command that was called returns or raises, interrupted or not; and *)
(* an engine that is cancelling does not stay so, unless an interrupt has   *)
(* ended the command that was cancelled.                                    *)
CommandsReturn ==
  \A t \in Thread : pc[t] # "idle" ~> pc[t] = "idle"

CancellingEnds == engineState = CANCELLING ~> engineState # CANCELLING \/ stranded

CommandsEnd == CommandsReturn /\ CancellingEnds

-----------------------------------------------------------------------------

(* What the documentation says and the code does not do.                    *)

(* engine_state.py, shutdown: "Terminal state."                             *)
ShutdownTerminal ==
  [][engineState = SHUTTING_DOWN => engineState' = SHUTTING_DOWN]_vars

(* system.py, cmd_cancel_operation: "the active command raises              *)
(* CalculationCancelledError and the engine ends in FAULTED".               *)
CancelEndsFaulted ==
  [][engineState = CANCELLING /\ engineState' # CANCELLING
       => engineState' \in {FAULTED, SHUTTING_DOWN}]_vars

(* system.py, cmd_run_recalculation: "-> IDLE on success, or FAULTED on     *)
(* failure"; an interrupted command fails and leaves what it was doing.     *)
FailureFaults ==
  \A t \in Thread : pc[t] = "finally" /\ reply[t] = "interrupted" =>
    engineState \in {FAULTED, SHUTTING_DOWN}

(* engine_state.py, execute_serialized_command: EngineFaultedError is       *)
(* raised "if the engine is faulted and this is not a recovery command".    *)
FaultedReplyOnlyToOthers ==
  \A t \in Thread : reply[t] = "faulted" => ~IsRecovery(cmd[t])

=============================================================================
