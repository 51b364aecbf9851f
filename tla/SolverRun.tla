------------------------------- MODULE SolverRun -------------------------------
(***************************************************************************)
(* The run of one solver job, between a runner and a backend: the runner   *)
(* is a thread that evaluates candidates on the workspace                  *)
(* (lib_runtime/solver/solver_job.py), or one that starts a process for    *)
(* the backend and talks to it through pipes (subprocess_worker.py).  The  *)
(* backends are those of scipy and of pymoo; their optimizers are external *)
(* and may ask for any candidates.                                         *)
(*                                                                         *)
(* SolverService models what evaluations do to the workspace, and lets a   *)
(* backend end after any of them with any result.                          *)
(***************************************************************************)
EXTENDS Naturals, Sequences, FiniteSets

CONSTANTS
  Candidate,  (* the points of a problem;  one stands for its objectives    *)
  Initial,    (* the initial one                                            *)
  MaxEvals,   (* bound on what a backend asks for, as maxiter is            *)
  Zero,       (* objectives that nobody has measured                        *)
  None,       (* no point                                                   *)
  Settings    (* the settings a run looks at, sets of the following         *)

(* process: the backend has a process of its own;  population: pymoo, and   *)
(* not scipy;  cancel, deadline: the job is cancelled, its time is over;    *)
(* errors: evaluations that raise;  crash: the process ends at any time;    *)
(* hang: its optimizer may not go on.                                       *)
Possibilities == {"process", "population", "cancel", "deadline", "errors", "crash", "hang"}

ASSUME RunAssumption ==
  /\ Initial \in Candidate /\ {Zero, None} \cap Candidate = {} /\ Zero # None
  /\ MaxEvals \in Nat \ {0}
  /\ Settings \subseteq SUBSET Possibilities

VARIABLES
  setting,   (* the setting;  it does not change                            *)
  token,     (* the cancellation token of the runner                        *)
  expired,   (* whose deadline is over: the runner's, the backend's         *)
  toBackend, (* stdin of the process, or the return of an evaluation        *)
  toRunner,  (* its stdout, or the call of an evaluation                    *)
  runner,    (* what the runner does, and for which candidate               *)
  backend,   (* the backend                                                 *)
  measured,  (* the candidates that were evaluated on the workspace         *)
  outcome    (* the result or the error of the job                          *)

pipes == <<toBackend, toRunner>>
vars == <<setting, token, expired, pipes, runner, backend, measured, outcome>>

May(p) == p \in setting
Own == May("process")

Status == {"optimal", "cancelled", "timeout"}
Value == Candidate \cup {Zero}
Point == Candidate \cup {None}
Result == [type : {"result"}, status : Status, x : Point, objective : Value \cup {None}]
Error == [type : {"error"}]
Answer == [type : {"eval_result"}, of : Candidate] \cup [type : {"eval_error", "cancel"}]
Message == [type : {"evaluate"}, values : Candidate] \cup Result \cup Error

Runner == [at : {"top", "reading", "asked", "evaluating", "ended", "finished"}, x : Point]
Backend == [at : {"solving", "asking", "final", "confirming", "exited"},
            token : BOOLEAN, timedOut : BOOLEAN, asked : 0..MaxEvals, x : Point,
            lastX : Point, lastResult : Point, got : SUBSET (Candidate \X Value),
            status : Status, objective : Value, left : SUBSET {"objectives", "constraints"}]

Alive == backend.at # "exited"

TypeOK ==
  /\ setting \in Settings
  /\ token \in BOOLEAN /\ expired \subseteq {"runner", "backend"}
  /\ toBackend \in Seq(Answer) /\ toRunner \in Seq(Message)
  /\ runner \in Runner /\ backend \in Backend
  /\ measured \subseteq Candidate
  /\ IF runner.at \in {"ended", "finished"} THEN outcome \in Result \cup Error ELSE outcome = None
  /\ runner.at \in {"asked", "evaluating"} => runner.x \in Candidate
  /\ backend.at \in {"asking", "final", "confirming"} => backend.x \in Candidate

Init ==
  /\ setting \in Settings
  /\ token = FALSE /\ expired = {}
  /\ toBackend = <<>> /\ toRunner = <<>>
  /\ runner = [at |-> "top", x |-> None]
  /\ backend = [at |-> "solving", token |-> FALSE, timedOut |-> FALSE, asked |-> 0, x |-> None,
                lastX |-> None, lastResult |-> None, got |-> {},
                status |-> "optimal", objective |-> Zero, left |-> {}]
  /\ measured = {} /\ outcome = None

Cancel ==
  /\ May("cancel") /\ ~token /\ runner.at # "finished"
  /\ token' = TRUE
  /\ UNCHANGED <<setting, expired, pipes, runner, backend, measured, outcome>>

Expire(who) ==
  /\ May("deadline") /\ (who = "runner" => Own)
  /\ who \notin expired
  /\ expired' = expired \cup {who}
  /\ UNCHANGED <<setting, token, pipes, runner, backend, measured, outcome>>

-----------------------------------------------------------------------------
(* The runner.                                                              *)

CancelMessage == [type |-> "cancel"]

(* What the process gets when it has not ended.                             *)
Sent(answers) == IF Alive THEN toBackend \o answers ELSE toBackend

(* The head of _ipc_loop: a process is told to stop, once for each reason,  *)
(* and before each message that is read.                                    *)
Top ==
  /\ runner.at = "top"
  /\ LET late == "runner" \in expired
         told == (IF token THEN <<CancelMessage>> ELSE <<>>)
                   \o (IF late THEN <<CancelMessage>> ELSE <<>>)
     IN  IF Own THEN toBackend' = Sent(told) /\ token' = (token \/ (late /\ Alive))
         ELSE UNCHANGED <<toBackend, token>>
  /\ runner' = [runner EXCEPT !.at = "reading"]
  /\ UNCHANGED <<setting, expired, toRunner, backend, measured, outcome>>

Ends(how) == outcome' = how /\ runner' = [at |-> "ended", x |-> None]

(* readline, which waits for a line ...                                     *)
Read ==
  /\ runner.at = "reading" /\ toRunner # <<>>
  /\ toRunner' = Tail(toRunner)
  /\ LET message == Head(toRunner)
     IN  IF message.type = "evaluate"
         THEN runner' = [at |-> "asked", x |-> message.values] /\ UNCHANGED outcome
         ELSE Ends(message)
  /\ UNCHANGED <<setting, token, expired, toBackend, backend, measured>>

(* Fault: the end of the output is read again and again.                    *)
ReadAgain ==
  /\ runner.at = "reading" /\ toRunner = <<>> /\ ~Alive
  /\ runner' = [runner EXCEPT !.at = "top"]
  /\ UNCHANGED <<setting, token, expired, pipes, backend, measured, outcome>>

(* Fault: the job ends without an error.                                    *)
ReadEndSilent ==
  /\ runner.at = "reading" /\ toRunner = <<>> /\ ~Alive
  /\ runner' = [at |-> "ended", x |-> None]
  /\ UNCHANGED <<setting, token, expired, pipes, backend, measured, outcome>>

(* ... or for the end of the process.                                       *)
ReadEnd ==
  /\ runner.at = "reading" /\ toRunner = <<>> /\ ~Alive
  /\ Ends([type |-> "error"])
  /\ UNCHANGED <<setting, token, expired, pipes, backend, measured>>

(* Fault: a candidate is evaluated although the process was told to stop.   *)
DecideAlways ==
  /\ runner.at = "asked"
  /\ runner' = [runner EXCEPT !.at = "evaluating"]
  /\ UNCHANGED <<setting, token, expired, pipes, backend, measured, outcome>>

(* A cancelled job evaluates nothing any more.                              *)
Decide ==
  /\ runner.at = "asked"
  /\ IF Own /\ token
     THEN toBackend' = Sent(<<CancelMessage>>) /\ runner' = [at |-> "top", x |-> None]
     ELSE runner' = [runner EXCEPT !.at = "evaluating"] /\ UNCHANGED toBackend
  /\ UNCHANGED <<setting, token, expired, toRunner, backend, measured, outcome>>

(* evaluate_candidate, and its answer, which a process that has ended does  *)
(* not get.                                                                 *)
Evaluate ==
  /\ runner.at = "evaluating"
  /\ \E failed \in IF May("errors") THEN BOOLEAN ELSE {FALSE} :
       /\ measured' = IF failed THEN measured ELSE measured \cup {runner.x}
       /\ IF Alive
          THEN /\ toBackend' = Append(toBackend,
                    IF failed THEN [type |-> "eval_error"]
                    ELSE [type |-> "eval_result", of |-> runner.x])
               /\ runner' = [at |-> "top", x |-> None] /\ UNCHANGED outcome
          ELSE Ends([type |-> "error"]) /\ UNCHANGED toBackend
  /\ UNCHANGED <<setting, token, expired, toRunner, backend>>

(* The process is terminated, the session closed, the service notified.     *)
Finish ==
  /\ runner.at = "ended"
  /\ runner' = [runner EXCEPT !.at = "finished"]
  /\ backend' = [backend EXCEPT !.at = "exited"]
  /\ UNCHANGED <<setting, token, expired, pipes, measured, outcome>>

-----------------------------------------------------------------------------
(* The backend.                                                             *)

(* The token that the backend looks at is not that of the runner when it    *)
(* has a process of its own.                                                *)
Stopping == backend.token \/ (~Own /\ token)

Ask(c, at) ==
  /\ toRunner' = Append(toRunner, [type |-> "evaluate", values |-> c])
  /\ backend' = [backend EXCEPT !.at = at, !.x = c,
                   !.asked = IF at = "asking" THEN @ + 1 ELSE @]

(* A backend that has ended leaves its result or its error.                 *)
Leave(message) ==
  /\ toRunner' = Append(toRunner, message)
  /\ backend' = [backend EXCEPT !.at = "exited"]

Report(status, x, objective) ==
  [type |-> "result", status |-> status, x |-> x, objective |-> objective]

(* The optimizer wants the value of c (_evaluate).  Once the time is over   *)
(* or the job cancelled, scipy gets the last one again, or zeros, and pymoo *)
(* gets zeros.                                                              *)
Want(c) ==
  LET late == "backend" \in expired
      again == IF May("population") \/ backend.lastResult = None THEN Zero ELSE backend.lastResult
  IN  /\ backend.at = "solving" /\ backend.asked < MaxEvals
      /\ IF late \/ Stopping
         THEN /\ backend' = [backend EXCEPT
                   !.token = @ \/ late, !.asked = @ + 1, !.got = @ \cup {<<c, again>>},
                   !.timedOut = @ \/ (late /\ ~May("population"))]
              /\ UNCHANGED toRunner
         ELSE Ask(c, "asking")
      /\ UNCHANGED <<setting, token, expired, toBackend, runner, measured, outcome>>

(* StopIteration: scipy reports the last candidate; pymoo lets the          *)
(* exception through, and the process reports nothing but "cancelled".      *)
Stopped ==
  IF May("population") THEN Report("cancelled", None, None)
  ELSE Report(IF backend.timedOut THEN "timeout" ELSE "cancelled",
              IF backend.lastX = None THEN Initial ELSE backend.lastX,
              IF backend.lastResult = None THEN Zero ELSE backend.lastResult)

(* Another exception.                                                       *)
Raised ==
  IF May("population") /\ Stopping
  THEN Report(IF "backend" \in expired THEN "timeout" ELSE "cancelled", None, None)
  ELSE [type |-> "error"]

(* Fault: the last candidate is set before its evaluation, the last result  *)
(* after it.                                                                *)
AnsweredEarly ==
  LET answer == Head(toBackend)
      early == [backend EXCEPT !.lastX = backend.x]
      stopped == IF May("population") THEN Stopped
                 ELSE Report("cancelled", early.lastX,
                             IF backend.lastResult = None THEN Zero ELSE backend.lastResult)
  IN  /\ backend.at = "asking" /\ toBackend # <<>>
      /\ toBackend' = Tail(toBackend)
      /\ CASE answer.type = "eval_result" ->
                /\ backend' = [early EXCEPT !.at = "solving", !.lastResult = answer.of,
                                 !.got = @ \cup {<<backend.x, answer.of>>}]
                /\ UNCHANGED toRunner
           [] answer.type = "cancel" -> Leave(stopped)
           [] answer.type = "eval_error" -> Leave(Raised)
      /\ UNCHANGED <<setting, token, expired, runner, measured, outcome>>

(* The answer, which is read from stdin and taken for that of the candidate *)
(* just asked for.                                                          *)
Answered ==
  LET answer == Head(toBackend)
  IN  /\ backend.at = "asking" /\ toBackend # <<>>
      /\ toBackend' = Tail(toBackend)
      /\ CASE answer.type = "eval_result" ->
                /\ backend' = [backend EXCEPT !.at = "solving", !.lastX = backend.x,
                                 !.lastResult = answer.of,
                                 !.got = @ \cup {<<backend.x, answer.of>>}]
                /\ UNCHANGED toRunner
           [] answer.type = "cancel" -> Leave(Stopped)
           [] answer.type = "eval_error" -> Leave(Raised)
      /\ UNCHANGED <<setting, token, expired, runner, measured, outcome>>

(* The callback of scipy.                                                   *)
Callback ==
  /\ ~May("population") /\ backend.at = "solving" /\ Stopping
  /\ Leave(Stopped)
  /\ UNCHANGED <<setting, token, expired, toBackend, runner, measured, outcome>>

(* The optimizer of pymoo returns a point and the objectives it got, with a *)
(* verdict of its own, which "optimal" stands for.                          *)
Optimized ==
  /\ May("population") /\ backend.at = "solving"
  /\ \E p \in backend.got :
       Leave(Report(IF "backend" \in expired THEN "timeout" ELSE "optimal", p[1], p[2]))
  /\ UNCHANGED <<setting, token, expired, toBackend, runner, measured, outcome>>

(* The optimizer of scipy does, and the point is evaluated once more, for   *)
(* its objectives, and a second time if there are constraints.              *)
Minimized ==
  /\ ~May("population") /\ backend.at = "solving"
  /\ \E p \in backend.got, left \in {{"objectives"}, {"objectives", "constraints"}} :
       backend' = [backend EXCEPT
         !.at = "final", !.x = p[1], !.objective = p[2], !.left = left,
         !.status = IF backend.timedOut THEN "timeout" ELSE IF Stopping THEN "cancelled" ELSE "optimal"]
  /\ UNCHANGED <<setting, token, expired, pipes, runner, measured, outcome>>

Confirm ==
  /\ backend.at = "final" /\ backend.left # {}
  /\ Ask(backend.x, "confirming")
  /\ UNCHANGED <<setting, token, expired, toBackend, runner, measured, outcome>>

(* Any exception is swallowed, StopIteration too.                           *)
Confirmed ==
  LET answer == Head(toBackend)
      first == IF "objectives" \in backend.left THEN "objectives" ELSE "constraints"
  IN  /\ backend.at = "confirming" /\ toBackend # <<>>
      /\ toBackend' = Tail(toBackend)
      /\ backend' = [backend EXCEPT !.at = "final", !.left = @ \ {first},
           !.objective = IF answer.type = "eval_result" /\ first = "objectives"
                         THEN answer.of ELSE @]
      /\ UNCHANGED <<setting, token, expired, toRunner, runner, measured, outcome>>

Return ==
  /\ backend.at = "final" /\ backend.left = {}
  /\ Leave(Report(backend.status, backend.x, backend.objective))
  /\ UNCHANGED <<setting, token, expired, toBackend, runner, measured, outcome>>

(* The process ends without a word (external).                              *)
Crash ==
  /\ May("crash") /\ Own /\ Alive
  /\ backend' = [backend EXCEPT !.at = "exited"]
  /\ UNCHANGED <<setting, token, expired, pipes, runner, measured, outcome>>

-----------------------------------------------------------------------------
RunnerStep == Top \/ Read \/ ReadEnd \/ Decide \/ Evaluate \/ Finish

BackendStep ==
  \/ \E c \in Candidate : Want(c)
  \/ Answered \/ Callback \/ Optimized \/ Minimized \/ Confirm \/ Confirmed \/ Return

Over == runner.at = "finished" /\ UNCHANGED vars

Next ==
  \/ RunnerStep \/ BackendStep \/ Cancel \/ Crash \/ Over
  \/ \E who \in {"runner", "backend"} : Expire(who)

(* The runner is a thread that runs; the optimizer ends within its limits.  *)
Spec ==
  /\ Init /\ [][Next]_vars
  /\ WF_vars(RunnerStep)
  /\ WF_vars(BackendStep /\ ~May("hang"))

-----------------------------------------------------------------------------
(* Properties.                                                              *)

(* The answer that the backend reads next is to the candidate it has asked  *)
(* for, or tells it to stop: no message to stop that came between puts the  *)
(* answers out of step.                                                     *)
AnswersMatch ==
  /\ toBackend # <<>> /\ Head(toBackend).type = "eval_result" =>
       backend.at \notin {"asking", "confirming"} \/ Head(toBackend).of = backend.x
  /\ \A i, k \in DOMAIN toBackend :
       i < k /\ toBackend[i].type = "cancel" => toBackend[k].type = "cancel"

(* The objectives a job reports are those measured on the workspace for the *)
(* point it reports, even if the job was stopped between two evaluations,   *)
(* or one of the last evaluations failed.  Exceptions: nothing was          *)
(* evaluated at all;  or the job was stopped, and the optimizer has chosen  *)
(* among the answers that it gets from then on.                             *)
ReportedAsMeasured ==
  LET r == outcome
  IN  r # None /\ r \notin Error /\ r.x # None =>
        \/ r.x = r.objective /\ r.x \in measured
        \/ r.x = Initial /\ r.objective = Zero /\ measured = {}
        \/ (Stopping \/ "backend" \in expired) /\ <<r.x, r.objective>> \in backend.got

(* A job ends, whether its process answers, fails or ends, and whether it   *)
(* is cancelled or not, as long as its optimizer goes on.                   *)
JobEnds == <>(runner.at = "finished")

================================================================================
