---------------------------- MODULE SolverRun_proofs ----------------------------
(***************************************************************************)
(* Proofs about SolverRun, for any candidates, any number of evaluations   *)
(* and every setting.                                                      *)
(***************************************************************************)
EXTENDS SolverRun, SequenceTheorems, TLAPS

LEMMA Messages ==
  /\ CancelMessage \in Answer
  /\ [type |-> "eval_error"] \in Answer
  /\ \A c \in Candidate : [type |-> "eval_result", of |-> c] \in Answer
  /\ \A c \in Candidate : [type |-> "evaluate", values |-> c] \in Message
  /\ [type |-> "error"] \in Error
  /\ \A s \in Status, x \in Point, o \in Value \cup {None} : Report(s, x, o) \in Result
  /\ Result \subseteq Message /\ Error \subseteq Message
BY DEF CancelMessage, Answer, Message, Error, Report, Result

LEMMA AnswerCases ==
  ASSUME NEW a \in Answer
  PROVE  /\ a.type \in {"eval_result", "eval_error", "cancel"}
         /\ a.type = "eval_result" => a.of \in Candidate
BY DEF Answer

LEMMA MessageCases ==
  ASSUME NEW m \in Message
  PROVE  IF m.type = "evaluate" THEN m.values \in Candidate ELSE m \in Result \cup Error
BY DEF Message, Result, Error

LEMMA StoppedTypes ==
  ASSUME backend \in Backend
  PROVE  Stopped \in Result /\ Raised \in Result \cup Error
<1>1. /\ backend.lastX \in Point /\ backend.lastResult \in Point
  BY DEF Backend
<1>2. Initial \in Point /\ None \in Point /\ Zero \in Value BY RunAssumption DEF Point, Value
<1>3. (IF backend.lastX = None THEN Initial ELSE backend.lastX) \in Point BY <1>1, <1>2
<1>4. (IF backend.lastResult = None THEN Zero ELSE backend.lastResult) \in Value
  BY <1>1, <1>2 DEF Point, Value
<1>5. {"cancelled", "timeout"} \subseteq Status BY DEF Status
<1> QED BY <1>2, <1>3, <1>4, <1>5, Messages DEF Stopped, Raised

LEMMA InitType == ASSUME Init PROVE TypeOK
<1>1. Initial \in Candidate BY RunAssumption
<1>2. 0 \in 0..MaxEvals BY RunAssumption
<1>3. backend \in Backend
  BY <1>1, <1>2 DEF Init, Backend, Point, Value, Status
<1>4. runner \in Runner BY DEF Init, Runner, Point
<1>5. toBackend \in Seq(Answer) /\ toRunner \in Seq(Message) BY EmptySeq DEF Init
<1> QED BY <1>3, <1>4, <1>5 DEF Init, TypeOK

(* The messages that Top sends to a process.                                *)
Told ==
  (IF token THEN <<CancelMessage>> ELSE <<>>)
    \o (IF "runner" \in expired THEN <<CancelMessage>> ELSE <<>>)

LEMMA ToldProperties ==
  /\ Told \in Seq(Answer)
  /\ \A i \in DOMAIN Told : Told[i].type = "cancel"
  /\ Told # <<>> => token \/ "runner" \in expired
<1>1. <<>> \in Seq(Answer) /\ <<CancelMessage>> \in Seq(Answer) BY Messages
<1>2. \A i \in DOMAIN <<CancelMessage>> : <<CancelMessage>>[i].type = "cancel"
  BY DEF CancelMessage
<1>3. Told \in {<<>> \o <<>>, <<CancelMessage>> \o <<>>, <<>> \o <<CancelMessage>>,
                <<CancelMessage>> \o <<CancelMessage>>} BY DEF Told
<1>4. Told \in Seq(Answer) BY <1>1, ConcatProperties DEF Told
<1>5. ASSUME NEW s \in {<<>>, <<CancelMessage>>}, NEW t \in {<<>>, <<CancelMessage>>},
             NEW i \in DOMAIN (s \o t)
      PROVE  (s \o t)[i].type = "cancel"
  <2>1. s \in Seq(Answer) /\ t \in Seq(Answer) BY <1>1
  <2>2. (s \o t)[i] = IF i <= Len(s) THEN s[i] ELSE t[i - Len(s)]
    BY <2>1, ConcatProperties, LenProperties
  <2>3. i \in 1..Len(s) + Len(t) BY <2>1, ConcatProperties, LenProperties
  <2>4. (s \o t)[i] = CancelMessage BY <2>2, <2>3
  <2> QED BY <2>4 DEF CancelMessage
<1>6. ~token /\ "runner" \notin expired => Told = <<>>
  BY <1>1, ConcatEmptySeq DEF Told
<1> QED BY <1>4, <1>5, <1>6 DEF Told

LEMMA SentType ==
  ASSUME toBackend \in Seq(Answer), NEW answers \in Seq(Answer)
  PROVE  Sent(answers) \in Seq(Answer)
BY ConcatProperties DEF Sent

LEMMA RunnerType ==
  ASSUME TypeOK, RunnerStep
  PROVE  TypeOK'
<1> USE DEF TypeOK
<1>1. CASE Top
  <2>1. toBackend' \in Seq(Answer)
    BY <1>1, ToldProperties, SentType DEF Top, Told
  <2>2. runner' \in Runner /\ runner'.at = "reading" /\ token' \in BOOLEAN
    BY <1>1 DEF Top, Runner
  <2>3. runner.at = "top" BY <1>1 DEF Top
  <2> QED BY <1>1, <2>1, <2>2, <2>3 DEF Top
<1>2. CASE Read
  <2>1. Head(toRunner) \in Message /\ toRunner' \in Seq(Message)
    BY <1>2, HeadTailProperties DEF Read
  <2>2. CASE Head(toRunner).type = "evaluate"
    <3>1. Head(toRunner).values \in Candidate BY <2>1, <2>2, MessageCases
    <3>2. runner' = [at |-> "asked", x |-> Head(toRunner).values] /\ outcome' = outcome
      BY <1>2, <2>2 DEF Read
    <3>3. runner.at = "reading" BY <1>2 DEF Read
    <3> QED BY <1>2, <2>1, <3>1, <3>2, <3>3 DEF Read, Runner, Point
  <2>3. CASE Head(toRunner).type # "evaluate"
    <3>1. Head(toRunner) \in Result \cup Error BY <2>1, <2>3, MessageCases
    <3>2. runner' = [at |-> "ended", x |-> None] /\ outcome' = Head(toRunner)
      BY <1>2, <2>3 DEF Read, Ends
    <3> QED BY <1>2, <2>1, <3>1, <3>2 DEF Read, Runner, Point
  <2> QED BY <2>2, <2>3
<1>3. CASE ReadEnd
  BY <1>3, Messages DEF ReadEnd, Ends, Runner, Point, pipes
<1>4. CASE Decide
  <2>1. <<CancelMessage>> \in Seq(Answer) BY Messages
  <2>2. toBackend' \in Seq(Answer) BY <1>4, <2>1, SentType DEF Decide
  <2> QED BY <1>4, <2>2 DEF Decide, Runner, Point
<1>5. CASE Evaluate
  <2>1. runner.x \in Candidate BY <1>5 DEF Evaluate
  <2>2. measured' \subseteq Candidate BY <1>5, <2>1 DEF Evaluate
  <2>3. CASE Alive
    <3>1. toBackend' \in Seq(Answer)
      <4>1. PICK a \in Answer : toBackend' = Append(toBackend, a)
        BY <1>5, <2>1, <2>3, Messages DEF Evaluate
      <4> QED BY <4>1
    <3> QED BY <1>5, <2>2, <2>3, <3>1 DEF Evaluate, Runner, Point
  <2>4. CASE ~Alive
    BY <1>5, <2>2, <2>4, Messages DEF Evaluate, Ends, Runner, Point
  <2> QED BY <2>3, <2>4
<1>6. CASE Finish
  BY <1>6 DEF Finish, Runner, Backend, pipes
<1> QED BY <1>1, <1>2, <1>3, <1>4, <1>5, <1>6 DEF RunnerStep

-----------------------------------------------------------------------------
(* The backend.                                                             *)

LEMMA AppendMessage ==
  ASSUME TypeOK, NEW m \in Message
  PROVE  Append(toRunner, m) \in Seq(Message)
BY DEF TypeOK

(* A backend that leaves, whatever it says last.                            *)
LEMMA LeaveType ==
  ASSUME TypeOK, NEW m \in Result \cup Error, Leave(m), toBackend' \in Seq(Answer),
         UNCHANGED <<setting, token, expired, runner, measured, outcome>>
  PROVE  TypeOK'
<1>1. m \in Message BY DEF Message
<1>2. toRunner' \in Seq(Message) BY <1>1, AppendMessage DEF Leave
<1>3. backend' \in Backend /\ backend'.at = "exited" BY DEF Leave, Backend, TypeOK
<1> QED BY <1>2, <1>3 DEF TypeOK

(* A backend that asks for a candidate.                                     *)
LEMMA AskType ==
  ASSUME TypeOK, NEW c \in Candidate, NEW at \in {"asking", "confirming"}, Ask(c, at),
         at = "asking" => backend.asked < MaxEvals,
         UNCHANGED <<setting, token, expired, toBackend, runner, measured, outcome>>
  PROVE  TypeOK'
<1>1. toRunner' \in Seq(Message) BY Messages, AppendMessage DEF Ask
<1>2. (IF at = "asking" THEN backend.asked + 1 ELSE backend.asked) \in 0..MaxEvals
  BY RunAssumption DEF TypeOK, Backend
<1>3. backend' = [backend EXCEPT !.at = at, !.x = c,
                    !.asked = IF at = "asking" THEN backend.asked + 1 ELSE backend.asked]
  BY DEF Ask
<1>4. backend' \in Backend /\ backend'.x \in Candidate
  BY <1>2, <1>3 DEF TypeOK, Backend, Point
<1> QED BY <1>1, <1>4 DEF TypeOK

LEMMA WantType ==
  ASSUME TypeOK, NEW c \in Candidate, Want(c)
  PROVE  TypeOK'
<1> DEFINE late == "backend" \in expired
           again == IF May("population") \/ backend.lastResult = None THEN Zero
                    ELSE backend.lastResult
<1>1. CASE late \/ Stopping
  <2>1. again \in Value BY DEF TypeOK, Backend, Value, Point
  <2>2. backend.asked + 1 \in 0..MaxEvals BY <1>1, RunAssumption DEF Want, TypeOK, Backend
  <2>3. backend.got \cup {<<c, again>>} \in SUBSET (Candidate \X Value)
    BY <2>1 DEF TypeOK, Backend
  <2>4. backend' = [backend EXCEPT
          !.token = backend.token \/ late, !.asked = backend.asked + 1,
          !.got = backend.got \cup {<<c, again>>},
          !.timedOut = backend.timedOut \/ (late /\ ~May("population"))]
    BY <1>1 DEF Want
  <2> HIDE DEF again
  <2>5. backend' \in Backend /\ backend'.at = "solving"
    BY <2>2, <2>3, <2>4 DEF TypeOK, Backend, Want
  <2> QED BY <1>1, <2>5 DEF Want, TypeOK
<1>2. CASE ~(late \/ Stopping)
  <2>1. Ask(c, "asking") /\ backend.asked < MaxEvals BY <1>2 DEF Want
  <2> QED BY <2>1, AskType DEF Want
<1> QED BY <1>1, <1>2

LEMMA AnsweredType ==
  ASSUME TypeOK, Answered
  PROVE  TypeOK'
<1> DEFINE answer == Head(toBackend)
<1>1. answer \in Answer /\ toBackend' \in Seq(Answer)
  BY HeadTailProperties DEF Answered, TypeOK
<1>2. backend.x \in Candidate BY DEF Answered, TypeOK
<1>3. CASE answer.type = "eval_result"
  <2>1. answer.of \in Candidate BY <1>1, <1>3, AnswerCases
  <2>2. /\ backend' = [backend EXCEPT !.at = "solving", !.lastX = backend.x,
                         !.lastResult = answer.of,
                         !.got = backend.got \cup {<<backend.x, answer.of>>}]
        /\ UNCHANGED toRunner
    BY <1>3 DEF Answered
  <2> DEFINE got == backend.got \cup {<<backend.x, answer.of>>}
  <2>a. /\ got \in SUBSET (Candidate \X Value)
        /\ answer.of \in Point /\ backend.x \in Point
    BY <1>2, <2>1 DEF TypeOK, Backend, Value, Point
  <2> HIDE DEF answer, got
  <2>3. backend' \in Backend /\ backend'.at = "solving"
    BY <2>a, <2>2 DEF TypeOK, Backend, got
  <2> QED BY <1>1, <2>2, <2>3 DEF Answered, TypeOK
<1>4. CASE answer.type = "cancel"
  <2>1. Leave(Stopped) BY <1>4 DEF Answered
  <2>2. Stopped \in Result BY StoppedTypes DEF TypeOK
  <2> QED BY <1>1, <2>1, <2>2, LeaveType DEF Answered
<1>5. CASE answer.type = "eval_error"
  <2>1. Leave(Raised) BY <1>5 DEF Answered
  <2>2. Raised \in Result \cup Error BY StoppedTypes DEF TypeOK
  <2> QED BY <1>1, <2>1, <2>2, LeaveType DEF Answered
<1> QED BY <1>1, <1>3, <1>4, <1>5, AnswerCases

LEMMA BackendType ==
  ASSUME TypeOK, BackendStep
  PROVE  TypeOK'
<1>1. ASSUME NEW c \in Candidate, Want(c) PROVE TypeOK' BY <1>1, WantType
<1>2. CASE Answered BY <1>2, AnsweredType
<1>3. CASE Callback
  <2>1. Stopped \in Result BY StoppedTypes DEF TypeOK
  <2> QED BY <1>3, <2>1, LeaveType DEF Callback, TypeOK
<1>4. CASE Optimized
  <2>1. PICK p \in backend.got :
          Leave(Report(IF "backend" \in expired THEN "timeout" ELSE "optimal", p[1], p[2]))
    BY <1>4 DEF Optimized
  <2>2. p[1] \in Point /\ p[2] \in Value BY DEF TypeOK, Backend, Point
  <2>3. (IF "backend" \in expired THEN "timeout" ELSE "optimal") \in Status BY DEF Status
  <2>4. Report(IF "backend" \in expired THEN "timeout" ELSE "optimal", p[1], p[2]) \in Result
    BY <2>2, <2>3, Messages
  <2> QED BY <1>4, <2>1, <2>4, LeaveType DEF Optimized, TypeOK
<1>5. CASE Minimized
  <2>1. PICK p \in backend.got, left \in SUBSET {"objectives", "constraints"} :
          backend' = [backend EXCEPT
            !.at = "final", !.x = p[1], !.objective = p[2], !.left = left,
            !.status = IF backend.timedOut THEN "timeout"
                       ELSE IF Stopping THEN "cancelled" ELSE "optimal"]
    BY <1>5 DEF Minimized
  <2>2. p[1] \in Candidate /\ p[2] \in Value BY DEF TypeOK, Backend
  <2>3. backend' \in Backend /\ backend'.x \in Candidate
    BY <2>1, <2>2 DEF TypeOK, Backend, Point, Status
  <2> QED BY <1>5, <2>3 DEF Minimized, TypeOK, pipes
<1>6. CASE Confirm
  <2>1. backend.x \in Candidate BY <1>6 DEF Confirm, TypeOK
  <2> QED BY <1>6, <2>1, AskType DEF Confirm
<1>7. CASE Confirmed
  <2> DEFINE answer == Head(toBackend)
             objective == IF answer.type = "eval_result" /\ "objectives" \in backend.left
                          THEN answer.of ELSE backend.objective
  <2>1. answer \in Answer /\ toBackend' \in Seq(Answer)
    BY <1>7, HeadTailProperties DEF Confirmed, TypeOK
  <2>2. objective \in Value BY <2>1, AnswerCases DEF TypeOK, Backend, Value
  <2>3. PICK first : backend' = [backend EXCEPT !.at = "final", !.left = backend.left \ {first},
                                   !.objective = objective]
    BY <1>7 DEF Confirmed
  <2> HIDE DEF objective
  <2>4. backend' \in Backend /\ backend'.x = backend.x
    BY <2>2, <2>3 DEF TypeOK, Backend
  <2> QED BY <1>7, <2>1, <2>4 DEF Confirmed, TypeOK
<1>8. CASE Return
  <2>1. backend.status \in Status /\ backend.x \in Point /\ backend.objective \in Value
    BY DEF TypeOK, Backend
  <2>2. Report(backend.status, backend.x, backend.objective) \in Result BY <2>1, Messages
  <2> QED BY <1>8, <2>2, LeaveType DEF Return, TypeOK
<1> QED BY <1>1, <1>2, <1>3, <1>4, <1>5, <1>6, <1>7, <1>8 DEF BackendStep

LEMMA TypeInductive == ASSUME TypeOK, [Next]_vars PROVE TypeOK'
<1>1. CASE RunnerStep BY <1>1, RunnerType
<1>2. CASE BackendStep BY <1>2, BackendType
<1>3. CASE Cancel BY <1>3 DEF Cancel, TypeOK, pipes
<1>4. CASE Crash BY <1>4 DEF Crash, TypeOK, Backend, pipes
<1>5. CASE Over \/ UNCHANGED vars BY <1>5 DEF Over, vars, TypeOK, pipes
<1>6. ASSUME NEW who \in {"runner", "backend"}, Expire(who) PROVE TypeOK'
  BY <1>6 DEF Expire, TypeOK, pipes
<1> QED BY <1>1, <1>2, <1>3, <1>4, <1>5, <1>6 DEF Next

(* Only messages of the protocol are in the pipes, and a job has a result   *)
(* or an error exactly when its runner has ended.                           *)
THEOREM TypeCorrect == Spec => []TypeOK
BY InitType, TypeInductive, PTL DEF Spec

-----------------------------------------------------------------------------
(* Why no answer is taken for another's: the two sides take turns, until    *)
(* the process is told to stop, and from then on nothing is evaluated.      *)

Waiting == backend.at \in {"asking", "confirming"}

Busy == runner.at \in {"asked", "evaluating"}

(* One candidate at a time is asked for, evaluated and answered.            *)
InTurn ==
  \/ /\ ~Waiting /\ ~Busy
     /\ toBackend = <<>> /\ toRunner = <<>>
  \/ /\ Waiting /\ ~Busy
     /\ toBackend = <<>>
     /\ \E m \in Message : /\ toRunner = <<m>>
                           /\ m.type = "evaluate" /\ m.values = backend.x
  \/ /\ Waiting /\ Busy /\ runner.x = backend.x
     /\ toBackend = <<>> /\ toRunner = <<>>
  \/ /\ Waiting /\ ~Busy
     /\ toRunner = <<>>
     /\ \E a \in Answer : /\ toBackend = <<a>>
                          /\ a.type = "eval_result" => a.of = backend.x

(* Some messages to stop were sent, and at most one answer is before them.  *)
ToldToStop ==
  /\ Own /\ token
  /\ runner.at # "evaluating"
  /\ toBackend # <<>> /\ Head(toBackend).type = "eval_result" =>
       Waiting /\ Head(toBackend).of = backend.x

Behind(s) == \A k \in DOMAIN s : k > 1 => s[k].type = "cancel"

IInv ==
  /\ TypeOK
  /\ Behind(toBackend)
  /\ ~Alive \/ InTurn \/ ToldToStop


LEMMA InitInv == ASSUME Init PROVE IInv
<1>1. TypeOK BY InitType
<1>2. Behind(toBackend) BY DEF Init, Behind
<1>3. InTurn BY DEF Init, InTurn, Waiting, Busy
<1> QED BY <1>1, <1>2, <1>3 DEF IInv

(* Messages to stop go behind whatever waits.                               *)
LEMMA BehindConcat ==
  ASSUME NEW s \in Seq(Answer), NEW t \in Seq(Answer), Behind(s),
         \A i \in DOMAIN t : t[i].type = "cancel"
  PROVE  /\ Behind(s \o t)
         /\ s # <<>> => Head(s \o t) = Head(s)
         /\ s = <<>> /\ s \o t # <<>> => Head(s \o t).type = "cancel"
         /\ t = <<>> => s \o t = s
<1>1. ASSUME NEW k \in DOMAIN (s \o t), k > 1 PROVE (s \o t)[k].type = "cancel"
  <2>1. k \in 1..Len(s) + Len(t) /\ Len(s) \in Nat /\ Len(t) \in Nat
    BY ConcatProperties, LenProperties
  <2>2. (s \o t)[k] = IF k <= Len(s) THEN s[k] ELSE t[k - Len(s)]
    BY <2>1, ConcatProperties
  <2>3. CASE k <= Len(s) BY <1>1, <2>1, <2>2, <2>3, LenProperties DEF Behind
  <2>4. CASE k > Len(s)
    <3>1. k - Len(s) \in DOMAIN t BY <2>1, <2>4, LenProperties
    <3> QED BY <2>1, <2>2, <2>4, <3>1
  <2> QED BY <2>1, <2>3, <2>4
<1>2. s # <<>> => Head(s \o t) = Head(s) BY ConcatProperties, EmptySeq, LenProperties
<1>3. s = <<>> => s \o t = t BY ConcatEmptySeq
<1>4. t = <<>> => s \o t = s BY ConcatEmptySeq
<1>5. t # <<>> => Head(t) = t[1] /\ 1 \in DOMAIN t BY EmptySeq, LenProperties
<1> QED BY <1>1, <1>2, <1>3, <1>4, <1>5 DEF Behind

LEMMA BehindTail ==
  ASSUME NEW s \in Seq(Answer), s # <<>>, Behind(s)
  PROVE  /\ Behind(Tail(s))
         /\ Tail(s) # <<>> => Head(Tail(s)).type = "cancel"
<1>1. /\ Tail(s) \in Seq(Answer) /\ Len(Tail(s)) = Len(s) - 1 /\ Len(s) \in Nat
      /\ \A k \in 1..Len(Tail(s)) : Tail(s)[k] = s[k + 1]
  BY HeadTailProperties, LenProperties
<1>2. ASSUME NEW k \in DOMAIN Tail(s) PROVE Tail(s)[k].type = "cancel"
  <2>1. k \in 1..Len(Tail(s)) BY <1>1, LenProperties
  <2>2. k + 1 \in DOMAIN s /\ k + 1 > 1 BY <1>1, <2>1, LenProperties
  <2> QED BY <1>1, <2>1, <2>2 DEF Behind
<1>3. Tail(s) # <<>> => 1 \in DOMAIN Tail(s) /\ Head(Tail(s)) = Tail(s)[1]
  BY <1>1, EmptySeq, LenProperties
<1> QED BY <1>2, <1>3 DEF Behind

LEMMA OneAnswer ==
  ASSUME NEW a \in Answer
  PROVE  Head(<<a>>) = a /\ Append(<<>>, a) = <<a>> /\ Behind(<<a>>)
<1>1. Head(<<a>>) = a OBVIOUS
<1>2. Append(<<>>, a) = <<a>> OBVIOUS
<1>3. Behind(<<a>>) BY DEF Behind
<1> QED BY <1>1, <1>2, <1>3

(* A runner that sends messages to stop, or nothing.                        *)
LEMMA SendsStop ==
  ASSUME IInv, TypeOK', NEW t \in Seq(Answer), \A i \in DOMAIN t : t[i].type = "cancel",
         toBackend' = Sent(t), UNCHANGED <<setting, toRunner, backend>>,
         Alive /\ t # <<>> => Own /\ token',
         token => token',
         runner'.at \notin {"asked", "evaluating"},
         t = <<>> => ~Busy
  PROVE  IInv'
<1>1. toBackend \in Seq(Answer) BY DEF IInv, TypeOK
<1>2. CASE ~Alive BY <1>2 DEF IInv, Sent, Alive
<1>3. CASE Alive
  <2>1. toBackend' = toBackend \o t BY <1>3 DEF Sent
  <2>2. /\ Behind(toBackend')
        /\ toBackend # <<>> => Head(toBackend') = Head(toBackend)
        /\ toBackend = <<>> /\ toBackend' # <<>> => Head(toBackend').type = "cancel"
        /\ t = <<>> => toBackend' = toBackend
    BY <1>1, <2>1, BehindConcat DEF IInv
  <2>3. toBackend # <<>> /\ Head(toBackend).type = "eval_result" =>
          Waiting /\ Head(toBackend).of = backend.x
    <3>1. CASE InTurn
      <4>1. CASE toBackend = <<>> BY <4>1
      <4>2. CASE toBackend # <<>>
        <5>1. /\ Waiting
              /\ \E a \in Answer : /\ toBackend = <<a>>
                                   /\ a.type = "eval_result" => a.of = backend.x
          BY <3>1, <4>2, Zenon DEF InTurn
        <5>2. PICK a \in Answer : /\ toBackend = <<a>>
                                  /\ a.type = "eval_result" => a.of = backend.x
          BY <5>1
        <5>3. Head(toBackend) = a BY <5>2, OneAnswer, Zenon
        <5> QED BY <5>1, <5>2, <5>3, Zenon
      <4> QED BY <4>1, <4>2
    <3>2. CASE ToldToStop BY <3>2 DEF ToldToStop
    <3> QED BY <1>3, <3>1, <3>2 DEF IInv
  <2>4. CASE t # <<>>
    <3>1. ToldToStop'
      BY <1>3, <2>2, <2>3, <2>4 DEF ToldToStop, Own, May, Waiting
    <3> QED BY <2>2, <3>1 DEF IInv
  <2>5. CASE t = <<>>
    <3>1. CASE InTurn
      <4>1. InTurn' BY <2>2, <2>5, <3>1 DEF InTurn, Waiting, Busy
      <4> QED BY <2>2, <4>1 DEF IInv
    <3>2. CASE ToldToStop
      <4>1. ToldToStop' BY <2>2, <2>5, <3>2 DEF ToldToStop, Own, May, Waiting
      <4> QED BY <2>2, <4>1 DEF IInv
    <3> QED BY <1>3, <3>1, <3>2 DEF IInv
  <2> QED BY <2>4, <2>5
<1> QED BY <1>2, <1>3

(* A backend that has ended reads nothing.                                  *)
LEMMA Exited ==
  ASSUME IInv, TypeOK', Behind(toBackend'), backend'.at = "exited"
  PROVE  IInv'
BY DEF IInv, Alive

LEMMA RunnerInv ==
  ASSUME IInv, TypeOK', RunnerStep
  PROVE  IInv'
<1> USE DEF pipes
<1>1. CASE Top
  <2>1. CASE Own
    <3>1. toBackend' = Sent(Told) /\ token' = (token \/ ("runner" \in expired /\ Alive))
      BY <1>1, <2>1 DEF Top, Told
    <3>2. runner'.at = "reading" /\ ~Busy BY <1>1 DEF Top, Busy, IInv, TypeOK, Runner
    <3>3. UNCHANGED <<setting, toRunner, backend>> BY <1>1 DEF Top
    <3>4. token \in BOOLEAN BY DEF IInv, TypeOK
    <3> QED BY <2>1, <3>1, <3>2, <3>3, <3>4, ToldProperties, SendsStop
  <2>2. CASE ~Own
    <3>1. UNCHANGED <<setting, token, toBackend, toRunner, backend>> BY <1>1, <2>2 DEF Top
    <3>2. ~Busy /\ ~Busy' BY <1>1 DEF Top, Busy, IInv, TypeOK, Runner
    <3>3. ~ToldToStop BY <2>2 DEF ToldToStop
    <3>4. InTurn => InTurn' BY <3>1, <3>2 DEF InTurn, Waiting
    <3>5. Behind(toBackend') /\ (~Alive => ~Alive') BY <3>1 DEF IInv, Alive
    <3> QED BY <3>3, <3>4, <3>5 DEF IInv
  <2> QED BY <2>1, <2>2
<1>2. CASE Read
  <2>1. /\ runner.at = "reading" /\ toRunner # <<>>
        /\ UNCHANGED <<setting, token, toBackend, backend>> BY <1>2 DEF Read
  <2>2. Behind(toBackend') /\ (~Alive => ~Alive') BY <2>1 DEF IInv, Alive
  <2>3. runner'.at # "evaluating" BY <1>2 DEF Read, Ends
  <2>4. CASE InTurn
    <3>1. PICK m \in Message :
            /\ Waiting /\ toBackend = <<>> /\ toRunner = <<m>>
            /\ m.type = "evaluate" /\ m.values = backend.x
      BY <2>1, <2>4 DEF InTurn, Busy
    <3>2. runner' = [at |-> "asked", x |-> backend.x] /\ toRunner' = <<>>
      BY <1>2, <3>1 DEF Read
    <3>3. InTurn' BY <2>1, <3>1, <3>2 DEF InTurn, Waiting, Busy
    <3> QED BY <2>2, <3>3 DEF IInv
  <2>5. CASE ToldToStop
    <3>1. ToldToStop' BY <2>1, <2>3, <2>5 DEF ToldToStop, Own, May, Waiting
    <3> QED BY <2>2, <3>1 DEF IInv
  <2> QED BY <2>2, <2>4, <2>5 DEF IInv
<1>3. CASE ReadEnd BY <1>3 DEF ReadEnd, IInv, Alive
<1>4. CASE Decide
  <2>1. CASE Own /\ token
    <3>1. toBackend' = Sent(<<CancelMessage>>) /\ runner'.at = "top"
      BY <1>4, <2>1 DEF Decide
    <3>2. UNCHANGED <<setting, token, toRunner, backend>> BY <1>4 DEF Decide
    <3>3. <<CancelMessage>> \in Seq(Answer) /\ <<CancelMessage>> # <<>> BY Messages
    <3>4. \A i \in DOMAIN <<CancelMessage>> : <<CancelMessage>>[i].type = "cancel"
      BY DEF CancelMessage
    <3> HIDE DEF CancelMessage
    <3> QED BY <2>1, <3>1, <3>2, <3>3, <3>4, SendsStop
  <2>2. CASE ~(Own /\ token)
    <3>1. /\ runner.at = "asked" /\ runner' = [runner EXCEPT !.at = "evaluating"]
          /\ UNCHANGED <<setting, token, toBackend, toRunner, backend>>
      BY <1>4, <2>2 DEF Decide
    <3>2. Behind(toBackend') /\ (~Alive => ~Alive') BY <3>1 DEF IInv, Alive
    <3>3. ~ToldToStop BY <2>2 DEF ToldToStop
    <3>4. /\ Busy /\ Busy' /\ runner'.x = runner.x
      BY <3>1 DEF Busy, IInv, TypeOK, Runner
    <3>5. InTurn => InTurn' BY <3>1, <3>4 DEF InTurn, Waiting
    <3> QED BY <3>2, <3>3, <3>5 DEF IInv
  <2> QED BY <2>1, <2>2
<1>5. CASE Evaluate
  <2>1. CASE ~Alive BY <1>5, <2>1 DEF Evaluate, IInv, Alive
  <2>2. CASE Alive
    <3>1. runner.at = "evaluating" /\ UNCHANGED <<setting, token, toRunner, backend>>
      BY <1>5 DEF Evaluate
    <3>2. InTurn BY <2>2, <3>1 DEF IInv, ToldToStop
    <3>3. Waiting /\ runner.x = backend.x /\ toBackend = <<>> /\ toRunner = <<>>
      BY <3>1, <3>2 DEF InTurn, Busy
    <3>4. runner.x \in Candidate BY <3>1 DEF IInv, TypeOK
    <3>5. PICK a \in Answer : /\ toBackend' = Append(toBackend, a)
                              /\ a.type = "eval_result" => a.of = runner.x
      BY <1>5, <2>2, <3>4, Messages DEF Evaluate
    <3>6. toBackend' = <<a>> BY <3>3, <3>5, OneAnswer, Zenon
    <3>7. Behind(toBackend') BY <3>6, OneAnswer, Zenon
    <3>8. ~Busy' BY <1>5, <2>2 DEF Evaluate, Busy
    <3>9. InTurn' BY <3>1, <3>3, <3>5, <3>6, <3>8 DEF InTurn, Waiting
    <3> QED BY <3>7, <3>9 DEF IInv
  <2> QED BY <2>1, <2>2
<1>6. CASE Finish
  <2>1. backend'.at = "exited" /\ toBackend' = toBackend
    BY <1>6 DEF Finish, IInv, TypeOK, Backend
  <2> QED BY <2>1, Exited DEF IInv
<1> QED BY <1>1, <1>2, <1>3, <1>4, <1>5, <1>6 DEF RunnerStep

LEMMA BackendInv ==
  ASSUME IInv, TypeOK', BackendStep
  PROVE  IInv'
<1> USE DEF pipes
<1>1. ASSUME NEW c \in Candidate, Want(c) PROVE IInv'
  <2>1. /\ backend.at = "solving" /\ UNCHANGED <<setting, token, toBackend, runner>>
    BY <1>1 DEF Want
  <2>2. Behind(toBackend') /\ Alive /\ ~Waiting BY <2>1 DEF IInv, Alive, Waiting
  <2>3. CASE ToldToStop
    <3>1. ToldToStop' BY <2>1, <2>2, <2>3 DEF ToldToStop, Own, May
    <3> QED BY <2>2, <3>1 DEF IInv
  <2>4. CASE InTurn
    <3>1. ~Busy /\ toBackend = <<>> /\ toRunner = <<>> BY <2>2, <2>4 DEF InTurn
    <3>2. ~Busy' BY <2>1, <3>1 DEF Busy
    <3>3. CASE ("backend" \in expired) \/ Stopping
      <4>1. toRunner' = toRunner /\ backend'.at = "solving"
        BY <1>1, <3>3 DEF Want, IInv, TypeOK, Backend
      <4>2. InTurn' BY <2>1, <3>1, <3>2, <4>1 DEF InTurn, Waiting
      <4> QED BY <2>2, <4>2 DEF IInv
    <3>4. CASE ~(("backend" \in expired) \/ Stopping)
      <4> DEFINE m == [type |-> "evaluate", values |-> c]
      <4>1. Ask(c, "asking") BY <1>1, <3>4 DEF Want
      <4>2. m \in Message /\ m.type = "evaluate" /\ m.values = c BY Messages
      <4>3. toRunner' = Append(toRunner, m) BY <4>1 DEF Ask
      <4>4. backend'.at = "asking" /\ backend'.x = c BY <4>1 DEF Ask, IInv, TypeOK, Backend
      <4> HIDE DEF m
      <4>5. toRunner' = <<m>> BY <3>1, <4>3
      <4>6. InTurn' BY <2>1, <3>1, <3>2, <4>2, <4>4, <4>5 DEF InTurn, Waiting
      <4> QED BY <2>2, <4>6 DEF IInv
    <3> QED BY <3>3, <3>4
  <2> QED BY <2>2, <2>3, <2>4 DEF IInv
<1>2. CASE Answered
  <2>1. /\ backend.at = "asking" /\ toBackend # <<>> /\ toBackend' = Tail(toBackend)
        /\ UNCHANGED <<setting, token, runner>>
    BY <1>2 DEF Answered
  <2>2. /\ toBackend \in Seq(Answer) /\ Head(toBackend) \in Answer
    BY <2>1, HeadTailProperties DEF IInv, TypeOK
  <2>3. /\ Behind(toBackend')
        /\ toBackend' # <<>> => Head(toBackend').type = "cancel"
    BY <2>1, <2>2, BehindTail DEF IInv
  <2>4. CASE Head(toBackend).type = "eval_result"
    <3>1. backend'.at = "solving" /\ toRunner' = toRunner
      BY <1>2, <2>4 DEF Answered, IInv, TypeOK, Backend
    <3>2. Alive /\ Waiting BY <2>1 DEF Alive, Waiting
    <3>3. CASE ToldToStop
      <4>1. ToldToStop' BY <2>1, <2>3, <3>3 DEF ToldToStop, Own, May
      <4> QED BY <2>3, <4>1 DEF IInv
    <3>4. CASE InTurn
      <4>1. ~Busy /\ toRunner = <<>> /\ \E a \in Answer : toBackend = <<a>>
        BY <2>1, <3>2, <3>4, Zenon DEF InTurn
      <4>2. toBackend' = <<>> BY <2>1, <4>1
      <4>3. InTurn' BY <2>1, <3>1, <4>1, <4>2 DEF InTurn, Waiting, Busy
      <4> QED BY <2>3, <4>3 DEF IInv
    <3> QED BY <3>2, <3>3, <3>4 DEF IInv
  <2>5. CASE Head(toBackend).type # "eval_result"
    <3>1. Head(toBackend).type \in {"cancel", "eval_error"} BY <2>2, <2>5, AnswerCases
    <3>2. backend' = [backend EXCEPT !.at = "exited"]
      <4>1. CASE Head(toBackend).type = "cancel" BY <1>2, <4>1 DEF Answered, Leave
      <4>2. CASE Head(toBackend).type = "eval_error" BY <1>2, <4>2 DEF Answered, Leave
      <4> QED BY <3>1, <4>1, <4>2
    <3>3. backend'.at = "exited" BY <3>2 DEF IInv, TypeOK, Backend
    <3> QED BY <2>3, <3>3, Exited
  <2> QED BY <2>4, <2>5
<1>3. CASE Callback \/ Optimized \/ Return
  <2>1. backend' = [backend EXCEPT !.at = "exited"] /\ toBackend' = toBackend
    <3>1. CASE Callback BY <3>1 DEF Callback, Leave
    <3>2. CASE Optimized BY <3>2 DEF Optimized, Leave
    <3>3. CASE Return BY <3>3 DEF Return, Leave
    <3> QED BY <1>3, <3>1, <3>2, <3>3
  <2>2. backend'.at = "exited" BY <2>1 DEF IInv, TypeOK, Backend
  <2> QED BY <2>1, <2>2, Exited DEF IInv
<1>4. CASE Minimized
  <2>1. /\ backend.at = "solving" /\ backend'.at = "final"
        /\ UNCHANGED <<setting, token, toBackend, toRunner, runner>>
    BY <1>4 DEF Minimized, IInv, TypeOK, Backend
  <2>2. Alive /\ ~Waiting /\ ~Waiting' /\ Behind(toBackend')
    BY <2>1 DEF Alive, Waiting, IInv
  <2>3. InTurn => InTurn' BY <2>1, <2>2 DEF InTurn, Busy
  <2>4. ToldToStop => ToldToStop' BY <2>1, <2>2 DEF ToldToStop, Own, May
  <2> QED BY <2>2, <2>3, <2>4 DEF IInv
<1>5. CASE Confirm
  <2> DEFINE m == [type |-> "evaluate", values |-> backend.x]
  <2>1. /\ backend.at = "final" /\ Ask(backend.x, "confirming")
        /\ UNCHANGED <<setting, token, toBackend, runner>>
    BY <1>5 DEF Confirm
  <2>2. Alive /\ ~Waiting /\ Behind(toBackend') BY <2>1 DEF Alive, Waiting, IInv
  <2>3. backend.x \in Candidate BY <2>1 DEF IInv, TypeOK
  <2>4. m \in Message /\ m.type = "evaluate" /\ m.values = backend.x BY <2>3, Messages
  <2>5. toRunner' = Append(toRunner, m) BY <2>1 DEF Ask
  <2>6. backend'.at = "confirming" /\ backend'.x = backend.x
    BY <2>1 DEF Ask, IInv, TypeOK, Backend
  <2> HIDE DEF m
  <2>7. CASE InTurn
    <3>1. ~Busy /\ toBackend = <<>> /\ toRunner = <<>> BY <2>2, <2>7 DEF InTurn
    <3>2. ~Busy' BY <2>1, <3>1 DEF Busy
    <3>3. toRunner' = <<m>> BY <2>5, <3>1
    <3>4. InTurn' BY <2>1, <2>4, <2>6, <3>1, <3>2, <3>3 DEF InTurn, Waiting
    <3> QED BY <2>2, <3>4 DEF IInv
  <2>8. CASE ToldToStop
    <3>1. ToldToStop' BY <2>1, <2>2, <2>8 DEF ToldToStop, Own, May
    <3> QED BY <2>2, <3>1 DEF IInv
  <2> QED BY <2>2, <2>7, <2>8 DEF IInv
<1>6. CASE Confirmed
  <2>1. /\ backend.at = "confirming" /\ toBackend # <<>> /\ toBackend' = Tail(toBackend)
        /\ UNCHANGED <<setting, token, toRunner, runner>>
    BY <1>6 DEF Confirmed
  <2>2. backend'.at = "final" BY <1>6 DEF Confirmed, IInv, TypeOK, Backend
  <2>3. /\ Behind(toBackend')
        /\ toBackend' # <<>> => Head(toBackend').type = "cancel"
    BY <2>1, BehindTail DEF IInv, TypeOK
  <2>4. Alive /\ Waiting BY <2>1 DEF Alive, Waiting
  <2>5. CASE ToldToStop
    <3>1. ToldToStop' BY <2>1, <2>3, <2>5 DEF ToldToStop, Own, May
    <3> QED BY <2>3, <3>1 DEF IInv
  <2>6. CASE InTurn
    <3>1. ~Busy /\ toRunner = <<>> /\ \E a \in Answer : toBackend = <<a>>
      BY <2>1, <2>4, <2>6, Zenon DEF InTurn
    <3>2. toBackend' = <<>> BY <2>1, <3>1
    <3>3. InTurn' BY <2>1, <2>2, <3>1, <3>2 DEF InTurn, Waiting, Busy
    <3> QED BY <2>3, <3>3 DEF IInv
  <2> QED BY <2>4, <2>5, <2>6 DEF IInv
<1> QED BY <1>1, <1>2, <1>3, <1>4, <1>5, <1>6 DEF BackendStep

LEMMA InvInductive == ASSUME IInv, [Next]_vars PROVE IInv'
<1>1. TypeOK' BY TypeInductive DEF IInv
<1>2. CASE RunnerStep BY <1>1, <1>2, RunnerInv
<1>3. CASE BackendStep BY <1>1, <1>3, BackendInv
<1>4. CASE Cancel
  <2>1. token' = TRUE /\ UNCHANGED <<setting, pipes, runner, backend>> BY <1>4 DEF Cancel
  <2> QED BY <1>1, <2>1
       DEF IInv, Alive, InTurn, ToldToStop, Waiting, Busy, Own, May, Behind, pipes
<1>5. CASE Crash
  <2>1. backend'.at = "exited" /\ toBackend' = toBackend
    BY <1>5 DEF Crash, pipes, IInv, TypeOK, Backend
  <2> QED BY <1>1, <2>1, Exited DEF IInv
<1>6. ASSUME UNCHANGED <<setting, token, pipes, runner, backend>> PROVE IInv'
  BY <1>1, <1>6 DEF IInv, Alive, InTurn, ToldToStop, Waiting, Busy, Own, May, Behind, pipes
<1>7. CASE Over \/ UNCHANGED vars BY <1>6, <1>7 DEF Over, vars
<1>8. ASSUME NEW who \in {"runner", "backend"}, Expire(who) PROVE IInv'
  BY <1>6, <1>8 DEF Expire
<1> QED BY <1>2, <1>3, <1>4, <1>5, <1>7, <1>8 DEF Next

LEMMA InvAnswers == ASSUME IInv PROVE AnswersMatch
<1>1. ASSUME NEW i \in DOMAIN toBackend, NEW k \in DOMAIN toBackend, i < k
      PROVE  toBackend[k].type = "cancel"
  <2>1. i \in Nat /\ k \in Nat /\ i >= 1 BY LenProperties DEF IInv, TypeOK
  <2> QED BY <1>1, <2>1 DEF IInv, Behind
<1>2. ASSUME toBackend # <<>>, Head(toBackend).type = "eval_result", Waiting
      PROVE  Head(toBackend).of = backend.x
  <2>1. CASE ToldToStop BY <1>2, <2>1 DEF ToldToStop
  <2>2. CASE InTurn
    <3>1. PICK a \in Answer : toBackend = <<a>> /\ (a.type = "eval_result" => a.of = backend.x)
      BY <1>2, <2>2, Zenon DEF InTurn
    <3> QED BY <1>2, <3>1, OneAnswer, Zenon
  <2> QED BY <1>2, <2>1, <2>2 DEF IInv, Alive, Waiting
<1> QED BY <1>1, <1>2 DEF AnswersMatch, Waiting

(* An answer is never taken for that of another candidate, however many     *)
(* candidates are asked for, and however the messages to stop fall between. *)
THEOREM AnswersMatchTheorem == Spec => []AnswersMatch
BY InitInv, InvInductive, InvAnswers, PTL DEF Spec

-----------------------------------------------------------------------------
(* Why what is reported was measured.                                       *)

Stop == Stopping \/ "backend" \in expired

Measured(x, o) == x = o /\ x \in measured

(* What a job may report for a point.                                       *)
Honest(x, o) == Measured(x, o) \/ (Stop /\ <<x, o>> \in backend.got)

(* Nothing is evaluated any more.                                           *)
Sealed ==
  \/ Own /\ token /\ runner.at # "evaluating"
  \/ ~Busy /\ \A k \in DOMAIN toRunner : toRunner[k].type # "evaluate"

FineResult(r) ==
  /\ ~Alive
  /\ \/ r.x = None \/ Honest(r.x, r.objective)
     \/ r.x = Initial /\ r.objective = Zero /\ measured = {} /\ Sealed

Got == \A p \in backend.got : Measured(p[1], p[2]) \/ Stop

(* The last point and the last result are those of one evaluation.          *)
LastOfOne ==
  /\ backend.lastX = backend.lastResult
  /\ backend.lastX # None => backend.lastX \in measured

AnswersMeasured ==
  \A k \in DOMAIN toBackend :
    toBackend[k].type = "eval_result" => toBackend[k].of \in measured

(* Before the backend has read an answer nothing was measured, but for the  *)
(* answer that it is about to read.                                         *)
NothingYet ==
  backend.lastX = None /\ measured # {} =>
    /\ backend.at # "solving"
    /\ backend.at = "asking" => toBackend # <<>> /\ Head(toBackend).type = "eval_result"

Chosen == backend.at \in {"final", "confirming"} => Honest(backend.x, backend.objective)

(* A result that waits to be read, or that the job has.                     *)
Left(r) ==
  \/ \E k \in DOMAIN toRunner : toRunner[k] = r
  \/ runner.at \in {"ended", "finished"} /\ outcome = r

Fine == \A r \in Result : Left(r) => FineResult(r)

MInv == Got /\ LastOfOne /\ AnswersMeasured /\ NothingYet /\ Chosen /\ Fine

LEMMA InitMeasured == ASSUME Init PROVE MInv
<1>1. /\ backend.got = {} /\ backend.lastX = None /\ backend.lastResult = None
      /\ backend.at = "solving" /\ measured = {} /\ toBackend = <<>> /\ toRunner = <<>>
      /\ runner.at = "top"
  BY DEF Init
<1> QED BY <1>1 DEF MInv, Got, LastOfOne, AnswersMeasured, NothingYet, Chosen, Fine, Left

(* What was measured stays, and a job that is stopped stays stopped.        *)
LEMMA HonestStays ==
  ASSUME measured \subseteq measured', Stop => Stop', backend.got \subseteq backend'.got,
         NEW x, NEW o, Honest(x, o)
  PROVE  Honest(x, o)'
BY DEF Honest, Measured

(* A backend that is alive has left no result.                              *)
LEMMA AliveLeftNothing ==
  ASSUME MInv, Alive
  PROVE  \A r \in Result : ~Left(r)
BY DEF MInv, Fine, FineResult

(* What has been left stays fine when nothing else is left.                 *)
LEMMA KeepsFine ==
  ASSUME MInv, measured \subseteq measured', Stop => Stop',
         backend.got \subseteq backend'.got, ~Alive => ~Alive',
         \A r \in Result : Left(r)' => Left(r),
         Sealed => Sealed' /\ measured' = measured
  PROVE  Fine'
<1>1. \A x, o : Honest(x, o) => Honest(x, o)' BY HonestStays
<1>2. \A r : FineResult(r) => FineResult(r)' BY <1>1 DEF FineResult
<1> QED BY <1>2 DEF MInv, Fine

(* The parts of the invariant that a step of the runner does not disturb.   *)
LEMMA RunnerKeeps ==
  ASSUME TypeOK, TypeOK', MInv, measured \subseteq measured', token => token',
         UNCHANGED <<setting, expired, backend>>
  PROVE  /\ Got' /\ LastOfOne' /\ Chosen'
         /\ Stop => Stop'
         /\ backend.got \subseteq backend'.got
         /\ ~Alive => ~Alive'
<1>1. Stop => Stop' BY DEF Stop, Stopping, Own, May
<1>2. Got' /\ LastOfOne' BY <1>1 DEF MInv, Got, LastOfOne, Measured
<1>3. Chosen' BY <1>1, HonestStays DEF MInv, Chosen
<1> QED BY <1>1, <1>2, <1>3 DEF Alive

(* Messages to stop, or none.                                               *)
LEMMA StopKeepsAnswers ==
  ASSUME IInv, MInv, NEW t \in Seq(Answer), \A i \in DOMAIN t : t[i].type = "cancel",
         toBackend' = Sent(t), UNCHANGED <<backend, measured>>
  PROVE  AnswersMeasured' /\ NothingYet'
<1>1. toBackend \in Seq(Answer) BY DEF IInv, TypeOK
<1>2. CASE ~Alive
  BY <1>2 DEF Sent, MInv, AnswersMeasured, NothingYet
<1>3. CASE Alive
  <2>1. toBackend' = toBackend \o t BY <1>3 DEF Sent
  <2>2. ASSUME NEW k \in DOMAIN (toBackend \o t), (toBackend \o t)[k].type = "eval_result"
        PROVE  (toBackend \o t)[k].of \in measured
    <3>1. k \in 1..Len(toBackend) + Len(t) /\ Len(toBackend) \in Nat /\ Len(t) \in Nat
      BY <1>1, ConcatProperties, LenProperties
    <3>2. (toBackend \o t)[k] = IF k <= Len(toBackend) THEN toBackend[k]
                                ELSE t[k - Len(toBackend)]
      BY <1>1, <3>1, ConcatProperties
    <3>3. CASE k <= Len(toBackend)
      <4>1. k \in DOMAIN toBackend BY <1>1, <3>1, <3>3, LenProperties
      <4> QED BY <2>2, <3>2, <3>3, <4>1 DEF MInv, AnswersMeasured
    <3>4. CASE k > Len(toBackend)
      <4>1. k - Len(toBackend) \in DOMAIN t BY <3>1, <3>4, LenProperties
      <4>2. t[k - Len(toBackend)].type = "cancel" BY <4>1
      <4> QED BY <2>2, <3>1, <3>2, <3>4, <4>2
    <3> QED BY <3>1, <3>3, <3>4
  <2>3. AnswersMeasured' BY <2>1, <2>2 DEF AnswersMeasured
  <2>4. toBackend # <<>> => toBackend' # <<>> /\ Head(toBackend') = Head(toBackend)
    <3>1. toBackend # <<>> => Head(toBackend \o t) = Head(toBackend)
      BY <1>1, BehindConcat DEF IInv
    <3>2. toBackend # <<>> => toBackend \o t # <<>>
      BY <1>1, ConcatProperties, EmptySeq, LenProperties
    <3> QED BY <2>1, <3>1, <3>2
  <2>5. NothingYet' BY <2>4 DEF MInv, NothingYet
  <2> QED BY <2>3, <2>5
<1> QED BY <1>2, <1>3

LEMMA SameAnswers ==
  ASSUME MInv, UNCHANGED <<toBackend, backend, measured>>
  PROVE  AnswersMeasured' /\ NothingYet'
BY DEF MInv, AnswersMeasured, NothingYet

LEMMA TopMeasured == ASSUME IInv, IInv', MInv, Top PROVE MInv'
<1>1. /\ runner.at = "top" /\ runner'.at = "reading" /\ (token => token')
      /\ UNCHANGED <<setting, expired, toRunner, backend, measured, outcome>>
  BY DEF Top, IInv, TypeOK, Runner
<1>2. Got' /\ LastOfOne' /\ Chosen' /\ (Stop => Stop')
      /\ backend.got \subseteq backend'.got /\ (~Alive => ~Alive')
  BY <1>1, RunnerKeeps DEF IInv
<1>3. Sealed => Sealed' BY <1>1 DEF Sealed, Own, May, Busy
<1>4. \A r : Left(r)' => Left(r) BY <1>1 DEF Left
<1>5. Fine' BY <1>1, <1>2, <1>3, <1>4, KeepsFine
<1>6. AnswersMeasured' /\ NothingYet'
  <2>1. CASE Own
    <3>1. toBackend' = Sent(Told) BY <2>1 DEF Top, Told
    <3> QED BY <1>1, <3>1, ToldProperties, StopKeepsAnswers
  <2>2. CASE ~Own
    <3>1. toBackend' = toBackend BY <2>2 DEF Top
    <3> QED BY <1>1, <3>1, SameAnswers
  <2> QED BY <2>1, <2>2
<1> QED BY <1>2, <1>5, <1>6 DEF MInv

LEMMA ReadMeasured == ASSUME IInv, IInv', MInv, Read PROVE MInv'
<1>1. /\ runner.at = "reading" /\ toRunner # <<>> /\ toRunner' = Tail(toRunner)
      /\ UNCHANGED <<setting, token, expired, toBackend, backend, measured>>
  BY DEF Read
<1>2. Got' /\ LastOfOne' /\ Chosen' /\ (Stop => Stop')
      /\ backend.got \subseteq backend'.got /\ (~Alive => ~Alive')
  BY <1>1, RunnerKeeps DEF IInv
<1>3. AnswersMeasured' /\ NothingYet' BY <1>1, SameAnswers
<1>4. /\ Head(toRunner) = toRunner[1] /\ 1 \in DOMAIN toRunner
      /\ \A k \in DOMAIN toRunner' : k + 1 \in DOMAIN toRunner /\ toRunner'[k] = toRunner[k + 1]
  <2>1. toRunner \in Seq(Message) BY DEF IInv, TypeOK
  <2>2. /\ Tail(toRunner) \in Seq(Message) /\ Len(Tail(toRunner)) = Len(toRunner) - 1
        /\ Len(toRunner) \in Nat /\ Head(toRunner) = toRunner[1]
        /\ \A k \in 1..Len(Tail(toRunner)) : Tail(toRunner)[k] = toRunner[k + 1]
    BY <1>1, <2>1, HeadTailProperties, LenProperties
  <2>3. DOMAIN toRunner = 1..Len(toRunner) /\ DOMAIN Tail(toRunner) = 1..Len(Tail(toRunner))
    BY <2>1, <2>2, LenProperties
  <2>4. 1 \in DOMAIN toRunner BY <1>1, <2>1, <2>3, EmptySeq, LenProperties
  <2> QED BY <1>1, <2>2, <2>3, <2>4
<1>5. Sealed => Sealed'
  <2>1. runner'.at \in {"asked", "ended"} BY DEF Read, Ends, IInv, TypeOK, Runner
  <2>2. CASE Own /\ token /\ runner.at # "evaluating" BY <1>1, <2>1, <2>2 DEF Sealed, Own, May
  <2>3. CASE ~Busy /\ \A k \in DOMAIN toRunner : toRunner[k].type # "evaluate"
    <3>1. Head(toRunner).type # "evaluate" BY <1>4, <2>3
    <3>2. runner' = [at |-> "ended", x |-> None] BY <3>1 DEF Read, Ends
    <3>3. ~Busy' BY <3>2 DEF Busy
    <3> QED BY <1>4, <2>3, <3>3 DEF Sealed
  <2> QED BY <2>2, <2>3 DEF Sealed
<1>6. ASSUME NEW r, Left(r)' PROVE Left(r)
  <2>1. CASE \E k \in DOMAIN toRunner' : toRunner'[k] = r BY <1>4, <2>1 DEF Left
  <2>2. CASE runner'.at \in {"ended", "finished"} /\ outcome' = r
    <3>1. Head(toRunner).type # "evaluate" BY <2>2 DEF Read
    <3>2. outcome' = Head(toRunner) BY <3>1 DEF Read, Ends
    <3> QED BY <1>4, <2>2, <3>2 DEF Left
  <2> QED BY <1>6, <2>1, <2>2 DEF Left
<1>7. Fine' BY <1>1, <1>2, <1>5, <1>6, KeepsFine
<1> QED BY <1>2, <1>3, <1>7 DEF MInv

LEMMA NoResult ==
  ASSUME NEW r, r = [type |-> "error"]
  PROVE  r \notin Result
BY DEF Result

LEMMA DecideMeasured == ASSUME IInv, IInv', MInv, Decide PROVE MInv'
<1>1. /\ runner.at = "asked"
      /\ UNCHANGED <<setting, token, expired, toRunner, backend, measured, outcome>>
  BY DEF Decide
<1>2. Got' /\ LastOfOne' /\ Chosen' /\ (Stop => Stop')
      /\ backend.got \subseteq backend'.got /\ (~Alive => ~Alive')
  BY <1>1, RunnerKeeps DEF IInv
<1>3. runner'.at \in {"top", "evaluating"} BY DEF Decide, IInv, TypeOK, Runner
<1>4. CASE Own /\ token
  <2>1. toBackend' = Sent(<<CancelMessage>>) /\ runner'.at = "top" BY <1>4 DEF Decide
  <2>2. <<CancelMessage>> \in Seq(Answer) BY Messages
  <2>3. \A i \in DOMAIN <<CancelMessage>> : <<CancelMessage>>[i].type = "cancel"
    BY DEF CancelMessage
  <2>4. AnswersMeasured' /\ NothingYet' BY <1>1, <2>1, <2>2, <2>3, StopKeepsAnswers
  <2>5. Sealed' BY <1>1, <1>4, <2>1 DEF Sealed, Own, May
  <2>6. Fine' BY <1>1, <1>2, <1>3, <2>5, KeepsFine DEF Left
  <2> QED BY <1>2, <2>4, <2>6 DEF MInv
<1>5. CASE ~(Own /\ token)
  <2>1. toBackend' = toBackend BY <1>5 DEF Decide
  <2>2. ~Sealed BY <1>1, <1>5 DEF Sealed, Busy
  <2>3. AnswersMeasured' /\ NothingYet' BY <1>1, <2>1, SameAnswers
  <2>4. Fine' BY <1>1, <1>2, <1>3, <2>2, KeepsFine DEF Left
  <2> QED BY <1>2, <2>3, <2>4 DEF MInv
<1> QED BY <1>4, <1>5

LEMMA EvaluateMeasured == ASSUME IInv, IInv', MInv, Evaluate PROVE MInv'
<1>1. /\ runner.at = "evaluating" /\ measured \subseteq measured'
      /\ UNCHANGED <<setting, token, expired, toRunner, backend>>
  BY DEF Evaluate
<1>2. Got' /\ LastOfOne' /\ Chosen' /\ (Stop => Stop')
      /\ backend.got \subseteq backend'.got /\ (~Alive => ~Alive')
  BY <1>1, RunnerKeeps DEF IInv
<1>3. ~Sealed BY <1>1 DEF Sealed, Busy
<1>4. CASE ~Alive
  <2>1. outcome' = [type |-> "error"] /\ toBackend' = toBackend BY <1>4 DEF Evaluate, Ends
  <2>2. \A r \in Result : Left(r)' => Left(r) BY <1>1, <2>1, NoResult DEF Left
  <2>3. Fine' BY <1>1, <1>2, <1>3, <2>2, KeepsFine
  <2>4. AnswersMeasured' BY <1>1, <2>1 DEF MInv, AnswersMeasured
  <2>5. NothingYet' BY <1>1, <1>4 DEF NothingYet, Alive
  <2> QED BY <1>2, <2>3, <2>4, <2>5 DEF MInv
<1>5. CASE Alive
  <2>1. runner'.at = "top" BY <1>5 DEF Evaluate
  <2>2. Fine' BY <1>1, <1>2, <1>3, <2>1, KeepsFine DEF Left
  <2>3. InTurn BY <1>1, <1>5 DEF IInv, ToldToStop
  <2>4. Waiting /\ toBackend = <<>> BY <1>1, <2>3 DEF InTurn, Busy
  <2>5. runner.x \in Candidate BY <1>1 DEF IInv, TypeOK
  <2>6. PICK a \in Answer :
          /\ toBackend' = Append(toBackend, a)
          /\ a.type = "eval_result" => a.of \in measured'
          /\ measured' = measured \/ a.type = "eval_result"
    BY <1>5, <2>5, Messages DEF Evaluate
  <2>7. toBackend' = <<a>> BY <2>4, <2>6, OneAnswer, Zenon
  <2>8. AnswersMeasured' BY <2>6, <2>7 DEF AnswersMeasured
  <2>9. NothingYet' BY <1>1, <2>4, <2>6, <2>7 DEF MInv, NothingYet, Waiting
  <2> QED BY <1>2, <2>2, <2>8, <2>9 DEF MInv
<1> QED BY <1>4, <1>5

(* The process ends, by itself or because the runner terminates it.         *)
LEMMA EndsMeasured ==
  ASSUME IInv, MInv, backend' = [backend EXCEPT !.at = "exited"],
         UNCHANGED <<setting, token, expired, toBackend, toRunner, measured, outcome>>,
         \A r : Left(r)' => Left(r), Sealed => Sealed'
  PROVE  MInv'
<1>1. /\ backend'.at = "exited" /\ backend'.token = backend.token
      /\ backend'.got = backend.got /\ backend'.lastX = backend.lastX
      /\ backend'.lastResult = backend.lastResult
  BY DEF IInv, TypeOK, Backend
<1>2. Stop' <=> Stop BY <1>1 DEF Stop, Stopping, Own, May
<1>3. Got' /\ LastOfOne' BY <1>1, <1>2 DEF MInv, Got, LastOfOne, Measured
<1>4. AnswersMeasured' BY DEF MInv, AnswersMeasured
<1>5. NothingYet' /\ Chosen' /\ ~Alive' BY <1>1 DEF NothingYet, Chosen, Alive
<1>6. Fine' BY <1>1, <1>2, <1>5, KeepsFine
<1> QED BY <1>3, <1>4, <1>5, <1>6 DEF MInv

LEMMA RunnerMeasured == ASSUME IInv, IInv', MInv, RunnerStep PROVE MInv'
<1>1. CASE ReadEnd
  <2>1. /\ outcome' = [type |-> "error"] /\ toRunner = <<>>
        /\ UNCHANGED <<setting, token, expired, toBackend, toRunner, backend, measured>>
    BY <1>1 DEF ReadEnd, Ends, pipes
  <2>2. Got' /\ LastOfOne' /\ Chosen' BY <2>1, RunnerKeeps DEF IInv
  <2>3. AnswersMeasured' /\ NothingYet' BY <2>1, SameAnswers
  <2>4. Fine' BY <2>1, NoResult DEF Fine, Left
  <2> QED BY <2>2, <2>3, <2>4 DEF MInv
<1>2. CASE Finish
  <2>1. /\ runner.at = "ended" /\ runner'.at = "finished"
        /\ backend' = [backend EXCEPT !.at = "exited"]
        /\ UNCHANGED <<setting, token, expired, toBackend, toRunner, measured, outcome>>
    BY <1>2 DEF Finish, pipes, IInv, TypeOK, Runner
  <2>2. (\A r : Left(r)' => Left(r)) /\ (Sealed => Sealed')
    BY <2>1 DEF Left, Sealed, Busy, Own, May
  <2> QED BY <2>1, <2>2, EndsMeasured
<1> QED BY <1>1, <1>2, TopMeasured, ReadMeasured, DecideMeasured, EvaluateMeasured
     DEF RunnerStep

(* An alive backend that leaves nothing.                                    *)
LEMMA LeavesNothing ==
  ASSUME MInv, Alive, UNCHANGED <<runner, outcome>>,
         \/ UNCHANGED toRunner
         \/ \E m : m \notin Result /\ toRunner' = Append(toRunner, m),
         TypeOK
  PROVE  Fine'
<1>1. \A r \in Result : ~Left(r) BY AliveLeftNothing
<1>2. ASSUME NEW r \in Result, NEW k \in DOMAIN toRunner', toRunner'[k] = r PROVE FALSE
  <2>1. CASE UNCHANGED toRunner BY <1>1, <1>2, <2>1 DEF Left
  <2>2. ASSUME NEW m, m \notin Result, toRunner' = Append(toRunner, m) PROVE FALSE
    <3>1. toRunner \in Seq(Message) BY DEF TypeOK
    <3>2. (k \in DOMAIN toRunner /\ toRunner'[k] = toRunner[k]) \/ toRunner'[k] = m
      BY <1>2, <2>2, <3>1
    <3> QED BY <1>1, <1>2, <2>2, <3>2 DEF Left
  <2> QED BY <2>1, <2>2
<1>3. \A r \in Result : ~Left(r)' BY <1>1, <1>2 DEF Left
<1> QED BY <1>3 DEF Fine

LEMMA EvaluateIsNoResult ==
  ASSUME NEW c
  PROVE  [type |-> "evaluate", values |-> c] \notin Result
BY DEF Result

(* What a backend may leave.                                                *)
Fit(m) ==
  m \in Result =>
    \/ m.x = None \/ Honest(m.x, m.objective)
    \/ m.x = Initial /\ m.objective = Zero /\ measured = {} /\ Sealed

LEMMA LeaveMeasured ==
  ASSUME IInv, MInv, Alive, AnswersMeasured',
         NEW m \in Result \cup Error, Leave(m), Fit(m),
         UNCHANGED <<setting, token, expired, runner, measured, outcome>>
  PROVE  MInv'
<1>1. /\ backend'.at = "exited" /\ backend'.token = backend.token
      /\ backend'.got = backend.got /\ backend'.lastX = backend.lastX
      /\ backend'.lastResult = backend.lastResult
  BY DEF Leave, IInv, TypeOK, Backend
<1>2. Stop' <=> Stop BY <1>1 DEF Stop, Stopping, Own, May
<1>3. Got' /\ LastOfOne' BY <1>1, <1>2 DEF MInv, Got, LastOfOne, Measured
<1>4. NothingYet' /\ Chosen' /\ ~Alive' BY <1>1 DEF NothingYet, Chosen, Alive
<1>5. /\ toRunner \in Seq(Message) /\ toRunner' = Append(toRunner, m)
      /\ m.type # "evaluate"
  BY DEF IInv, TypeOK, Leave, Result, Error
<1>6. \A k \in DOMAIN toRunner' :
        (k \in DOMAIN toRunner /\ toRunner'[k] = toRunner[k]) \/ toRunner'[k] = m
  BY <1>5
<1>7. Sealed => Sealed' BY <1>5, <1>6 DEF Sealed, Busy, Own, May
<1>8. \A r \in Result : Left(r)' => r = m
  <2>1. \A r \in Result : ~Left(r) BY AliveLeftNothing
  <2> QED BY <1>6, <2>1 DEF Left
<1>9. \A x, o : Honest(x, o) => Honest(x, o)' BY <1>1, <1>2, HonestStays
<1>10. m \in Result => FineResult(m)' BY <1>4, <1>7, <1>9 DEF Fit, FineResult
<1>11. Fine' BY <1>8, <1>10 DEF Fine
<1> QED BY <1>3, <1>4, <1>11 DEF MInv

(* Whoever solves, or gets an answer, is evaluated no more.                 *)
LEMMA SolvingSealed ==
  ASSUME IInv, Alive, backend.at \notin {"asking", "confirming"} \/ toBackend # <<>>
  PROVE  Sealed
<1>1. CASE ToldToStop BY <1>1 DEF ToldToStop, Sealed
<1>2. CASE InTurn
  <2>1. ~Busy /\ toRunner = <<>> BY <1>2 DEF InTurn, Waiting
  <2> QED BY <2>1 DEF Sealed
<1> QED BY <1>1, <1>2 DEF IInv

LEMMA StoppedFits ==
  ASSUME IInv, MInv, Alive,
         \/ backend.at = "solving"
         \/ backend.at = "asking" /\ toBackend # <<>> /\ Head(toBackend).type = "cancel"
  PROVE  Fit(Stopped)
<1>1. CASE May("population")
  <2>1. Stopped.x = None BY <1>1 DEF Stopped, Report
  <2> QED BY <2>1 DEF Fit
<1>2. CASE ~May("population") /\ backend.lastX # None
  <2>1. backend.lastResult = backend.lastX /\ backend.lastX \in measured
    BY <1>2 DEF MInv, LastOfOne
  <2>2. Stopped.x = backend.lastX /\ Stopped.objective = backend.lastResult
    BY <1>2, <2>1 DEF Stopped, Report
  <2>3. Honest(Stopped.x, Stopped.objective) BY <2>1, <2>2 DEF Honest, Measured
  <2> QED BY <2>3 DEF Fit
<1>3. CASE ~May("population") /\ backend.lastX = None
  <2>1. backend.lastResult = None BY <1>3 DEF MInv, LastOfOne
  <2>2. Stopped.x = Initial /\ Stopped.objective = Zero
    BY <1>3, <2>1 DEF Stopped, Report
  <2>3. measured = {} BY <1>3 DEF MInv, NothingYet
  <2>4. Sealed BY SolvingSealed
  <2> QED BY <2>2, <2>3, <2>4 DEF Fit
<1> QED BY <1>1, <1>2, <1>3

LEMMA RaisedFits == Fit(Raised)
<1>1. Raised.x = None \/ Raised = [type |-> "error"] BY DEF Raised, Report
<1> QED BY <1>1, NoResult DEF Fit

LEMMA TailMeasured ==
  ASSUME IInv, MInv, toBackend # <<>>, toBackend' = Tail(toBackend),
         measured' = measured
  PROVE  AnswersMeasured'
<1>1. toBackend \in Seq(Answer) BY DEF IInv, TypeOK
<1>2. /\ Len(toBackend) \in Nat /\ Len(Tail(toBackend)) = Len(toBackend) - 1
      /\ \A k \in 1..Len(Tail(toBackend)) : Tail(toBackend)[k] = toBackend[k + 1]
  BY <1>1, HeadTailProperties, LenProperties
<1>3. /\ DOMAIN toBackend = 1..Len(toBackend)
      /\ DOMAIN Tail(toBackend) = 1..Len(Tail(toBackend))
  BY <1>1, HeadTailProperties, LenProperties
<1>4. \A k \in DOMAIN Tail(toBackend) : k + 1 \in DOMAIN toBackend BY <1>2, <1>3
<1> QED BY <1>2, <1>3, <1>4 DEF MInv, AnswersMeasured

(* An answer with a result is to the candidate asked for, and measured.     *)
LEMMA AnswerIsMeasured ==
  ASSUME IInv, MInv, Waiting, toBackend # <<>>, Head(toBackend).type = "eval_result"
  PROVE  Head(toBackend).of = backend.x /\ backend.x \in measured
<1>1. Head(toBackend).of = backend.x BY InvAnswers DEF AnswersMatch, Waiting
<1>2. Head(toBackend) = toBackend[1] /\ 1 \in DOMAIN toBackend
  BY HeadTailProperties, EmptySeq, LenProperties DEF IInv, TypeOK
<1> QED BY <1>1, <1>2 DEF MInv, AnswersMeasured

LEMMA WantMeasured ==
  ASSUME IInv, IInv', MInv, NEW c \in Candidate, Want(c)
  PROVE  MInv'
<1>1. /\ backend.at = "solving"
      /\ UNCHANGED <<setting, token, expired, toBackend, runner, measured, outcome>>
  BY DEF Want
<1>2. Alive BY <1>1 DEF Alive
<1>3. AnswersMeasured' BY <1>1 DEF MInv, AnswersMeasured
<1>4. CASE Stop
  <2>1. /\ backend'.at = "solving" /\ backend'.lastX = backend.lastX
        /\ backend'.lastResult = backend.lastResult
        /\ backend'.token = (backend.token \/ "backend" \in expired)
        /\ toRunner' = toRunner
    BY <1>1, <1>4 DEF Want, Stop, IInv, TypeOK, Backend
  <2>2. Stop' BY <1>1, <1>4, <2>1 DEF Stop, Stopping, Own, May
  <2>3. Got' /\ Chosen' BY <2>1, <2>2 DEF Got, Chosen
  <2>4. LastOfOne' /\ NothingYet' BY <1>1, <2>1 DEF MInv, LastOfOne, NothingYet
  <2>5. Fine' BY <1>1, <1>2, <2>1, LeavesNothing DEF IInv
  <2> QED BY <1>3, <2>3, <2>4, <2>5 DEF MInv
<1>5. CASE ~Stop
  <2>1. Ask(c, "asking") BY <1>5 DEF Want, Stop
  <2>2. /\ backend'.at = "asking" /\ backend'.lastX = backend.lastX
        /\ backend'.lastResult = backend.lastResult /\ backend'.got = backend.got
        /\ backend'.token = backend.token
    BY <2>1 DEF Ask, IInv, TypeOK, Backend
  <2>3. Stop' <=> Stop BY <1>1, <2>2 DEF Stop, Stopping, Own, May
  <2>4. Got' /\ LastOfOne' /\ NothingYet' /\ Chosen'
    BY <1>1, <2>2, <2>3 DEF MInv, Got, LastOfOne, NothingYet, Chosen, Measured
  <2>5. \E m : m \notin Result /\ toRunner' = Append(toRunner, m)
    BY <2>1, EvaluateIsNoResult DEF Ask
  <2>6. Fine' BY <1>1, <1>2, <2>5, LeavesNothing DEF IInv
  <2> QED BY <1>3, <2>4, <2>6 DEF MInv
<1> QED BY <1>4, <1>5

LEMMA AnsweredMeasured == ASSUME IInv, IInv', MInv, Answered PROVE MInv'
<1>1. /\ backend.at = "asking" /\ toBackend # <<>> /\ toBackend' = Tail(toBackend)
      /\ UNCHANGED <<setting, token, expired, runner, measured, outcome>>
  BY DEF Answered
<1>2. Alive /\ Waiting BY <1>1 DEF Alive, Waiting
<1>3. AnswersMeasured' BY <1>1, TailMeasured
<1>4. CASE Head(toBackend).type = "eval_result"
  <2>1. Head(toBackend).of = backend.x /\ backend.x \in measured
    BY <1>1, <1>2, <1>4, AnswerIsMeasured
  <2>2. /\ backend' = [backend EXCEPT !.at = "solving", !.lastX = backend.x,
                         !.lastResult = backend.x,
                         !.got = backend.got \cup {<<backend.x, backend.x>>}]
        /\ toRunner' = toRunner
    BY <1>4, <2>1 DEF Answered
  <2>3. /\ backend'.at = "solving" /\ backend'.lastX = backend.x
        /\ backend'.lastResult = backend.x /\ backend'.token = backend.token
        /\ backend'.got = backend.got \cup {<<backend.x, backend.x>>}
    BY <2>2 DEF IInv, TypeOK, Backend
  <2>4. Stop' <=> Stop BY <1>1, <2>3 DEF Stop, Stopping, Own, May
  <2>5. Got' BY <1>1, <2>1, <2>3, <2>4 DEF MInv, Got, Measured
  <2>6. backend.x # None BY <1>1, RunAssumption DEF IInv, TypeOK
  <2>7. LastOfOne' /\ NothingYet' /\ Chosen'
    BY <1>1, <2>1, <2>3, <2>6 DEF LastOfOne, NothingYet, Chosen
  <2>8. Fine' BY <1>1, <1>2, <2>2, LeavesNothing DEF IInv
  <2> QED BY <1>3, <2>5, <2>7, <2>8 DEF MInv
<1>5. CASE Head(toBackend).type = "cancel"
  <2>1. Leave(Stopped) BY <1>5 DEF Answered
  <2>2. Stopped \in Result BY StoppedTypes DEF IInv, TypeOK
  <2>3. Fit(Stopped) BY <1>1, <1>2, <1>5, StoppedFits
  <2> QED BY <1>1, <1>2, <1>3, <2>1, <2>2, <2>3, LeaveMeasured
<1>6. CASE Head(toBackend).type = "eval_error"
  <2>1. Leave(Raised) BY <1>6 DEF Answered
  <2>2. Raised \in Result \cup Error BY StoppedTypes DEF IInv, TypeOK
  <2> QED BY <1>1, <1>2, <1>3, <2>1, <2>2, RaisedFits, LeaveMeasured
<1>7. Head(toBackend) \in Answer BY <1>1, HeadTailProperties DEF IInv, TypeOK
<1> QED BY <1>4, <1>5, <1>6, <1>7, AnswerCases

(* A backend of scipy that has chosen its point.                            *)
LEMMA ChosenMeasured ==
  ASSUME IInv, MInv, backend.at \in {"solving", "final", "confirming"},
         backend'.at \in {"final", "confirming"}, backend'.token = backend.token,
         backend'.got = backend.got, backend'.lastX = backend.lastX,
         backend'.lastResult = backend.lastResult,
         Honest(backend'.x, backend'.objective), AnswersMeasured',
         UNCHANGED <<setting, token, expired, runner, measured, outcome>>,
         \/ UNCHANGED toRunner
         \/ \E m : m \notin Result /\ toRunner' = Append(toRunner, m)
  PROVE  MInv'
<1>1. Stop' <=> Stop BY DEF Stop, Stopping, Own, May
<1>2. Got' /\ LastOfOne' BY <1>1 DEF MInv, Got, LastOfOne, Measured
<1>3. Chosen' BY <1>1 DEF Chosen, Honest, Measured
<1>4. NothingYet' BY DEF NothingYet
<1>5. Fine' BY LeavesNothing DEF Alive, IInv
<1> QED BY <1>2, <1>3, <1>4, <1>5 DEF MInv

LEMMA BackendMeasured == ASSUME IInv, IInv', MInv, BackendStep PROVE MInv'
<1> USE DEF pipes
<1>1. ASSUME NEW c \in Candidate, Want(c) PROVE MInv' BY <1>1, WantMeasured
<1>2. CASE Answered BY <1>2, AnsweredMeasured
<1>3. CASE Callback
  <2>1. /\ backend.at = "solving" /\ Leave(Stopped)
        /\ UNCHANGED <<setting, token, expired, toBackend, runner, measured, outcome>>
    BY <1>3 DEF Callback
  <2>2. Alive /\ AnswersMeasured' BY <2>1 DEF Alive, MInv, AnswersMeasured
  <2>3. Stopped \in Result BY StoppedTypes DEF IInv, TypeOK
  <2>4. Fit(Stopped) BY <2>1, <2>2, StoppedFits
  <2> QED BY <2>1, <2>2, <2>3, <2>4, LeaveMeasured
<1>4. CASE Optimized
  <2> DEFINE status == IF "backend" \in expired THEN "timeout" ELSE "optimal"
  <2>1. /\ backend.at = "solving"
        /\ UNCHANGED <<setting, token, expired, toBackend, runner, measured, outcome>>
    BY <1>4 DEF Optimized
  <2>2. PICK p \in backend.got : Leave(Report(status, p[1], p[2])) BY <1>4 DEF Optimized
  <2>3. Alive /\ AnswersMeasured' BY <2>1 DEF Alive, MInv, AnswersMeasured
  <2>4. p \in Candidate \X Value BY DEF IInv, TypeOK, Backend
  <2>5. status \in Status BY DEF Status
  <2> HIDE DEF status
  <2>6. Report(status, p[1], p[2]) \in Result BY <2>4, <2>5, Messages DEF Point
  <2>7. p = <<p[1], p[2]>> BY <2>4
  <2>8. Honest(p[1], p[2]) BY <2>7 DEF MInv, Got, Honest
  <2>9. Fit(Report(status, p[1], p[2])) BY <2>8 DEF Fit, Report
  <2> QED BY <2>1, <2>2, <2>3, <2>6, <2>9, LeaveMeasured
<1>5. CASE Minimized
  <2>1. PICK p \in backend.got, left \in SUBSET {"objectives", "constraints"} :
          backend' = [backend EXCEPT
            !.at = "final", !.x = p[1], !.objective = p[2], !.left = left,
            !.status = IF backend.timedOut THEN "timeout"
                       ELSE IF Stopping THEN "cancelled" ELSE "optimal"]
    BY <1>5 DEF Minimized
  <2>2. /\ backend'.at = "final" /\ backend'.token = backend.token
        /\ backend'.got = backend.got /\ backend'.lastX = backend.lastX
        /\ backend'.lastResult = backend.lastResult
        /\ backend'.x = p[1] /\ backend'.objective = p[2]
    BY <2>1 DEF IInv, TypeOK, Backend
  <2>3. p \in Candidate \X Value BY DEF IInv, TypeOK, Backend
  <2>4. p = <<p[1], p[2]>> BY <2>3
  <2>5. Honest(p[1], p[2]) BY <2>4 DEF MInv, Got, Honest
  <2>6. /\ backend.at = "solving"
        /\ UNCHANGED <<setting, token, expired, toBackend, toRunner, runner, measured, outcome>>
    BY <1>5 DEF Minimized
  <2>7. AnswersMeasured' BY <2>6 DEF MInv, AnswersMeasured
  <2> QED BY <2>2, <2>5, <2>6, <2>7, ChosenMeasured
<1>6. CASE Confirm
  <2>1. /\ backend.at = "final" /\ Ask(backend.x, "confirming")
        /\ UNCHANGED <<setting, token, expired, toBackend, runner, measured, outcome>>
    BY <1>6 DEF Confirm
  <2>2. /\ backend'.at = "confirming" /\ backend'.token = backend.token
        /\ backend'.got = backend.got /\ backend'.lastX = backend.lastX
        /\ backend'.lastResult = backend.lastResult
        /\ backend'.x = backend.x /\ backend'.objective = backend.objective
    BY <2>1 DEF Ask, IInv, TypeOK, Backend
  <2>3. Honest(backend.x, backend.objective) BY <2>1 DEF MInv, Chosen
  <2>4. \E m : m \notin Result /\ toRunner' = Append(toRunner, m)
    BY <2>1, EvaluateIsNoResult DEF Ask
  <2>5. AnswersMeasured' BY <2>1 DEF MInv, AnswersMeasured
  <2> QED BY <2>1, <2>2, <2>3, <2>4, <2>5, ChosenMeasured
<1>7. CASE Confirmed
  <2> DEFINE result == Head(toBackend).type = "eval_result" /\ "objectives" \in backend.left
  <2>1. /\ backend.at = "confirming" /\ toBackend # <<>> /\ toBackend' = Tail(toBackend)
        /\ UNCHANGED <<setting, token, expired, toRunner, runner, measured, outcome>>
    BY <1>7 DEF Confirmed
  <2>2. /\ backend'.at = "final" /\ backend'.token = backend.token
        /\ backend'.got = backend.got /\ backend'.lastX = backend.lastX
        /\ backend'.lastResult = backend.lastResult /\ backend'.x = backend.x
        /\ backend'.objective = IF result THEN Head(toBackend).of ELSE backend.objective
    BY <1>7 DEF Confirmed, IInv, TypeOK, Backend
  <2>3. Honest(backend.x, backend.objective) BY <2>1 DEF MInv, Chosen
  <2>4. result => Head(toBackend).of = backend.x /\ backend.x \in measured
    BY <2>1, AnswerIsMeasured DEF Waiting
  <2>5. Honest(backend'.x, backend'.objective)
    BY <2>2, <2>3, <2>4 DEF Honest, Measured
  <2>6. AnswersMeasured' BY <2>1, TailMeasured
  <2> QED BY <2>1, <2>2, <2>5, <2>6, ChosenMeasured
<1>8. CASE Return
  <2>1. /\ backend.at = "final" /\ Leave(Report(backend.status, backend.x, backend.objective))
        /\ UNCHANGED <<setting, token, expired, toBackend, runner, measured, outcome>>
    BY <1>8 DEF Return
  <2>2. Alive /\ AnswersMeasured' BY <2>1 DEF Alive, MInv, AnswersMeasured
  <2>3. backend.status \in Status /\ backend.x \in Point /\ backend.objective \in Value
    BY DEF IInv, TypeOK, Backend
  <2>4. Report(backend.status, backend.x, backend.objective) \in Result BY <2>3, Messages
  <2>5. Honest(backend.x, backend.objective) BY <2>1 DEF MInv, Chosen
  <2>6. Fit(Report(backend.status, backend.x, backend.objective)) BY <2>5 DEF Fit, Report
  <2> QED BY <2>1, <2>2, <2>4, <2>6, LeaveMeasured
<1> QED BY <1>1, <1>2, <1>3, <1>4, <1>5, <1>6, <1>7, <1>8 DEF BackendStep

LEMMA MeasuredInductive == ASSUME IInv, IInv', MInv, [Next]_vars PROVE MInv'
<1>1. CASE RunnerStep BY <1>1, RunnerMeasured
<1>2. CASE BackendStep BY <1>2, BackendMeasured
<1>3. CASE Crash
  <2>1. /\ backend' = [backend EXCEPT !.at = "exited"]
        /\ UNCHANGED <<setting, token, expired, toBackend, toRunner, runner, measured, outcome>>
    BY <1>3 DEF Crash, pipes
  <2>2. (\A r : Left(r)' => Left(r)) /\ (Sealed => Sealed')
    BY <2>1 DEF Left, Sealed, Busy, Own, May
  <2> QED BY <2>1, <2>2, EndsMeasured
<1>4. ASSUME token => token', expired \subseteq expired',
             UNCHANGED <<setting, pipes, runner, backend, measured, outcome>>
      PROVE  MInv'
  <2>1. UNCHANGED <<setting, toBackend, toRunner, runner, backend, measured, outcome>>
    BY <1>4 DEF pipes
  <2>2. Stop => Stop' BY <1>4, <2>1 DEF Stop, Stopping, Own, May
  <2>3. Got' /\ LastOfOne' BY <2>1, <2>2 DEF MInv, Got, LastOfOne, Measured
  <2>4. AnswersMeasured' /\ NothingYet' BY <2>1, SameAnswers
  <2>5. Chosen' BY <2>1, <2>2, HonestStays DEF MInv, Chosen
  <2>6. Sealed => Sealed' BY <1>4, <2>1 DEF Sealed, Busy, Own, May
  <2>7. (~Alive => ~Alive') /\ \A r : Left(r)' => Left(r) BY <2>1 DEF Alive, Left
  <2>8. Fine' BY <2>1, <2>2, <2>6, <2>7, KeepsFine
  <2> QED BY <2>3, <2>4, <2>5, <2>8 DEF MInv
<1>5. CASE Cancel BY <1>4, <1>5 DEF Cancel
<1>6. CASE Over \/ UNCHANGED vars BY <1>4, <1>6 DEF Over, vars
<1>7. ASSUME NEW who \in {"runner", "backend"}, Expire(who) PROVE MInv'
  BY <1>4, <1>7 DEF Expire
<1> QED BY <1>1, <1>2, <1>3, <1>5, <1>6, <1>7 DEF Next

LEMMA MeasuredReported == ASSUME IInv, MInv PROVE ReportedAsMeasured
<1>1. SUFFICES ASSUME outcome # None, outcome \notin Error, outcome.x # None
               PROVE  \/ outcome.x = outcome.objective /\ outcome.x \in measured
                      \/ outcome.x = Initial /\ outcome.objective = Zero /\ measured = {}
                      \/ /\ Stopping \/ "backend" \in expired
                         /\ <<outcome.x, outcome.objective>> \in backend.got
  BY DEF ReportedAsMeasured
<1>2. runner.at \in {"ended", "finished"} /\ outcome \in Result BY <1>1 DEF IInv, TypeOK
<1>3. FineResult(outcome) BY <1>2 DEF MInv, Fine, Left
<1> QED BY <1>1, <1>3 DEF FineResult, Honest, Measured, Stop

(* A job never reports objectives that were not measured for the point it   *)
(* reports, for any number of candidates and evaluations, wherever a        *)
(* cancellation, a deadline, an error or the end of the process falls:      *)
(* only a stopped job may report what its optimizer was given instead.      *)
THEOREM ReportedTheorem == Spec => []ReportedAsMeasured
<1>1. Init => IInv /\ MInv BY InitInv, InitMeasured
<1>2. IInv /\ MInv /\ [Next]_vars => (IInv /\ MInv)' BY InvInductive, MeasuredInductive
<1>3. IInv /\ MInv => ReportedAsMeasured BY MeasuredReported
<1> QED BY <1>1, <1>2, <1>3, PTL DEF Spec

================================================================================
