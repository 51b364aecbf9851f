------------------------- MODULE RemoteEngine_proofs -------------------------
(***************************************************************************)
(* Proofs about RemoteEngine and the calls of RemoteConnection: the types, *)
(* that every call gets its own answer, how often it is executed and that  *)
(* the breaker is heeded, and that the copy is fresh, for any threads,     *)
(* operations, ids, settings and numbers of attempts.                      *)
(***************************************************************************)
EXTENDS RemoteEngine, FiniteSetTheorems, SequenceTheorems, TLAPS

(* A workspace, or none.                                                    *)
Copy == {S \in SUBSET Workspace : \A v, w \in S : v = w}

Request == [id : Id, op : Op, live : BOOLEAN]
Reply == [id : Id, data : Copy, failed : BOOLEAN]

(* The record of a call under way.                                          *)
Live == [phase : Phase, op : Op, ids : SUBSET Id, attempt : 0..Attempts - 1,
         executed : Nat, how : How \cup {None}, reply : {None} \cup Reply]

ConnectionType ==
  /\ setting \in Settings /\ up \in BOOLEAN /\ sock \in Socket
  /\ requests \in SUBSET Request /\ replies \in Seq(Reply)
  /\ lock \in Thread \cup {None}
  /\ failures \in 0..Threshold /\ open \in BOOLEAN /\ shut \in BOOLEAN
  /\ call \in [Thread -> {Idle} \cup Live]

(* What a method has done.                                                  *)
Batch == [calls : 0..MaxBatch - 1, things : SUBSET Thing, on : SUBSET Cell, off : SUBSET Cell]

EngineType ==
  /\ server \in [now : Workspace, before : Seq(Workspace)]
  /\ local \in SUBSET Cell /\ cached \in Copy
  /\ own \in BOOLEAN /\ pending \in BOOLEAN
  /\ wsLock # None => wsLock \in Busy /\ call[wsLock].op.kind = "get"
  /\ made \in [Thread -> Batch]
  /\ \A t \in Thread : call[t] = Idle => made[t] = Nothing
  /\ untold \in [things : SUBSET Thing, cells : SUBSET Cell]

(* What comes over a socket needs one.                                      *)
SocketNeeded ==
  /\ \A r \in requests : r.live => sock # "none"
  /\ replies # <<>> => sock # "none"

(* Who has the lock is past it, and not at the end.                         *)
LockHeld == \A t \in Thread : call[t].phase \in {"holds", "attempt", "await"} <=> lock = t

(* A call that was answered has its answer.                                 *)
HasReply == \A t \in Thread :
  call[t] # Idle /\ call[t].how \in {"ok", "error"} => call[t].reply \in Reply

TypeInv ==
  ConnectionType /\ EngineType /\ SocketNeeded /\ LockHeld /\ HasReply

-----------------------------------------------------------------------------
(* What the parts of an action do to the calls.                             *)

(* A call that is under way is not idle.                                    *)
LEMMA LiveNotIdle ==
  /\ \A c \in Live : c # Idle /\ c.phase # "idle"
  /\ Idle.phase = "idle" /\ Idle.ids = {}
BY DEF Live, Idle, Phase

(* A call that has a phase of its own is under way.                         *)
LEMMA PhaseLive ==
  ASSUME ConnectionType, NEW t \in Thread, call[t].phase # "idle"
  PROVE  call[t] \in Live
BY LiveNotIdle DEF ConnectionType

(* Only the call of one thread changes.                                     *)
OnlyCall(t) == \A u \in Thread \ {t} : call'[u] = call[u]

(* A call that ends keeps its operation and what it has asked for.          *)
LEMMA EndedCall ==
  ASSUME ConnectionType, NEW t \in Thread, call[t] \in Live,
         NEW how \in How, NEW reply \in {None} \cup Reply, Ended(t, how, reply)
  PROVE  /\ call' \in [Thread -> {Idle} \cup Live] /\ OnlyCall(t)
         /\ call'[t] \in Live
         /\ call'[t].phase = "done" /\ call'[t].how = how /\ call'[t].reply = reply
         /\ call'[t].op = call[t].op /\ call'[t].ids = call[t].ids
         /\ call'[t].attempt = call[t].attempt /\ call'[t].executed = call[t].executed
<1>1. call' = [call EXCEPT ![t] = [call[t] EXCEPT !.phase = "done", !.how = how, !.reply = reply]]
  BY DEF Ended, ConnectionType
<1>2. [call[t] EXCEPT !.phase = "done", !.how = how, !.reply = reply] \in Live
  BY DEF Live, Phase
<1>3. PICK c \in Live : c = [call[t] EXCEPT !.phase = "done", !.how = how, !.reply = reply]
  BY <1>2
<1>4. /\ c.phase = "done" /\ c.how = how /\ c.reply = reply
      /\ c.op = call[t].op /\ c.ids = call[t].ids
      /\ c.attempt = call[t].attempt /\ c.executed = call[t].executed
  BY <1>3 DEF Live
<1>5. call'[t] = c /\ OnlyCall(t) /\ call' \in [Thread -> {Idle} \cup Live]
  BY <1>1, <1>3 DEF ConnectionType, OnlyCall
<1> QED
  BY <1>4, <1>5

(* A call that goes on keeps all but its phase,                             *)
LEMMA PhaseCall ==
  ASSUME ConnectionType, NEW t \in Thread, call[t] \in Live, NEW p \in Phase,
         call' = [call EXCEPT ![t].phase = p]
  PROVE  /\ call' \in [Thread -> {Idle} \cup Live] /\ OnlyCall(t)
         /\ call'[t] \in Live /\ call'[t].phase = p
         /\ call'[t].how = call[t].how /\ call'[t].reply = call[t].reply
         /\ call'[t].op = call[t].op /\ call'[t].ids = call[t].ids
         /\ call'[t].attempt = call[t].attempt /\ call'[t].executed = call[t].executed
<1>3. PICK c \in Live : c = [call[t] EXCEPT !.phase = p]
  BY DEF Live
<1>4. /\ c.phase = p /\ c.how = call[t].how /\ c.reply = call[t].reply
      /\ c.op = call[t].op /\ c.ids = call[t].ids
      /\ c.attempt = call[t].attempt /\ c.executed = call[t].executed
  BY <1>3 DEF Live
<1>5. call'[t] = c /\ OnlyCall(t) /\ call' \in [Thread -> {Idle} \cup Live]
  BY <1>3 DEF ConnectionType, OnlyCall
<1> QED
  BY <1>4, <1>5

(* and its attempt, when there is another,                                  *)
LEMMA RetriedCall ==
  ASSUME ConnectionType, NEW t \in Thread, call[t] \in Live,
         call[t].attempt # Attempts - 1,
         call' = [call EXCEPT ![t].phase = "attempt", ![t].attempt = @ + 1]
  PROVE  /\ call' \in [Thread -> {Idle} \cup Live] /\ OnlyCall(t)
         /\ call'[t] \in Live /\ call'[t].phase = "attempt"
         /\ call'[t].how = call[t].how /\ call'[t].reply = call[t].reply
         /\ call'[t].op = call[t].op /\ call'[t].ids = call[t].ids
         /\ call'[t].attempt = call[t].attempt + 1
         /\ call'[t].executed = call[t].executed
<1>1. call[t].attempt + 1 \in 0..Attempts - 1
  BY ConnectionAssumption DEF Live
<1>3. PICK c \in Live : c = [call[t] EXCEPT !.phase = "attempt", !.attempt = @ + 1]
  BY <1>1 DEF Live, Phase
<1>4. /\ c.phase = "attempt" /\ c.how = call[t].how /\ c.reply = call[t].reply
      /\ c.op = call[t].op /\ c.ids = call[t].ids
      /\ c.attempt = call[t].attempt + 1 /\ c.executed = call[t].executed
  BY <1>3 DEF Live
<1>5. call'[t] = c /\ OnlyCall(t) /\ call' \in [Thread -> {Idle} \cup Live]
  BY <1>3 DEF ConnectionType, OnlyCall
<1> QED
  BY <1>4, <1>5

(* and its ids, when it has sent a request.                                 *)
LEMMA SentCall ==
  ASSUME ConnectionType, NEW t \in Thread, call[t] \in Live, NEW i \in Id,
         call' = [call EXCEPT ![t].phase = "await", ![t].ids = @ \cup {i}]
  PROVE  /\ call' \in [Thread -> {Idle} \cup Live] /\ OnlyCall(t)
         /\ call'[t] \in Live /\ call'[t].phase = "await"
         /\ call'[t].how = call[t].how /\ call'[t].reply = call[t].reply
         /\ call'[t].op = call[t].op /\ call'[t].ids = call[t].ids \cup {i}
         /\ call'[t].attempt = call[t].attempt /\ call'[t].executed = call[t].executed
<1>1. call[t].ids \cup {i} \in SUBSET Id
  BY DEF Live
<1>3. PICK c \in Live : c = [call[t] EXCEPT !.phase = "await", !.ids = @ \cup {i}]
  BY <1>1 DEF Live, Phase
<1>4. /\ c.phase = "await" /\ c.how = call[t].how /\ c.reply = call[t].reply
      /\ c.op = call[t].op /\ c.ids = call[t].ids \cup {i}
      /\ c.attempt = call[t].attempt /\ c.executed = call[t].executed
  BY <1>3 DEF Live
<1>5. call'[t] = c /\ OnlyCall(t) /\ call' \in [Thread -> {Idle} \cup Live]
  BY <1>3 DEF ConnectionType, OnlyCall
<1> QED
  BY <1>4, <1>5

(* The ids of requests that were not executed.                              *)
Pending == {r.id : r \in requests}

(* What was sent over a socket that is closed may still be executed, but is *)
(* not answered.                                                            *)
LEMMA ClosedSocket ==
  ASSUME ConnectionType, SocketClosed
  PROVE  /\ requests' \in SUBSET Request /\ Pending' = Pending
         /\ \A r \in requests' : ~r.live
         /\ (\A r, s \in requests : r.id = s.id => r = s)
              => \A r, s \in requests' : r.id = s.id => r = s
<1> DEFINE Dead(r) == [r EXCEPT !.live = FALSE]
<1>1. \A r \in requests : Dead(r) \in Request /\ Dead(r).id = r.id /\ ~Dead(r).live
  BY DEF ConnectionType, Request
<1>2. requests' = {Dead(r) : r \in requests}
  BY DEF SocketClosed
<1> HIDE DEF Dead
<1>3. requests' \in SUBSET Request /\ \A r \in requests' : ~r.live
  BY <1>1, <1>2
<1>4. Pending' = Pending
  BY <1>1, <1>2 DEF Pending
<1>5. ASSUME \A r, s \in requests : r.id = s.id => r = s,
             NEW r \in requests', NEW s \in requests', r.id = s.id
      PROVE  r = s
  <2>1. PICK q \in requests : r = Dead(q)
    BY <1>2
  <2>2. PICK p \in requests : s = Dead(p)
    BY <1>2
  <2>3. q.id = p.id
    BY <1>1, <1>5, <2>1, <2>2
  <2> QED
    BY <1>5, <2>1, <2>2, <2>3
<1> QED
  BY <1>3, <1>4, <1>5

-----------------------------------------------------------------------------
(* What a step of a call does, one way of going on after the other.         *)

Moves(t, from, to) ==
  /\ call[t] \in Live /\ call'[t] \in Live
  /\ call[t].phase \in from /\ call'[t].phase = to
  /\ call'[t].op = call[t].op /\ call'[t].executed = call[t].executed
  /\ call' \in [Thread -> {Idle} \cup Live] /\ OnlyCall(t)

SameIds(t) == call'[t].ids = call[t].ids /\ call'[t].attempt = call[t].attempt
SameOutcome(t) == call'[t].how = call[t].how /\ call'[t].reply = call[t].reply
Outcome(t, how, reply) == call'[t].how = how /\ call'[t].reply = reply

Acquires(t) ==
  /\ Moves(t, {"wants"}, "holds") /\ SameIds(t) /\ SameOutcome(t)
  /\ lock = None /\ lock' = t
  /\ UNCHANGED <<netVars, breakerVars>>

Refused(t) ==
  /\ Moves(t, {"wants", "holds"}, "done") /\ SameIds(t)
  /\ Outcome(t, "refused", None)
  /\ lock' = IF lock = t THEN None ELSE lock
  /\ UNCHANGED <<netVars, breakerVars>>

Passes(t) ==
  /\ Moves(t, {"holds"}, "attempt") /\ SameIds(t) /\ SameOutcome(t)
  /\ ~(open /\ failures >= Threshold)
  /\ UNCHANGED <<netVars, breakerVars, lock>>

Connects(t) ==
  /\ Moves(t, {"attempt"}, "attempt") /\ SameIds(t) /\ SameOutcome(t)
  /\ sock = "none" /\ sock' = "open"
  /\ UNCHANGED <<up, requests, replies, breakerVars, lock>>

Sends(t) ==
  /\ Moves(t, {"attempt"}, "await") /\ SameOutcome(t)
  /\ call'[t].attempt = call[t].attempt
  /\ sock # "none"
  /\ \E i \in Id :
       /\ i \notin InUse
       /\ call'[t].ids = call[t].ids \cup {i}
       /\ requests' = IF sock # "open" THEN requests
                      ELSE requests \cup {[id |-> i, op |-> call[t].op, live |-> TRUE]}
  /\ UNCHANGED <<up, sock, replies, breakerVars, lock>>

Retries(t) ==
  /\ Moves(t, {"attempt", "await"}, "attempt") /\ SameOutcome(t)
  /\ call'[t].ids = call[t].ids /\ call'[t].attempt = call[t].attempt + 1
  /\ SocketClosed
  /\ failures' \in 0..Threshold /\ failures' < Threshold /\ open' \in BOOLEAN
  /\ UNCHANGED <<up, lock>>

IsAnswered(t) ==
  /\ Moves(t, {"await"}, "done") /\ SameIds(t)
  /\ replies # <<>> /\ replies' = Tail(replies)
  /\ Outcome(t, IF Head(replies).failed THEN "error" ELSE "ok", Head(replies))
  /\ failures' \in {0, failures} /\ lock' = None
  /\ UNCHANGED <<up, sock, requests, open>>

Raises(t) ==
  /\ Moves(t, {"attempt", "await"}, "done") /\ SameIds(t)
  /\ Outcome(t, "raised", None)
  /\ lock' = None
  /\ \/ SocketClosed
     \/ (May("interrupt") \/ sock = "none") /\ UNCHANGED <<sock, requests, replies>>
  /\ failures' \in 0..Threshold /\ open' \in BOOLEAN
  /\ UNCHANGED up

(* Raising.                                                                 *)
LEMMA RaiseMoves ==
  ASSUME ConnectionType, NEW t \in Thread, call[t].phase \in {"attempt", "await"}, Raise(t)
  PROVE  /\ Moves(t, {"attempt", "await"}, "done") /\ SameIds(t)
         /\ Outcome(t, "raised", None) /\ lock' = None
<1>1. call[t] \in Live
  BY PhaseLive
<1>2. "raised" \in How /\ None \in {None} \cup Reply
  BY DEF How
<1> QED
  BY <1>1, <1>2, EndedCall DEF Raise, Moves, SameIds, Outcome

(* An attempt that fails ends the call or repeats it.                       *)
LEMMA FailedMoves ==
  ASSUME ConnectionType, NEW t \in Thread, call[t].phase \in {"attempt", "await"},
         FailedAttempt(t), UNCHANGED up
  PROVE  Retries(t) \/ Raises(t)
<1>1. call[t] \in Live
  BY PhaseLive
<1> DEFINE n == IF failures < Threshold THEN failures + 1 ELSE failures
<1>a. failures \in 0..Threshold /\ Threshold \in Nat
  BY ConnectionAssumption DEF ConnectionType
<1>b. n \in 0..Threshold
  BY <1>a
<1>c. /\ failures' = n /\ open' = (open \/ n = Threshold) /\ SocketClosed
      /\ IF n = Threshold \/ call[t].attempt = Attempts - 1 THEN Raise(t)
         ELSE call' = [call EXCEPT ![t].phase = "attempt", ![t].attempt = @ + 1]
              /\ UNCHANGED lock
  BY DEF FailedAttempt
<1>d. open' \in BOOLEAN
  BY <1>c DEF ConnectionType
<1>2. PICK counted \in 0..Threshold :
        /\ failures' = counted /\ open' \in BOOLEAN /\ SocketClosed
        /\ IF counted = Threshold \/ call[t].attempt = Attempts - 1 THEN Raise(t)
           ELSE call' = [call EXCEPT ![t].phase = "attempt", ![t].attempt = @ + 1]
                /\ UNCHANGED lock
  BY <1>b, <1>c, <1>d, Zenon
<1> HIDE DEF n
<1>3. CASE Raise(t)
  BY <1>2, <1>3, RaiseMoves DEF Raises
<1>4. CASE /\ counted # Threshold /\ call[t].attempt # Attempts - 1
           /\ call' = [call EXCEPT ![t].phase = "attempt", ![t].attempt = @ + 1]
           /\ UNCHANGED lock
  <2>1. counted < Threshold
    BY <1>2, <1>4, ConnectionAssumption
  <2> QED
    BY <1>1, <1>2, <1>4, <2>1, RetriedCall DEF Retries, Moves, SameOutcome
<1> QED
  BY <1>2, <1>3, <1>4

(* A step of a call is one of these.                                        *)
LEMMA CallMoves ==
  ASSUME TypeInv, NEW t \in Thread, CallStep(t)
  PROVE  /\ UNCHANGED <<setting, shut>>
         /\ \/ Acquires(t) \/ Refused(t) \/ Passes(t) \/ Connects(t) \/ Sends(t)
            \/ Retries(t) \/ IsAnswered(t) \/ Raises(t)
<1>0. ConnectionType /\ LockHeld
  BY DEF TypeInv
<1>a. failures \in 0..Threshold /\ open \in BOOLEAN
  BY <1>0 DEF ConnectionType
<1>1. CASE Acquire(t)
  <2>1. call[t] \in Live
    BY <1>0, <1>1, PhaseLive DEF Acquire
  <2> QED
    BY <1>0, <1>1, <2>1, PhaseCall DEF Acquire, Acquires, Moves, SameIds, SameOutcome, Phase
<1>2. CASE LockTimeout(t)
  <2>1. call[t] \in Live /\ lock # t
    BY <1>0, <1>2, PhaseLive DEF LockTimeout, LockHeld
  <2>2. "refused" \in How /\ None \in {None} \cup Reply
    BY DEF How
  <2> QED
    BY <1>0, <1>2, <2>1, <2>2, EndedCall DEF LockTimeout, Refused, Moves, SameIds, Outcome
<1>3. CASE CheckBreaker(t)
  <2>1. call[t] \in Live /\ lock = t
    BY <1>0, <1>3, PhaseLive DEF CheckBreaker, LockHeld
  <2>2. "refused" \in How /\ None \in {None} \cup Reply
    BY DEF How
  <2>3. CASE failures >= Threshold /\ open
    BY <1>0, <1>3, <2>1, <2>2, <2>3, EndedCall
       DEF CheckBreaker, Refused, Moves, SameIds, Outcome
  <2>4. CASE ~(failures >= Threshold /\ open)
    BY <1>0, <1>3, <2>1, <2>4, PhaseCall
       DEF CheckBreaker, Passes, Moves, SameIds, SameOutcome, Phase
  <2> QED
    BY <2>3, <2>4
<1>4. CASE Connect(t)
  <2>1. call[t] \in Live /\ call[t].phase \in {"attempt", "await"}
    BY <1>0, <1>4, PhaseLive DEF Connect
  <2>2. CASE up /\ sock' = "open" /\ UNCHANGED <<requests, replies, lock, breakerVars, call>>
    BY <1>0, <1>4, <2>1, <2>2
       DEF Connect, Connects, Moves, SameIds, SameOutcome, OnlyCall, ConnectionType
  <2>3. CASE FailedAttempt(t)
    BY <1>0, <1>4, <2>1, <2>3, FailedMoves DEF Connect
  <2>4. CASE Raise(t) /\ UNCHANGED <<sock, requests, replies, breakerVars>>
    BY <1>0, <1>4, <1>a, <2>1, <2>4, RaiseMoves DEF Connect, Raises, breakerVars
  <2> QED
    BY <1>4, <2>2, <2>3, <2>4 DEF Connect
<1>5. CASE Send(t)
  <2>1. call[t] \in Live /\ call[t].phase \in {"attempt", "await"} /\ sock # "none"
    BY <1>0, <1>5, PhaseLive DEF Send
  <2>2. ASSUME NEW i \in Id, i \notin InUse,
               requests' = IF sock # "open" THEN requests
                           ELSE requests \cup {[id |-> i, op |-> call[t].op, live |-> TRUE]},
               call' = [call EXCEPT ![t].phase = "await", ![t].ids = @ \cup {i}],
               UNCHANGED <<sock, replies, lock, breakerVars>>
        PROVE  Sends(t)
    BY <1>0, <1>5, <2>1, <2>2, SentCall DEF Send, Sends, Moves, SameOutcome
  <2>3. CASE FailedAttempt(t)
    BY <1>0, <1>5, <2>1, <2>3, FailedMoves DEF Send
  <2>4. CASE Raise(t) /\ SocketClosed /\ UNCHANGED breakerVars
    BY <1>0, <1>5, <1>a, <2>1, <2>4, RaiseMoves DEF Send, Raises, breakerVars
  <2> QED
    BY <1>5, <2>2, <2>3, <2>4 DEF Send
<1>6. CASE Receive(t)
  <2>1. call[t] \in Live
    BY <1>0, <1>6, PhaseLive DEF Receive
  <2>2. PICK reply : reply = Head(replies)
    OBVIOUS
  <2>3. reply \in Reply
    BY <1>0, <1>6, <2>2 DEF Receive, ConnectionType
  <2>4. PICK how \in How : how = IF reply.failed THEN "error" ELSE "ok"
    BY DEF How
  <2>5. Ended(t, how, reply) /\ failures' \in {0, failures}
    BY <1>6, <2>2, <2>4 DEF Receive
  <2>6. /\ Moves(t, {"await"}, "done") /\ SameIds(t) /\ Outcome(t, how, reply)
    BY <1>0, <1>6, <2>1, <2>3, <2>5, EndedCall DEF Receive, Moves, SameIds, Outcome
  <2> QED
    BY <1>6, <2>2, <2>4, <2>5, <2>6 DEF Receive, IsAnswered
<1>7. CASE ReceiveNothing(t)
  <2>1. call[t] \in Live /\ call[t].phase \in {"attempt", "await"}
    BY <1>0, <1>7, PhaseLive DEF ReceiveNothing
  <2>2. CASE SocketClosed /\ Raise(t) /\ UNCHANGED breakerVars
    BY <1>0, <1>7, <1>a, <2>1, <2>2, RaiseMoves DEF ReceiveNothing, Raises, breakerVars
  <2>3. CASE FailedAttempt(t)
    BY <1>0, <1>7, <2>1, <2>3, FailedMoves DEF ReceiveNothing
  <2>4. CASE sock = "none" /\ Raise(t) /\ UNCHANGED <<sock, requests, replies, breakerVars>>
    BY <1>0, <1>7, <1>a, <2>1, <2>4, RaiseMoves DEF ReceiveNothing, Raises, breakerVars
  <2> QED
    BY <1>7, <2>2, <2>3, <2>4 DEF ReceiveNothing
<1>8. CASE Interrupt(t)
  <2>1. call[t] \in Live /\ call[t].phase \in {"attempt", "await"}
    BY <1>0, <1>8, PhaseLive DEF Interrupt
  <2> QED
    BY <1>0, <1>8, <1>a, <2>1, RaiseMoves DEF Interrupt, Raises, breakerVars, netVars
<1>9. UNCHANGED <<setting, shut>>
  BY DEF CallStep, Acquire, LockTimeout, CheckBreaker, Connect, Send, Receive,
     ReceiveNothing, Interrupt
<1> QED
  BY <1>1, <1>2, <1>3, <1>4, <1>5, <1>6, <1>7, <1>8, <1>9 DEF CallStep

-----------------------------------------------------------------------------
(* Type correctness.                                                        *)

(* A new call.                                                              *)
LEMMA BegunCall ==
  ASSUME ConnectionType, NEW t \in Thread, NEW op \in Op,
         call' = [call EXCEPT ![t] = Started(op)]
  PROVE  /\ call' \in [Thread -> {Idle} \cup Live] /\ OnlyCall(t)
         /\ call'[t] \in Live
         /\ call'[t].phase = "wants" /\ call'[t].op = op /\ call'[t].ids = {}
         /\ call'[t].attempt = 0 /\ call'[t].executed = 0
         /\ call'[t].how = None /\ call'[t].reply = None
<1> DEFINE new == [phase |-> "wants", op |-> op, ids |-> {}, attempt |-> 0, executed |-> 0,
                   how |-> None, reply |-> None]
<1>1. 0 \in 0..Attempts - 1
  BY ConnectionAssumption
<1>2. PICK c \in Live : c = new
  BY <1>1 DEF Live, Phase
<1>3. /\ c.phase = "wants" /\ c.op = op /\ c.ids = {} /\ c.attempt = 0
      /\ c.executed = 0 /\ c.how = None /\ c.reply = None
  BY <1>2
<1>4. call' = [call EXCEPT ![t] = c]
  BY <1>2 DEF Started
<1> QED
  BY <1>3, <1>4 DEF ConnectionType, OnlyCall

(* The end of a call for its thread.                                        *)
LEMMA ForgottenCall ==
  ASSUME ConnectionType, NEW t \in Thread, Forget(t)
  PROVE  /\ call' \in [Thread -> {Idle} \cup Live] /\ OnlyCall(t) /\ call'[t] = Idle
BY DEF ConnectionType, Forget, OnlyCall

(* The calls that sent a request count that it is executed.                 *)
LEMMA ServedCalls ==
  ASSUME ConnectionType, NEW r \in requests, NEW data, NEW failed, Serve(r, data, failed)
  PROVE  /\ call' \in [Thread -> {Idle} \cup Live]
         /\ \A t \in Thread :
              /\ r.id \notin call[t].ids => call'[t] = call[t]
              /\ r.id \in call[t].ids =>
                   /\ call[t] \in Live /\ call'[t] \in Live
                   /\ call'[t].executed = call[t].executed + 1
                   /\ call'[t].phase = call[t].phase /\ call'[t].op = call[t].op
                   /\ call'[t].ids = call[t].ids /\ call'[t].attempt = call[t].attempt
                   /\ call'[t].how = call[t].how /\ call'[t].reply = call[t].reply
<1>1. call' = [t \in Thread |->
                IF r.id \in call[t].ids THEN [call[t] EXCEPT !.executed = @ + 1]
                ELSE call[t]]
  BY DEF Serve
<1>2. ASSUME NEW t \in Thread, r.id \notin call[t].ids
      PROVE  call'[t] = call[t] /\ call'[t] \in {Idle} \cup Live
  BY <1>1, <1>2 DEF ConnectionType
<1>3. ASSUME NEW t \in Thread, r.id \in call[t].ids
      PROVE  /\ call[t] \in Live /\ call'[t] \in Live
             /\ call'[t].executed = call[t].executed + 1
             /\ call'[t].phase = call[t].phase /\ call'[t].op = call[t].op
             /\ call'[t].ids = call[t].ids /\ call'[t].attempt = call[t].attempt
             /\ call'[t].how = call[t].how /\ call'[t].reply = call[t].reply
  <2>1. call[t] \in Live
    BY <1>3, LiveNotIdle DEF ConnectionType
  <2>e. call[t].executed + 1 \in Nat
    BY <2>1 DEF Live
  <2>2. PICK c \in Live : c = [call[t] EXCEPT !.executed = call[t].executed + 1]
    BY <2>1, <2>e DEF Live
  <2>3. /\ c.executed = call[t].executed + 1
        /\ c.phase = call[t].phase /\ c.op = call[t].op
        /\ c.ids = call[t].ids /\ c.attempt = call[t].attempt
        /\ c.how = call[t].how /\ c.reply = call[t].reply
    BY <2>1, <2>2 DEF Live
  <2>4. call'[t] = c
    BY <1>1, <1>3, <2>2
  <2> QED
    BY <2>1, <2>3, <2>4
<1>4. \A t \in Thread : call'[t] \in {Idle} \cup Live
  BY <1>2, <1>3
<1> QED
  BY <1>1, <1>2, <1>3, <1>4

(* Being busy and having a lock does not depend on what was executed.       *)
LEMMA ServedTypes ==
  ASSUME TypeInv, NEW r \in requests, NEW data \in Copy, NEW failed \in BOOLEAN,
         Serve(r, data, failed), UNCHANGED wsLock
  PROVE  /\ ConnectionType' /\ SocketNeeded' /\ LockHeld' /\ HasReply'
         /\ wsLock' # None => wsLock' \in Busy' /\ call'[wsLock'].op.kind = "get"
         /\ \A t \in Thread : call'[t] = Idle => call[t] = Idle
<1> USE DEF TypeInv
<1>1. /\ call' \in [Thread -> {Idle} \cup Live]
      /\ \A t \in Thread :
           /\ call'[t] = Idle <=> call[t] = Idle
           /\ call'[t].phase = call[t].phase
           /\ call[t] # Idle =>
                /\ call'[t].op = call[t].op /\ call'[t].how = call[t].how
                /\ call'[t].reply = call[t].reply
  BY ServedCalls, LiveNotIdle
<1>2. PICK reply \in Reply : reply = [id |-> r.id, data |-> data, failed |-> failed]
  BY DEF ConnectionType, Reply, Request
<1>3. /\ requests' = requests \ {r}
      /\ replies' = IF r.live /\ sock = "open" THEN Append(replies, reply) ELSE replies
      /\ UNCHANGED <<setting, shut, up, sock, lock, breakerVars>>
  BY <1>2 DEF Serve
<1>4. ConnectionType'
  BY <1>1, <1>3 DEF ConnectionType, breakerVars
<1>5. SocketNeeded'
  BY <1>3 DEF SocketNeeded
<1>6. LockHeld' /\ HasReply'
  BY <1>1, <1>3 DEF LockHeld, HasReply
<1>7. wsLock' # None => wsLock' \in Busy' /\ call'[wsLock'].op.kind = "get"
  BY <1>1 DEF EngineType, Busy
<1> QED
  BY <1>1, <1>4, <1>5, <1>6, <1>7

(* What an operation makes of a workspace.                                  *)
LEMMA ChangedFields ==
  ASSUME NEW ws \in Workspace, NEW op \in Op
  PROVE  /\ Changed(ws, op) \in Workspace
         /\ op.kind # "load" => Changed(ws, op).things =
              CASE op.kind = "create" -> ws.things \cup {op.on}
                [] op.kind = "delete" -> ws.things \ {op.on}
                [] op.kind = "edit" -> Toggled(ws.things, op.on)
                [] OTHER -> ws.things
         /\ op.kind # "load" => Changed(ws, op).marks =
              CASE op.kind = "type" -> ws.marks \cup {op.on}
                [] op.kind = "clear" -> ws.marks \ {op.on}
                [] op.kind = "fill" -> Toggled(ws.marks, op.on)
                [] OTHER -> ws.marks
<1>1. op \in Operation
  BY EngineAssumption
<1>0. ws.things \in SUBSET Thing /\ ws.marks \in SUBSET Cell
  BY DEF Workspace
<1>2. CASE op.kind \in {"create", "delete", "edit"}
  <2>1. op.on \in Thing
    BY <1>1, <1>2 DEF Operation
  <2>2. Toggled(ws.things, op.on) \in SUBSET Thing
    BY <1>0, <2>1 DEF Toggled
  <2>3. CASE op.kind = "create"
    BY <1>0, <2>1, <2>3 DEF Changed, Workspace
  <2>4. CASE op.kind = "delete"
    BY <1>0, <2>1, <2>4 DEF Changed, Workspace
  <2>5. CASE op.kind = "edit"
    BY <1>0, <2>2, <2>5 DEF Changed, Workspace
  <2> QED
    BY <1>2, <2>3, <2>4, <2>5
<1>3. CASE op.kind \in {"type", "clear", "fill"}
  <2>1. op.on \in Cell
    BY <1>1, <1>3 DEF Operation
  <2>2. Toggled(ws.marks, op.on) \in SUBSET Cell
    BY <1>0, <2>1 DEF Toggled
  <2>3. CASE op.kind = "type"
    BY <1>0, <2>1, <2>3 DEF Changed, Workspace
  <2>4. CASE op.kind = "clear"
    BY <1>0, <2>1, <2>4 DEF Changed, Workspace
  <2>5. CASE op.kind = "fill"
    BY <1>0, <2>2, <2>5 DEF Changed, Workspace
  <2> QED
    BY <1>3, <2>3, <2>4, <2>5
<1>4. CASE op.kind = "load"
  BY <1>1, <1>4 DEF Changed, Operation
<1>5. CASE op.kind \notin {"create", "delete", "edit", "type", "clear", "fill", "load"}
  BY <1>5 DEF Changed
<1> QED
  BY <1>2, <1>3, <1>4, <1>5

(* The copy as the operation leaves it.                                     *)
LEMMA ChangedCopy ==
  ASSUME NEW copy \in Copy, NEW op \in Op
  PROVE  {Changed(ws, op) : ws \in copy} \in Copy
<1>1. copy \in SUBSET Workspace /\ \A v, w \in copy : v = w
  BY DEF Copy
<1>2. \A ws \in Workspace : Changed(ws, op) \in Workspace
  BY ChangedFields
<1>3. {Changed(ws, op) : ws \in copy} \in SUBSET Workspace
  BY <1>1, <1>2
<1>4. \A v, w \in {Changed(ws, op) : ws \in copy} : v = w
  BY <1>1
<1> QED
  BY <1>3, <1>4 DEF Copy

(* What a method has done after another call.                               *)
LEMMA MadeFields ==
  ASSUME NEW m \in Batch, NEW op \in Op
  PROVE  /\ op.kind \notin {"edit", "type", "clear"} => Made(m, op) = m
         /\ op.kind = "edit" =>
              /\ Made(m, op).things = m.things \cup {op.on} /\ op.on \in Thing
              /\ Made(m, op).on = m.on /\ Made(m, op).off = m.off
         /\ op.kind = "type" =>
              /\ Made(m, op).things = m.things /\ op.on \in Cell
              /\ Made(m, op).on = m.on \cup {op.on} /\ Made(m, op).off = m.off \ {op.on}
         /\ op.kind = "clear" =>
              /\ Made(m, op).things = m.things /\ op.on \in Cell
              /\ Made(m, op).on = m.on \ {op.on} /\ Made(m, op).off = m.off \cup {op.on}
         /\ m.calls + 1 < MaxBatch => Made(m, op) \in Batch
<1>0. op \in Operation /\ MaxBatch \in Nat
  BY EngineAssumption
<1>1. m.calls + 1 < MaxBatch => m.calls + 1 \in 0..MaxBatch - 1
  BY <1>0 DEF Batch
<1>2. CASE op.kind = "edit"
  <2>1. op.on \in Thing
    BY <1>0, <1>2 DEF Operation
  <2> QED
    BY <1>1, <1>2, <2>1 DEF Made, Batch
<1>3. CASE op.kind = "type"
  <2>1. op.on \in Cell
    BY <1>0, <1>3 DEF Operation
  <2> QED
    BY <1>1, <1>3, <2>1 DEF Made, Batch
<1>4. CASE op.kind = "clear"
  <2>1. op.on \in Cell
    BY <1>0, <1>4 DEF Operation
  <2> QED
    BY <1>1, <1>4, <2>1 DEF Made, Batch
<1>5. CASE op.kind \notin {"edit", "type", "clear"}
  BY <1>5 DEF Made
<1> QED
  BY <1>2, <1>3, <1>4, <1>5

(* What the server does keeps to workspaces.                                *)
LEMMA AfterType ==
  ASSUME server \in [now : Workspace, before : Seq(Workspace)], NEW op \in Op
  PROVE  After(op) \in [now : Workspace, before : Seq(Workspace)]
<1>1. server.now \in Workspace /\ server.before \in Seq(Workspace)
  OBVIOUS
<1>2. CASE op.kind = "undo" /\ server.before # <<>>
  <2>1. Head(server.before) \in Workspace /\ Tail(server.before) \in Seq(Workspace)
    BY <1>1, <1>2
  <2> QED
    BY <1>2, <2>1 DEF After
<1>3. CASE op.kind \in {"get", "undo", "query"} /\ ~(op.kind = "undo" /\ server.before # <<>>)
  BY <1>3 DEF After
<1>4. CASE op.kind \notin {"get", "undo", "query"}
  <2>0. <<server.now>> \in Seq(Workspace)
    BY <1>1
  <2>1. PICK s \in Seq(Workspace) : s = <<server.now>> \o server.before
    BY <1>1, <2>0, ConcatProperties
  <2>2. Latest(s) \in Seq(Workspace)
    <3>0. CASE ~May("undo")
      BY <3>0 DEF Latest
    <3>1. CASE May("undo") /\ Len(s) > MaxHistory
      <4>1. /\ MaxHistory \in Nat
            /\ \A i \in 1..MaxHistory : s[i] \in Workspace
        BY <2>1, <3>1, EngineAssumption
      <4>2. SubSeq(s, 1, MaxHistory) \in Seq(Workspace)
        BY <4>1, SubSeqProperties, <3>1
      <4> QED
        BY <3>1, <4>2 DEF Latest
    <3>2. CASE May("undo") /\ ~(Len(s) > MaxHistory)
      BY <2>1, <3>2 DEF Latest
    <3> QED
      BY <3>0, <3>1, <3>2
  <2>3. Changed(server.now, op) \in Workspace
    BY <1>1, ChangedFields
  <2> QED
    BY <1>4, <2>1, <2>2, <2>3 DEF After
<1> QED
  BY <1>2, <1>3, <1>4

(* The types hold at first,                                                 *)
LEMMA TypeInit == Init => TypeInv
<1> SUFFICES ASSUME Init PROVE TypeInv
  OBVIOUS
<1>1. ConnectionType
  <2>1. /\ lock = None /\ failures = 0 /\ 0 \in 0..Threshold
        /\ requests = {} /\ replies = <<>> /\ <<>> \in Seq(Reply)
    BY ConnectionAssumption DEF Init, ConnectionInit
  <2>2. call \in [Thread -> {Idle} \cup Live]
    BY DEF Init, ConnectionInit
  <2> QED
    BY <2>1, <2>2 DEF Init, ConnectionInit, ConnectionType, Socket
<1>2. EngineType
  <2>1. 0 \in 0..MaxBatch - 1
    BY EngineAssumption
  <2>2. made \in [Thread -> Batch] /\ \A t \in Thread : made[t] = Nothing
    BY <2>1 DEF Init, Batch, Nothing
  <2>3. PICK ws \in Workspace :
          server = [now |-> ws, before |-> <<>>] /\ local = ws.marks /\ cached = {ws}
    <3>1. [things |-> {}, marks |-> {}] \in Workspace
      BY DEF Workspace
    <3> QED
      BY <3>1 DEF Init
  <2>4. /\ server \in [now : Workspace, before : Seq(Workspace)]
        /\ local \in SUBSET Cell /\ cached \in Copy
    BY <2>3 DEF Workspace, Copy
  <2>5. /\ own \in BOOLEAN /\ pending \in BOOLEAN /\ wsLock = None
        /\ untold \in [things : SUBSET Thing, cells : SUBSET Cell]
    BY DEF Init
  <2> QED
    BY <2>2, <2>4, <2>5 DEF EngineType
<1>3. SocketNeeded /\ LockHeld /\ HasReply
  BY ConnectionAssumption, LiveNotIdle
     DEF Init, ConnectionInit, SocketNeeded, LockHeld, HasReply, Idle
<1> QED
  BY <1>1, <1>2, <1>3 DEF TypeInv

(* Other calls keep their place; so the lock is accounted for if it is for  *)
(* the one that moved.                                                      *)
LEMMA MovedTypes ==
  ASSUME TypeInv, NEW t \in Thread, UNCHANGED engineVars, OnlyCall(t),
         call'[t] \in Live, call[t] \in Live,
         call'[t].op = call[t].op,
         lock' \in {lock, t, None}, lock' # lock => lock \in {None, t},
         call'[t].phase \in {"holds", "attempt", "await"} <=> lock' = t,
         call'[t].how \in {"ok", "error"} => call'[t].reply \in Reply
  PROVE  LockHeld' /\ HasReply' /\ EngineType'
<1> USE DEF TypeInv, OnlyCall
<1>1. ASSUME NEW u \in Thread
      PROVE  call'[u].phase \in {"holds", "attempt", "await"} <=> lock' = u
  BY ConnectionAssumption DEF LockHeld
<1>2. LockHeld' /\ HasReply'
  BY <1>1 DEF LockHeld, HasReply
<1>3. EngineType'
  BY LiveNotIdle DEF EngineType, engineVars, Busy
<1> QED
  BY <1>2, <1>3

(* A step of a call keeps the types.                                        *)
LEMMA CallTypes ==
  ASSUME TypeInv, NEW t \in Thread, CallStep(t), UNCHANGED engineVars
  PROVE  TypeInv'
<1> USE DEF TypeInv
<1>0. LockHeld /\ ConnectionType /\ SocketNeeded
  OBVIOUS
<1>1. UNCHANGED <<setting, shut>>
  BY CallMoves
<1>2. ASSUME NEW from, NEW to, Moves(t, from, to)
      PROVE  /\ call[t] \in Live /\ call'[t] \in Live /\ call'[t].op = call[t].op
             /\ OnlyCall(t) /\ call' \in [Thread -> {Idle} \cup Live]
             /\ call[t].phase \in from /\ call'[t].phase = to
  BY <1>2 DEF Moves
<1>3. call[t] \in Live /\ call[t].how \in {"ok", "error"} => call[t].reply \in Reply
  BY LiveNotIdle DEF HasReply
<1>4. CASE Acquires(t)
  <2>1. ConnectionType' /\ SocketNeeded'
    BY <1>0, <1>1, <1>2, <1>4 DEF Acquires, ConnectionType, SocketNeeded, netVars, breakerVars
  <2> QED
    BY <1>2, <1>3, <1>4, <2>1, MovedTypes DEF Acquires, SameOutcome
<1>5. CASE Refused(t)
  <2>1. ConnectionType' /\ SocketNeeded'
    BY <1>0, <1>1, <1>2, <1>5 DEF Refused, ConnectionType, SocketNeeded, netVars, breakerVars
  <2>2. lock' # t
    BY <1>5, ConnectionAssumption DEF Refused
  <2> QED
    BY <1>2, <1>5, <2>1, <2>2, MovedTypes DEF Refused, Outcome
<1>6. CASE Passes(t) \/ Connects(t)
  <2>1. ConnectionType' /\ SocketNeeded'
    BY <1>0, <1>1, <1>2, <1>6
       DEF Passes, Connects, ConnectionType, SocketNeeded, netVars, breakerVars, Socket
  <2>2. lock' = t /\ lock = t
    BY <1>0, <1>2, <1>6 DEF Passes, Connects, LockHeld
  <2> QED
    BY <1>2, <1>3, <1>6, <2>1, <2>2, MovedTypes DEF Passes, Connects, SameOutcome
<1>7. CASE Sends(t)
  <2>1. PICK i \in Id :
          requests' = IF sock # "open" THEN requests
                      ELSE requests \cup {[id |-> i, op |-> call[t].op, live |-> TRUE]}
    BY <1>7 DEF Sends
  <2>2. [id |-> i, op |-> call[t].op, live |-> TRUE] \in Request
    BY <1>2, <1>7 DEF Sends, Request, Live
  <2>3. ConnectionType' /\ SocketNeeded'
    BY <1>0, <1>1, <1>2, <1>7, <2>1, <2>2
       DEF Sends, ConnectionType, SocketNeeded, breakerVars
  <2>4. lock' = t /\ lock = t
    BY <1>0, <1>2, <1>7 DEF Sends, LockHeld
  <2> QED
    BY <1>2, <1>3, <1>7, <2>3, <2>4, MovedTypes DEF Sends, SameOutcome
<1>8. CASE Retries(t)
  <2>1. ConnectionType' /\ SocketNeeded'
    BY <1>0, <1>1, <1>2, <1>8, ClosedSocket
       DEF Retries, ConnectionType, SocketNeeded, SocketClosed, Socket
  <2>2. lock' = t /\ lock = t
    BY <1>0, <1>2, <1>8 DEF Retries, LockHeld
  <2> QED
    BY <1>2, <1>3, <1>8, <2>1, <2>2, MovedTypes DEF Retries, SameOutcome
<1>9. CASE IsAnswered(t)
  <2>1. Head(replies) \in Reply /\ Tail(replies) \in Seq(Reply)
    BY <1>0, <1>9 DEF IsAnswered, ConnectionType
  <2>2. 0 \in 0..Threshold
    BY ConnectionAssumption
  <2>3. ConnectionType'
    BY <1>0, <1>1, <1>2, <1>9, <2>1, <2>2 DEF IsAnswered, ConnectionType
  <2>4. SocketNeeded'
    BY <1>0, <1>9 DEF IsAnswered, SocketNeeded
  <2>5. lock' = None /\ lock = t
    BY <1>0, <1>2, <1>9 DEF IsAnswered, LockHeld
  <2>6. call'[t].reply \in Reply /\ call'[t].phase = "done"
    BY <1>2, <1>9, <2>1 DEF IsAnswered, Outcome
  <2>7. call'[t] \in Live /\ call[t] \in Live /\ call'[t].op = call[t].op /\ OnlyCall(t)
    BY <1>2, <1>9 DEF IsAnswered
  <2>8. lock' # t
    BY <2>5, ConnectionAssumption
  <2>9. LockHeld' /\ HasReply' /\ EngineType'
    BY <2>5, <2>6, <2>7, <2>8, MovedTypes
  <2> QED
    BY <2>3, <2>4, <2>9
<1>10. CASE Raises(t)
  <2>a. /\ UNCHANGED <<setting, shut, up>> /\ lock' = None
        /\ failures' \in 0..Threshold /\ open' \in BOOLEAN
        /\ call' \in [Thread -> {Idle} \cup Live]
    BY <1>1, <1>2, <1>10 DEF Raises
  <2>b. ASSUME SocketClosed PROVE ConnectionType' /\ SocketNeeded'
    <3>1. /\ sock' = "none" /\ replies' = <<>> /\ <<>> \in Seq(Reply)
          /\ requests' \in SUBSET Request /\ \A r \in requests' : ~r.live
      BY <1>0, <2>b, ClosedSocket DEF SocketClosed
    <3>2. ConnectionType'
      BY <1>0, <2>a, <3>1 DEF ConnectionType, Socket
    <3> QED
      BY <3>1, <3>2 DEF SocketNeeded
  <2>c. ASSUME UNCHANGED <<sock, requests, replies>>
        PROVE  ConnectionType' /\ SocketNeeded'
    <3>1. ConnectionType'
      BY <1>0, <2>a, <2>c DEF ConnectionType
    <3> QED
      BY <1>0, <2>c, <3>1 DEF SocketNeeded
  <2>1. ConnectionType' /\ SocketNeeded'
    BY <1>10, <2>b, <2>c DEF Raises
  <2>2. lock' = None /\ lock = t
    BY <1>0, <1>2, <1>10 DEF Raises, LockHeld
  <2> QED
    BY <1>2, <1>10, <2>1, <2>2, ConnectionAssumption, MovedTypes DEF Raises, Outcome
<1> QED
  BY <1>4, <1>5, <1>6, <1>7, <1>8, <1>9, <1>10, CallMoves

(* So does the beginning of one.                                            *)
LEMMA BeginTypes ==
  ASSUME TypeInv, NEW t \in Thread, NEW op \in Op, Read(t, op) \/ Do(t, op)
  PROVE  TypeInv'
<1> USE DEF TypeInv
<1>1. Begin(t, op) /\ ConnectionType /\ call[t] = Idle
  BY DEF Read, Do, Begin
<1>2. /\ call' \in [Thread -> {Idle} \cup Live] /\ OnlyCall(t)
      /\ call[t] = Idle /\ call'[t] \in Live
      /\ call'[t].phase = "wants" /\ call'[t].op = op /\ call'[t].how = None
  BY <1>1, BegunCall DEF Begin
<1>3. UNCHANGED <<setting, shut, netVars, lock, breakerVars, server, local, cached, own,
                  pending, made, untold>>
  BY <1>1 DEF Begin, Read, Do, engineVars
<1>4. ConnectionType' /\ SocketNeeded'
  BY <1>2, <1>3 DEF ConnectionType, SocketNeeded, netVars, breakerVars
<1>5. lock # t
  BY <1>2, LiveNotIdle DEF LockHeld
<1>6. ASSUME NEW u \in Thread
      PROVE  /\ call'[u].phase \in {"holds", "attempt", "await"} <=> lock = u
             /\ call'[u] # Idle /\ call'[u].how \in {"ok", "error"} => call'[u].reply \in Reply
  BY <1>2, <1>5, ConnectionAssumption DEF LockHeld, HasReply, OnlyCall, How
<1>7. LockHeld' /\ HasReply'
  BY <1>3, <1>6 DEF LockHeld, HasReply
<1>8. wsLock' = wsLock \/ (wsLock' = t /\ op.kind = "get")
  BY DEF Read, Do, engineVars
<1>9. wsLock' # None => wsLock' \in Busy' /\ call'[wsLock'].op.kind = "get"
  BY <1>2, <1>3, <1>8, LiveNotIdle DEF EngineType, Busy, OnlyCall
<1>10. \A u \in Thread : call'[u] = Idle => made'[u] = Nothing
  BY <1>2, <1>3, LiveNotIdle DEF EngineType, OnlyCall
<1>11. EngineType'
  BY <1>3, <1>9, <1>10 DEF EngineType
<1> QED
  BY <1>4, <1>7, <1>11

(* its end,                                                                 *)
LEMMA EndTypes ==
  ASSUME TypeInv, NEW t \in Thread, Ends(t)
  PROVE  TypeInv'
<1> USE DEF TypeInv
<1>1. /\ Forget(t) /\ call[t] # Idle /\ call[t].phase = "done"
      /\ UNCHANGED <<setting, shut, netVars, lock, breakerVars, server, pending>>
      /\ made' = [made EXCEPT ![t] = Nothing]
  BY DEF Ends, Fetched, Patched, Edited, Typed, Loaded, Queried, Failed, Finished, Forget
<1>2. /\ call' \in [Thread -> {Idle} \cup Live] /\ OnlyCall(t) /\ call'[t] = Idle
      /\ call[t] \in Live
  BY <1>1, ForgottenCall DEF ConnectionType
<1>3. ConnectionType' /\ SocketNeeded'
  BY <1>1, <1>2 DEF ConnectionType, SocketNeeded, netVars, breakerVars
<1>4. lock # t
  BY <1>1 DEF LockHeld
<1>5. LockHeld' /\ HasReply'
  BY <1>1, <1>2, <1>4, LiveNotIdle DEF LockHeld, HasReply, OnlyCall
<1>6. \/ wsLock' = None
      \/ wsLock' = wsLock /\ wsLock # t
  BY <1>1 DEF Ends, Fetched, Patched, Edited, Typed, Loaded, Queried, Failed, EngineType
<1>7. wsLock' # None => wsLock' \in Busy' /\ call'[wsLock'].op.kind = "get"
  BY <1>2, <1>6 DEF EngineType, Busy, OnlyCall
<1>8. /\ call[t].op \in Op /\ call[t].op \in Operation
      /\ local \in SUBSET Cell /\ cached \in Copy /\ own \in BOOLEAN
      /\ made[t] \in Batch /\ untold \in [things : SUBSET Thing, cells : SUBSET Cell]
  BY <1>2, EngineAssumption DEF Live, EngineType
<1>9. {Changed(ws, call[t].op) : ws \in cached} \in Copy
  BY <1>8, ChangedCopy
<1>10. /\ local' \in SUBSET Cell /\ cached' \in Copy /\ own' \in BOOLEAN
       /\ untold' \in [things : SUBSET Thing, cells : SUBSET Cell]
  <2>1. CASE Fetched(t)
    <3>1. call[t].reply.data \in Copy
      BY <1>1, <2>1 DEF Fetched, Finished, HasReply, Reply
    <3>2. \A ws \in Workspace : [ws EXCEPT !.marks = @ \cup local] \in Workspace
      BY <1>8 DEF Workspace
    <3>3. \A v, w \in call[t].reply.data : v = w
      BY <3>1 DEF Copy
    <3>4. cached' \in Copy
      BY <1>8, <2>1, <3>1, <3>2, <3>3 DEF Fetched, Copy
    <3> QED
      BY <1>8, <2>1, <3>4 DEF Fetched
  <2>2. CASE Patched(t)
    BY <1>8, <1>9, <2>2 DEF Patched
  <2>3. CASE Edited(t)
    <3>1. {} \in Copy
      BY DEF Copy
    <3> QED
      BY <1>8, <1>9, <2>3, <3>1 DEF Edited, Shown
  <2>4. CASE Queried(t)
    BY <1>8, <2>4 DEF Queried
  <2>5. CASE Failed(t)
    BY <1>8, <2>5 DEF Failed, Batch
  <2>6. CASE Typed(t)
    <3>1. PICK m : m = Made(made[t], call[t].op)
      OBVIOUS
    <3>2. m.on \in SUBSET Cell /\ m.off \in SUBSET Cell
      BY <1>8, <2>6, <3>1, MadeFields DEF Typed, Batch
    <3>3. /\ local' = Marked(local, m)
          /\ cached' = {[ws EXCEPT !.marks = Marked(@, m)] : ws \in cached}
          /\ untold' = [untold EXCEPT !.cells = @ \ (m.on \cup m.off)] /\ own' = own
      BY <2>6, <3>1 DEF Typed
    <3>4. \A marks \in SUBSET Cell : Marked(marks, m) \in SUBSET Cell
      BY <3>2 DEF Marked
    <3>5. \A ws \in Workspace : [ws EXCEPT !.marks = Marked(@, m)] \in Workspace
      BY <3>4 DEF Workspace
    <3>6. cached' \in Copy
      BY <1>8, <3>3, <3>5 DEF Copy
    <3> QED
      BY <1>8, <3>3, <3>4, <3>6
  <2>7. CASE Loaded(t)
    <3>1. call[t].op.on \in Workspace
      BY <1>8, <2>7 DEF Loaded, Operation
    <3>2. {call[t].op.on} \in Copy /\ call[t].op.on.marks \in SUBSET Cell
      BY <3>1 DEF Copy, Workspace
    <3> QED
      BY <2>7, <3>2 DEF Loaded
  <2> QED
    BY <2>1, <2>2, <2>3, <2>4, <2>5, <2>6, <2>7 DEF Ends
<1>11. made' \in [Thread -> Batch] /\ \A u \in Thread : call'[u] = Idle => made'[u] = Nothing
  <2>1. Nothing \in Batch
    BY EngineAssumption DEF Nothing, Batch
  <2> QED
    BY <1>1, <1>2, <2>1 DEF EngineType, OnlyCall
<1>12. EngineType'
  BY <1>1, <1>7, <1>10, <1>11 DEF EngineType
<1> QED
  BY <1>3, <1>5, <1>12

(* the next call of a method,                                               *)
LEMMA AnotherTypes ==
  ASSUME TypeInv, NEW t \in Thread, NEW op \in Op, Another(t, op)
  PROVE  TypeInv'
<1> USE DEF TypeInv
<1>1. /\ call' = [call EXCEPT ![t] = Started(op)] /\ call[t] # Idle /\ call[t].phase = "done"
      /\ UNCHANGED <<setting, shut, netVars, lock, breakerVars, server, local, own, pending,
                     wsLock, untold>>
      /\ made' = [made EXCEPT ![t] = Made(@, call[t].op)] /\ made[t].calls + 1 < MaxBatch
      /\ cached' = Shown(call[t].op) /\ call[t].op.kind # "get"
  BY DEF Another, Finished
<1>2. /\ call' \in [Thread -> {Idle} \cup Live] /\ OnlyCall(t)
      /\ call[t] \in Live /\ call'[t] \in Live /\ call'[t].phase = "wants"
      /\ call'[t].how = None
  BY <1>1, BegunCall DEF ConnectionType
<1>3. ConnectionType' /\ SocketNeeded'
  BY <1>1, <1>2 DEF ConnectionType, SocketNeeded, netVars, breakerVars
<1>4. lock # t
  BY <1>1 DEF LockHeld
<1>5. LockHeld' /\ HasReply'
  BY <1>1, <1>2, <1>4, ConnectionAssumption DEF LockHeld, HasReply, OnlyCall, How
<1>6. call[t].op \in Op /\ made[t] \in Batch /\ cached \in Copy
  BY <1>2 DEF Live, EngineType
<1>7. made' \in [Thread -> Batch]
  BY <1>1, <1>6, MadeFields DEF EngineType
<1>8. \A u \in Thread : call'[u] = Idle => made'[u] = Nothing
  BY <1>1, <1>2, LiveNotIdle DEF EngineType, OnlyCall
<1>9. cached' \in Copy
  <2>1. {Changed(ws, call[t].op) : ws \in cached} \in Copy
    BY <1>6, ChangedCopy
  <2> QED
    BY <1>1, <1>6, <2>1 DEF Shown
<1>10. wsLock' # None => wsLock' \in Busy' /\ call'[wsLock'].op.kind = "get"
  BY <1>1, <1>2, LiveNotIdle DEF EngineType, Busy, OnlyCall
<1>11. EngineType'
  BY <1>1, <1>7, <1>8, <1>9, <1>10 DEF EngineType
<1> QED
  BY <1>3, <1>5, <1>11

(* a scope,                                                                 *)
LEMMA ScopeTypes ==
  ASSUME TypeInv, EnterScope \/ LeaveScope
  PROVE  TypeInv'
<1> USE DEF TypeInv
<1>1. /\ UNCHANGED <<connectionVars, server, local, own, wsLock, made, untold>>
      /\ cached' \in {cached, {}} /\ pending' \in BOOLEAN
  BY DEF EnterScope, LeaveScope
<1>2. ConnectionType' /\ SocketNeeded' /\ LockHeld' /\ HasReply'
  BY <1>1 DEF ConnectionType, SocketNeeded, LockHeld, HasReply, connectionVars, netVars,
     breakerVars
<1>3. cached' \in Copy
  BY <1>1 DEF EngineType, Copy
<1>4. EngineType'
  BY <1>1, <1>3 DEF EngineType, Busy, connectionVars
<1> QED
  BY <1>2, <1>4

(* what the server does,                                                    *)
LEMMA ExecuteTypes ==
  ASSUME TypeInv, NEW r \in requests, NEW failed \in BOOLEAN, Execute(r, failed)
  PROVE  TypeInv'
<1> USE DEF TypeInv
<1>1. PICK marks \in {server.now.marks, {}} :
        Serve(r, IF r.op.kind = "get" THEN {[server.now EXCEPT !.marks = marks]} ELSE {}, failed)
  BY DEF Execute
<1>2. PICK data \in Copy :
        data = IF r.op.kind = "get" THEN {[server.now EXCEPT !.marks = marks]} ELSE {}
  BY DEF Copy, EngineType, Workspace
<1>3. /\ ConnectionType' /\ SocketNeeded' /\ LockHeld' /\ HasReply'
      /\ wsLock' # None => wsLock' \in Busy' /\ call'[wsLock'].op.kind = "get"
      /\ \A t \in Thread : call'[t] = Idle => call[t] = Idle
  BY <1>1, <1>2, ServedTypes DEF Execute
<1>4. r.op \in Op
  BY DEF ConnectionType, Request
<1>5. server' \in [now : Workspace, before : Seq(Workspace)]
  BY <1>4, AfterType DEF Execute, EngineType
<1>6. untold' \in [things : SUBSET Thing, cells : SUBSET Cell]
  <2>1. Unmarked(r.op) \in SUBSET Cell
    BY DEF Unmarked
  <2> QED
    BY <2>1 DEF Execute, EngineType
<1>7. EngineType'
  BY <1>3, <1>5, <1>6 DEF EngineType, Execute
<1> QED
  BY <1>3, <1>7

(* and the network.                                                         *)
LEMMA EnvironmentTypes ==
  ASSUME TypeInv, Environment, UNCHANGED engineVars
  PROVE  TypeInv'
<1> USE DEF TypeInv
<1>1. UNCHANGED <<setting, lock, failures, call>>
  BY DEF Environment, Cooldown, Close, Break, Stop, Restart, breakerVars
<1>2. LockHeld' /\ HasReply' /\ EngineType'
  BY <1>1 DEF LockHeld, HasReply, EngineType, engineVars, Busy
<1>3. CASE Cooldown \/ Restart
  BY <1>2, <1>3
     DEF Cooldown, Restart, ConnectionType, SocketNeeded, netVars, breakerVars
<1>4. CASE Close
  BY <1>2, <1>4, ClosedSocket
     DEF Close, ConnectionType, SocketNeeded, SocketClosed, breakerVars, Socket
<1>5. CASE Break
  <2>1. sock' \in {"eof", "reset"} /\ replies' \in {replies, <<>>} /\ sock = "open"
    BY <1>5 DEF Break
  <2>2. replies' \in Seq(Reply)
    <3>1. <<>> \in Seq(Reply) /\ replies \in Seq(Reply)
      BY DEF ConnectionType
    <3> QED
      BY <2>1, <3>1
  <2> QED
    BY <1>2, <1>5, <2>1, <2>2 DEF Break, ConnectionType, SocketNeeded, breakerVars, Socket
<1>6. CASE Stop
  <2>1. /\ replies' \in {replies, <<>>} /\ requests' = {} /\ sock' \in {sock, "reset"}
        /\ up' \in BOOLEAN /\ sock # "none" => sock' # "none"
    BY <1>6 DEF Stop, ConnectionType
  <2>2. replies' \in Seq(Reply)
    <3>1. <<>> \in Seq(Reply) /\ replies \in Seq(Reply)
      BY DEF ConnectionType
    <3> QED
      BY <2>1, <3>1
  <2>3. replies' # <<>> => replies # <<>>
    BY <2>1
  <2> QED
    BY <1>2, <1>6, <2>1, <2>2, <2>3
       DEF Stop, ConnectionType, SocketNeeded, breakerVars, Socket
<1> QED
  BY <1>3, <1>4, <1>5, <1>6 DEF Environment

(* A step of anybody keeps the types.                                       *)
LEMMA TypeStep == TypeInv /\ [Next]_vars => TypeInv'
<1> SUFFICES ASSUME TypeInv, [Next]_vars PROVE TypeInv'
  OBVIOUS
<1>1. CASE UNCHANGED vars
  BY <1>1 DEF TypeInv, ConnectionType, EngineType, SocketNeeded, LockHeld, HasReply,
     Busy, vars, connectionVars, engineVars, netVars, breakerVars
<1> QED
  BY <1>1, CallTypes, BeginTypes, EndTypes, AnotherTypes, ScopeTypes, ExecuteTypes,
     EnvironmentTypes DEF Next, ThreadStep

-----------------------------------------------------------------------------
(* Calls and answers.                                                       *)

(* What a call has asked for, and how often it was executed: no more often  *)
(* than it has sent requests that are no longer to be executed, and it sent *)
(* one in each attempt.                                                     *)
Counted(t) ==
  call[t] # Idle =>
    /\ IsFiniteSet(call[t].ids)
    /\ call[t].executed <= Cardinality(call[t].ids \ Pending)
    /\ Cardinality(call[t].ids) <= call[t].attempt
         + (IF call[t].phase \in {"await", "done"} THEN 1 ELSE 0)
    /\ call[t].phase # "done" => call[t].how = None
    /\ call[t].phase \in {"wants", "holds"} \/ call[t].how = "refused" =>
         call[t].ids = {} /\ call[t].executed = 0

(* A request is executed once.                                              *)
SingleRequests == \A r, s \in requests : r.id = s.id => r = s

(* What the socket carries is for the call that has the lock and awaits it, *)
(* and there is one thing at a time: its request, or the answer.            *)
Awaits(i) == lock # None /\ call[lock].phase = "await" /\ i \in call[lock].ids

WireIsOwn ==
  /\ \A r \in requests : r.live => Awaits(r.id) /\ replies = <<>>
  /\ \A r, s \in requests : r.live /\ s.live => r = s
  /\ replies # <<>> =>
       /\ Len(replies) = 1
       /\ Awaits(Head(replies).id) /\ call[lock].executed >= 1

OwnAnswer(t) ==
  call[t] # Idle /\ call[t].how \in {"ok", "error"} =>
    call[t].reply.id \in call[t].ids /\ call[t].executed >= 1

CallsInv ==
  /\ \A t \in Thread : Counted(t)
  /\ SingleRequests
  /\ ~May("interrupt") => WireIsOwn /\ \A t \in Thread : OwnAnswer(t)
  /\ NoStorm

(* Nothing was asked for at first.                                          *)
LEMMA CallsInit == Init => CallsInv
<1> SUFFICES ASSUME Init PROVE CallsInv
  OBVIOUS
<1>1. (\A t \in Thread : call[t] = Idle) /\ requests = {} /\ replies = <<>>
  BY DEF Init, ConnectionInit
<1> QED
  BY <1>1, LiveNotIdle DEF CallsInv, Counted, SingleRequests, WireIsOwn, OwnAnswer, NoStorm

(* A call that sends nothing stays counted.                                 *)
LEMMA StillCounted ==
  ASSUME NEW t \in Thread, Counted(t), call[t] \in Live, call'[t] \in Live,
         call'[t].ids = call[t].ids, call'[t].executed = call[t].executed,
         call[t].ids \cap Pending' \subseteq Pending,
         \/ call'[t].attempt = call[t].attempt
              /\ (call[t].phase \in {"await", "done"} => call'[t].phase \in {"await", "done"})
         \/ call'[t].attempt = call[t].attempt + 1,
         call'[t].phase # "done" => call'[t].how = None,
         call'[t].phase \in {"wants", "holds"} \/ call'[t].how = "refused" =>
           call[t].ids = {} /\ call[t].executed = 0
  PROVE  Counted(t)'
<1>1. IsFiniteSet(call[t].ids)
  BY LiveNotIdle DEF Counted
<1>2. IsFiniteSet(call[t].ids \ Pending') /\ IsFiniteSet(call[t].ids \ Pending)
  BY <1>1, FS_Subset
<1>3. Cardinality(call[t].ids \ Pending) <= Cardinality(call[t].ids \ Pending')
  BY <1>2, FS_Subset
<1>4. /\ Cardinality(call[t].ids \ Pending) \in Nat
      /\ Cardinality(call[t].ids \ Pending') \in Nat
      /\ Cardinality(call[t].ids) \in Nat
      /\ call[t].executed \in Nat /\ call[t].attempt \in Nat /\ call'[t].attempt \in Nat
  BY <1>1, <1>2, FS_CardinalityType DEF Live
<1>5. call'[t].executed <= Cardinality(call'[t].ids \ Pending')
  BY <1>3, <1>4, LiveNotIdle DEF Counted
<1>6. Cardinality(call[t].ids) <= call[t].attempt
         + (IF call[t].phase \in {"await", "done"} THEN 1 ELSE 0)
  BY LiveNotIdle DEF Counted
<1>7. Cardinality(call'[t].ids) <= call'[t].attempt
         + (IF call'[t].phase \in {"await", "done"} THEN 1 ELSE 0)
  BY <1>4, <1>6
<1> QED
  BY <1>1, <1>5, <1>7 DEF Counted

(* Other threads' calls stay counted.                                       *)
LEMMA OthersCounted ==
  ASSUME ConnectionType, NEW u \in Thread, Counted(u), call'[u] = call[u],
         call[u].ids \cap Pending' \subseteq Pending
  PROVE  Counted(u)'
<1>1. CASE call[u] = Idle
  BY <1>1 DEF Counted
<1>2. CASE call[u] # Idle
  <2>1. call[u] \in Live
    BY <1>2 DEF ConnectionType
  <2>2. /\ call[u].phase # "done" => call[u].how = None
        /\ call[u].phase \in {"wants", "holds"} \/ call[u].how = "refused" =>
             call[u].ids = {} /\ call[u].executed = 0
    BY <1>2 DEF Counted
  <2> QED
    BY <2>1, <2>2, StillCounted
<1> QED
  BY <1>1, <1>2

(* A call that sends a request in a new attempt.                            *)
LEMMA SentCounted ==
  ASSUME TypeInv, NEW t \in Thread, Counted(t), Sends(t)
  PROVE  /\ Counted(t)'
         /\ \A u \in Thread \ {t} : call[u].ids \cap Pending' \subseteq Pending
<1>1. PICK i \in Id :
        /\ i \notin InUse
        /\ call'[t].ids = call[t].ids \cup {i}
        /\ requests' = IF sock # "open" THEN requests
                       ELSE requests \cup {[id |-> i, op |-> call[t].op, live |-> TRUE]}
  BY DEF Sends
<1>2. /\ call[t] \in Live /\ call'[t] \in Live /\ call[t].phase = "attempt"
      /\ call'[t].phase = "await" /\ call'[t].executed = call[t].executed
      /\ call'[t].attempt = call[t].attempt /\ call'[t].how = call[t].how
  BY DEF Sends, Moves, SameOutcome
<1>3. \A u \in Thread : i \notin call[u].ids
  BY <1>1 DEF InUse
<1>4. Pending' \subseteq Pending \cup {i}
  <2>1. CASE sock # "open"
    BY <1>1, <2>1 DEF Pending
  <2>2. CASE sock = "open"
    <3>a. [id |-> i, op |-> call[t].op, live |-> TRUE].id = i
      OBVIOUS
    <3>1. PICK new : new.id = i /\ requests' = requests \cup {new}
      BY <1>1, <2>2, <3>a, Zenon
    <3> QED
      BY <3>1 DEF Pending
  <2> QED
    BY <2>1, <2>2
<1>5. IsFiniteSet(call[t].ids)
  BY <1>2, LiveNotIdle DEF Counted
<1>6. /\ IsFiniteSet(call'[t].ids)
      /\ Cardinality(call'[t].ids) = Cardinality(call[t].ids) + 1
  BY <1>1, <1>3, <1>5, FS_AddElement
<1>7. call[t].ids \ Pending \subseteq call'[t].ids \ Pending'
  BY <1>1, <1>3, <1>4
<1>8. IsFiniteSet(call'[t].ids \ Pending') /\ IsFiniteSet(call[t].ids \ Pending)
  BY <1>5, <1>6, FS_Subset
<1>9. Cardinality(call[t].ids \ Pending) <= Cardinality(call'[t].ids \ Pending')
  BY <1>7, <1>8, FS_Subset
<1>10. /\ Cardinality(call[t].ids \ Pending) \in Nat
       /\ Cardinality(call'[t].ids \ Pending') \in Nat
       /\ Cardinality(call[t].ids) \in Nat
       /\ call[t].executed \in Nat /\ call[t].attempt \in Nat
  BY <1>2, <1>5, <1>8, FS_CardinalityType DEF Live
<1>11. /\ call[t].executed <= Cardinality(call[t].ids \ Pending)
       /\ Cardinality(call[t].ids) <= call[t].attempt + 0
       /\ call[t].how = None
  BY <1>2, LiveNotIdle DEF Counted
<1>12. /\ call'[t].executed <= Cardinality(call'[t].ids \ Pending')
       /\ Cardinality(call'[t].ids) <= call'[t].attempt + 1
  BY <1>2, <1>6, <1>9, <1>10, <1>11
<1>13. Counted(t)'
  BY <1>2, <1>6, <1>11, <1>12, ConnectionAssumption DEF Counted, How
<1> QED
  BY <1>3, <1>4, <1>13

(* A step of a call keeps the calls counted.                                *)
LEMMA CallCounted ==
  ASSUME TypeInv, NEW t \in Thread, CallStep(t), \A u \in Thread : Counted(u)
  PROVE  \A u \in Thread : Counted(u)'
<1>0. ConnectionType
  BY DEF TypeInv
<1>1. CASE Sends(t)
  <2>1. OnlyCall(t)
    BY <1>1 DEF Sends, Moves
  <2> QED
    BY <1>0, <1>1, <2>1, SentCounted, OthersCounted DEF OnlyCall
<1>2. CASE ~Sends(t)
  <2>1. Pending' = Pending
    BY <1>0, <1>2, CallMoves, ClosedSocket
       DEF Acquires, Refused, Passes, Connects, Retries, IsAnswered, Raises, netVars, Pending
  <2>2. /\ OnlyCall(t) /\ call[t] \in Live /\ call'[t] \in Live
        /\ call'[t].executed = call[t].executed /\ call'[t].ids = call[t].ids
    BY <1>2, CallMoves
       DEF Acquires, Refused, Passes, Connects, Retries, IsAnswered, Raises, Moves, SameIds
  <2>3. /\ call[t].phase # "done" => call[t].how = None
        /\ call[t].phase \in {"wants", "holds"} \/ call[t].how = "refused" =>
             call[t].ids = {} /\ call[t].executed = 0
    BY <2>2, LiveNotIdle DEF Counted
  <2>4. /\ \/ call'[t].attempt = call[t].attempt
                /\ (call[t].phase \in {"await", "done"} => call'[t].phase \in {"await", "done"})
           \/ call'[t].attempt = call[t].attempt + 1
        /\ call'[t].phase # "done" => call[t].phase # "done" /\ call'[t].how = call[t].how
        /\ call'[t].phase \in {"wants", "holds"} \/ call'[t].how = "refused" =>
             call[t].phase \in {"wants", "holds"} \/ call[t].how = "refused"
    <3>1. CASE Acquires(t) \/ Passes(t) \/ Connects(t)
      BY <3>1 DEF Acquires, Passes, Connects, Moves, SameIds, SameOutcome
    <3>2. CASE Refused(t)
      BY <3>2 DEF Refused, Moves, SameIds, Outcome
    <3>3. CASE Retries(t)
      BY <3>3 DEF Retries, Moves, SameOutcome
    <3>4. CASE IsAnswered(t) \/ Raises(t)
      BY <3>4 DEF IsAnswered, Raises, Moves, SameIds, Outcome
    <3> QED
      BY <1>2, <3>1, <3>2, <3>3, <3>4, CallMoves
  <2>5. Counted(t)'
    BY <2>1, <2>2, <2>3, <2>4, StillCounted
  <2>6. \A u \in Thread \ {t} : Counted(u)'
    BY <1>0, <2>1, <2>2, OthersCounted DEF OnlyCall
  <2> QED
    BY <2>5, <2>6
<1> QED
  BY <1>1, <1>2

(* The server executes a request once, and its call counts it.              *)
LEMMA ServeCounted ==
  ASSUME ConnectionType, SingleRequests, NEW r \in requests, NEW data, NEW failed,
         Serve(r, data, failed), NEW t \in Thread, Counted(t)
  PROVE  Counted(t)'
<1>1. requests' = requests \ {r}
  BY DEF Serve
<1>2. Pending' \subseteq Pending /\ r.id \in Pending /\ r.id \notin Pending'
  BY <1>1 DEF Pending, SingleRequests
<1>3. CASE r.id \notin call[t].ids
  BY <1>2, <1>3, ServedCalls, OthersCounted
<1>4. CASE r.id \in call[t].ids
  <2>1. /\ call[t] \in Live /\ call'[t] \in Live
        /\ call'[t].executed = call[t].executed + 1
        /\ call'[t].phase = call[t].phase
        /\ call'[t].ids = call[t].ids /\ call'[t].attempt = call[t].attempt
        /\ call'[t].how = call[t].how
    BY <1>4, ServedCalls
  <2>2. /\ IsFiniteSet(call[t].ids)
        /\ call[t].executed <= Cardinality(call[t].ids \ Pending)
        /\ Cardinality(call[t].ids) <= call[t].attempt
             + (IF call[t].phase \in {"await", "done"} THEN 1 ELSE 0)
        /\ call[t].phase # "done" => call[t].how = None
        /\ ~(call[t].phase \in {"wants", "holds"} \/ call[t].how = "refused")
    BY <1>4, <2>1, LiveNotIdle DEF Counted
  <2> DEFINE old == call[t].ids \ Pending
             new == call[t].ids \ Pending'
  <2>3. IsFiniteSet(old) /\ IsFiniteSet(new)
    BY <2>2, FS_Subset
  <2>4. old \cup {r.id} \subseteq new /\ r.id \notin old
    BY <1>2, <1>4
  <2>5. /\ Cardinality(old \cup {r.id}) = Cardinality(old) + 1
        /\ Cardinality(old \cup {r.id}) <= Cardinality(new)
    <3> HIDE DEF old, new
    <3>1. Cardinality(old \cup {r.id}) = Cardinality(old) + 1
      BY <2>3, <2>4, FS_AddElement
    <3>e. old \cup {r.id} \in SUBSET new
      BY <2>4
    <3>2. Cardinality(old \cup {r.id}) <= Cardinality(new)
      BY <2>3, <3>e, FS_Subset
    <3> QED
      BY <3>1, <3>2
  <2>6. Cardinality(old) \in Nat /\ Cardinality(new) \in Nat /\ call[t].executed \in Nat
    BY <2>1, <2>3, FS_CardinalityType DEF Live
  <2>7. call'[t].executed <= Cardinality(call'[t].ids \ Pending')
    BY <2>1, <2>2, <2>5, <2>6
  <2> QED
    BY <2>1, <2>2, <2>7 DEF Counted
<1> QED
  BY <1>3, <1>4

-----------------------------------------------------------------------------
(* The wire.                                                                *)

(* A step that puts nothing on the wire, of which the awaiting call keeps   *)
(* what it has.                                                             *)
LEMMA WireKept ==
  ASSUME ConnectionType, WireIsOwn,
         \A r \in requests' : r \in requests \/ ~r.live,
         replies' \in {replies, <<>>},
         \A i : Awaits(i) => Awaits(i)'
                             /\ (call[lock].executed >= 1 => call'[lock'].executed >= 1)
  PROVE  WireIsOwn'
<1>1. \A r \in requests' : r.live => r \in requests
  OBVIOUS
<1>2. \A r \in requests' : r.live => Awaits(r.id)' /\ replies' = <<>>
  BY <1>1 DEF WireIsOwn
<1>3. \A r, s \in requests' : r.live /\ s.live => r = s
  BY <1>1 DEF WireIsOwn
<1>4. replies' # <<>> =>
        /\ Len(replies') = 1
        /\ Awaits(Head(replies).id)' /\ call'[lock'].executed >= 1
        /\ replies' = replies
  BY DEF WireIsOwn
<1> QED
  BY <1>2, <1>3, <1>4 DEF WireIsOwn

(* Nothing is on the wire while nobody awaits it.                           *)
LEMMA WireFree ==
  ASSUME WireIsOwn, \A i : ~Awaits(i)
  PROVE  (\A r \in requests : ~r.live) /\ replies = <<>>
BY DEF WireIsOwn

(* Over a socket that is closed there is nothing.                           *)
LEMMA WireClosed ==
  ASSUME \A r \in requests' : ~r.live, replies' = <<>>
  PROVE  WireIsOwn'
BY DEF WireIsOwn

(* The thread that has the lock is the one that awaits.                     *)
LEMMA AwaitsOwn ==
  ASSUME LockHeld, NEW t \in Thread, lock = t
  PROVE  \A i : Awaits(i) <=> call[t].phase = "await" /\ i \in call[t].ids
BY ConnectionAssumption DEF Awaits

(* What a call does that has not the lock is nothing to the one that has.   *)
LEMMA NotAwaitedOther ==
  ASSUME ConnectionType, NEW t \in Thread, lock # t, OnlyCall(t), lock' = lock
  PROVE  \A i : Awaits(i) => Awaits(i)' /\ call'[lock'] = call[lock]
BY ConnectionAssumption DEF Awaits, OnlyCall, ConnectionType

(* A step of a call leaves on the wire what is its own, and its answer is to*)
(* its request: nothing is on the wire when it sends, and it reads the one  *)
(* answer there is or closes the socket.                                    *)
LEMMA CallWire ==
  ASSUME TypeInv, NEW t \in Thread, CallStep(t), ~May("interrupt"), WireIsOwn,
         \A u \in Thread : OwnAnswer(u) /\ Counted(u)
  PROVE  WireIsOwn' /\ \A u \in Thread : OwnAnswer(u)'
<1>0. ConnectionType /\ LockHeld /\ SocketNeeded
  BY DEF TypeInv
<1>1. /\ OnlyCall(t) /\ call[t] \in Live /\ call'[t] \in Live
      /\ call'[t].executed = call[t].executed
  BY CallMoves
     DEF Acquires, Refused, Passes, Connects, Sends, Retries, IsAnswered, Raises, Moves
<1>2. \A u \in Thread \ {t} : OwnAnswer(u)'
  BY <1>1 DEF OnlyCall, OwnAnswer
<1>3. call[t].phase # "done" => call[t].how = None
  BY <1>1, LiveNotIdle DEF Counted
<1>4. CASE Acquires(t)
  <2>1. (\A r \in requests : ~r.live) /\ replies = <<>>
    BY <1>4, WireFree DEF Acquires, Awaits
  <2>2. WireIsOwn'
    BY <1>4, <2>1, WireClosed DEF Acquires, netVars
  <2>3. OwnAnswer(t)'
    BY <1>3, <1>4, ConnectionAssumption DEF Acquires, Moves, SameOutcome, OwnAnswer, How
  <2> QED
    BY <1>2, <2>2, <2>3
<1>5. CASE Refused(t)
  <2>1. ASSUME lock = t PROVE WireIsOwn'
    <3>1. (\A r \in requests : ~r.live) /\ replies = <<>>
      BY <1>0, <1>5, <2>1, WireFree, AwaitsOwn DEF Refused, Moves
    <3> QED
      BY <1>5, <3>1, WireClosed DEF Refused, netVars
  <2>2. ASSUME lock # t PROVE WireIsOwn'
    <3>1. lock' = lock /\ UNCHANGED <<requests, replies>>
      BY <1>5, <2>2 DEF Refused, netVars
    <3> QED
      BY <1>0, <1>1, <2>2, <3>1, WireKept, NotAwaitedOther
  <2>3. OwnAnswer(t)'
    BY <1>5 DEF Refused, Outcome, OwnAnswer
  <2> QED
    BY <1>2, <2>1, <2>2, <2>3
<1>6. CASE Passes(t) \/ Connects(t)
  <2>1. lock = t
    BY <1>0, <1>6 DEF Passes, Connects, Moves, LockHeld
  <2>2. (\A r \in requests : ~r.live) /\ replies = <<>>
    BY <1>0, <1>6, <2>1, WireFree, AwaitsOwn DEF Passes, Connects, Moves
  <2>3. WireIsOwn'
    BY <1>6, <2>2, WireClosed DEF Passes, Connects, netVars
  <2>4. OwnAnswer(t)'
    BY <1>3, <1>6, ConnectionAssumption
       DEF Passes, Connects, Moves, SameOutcome, OwnAnswer, How
  <2> QED
    BY <1>2, <2>3, <2>4
<1>7. CASE Sends(t)
  <2>1. lock = t /\ lock' = t
    BY <1>0, <1>7 DEF Sends, Moves, LockHeld
  <2>2. (\A r \in requests : ~r.live) /\ replies = <<>>
    BY <1>0, <1>7, <2>1, WireFree, AwaitsOwn DEF Sends, Moves
  <2>3. replies' = <<>>
    BY <1>7, <2>2 DEF Sends
  <2>4. PICK i \in Id :
          /\ call'[t].ids = call[t].ids \cup {i}
          /\ requests' = IF sock # "open" THEN requests
                         ELSE requests \cup {[id |-> i, op |-> call[t].op, live |-> TRUE]}
    BY <1>7 DEF Sends
  <2>5. Awaits(i)'
    BY <1>7, <2>1, <2>4, ConnectionAssumption DEF Sends, Moves, Awaits
  <2>6. PICK new : /\ new.id = i
                   /\ requests' = IF sock # "open" THEN requests ELSE requests \cup {new}
    BY <2>4
  <2>7. \A r \in requests' : r.live => r = new
    BY <2>2, <2>6
  <2>8. WireIsOwn'
    BY <2>3, <2>5, <2>6, <2>7 DEF WireIsOwn
  <2>9. OwnAnswer(t)'
    BY <1>3, <1>7, ConnectionAssumption DEF Sends, Moves, SameOutcome, OwnAnswer, How
  <2> QED
    BY <1>2, <2>8, <2>9
<1>8. CASE Retries(t)
  <2>1. WireIsOwn'
    BY <1>0, <1>8, ClosedSocket, WireClosed DEF Retries, SocketClosed
  <2>2. OwnAnswer(t)'
    BY <1>3, <1>8, ConnectionAssumption DEF Retries, Moves, SameOutcome, OwnAnswer, How
  <2> QED
    BY <1>2, <2>1, <2>2
<1>9. CASE IsAnswered(t)
  <2>1. lock = t /\ replies # <<>> /\ requests' = requests /\ replies' = Tail(replies)
    BY <1>0, <1>9 DEF IsAnswered, Moves, LockHeld
  <2>2. /\ \A r \in requests : ~r.live
        /\ Len(replies) = 1
        /\ Head(replies).id \in call[t].ids /\ call[t].executed >= 1
    BY <2>1 DEF WireIsOwn, Awaits
  <2>3. Tail(replies) = <<>>
    <3>1. replies \in Seq(Reply)
      BY <1>0 DEF ConnectionType
    <3>2. Tail(replies) \in Seq(Reply) /\ Len(Tail(replies)) = 0
      BY <2>1, <2>2, <3>1, HeadTailProperties
    <3> QED
      BY <3>2, EmptySeq
  <2>4. WireIsOwn'
    BY <2>1, <2>2, <2>3, WireClosed
  <2>5. call'[t].reply = Head(replies) /\ call'[t].ids = call[t].ids
    BY <1>9 DEF IsAnswered, Outcome, SameIds
  <2>6. OwnAnswer(t)'
    BY <1>1, <2>2, <2>5 DEF OwnAnswer
  <2> QED
    BY <1>2, <2>4, <2>6
<1>10. CASE Raises(t)
  <2>1. ASSUME SocketClosed PROVE WireIsOwn'
    BY <1>0, <2>1, ClosedSocket, WireClosed DEF SocketClosed
  <2>2. ASSUME sock = "none" /\ UNCHANGED <<sock, requests, replies>>
        PROVE  WireIsOwn'
    BY <1>0, <2>2, WireClosed DEF SocketNeeded
  <2>3. OwnAnswer(t)'
    BY <1>10 DEF Raises, Outcome, OwnAnswer
  <2> QED
    BY <1>2, <1>10, <2>1, <2>2, <2>3 DEF Raises
<1> QED
  BY <1>4, <1>5, <1>6, <1>7, <1>8, <1>9, <1>10, CallMoves

(* Two requests never have the same id, and breakers that are open let      *)
(* nobody pass.                                                             *)
LEMMA CallSingle ==
  ASSUME TypeInv, NEW t \in Thread, CallStep(t), SingleRequests
  PROVE  SingleRequests'
<1>0. ConnectionType
  BY DEF TypeInv
<1>1. CASE Sends(t)
  <2>1. PICK i \in Id :
          /\ i \notin InUse
          /\ requests' = IF sock # "open" THEN requests
                         ELSE requests \cup {[id |-> i, op |-> call[t].op, live |-> TRUE]}
    BY <1>1 DEF Sends
  <2>2. PICK new : /\ new.id = i
                   /\ requests' = IF sock # "open" THEN requests ELSE requests \cup {new}
    BY <2>1
  <2>3. \A r \in requests : r.id # i
    BY <2>1 DEF InUse
  <2> QED
    BY <2>2, <2>3 DEF SingleRequests
<1>2. CASE ~Sends(t)
  <2>1. requests' = requests \/ SocketClosed
    BY <1>2, CallMoves
       DEF Acquires, Refused, Passes, Connects, Retries, IsAnswered, Raises, netVars
  <2> QED
    BY <1>0, <2>1, ClosedSocket DEF SingleRequests
<1> QED
  BY <1>1, <1>2

(* Only the call that has the lock is past the breaker, and none of its     *)
(* steps leaves the breaker open unless the call ends by it.                *)
LEMMA CallNoStorm ==
  ASSUME TypeInv, NEW t \in Thread, CallStep(t), NoStorm
  PROVE  NoStorm'
<1>0. ConnectionType /\ LockHeld
  BY DEF TypeInv
<1>1. Threshold \in Nat /\ failures \in 0..Threshold
  BY <1>0, ConnectionAssumption DEF ConnectionType
<1>2. /\ OnlyCall(t) /\ call[t].phase # "idle"
  BY CallMoves, LiveNotIdle
     DEF Acquires, Refused, Passes, Connects, Sends, Retries, IsAnswered, Raises, Moves
<1>3. ASSUME lock = t, NEW u \in Thread \ {t}
      PROVE  call'[u].phase \notin {"attempt", "await"}
  BY <1>0, <1>2, <1>3 DEF LockHeld, OnlyCall
<1>4. CASE Acquires(t) \/ Refused(t) \/ Passes(t) \/ Connects(t) \/ Sends(t)
  <2>1. UNCHANGED <<failures, open>>
    BY <1>4 DEF Acquires, Refused, Passes, Connects, Sends, netVars, breakerVars
  <2>2. call'[t].phase \in {"attempt", "await"} => ~(open /\ failures >= Threshold)
    BY <1>4 DEF Acquires, Refused, Passes, Connects, Sends, Moves, NoStorm
  <2> QED
    BY <1>2, <2>1, <2>2 DEF NoStorm, OnlyCall
<1>5. CASE Retries(t)
  <2>1. lock = t /\ ~(failures' >= Threshold)
    BY <1>0, <1>1, <1>5 DEF Retries, Moves, LockHeld
  <2> QED
    BY <2>1 DEF NoStorm
<1>6. CASE IsAnswered(t) \/ Raises(t)
  <2>1. lock = t /\ call'[t].phase = "done"
    BY <1>0, <1>6 DEF IsAnswered, Raises, Moves, LockHeld
  <2> QED
    BY <1>3, <2>1 DEF NoStorm
<1> QED
  BY <1>4, <1>5, <1>6, CallMoves

(* The steps of calls,                                                      *)
LEMMA CallKeepsCalls ==
  ASSUME TypeInv, CallsInv, NEW t \in Thread, CallStep(t)
  PROVE  CallsInv'
<1>1. /\ \A u \in Thread : Counted(u)
      /\ SingleRequests /\ NoStorm
      /\ ~May("interrupt") => WireIsOwn /\ \A u \in Thread : OwnAnswer(u)
  BY DEF CallsInv
<1>2. May("interrupt")' = May("interrupt")
  BY CallMoves DEF May
<1>3. ~May("interrupt") => WireIsOwn' /\ \A u \in Thread : OwnAnswer(u)'
  BY <1>1, CallWire
<1> QED
  BY <1>1, <1>2, <1>3, CallCounted, CallSingle, CallNoStorm DEF CallsInv

(* When a call begins or is forgotten nothing of the others changes.        *)
LEMMA OtherKeepsCalls ==
  ASSUME TypeInv, CallsInv, NEW t \in Thread,
         UNCHANGED <<setting, netVars, lock, breakerVars>>, OnlyCall(t),
         call[t].phase \in {"idle", "done"},
         \/ call'[t] = Idle
         \/ /\ call'[t] \in Live /\ call'[t].phase = "wants" /\ call'[t].ids = {}
            /\ call'[t].attempt = 0 /\ call'[t].executed = 0 /\ call'[t].how = None
  PROVE  CallsInv'
<1>0. ConnectionType /\ LockHeld
  BY DEF TypeInv
<1>1. /\ \A u \in Thread : Counted(u)
      /\ SingleRequests /\ NoStorm
      /\ ~May("interrupt") => WireIsOwn /\ \A u \in Thread : OwnAnswer(u)
  BY DEF CallsInv
<1>2. Pending' = Pending
  BY DEF Pending, netVars
<1>3. Counted(t)'
  <2>1. CASE call'[t] = Idle
    BY <2>1 DEF Counted
  <2>2. CASE call'[t] # Idle
    <3>1. /\ call'[t].ids = {} /\ call'[t].executed = 0 /\ call'[t].attempt = 0
          /\ call'[t].phase = "wants" /\ call'[t].how = None
      BY <2>2
    <3>2. IsFiniteSet({}) /\ Cardinality({}) = 0 /\ {} \ Pending' = {}
      BY FS_EmptySet
    <3> QED
      BY <3>1, <3>2 DEF Counted
  <2> QED
    BY <2>1, <2>2
<1>4. \A u \in Thread \ {t} : Counted(u)'
  BY <1>0, <1>1, <1>2, OthersCounted DEF OnlyCall
<1>5. lock # t
  BY <1>0 DEF LockHeld
<1>6. ASSUME ~May("interrupt") PROVE WireIsOwn' /\ \A u \in Thread : OwnAnswer(u)'
  <2>1. WireIsOwn'
    <3>1. UNCHANGED <<requests, replies, lock>>
      BY DEF netVars
    <3> QED
      BY <1>0, <1>1, <1>5, <1>6, <3>1, WireKept, NotAwaitedOther
  <2>2. OwnAnswer(t)'
    BY ConnectionAssumption DEF OwnAnswer, How
  <2> QED
    BY <1>1, <1>6, <2>1, <2>2 DEF OwnAnswer, OnlyCall
<1>7. SingleRequests'
  BY <1>1 DEF SingleRequests, netVars
<1>8. NoStorm'
  BY <1>1, LiveNotIdle DEF NoStorm, OnlyCall, breakerVars
<1>9. May("interrupt")' = May("interrupt")
  BY DEF May
<1> QED
  BY <1>3, <1>4, <1>6, <1>7, <1>8, <1>9 DEF CallsInv

(* and those of what the server executes:  a request that is carried by an  *)
(* open socket becomes the answer to it,                                    *)
LEMMA ServeKeepsCalls ==
  ASSUME TypeInv, CallsInv, NEW r \in requests, NEW data \in Copy, NEW failed \in BOOLEAN,
         Serve(r, data, failed)
  PROVE  CallsInv'
<1>0. ConnectionType /\ LockHeld
  BY DEF TypeInv
<1>1. /\ \A u \in Thread : Counted(u)
      /\ SingleRequests /\ NoStorm
      /\ ~May("interrupt") => WireIsOwn /\ \A u \in Thread : OwnAnswer(u)
  BY DEF CallsInv
<1>2. /\ requests' = requests \ {r}
      /\ UNCHANGED <<setting, sock, lock, failures, open>>
  BY DEF Serve, breakerVars
<1>3. \A u \in Thread :
        /\ r.id \notin call[u].ids => call'[u] = call[u]
        /\ r.id \in call[u].ids =>
             /\ call[u] \in Live /\ call'[u] \in Live
             /\ call'[u].executed = call[u].executed + 1
             /\ call'[u].phase = call[u].phase
             /\ call'[u].ids = call[u].ids /\ call'[u].how = call[u].how
             /\ call'[u].reply = call[u].reply
  BY <1>0, ServedCalls
<1>4. ASSUME NEW u \in Thread
      PROVE  /\ call'[u].phase = call[u].phase /\ call'[u].ids = call[u].ids
             /\ call[u] # Idle /\ call[u].executed >= 1 => call'[u].executed >= 1
             /\ call'[u] # Idle =>
                  /\ call[u] # Idle
                  /\ call'[u].how = call[u].how /\ call'[u].reply = call[u].reply
  <2>1. call[u].executed + 1 >= 1 \/ call[u] \notin Live
    BY DEF Live
  <2> QED
    BY <1>3, <2>1, LiveNotIdle
<1>5. \A u \in Thread : Counted(u)'
  BY <1>0, <1>1, ServeCounted
<1>6. SingleRequests' /\ NoStorm'
  BY <1>1, <1>2, <1>4 DEF SingleRequests, NoStorm
<1>7. ASSUME ~May("interrupt") PROVE WireIsOwn' /\ \A u \in Thread : OwnAnswer(u)'
  <2>1. \A u \in Thread : OwnAnswer(u)'
    BY <1>1, <1>4, <1>7 DEF OwnAnswer
  <2>2. \A i : Awaits(i) => Awaits(i)' /\ (call[lock].executed >= 1 => call'[lock'].executed >= 1)
    <3> SUFFICES ASSUME NEW i, Awaits(i)
                 PROVE  Awaits(i)' /\ (call[lock].executed >= 1 => call'[lock'].executed >= 1)
      OBVIOUS
    <3>1. lock \in Thread /\ lock' = lock /\ call[lock].phase = "await" /\ i \in call[lock].ids
          /\ lock # None
      BY <1>0, <1>2 DEF Awaits, ConnectionType
    <3>2. call[lock] # Idle
      BY <3>1, LiveNotIdle
    <3> QED
      BY <1>4, <3>1, <3>2 DEF Awaits
  <2>3. CASE r.live /\ sock = "open"
    <3>1. PICK reply \in Reply : reply = [id |-> r.id, data |-> data, failed |-> failed]
      BY <1>0 DEF ConnectionType, Reply, Request
    <3>2. replies = <<>> /\ Awaits(r.id) /\ (\A s \in requests' : ~s.live)
      BY <1>1, <1>2, <1>7, <2>3 DEF WireIsOwn
    <3>3. replies' = <<reply>>
      BY <2>3, <3>1, <3>2 DEF Serve
    <3>4. Len(replies') = 1 /\ Head(replies') = reply /\ reply.id = r.id
      BY <3>1, <3>3
    <3>5. lock \in Thread /\ r.id \in call[lock].ids /\ lock' = lock
      BY <1>0, <1>2, <3>2 DEF Awaits, ConnectionType
    <3>6. call'[lock'].executed >= 1
      BY <1>3, <3>5 DEF Live
    <3>7. Awaits(r.id)'
      BY <2>2, <3>2
    <3>8. WireIsOwn'
      BY <3>2, <3>4, <3>6, <3>7 DEF WireIsOwn
    <3> QED
      BY <2>1, <3>8
  <2>4. CASE ~(r.live /\ sock = "open")
    <3>1. replies' = replies
      BY <2>4 DEF Serve
    <3> QED
      BY <1>0, <1>1, <1>2, <1>7, <2>1, <2>2, <3>1, WireKept
  <2> QED
    BY <2>3, <2>4
<1>8. May("interrupt")' = May("interrupt")
  BY <1>2 DEF May
<1> QED
  BY <1>5, <1>6, <1>7, <1>8 DEF CallsInv

(* and of the network and time.                                             *)
LEMMA EnvironmentKeepsCalls ==
  ASSUME TypeInv, CallsInv, Environment
  PROVE  CallsInv'
<1>0. ConnectionType
  BY DEF TypeInv
<1>1. /\ \A u \in Thread : Counted(u)
      /\ SingleRequests /\ NoStorm
      /\ ~May("interrupt") => WireIsOwn /\ \A u \in Thread : OwnAnswer(u)
  BY DEF CallsInv
<1>2. UNCHANGED <<setting, lock, failures, call>> /\ (open' => open)
  BY DEF Environment, Cooldown, Close, Break, Stop, Restart, breakerVars
<1>3. SocketClosed \/ (requests' \in SUBSET requests /\ replies' \in {replies, <<>>})
  BY DEF Environment, Cooldown, Close, Break, Stop, Restart, netVars
<1>4. SingleRequests' /\ Pending' \subseteq Pending
  BY <1>0, <1>1, <1>3, ClosedSocket DEF SingleRequests, Pending
<1>5. \A u \in Thread : Counted(u)'
  BY <1>0, <1>1, <1>2, <1>4, OthersCounted
<1>6. NoStorm'
  BY <1>1, <1>2 DEF NoStorm
<1>7. ASSUME ~May("interrupt") PROVE WireIsOwn' /\ \A u \in Thread : OwnAnswer(u)'
  <2>1. \A u \in Thread : OwnAnswer(u)'
    BY <1>1, <1>2, <1>7 DEF OwnAnswer
  <2>2. \A i : Awaits(i) => Awaits(i)' /\ call'[lock'] = call[lock]
    BY <1>2 DEF Awaits
  <2>3. ASSUME SocketClosed PROVE WireIsOwn'
    BY <1>0, <2>3, ClosedSocket, WireClosed DEF SocketClosed
  <2>4. ASSUME requests' \in SUBSET requests, replies' \in {replies, <<>>} PROVE WireIsOwn'
    BY <1>0, <1>1, <1>7, <2>2, <2>4, WireKept
  <2> QED
    BY <1>3, <2>1, <2>3, <2>4
<1>8. May("interrupt")' = May("interrupt")
  BY <1>2 DEF May
<1> QED
  BY <1>4, <1>5, <1>6, <1>7, <1>8 DEF CallsInv

(* A step of anybody keeps the calls and their answers apart.               *)
LEMMA CallsStep == TypeInv /\ CallsInv /\ [Next]_vars => CallsInv'
<1> SUFFICES ASSUME TypeInv, CallsInv, [Next]_vars PROVE CallsInv'
  OBVIOUS
<1>0. ConnectionType
  BY DEF TypeInv
<1>1. ASSUME NEW t \in Thread, NEW op \in Op, Read(t, op) \/ Do(t, op) PROVE CallsInv'
  <2>1. Begin(t, op)
    BY <1>1 DEF Read, Do
  <2>2. UNCHANGED <<setting, netVars, lock, breakerVars>> /\ call[t] = Idle
    BY <2>1 DEF Begin
  <2> QED
    BY <1>0, <2>1, <2>2, BegunCall, LiveNotIdle, OtherKeepsCalls DEF Begin
<1>2. ASSUME NEW t \in Thread, Ends(t) PROVE CallsInv'
  <2>1. /\ Forget(t) /\ call[t].phase = "done"
        /\ UNCHANGED <<setting, netVars, lock, breakerVars>>
    BY <1>2 DEF Ends, Fetched, Patched, Edited, Typed, Loaded, Queried, Failed, Finished,
       Forget
  <2> QED
    BY <1>0, <2>1, ForgottenCall, OtherKeepsCalls
<1>5. ASSUME NEW t \in Thread, NEW op \in Op, Another(t, op) PROVE CallsInv'
  <2>1. /\ call' = [call EXCEPT ![t] = Started(op)] /\ call[t].phase = "done"
        /\ UNCHANGED <<setting, netVars, lock, breakerVars>>
    BY <1>5 DEF Another, Finished
  <2> QED
    BY <1>0, <2>1, BegunCall, OtherKeepsCalls
<1>3. ASSUME NEW r \in requests, NEW failed \in BOOLEAN, Execute(r, failed) PROVE CallsInv'
  <2>1. PICK marks \in {server.now.marks, {}} :
          Serve(r, IF r.op.kind = "get" THEN {[server.now EXCEPT !.marks = marks]} ELSE {}, failed)
    BY <1>3 DEF Execute
  <2>2. PICK data \in Copy :
          data = IF r.op.kind = "get" THEN {[server.now EXCEPT !.marks = marks]} ELSE {}
    BY DEF Copy, TypeInv, EngineType, Workspace
  <2> QED
    BY <2>1, <2>2, ServeKeepsCalls
<1>4. CASE UNCHANGED vars \/ EnterScope \/ LeaveScope
  <2>1. UNCHANGED connectionVars
    BY <1>4 DEF vars, EnterScope, LeaveScope
  <2> QED
    BY <2>1 DEF CallsInv, Counted, SingleRequests, WireIsOwn, OwnAnswer, NoStorm, Awaits,
       Pending, May, connectionVars, netVars, breakerVars
<1> QED
  BY <1>1, <1>2, <1>3, <1>4, <1>5, CallKeepsCalls, EnvironmentKeepsCalls
     DEF Next, ThreadStep

-----------------------------------------------------------------------------
(* What it comes to.                                                        *)

(* Types, calls and answers are right in every reachable state.             *)
LEMMA Invariant == Spec => [](TypeInv /\ CallsInv)
<1>1. Init => TypeInv /\ CallsInv
  BY TypeInit, CallsInit
<1>2. TypeInv /\ CallsInv /\ [Next]_vars => TypeInv' /\ CallsInv'
  BY TypeStep, CallsStep
<1> QED
  BY <1>1, <1>2, PTL DEF Spec

(* Every state has the types declared, for any threads, operations, ids and *)
(* settings:  the copy is at most one workspace, what is on the wire needs  *)
(* a socket, _lock is with the thread that is past it and before its end,   *)
(* and _ws_lock with one that fetches.                                      *)
THEOREM TypeTheorem == Spec => []TypeOK
<1>1. ASSUME TypeInv PROVE TypeOK
  <2> USE <1>1 DEF TypeInv
  <2>1. \A r \in requests : r.live => sock \in {"open", "eof", "reset"}
    BY DEF SocketNeeded, ConnectionType, Socket
  <2>2. \A i \in DOMAIN replies : replies[i].id \in Id
    <3> SUFFICES ASSUME NEW i \in DOMAIN replies PROVE replies[i].id \in Id
      OBVIOUS
    <3>1. replies[i] \in Reply
      BY DEF ConnectionType
    <3> QED
      BY <3>1 DEF Reply
  <2>3. \A t \in Thread :
          call[t] # Idle /\ call[t].phase \in {"holds", "attempt", "await"} <=> lock = t
    BY LiveNotIdle DEF LockHeld
  <2>4. \A t \in Busy :
          /\ call[t].phase \in Phase /\ call[t].op \in Op /\ call[t].ids \subseteq Id
          /\ call[t].attempt \in 0..Attempts - 1 /\ call[t].how \in How \cup {None}
    <3> SUFFICES ASSUME NEW t \in Thread, call[t] \in Live
                 PROVE  /\ call[t].phase \in Phase /\ call[t].op \in Op /\ call[t].ids \subseteq Id
                        /\ call[t].attempt \in 0..Attempts - 1 /\ call[t].how \in How \cup {None}
      BY DEF Busy, ConnectionType
    <3> QED
      BY DEF Live
  <2>5. requests \subseteq [id : Id, op : Op, live : BOOLEAN]
    BY DEF ConnectionType, Request
  <2>6. ConnectionTypeOK
    BY <2>1, <2>2, <2>3, <2>4, <2>5 DEF ConnectionTypeOK, ConnectionType, SocketNeeded
  <2>7. cached \subseteq Workspace /\ \A v, w \in cached : v = w
    BY DEF EngineType, Copy
  <2>8. Cardinality(cached) <= 1
    <3>1. CASE cached = {}
      BY <3>1, FS_EmptySet
    <3>2. CASE cached # {}
      <4>1. PICK w : cached = {w}
        BY <2>7, <3>2
      <4> QED
        BY <4>1, FS_Singleton
    <3> QED
      BY <3>1, <3>2
  <2>9. \A t \in Thread \ Busy : made[t] = Nothing
    BY DEF EngineType, Busy
  <2> QED
    BY <2>6, <2>7, <2>8, <2>9 DEF TypeOK, EngineType, Batch
<1> QED
  BY <1>1, Invariant, PTL

(* A call gets the answer to its own request, whatever the network, the     *)
(* server, time-outs and a shutdown do;  what it asks for is executed at    *)
(* most once for each attempt, and not at all when the breaker or the lock  *)
(* refuses it;  and no attempt is made while the breaker is open            *)
(* (RemoteConnection.send_request).                                         *)
THEOREM CallsMatchTheorem == Spec => []CallsMatch
<1>1. ASSUME TypeInv, CallsInv PROVE CallsMatch
  <2>1. ASSUME NEW t \in Thread, call[t] # Idle
        PROVE  /\ call[t].how \in {"ok", "error"} /\ ~May("interrupt") =>
                    call[t].reply.id \in call[t].ids /\ call[t].executed >= 1
               /\ call[t].executed <= call[t].attempt + 1
               /\ call[t].how = "refused" => call[t].executed = 0
    <3>1. call[t] \in Live
      BY <1>1, <2>1 DEF TypeInv, ConnectionType
    <3>2. /\ IsFiniteSet(call[t].ids)
          /\ call[t].executed <= Cardinality(call[t].ids \ Pending)
          /\ Cardinality(call[t].ids) <= call[t].attempt
               + (IF call[t].phase \in {"await", "done"} THEN 1 ELSE 0)
          /\ call[t].how = "refused" => call[t].executed = 0
      BY <1>1, <2>1 DEF CallsInv, Counted
    <3>a. call[t].ids \ Pending \in SUBSET call[t].ids
      OBVIOUS
    <3>3. /\ IsFiniteSet(call[t].ids \ Pending)
          /\ Cardinality(call[t].ids \ Pending) <= Cardinality(call[t].ids)
      BY <3>2, <3>a, FS_Subset
    <3>4. /\ Cardinality(call[t].ids \ Pending) \in Nat /\ Cardinality(call[t].ids) \in Nat
          /\ call[t].executed \in Nat /\ call[t].attempt \in Nat
      BY <3>1, <3>2, <3>3, FS_CardinalityType DEF Live
    <3>5. call[t].executed <= call[t].attempt + 1
      BY <3>2, <3>3, <3>4
    <3>6. call[t].how \in {"ok", "error"} /\ ~May("interrupt") =>
            call[t].reply.id \in call[t].ids /\ call[t].executed >= 1
      BY <1>1, <2>1 DEF CallsInv, OwnAnswer
    <3> QED
      BY <3>2, <3>5, <3>6
  <2>2. Answered
    BY <2>1 DEF Answered, Busy
  <2>3. NoStorm
    BY <1>1 DEF CallsInv
  <2> QED
    BY <2>2, <2>3 DEF CallsMatch
<1> QED
  BY <1>1, Invariant, PTL


-----------------------------------------------------------------------------
(* The copy.                                                                *)

Same(S, T, X) == \A y : y \notin X => (y \in S <=> y \in T)

(* A copy of the workspace now, and marks on its hard values, but for gaps  *)
(* and for what the earlier calls of a method have done, m.                 *)
Fresh(now, copy, marks, mine, gaps, m) ==
  LET cells == gaps.cells \ (m.on \cup m.off)
      things == IF mine THEN gaps.things ELSE gaps.things \cup m.things
  IN  /\ Same(Marked(marks, m), now.marks, cells)
      /\ \A ws \in copy :
           Same(ws.things, now.things, things) /\ Same(Marked(ws.marks, m), now.marks, cells)

(* In a scope nothing is said of the copy.                                  *)
Claimed(copy) == IF pending THEN {} ELSE copy
FreshNow(m) == Fresh(server.now, Claimed(cached), local, own, untold, m)

(* The copy after a call.                                                   *)
Copied(op) ==
  CASE op.kind \in {"create", "delete"} -> {Changed(ws, op) : ws \in cached}
    [] op.kind \in {"undo", "fill"} -> {}
    [] OTHER -> Shown(op)

(* The answer from which the copy will be fresh.                            *)
FreshBy(op, reply, m) ==
  IF reply.failed THEN FreshNow(m)
  ELSE IF op.kind = "get"
  THEN Fresh(server.now, Claimed({[ws EXCEPT !.marks = @ \cup local] : ws \in reply.data}),
             local, FALSE, [untold EXCEPT !.things = {}], Nothing)
  ELSE IF op.kind = "load"
  THEN Fresh(server.now, Claimed({op.on}), op.on.marks, TRUE, [things |-> {}, cells |-> {}],
             Nothing)
  ELSE Fresh(server.now, Claimed(Copied(op)), local, own, untold, Made(m, op))

(* The earlier calls of a method are like the one it makes.                 *)
Family(op, m) ==
  /\ op.kind = "edit" => m.on = {} /\ m.off = {}
  /\ op.kind \in {"type", "clear"} => m.things = {}
  /\ op.kind \notin {"edit", "type", "clear"} => m = Nothing

(* The copy is fresh until the call is executed, and will be by its answer. *)
Stage(t) ==
  LET c == call[t]
      m == made[t]
  IN  /\ Family(c.op, m)
      /\ c.phase # "await" => requests = {} /\ replies = <<>>
      /\ c.phase \in {"wants", "holds", "attempt"} => FreshNow(m)
      /\ c.phase = "await" =>
           \/ \E r \in Request :
                requests = {r} /\ r.live /\ r.op = c.op /\ replies = <<>> /\ FreshNow(m)
           \/ requests = {} /\ \E reply \in Reply : replies = <<reply>> /\ FreshBy(c.op, reply, m)
      /\ c.phase = "done" =>
           \/ c.how \in {"error", "refused"} /\ FreshNow(m)
           \/ c.how = "ok" /\ ~c.reply.failed /\ FreshBy(c.op, c.reply, m)

CalmInv ==
  /\ sock = "open" /\ up
  /\ \A t, u \in Busy : t = u
  /\ Busy = {} => requests = {} /\ replies = <<>> /\ FreshNow(Nothing)
  /\ \A t \in Busy : Stage(t)

(* Freshness depends on the copy, the marks and the server.                 *)
LEMMA SameFresh ==
  ASSUME UNCHANGED <<server, local, cached, own, pending, untold>>
  PROVE  /\ \A m : FreshNow(m)' <=> FreshNow(m)
         /\ \A op, reply, m : FreshBy(op, reply, m)' <=> FreshBy(op, reply, m)
<1>1. \A copy : Claimed(copy)' = Claimed(copy)
  BY DEF Claimed
<1>2. \A m : FreshNow(m)' <=> FreshNow(m)
  BY <1>1, Zenon DEF FreshNow
<1>3. \A op : Copied(op)' = Copied(op)
  BY Zenon DEF Copied, Shown
<1>4. ASSUME NEW op, NEW reply, NEW m
      PROVE  FreshBy(op, reply, m)' <=> FreshBy(op, reply, m)
  <2>1. Claimed(Copied(op))' = Claimed(Copied(op))
    BY <1>3 DEF Claimed
  <2>2. Claimed({[ws EXCEPT !.marks = @ \cup local] : ws \in reply.data})'
          = Claimed({[ws EXCEPT !.marks = @ \cup local] : ws \in reply.data})
    BY DEF Claimed
  <2>3. Claimed({op.on})' = Claimed({op.on})
    BY DEF Claimed
  <2> QED
    BY <1>2, <2>1, <2>2, <2>3, Zenon DEF FreshBy
<1> QED
  BY <1>2, <1>4

(* What does not happen in a calm setting.                                  *)
LEMMA CalmSetting ==
  ASSUME Calm
  PROVE  /\ ~May("threads") /\ ~May("faults") /\ ~May("down")
         /\ ~May("interrupt") /\ ~May("close")
BY DEF Calm, May

(* The same change of a workspace and of a copy of it.                      *)
LEMMA SameChanged ==
  ASSUME NEW op \in Op, NEW ws \in Workspace, NEW now \in Workspace
  PROVE  /\ op.kind \in {"create", "delete", "edit"} =>
              \A X : Same(ws.things, now.things, X)
                       => Same(Changed(ws, op).things, Changed(now, op).things, X)
         /\ op.kind = "edit" =>
              \A X : Same(ws.things, now.things, X)
                       => Same(ws.things, Changed(now, op).things, X \cup {op.on})
         /\ op.kind \in {"create", "delete", "edit"} =>
              Changed(ws, op).marks = ws.marks /\ Changed(now, op).marks = now.marks
         /\ op.kind \in {"type", "clear"} => Changed(now, op).things = now.things
<1>1. CASE op.kind = "create"
  <2>1. /\ Changed(ws, op).things = ws.things \cup {op.on}
        /\ Changed(now, op).things = now.things \cup {op.on}
        /\ Changed(ws, op).marks = ws.marks /\ Changed(now, op).marks = now.marks
    BY <1>1, ChangedFields
  <2> QED
    BY <1>1, <2>1 DEF Same
<1>2. CASE op.kind = "delete"
  <2>1. /\ Changed(ws, op).things = ws.things \ {op.on}
        /\ Changed(now, op).things = now.things \ {op.on}
        /\ Changed(ws, op).marks = ws.marks /\ Changed(now, op).marks = now.marks
    BY <1>2, ChangedFields
  <2> QED
    BY <1>2, <2>1 DEF Same
<1>3. CASE op.kind = "edit"
  <2>1. /\ Changed(ws, op).things = Toggled(ws.things, op.on)
        /\ Changed(now, op).things = Toggled(now.things, op.on)
        /\ Changed(ws, op).marks = ws.marks /\ Changed(now, op).marks = now.marks
    BY <1>3, ChangedFields
  <2>2. \A S, y : y \in Toggled(S, op.on) <=> IF y = op.on THEN y \notin S ELSE y \in S
    BY DEF Toggled
  <2> QED
    BY <1>3, <2>1, <2>2 DEF Same
<1>4. CASE op.kind \in {"type", "clear"}
  BY <1>4, ChangedFields
<1> QED
  BY <1>1, <1>2, <1>3, <1>4

(* Hard values that are set are marked when the method ends.                *)
LEMMA MarkedMore ==
  ASSUME NEW op \in Op, op.kind \in {"type", "clear"}, NEW m \in Batch, NEW now \in Workspace,
         NEW marks, NEW gaps, Same(Marked(marks, m), now.marks, gaps \ (m.on \cup m.off))
  PROVE  Same(Marked(marks, Made(m, op)), Changed(now, op).marks,
              gaps \ (Made(m, op).on \cup Made(m, op).off))
<1>1. CASE op.kind = "type"
  <2>1. Made(m, op).on = m.on \cup {op.on} /\ Made(m, op).off = m.off \ {op.on}
    BY <1>1, MadeFields
  <2>2. Changed(now, op).marks = now.marks \cup {op.on}
    BY <1>1, ChangedFields
  <2> QED
    BY <2>1, <2>2 DEF Same, Marked
<1>2. CASE op.kind = "clear"
  <2>1. Made(m, op).on = m.on \ {op.on} /\ Made(m, op).off = m.off \cup {op.on}
    BY <1>2, MadeFields
  <2>2. Changed(now, op).marks = now.marks \ {op.on}
    BY <1>2, ChangedFields
  <2> QED
    BY <2>1, <2>2 DEF Same, Marked
<1> QED
  BY <1>1, <1>2

(* An operation that the server executes on a workspace of which the copy   *)
(* is fresh leaves an answer by which it will be fresh.                     *)
LEMMA ExecutedFresh ==
  ASSUME TypeInv, NEW op \in Op, NEW m \in Batch, Family(op, m), FreshNow(m),
         server' = After(op), UNCHANGED <<cached, local, own, pending>>,
         untold' = [untold EXCEPT !.cells = @ \cup Unmarked(op)],
         NEW marks \in {server.now.marks, {}}, NEW reply, ~reply.failed,
         reply.data = IF op.kind = "get" THEN {[server.now EXCEPT !.marks = marks]} ELSE {}
  PROVE  FreshBy(op, reply, m)'
<1>1. /\ server \in [now : Workspace, before : Seq(Workspace)] /\ server.now \in Workspace
      /\ local \in SUBSET Cell /\ cached \in SUBSET Workspace /\ op \in Operation
      /\ untold \in [things : SUBSET Thing, cells : SUBSET Cell]
      /\ untold.things \in SUBSET Thing /\ untold.cells \in SUBSET Cell
  BY EngineAssumption DEF TypeInv, EngineType, Copy
<1> DEFINE cells == untold.cells \ (m.on \cup m.off)
           things == IF own THEN untold.things ELSE untold.things \cup m.things
           claimed == Claimed(cached)
<1>2. /\ Same(Marked(local, m), server.now.marks, cells)
      /\ \A ws \in claimed :
           Same(ws.things, server.now.things, things)
           /\ Same(Marked(ws.marks, m), server.now.marks, cells)
  BY DEF FreshNow, Fresh
<1>3. claimed \in SUBSET Workspace /\ claimed \subseteq cached
  BY <1>1 DEF Claimed
<1>4. op.kind \notin {"fill", "undo"} => untold' = untold
  <2>1. op.kind \notin {"fill", "undo"} => Unmarked(op) = {}
    BY DEF Unmarked
  <2> QED
    BY <1>1, <2>1
<1>5. op.kind \notin {"get", "undo", "query"} => server'.now = Changed(server.now, op)
  BY DEF After
<1>6. op.kind \in {"get", "query"} => server' = server
  BY DEF After
<1>7. op.kind \notin {"edit", "type", "clear"} => m = Nothing /\ Made(m, op) = m
  BY MadeFields DEF Family
<1>8. (\A S : Marked(S, Nothing) = S) /\ Nothing.on = {} /\ Nothing.off = {}
  BY DEF Marked, Nothing
<1>a. op.kind \notin {"edit", "type", "clear"} => Same(local, server.now.marks, untold.cells)
  BY <1>2, <1>7, <1>8 DEF Same
<1> HIDE DEF claimed
<1>9. CASE op.kind = "get"
  <2> DEFINE copy == {[ws EXCEPT !.marks = @ \cup local] : ws \in reply.data}
             gaps == [untold EXCEPT !.things = {}]
  <2>1. FreshBy(op, reply, m)'
          <=> Fresh(server'.now, Claimed(copy)', local', FALSE, gaps', Nothing)
    BY <1>9, Zenon DEF FreshBy
  <2>2. ASSUME NEW v \in Claimed(copy)'
        PROVE  v.things = server.now.things /\ v.marks = marks \cup local
    <3>1. v \in copy'
      BY DEF Claimed
    <3>2. PICK ws \in reply.data : v = [ws EXCEPT !.marks = @ \cup local]
      BY <3>1
    <3>3. ws = [server.now EXCEPT !.marks = marks]
      BY <1>9, <3>2
    <3> QED
      BY <1>1, <3>2, <3>3 DEF Workspace
  <2>3. gaps'.cells = untold.cells /\ server' = server
    BY <1>1, <1>4, <1>6, <1>9
  <2>4. Same(local, server.now.marks, untold.cells)
    BY <1>a, <1>9
  <2>5. Same(marks \cup local, server.now.marks, untold.cells)
    BY <2>4 DEF Same
  <2>6. \A X : Same(server.now.things, server.now.things, X)
    BY DEF Same
  <2> HIDE DEF gaps, copy
  <2> QED
    BY <1>8, <2>1, <2>2, <2>3, <2>4, <2>5, <2>6 DEF Fresh
<1>10. CASE op.kind = "load"
  <2>1. FreshBy(op, reply, m)'
          <=> Fresh(server'.now, Claimed({op.on})', op.on.marks, TRUE,
                    [things |-> {}, cells |-> {}], Nothing)
    BY <1>10, Zenon DEF FreshBy
  <2>2. server'.now = op.on
    BY <1>5, <1>10 DEF Changed
  <2>3. \A v \in Claimed({op.on})' : v = op.on
    BY DEF Claimed
  <2> QED
    BY <1>8, <2>1, <2>2, <2>3 DEF Fresh, Same
<1>11. CASE op.kind \notin {"get", "load"}
  <2>1. FreshBy(op, reply, m)'
          <=> Fresh(server'.now, Claimed(Copied(op))', local, own, untold', Made(m, op))
    BY <1>11, Zenon DEF FreshBy
  <2>2. Claimed(Copied(op))' = Claimed(Copied(op))
    <3>1. Copied(op)' = Copied(op)
      BY Zenon DEF Copied, Shown
    <3> QED
      BY <3>1 DEF Claimed
  <2>3. CASE op.kind = "query"
    <3>1. Copied(op) = cached
      BY <2>3 DEF Copied, Shown
    <3> QED
      BY <1>4, <1>6, <1>7, <2>1, <2>2, <2>3, <3>1 DEF FreshNow
  <2>4. CASE op.kind \in {"create", "delete"}
    <3>1. Copied(op) = {Changed(ws, op) : ws \in cached}
      BY <2>4 DEF Copied
    <3>2. /\ \A ws \in Workspace : Changed(ws, op).marks = ws.marks
          /\ \A ws \in Workspace : Same(ws.things, server.now.things, things)
               => Same(Changed(ws, op).things, server'.now.things, things)
          /\ server'.now.marks = server.now.marks
      BY <1>1, <1>5, <2>4, SameChanged
    <3>3. ASSUME NEW v \in Claimed(Copied(op))
          PROVE  Same(v.things, server'.now.things, things)
                 /\ Same(Marked(v.marks, m), server'.now.marks, cells)
      <4>1. PICK ws \in claimed : v = Changed(ws, op)
        BY <3>1, <3>3 DEF Claimed, claimed
      <4> QED
        BY <1>2, <1>3, <3>2, <4>1
    <3>4. Same(Marked(local, m), server'.now.marks, cells)
      BY <1>2, <3>2
    <3> QED
      BY <1>4, <1>7, <2>1, <2>2, <2>4, <3>3, <3>4 DEF Fresh
  <2>5. CASE op.kind = "edit"
    <3>1. /\ Made(m, op).things = m.things \cup {op.on}
          /\ Made(m, op).on = m.on /\ Made(m, op).off = m.off
      BY <2>5, MadeFields
    <3>a. \A S : Marked(S, Made(m, op)) = Marked(S, m)
      BY <3>1 DEF Marked
    <3>b. server'.now.marks = server.now.marks
      BY <1>1, <1>5, <2>5, SameChanged
    <3> DEFINE more == IF own THEN untold.things ELSE untold.things \cup Made(m, op).things
    <3>2. ASSUME NEW v \in Claimed(Copied(op))
          PROVE  Same(v.things, server'.now.things, more)
                 /\ Same(Marked(v.marks, m), server'.now.marks, cells)
      <4>1. CASE own
        <5>1. Copied(op) = {Changed(ws, op) : ws \in cached}
          BY <2>5, <4>1 DEF Copied, Shown
        <5>2. PICK ws \in claimed : v = Changed(ws, op)
          BY <5>1, <3>2 DEF Claimed, claimed
        <5>3. /\ Same(v.things, server'.now.things, untold.things)
              /\ v.marks = ws.marks
          BY <1>1, <1>2, <1>3, <1>5, <2>5, <4>1, <5>2, SameChanged
        <5> QED
          BY <1>2, <3>b, <4>1, <5>2, <5>3
      <4>2. CASE ~own
        <5>1. Copied(op) = cached
          BY <2>5, <4>2 DEF Copied, Shown
        <5>2. v \in claimed
          BY <3>2, <5>1 DEF claimed
        <5>3. Same(v.things, server'.now.things, (untold.things \cup m.things) \cup {op.on})
          BY <1>1, <1>2, <1>3, <1>5, <2>5, <4>2, <5>2, SameChanged
        <5> QED
          BY <1>2, <3>1, <3>b, <4>2, <5>2, <5>3 DEF Same
      <4> QED
        BY <4>1, <4>2
    <3>3. Same(Marked(local, m), server'.now.marks, cells)
      BY <1>2, <3>b
    <3> QED
      BY <1>4, <2>1, <2>2, <2>5, <3>1, <3>a, <3>2, <3>3 DEF Fresh
  <2>6. CASE op.kind \in {"type", "clear"}
    <3>1. Copied(op) = cached
      BY <2>6 DEF Copied, Shown
    <3>2. Made(m, op).things = m.things
      BY <2>6, MadeFields
    <3>3. /\ server'.now.things = server.now.things
      BY <1>1, <1>5, <2>6, SameChanged
    <3>4. \A S : Same(Marked(S, m), server.now.marks, cells)
            => Same(Marked(S, Made(m, op)), server'.now.marks,
                    untold.cells \ (Made(m, op).on \cup Made(m, op).off))
      BY <1>1, <1>5, <2>6, MarkedMore
    <3>5. ASSUME NEW v \in claimed
          PROVE  /\ Same(v.things, server'.now.things, things)
                 /\ Same(Marked(v.marks, Made(m, op)), server'.now.marks,
                         untold.cells \ (Made(m, op).on \cup Made(m, op).off))
      BY <1>2, <3>3, <3>4
    <3>6. Same(Marked(local, Made(m, op)), server'.now.marks,
               untold.cells \ (Made(m, op).on \cup Made(m, op).off))
      BY <1>2, <3>4
    <3> QED
      BY <1>4, <2>1, <2>2, <2>6, <3>1, <3>2, <3>5, <3>6 DEF Fresh, claimed
  <2>7. CASE op.kind \in {"undo", "fill"}
    <3>1. Claimed(Copied(op)) = {}
      BY <2>7 DEF Copied, Claimed
    <3>2. server'.now.marks \in SUBSET Cell
      BY <1>1, AfterType DEF Workspace
    <3>3. untold'.cells
            = untold.cells \cup {c \in Cell : (c \in server.now.marks) # (c \in server'.now.marks)}
      <4>1. Unmarked(op) = {c \in Cell : (c \in server.now.marks) # (c \in server'.now.marks)}
        BY <2>7 DEF Unmarked
      <4> QED
        BY <1>1, <4>1
    <3>4. Same(local, server.now.marks, untold.cells)
      BY <1>a, <2>7
    <3>5. Same(local, server'.now.marks, untold'.cells)
      <4> SUFFICES ASSUME NEW y, y \notin untold'.cells
                   PROVE  y \in local <=> y \in server'.now.marks
        BY DEF Same
      <4>1. y \in local <=> y \in server.now.marks
        BY <3>3, <3>4 DEF Same
      <4>2. CASE y \in Cell
        BY <3>3, <4>1, <4>2
      <4>3. CASE y \notin Cell
        BY <1>1, <3>2, <4>3
      <4> QED
        BY <4>2, <4>3
    <3> QED
      <4>1. \A now, gaps, mine : Same(local, now.marks, gaps.cells)
                                 => Fresh(now, {}, local, mine, gaps, Nothing)
        BY <1>8 DEF Fresh
      <4>2. Fresh(server'.now, {}, local, own, untold', Nothing)
        BY <3>5, <4>1
      <4> QED
        BY <1>7, <2>1, <2>2, <2>7, <3>1, <4>2
  <2> QED
    BY <1>1, <1>11, <2>3, <2>4, <2>5, <2>6, <2>7 DEF Operation
<1> QED
  BY <1>9, <1>10, <1>11

(* In a calm setting a call does not fail, other than by the breaker, the   *)
(* lock or the server:  it is refused, or gets the answer to its request.   *)
LEMMA CalmCall ==
  ASSUME TypeInv, Calm, CalmInv, NEW t \in Thread, CallStep(t), UNCHANGED engineVars
  PROVE  CalmInv'
<1>0. ConnectionType
  BY DEF TypeInv
<1>1. sock' = "open" /\ up'
  BY CalmSetting
     DEF CalmInv, CallStep, Acquire, LockTimeout, CheckBreaker, Connect, Send, Receive,
         ReceiveNothing, Interrupt, netVars
<1>2. UNCHANGED setting /\ ~Retries(t) /\ ~Raises(t)
  BY <1>1, CallMoves, CalmSetting DEF Retries, Raises, SocketClosed, CalmInv
<1>3. /\ OnlyCall(t) /\ call[t] \in Live /\ call'[t] \in Live /\ call'[t].op = call[t].op
  BY CallMoves
     DEF Acquires, Refused, Passes, Connects, Sends, Retries, IsAnswered, Raises, Moves
<1>4. Busy' = Busy /\ t \in Busy
  BY <1>3, LiveNotIdle DEF Busy, OnlyCall
<1>5. /\ \A m : FreshNow(m)' <=> FreshNow(m)
      /\ \A op, reply, m : FreshBy(op, reply, m)' <=> FreshBy(op, reply, m)
      /\ made' = made
  BY SameFresh DEF engineVars
<1>6. /\ Family(call[t].op, made[t])
      /\ call[t].phase # "await" => requests = {} /\ replies = <<>>
      /\ call[t].phase \in {"wants", "holds", "attempt"} => FreshNow(made[t])
      /\ call[t].phase = "await" =>
           \/ replies = <<>>
           \/ requests = {} /\ \E reply \in Reply : replies = <<reply>> /\ FreshBy(call[t].op, reply, made[t])
  BY <1>4 DEF CalmInv, Stage
<1>7. Family(call'[t].op, made'[t]) /\ Family(call[t].op, made[t])'
  BY <1>3, <1>5, <1>6 DEF Family
<1>8. CASE Acquires(t) \/ Passes(t)
  <2>1. /\ call'[t].phase \in {"holds", "attempt"} /\ UNCHANGED <<requests, replies>>
        /\ call[t].phase \in {"wants", "holds"}
    BY <1>8 DEF Acquires, Passes, Moves, netVars
  <2>2. Stage(t)'
    BY <1>5, <1>6, <1>7, <2>1 DEF Stage
  <2> QED
    BY <1>1, <1>4, <2>2 DEF CalmInv
<1>9. CASE Refused(t)
  <2>1. /\ call'[t].phase = "done" /\ call'[t].how = "refused" /\ UNCHANGED <<requests, replies>>
        /\ call[t].phase \in {"wants", "holds"}
    BY <1>9 DEF Refused, Moves, Outcome, netVars
  <2>2. Stage(t)'
    BY <1>5, <1>6, <1>7, <2>1 DEF Stage
  <2> QED
    BY <1>1, <1>4, <2>2 DEF CalmInv
<1>10. CASE Connects(t)
  BY <1>10 DEF Connects, CalmInv
<1>11. CASE Sends(t)
  <2>1. PICK i \in Id :
          requests' = requests \cup {[id |-> i, op |-> call[t].op, live |-> TRUE]}
    BY <1>11 DEF Sends, CalmInv
  <2>a. call[t].op \in Op
    BY <1>3 DEF Live
  <2>b. /\ [id |-> i, op |-> call[t].op, live |-> TRUE].op = call[t].op
        /\ [id |-> i, op |-> call[t].op, live |-> TRUE].live
    OBVIOUS
  <2>c. [id |-> i, op |-> call[t].op, live |-> TRUE] \in Request
    BY <2>a DEF Request
  <2>2. PICK r \in Request : r = [id |-> i, op |-> call[t].op, live |-> TRUE]
    BY <2>c
  <2>3. /\ call[t].phase = "attempt" /\ call'[t].phase = "await" /\ UNCHANGED replies
    BY <1>11 DEF Sends, Moves
  <2>4. requests' = {r} /\ r.live /\ r.op = call'[t].op /\ replies' = <<>>
    BY <1>3, <1>6, <2>1, <2>2, <2>b, <2>3
  <2>5. Stage(t)'
    BY <1>5, <1>6, <1>7, <2>3, <2>4 DEF Stage
  <2> QED
    BY <1>1, <1>4, <2>5 DEF CalmInv
<1>12. CASE IsAnswered(t)
  <2>1. /\ call[t].phase = "await" /\ call'[t].phase = "done" /\ replies # <<>>
        /\ replies' = Tail(replies) /\ UNCHANGED requests
        /\ call'[t].how = (IF Head(replies).failed THEN "error" ELSE "ok")
        /\ call'[t].reply = Head(replies)
    BY <1>12 DEF IsAnswered, Moves, Outcome
  <2>2. PICK reply \in Reply : replies = <<reply>> /\ FreshBy(call[t].op, reply, made[t])
    BY <1>6, <2>1
  <2>3. requests = {} /\ Head(replies) = reply /\ Tail(replies) = <<>>
    BY <1>6, <2>1, <2>2
  <2>4. reply.failed => FreshNow(made[t])
    BY <2>2 DEF FreshBy
  <2>5. Stage(t)'
    BY <1>3, <1>5, <1>7, <2>1, <2>2, <2>3, <2>4 DEF Stage
  <2> QED
    BY <1>1, <1>4, <2>5 DEF CalmInv
<1> QED
  BY <1>2, <1>8, <1>9, <1>10, <1>11, <1>12, CallMoves

(* A call begins when there is no other.                                    *)
LEMMA CalmBegin ==
  ASSUME TypeInv, Calm, CalmInv, NEW t \in Thread, NEW op \in Op, Read(t, op) \/ Do(t, op)
  PROVE  CalmInv'
<1>1. Begin(t, op) /\ UNCHANGED <<server, local, cached, own, pending, made, untold>>
  BY DEF Read, Do, engineVars
<1>2. /\ OnlyCall(t) /\ call'[t] \in Live /\ call'[t].phase = "wants" /\ call'[t].op = op
  BY <1>1, BegunCall DEF TypeInv, Begin
<1>3. Busy = {} /\ UNCHANGED <<setting, up, sock, requests, replies>>
  BY <1>1, CalmSetting DEF Begin, netVars
<1>4. Busy' = {t}
  BY <1>2, <1>3, LiveNotIdle DEF Busy, OnlyCall
<1>5. requests' = {} /\ replies' = <<>> /\ FreshNow(Nothing)'
  BY <1>1, <1>3, SameFresh DEF CalmInv
<1>6. made'[t] = Nothing
  BY <1>1 DEF Begin, TypeInv, EngineType
<1>7. Family(op, Nothing)
  BY DEF Family, Nothing
<1>8. Stage(t)'
  BY <1>2, <1>5, <1>6, <1>7 DEF Stage, Family
<1> QED
  BY <1>3, <1>4, <1>8 DEF CalmInv

(* A method goes on with another call.                                      *)
LEMMA CalmAnother ==
  ASSUME TypeInv, Calm, CalmInv, NEW t \in Thread, NEW op \in Op, Another(t, op)
  PROVE  CalmInv'
<1> DEFINE last == call[t].op
           m == made[t]
<1>1. /\ call' = [call EXCEPT ![t] = Started(op)] /\ call[t] # Idle
      /\ call[t].phase = "done" /\ call[t].how = "ok"
      /\ UNCHANGED <<up, sock, requests, replies, server, local, own, pending, untold>>
      /\ made' = [made EXCEPT ![t] = Made(@, last)] /\ cached' = Shown(last)
      /\ \/ last.kind = "edit" /\ op.kind = "edit"
         \/ last.kind \in {"type", "clear"} /\ op.kind \in {"type", "clear"}
  BY DEF Another, Finished, netVars
<1>2. /\ OnlyCall(t) /\ call[t] \in Live /\ call'[t] \in Live
      /\ call'[t].phase = "wants" /\ call'[t].op = op
  BY <1>1, BegunCall DEF TypeInv, ConnectionType
<1>3. Busy' = Busy /\ t \in Busy
  BY <1>1, <1>2, LiveNotIdle DEF Busy, OnlyCall
<1>4. /\ Family(last, m) /\ requests = {} /\ replies = <<>>
      /\ ~call[t].reply.failed /\ FreshBy(last, call[t].reply, m)
  BY <1>1, <1>3, Zenon DEF CalmInv, Stage
<1>5. made'[t] = Made(m, last) /\ m \in Batch /\ last \in Op
  BY <1>1, <1>2 DEF TypeInv, EngineType, Live
<1>6. Family(op, Made(m, last))
  <2>1. CASE last.kind = "edit"
    BY <1>1, <1>4, <1>5, <2>1, MadeFields DEF Family
  <2>2. CASE last.kind \in {"type", "clear"}
    BY <1>1, <1>4, <1>5, <2>2, MadeFields DEF Family
  <2> QED
    BY <1>1, <2>1, <2>2
<1>a. PICK k : k = Made(m, last)
  OBVIOUS
<1>7. FreshNow(k)'
  <2>1. Fresh(server.now, Claimed(Copied(last)), local, own, untold, Made(m, last))
    BY <1>1, <1>4 DEF FreshBy
  <2>2. Copied(last) = cached'
    BY <1>1 DEF Copied
  <2>3. Claimed(cached)' = Claimed(Copied(last))
    BY <1>1, <2>2 DEF Claimed
  <2> QED
    BY <1>1, <1>a, <2>1, <2>3 DEF FreshNow
<1>8. Stage(t)'
  <2>1. Family(op, k)
    BY <1>6, <1>a
  <2> QED
    BY <1>1, <1>2, <1>4, <1>5, <1>7, <1>a, <2>1 DEF Stage, Family
<1> QED
  BY <1>1, <1>3, <1>8 DEF CalmInv

(* After a call the copy is what its answer makes of it:  the marks are set,*)
(* and what a method had done that failed is not told.                      *)
LEMMA CalmEnd ==
  ASSUME TypeInv, Calm, CalmInv, NEW t \in Thread, Ends(t)
  PROVE  CalmInv'
<1> DEFINE op == call[t].op
           reply == call[t].reply
           m == made[t]
<1>1. /\ Forget(t) /\ call[t] # Idle /\ call[t].phase = "done"
      /\ UNCHANGED <<up, sock, requests, replies, server, pending>>
  BY DEF Ends, Fetched, Patched, Edited, Typed, Loaded, Queried, Failed, Finished, netVars,
     Forget
<1>2. OnlyCall(t) /\ call'[t] = Idle /\ call[t] \in Live
  BY <1>1, ForgottenCall DEF TypeInv, ConnectionType
<1>3. Busy' = {}
  BY <1>1, <1>2 DEF CalmInv, Busy, OnlyCall
<1>4. Stage(t)
  BY <1>1 DEF CalmInv, Busy
<1>5. requests' = {} /\ replies' = <<>> /\ Family(op, m)
  BY <1>1, <1>4 DEF Stage
<1>6. /\ op \in Op /\ m \in Batch
      /\ untold \in [things : SUBSET Thing, cells : SUBSET Cell]
      /\ cached \in SUBSET Workspace /\ \A ws \in cached : DOMAIN ws = {"things", "marks"}
  BY <1>2 DEF TypeInv, EngineType, Live, Copy, Workspace
<1>7. (\A S : Marked(S, Nothing) = S) /\ Nothing.on = {} /\ Nothing.off = {} /\ Nothing.things = {}
  BY DEF Marked, Nothing
<1>8. Failed(t) \/ (call[t].how = "ok" /\ ~reply.failed /\ FreshBy(op, reply, m))
  <2>1. ~Failed(t) => call[t].how = "ok"
    BY DEF Ends, Fetched, Patched, Edited, Typed, Loaded, Queried, Finished
  <2> QED
    BY <1>1, <1>4, <2>1, Zenon DEF Stage
<1>9. Made(m, op) = m \/ op.kind \in {"edit", "type", "clear"}
  BY <1>6, MadeFields
<1>10. CASE Failed(t)
  <2> DEFINE gaps == [things |-> IF own THEN untold.things ELSE untold.things \cup m.things,
                      cells |-> untold.cells \cup m.on \cup m.off]
  <2>1. FreshNow(m)
    BY <1>1, <1>4, <1>10 DEF Failed, Finished, Stage
  <2>2. UNCHANGED <<server, local, own>> /\ untold' = gaps /\ Claimed(cached)' = Claimed(cached)
    BY <1>1, <1>10 DEF Failed, Claimed
  <2>3. \A S, T : Same(Marked(S, m), T, untold.cells \ (m.on \cup m.off))
                    => Same(S, T, gaps.cells)
    BY DEF Same, Marked
  <2>4. Fresh(server.now, Claimed(cached), local, own, gaps, Nothing)
    BY <1>7, <2>1, <2>3 DEF FreshNow, Fresh, Same
  <2>5. FreshNow(Nothing)'
    BY <2>2, <2>4, Zenon DEF FreshNow
  <2> QED
    BY <1>1, <1>3, <1>5, <2>5 DEF CalmInv
<1>11. CASE Fetched(t)
  <2> DEFINE copy == {[ws EXCEPT !.marks = @ \cup local] : ws \in reply.data}
  <2>1. /\ op.kind = "get" /\ call[t].how = "ok" /\ cached' = copy /\ local' = local
        /\ own' = FALSE /\ untold' = [untold EXCEPT !.things = {}]
    BY <1>11 DEF Fetched, Finished
  <2>2. ~Failed(t)
    BY <2>1 DEF Failed, Finished
  <2>3. Fresh(server.now, Claimed(copy), local, FALSE, [untold EXCEPT !.things = {}], Nothing)
    BY <1>8, <2>1, <2>2, Zenon DEF FreshBy
  <2>4. Claimed(cached)' = Claimed(copy)
    BY <1>1, <2>1 DEF Claimed
  <2>5. FreshNow(Nothing)'
    BY <1>1, <2>1, <2>3, <2>4, Zenon DEF FreshNow
  <2> QED
    BY <1>1, <1>3, <1>5, <2>5 DEF CalmInv
<1>12. CASE Loaded(t)
  <2>1. /\ op.kind = "load" /\ call[t].how = "ok" /\ cached' = {op.on} /\ local' = op.on.marks
        /\ own' = TRUE /\ untold' = [things |-> {}, cells |-> {}]
    BY <1>12 DEF Loaded, Finished
  <2>2. ~Failed(t)
    BY <2>1 DEF Failed, Finished
  <2>3. Fresh(server.now, Claimed({op.on}), op.on.marks, TRUE, [things |-> {}, cells |-> {}],
              Nothing)
    BY <1>8, <2>1, <2>2, Zenon DEF FreshBy
  <2>4. Claimed(cached)' = Claimed({op.on})
    BY <1>1, <2>1 DEF Claimed
  <2>5. FreshNow(Nothing)'
    BY <1>1, <2>1, <2>3, <2>4, Zenon DEF FreshNow
  <2> QED
    BY <1>1, <1>3, <1>5, <2>5 DEF CalmInv
<1>13. ASSUME Patched(t) \/ Edited(t) \/ Typed(t) \/ Queried(t)
       PROVE  /\ op.kind \notin {"get", "load"}
              /\ Fresh(server.now, Claimed(Copied(op)), local, own, untold, Made(m, op))
  <2>1. op.kind \notin {"get", "load"} /\ call[t].how = "ok"
    BY <1>13 DEF Patched, Edited, Typed, Queried, Finished
  <2>2. ~Failed(t)
    BY <2>1 DEF Failed, Finished
  <2> QED
    BY <1>8, <2>1, <2>2, Zenon DEF FreshBy
<1>14. CASE Patched(t) \/ Queried(t)
  <2>1. /\ op.kind \in {"create", "delete", "query"} /\ cached' = Copied(op)
        /\ UNCHANGED <<local, own, untold>>
    BY <1>14 DEF Patched, Queried, Finished, Copied, Shown
  <2>2. Made(m, op) = Nothing
    BY <1>5, <1>9, <2>1 DEF Family
  <2>3. Claimed(cached)' = Claimed(Copied(op))
    BY <1>1, <2>1 DEF Claimed
  <2>4. FreshNow(Nothing)'
    BY <1>1, <1>13, <1>14, <2>1, <2>2, <2>3 DEF FreshNow
  <2> QED
    BY <1>1, <1>3, <1>5, <2>4 DEF CalmInv
<1>15. CASE Edited(t)
  <2>1. /\ op.kind \in {"edit", "undo", "fill"} /\ UNCHANGED <<local, own, untold>>
        /\ cached' = IF pending THEN Shown(op) ELSE {}
    BY <1>15 DEF Edited, Finished
  <2>2. Made(m, op).on = {} /\ Made(m, op).off = {}
    <3>1. CASE op.kind = "edit"
      BY <1>5, <1>6, <3>1, MadeFields DEF Family
    <3>2. CASE op.kind \in {"undo", "fill"}
      BY <1>5, <1>7, <1>9, <3>2 DEF Family
    <3> QED
      BY <2>1, <3>1, <3>2
  <2>3. Claimed(cached)' = {}
    BY <1>1, <2>1 DEF Claimed
  <2>4. Fresh(server.now, {}, local, own, untold, Nothing)
    BY <1>7, <1>13, <1>15, <2>2 DEF Fresh, Marked
  <2>5. FreshNow(Nothing)'
    BY <1>1, <2>1, <2>3, <2>4 DEF FreshNow
  <2> QED
    BY <1>1, <1>3, <1>5, <2>5 DEF CalmInv
<1>16. CASE Typed(t)
  <2>1. PICK k : k = Made(m, op)
    OBVIOUS
  <2>2. /\ op.kind \in {"type", "clear"} /\ own' = own /\ local' = Marked(local, k)
        /\ cached' = {[ws EXCEPT !.marks = Marked(@, k)] : ws \in cached}
        /\ untold' = [untold EXCEPT !.cells = @ \ (k.on \cup k.off)]
    BY <1>16, <2>1 DEF Typed, Finished
  <2>3. k.things = {}
    BY <1>5, <1>6, <2>1, <2>2, MadeFields DEF Family
  <2>4. Copied(op) = cached
    BY <2>2 DEF Copied, Shown
  <2>5. untold'.things = untold.things /\ untold'.cells = untold.cells \ (k.on \cup k.off)
    BY <1>6, <2>2
  <2>6. Fresh(server.now, Claimed(cached), local, own, untold, k)
    BY <1>13, <1>16, <2>1, <2>4
  <2>7. ASSUME NEW v \in Claimed(cached)'
        PROVE  /\ Same(v.things, server.now.things, untold'.things)
               /\ Same(v.marks, server.now.marks, untold'.cells)
    <3>1. PICK ws \in Claimed(cached) : v = [ws EXCEPT !.marks = Marked(@, k)]
      BY <1>1, <2>2, <2>7 DEF Claimed
    <3>2. v.things = ws.things /\ v.marks = Marked(ws.marks, k)
      BY <1>6, <3>1 DEF Claimed
    <3> QED
      BY <2>3, <2>5, <2>6, <3>1, <3>2 DEF Fresh
  <2>8. Same(local', server.now.marks, untold'.cells)
    BY <2>2, <2>5, <2>6 DEF Fresh
  <2>9. Fresh(server.now, Claimed(cached)', local', own, untold', Nothing)
    BY <1>7, <2>7, <2>8 DEF Fresh
  <2>10. FreshNow(Nothing)'
    BY <1>1, <2>2, <2>9 DEF FreshNow
  <2> QED
    BY <1>1, <1>3, <1>5, <2>10 DEF CalmInv
<1> QED
  BY <1>10, <1>11, <1>12, <1>14, <1>15, <1>16 DEF Ends

(* At the ends of a scope nothing is said of a copy, or there is none.      *)
LEMMA CalmScope ==
  ASSUME CalmInv, EnterScope \/ LeaveScope
  PROVE  CalmInv'
<1>1. /\ Busy = {} /\ UNCHANGED <<up, sock, requests, replies, call>>
      /\ UNCHANGED <<server, local, own, untold>>
      /\ pending' \/ cached' = {}
  BY DEF EnterScope, LeaveScope, connectionVars, netVars
<1>2. Busy' = {}
  BY <1>1 DEF Busy
<1>3. Claimed(cached)' = {}
  BY <1>1 DEF Claimed
<1>4. FreshNow(Nothing)
  BY <1>1 DEF CalmInv
<1>5. Fresh(server.now, {}, local, own, untold, Nothing)
  BY <1>4 DEF FreshNow, Fresh
<1>6. FreshNow(Nothing)'
  BY <1>1, <1>3, <1>5 DEF FreshNow
<1> QED
  BY <1>1, <1>2, <1>6 DEF CalmInv

(* The server executes the request of the one call that awaits it.          *)
LEMMA CalmExecute ==
  ASSUME TypeInv, Calm, CalmInv, NEW r \in requests, NEW failed \in BOOLEAN,
         Execute(r, failed)
  PROVE  CalmInv'
<1>0. ConnectionType /\ EngineType
  BY DEF TypeInv
<1>1. PICK t \in Busy : TRUE
  BY DEF CalmInv
<1>2. /\ Stage(t) /\ t \in Thread /\ call[t] # Idle /\ Busy = {t}
  BY <1>1 DEF CalmInv, Busy
<1>3. /\ call[t].phase = "await" /\ requests = {r} /\ r.live /\ r.op = call[t].op
      /\ replies = <<>> /\ FreshNow(made[t])
  BY <1>2 DEF Stage
<1>4. PICK marks \in {server.now.marks, {}} :
        Serve(r, IF r.op.kind = "get" THEN {[server.now EXCEPT !.marks = marks]} ELSE {}, failed)
  BY DEF Execute
<1>5. PICK data \in Copy :
        data = IF r.op.kind = "get" THEN {[server.now EXCEPT !.marks = marks]} ELSE {}
  BY <1>0 DEF Copy, EngineType, Workspace
<1>6. PICK reply \in Reply : reply = [id |-> r.id, data |-> data, failed |-> failed]
  BY <1>0 DEF ConnectionType, Reply, Request
<1>7. reply.data = data /\ reply.failed = failed
  BY <1>6
<1>8. /\ requests' = {} /\ replies' = <<reply>> /\ UNCHANGED <<setting, up, sock>>
  <2>1. /\ requests' = requests \ {r} /\ UNCHANGED <<setting, up, sock>>
        /\ replies' = IF r.live /\ sock = "open" THEN Append(replies, reply) ELSE replies
    BY <1>4, <1>5, <1>6, Zenon DEF Serve
  <2> QED
    BY <1>3, <2>1 DEF CalmInv
<1>9. /\ \A u \in Thread : call'[u] = Idle <=> call[u] = Idle
      /\ call'[t].phase = call[t].phase /\ call'[t].op = call[t].op
  BY <1>0, <1>2, <1>4, ServedCalls, LiveNotIdle
<1>10. Busy' = Busy
  BY <1>9 DEF Busy
<1>11. /\ r.op \in Op /\ UNCHANGED <<cached, local, own, pending, made>>
       /\ made[t] \in Batch /\ Family(r.op, made[t])
  BY <1>0, <1>2, <1>3 DEF ConnectionType, EngineType, Request, Execute, Stage
<1>12. FreshBy(r.op, reply, made[t])'
  <2>1. CASE failed
    <3>1. UNCHANGED <<server, untold>>
      BY <2>1 DEF Execute
    <3>2. FreshNow(made[t])'
      BY <1>3, <1>11, <3>1, SameFresh
    <3> QED
      BY <1>7, <2>1, <3>2, Zenon DEF FreshBy
  <2>2. CASE ~failed
    <3>1. /\ server' = After(r.op)
          /\ untold' = [untold EXCEPT !.cells = @ \cup Unmarked(r.op)]
      BY <2>2 DEF Execute
    <3> QED
      BY <1>3, <1>5, <1>7, <1>11, <2>2, <3>1, ExecutedFresh
  <2> QED
    BY <2>1, <2>2
<1>13. Stage(t)'
  BY <1>2, <1>3, <1>8, <1>9, <1>11, <1>12 DEF Stage, Family
<1> QED
  BY <1>2, <1>8, <1>10, <1>13 DEF CalmInv

(* The copy is fresh at first,                                              *)
LEMMA CalmInit == Init => (Calm => CalmInv)
<1> SUFFICES ASSUME Init, Calm PROVE CalmInv
  OBVIOUS
<1>1. Busy = {} /\ sock = "open" /\ up /\ requests = {} /\ replies = <<>>
  BY DEF Init, ConnectionInit, Busy
<1>2. FreshNow(Nothing)
  <2>1. PICK ws : server = [now |-> ws, before |-> <<>>] /\ local = ws.marks /\ cached = {ws}
    BY DEF Init
  <2>2. server.now = ws /\ \A v \in Claimed(cached) : v = ws
    BY <2>1 DEF Claimed
  <2>3. \A S, X : Same(S, S, X) /\ Marked(S, Nothing) = S
    BY DEF Same, Marked, Nothing
  <2> QED
    BY <2>1, <2>2, <2>3 DEF FreshNow, Fresh
<1> QED
  BY <1>1, <1>2 DEF CalmInv

(* and each step leaves it fresh, or fresh by the answer to come.           *)
LEMMA CalmStep == TypeInv /\ (Calm => CalmInv) /\ [Next]_vars => (Calm => CalmInv)'
<1> SUFFICES ASSUME TypeInv, Calm => CalmInv, [Next]_vars, Calm' PROVE CalmInv'
  OBVIOUS
<1>1. setting' = setting
  <2>1. ASSUME NEW t \in Thread, CallStep(t) PROVE setting' = setting
    BY <2>1, CallMoves
  <2>2. ASSUME NEW t \in Thread, NEW op \in Op, Read(t, op) \/ Do(t, op) \/ Another(t, op)
        PROVE  setting' = setting
    BY <2>2 DEF Read, Do, Begin, Another
  <2>3. ASSUME NEW t \in Thread, Ends(t) PROVE setting' = setting
    BY <2>3 DEF Ends, Fetched, Patched, Edited, Typed, Loaded, Queried, Failed, Forget
  <2>4. ASSUME NEW r \in requests, NEW failed \in BOOLEAN, Execute(r, failed)
        PROVE  setting' = setting
    BY <2>4 DEF Execute, Serve
  <2>5. CASE Environment
    BY <2>5 DEF Environment, Cooldown, Close, Break, Stop, Restart
  <2>6. CASE UNCHANGED vars \/ EnterScope \/ LeaveScope
    BY <2>6 DEF vars, connectionVars, EnterScope, LeaveScope
  <2> QED
    BY <2>1, <2>2, <2>3, <2>4, <2>5, <2>6 DEF Next, ThreadStep
<1>2. Calm /\ CalmInv
  BY <1>1 DEF Calm
<1>3. CASE (Environment /\ UNCHANGED engineVars) \/ UNCHANGED vars
  <2>1. /\ UNCHANGED <<up, sock, requests, replies, call>>
        /\ UNCHANGED <<server, local, cached, own, pending, made, untold>>
    BY <1>2, <1>3, CalmSetting
       DEF Environment, Cooldown, Close, Break, Stop, Restart, CalmInv, netVars,
           engineVars, vars, connectionVars
  <2>2. /\ \A m : FreshNow(m)' <=> FreshNow(m)
        /\ \A op, reply, m : FreshBy(op, reply, m)' <=> FreshBy(op, reply, m)
    BY <2>1, SameFresh
  <2>3. Busy' = Busy
    BY <2>1 DEF Busy
  <2>4. ASSUME NEW t \in Busy PROVE Stage(t)'
    <3>1. Stage(t)
      BY <1>2 DEF CalmInv
    <3> QED
      BY <2>1, <2>2, <3>1 DEF Stage, Family
  <2> QED
    BY <1>2, <2>1, <2>2, <2>3, <2>4 DEF CalmInv
<1>4. CASE EnterScope \/ LeaveScope
  BY <1>2, <1>4, CalmScope
<1> QED
  BY <1>2, <1>3, <1>4, CalmCall, CalmBegin, CalmAnother, CalmEnd, CalmExecute
     DEF Next, ThreadStep

(* For one thread, over a network and to a server that do not fail, the     *)
(* copy between two calls is the workspace of the server, and its marks,    *)
(* and those of the client, are on the cells that have hard values,         *)
(* whatever calls came before, those the server refused and the methods     *)
(* that make several calls included:  but for what such a method had        *)
(* changed when it was refused, and for hard values that were filled or     *)
(* undone (the methods of RemoteEngine, and its _invalidate_workspace_cache,*)
(* which does not drop the copy in a scope).                                *)
THEOREM FreshCopyTheorem == Spec => []FreshCopy
<1> DEFINE Inv == TypeInv /\ (Calm => CalmInv)
<1>1. Init => Inv
  BY TypeInit, CalmInit
<1>2. Inv /\ [Next]_vars => Inv'
  BY TypeStep, CalmStep
<1>3. Inv => FreshCopy
  <2> SUFFICES ASSUME Inv, Calm, Busy = {}
               PROVE  /\ local \ untold.cells = server.now.marks \ untold.cells
                      /\ \A ws \in cached : ~pending =>
                           /\ ws.things \ untold.things = server.now.things \ untold.things
                           /\ ws.marks \ untold.cells = server.now.marks \ untold.cells
    BY DEF FreshCopy
  <2>1. FreshNow(Nothing)
    BY DEF CalmInv
  <2>2. /\ Nothing.on = {} /\ Nothing.off = {} /\ Nothing.things = {}
        /\ \A S : Marked(S, Nothing) = S
    BY DEF Nothing, Marked
  <2>3. \A S, T, X, Y : Same(S, T, X) /\ X \subseteq Y => S \ Y = T \ Y
    BY DEF Same
  <2>4. \A ws \in cached : ~pending => ws \in Claimed(cached)
    BY DEF Claimed
  <2> QED
    BY <2>1, <2>2, <2>3, <2>4 DEF FreshNow, Fresh
<1> HIDE DEF Inv
<1> QED
  BY <1>1, <1>2, <1>3, PTL DEF Spec
=============================================================================
