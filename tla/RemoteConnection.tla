--------------------------- MODULE RemoteConnection ---------------------------
(***************************************************************************)
(* Calls to an engine in another process (lib_openm/remote_connection.py): *)
(* one socket that threads share under a lock, up to three attempts, and a *)
(* circuit breaker.  The engine's process is not part of the repository:   *)
(* it takes requests off the socket, executes them and answers.            *)
(*                                                                         *)
(* RemoteEngine makes its calls through this module.                       *)
(***************************************************************************)
EXTENDS Naturals, Sequences, FiniteSets

CONSTANTS
  Thread,     (* the threads that call                                      *)
  Op, Quick,  (* what can be called, and that with a lock_timeout           *)
  Id,         (* ids of requests                                            *)
  Attempts,   (* the first one and the retries                              *)
  Threshold,  (* _CIRCUIT_BREAKER_THRESHOLD                                 *)
  None,       (* no thread, no reply, no outcome                            *)
  Settings    (* the settings a run looks at, sets of the following         *)

(* threads: several calls at a time;  faults: sockets that break, and       *)
(* time-outs;  down: the server ends and starts again;  errors: calls that  *)
(* the server refuses;  interrupt: KeyboardInterrupt;  close: a shutdown in *)
(* the middle of calls.  The others are those of RemoteEngine.              *)
Possibilities ==
  {"threads", "faults", "down", "errors", "interrupt", "close",
   "edits", "fill", "undo", "load", "batch", "scope"}

How == {"ok", "error", "raised", "refused"}

ASSUME ConnectionAssumption ==
  /\ None \notin Thread \cup How /\ Quick \subseteq Op
  /\ Attempts \in Nat \ {0} /\ Threshold \in Nat \ {0}
  /\ Settings \subseteq SUBSET Possibilities

VARIABLES
  setting,    (* the setting;  it does not change                           *)
  up,         (* whether the server listens                                 *)
  sock,       (* _sock: none, open, or broken by its other end              *)
  requests,   (* what the server has received and not executed              *)
  replies,    (* what it has sent over the socket and nobody has read       *)
  lock,       (* who has _lock                                              *)
  failures,   (* _consecutive_failures, up to Threshold                     *)
  open,       (* _circuit_open_until is still to come                       *)
  shut,       (* whether the client has shut down                           *)
  call        (* what each thread calls, and how it ended                   *)

netVars == <<up, sock, requests, replies>>
breakerVars == <<failures, open>>
connectionVars == <<setting, netVars, lock, breakerVars, shut, call>>

May(p) == p \in setting
Socket == {"none", "open", "eof", "reset"}
Phase == {"wants", "holds", "attempt", "await", "done"}

Idle == [phase |-> "idle", ids |-> {}]
Busy == {t \in Thread : call[t] # Idle}

ConnectionTypeOK ==
  /\ setting \in Settings /\ up \in BOOLEAN /\ sock \in Socket
  /\ requests \subseteq [id : Id, op : Op, live : BOOLEAN]
  /\ \A r \in requests : r.live => sock \in {"open", "eof", "reset"}
  /\ \A i \in DOMAIN replies : replies[i].id \in Id
  /\ replies # <<>> => sock # "none"
  /\ lock \in Thread \cup {None}
  /\ \A t \in Thread : call[t] # Idle /\ call[t].phase \in {"holds", "attempt", "await"} <=> lock = t
  /\ failures \in 0..Threshold /\ open \in BOOLEAN /\ shut \in BOOLEAN
  /\ \A t \in Busy :
       /\ call[t].phase \in Phase /\ call[t].op \in Op /\ call[t].ids \subseteq Id
       /\ call[t].attempt \in 0..Attempts - 1 /\ call[t].how \in How \cup {None}

ConnectionInit ==
  /\ setting \in Settings
  /\ up = TRUE /\ sock = "open" /\ requests = {} /\ replies = <<>>
  /\ lock = None /\ failures = 0 /\ open = FALSE /\ shut = FALSE
  /\ call = [t \in Thread |-> Idle]

-----------------------------------------------------------------------------
(* The lock and the breaker.                                                *)

Started(op) ==
  [phase |-> "wants", op |-> op, ids |-> {}, attempt |-> 0, executed |-> 0,
   how |-> None, reply |-> None]

Begin(t, op) ==
  /\ call[t] = Idle
  /\ May("threads") \/ Busy = {}
  /\ call' = [call EXCEPT ![t] = Started(op)]
  /\ UNCHANGED <<setting, shut, netVars, lock, breakerVars>>

Acquire(t) ==
  /\ call[t].phase = "wants" /\ lock = None
  /\ lock' = t
  /\ call' = [call EXCEPT ![t].phase = "holds"]
  /\ UNCHANGED <<setting, shut, netVars, breakerVars>>

Ended(t, how, reply) ==
  call' = [call EXCEPT ![t].phase = "done", ![t].how = how, ![t].reply = reply]

(* lock_timeout.                                                            *)
LockTimeout(t) ==
  /\ call[t].phase = "wants" /\ lock # None /\ call[t].op \in Quick
  /\ Ended(t, "refused", None)
  /\ UNCHANGED <<setting, shut, netVars, lock, breakerVars>>

(* Fault: a call that the breaker refuses keeps the lock.                   *)
CheckBreakerLocked(t) ==
  /\ call[t].phase = "holds"
  /\ IF failures >= Threshold /\ open
     THEN Ended(t, "refused", None) /\ UNCHANGED lock
     ELSE call' = [call EXCEPT ![t].phase = "attempt"] /\ UNCHANGED lock
  /\ UNCHANGED <<setting, shut, netVars, breakerVars>>

CheckBreaker(t) ==
  /\ call[t].phase = "holds"
  /\ IF failures >= Threshold /\ open
     THEN Ended(t, "refused", None) /\ lock' = None
     ELSE call' = [call EXCEPT ![t].phase = "attempt"] /\ UNCHANGED lock
  /\ UNCHANGED <<setting, shut, netVars, breakerVars>>

(* The cooldown is over.                                                    *)
Cooldown == open /\ open' = FALSE /\ UNCHANGED <<setting, shut, netVars, lock, failures, call>>

-----------------------------------------------------------------------------
(* An attempt.                                                              *)

(* What was sent may be executed all the same.                              *)
SocketClosed ==
  /\ sock' = "none" /\ replies' = <<>>
  /\ requests' = {[r EXCEPT !.live = FALSE] : r \in requests}

Raise(t) == Ended(t, "raised", None) /\ lock' = None

(* A refused connection, a reset or a broken pipe: the attempt counts, and  *)
(* is repeated unless it trips the breaker or was the last.                 *)
FailedAttempt(t) ==
  LET counted == IF failures < Threshold THEN failures + 1 ELSE failures
  IN  /\ SocketClosed
      /\ failures' = counted
      /\ open' = (open \/ counted = Threshold)
      /\ IF counted = Threshold \/ call[t].attempt = Attempts - 1 THEN Raise(t)
         ELSE call' = [call EXCEPT ![t].phase = "attempt", ![t].attempt = @ + 1]
              /\ UNCHANGED lock

Connect(t) ==
  /\ call[t].phase = "attempt" /\ sock = "none"
  /\ \/ up /\ sock' = "open" /\ UNCHANGED <<requests, replies, lock, breakerVars, call>>
     \/ ~up /\ FailedAttempt(t)
     \/ May("faults") /\ Raise(t) /\ UNCHANGED <<sock, requests, replies, breakerVars>>
  /\ UNCHANGED <<setting, shut, up>>

InUse == {r.id : r \in requests} \cup {replies[i].id : i \in DOMAIN replies}
         \cup UNION {call[t].ids : t \in Thread}

(* Over a socket that its other end has closed, sending may succeed.        *)
Send(t) ==
  /\ call[t].phase = "attempt" /\ sock # "none"
  /\ \/ \E i \in Id :
          /\ i \notin InUse /\ \A k \in Id : k < i => k \in InUse
          /\ requests' = IF sock # "open" THEN requests
                         ELSE requests \cup {[id |-> i, op |-> call[t].op, live |-> TRUE]}
          /\ call' = [call EXCEPT ![t].phase = "await", ![t].ids = @ \cup {i}]
          /\ UNCHANGED <<sock, replies, lock, breakerVars>>
     \/ sock # "open" /\ FailedAttempt(t)
     \/ May("faults") /\ Raise(t) /\ SocketClosed /\ UNCHANGED breakerVars
  /\ UNCHANGED <<setting, shut, up>>

(* The first reply there is, whatever its id.  An error that the server     *)
(* reports leaves the count of failures as it is.                           *)
Receive(t) ==
  /\ call[t].phase = "await" /\ replies # <<>> /\ sock # "none"
  /\ LET reply == Head(replies) IN
       /\ Ended(t, IF reply.failed THEN "error" ELSE "ok", reply)
       /\ failures' = IF reply.failed THEN failures ELSE 0
  /\ replies' = Tail(replies) /\ lock' = None
  /\ UNCHANGED <<setting, shut, up, sock, requests, open>>

(* Fault: the socket is kept after a time-out.                              *)
ReceiveNothingKept(t) ==
  /\ call[t].phase = "await" /\ (replies = <<>> \/ sock = "none")
  /\ \/ sock = "open" /\ May("faults") /\ Raise(t) /\ UNCHANGED <<sock, requests, replies, breakerVars>>
     \/ sock = "eof" /\ SocketClosed /\ Raise(t) /\ UNCHANGED breakerVars
     \/ sock = "reset" /\ FailedAttempt(t)
     \/ sock = "none" /\ Raise(t) /\ UNCHANGED <<sock, requests, replies, breakerVars>>
  /\ UNCHANGED <<setting, shut, up>>

(* A time-out, the end of the stream, a reset;  or the socket was closed by *)
(* a shutdown.                                                              *)
ReceiveNothing(t) ==
  /\ call[t].phase = "await" /\ (replies = <<>> \/ sock = "none")
  /\ \/ sock = "open" /\ May("faults") /\ SocketClosed /\ Raise(t) /\ UNCHANGED breakerVars
     \/ sock = "eof" /\ SocketClosed /\ Raise(t) /\ UNCHANGED breakerVars
     \/ sock = "reset" /\ FailedAttempt(t)
     \/ sock = "none" /\ Raise(t) /\ UNCHANGED <<sock, requests, replies, breakerVars>>
  /\ UNCHANGED <<setting, shut, up>>

(* KeyboardInterrupt: only the lock is given back.  Bound: there is an id   *)
(* left for the next call.                                                  *)
Interrupt(t) ==
  /\ May("interrupt") /\ call[t].phase = "await" /\ Id \ InUse # {}
  /\ Raise(t)
  /\ UNCHANGED <<setting, shut, netVars, breakerVars>>

(* close, by a shutdown, of which there is one: it does not wait for the    *)
(* lock.                                                                    *)
Close ==
  /\ May("close") /\ ~shut /\ sock # "none"
  /\ SocketClosed /\ shut' = TRUE
  /\ UNCHANGED <<setting, up, lock, breakerVars, call>>

-----------------------------------------------------------------------------
(* The server (external).                                                   *)

(* A request is executed, with this as the answer, which goes nowhere when  *)
(* its socket is closed.                                                    *)
Serve(r, data, failed) ==
  /\ up /\ r \in requests
  /\ failed => May("errors")
  /\ requests' = requests \ {r}
  /\ replies' = IF r.live /\ sock = "open"
                THEN Append(replies, [id |-> r.id, data |-> data, failed |-> failed])
                ELSE replies
  /\ call' = [t \in Thread |->
               IF r.id \in call[t].ids THEN [call[t] EXCEPT !.executed = @ + 1] ELSE call[t]]
  /\ UNCHANGED <<setting, shut, up, sock, lock, breakerVars>>

(* The other end of the socket goes away.                                   *)
Break ==
  /\ May("faults") /\ sock = "open"
  /\ \E how \in {"eof", "reset"} :
       sock' = how /\ replies' = IF how = "reset" THEN <<>> ELSE replies
  /\ UNCHANGED <<setting, shut, up, requests, lock, breakerVars, call>>

Stop ==
  /\ May("down") /\ up
  /\ up' = FALSE /\ requests' = {}
  /\ sock' = IF sock = "open" THEN "reset" ELSE sock
  /\ replies' = IF sock = "open" THEN <<>> ELSE replies
  /\ UNCHANGED <<setting, shut, lock, breakerVars, call>>

Restart == ~up /\ up' = TRUE /\ UNCHANGED <<setting, shut, sock, requests, replies, lock, breakerVars, call>>

-----------------------------------------------------------------------------
CallStep(t) ==
  \/ Acquire(t) \/ LockTimeout(t) \/ CheckBreaker(t) \/ Connect(t) \/ Send(t)
  \/ Receive(t) \/ ReceiveNothing(t) \/ Interrupt(t)

(* What only the network and time do.                                       *)
Environment == Cooldown \/ Close \/ Break \/ Stop \/ Restart

-----------------------------------------------------------------------------
(* Properties.                                                              *)

(* "serializes concurrent calls so multiple threads can share a single      *)
(* connection without corrupting the wire protocol": a call gets the reply  *)
(* to its own request, also after time-outs, resets and shutdowns (but not  *)
(* after a KeyboardInterrupt);  what was called has then been executed, at  *)
(* most once for each attempt, and a call that was refused was not.         *)
Answered == \A t \in Busy :
  LET c == call[t]
  IN  /\ c.phase = "done" /\ c.how \in {"ok", "error"} /\ ~May("interrupt") =>
           c.reply.id \in c.ids /\ c.executed >= 1
      /\ c.executed <= c.attempt + 1
      /\ c.how = "refused" => c.executed = 0

(* Every attempt finds the breaker closed: a server that is down is left    *)
(* alone until the cooldown is over.                                        *)
NoStorm ==
  \A t \in Thread : call[t].phase \in {"attempt", "await"} => ~(open /\ failures >= Threshold)

===============================================================================
