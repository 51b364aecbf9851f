--------------------------- MODULE Transport_proofs ---------------------------
(***************************************************************************)
(* Proofs about Transport.                                                 *)
(*                                                                         *)
(* TypeInv types what TypeOK leaves out: what a thread has asked for, what *)
(* the server has popped and kept, what publishers are about to append.    *)
(*                                                                         *)
(* RepliesKept: a request and its reply go from one place to the next, so  *)
(* an id is in at most one of them (SingleIn);  a thread that waits has    *)
(* its id in one of them (StillThere), and nobody else has (OwnIds).       *)
(*                                                                         *)
(* EventsKept: the events of a pattern go through stages, from the queue   *)
(* to the callbacks, and those of one publisher are in order within each   *)
(* and from one to the next (Ordered);  who appends to what was popped has *)
(* nothing in the new queue (Popping), and an event comes after all of its *)
(* publisher's earlier ones (Fresh).  When nothing is published in the     *)
(* middle of a poll and no reply is late, each queue is the end of what    *)
(* was appended (Lasts), so what falls out of it is not among the latest   *)
(* (Kept).                                                                 *)
(***************************************************************************)
EXTENDS Transport, Integers, FiniteSetTheorems, SequenceTheorems, WellFoundedInduction, TLAPS

Connection == [sock : BOOLEAN, up : BOOLEAN, requests : Seq(Request),
               replies : Seq(Reply), buffer : Seq(Reply),
               stash : SUBSET Reply, holder : Thread \cup {None}]

(* A call under way, and how it has ended.                                  *)
Called == [phase : Phase, request : Request]
Result == [id : Id, how : {"answered"} \cup Failure, reply : Id \cup {None}]

(* A poll that the server answers, and an event that is published.          *)
Serving == [id : Id, left : SUBSET Pattern, at : Pattern \cup {None}, popped : Seq(Event),
            events : Seq(Event), kept : Seq([pattern : Pattern, events : Seq(Event)])]
Publishing == [event : Event, left : SUBSET Pattern, at : Pattern \cup {None},
               to : {"queue", "popped", "nowhere"}]

CallsType ==
  /\ setting \in Settings /\ conn \in [Conn -> Connection]
  /\ thread \in [Thread -> {Idle} \cup Called] /\ result \in [Thread -> {None} \cup Result]
  /\ calls \in 0..MaxCalls

(* What the server has of its connections.                                  *)
Sender == [cut : BOOLEAN, stalled : Nat, unsent : SUBSET Reply]
SendType == sending \in [Conn -> Sender]

(* Who has a lock is receiving, and the other way around.                   *)
Holders ==
  /\ \A c \in Conn : conn[c].holder # None =>
       ConnOf(conn[c].holder) = c /\ thread[conn[c].holder].phase = "receiving"
  /\ \A t \in Thread : thread[t].phase = "receiving" => conn[ConnOf(t)].holder = t

EventsType ==
  /\ subscriptions \subseteq Pattern /\ subscribed \subseteq Pattern
  /\ delivered \in [Pattern -> Seq(Event)] /\ appended \in [Pattern -> Seq(Event)]
  /\ queue \in [Pattern -> Seq(Event)]
  /\ \A p \in Pattern : Len(queue[p]) <= MaxQueue
  /\ serving \in {NotServing} \cup Serving
  /\ publishing \in [Publisher -> {Quiet} \cup Publishing]
  /\ conn["events"].up \/ (subscribed = {} /\ serving = NotServing)

(* What goes back into a queue has room there.                              *)
Bounded == serving # NotServing =>
  /\ Len(serving.popped) <= MaxQueue
  /\ \A k \in ItemsOf(serving.kept) : Len(k.events) <= MaxQueue

TypeInv == CallsType /\ SendType /\ Holders /\ EventsType /\ Bounded

-----------------------------------------------------------------------------
(* Sequences.                                                               *)

(* A poll that is served is not the value for none.                         *)
LEMMA Notserving == \A s \in Serving : s # NotServing
BY DEF Serving, NotServing

(* What a publisher is about to append is not the value for nothing.        *)
LEMMA Notquiet == \A s \in Publishing : s # Quiet
BY DEF Publishing, Quiet

(* What is left of a sequence without its first items.                      *)
LEMMA SuffixFacts ==
  ASSUME NEW S, NEW s \in Seq(S), NEW n \in 0..Len(s)
  PROVE  /\ Suffix(s, n) \in Seq(S) /\ Len(Suffix(s, n)) = Len(s) - n
         /\ \A i \in 1..Len(s) - n : Suffix(s, n)[i] = s[n + i]
BY SubSeqProperties DEF Suffix

(* The first items of a sequence.                                           *)
LEMMA PrefixFacts ==
  ASSUME NEW S, NEW s \in Seq(S), NEW n \in 0..Len(s)
  PROVE  /\ Prefix(s, n) \in Seq(S) /\ Len(Prefix(s, n)) = n
         /\ \A i \in 1..n : Prefix(s, n)[i] = s[i]
BY SubSeqProperties DEF Prefix

(* The latest items are what is left without the earlier ones.              *)
LEMMA LatestFacts ==
  ASSUME NEW S, NEW s \in Seq(S), NEW n \in Nat
  PROVE  /\ Latest(s, n) = Suffix(s, IF Len(s) <= n THEN 0 ELSE Len(s) - n)
         /\ Len(s) \in Nat
<1>1. CASE Len(s) <= n
  BY <1>1, SubSeqFull DEF Latest, Suffix
<1>2. CASE ~(Len(s) <= n)
  BY <1>2 DEF Latest, Suffix
<1> QED
  BY <1>1, <1>2

(* The items of a sequence are of its type.                                 *)
LEMMA ItemsType ==
  ASSUME NEW S, NEW s \in Seq(S)
  PROVE  ItemsOf(s) \subseteq S
BY DEF ItemsOf

-----------------------------------------------------------------------------
(* What the steps do to connections, calls and their results.               *)

(* Only one connection changes, or one thread, or one result.               *)
OnlyConn(c) == conn' \in [Conn -> Connection] /\ \A d \in Conn \ {c} : conn'[d] = conn[d]
OnlyThread(t) ==
  thread' \in [Thread -> {Idle} \cup Called] /\ \A u \in Thread \ {t} : thread'[u] = thread[u]
OnlyResult(t) ==
  result' \in [Thread -> {None} \cup Result] /\ \A u \in Thread \ {t} : result'[u] = result[u]

(* A thread is either idle or has a request.                                *)
LEMMA CalledFacts ==
  /\ Idle \notin Called /\ \A k \in Called : k # Idle /\ k.phase # "idle"
  /\ Idle.phase = "idle"
BY DEF Called, Idle, Phase

(* A thread that is not idle has a request with an id.                      *)
LEMMA ThreadCalled ==
  ASSUME CallsType, NEW t \in Thread, thread[t].phase # "idle"
  PROVE  thread[t] \in Called /\ thread[t].request \in Request /\ thread[t].request.id \in Id
BY CalledFacts DEF CallsType, Called, Request

(* Every thread has one of the two connections.                             *)
LEMMA Connections == ASSUME NEW t \in Thread PROVE ConnOf(t) \in Conn
BY DEF ConnOf, Conn

(* Returns ends the call of one thread and gives back the lock that it has. *)
LEMMA ReturnsEffect ==
  ASSUME CallsType, NEW t \in Thread, thread[t] \in Called, NEW k \in Connection,
         NEW how \in {"answered"} \cup Failure, NEW reply \in Id \cup {None},
         Returns(t, how, reply, k)
  PROVE  /\ OnlyConn(ConnOf(t)) /\ OnlyThread(t) /\ OnlyResult(t) /\ calls' = calls
         /\ conn'[ConnOf(t)].sock = k.sock /\ conn'[ConnOf(t)].up = k.up
         /\ conn'[ConnOf(t)].requests = k.requests /\ conn'[ConnOf(t)].replies = k.replies
         /\ conn'[ConnOf(t)].buffer = k.buffer /\ conn'[ConnOf(t)].stash = k.stash
         /\ conn'[ConnOf(t)].holder = IF k.holder = t THEN None ELSE k.holder
         /\ thread'[t] = Idle
         /\ result'[t] \in Result /\ result'[t].id = thread[t].request.id
         /\ result'[t].how = how /\ result'[t].reply = reply
<1>1. PICK h : h = IF k.holder = t THEN None ELSE k.holder
  OBVIOUS
<1>2. h \in Thread \cup {None}
  BY <1>1 DEF Connection
<1>3. PICK m \in Connection : m = [k EXCEPT !.holder = h]
  BY <1>2 DEF Connection
<1>4. /\ m.sock = k.sock /\ m.up = k.up /\ m.requests = k.requests /\ m.replies = k.replies
      /\ m.buffer = k.buffer /\ m.stash = k.stash /\ m.holder = h
  BY <1>3 DEF Connection
<1>5. /\ conn' = [conn EXCEPT ![ConnOf(t)] = m]
      /\ thread' = [thread EXCEPT ![t] = Idle] /\ calls' = calls
      /\ result' = [result EXCEPT ![t] = [id |-> thread[t].request.id, how |-> how, reply |-> reply]]
  BY <1>1, <1>3 DEF Returns
<1>6. conn'[ConnOf(t)] = m /\ OnlyConn(ConnOf(t))
  BY <1>5, Connections DEF CallsType, OnlyConn
<1>7. thread'[t] = Idle /\ OnlyThread(t)
  BY <1>5 DEF CallsType, OnlyThread
<1>8. PICK r \in Result : r = [id |-> thread[t].request.id, how |-> how, reply |-> reply]
  BY CalledFacts, ThreadCalled DEF Result
<1>9. r.id = thread[t].request.id /\ r.how = how /\ r.reply = reply
  BY <1>8
<1>10. result'[t] = r /\ OnlyResult(t)
  BY <1>5, <1>8 DEF CallsType, OnlyResult
<1> QED
  BY <1>1, <1>4, <1>5, <1>6, <1>7, <1>9, <1>10

(* A new call.                                                              *)
Asked(t, topics) ==
  /\ conn' = conn /\ OnlyThread(t) /\ OnlyResult(t)
  /\ thread[t] = Idle /\ thread'[t] \in Called /\ thread'[t].phase = "calling"
  /\ ~InUse(thread'[t].request.id) /\ thread'[t].request.topics = topics
  /\ result'[t] = None

(* Ask begins a call with an id that is not in use.                         *)
LEMMA AskEffect ==
  ASSUME CallsType, NEW t \in Thread, NEW topics \in SUBSET Pattern, thread[t] = Idle,
         Ask(t, topics), conn' = conn
  PROVE  Asked(t, topics)
<1>1. PICK i \in Id :
        /\ ~InUse(i)
        /\ thread' = [thread EXCEPT ![t] =
                        [phase |-> "calling", request |-> [id |-> i, topics |-> topics]]]
        /\ result' = [result EXCEPT ![t] = None]
  BY DEF Ask
<1>2. PICK r \in Request : r = [id |-> i, topics |-> topics]
  BY DEF Request
<1>3. r.id = i /\ r.topics = topics
  BY <1>2
<1>4. PICK k \in Called : k = [phase |-> "calling", request |-> r]
  BY <1>2 DEF Called, Phase
<1>5. k.phase = "calling" /\ k.request = r
  BY <1>4
<1>6. thread' = [thread EXCEPT ![t] = k]
  BY <1>1, <1>2, <1>4
<1>7. thread'[t] = k /\ OnlyThread(t)
  BY <1>6 DEF CallsType, OnlyThread
<1>8. result'[t] = None /\ OnlyResult(t)
  BY <1>1 DEF CallsType, OnlyResult
<1> QED
  BY <1>1, <1>3, <1>5, <1>7, <1>8 DEF Asked

(* A call that has ended.                                                   *)
Ended(t, how, reply) ==
  /\ OnlyConn(ConnOf(t)) /\ OnlyThread(t) /\ OnlyResult(t)
  /\ thread[t] \in Called /\ thread'[t] = Idle
  /\ result'[t] \in Result /\ result'[t].id = thread[t].request.id
  /\ result'[t].how = how /\ result'[t].reply = reply
  /\ conn'[ConnOf(t)].holder = IF conn[ConnOf(t)].holder = t THEN None
                               ELSE conn[ConnOf(t)].holder

(* What is left of a connection.                                            *)
Stands(m, sock, up, requests, replies, buffer, stash) ==
  /\ m.sock = sock /\ m.up = up /\ m.requests = requests /\ m.replies = replies
  /\ m.buffer = buffer /\ m.stash = stash

(* The types of what a connection consists of.                              *)
LEMMA ConnFields ==
  ASSUME CallsType, NEW c \in Conn
  PROVE  /\ conn[c] \in Connection /\ conn[c].sock \in BOOLEAN /\ conn[c].up \in BOOLEAN
         /\ conn[c].requests \in Seq(Request) /\ conn[c].replies \in Seq(Reply)
         /\ conn[c].buffer \in Seq(Reply) /\ conn[c].stash \in SUBSET Reply
         /\ conn[c].holder \in Thread \cup {None}
BY DEF CallsType, Connection

(* The types of what replies and requests consist of.                       *)
LEMMA ReplyId == /\ \A r \in Reply : r.id \in Id /\ r.events \in Seq(Event)
                 /\ \A q \in Request : q.id \in Id /\ q.topics \in SUBSET Pattern
BY DEF Reply, Request

(* Sending: the reply is in the stash, the connection is lost, or the       *)
(* request goes out.                                                        *)
Sends(t) ==
  LET k == conn[ConnOf(t)]
      m == conn'[ConnOf(t)]
  IN  \/ \E r \in Stashed(t) :
           /\ Ended(t, "answered", r.id) /\ r.id = thread[t].request.id
           /\ Stands(m, k.sock, k.up, k.requests, k.replies, k.buffer, k.stash \ {r})
      \/ /\ ~(k.sock /\ k.up) /\ Ended(t, "lost", None)
         /\ \/ Stands(m, FALSE, k.up, k.requests, k.replies, k.buffer, k.stash)
            \/ Stands(m, FALSE, k.up, k.requests, k.replies, <<>>, k.stash)
      \/ /\ Stashed(t) = {} /\ k.sock /\ OnlyConn(ConnOf(t)) /\ OnlyThread(t)
         /\ Stands(m, k.sock, k.up, IF k.up THEN Append(k.requests, thread[t].request)
                                    ELSE k.requests, k.replies, k.buffer, k.stash)
         /\ m.holder = k.holder
         /\ thread[t] \in Called /\ thread'[t] \in Called /\ thread'[t].phase = "waiting"
         /\ thread'[t].request = thread[t].request
         /\ result' = result

(* Send does one of these.                                                  *)
LEMMA SendEffect ==
  ASSUME CallsType, NEW t \in Thread, Send(t)
  PROVE  Sends(t) /\ thread[t].phase = "calling" /\ thread[t] \in Called /\ calls' = calls
<1> DEFINE k == conn[ConnOf(t)]
<1>1. /\ k \in Connection /\ thread[t].phase = "calling" /\ thread[t] \in Called
      /\ thread[t].request \in Request
  BY Connections, ConnFields, ThreadCalled DEF Send
<1>2. ASSUME NEW r \in Stashed(t),
             Returns(t, "answered", r.id, [k EXCEPT !.stash = @ \ {r}])
      PROVE  Sends(t) /\ calls' = calls
  <2>1. r \in Reply /\ r.id \in Id /\ r.id = thread[t].request.id
    BY <1>1, ReplyId DEF Stashed, Connection
  <2>2. PICK m \in Connection : m = [k EXCEPT !.stash = @ \ {r}]
    BY <1>1 DEF Connection
  <2>3. m.holder = k.holder /\ Stands(m, k.sock, k.up, k.requests, k.replies, k.buffer, k.stash \ {r})
    BY <1>1, <2>2 DEF Connection, Stands
  <2>4. /\ Ended(t, "answered", r.id) /\ calls' = calls
        /\ Stands(conn'[ConnOf(t)], m.sock, m.up, m.requests, m.replies, m.buffer, m.stash)
    <3>1. Returns(t, "answered", r.id, m)
      BY <1>2, <2>2
    <3> QED
      BY <1>1, <2>1, <2>3, <3>1, ReturnsEffect DEF Ended, Stands
  <2> QED
    BY <2>1, <2>3, <2>4 DEF Sends, Stands
<1>3. ASSUME ~(k.sock /\ k.up),
             Returns(t, "lost", None, [k EXCEPT !.sock = FALSE,
                                         !.buffer = IF k.sock THEN <<>> ELSE @])
      PROVE  Sends(t) /\ calls' = calls
  <2>1. PICK b \in Seq(Reply) : b = IF k.sock THEN <<>> ELSE k.buffer
    BY <1>1, EmptySeq DEF Connection
  <2>2. PICK m \in Connection : m = [k EXCEPT !.sock = FALSE, !.buffer = b]
    BY <1>1, <2>1 DEF Connection
  <2>3. /\ m.holder = k.holder
        /\ \/ Stands(m, FALSE, k.up, k.requests, k.replies, <<>>, k.stash)
           \/ Stands(m, FALSE, k.up, k.requests, k.replies, k.buffer, k.stash)
    BY <1>1, <2>1, <2>2 DEF Connection, Stands
  <2>4. /\ Ended(t, "lost", None) /\ calls' = calls
        /\ Stands(conn'[ConnOf(t)], m.sock, m.up, m.requests, m.replies, m.buffer, m.stash)
    <3>1. Returns(t, "lost", None, m)
      BY <1>3, <2>1, <2>2
    <3> QED
      BY <1>1, <2>3, <3>1, ReturnsEffect DEF Ended, Stands, Failure
  <2> QED
    BY <1>3, <2>3, <2>4 DEF Sends, Stands
<1>4. ASSUME Stashed(t) = {}, k.sock,
             conn' = [conn EXCEPT ![ConnOf(t)].requests =
                        IF k.up THEN Append(@, thread[t].request) ELSE @],
             thread' = [thread EXCEPT ![t].phase = "waiting"], result' = result
      PROVE  Sends(t)
  <2>1. PICK s : s = IF k.up THEN Append(k.requests, thread[t].request) ELSE k.requests
    OBVIOUS
  <2>2. s \in Seq(Request)
    BY <1>1, <2>1, AppendProperties DEF Connection
  <2>3. PICK m \in Connection : m = [k EXCEPT !.requests = s]
    BY <1>1, <2>2 DEF Connection
  <2>4. m.holder = k.holder /\ Stands(m, k.sock, k.up, s, k.replies, k.buffer, k.stash)
    BY <1>1, <2>3 DEF Connection, Stands
  <2>5. conn' = [conn EXCEPT ![ConnOf(t)] = m]
    BY <1>4, <2>1, <2>3
  <2>6. conn'[ConnOf(t)] = m /\ OnlyConn(ConnOf(t))
    BY <2>5, Connections DEF CallsType, OnlyConn
  <2>7. PICK u \in Called : u = [thread[t] EXCEPT !.phase = "waiting"]
    BY <1>1 DEF Called, Phase
  <2>8. u.phase = "waiting" /\ u.request = thread[t].request
    BY <1>1, <2>7 DEF Called
  <2>9. thread'[t] = u /\ OnlyThread(t)
    BY <1>4, <2>7 DEF CallsType, OnlyThread
  <2> QED
    BY <1>1, <1>4, <2>1, <2>4, <2>6, <2>8, <2>9 DEF Sends
<1> QED
  BY <1>1, <1>2, <1>3, <1>4 DEF Send

(* The receive lock.                                                        *)
LEMMA AcquireEffect ==
  ASSUME CallsType, NEW t \in Thread, Acquire(t)
  PROVE  LET k == conn[ConnOf(t)]
             m == conn'[ConnOf(t)]
         IN  /\ OnlyConn(ConnOf(t)) /\ OnlyThread(t)
             /\ k.holder = None /\ m.holder = t
             /\ Stands(m, k.sock, k.up, k.requests, k.replies, k.buffer, k.stash)
             /\ thread[t] \in Called /\ thread[t].phase = "waiting"
             /\ thread'[t] \in Called /\ thread'[t].phase = "receiving"
             /\ thread'[t].request = thread[t].request
<1> DEFINE k == conn[ConnOf(t)]
<1>1. /\ k \in Connection /\ thread[t].phase = "waiting" /\ thread[t] \in Called /\ k.holder = None
  BY Connections, ConnFields, ThreadCalled DEF Acquire
<1>2. PICK m \in Connection : m = [k EXCEPT !.holder = t]
  BY <1>1 DEF Connection
<1>3. m.holder = t /\ Stands(m, k.sock, k.up, k.requests, k.replies, k.buffer, k.stash)
  BY <1>1, <1>2 DEF Connection, Stands
<1>4. conn' = [conn EXCEPT ![ConnOf(t)] = m]
  BY <1>2 DEF Acquire
<1>5. conn'[ConnOf(t)] = m /\ OnlyConn(ConnOf(t))
  BY <1>4, Connections DEF CallsType, OnlyConn
<1>6. PICK u \in Called : u = [thread[t] EXCEPT !.phase = "receiving"]
  BY <1>1 DEF Called, Phase
<1>7. u.phase = "receiving" /\ u.request = thread[t].request
  BY <1>1, <1>6 DEF Called
<1>8. thread'[t] = u /\ OnlyThread(t)
  BY <1>6 DEF CallsType, OnlyThread, Acquire
<1> QED
  BY <1>1, <1>3, <1>5, <1>7, <1>8

(* Reading a line of the buffer.                                            *)
Drains(t) ==
  LET k == conn[ConnOf(t)]
      m == conn'[ConnOf(t)]
      reply == Head(k.buffer)
  IN  \/ /\ reply.id = thread[t].request.id /\ Ended(t, "answered", reply.id)
         /\ Stands(m, k.sock, k.up, k.requests, k.replies, Tail(k.buffer), k.stash)
         /\ Dispatch(t, reply)
      \/ /\ reply.id # thread[t].request.id /\ OnlyConn(ConnOf(t)) /\ m.holder = k.holder
         /\ Stands(m, k.sock, k.up, k.requests, k.replies, Tail(k.buffer), k.stash \cup {reply})
         /\ UNCHANGED <<thread, result, delivered>>

(* Drain does one of these.                                                 *)
LEMMA DrainEffect ==
  ASSUME CallsType, NEW t \in Thread, Drain(t)
  PROVE  /\ Drains(t) /\ calls' = calls
         /\ thread[t].phase = "receiving" /\ thread[t] \in Called
         /\ conn[ConnOf(t)].buffer # <<>>
<1> DEFINE k == conn[ConnOf(t)]
<1>1. /\ k \in Connection /\ thread[t].phase = "receiving" /\ thread[t] \in Called
      /\ k.buffer # <<>> /\ k.buffer \in Seq(Reply) /\ k.stash \in SUBSET Reply
  BY Connections, ConnFields, ThreadCalled DEF Drain, Receiving
<1>2. PICK reply \in Reply : reply = Head(k.buffer)
  BY <1>1, HeadTailProperties
<1>3. PICK b \in Seq(Reply) : b = Tail(k.buffer)
  BY <1>1, HeadTailProperties
<1>4. PICK rest \in Connection : rest = [k EXCEPT !.buffer = Tail(@)]
  BY <1>1, <1>3 DEF Connection
<1>5. rest.holder = k.holder /\ Stands(rest, k.sock, k.up, k.requests, k.replies, b, k.stash)
  BY <1>1, <1>3, <1>4 DEF Connection, Stands
<1>6. ASSUME reply.id = thread[t].request.id,
             Returns(t, "answered", reply.id, rest), Dispatch(t, reply)
      PROVE  Drains(t) /\ calls' = calls
  <2>1. /\ Ended(t, "answered", reply.id) /\ calls' = calls
        /\ Stands(conn'[ConnOf(t)], rest.sock, rest.up, rest.requests, rest.replies,
                  rest.buffer, rest.stash)
    BY <1>1, <1>5, <1>6, ReplyId, ReturnsEffect DEF Ended, Stands
  <2> QED
    BY <1>2, <1>3, <1>5, <1>6, <2>1 DEF Drains, Stands
<1>7. ASSUME reply.id # thread[t].request.id,
             conn' = [conn EXCEPT ![ConnOf(t)] = [rest EXCEPT !.stash = @ \cup {reply}]],
             UNCHANGED <<thread, result, calls, delivered>>
      PROVE  Drains(t) /\ calls' = calls
  <2>1. PICK m \in Connection : m = [rest EXCEPT !.stash = @ \cup {reply}]
    BY <1>1 DEF Connection
  <2>2. /\ m.holder = rest.holder
        /\ Stands(m, rest.sock, rest.up, rest.requests, rest.replies, rest.buffer,
                  rest.stash \cup {reply})
    BY <2>1 DEF Connection, Stands
  <2>3. conn'[ConnOf(t)] = m /\ OnlyConn(ConnOf(t))
    BY <1>7, <2>1, Connections DEF CallsType, OnlyConn
  <2> QED
    BY <1>2, <1>3, <1>5, <1>7, <2>2, <2>3 DEF Drains, Stands
<1>8. \/ /\ reply.id = thread[t].request.id
         /\ Returns(t, "answered", reply.id, rest) /\ Dispatch(t, reply)
      \/ /\ reply.id # thread[t].request.id
         /\ conn' = [conn EXCEPT ![ConnOf(t)] = [rest EXCEPT !.stash = @ \cup {reply}]]
         /\ UNCHANGED <<thread, result, calls, delivered>>
  BY <1>2, <1>4 DEF Drain
<1> QED
  BY <1>1, <1>6, <1>7, <1>8

(* DrainGarbled ends the call without a reply.                              *)
LEMMA DrainGarbledEffect ==
  ASSUME CallsType, NEW t \in Thread, DrainGarbled(t)
  PROVE  LET k == conn[ConnOf(t)]
         IN  /\ Ended(t, "garbled", None)
             /\ Stands(conn'[ConnOf(t)], k.sock, k.up, k.requests, k.replies,
                       Tail(k.buffer), k.stash)
             /\ UNCHANGED <<calls, delivered>>
             /\ thread[t].phase = "receiving" /\ thread[t] \in Called
             /\ k.buffer # <<>> /\ Head(k.buffer).id \in UnsentIds(ConnOf(t))
<1> DEFINE k == conn[ConnOf(t)]
<1>1. /\ k \in Connection /\ thread[t].phase = "receiving" /\ thread[t] \in Called
      /\ k.buffer # <<>> /\ k.buffer \in Seq(Reply)
  BY Connections, ConnFields, ThreadCalled DEF DrainGarbled, Receiving
<1>2. PICK b \in Seq(Reply) : b = Tail(k.buffer)
  BY <1>1, HeadTailProperties
<1>3. PICK rest \in Connection : rest = [k EXCEPT !.buffer = Tail(@)]
  BY <1>1, <1>2 DEF Connection
<1>4. rest.holder = k.holder /\ Stands(rest, k.sock, k.up, k.requests, k.replies, b, k.stash)
  BY <1>1, <1>2, <1>3 DEF Connection, Stands
<1>5. /\ Returns(t, "garbled", None, rest) /\ delivered' = delivered
      /\ Head(k.buffer).id \in UnsentIds(ConnOf(t))
  BY <1>3 DEF DrainGarbled
<1>6. /\ Ended(t, "garbled", None) /\ calls' = calls
      /\ Stands(conn'[ConnOf(t)], rest.sock, rest.up, rest.requests, rest.replies,
                rest.buffer, rest.stash)
  BY <1>1, <1>4, <1>5, ReturnsEffect DEF Ended, Stands, Failure
<1> QED
  BY <1>1, <1>2, <1>4, <1>5, <1>6 DEF Stands

(* Reading from the socket.                                                 *)
Receives(t) ==
  LET k == conn[ConnOf(t)]
      m == conn'[ConnOf(t)]
  IN  \/ \E n \in 1..Len(k.replies) :
           /\ OnlyConn(ConnOf(t)) /\ m.holder = k.holder
           /\ Stands(m, k.sock, k.up, k.requests, Suffix(k.replies, n),
                     Prefix(k.replies, n), k.stash)
           /\ UNCHANGED <<thread, result>>
      \/ /\ k.replies = <<>> /\ ~k.up /\ Ended(t, "lost", None)
         /\ Stands(m, FALSE, k.up, k.requests, k.replies, k.buffer, k.stash)

(* Receive does one of these.                                               *)
LEMMA ReceiveEffect ==
  ASSUME CallsType, NEW t \in Thread, Receive(t)
  PROVE  /\ Receives(t) /\ calls' = calls
         /\ thread[t].phase = "receiving" /\ thread[t] \in Called
         /\ conn[ConnOf(t)].buffer = <<>> /\ conn[ConnOf(t)].sock
<1> DEFINE k == conn[ConnOf(t)]
<1>1. /\ k \in Connection /\ thread[t].phase = "receiving" /\ thread[t] \in Called
      /\ k.buffer = <<>> /\ k.sock /\ k.replies \in Seq(Reply) /\ Len(k.replies) \in Nat
  BY Connections, ConnFields, ThreadCalled, LenProperties DEF Receive, Receiving
<1>2. ASSUME NEW n \in 1..Len(k.replies),
             conn' = [conn EXCEPT ![ConnOf(t)].buffer = Prefix(k.replies, n),
                                  ![ConnOf(t)].replies = Suffix(k.replies, n)],
             UNCHANGED <<thread, result, calls>>
      PROVE  Receives(t) /\ calls' = calls
  <2>1. Prefix(k.replies, n) \in Seq(Reply) /\ Suffix(k.replies, n) \in Seq(Reply)
    <3>1. n \in 0..Len(k.replies)
      BY <1>1
    <3> HIDE DEF k
    <3> QED
      BY <1>1, <3>1, PrefixFacts, SuffixFacts
  <2>2. PICK m \in Connection :
          m = [k EXCEPT !.buffer = Prefix(k.replies, n), !.replies = Suffix(k.replies, n)]
    BY <1>1, <2>1 DEF Connection
  <2>3. /\ m.holder = k.holder
        /\ Stands(m, k.sock, k.up, k.requests, Suffix(k.replies, n), Prefix(k.replies, n), k.stash)
    BY <1>1, <2>2 DEF Connection, Stands
  <2>4. conn'[ConnOf(t)] = m /\ OnlyConn(ConnOf(t))
    BY <1>2, <2>2, Connections DEF CallsType, OnlyConn
  <2> QED
    BY <1>2, <2>3, <2>4 DEF Receives
<1>3. ASSUME k.replies = <<>>, ~k.up, Returns(t, "lost", None, [k EXCEPT !.sock = FALSE])
      PROVE  Receives(t) /\ calls' = calls
  <2>1. PICK m \in Connection : m = [k EXCEPT !.sock = FALSE]
    BY <1>1 DEF Connection
  <2>2. m.holder = k.holder /\ Stands(m, FALSE, k.up, k.requests, k.replies, k.buffer, k.stash)
    BY <1>1, <2>1 DEF Connection, Stands
  <2>3. Returns(t, "lost", None, m)
    BY <1>3, <2>1
  <2>4. /\ Ended(t, "lost", None) /\ calls' = calls
        /\ Stands(conn'[ConnOf(t)], m.sock, m.up, m.requests, m.replies, m.buffer, m.stash)
    BY <1>1, <2>2, <2>3, ReturnsEffect DEF Ended, Stands, Failure
  <2> QED
    BY <1>3, <2>2, <2>4 DEF Receives, Stands
<1> QED
  BY <1>1, <1>2, <1>3 DEF Receive

(* Giving up.                                                               *)
LEMMA GivesUpEffect ==
  ASSUME CallsType, NEW t \in Thread, Crash(t) \/ TimeOut(t)
  PROVE  LET k == conn[ConnOf(t)]
         IN  /\ \E how \in Failure : Ended(t, how, None)
             /\ Stands(conn'[ConnOf(t)], k.sock, k.up, k.requests, k.replies, k.buffer, k.stash)
             /\ calls' = calls
             /\ thread[t].phase = "receiving" /\ thread[t] \in Called /\ k.buffer = <<>>
<1> DEFINE k == conn[ConnOf(t)]
<1>1. /\ k \in Connection /\ thread[t].phase = "receiving" /\ thread[t] \in Called
      /\ k.buffer = <<>>
  BY Connections, ConnFields, ThreadCalled DEF Crash, TimeOut, Receiving
<1>2. PICK how \in Failure : Returns(t, how, None, k)
  BY DEF Crash, TimeOut, Failure
<1> HIDE DEF k
<1>3. /\ Ended(t, how, None) /\ calls' = calls
      /\ Stands(conn'[ConnOf(t)], k.sock, k.up, k.requests, k.replies, k.buffer, k.stash)
  <2>1. None \in Id \cup {None} /\ how \in {"answered"} \cup Failure
    OBVIOUS
  <2>2. /\ OnlyConn(ConnOf(t)) /\ OnlyThread(t) /\ OnlyResult(t) /\ calls' = calls
        /\ conn'[ConnOf(t)].sock = k.sock /\ conn'[ConnOf(t)].up = k.up
        /\ conn'[ConnOf(t)].requests = k.requests /\ conn'[ConnOf(t)].replies = k.replies
        /\ conn'[ConnOf(t)].buffer = k.buffer /\ conn'[ConnOf(t)].stash = k.stash
        /\ conn'[ConnOf(t)].holder = IF k.holder = t THEN None ELSE k.holder
        /\ thread'[t] = Idle
        /\ result'[t] \in Result /\ result'[t].id = thread[t].request.id
        /\ result'[t].how = how /\ result'[t].reply = None
    BY <1>1, <1>2, <2>1, ReturnsEffect
  <2>3. k.holder = conn[ConnOf(t)].holder
    BY DEF k
  <2> QED
    BY <1>1, <2>2, <2>3 DEF Ended, Stands
<1> QED
  BY <1>1, <1>3 DEF k

(* A connection ends: the client closes it, or the server does.             *)
Cuts(c) ==
  LET k == conn[c]
      m == conn'[c]
  IN  /\ OnlyConn(c) /\ m.holder = k.holder
      /\ \/ Stands(m, FALSE, FALSE, <<>>, <<>>, <<>>, k.stash)
         \/ \E n \in 0..Len(k.replies) :
              Stands(m, k.sock, FALSE, <<>>, Prefix(k.replies, n), k.buffer, k.stash)

(* Close and Hangup do one of these.                                        *)
LEMMA CutEffect ==
  ASSUME CallsType, NEW c \in Conn, Close(c) \/ Hangup(c)
  PROVE  Cuts(c)
<1> DEFINE k == conn[c]
<1>1. /\ k \in Connection /\ k.replies \in Seq(Reply) /\ Len(k.replies) \in Nat
      /\ <<>> \in Seq(Reply) /\ <<>> \in Seq(Request)
  BY ConnFields, LenProperties, EmptySeq
<1>2. CASE Close(c)
  <2>1. PICK m \in Connection :
          m = [k EXCEPT !.sock = FALSE, !.buffer = <<>>, !.up = FALSE,
                        !.requests = <<>>, !.replies = <<>>]
    BY <1>1 DEF Connection
  <2>2. m.holder = k.holder /\ Stands(m, FALSE, FALSE, <<>>, <<>>, <<>>, k.stash)
    BY <1>1, <2>1 DEF Connection, Stands
  <2>3. conn' = [conn EXCEPT ![c].sock = FALSE, ![c].buffer = <<>>, ![c].up = FALSE,
                             ![c].requests = <<>>, ![c].replies = <<>>]
    BY <1>2 DEF Close
  <2>4. conn'[c] = m /\ OnlyConn(c)
    BY <2>1, <2>3 DEF CallsType, OnlyConn
  <2> QED
    BY <2>2, <2>4 DEF Cuts
<1>3. CASE Hangup(c)
  <2>1. PICK n \in 0..Len(k.replies) :
          conn' = [conn EXCEPT ![c].up = FALSE, ![c].requests = <<>>, ![c].replies = Prefix(@, n)]
    BY <1>3 DEF Hangup
  <2>2. Prefix(k.replies, n) \in Seq(Reply)
    <3> HIDE DEF k
    <3> QED
      BY <1>1, PrefixFacts
  <2>3. PICK m \in Connection :
          m = [k EXCEPT !.up = FALSE, !.requests = <<>>, !.replies = Prefix(@, n)]
    BY <1>1, <2>2 DEF Connection
  <2>4. /\ m.holder = k.holder
        /\ Stands(m, k.sock, FALSE, <<>>, Prefix(k.replies, n), k.buffer, k.stash)
    BY <1>1, <2>3 DEF Connection, Stands
  <2>5. conn'[c] = m /\ OnlyConn(c)
    BY <2>1, <2>3 DEF CallsType, OnlyConn
  <2> QED
    BY <2>4, <2>5 DEF Cuts
<1> QED
  BY <1>2, <1>3

(* A reply goes out, or does not, and with the requests Q still to read.    *)
SendsOnly(c) == sending' \in [Conn -> Sender] /\ \A d \in Conn \ {c} : sending'[d] = sending[d]
SentWhole(c, Q, r) ==
  LET k == conn[c]
  IN  /\ Stands(conn'[c], k.sock, k.up, Q, Append(k.replies, r), k.buffer, k.stash)
      /\ sending'[c].stalled = 0 /\ sending'[c].unsent \subseteq sending[c].unsent \cup {r}
SentNot(c, Q, r) ==
  LET k == conn[c]
  IN  /\ Stands(conn'[c], k.sock, k.up, Q, k.replies, k.buffer, k.stash)
      /\ sending'[c].stalled \in 0..Len(Q)
      /\ sending'[c].unsent = sending[c].unsent \cup {r}
Sent(c, Q, r) ==
  /\ OnlyConn(c) /\ conn'[c].holder = conn[c].holder
  /\ SendsOnly(c) /\ sending[c].unsent \subseteq sending'[c].unsent
  /\ SentWhole(c, Q, r) \/ SentNot(c, Q, r)

(* The types of what the server has of a connection.                        *)
LEMMA SenderFields ==
  ASSUME SendType, NEW c \in Conn
  PROVE  /\ sending[c] \in Sender /\ sending[c].cut \in BOOLEAN
         /\ sending[c].stalled \in Nat /\ sending[c].unsent \in SUBSET Reply
BY DEF SendType, Sender

(* SendReply does one of these.                                             *)
LEMMA SendReplyEffect ==
  ASSUME CallsType, SendType, NEW c \in Conn, NEW Q \in Seq(Request), NEW r \in Reply,
         NEW k \in Connection, k = [conn[c] EXCEPT !.requests = Q], SendReply(c, k, r)
  PROVE  Sent(c, Q, r)
<1> DEFINE x == sending[c]
<1>1. /\ conn[c] \in Connection /\ conn[c].replies \in Seq(Reply)
      /\ k.holder = conn[c].holder /\ k.requests = Q /\ k.replies = conn[c].replies
      /\ Stands(k, conn[c].sock, conn[c].up, Q, conn[c].replies, conn[c].buffer, conn[c].stash)
  BY ConnFields DEF Connection, Stands
<1>2. x \in Sender /\ x.cut \in BOOLEAN /\ x.stalled \in Nat /\ x.unsent \in SUBSET Reply
  BY SenderFields
<1>3. ASSUME conn' = [conn EXCEPT ![c] = [k EXCEPT !.replies = Append(@, r)]],
             sending' = [sending EXCEPT ![c] =
               [cut |-> FALSE, stalled |-> 0,
                unsent |-> IF @.cut THEN @.unsent \cup {r} ELSE @.unsent]]
      PROVE  Sent(c, Q, r)
  <2>1. Append(conn[c].replies, r) \in Seq(Reply)
    BY <1>1, AppendProperties
  <2>2. PICK m \in Connection : m = [k EXCEPT !.replies = Append(@, r)]
    BY <1>1, <2>1 DEF Connection
  <2>3. /\ m.holder = k.holder
        /\ Stands(m, conn[c].sock, conn[c].up, Q, Append(conn[c].replies, r),
                  conn[c].buffer, conn[c].stash)
    BY <1>1, <2>2 DEF Connection, Stands
  <2>4. conn'[c] = m /\ OnlyConn(c)
    BY <1>3, <2>2 DEF CallsType, OnlyConn
  <2>5. PICK u \in SUBSET Reply : u = IF x.cut THEN x.unsent \cup {r} ELSE x.unsent
    BY <1>2
  <2>6. PICK y \in Sender : y = [cut |-> FALSE, stalled |-> 0, unsent |-> u]
    BY DEF Sender
  <2>7. y.stalled = 0 /\ y.unsent = u
    BY <2>6
  <2>8. sending'[c] = y /\ SendsOnly(c)
    BY <1>3, <2>5, <2>6 DEF SendType, SendsOnly
  <2> QED
    BY <1>1, <2>3, <2>4, <2>5, <2>7, <2>8 DEF Sent, SentWhole
<1>4. ASSUME conn' = [conn EXCEPT ![c] = k], NEW part \in BOOLEAN,
             NEW n \in 0..Len(k.requests),
             sending' = [sending EXCEPT ![c] =
               [cut |-> @.cut \/ part, stalled |-> n, unsent |-> @.unsent \cup {r}]]
      PROVE  Sent(c, Q, r)
  <2>1. conn'[c] = k /\ OnlyConn(c)
    BY <1>4 DEF CallsType, OnlyConn
  <2>2. n \in Nat /\ n \in 0..Len(Q)
    BY <1>1, LenProperties
  <2>3. PICK cut \in BOOLEAN : cut = (x.cut \/ part)
    BY <1>2
  <2>4. PICK y \in Sender : y = [cut |-> cut, stalled |-> n, unsent |-> x.unsent \cup {r}]
    BY <1>2, <2>2 DEF Sender
  <2>5. y.stalled = n /\ y.unsent = x.unsent \cup {r}
    BY <2>4
  <2>6. sending'[c] = y /\ SendsOnly(c)
    BY <1>4, <2>3, <2>4 DEF SendType, SendsOnly
  <2> QED
    BY <1>1, <2>1, <2>2, <2>5, <2>6 DEF Sent, SentNot
<1> QED
  BY <1>3, <1>4 DEF SendReply

(* A request is answered at once.                                           *)
LEMMA AnswerEffect ==
  ASSUME CallsType, SendType, NEW c \in Conn, Answer(c)
  PROVE  LET k == conn[c]
         IN  /\ c = "shared" /\ k.requests # <<>>
             /\ OnlyConn(c) /\ conn'[c].holder = k.holder
             /\ \E r \in Reply : r.id = Head(k.requests).id /\ Sent(c, Tail(k.requests), r)
<1> DEFINE k == conn[c]
<1>1. /\ k \in Connection /\ k.requests \in Seq(Request) /\ c = "shared"
      /\ Len(k.requests) > sending[c].stalled /\ sending[c].stalled \in Nat
  BY ConnFields, SenderFields DEF Answer, Readable
<1>2. k.requests # <<>>
  BY <1>1, EmptySeq
<1>3. Head(k.requests) \in Request /\ Tail(k.requests) \in Seq(Request)
  BY <1>1, <1>2, HeadTailProperties
<1>4. PICK r \in Reply : r = [id |-> Head(k.requests).id, events |-> <<>>]
  BY <1>3, ReplyId, EmptySeq DEF Reply
<1>5. r.id = Head(k.requests).id
  BY <1>4
<1>6. PICK Q \in Seq(Request) : Q = Tail(k.requests)
  BY <1>3
<1>7. PICK m \in Connection : m = [k EXCEPT !.requests = Q]
  BY <1>1 DEF Connection
<1>8. SendReply(c, m, r)
  BY <1>4, <1>6, <1>7 DEF Answer
<1>9. Sent(c, Q, r)
  BY <1>7, <1>8, SendReplyEffect
<1> QED
  BY <1>1, <1>2, <1>5, <1>6, <1>9 DEF Sent

(* A request for events is taken up.                                        *)
LEMMA StartPollEffect ==
  ASSUME CallsType, SendType, EventsType, StartPoll
  PROVE  LET k == conn["events"]
         IN  /\ OnlyConn("events") /\ conn'["events"].holder = k.holder
             /\ k.requests # <<>> /\ k.up /\ serving = NotServing
             /\ Stands(conn'["events"], k.sock, k.up, Tail(k.requests), k.replies,
                       k.buffer, k.stash)
             /\ Head(k.requests) \in Request
             /\ serving' \in Serving /\ serving'.id = Head(k.requests).id
             /\ serving'.left = Head(k.requests).topics /\ serving'.at = None
             /\ serving'.popped = <<>> /\ serving'.events = <<>> /\ serving'.kept = <<>>
             /\ subscribed' = subscribed \cup Head(k.requests).topics
             /\ SendsOnly("events") /\ sending'["events"].stalled = 0
             /\ sending'["events"].unsent = sending["events"].unsent
<1> DEFINE k == conn["events"]
<1>1. /\ "events" \in Conn /\ k \in Connection /\ k.requests \in Seq(Request)
      /\ k.requests # <<>> /\ k.up /\ serving = NotServing
  <2>1. /\ Len(k.requests) > sending["events"].stalled /\ sending["events"].stalled \in Nat
        /\ k.requests \in Seq(Request)
    BY ConnFields, SenderFields DEF StartPoll, Readable, Conn
  <2> QED
    BY <2>1, ConnFields, EmptySeq DEF StartPoll, Readable, Conn
<1>2. PICK q \in Request : q = Head(k.requests)
  BY <1>1, HeadTailProperties
<1>3. Tail(k.requests) \in Seq(Request)
  BY <1>1, HeadTailProperties
<1>4. PICK m \in Connection : m = [k EXCEPT !.requests = Tail(@)]
  BY <1>1, <1>3 DEF Connection
<1>5. /\ m.holder = k.holder
      /\ Stands(m, k.sock, k.up, Tail(k.requests), k.replies, k.buffer, k.stash)
  BY <1>1, <1>4 DEF Connection, Stands
<1>6. conn'["events"] = m /\ OnlyConn("events")
  BY <1>1, <1>4 DEF CallsType, OnlyConn, StartPoll
<1>7. PICK s \in Serving :
        s = [id |-> q.id, left |-> q.topics, at |-> None, popped |-> <<>>,
             events |-> <<>>, kept |-> <<>>]
  BY ReplyId, EmptySeq DEF Serving
<1>8. /\ s.id = q.id /\ s.left = q.topics /\ s.at = None /\ s.popped = <<>>
      /\ s.events = <<>> /\ s.kept = <<>>
  BY <1>7
<1>9. serving' = s /\ subscribed' = subscribed \cup q.topics
  BY <1>2, <1>7 DEF StartPoll
<1>10. PICK y \in Sender : y = [sending["events"] EXCEPT !.stalled = 0]
  BY <1>1, SenderFields DEF Sender
<1>11. y.stalled = 0 /\ y.unsent = sending["events"].unsent
  BY <1>1, <1>10, SenderFields DEF Sender
<1>12. sending'["events"] = y /\ SendsOnly("events")
  BY <1>1, <1>10 DEF StartPoll, SendType, SendsOnly
<1> QED
  BY <1>1, <1>2, <1>5, <1>6, <1>8, <1>9, <1>11, <1>12

(* FinishPoll sends the reply and serves nothing any more.                  *)
LEMMA FinishPollEffect ==
  ASSUME CallsType, SendType, EventsType, FinishPoll
  PROVE  LET k == conn["events"]
         IN  /\ OnlyConn("events") /\ conn'["events"].holder = k.holder
             /\ conn'["events"].up = k.up
             /\ serving \in Serving /\ serving.left = {} /\ serving' = NotServing
             /\ \E r \in Reply : /\ r.id = serving.id /\ r.events = serving.events
                                 /\ Sent("events", k.requests, r)
<1> DEFINE k == conn["events"]
<1>1. /\ "events" \in Conn /\ k \in Connection /\ k.requests \in Seq(Request)
      /\ serving \in Serving /\ serving.left = {} /\ serving' = NotServing
  BY ConnFields DEF FinishPoll, Conn, EventsType
<1>2. PICK r \in Reply : r = [id |-> serving.id, events |-> serving.events]
  BY <1>1 DEF Reply, Serving
<1>3. r.id = serving.id /\ r.events = serving.events
  BY <1>2
<1>4. k = [conn["events"] EXCEPT !.requests = k.requests]
  BY <1>1 DEF Connection
<1>5. SendReply("events", k, r)
  BY <1>2 DEF FinishPoll
<1>6. Sent("events", k.requests, r)
  <2> HIDE DEF k
  <2> QED
    BY <1>1, <1>4, <1>5, SendReplyEffect
<1> QED
  BY <1>1, <1>3, <1>6 DEF Sent, SentWhole, SentNot, Stands

-----------------------------------------------------------------------------
(* The types.                                                               *)

(* The locks stay with those that receive.                                  *)
LEMMA EndedHolders ==
  ASSUME CallsType, Holders, NEW t \in Thread, NEW how, NEW reply, Ended(t, how, reply)
  PROVE  Holders'
<1>1. t # None /\ ConnOf(t) \in Conn
  BY TransportAssumption, Connections DEF Thread
<1>2. \A u \in Thread : thread'[u].phase = "receiving" => u # t /\ thread[u].phase = "receiving"
  BY CalledFacts DEF Ended, OnlyThread
<1>3. ASSUME NEW u \in Thread, thread'[u].phase = "receiving"
      PROVE  conn'[ConnOf(u)].holder = u
  <2>1. conn[ConnOf(u)].holder = u /\ u # t /\ ConnOf(u) \in Conn
    BY <1>2, <1>3, Connections DEF Holders
  <2> QED
    BY <2>1 DEF Ended, OnlyConn
<1>4. ASSUME NEW c \in Conn, conn'[c].holder # None
      PROVE  ConnOf(conn'[c].holder) = c /\ thread'[conn'[c].holder].phase = "receiving"
  <2>1. conn'[c].holder = conn[c].holder /\ conn[c].holder # None
    BY <1>4 DEF Ended, OnlyConn
  <2>2. ConnOf(conn[c].holder) = c /\ thread[conn[c].holder].phase = "receiving"
    BY <2>1 DEF Holders
  <2>3. conn[c].holder # t
    BY <1>4, <2>1, <2>2 DEF Ended
  <2>4. conn[c].holder \in Thread
    BY <2>1, ConnFields
  <2> QED
    BY <2>1, <2>2, <2>3, <2>4 DEF Ended, OnlyThread
<1> QED
  BY <1>3, <1>4 DEF Holders

(* A step that leaves locks and phases alone.                               *)
LEMMA SameHolders ==
  ASSUME CallsType, Holders, NEW c \in Conn, OnlyConn(c), conn'[c].holder = conn[c].holder,
         thread' = thread
  PROVE  Holders'
<1>1. \A d \in Conn : conn'[d].holder = conn[d].holder
  BY DEF OnlyConn
<1> QED
  BY <1>1, Connections DEF Holders

(* A call whose phase changes, but not to or from receiving.                *)
LEMMA PhaseHolders ==
  ASSUME CallsType, Holders, NEW t \in Thread, OnlyThread(t),
         \A c \in Conn : conn'[c].holder = conn[c].holder,
         thread[t].phase # "receiving", thread'[t].phase # "receiving"
  PROVE  Holders'
<1>1. ASSUME NEW c \in Conn, conn[c].holder # None
      PROVE  ConnOf(conn[c].holder) = c /\ thread'[conn[c].holder].phase = "receiving"
  <2>1. conn[c].holder \in Thread
    BY <1>1, ConnFields
  <2> QED
    BY <1>1, <2>1 DEF Holders, OnlyThread
<1>2. ASSUME NEW u \in Thread, thread'[u].phase = "receiving" PROVE conn[ConnOf(u)].holder = u
  BY <1>2 DEF Holders, OnlyThread
<1> QED
  BY <1>1, <1>2, Connections DEF Holders

(* What a thread does with its call keeps the types of connections, calls   *)
(* and results, and the locks.                                              *)
LEMMA ThreadCalls ==
  ASSUME CallsType, Holders, NEW t \in Thread, ThreadStep(t)
  PROVE  CallsType' /\ Holders'
<1>1. setting' = setting
  BY DEF ThreadStep, Send, Acquire, Drain, DrainGarbled, Receive, Crash, TimeOut
<1>2. CASE Send(t)
  <2>1. Sends(t) /\ calls' = calls /\ thread[t].phase = "calling"
    BY <1>2, SendEffect
  <2>2. ASSUME NEW how, NEW reply, Ended(t, how, reply) PROVE CallsType' /\ Holders'
    BY <1>1, <2>1, <2>2, EndedHolders DEF CallsType, Ended, OnlyConn, OnlyThread, OnlyResult
  <2>3. ASSUME OnlyConn(ConnOf(t)), OnlyThread(t), thread'[t].phase = "waiting",
               conn'[ConnOf(t)].holder = conn[ConnOf(t)].holder, result' = result
        PROVE  CallsType' /\ Holders'
    <3>1. \A c \in Conn : conn'[c].holder = conn[c].holder
      BY <2>3 DEF OnlyConn
    <3> QED
      BY <1>1, <2>1, <2>3, <3>1, PhaseHolders DEF CallsType, OnlyConn, OnlyThread
  <2> QED
    BY <2>1, <2>2, <2>3 DEF Sends
<1>3. CASE Acquire(t)
  <2>1. /\ OnlyConn(ConnOf(t)) /\ OnlyThread(t) /\ UNCHANGED <<setting, result, calls>>
        /\ conn[ConnOf(t)].holder = None /\ conn'[ConnOf(t)].holder = t
        /\ thread[t].phase = "waiting" /\ thread'[t].phase = "receiving"
    BY <1>3, AcquireEffect DEF Acquire
  <2>2. CallsType'
    BY <2>1 DEF CallsType, OnlyConn, OnlyThread
  <2>3. ASSUME NEW u \in Thread, thread'[u].phase = "receiving"
        PROVE  conn'[ConnOf(u)].holder = u
    <3>1. CASE u = t
      BY <2>1, <3>1
    <3>2. CASE u # t
      <4>1. conn[ConnOf(u)].holder = u /\ u # None /\ ConnOf(u) \in Conn
        BY <2>1, <2>3, <3>2, Connections, TransportAssumption DEF Holders, OnlyThread, Thread
      <4>2. ConnOf(u) # ConnOf(t)
        BY <2>1, <4>1
      <4> QED
        BY <2>1, <4>1, <4>2 DEF OnlyConn
    <3> QED
      BY <3>1, <3>2
  <2>4. ASSUME NEW c \in Conn, conn'[c].holder # None
        PROVE  ConnOf(conn'[c].holder) = c /\ thread'[conn'[c].holder].phase = "receiving"
    <3>1. CASE c = ConnOf(t)
      BY <2>1, <3>1
    <3>2. CASE c # ConnOf(t)
      <4>1. conn'[c].holder = conn[c].holder /\ conn[c].holder \in Thread
        BY <2>1, <2>4, <3>2, ConnFields DEF OnlyConn
      <4>2. ConnOf(conn[c].holder) = c /\ thread[conn[c].holder].phase = "receiving"
        BY <2>4, <4>1 DEF Holders
      <4> QED
        BY <2>1, <3>2, <4>1, <4>2 DEF OnlyThread
    <3> QED
      BY <3>1, <3>2
  <2> QED
    BY <2>2, <2>3, <2>4 DEF Holders
<1>4. CASE Drain(t)
  <2>1. Drains(t) /\ calls' = calls
    BY <1>4, DrainEffect
  <2>2. ASSUME NEW how, NEW reply, Ended(t, how, reply) PROVE CallsType' /\ Holders'
    BY <1>1, <2>1, <2>2, EndedHolders DEF CallsType, Ended, OnlyConn, OnlyThread, OnlyResult
  <2>3. ASSUME OnlyConn(ConnOf(t)), conn'[ConnOf(t)].holder = conn[ConnOf(t)].holder,
               UNCHANGED <<thread, result>>
        PROVE  CallsType' /\ Holders'
    BY <1>1, <2>1, <2>3, Connections, SameHolders DEF CallsType, OnlyConn
  <2> QED
    BY <2>1, <2>2, <2>3 DEF Drains
<1>5. CASE Receive(t)
  <2>1. Receives(t) /\ calls' = calls
    BY <1>5, ReceiveEffect
  <2>2. ASSUME NEW how, NEW reply, Ended(t, how, reply) PROVE CallsType' /\ Holders'
    BY <1>1, <2>1, <2>2, EndedHolders DEF CallsType, Ended, OnlyConn, OnlyThread, OnlyResult
  <2>3. ASSUME OnlyConn(ConnOf(t)), conn'[ConnOf(t)].holder = conn[ConnOf(t)].holder,
               UNCHANGED <<thread, result>>
        PROVE  CallsType' /\ Holders'
    BY <1>1, <2>1, <2>3, Connections, SameHolders DEF CallsType, OnlyConn
  <2> QED
    BY <2>1, <2>2, <2>3 DEF Receives
<1>6. CASE Crash(t) \/ TimeOut(t) \/ DrainGarbled(t)
  <2>1. calls' = calls /\ \E how \in Failure : Ended(t, how, None)
    BY <1>6, GivesUpEffect, DrainGarbledEffect DEF Failure
  <2> QED
    BY <1>1, <2>1, EndedHolders DEF CallsType, Ended, OnlyConn, OnlyThread, OnlyResult
<1> QED
  BY <1>2, <1>3, <1>4, <1>5, <1>6 DEF ThreadStep

-----------------------------------------------------------------------------
(* Sequences of events.                                                     *)

(* A set of naturals has a least element.                                   *)
LEMMA LeastNat ==
  ASSUME NEW T, T \subseteq Nat, T # {}
  PROVE  \E m \in T : \A n \in T : m <= n
<1> DEFINE R == {p \in Nat \X Nat : p[1] < p[2]}
<1>1. IsWellFoundedOn(R, Nat)
  BY NatLessThanWellFounded DEF OpToRel
<1>2. \A m, n \in Nat : n < m => <<n, m>> \in R
  OBVIOUS
<1> HIDE DEF R
<1>3. PICK m \in T : \A n \in T : ~ (<<n, m>> \in R)
  BY <1>1, WFMin
<1>4. \A n \in T : ~(n < m)
  BY <1>2, <1>3
<1>5. \A n \in T : m <= n
  BY <1>4
<1> QED
  BY <1>5

(* Induction, for a set of naturals.                                        *)
LEMMA NatSetInduction ==
  ASSUME NEW S, 0 \in S, \A n \in Nat : n \in S => n + 1 \in S
  PROVE  Nat \subseteq S
<1> SUFFICES ASSUME ~(Nat \subseteq S) PROVE FALSE
  OBVIOUS
<1>1. PICK m \in Nat \ S : \A n \in Nat \ S : m <= n
  BY LeastNat
<1>2. m # 0 /\ m - 1 \in Nat
  BY <1>1
<1>3. m - 1 \in S
  BY <1>1, <1>2
<1> QED
  BY <1>1, <1>2, <1>3

(* The items of a sequence are in an order, that some pairs are in, and so  *)
(* are those of one set and those of another.                               *)
Sorted(R, s) == \A i, k \in DOMAIN s : i < k => <<s[i], s[k]>> \in R
Before(R, A, B) == \A x \in A, y \in B : <<x, y>> \in R

(* Items of sequences that are put together or taken apart.                 *)
LEMMA ItemsOfEmpty == ItemsOf(<<>>) = {} /\ \A R : Sorted(R, <<>>)
BY DEF ItemsOf, Sorted

(* The items of a sequence with one more.                                   *)
LEMMA ItemsOfAppend ==
  ASSUME NEW S, NEW s \in Seq(S), NEW e \in S
  PROVE  ItemsOf(Append(s, e)) = ItemsOf(s) \cup {e}
<1>1. /\ Append(s, e) \in Seq(S) /\ Len(Append(s, e)) = Len(s) + 1 /\ Len(s) \in Nat
      /\ \A i \in 1..Len(s) : Append(s, e)[i] = s[i]
      /\ Append(s, e)[Len(s) + 1] = e
  BY AppendProperties, LenProperties
<1>2. DOMAIN Append(s, e) = 1..Len(s) + 1 /\ DOMAIN s = 1..Len(s)
  BY <1>1, LenProperties
<1>3. ASSUME NEW i \in 1..Len(s) + 1 PROVE Append(s, e)[i] \in ItemsOf(s) \cup {e}
  BY <1>1, <1>2 DEF ItemsOf
<1>4. ASSUME NEW i \in 1..Len(s) PROVE \E j \in 1..Len(s) + 1 : s[i] = Append(s, e)[j]
  BY <1>1
<1>5. \E j \in 1..Len(s) + 1 : e = Append(s, e)[j]
  BY <1>1
<1> QED
  BY <1>2, <1>3, <1>4, <1>5 DEF ItemsOf

(* The items of two sequences in a row.                                     *)
LEMMA ItemsOfConcat ==
  ASSUME NEW S, NEW s \in Seq(S), NEW t \in Seq(S)
  PROVE  ItemsOf(s \o t) = ItemsOf(s) \cup ItemsOf(t)
<1>1. /\ s \o t \in Seq(S) /\ Len(s \o t) = Len(s) + Len(t)
      /\ Len(s) \in Nat /\ Len(t) \in Nat
      /\ \A i \in 1..Len(s) + Len(t) :
           (s \o t)[i] = IF i <= Len(s) THEN s[i] ELSE t[i - Len(s)]
  BY ConcatProperties, LenProperties
<1>2. DOMAIN (s \o t) = 1..Len(s) + Len(t) /\ DOMAIN s = 1..Len(s) /\ DOMAIN t = 1..Len(t)
  BY <1>1, LenProperties
<1>3. ASSUME NEW i \in 1..Len(s) + Len(t) PROVE (s \o t)[i] \in ItemsOf(s) \cup ItemsOf(t)
  <2>1. CASE i <= Len(s)
    BY <1>1, <1>2, <2>1 DEF ItemsOf
  <2>2. CASE ~(i <= Len(s))
    <3>1. (s \o t)[i] = t[i - Len(s)] /\ i - Len(s) \in 1..Len(t)
      BY <1>1, <2>2
    <3> QED
      BY <1>2, <3>1 DEF ItemsOf
  <2> QED
    BY <2>1, <2>2
<1>4. ASSUME NEW i \in 1..Len(s) PROVE \E j \in 1..Len(s) + Len(t) : s[i] = (s \o t)[j]
  <2>1. i \in 1..Len(s) + Len(t) /\ s[i] = (s \o t)[i]
    BY <1>1
  <2> QED
    BY <2>1
<1>5. ASSUME NEW i \in 1..Len(t) PROVE \E j \in 1..Len(s) + Len(t) : t[i] = (s \o t)[j]
  <2>1. i + Len(s) \in 1..Len(s) + Len(t) /\ t[i] = (s \o t)[i + Len(s)]
    BY <1>1
  <2> QED
    BY <2>1
<1>6. ItemsOf(s \o t) \subseteq ItemsOf(s) \cup ItemsOf(t)
  BY <1>2, <1>3 DEF ItemsOf
<1>7. ItemsOf(s) \subseteq ItemsOf(s \o t)
  <2> SUFFICES ASSUME NEW i \in 1..Len(s) PROVE s[i] \in ItemsOf(s \o t)
    BY <1>2 DEF ItemsOf
  <2> QED
    BY <1>2, <1>4 DEF ItemsOf
<1>8. ItemsOf(t) \subseteq ItemsOf(s \o t)
  <2> SUFFICES ASSUME NEW i \in 1..Len(t) PROVE t[i] \in ItemsOf(s \o t)
    BY <1>2 DEF ItemsOf
  <2> QED
    BY <1>2, <1>5 DEF ItemsOf
<1> QED
  BY <1>6, <1>7, <1>8

(* Sequences in the right order.                                            *)
LEMMA SortedAppend ==
  ASSUME NEW R, NEW S, NEW s \in Seq(S), NEW e \in S, Sorted(R, s), Before(R, ItemsOf(s), {e})
  PROVE  Sorted(R, Append(s, e))
<1>1. /\ Append(s, e) \in Seq(S) /\ Len(Append(s, e)) = Len(s) + 1 /\ Len(s) \in Nat
      /\ \A i \in 1..Len(s) : Append(s, e)[i] = s[i]
      /\ Append(s, e)[Len(s) + 1] = e
  BY AppendProperties, LenProperties
<1>2. DOMAIN Append(s, e) = 1..Len(s) + 1 /\ DOMAIN s = 1..Len(s)
  BY <1>1, LenProperties
<1>3. ASSUME NEW i \in 1..Len(s) + 1, NEW k \in 1..Len(s) + 1, i < k
      PROVE  <<Append(s, e)[i], Append(s, e)[k]>> \in R
  <2>1. i \in 1..Len(s) /\ Append(s, e)[i] = s[i] /\ s[i] \in ItemsOf(s)
    BY <1>1, <1>2, <1>3 DEF ItemsOf
  <2>2. CASE k = Len(s) + 1
    BY <1>1, <1>3, <2>1, <2>2 DEF Before
  <2>3. CASE k \in 1..Len(s)
    BY <1>1, <1>2, <1>3, <2>1, <2>3 DEF Sorted
  <2> QED
    BY <1>1, <2>2, <2>3
<1> QED
  BY <1>2, <1>3 DEF Sorted

(* Two sequences in order, of which the first is before the second, are one *)
(* in order.                                                                *)
LEMMA SortedConcat ==
  ASSUME NEW R, NEW S, NEW s \in Seq(S), NEW t \in Seq(S), Sorted(R, s), Sorted(R, t),
         Before(R, ItemsOf(s), ItemsOf(t))
  PROVE  Sorted(R, s \o t)
<1>1. /\ s \o t \in Seq(S) /\ Len(s \o t) = Len(s) + Len(t)
      /\ Len(s) \in Nat /\ Len(t) \in Nat
      /\ \A i \in 1..Len(s) + Len(t) :
           (s \o t)[i] = IF i <= Len(s) THEN s[i] ELSE t[i - Len(s)]
  BY ConcatProperties, LenProperties
<1>2. DOMAIN (s \o t) = 1..Len(s) + Len(t) /\ DOMAIN s = 1..Len(s) /\ DOMAIN t = 1..Len(t)
  BY <1>1, LenProperties
<1>3. ASSUME NEW i \in 1..Len(s) + Len(t), NEW k \in 1..Len(s) + Len(t), i < k
      PROVE  <<(s \o t)[i], (s \o t)[k]>> \in R
  <2>1. CASE k <= Len(s)
    BY <1>1, <1>2, <1>3, <2>1 DEF Sorted
  <2>2. CASE i <= Len(s) /\ ~(k <= Len(s))
    <3>1. (s \o t)[k] = t[k - Len(s)] /\ k - Len(s) \in 1..Len(t) /\ (s \o t)[i] = s[i]
      BY <1>1, <2>2
    <3>2. i \in DOMAIN s /\ k - Len(s) \in DOMAIN t
      BY <1>1, <1>2, <2>2, <3>1
    <3>3. s[i] \in ItemsOf(s) /\ t[k - Len(s)] \in ItemsOf(t)
      BY <3>2 DEF ItemsOf
    <3> QED
      BY <1>3, <3>1, <3>3 DEF Before
  <2>3. CASE ~(i <= Len(s))
    <3>1. /\ (s \o t)[k] = t[k - Len(s)] /\ k - Len(s) \in 1..Len(t)
          /\ (s \o t)[i] = t[i - Len(s)] /\ i - Len(s) \in 1..Len(t)
          /\ i - Len(s) < k - Len(s)
      BY <1>1, <1>3, <2>3
    <3> QED
      BY <1>2, <1>3, <3>1 DEF Sorted
  <2> QED
    BY <1>1, <2>1, <2>2, <2>3
<1> QED
  BY <1>2, <1>3 DEF Sorted

(* A part of a sequence, and the rest.                                      *)
LEMMA SplitItems ==
  ASSUME NEW S, NEW s \in Seq(S), NEW n \in 0..Len(s)
  PROVE  /\ ItemsOf(Prefix(s, n)) = {s[i] : i \in 1..n}
         /\ ItemsOf(Suffix(s, n)) = {s[i] : i \in n + 1..Len(s)}
         /\ ItemsOf(s) = {s[i] : i \in 1..Len(s)}
<1>1. /\ Prefix(s, n) \in Seq(S) /\ Len(Prefix(s, n)) = n /\ Len(s) \in Nat
      /\ \A i \in 1..n : Prefix(s, n)[i] = s[i]
      /\ Suffix(s, n) \in Seq(S) /\ Len(Suffix(s, n)) = Len(s) - n
      /\ \A i \in 1..Len(s) - n : Suffix(s, n)[i] = s[n + i]
  BY PrefixFacts, SuffixFacts, LenProperties
<1>2. /\ DOMAIN Prefix(s, n) = 1..n /\ DOMAIN Suffix(s, n) = 1..Len(s) - n
      /\ DOMAIN s = 1..Len(s)
  BY <1>1, LenProperties
<1>3. ASSUME NEW i \in 1..Len(s) - n PROVE \E j \in n + 1..Len(s) : Suffix(s, n)[i] = s[j]
  <2>1. n + i \in n + 1..Len(s) /\ Suffix(s, n)[i] = s[n + i]
    BY <1>1
  <2> QED
    BY <2>1
<1>4. ASSUME NEW j \in n + 1..Len(s) PROVE \E i \in 1..Len(s) - n : s[j] = Suffix(s, n)[i]
  <2>1. j - n \in 1..Len(s) - n /\ s[j] = Suffix(s, n)[j - n]
    BY <1>1
  <2> QED
    BY <2>1
<1>5. ItemsOf(Suffix(s, n)) = {s[i] : i \in n + 1..Len(s)}
  <2>1. ItemsOf(Suffix(s, n)) = {Suffix(s, n)[i] : i \in 1..Len(s) - n}
    BY <1>2 DEF ItemsOf
  <2>2. {Suffix(s, n)[i] : i \in 1..Len(s) - n} \subseteq {s[j] : j \in n + 1..Len(s)}
    BY <1>3
  <2>3. {s[j] : j \in n + 1..Len(s)} \subseteq {Suffix(s, n)[i] : i \in 1..Len(s) - n}
    BY <1>4
  <2> QED
    BY <2>1, <2>2, <2>3
<1>6. ItemsOf(Prefix(s, n)) = {s[i] : i \in 1..n}
  BY <1>1, <1>2 DEF ItemsOf
<1> QED
  BY <1>2, <1>5, <1>6 DEF ItemsOf

(* A sequence in order falls into two in order, the first before the        *)
(* second.                                                                  *)
LEMMA SplitSorted ==
  ASSUME NEW R, NEW S, NEW s \in Seq(S), NEW n \in 0..Len(s), Sorted(R, s)
  PROVE  /\ Sorted(R, Prefix(s, n)) /\ Sorted(R, Suffix(s, n))
         /\ Before(R, ItemsOf(Prefix(s, n)), ItemsOf(Suffix(s, n)))
<1>1. /\ Prefix(s, n) \in Seq(S) /\ Len(Prefix(s, n)) = n /\ Len(s) \in Nat
      /\ \A i \in 1..n : Prefix(s, n)[i] = s[i]
      /\ Suffix(s, n) \in Seq(S) /\ Len(Suffix(s, n)) = Len(s) - n
      /\ \A i \in 1..Len(s) - n : Suffix(s, n)[i] = s[n + i]
  BY PrefixFacts, SuffixFacts, LenProperties
<1>2. /\ DOMAIN Prefix(s, n) = 1..n /\ DOMAIN Suffix(s, n) = 1..Len(s) - n
      /\ DOMAIN s = 1..Len(s)
  BY <1>1, LenProperties
<1>3. Sorted(R, Prefix(s, n))
  BY <1>1, <1>2 DEF Sorted
<1>4. ASSUME NEW i \in 1..Len(s) - n, NEW k \in 1..Len(s) - n, i < k
      PROVE  <<Suffix(s, n)[i], Suffix(s, n)[k]>> \in R
  <2>1. /\ n + i \in 1..Len(s) /\ n + k \in 1..Len(s) /\ n + i < n + k
        /\ Suffix(s, n)[i] = s[n + i] /\ Suffix(s, n)[k] = s[n + k]
    BY <1>1, <1>4
  <2> QED
    BY <1>2, <1>4, <2>1 DEF Sorted
<1>5. Before(R, ItemsOf(Prefix(s, n)), ItemsOf(Suffix(s, n)))
  <2>1. ASSUME NEW i \in 1..n, NEW j \in n + 1..Len(s)
        PROVE  <<s[i], s[j]>> \in R
    <3>1. i \in 1..Len(s) /\ j \in 1..Len(s) /\ i < j
      BY <1>1
    <3> QED
      BY <1>2, <2>1, <3>1 DEF Sorted
  <2>2. /\ ItemsOf(Prefix(s, n)) = {s[i] : i \in 1..n}
        /\ ItemsOf(Suffix(s, n)) = {s[i] : i \in n + 1..Len(s)}
    BY SplitItems
  <2> QED
    BY <2>1, <2>2 DEF Before
<1> QED
  BY <1>2, <1>3, <1>4, <1>5 DEF Sorted

(* Among takes the events one by one.                                       *)
StepFor(E, s, f, n) ==
  IF n = 0 THEN <<>>
  ELSE IF s[n] \in E THEN Append(f[n - 1], s[n]) ELSE f[n - 1]

Picked(E, s) == CHOOSE f : f = [n \in 0..Len(s) |-> StepFor(E, s, f, n)]

(* Among is the last value of that function.                                *)
LEMMA AmongIsPicked == \A E, s : Among(E, s) = Picked(E, s)[Len(s)]
BY DEF Among, Picked, StepFor

(* The recursive function exists and satisfies its equation, by induction   *)
(* over the length.                                                         *)
LEMMA PickedEquation ==
  ASSUME NEW E, NEW s, Len(s) \in Nat
  PROVE  Picked(E, s) = [n \in 0..Len(s) |-> StepFor(E, s, Picked(E, s), n)]
<1> DEFINE Is(f, k) == f = [n \in 0..k |-> StepFor(E, s, f, n)]
           S == {k \in Nat : \E f : Is(f, k)}
<1>1. 0 \in S
  <2>1. PICK f : f = [n \in 0..0 |-> <<>>]
    OBVIOUS
  <2>2. Is(f, 0)
    BY <2>1 DEF StepFor
  <2> QED
    BY <2>2
<1>2. ASSUME NEW k \in Nat, k \in S PROVE k + 1 \in S
  <2>1. PICK f : Is(f, k)
    BY <1>2
  <2> DEFINE g == [n \in 0..k + 1 |-> IF n = k + 1 THEN StepFor(E, s, f, n) ELSE f[n]]
  <2>2. \A n \in 0..k : g[n] = f[n] /\ f[n] = StepFor(E, s, f, n)
    BY <2>1
  <2>3. \A n \in 0..k + 1 : StepFor(E, s, g, n) = StepFor(E, s, f, n)
    <3> SUFFICES ASSUME NEW n \in 0..k + 1, n # 0 PROVE g[n - 1] = f[n - 1]
      BY DEF StepFor
    <3>1. n - 1 \in 0..k
      OBVIOUS
    <3> QED
      BY <2>2, <3>1
  <2>4. g[k + 1] = StepFor(E, s, f, k + 1) /\ DOMAIN g = 0..k + 1
    OBVIOUS
  <2>5. \A n \in 0..k + 1 : g[n] = StepFor(E, s, g, n)
    <3> SUFFICES ASSUME NEW n \in 0..k + 1 PROVE g[n] = StepFor(E, s, f, n)
      BY <2>3
    <3>1. n = k + 1 \/ n \in 0..k
      OBVIOUS
    <3> QED
      BY <2>2, <2>4, <3>1
  <2>6. Is(g, k + 1)
    BY <2>4, <2>5
  <2> HIDE DEF g
  <2> QED
    BY <2>6
<1> HIDE DEF S
<1>3. Nat \subseteq S
  BY <1>1, <1>2, NatSetInduction
<1>4. \E f : f = [n \in 0..Len(s) |-> StepFor(E, s, f, n)]
  BY <1>3 DEF S
<1> QED
  BY <1>4 DEF Picked

(* The events of a set, in the order in which they come.                    *)
LEMMA AmongFacts ==
  ASSUME NEW E, NEW s \in Seq(Event)
  PROVE  /\ Among(E, s) \in Seq(Event)
         /\ ItemsOf(Among(E, s)) = {e \in ItemsOf(s) : e \in E}
         /\ \A R : Sorted(R, s) => Sorted(R, Among(E, s))
<1> DEFINE f == Picked(E, s)
           Up(n) == {e \in {s[i] : i \in 1..n} : e \in E}
           Good(n) == /\ f[n] \in Seq(Event) /\ ItemsOf(f[n]) = Up(n)
                      /\ \A R : Sorted(R, s) => Sorted(R, f[n])
           S == {n \in Nat : n <= Len(s) => Good(n)}
<1>1. Len(s) \in Nat /\ DOMAIN s = 1..Len(s) /\ \A i \in 1..Len(s) : s[i] \in Event
  BY LenProperties, ElementOfSeq
<1>2. \A n \in 0..Len(s) : f[n] = StepFor(E, s, f, n)
  <2>1. f = [n \in 0..Len(s) |-> StepFor(E, s, f, n)]
    BY <1>1, PickedEquation
  <2> HIDE DEF f
  <2> QED
    BY <2>1
<1> HIDE DEF f
<1>3. 0 \in S
  <2>1. f[0] = <<>>
    BY <1>1, <1>2 DEF StepFor
  <2>2. <<>> \in Seq(Event) /\ Up(0) = {}
    BY EmptySeq
  <2> QED
    BY <2>1, <2>2, ItemsOfEmpty
<1>4. ASSUME NEW n \in Nat, n \in S PROVE n + 1 \in S
  <2> SUFFICES ASSUME n + 1 <= Len(s) PROVE Good(n + 1)
    OBVIOUS
  <2>1. /\ n \in 0..Len(s) /\ n + 1 \in 0..Len(s) /\ n + 1 \in 1..Len(s)
        /\ n + 1 # 0 /\ (n + 1) - 1 = n
    BY <1>1
  <2>2. Good(n)
    BY <1>4, <2>1
  <2>3. s[n + 1] \in Event
    BY <1>1, <2>1
  <2>4. Up(n + 1) = IF s[n + 1] \in E THEN Up(n) \cup {s[n + 1]} ELSE Up(n)
    <3>1. 1..n + 1 = 1..n \cup {n + 1}
      OBVIOUS
    <3>2. {s[i] : i \in 1..n + 1} = {s[i] : i \in 1..n} \cup {s[n + 1]}
      BY <3>1
    <3> QED
      BY <3>2
  <2>5. f[n + 1] = IF s[n + 1] \in E THEN Append(f[n], s[n + 1]) ELSE f[n]
    <3>1. f[n + 1] = StepFor(E, s, f, n + 1)
      BY <1>2, <2>1
    <3> QED
      BY <2>1, <3>1 DEF StepFor
  <2>6. CASE s[n + 1] \in E
    <3>1. f[n + 1] = Append(f[n], s[n + 1]) /\ Up(n + 1) = Up(n) \cup {s[n + 1]}
      BY <2>4, <2>5, <2>6
    <3>2. Append(f[n], s[n + 1]) \in Seq(Event)
      BY <2>2, <2>3, AppendProperties
    <3>3. ItemsOf(Append(f[n], s[n + 1])) = ItemsOf(f[n]) \cup {s[n + 1]}
      BY <2>2, <2>3, ItemsOfAppend
    <3>4. ASSUME NEW R, Sorted(R, s) PROVE Sorted(R, Append(f[n], s[n + 1]))
      <4>1. Before(R, Up(n), {s[n + 1]})
        <5> SUFFICES ASSUME NEW i \in 1..n
                     PROVE  <<s[i], s[n + 1]>> \in R
          BY DEF Before
        <5>1. i \in 1..Len(s) /\ i < n + 1
          BY <1>1, <2>1
        <5> QED
          BY <1>1, <2>1, <3>4, <5>1 DEF Sorted
      <4>2. Sorted(R, f[n]) /\ Before(R, ItemsOf(f[n]), {s[n + 1]})
        BY <2>2, <3>4, <4>1
      <4> HIDE DEF Up
      <4> QED
        BY <2>2, <2>3, <4>2, SortedAppend
    <3> HIDE DEF Up
    <3> QED
      BY <2>2, <3>1, <3>2, <3>3, <3>4
  <2>7. CASE ~(s[n + 1] \in E)
    <3>1. f[n + 1] = f[n] /\ Up(n + 1) = Up(n)
      BY <2>4, <2>5, <2>7
    <3> HIDE DEF Up
    <3> QED
      BY <2>2, <3>1
  <2> QED
    BY <2>6, <2>7
<1>5. Good(Len(s))
  <2> HIDE DEF S
  <2>1. Nat \subseteq S
    BY <1>3, <1>4, NatSetInduction
  <2> HIDE DEF Good
  <2> QED
    BY <1>1, <2>1 DEF S
<1>6. Among(E, s) = f[Len(s)]
  BY AmongIsPicked DEF f
<1>7. Up(Len(s)) = {e \in ItemsOf(s) : e \in E}
  BY <1>1 DEF ItemsOf
<1> HIDE DEF Up
<1> QED
  BY <1>5, <1>6, <1>7

(* Those that a pattern matches.                                            *)
LEMMA EventsForFacts ==
  ASSUME NEW p, NEW s \in Seq(Event)
  PROVE  /\ EventsFor(p, s) \in Seq(Event)
         /\ ItemsOf(EventsFor(p, s)) = {e \in ItemsOf(s) : e.topic \in Matches(p)}
         /\ \A R : Sorted(R, s) => Sorted(R, EventsFor(p, s))
<1> DEFINE E == {e \in Event : e.topic \in Matches(p)}
<1>1. EventsFor(p, s) = Among(E, s)
  BY DEF EventsFor
<1>2. /\ Among(E, s) \in Seq(Event) /\ ItemsOf(Among(E, s)) = {e \in ItemsOf(s) : e \in E}
      /\ \A R : Sorted(R, s) => Sorted(R, Among(E, s))
  BY AmongFacts
<1>3. ItemsOf(s) \subseteq Event
  BY ItemsType
<1>4. {e \in ItemsOf(s) : e \in E} = {e \in ItemsOf(s) : e.topic \in Matches(p)}
  BY <1>3
<1> QED
  BY <1>1, <1>2, <1>4

-----------------------------------------------------------------------------
(* What the steps do to the events.                                         *)

(* A queue keeps the last events, as many as there is room for.             *)
LEMMA TrimFacts ==
  ASSUME NEW s \in Seq(Event)
  PROVE  \E n \in 0..Len(s) :
           /\ Trim(s) = Suffix(s, n) /\ Trim(s) \in Seq(Event)
           /\ Len(Trim(s)) = Len(s) - n /\ Len(Trim(s)) <= MaxQueue
           /\ n > 0 => Len(Trim(s)) = MaxQueue
<1>1. Len(s) \in Nat /\ MaxQueue \in Nat
  BY LenProperties, TransportAssumption
<1>2. PICK n : n = IF Len(s) <= MaxQueue THEN 0 ELSE Len(s) - MaxQueue
  OBVIOUS
<1>3. /\ n \in 0..Len(s) /\ Len(s) - n <= MaxQueue
      /\ n > 0 => Len(s) - n = MaxQueue
  BY <1>1, <1>2
<1>4. Trim(s) = Suffix(s, n)
  BY <1>1, <1>2, LatestFacts DEF Trim
<1>5. Suffix(s, n) \in Seq(Event) /\ Len(Suffix(s, n)) = Len(s) - n
  BY <1>3, SuffixFacts
<1> QED
  BY <1>3, <1>4, <1>5

(* No events are a sequence of events.                                      *)
LEMMA EmptyEvents == <<>> \in Seq(Event) /\ Len(<<>>) = 0
BY EmptySeq

(* Some publishers are about to append to another queue, or to none.        *)
Redirects(T, to) ==
  /\ publishing' \in [Publisher -> {Quiet} \cup Publishing]
  /\ \A b \in Publisher :
       /\ publishing'[b] = Quiet <=> publishing[b] = Quiet
       /\ publishing[b] # Quiet =>
            /\ publishing[b] \in Publishing /\ publishing'[b] \in Publishing
            /\ publishing'[b].event = publishing[b].event
            /\ publishing'[b].left = publishing[b].left
            /\ publishing'[b].at = publishing[b].at
            /\ publishing'[b].to = IF b \in T THEN to ELSE publishing[b].to

(* What Redirects says of a function that redirects the publishers of T.    *)
LEMMA RedirectsWhere ==
  ASSUME EventsType, NEW T, \A b \in T : publishing[b] # Quiet,
         NEW to \in {"queue", "popped", "nowhere"},
         publishing' = [b \in Publisher |-> IF b \in T THEN [publishing[b] EXCEPT !.to = to]
                                            ELSE publishing[b]]
  PROVE  Redirects(T, to)
<1>1. ASSUME NEW b \in Publisher, publishing[b] # Quiet
      PROVE  /\ publishing[b] \in Publishing /\ publishing'[b] \in Publishing
             /\ publishing'[b].event = publishing[b].event
             /\ publishing'[b].left = publishing[b].left
             /\ publishing'[b].at = publishing[b].at
             /\ publishing'[b].to = IF b \in T THEN to ELSE publishing[b].to
  <2>1. publishing[b] \in Publishing
    BY <1>1 DEF EventsType
  <2>2. CASE b \in T
    <3>1. publishing'[b] = [publishing[b] EXCEPT !.to = to]
      BY <2>2
    <3> QED
      BY <2>1, <2>2, <3>1 DEF Publishing
  <2>3. CASE b \notin T
    BY <2>1, <2>3
  <2> QED
    BY <2>2, <2>3
<1>2. ASSUME NEW b \in Publisher, publishing[b] = Quiet PROVE publishing'[b] = Quiet
  BY <1>2
<1>3. \A b \in Publisher : publishing'[b] \in {Quiet} \cup Publishing
  BY <1>1, <1>2
<1>4. publishing' \in [Publisher -> {Quiet} \cup Publishing]
  BY <1>3
<1> QED
  BY <1>1, <1>2, <1>4, Notquiet DEF Redirects

(* Redirected redirects who is about to append to a queue.                  *)
LEMMA RedirectedEffect ==
  ASSUME EventsType, NEW p, NEW from, NEW to \in {"queue", "popped", "nowhere"},
         publishing' = Redirected(p, from, to)
  PROVE  Redirects({b \in Publisher : publishing[b] # Quiet /\ publishing[b].at = p
                                      /\ publishing[b].to = from}, to)
<1> DEFINE T == {b \in Publisher : publishing[b] # Quiet /\ publishing[b].at = p
                                   /\ publishing[b].to = from}
<1>1. publishing' = [b \in Publisher |-> IF b \in T THEN [publishing[b] EXCEPT !.to = to]
                                         ELSE publishing[b]]
  BY DEF Redirected
<1>2. \A b \in T : publishing[b] # Quiet
  OBVIOUS
<1> HIDE DEF T
<1>3. Redirects(T, to)
  BY <1>1, <1>2, RedirectsWhere
<1> QED
  BY <1>3 DEF T

(* A queue is taken for the reply.                                          *)
LEMMA PopEffect ==
  ASSUME EventsType, NEW p \in Pattern, Pop(p)
  PROVE  /\ serving \in Serving /\ p \in serving.left /\ serving.at = None
         /\ serving' \in Serving /\ serving'.id = serving.id /\ serving'.left = serving.left
         /\ serving'.at = p /\ serving'.popped = queue[p]
         /\ serving'.events = serving.events /\ serving'.kept = serving.kept
         /\ queue' = [queue EXCEPT ![p] = <<>>]
         /\ Redirects({b \in Publisher : publishing[b] # Quiet /\ publishing[b].at = p
                                         /\ publishing[b].to = "queue"}, "popped")
<1>1. serving \in Serving /\ p \in serving.left /\ serving.at = None
  BY DEF Pop, EventsType
<1>2. queue[p] \in Seq(Event)
  BY DEF EventsType
<1>3. PICK s \in Serving : s = [serving EXCEPT !.at = p, !.popped = queue[p]]
  BY <1>1, <1>2 DEF Serving
<1>4. /\ s.id = serving.id /\ s.left = serving.left /\ s.at = p /\ s.popped = queue[p]
      /\ s.events = serving.events /\ s.kept = serving.kept
  BY <1>1, <1>3 DEF Serving
<1>5. /\ serving' = s /\ queue' = [queue EXCEPT ![p] = <<>>]
      /\ publishing' = Redirected(p, "queue", "popped")
  BY <1>3 DEF Pop
<1>6. Redirects({b \in Publisher : publishing[b] # Quiet /\ publishing[b].at = p
                                   /\ publishing[b].to = "queue"}, "popped")
  BY <1>5, RedirectedEffect
<1> QED
  BY <1>1, <1>4, <1>5, <1>6

(* Its first events go into the reply.                                      *)
LEMMA CollectEffect ==
  ASSUME EventsType, NEW p \in Pattern, Collect(p)
  PROVE  \E n \in 0..Len(serving.popped) :
           /\ serving \in Serving /\ serving.at = p /\ serving.popped \in Seq(Event)
           /\ serving' \in Serving /\ serving'.id = serving.id
           /\ serving'.left = serving.left \ {p} /\ serving'.at = None /\ serving'.popped = <<>>
           /\ serving'.events = serving.events \o Among(Serializable, Prefix(serving.popped, n))
           /\ \/ n = Len(serving.popped) /\ serving'.kept = serving.kept
              \/ \E k \in [pattern : Pattern, events : Seq(Event)] :
                   /\ k.pattern = p /\ k.events = Suffix(serving.popped, n)
                   /\ serving'.kept = Append(serving.kept, k)
           /\ Redirects({b \in Publisher : publishing[b] # Quiet /\ publishing[b].at = p
                                           /\ publishing[b].to = "popped"}, "nowhere")
<1>1. /\ serving \in Serving /\ serving.at = p /\ serving.popped \in Seq(Event)
      /\ serving.events \in Seq(Event)
      /\ serving.kept \in Seq([pattern : Pattern, events : Seq(Event)])
  BY DEF Collect, EventsType, Serving
<1>2. PICK n : n = AtMost(serving.popped, MaxPerPoll)
  OBVIOUS
<1>3. /\ Len(serving.popped) \in Nat /\ n \in 0..Len(serving.popped)
      /\ Len(serving.popped) <= n => n = Len(serving.popped)
  BY <1>1, <1>2, LenProperties, TransportAssumption DEF AtMost
<1>4. Prefix(serving.popped, n) \in Seq(Event) /\ Suffix(serving.popped, n) \in Seq(Event)
  BY <1>1, <1>3, PrefixFacts, SuffixFacts
<1>5. PICK k \in [pattern : Pattern, events : Seq(Event)] :
        k = [pattern |-> p, events |-> Suffix(serving.popped, n)]
  BY <1>4
<1>6. k.pattern = p /\ k.events = Suffix(serving.popped, n)
  BY <1>5
<1>7. PICK kept : kept = IF Len(serving.popped) <= n THEN serving.kept ELSE Append(serving.kept, k)
  OBVIOUS
<1>8. kept \in Seq([pattern : Pattern, events : Seq(Event)])
  BY <1>1, <1>7, AppendProperties
<1>9. PICK events \in Seq(Event) : 
         events = serving.events \o Among(Serializable, Prefix(serving.popped, n))
  BY <1>1, <1>4, AmongFacts, ConcatProperties
<1>10. PICK s \in Serving :
         s = [serving EXCEPT !.at = None, !.left = @ \ {p}, !.popped = <<>>,
                             !.events = events, !.kept = kept]
  BY <1>1, <1>8, EmptyEvents DEF Serving
<1>11. /\ s.id = serving.id /\ s.left = serving.left \ {p} /\ s.at = None /\ s.popped = <<>>
       /\ s.events = events /\ s.kept = kept
  BY <1>1, <1>10 DEF Serving
<1>12. serving' = s /\ publishing' = Redirected(p, "popped", "nowhere")
  BY <1>2, <1>5, <1>7, <1>9, <1>10 DEF Collect
<1>13. Redirects({b \in Publisher : publishing[b] # Quiet /\ publishing[b].at = p
                                    /\ publishing[b].to = "popped"}, "nowhere")
  BY <1>12, RedirectedEffect
<1> QED
  BY <1>1, <1>3, <1>6, <1>7, <1>9, <1>11, <1>12, <1>13

(* What was kept goes back.                                                 *)
LEMMA PutBackEffect ==
  ASSUME EventsType, FinishPoll
  PROVE  /\ queue' \in [Pattern -> Seq(Event)]
         /\ \A p \in Pattern :
              \/ queue'[p] = queue[p] /\ \A k \in ItemsOf(serving.kept) : k.pattern # p
              \/ \E k \in ItemsOf(serving.kept) : k.pattern = p /\ queue'[p] = k.events
         /\ Redirects({b \in Publisher : publishing[b] # Quiet /\ publishing[b].to = "queue"
                         /\ publishing[b].at \in {k.pattern : k \in ItemsOf(serving.kept)}},
                      "nowhere")
<1> DEFINE T == {b \in Publisher : publishing[b] # Quiet /\ publishing[b].to = "queue"
                         /\ publishing[b].at \in {k.pattern : k \in ItemsOf(serving.kept)}}
<1>1. serving \in Serving /\ serving.kept \in Seq([pattern : Pattern, events : Seq(Event)])
  BY DEF FinishPoll, EventsType, Serving
<1>2. ItemsOf(serving.kept) \subseteq [pattern : Pattern, events : Seq(Event)]
  BY <1>1, ItemsType
<1>3. queue' = [p \in Pattern |-> IF KeptFor(p) = {} THEN queue[p]
                                  ELSE (CHOOSE k \in KeptFor(p) : TRUE).events]
  BY DEF FinishPoll
<1>4. ASSUME NEW p \in Pattern
      PROVE  /\ \/ queue'[p] = queue[p] /\ \A k \in ItemsOf(serving.kept) : k.pattern # p
                \/ \E k \in ItemsOf(serving.kept) : k.pattern = p /\ queue'[p] = k.events
             /\ queue'[p] \in Seq(Event)
  <2>1. CASE KeptFor(p) = {}
    BY <1>3, <2>1 DEF KeptFor, EventsType
  <2>2. CASE KeptFor(p) # {}
    <3>1. PICK k : k = CHOOSE x \in KeptFor(p) : TRUE
      OBVIOUS
    <3>2. k \in KeptFor(p) /\ queue'[p] = k.events
      BY <1>3, <2>2, <3>1
    <3>3. k \in ItemsOf(serving.kept) /\ k.pattern = p
      BY <3>2 DEF KeptFor
    <3> QED
      BY <1>2, <3>2, <3>3
  <2> QED
    BY <2>1, <2>2
<1>5. queue' \in [Pattern -> Seq(Event)]
  BY <1>3, <1>4
<1>6. publishing' = [b \in Publisher |-> IF b \in T THEN [publishing[b] EXCEPT !.to = "nowhere"]
                                         ELSE publishing[b]]
  BY DEF FinishPoll
<1>7. \A b \in T : publishing[b] # Quiet
  OBVIOUS
<1> HIDE DEF T
<1>8. Redirects(T, "nowhere")
  BY <1>6, <1>7, RedirectsWhere
<1> QED
  BY <1>4, <1>5, <1>8 DEF T

(* Only one publisher goes on.                                              *)
OnlyPublisher(b) ==
  /\ publishing' \in [Publisher -> {Quiet} \cup Publishing]
  /\ \A x \in Publisher \ {b} : publishing'[x] = publishing[x]

(* The numbers of the events that were published.                           *)
LEMMA PublishedNumbers ==
  ASSUME EventsType
  PROVE  Published \subseteq 1..MaxEvents /\ Cardinality(Published) \in Nat
<1>1. ASSUME NEW p \in Pattern, NEW e \in ItemsOf(appended[p]) PROVE e.number \in 1..MaxEvents
  <2>1. appended[p] \in Seq(Event)
    BY DEF EventsType
  <2> QED
    BY <1>1, <2>1, ItemsType DEF Event
<1>2. ASSUME NEW b \in Publisher, publishing[b] # Quiet
      PROVE  publishing[b].event.number \in 1..MaxEvents
  BY <1>2 DEF EventsType, Publishing, Event
<1>3. Published \subseteq 1..MaxEvents
  BY <1>1, <1>2 DEF Published
<1>4. MaxEvents \in Int /\ 1 \in Int
  BY TransportAssumption
<1>5. IsFiniteSet(1..MaxEvents)
  BY <1>4, FS_Interval
<1>6. IsFiniteSet(Published)
  BY <1>3, <1>5, FS_Subset
<1> QED
  BY <1>3, <1>6, FS_CardinalityType

(* Publish gives a publisher an event with the next number, for the         *)
(* patterns that are subscribed to and match.                               *)
LEMMA PublishEffect ==
  ASSUME EventsType, NEW b \in Publisher, NEW topic \in Topic, Publish(b, topic)
  PROVE  LET new == publishing'[b]
         IN  /\ OnlyPublisher(b) /\ publishing[b] = Quiet /\ new \in Publishing
             /\ new.event \in Event /\ new.event.topic = topic /\ new.event.by = b
             /\ new.event.number = Cardinality(Published) + 1
             /\ new.left = {p \in subscribed : topic \in Matches(p)} /\ new.left # {}
             /\ new.at = None /\ new.to = "queue"
<1>1. publishing[b] = Quiet /\ Cardinality(Published) < MaxEvents
  BY DEF Publish
<1>2. Cardinality(Published) + 1 \in 1..MaxEvents
  BY <1>1, PublishedNumbers, TransportAssumption
<1>3. PICK e \in Event : e = [topic |-> topic, by |-> b, number |-> Cardinality(Published) + 1]
  BY <1>2 DEF Event
<1>4. e.topic = topic /\ e.by = b /\ e.number = Cardinality(Published) + 1
  BY <1>3
<1>5. PICK left : left = {p \in subscribed : topic \in Matches(p)}
  OBVIOUS
<1>6. left \in SUBSET Pattern /\ left # {}
  BY <1>5 DEF EventsType, Publish
<1>7. PICK new \in Publishing : new = [event |-> e, left |-> left, at |-> None, to |-> "queue"]
  BY <1>6 DEF Publishing
<1>8. new.event = e /\ new.left = left /\ new.at = None /\ new.to = "queue"
  BY <1>7
<1>9. publishing' = [publishing EXCEPT ![b] = new]
  BY <1>3, <1>5, <1>7 DEF Publish
<1>10. publishing'[b] = new /\ OnlyPublisher(b)
  BY <1>9 DEF EventsType, OnlyPublisher
<1> QED
  BY <1>1, <1>4, <1>5, <1>6, <1>8, <1>10

(* Take chooses a pattern of those that are left.                           *)
LEMMA TakeEffect ==
  ASSUME EventsType, NEW b \in Publisher, NEW p \in Pattern, Take(b, p)
  PROVE  LET old == publishing[b]
             new == publishing'[b]
         IN  /\ OnlyPublisher(b) /\ old \in Publishing /\ new \in Publishing
             /\ old.at = None /\ p \in old.left
             /\ new.event = old.event /\ new.left = old.left
             /\ new.at = p /\ new.to = "queue"
<1>1. publishing[b] \in Publishing /\ publishing[b].at = None /\ p \in publishing[b].left
  BY DEF Take, EventsType
<1>2. PICK new \in Publishing : new = [publishing[b] EXCEPT !.at = p, !.to = "queue"]
  BY <1>1 DEF Publishing
<1>3. /\ new.event = publishing[b].event /\ new.left = publishing[b].left
      /\ new.at = p /\ new.to = "queue"
  BY <1>1, <1>2 DEF Publishing
<1>4. publishing' = [publishing EXCEPT ![b] = new]
  BY <1>2 DEF Take
<1>5. publishing'[b] = new /\ OnlyPublisher(b)
  BY <1>4 DEF EventsType, OnlyPublisher
<1> QED
  BY <1>1, <1>3, <1>5

(* AppendTo appends the event to the queue or to what was popped, or to     *)
(* nothing, and records it.                                                 *)
LEMMA AppendToEffect ==
  ASSUME EventsType, NEW b \in Publisher, NEW p \in Pattern, AppendTo(b, p)
  PROVE  LET now == publishing[b]
         IN  /\ OnlyPublisher(b) /\ now \in Publishing /\ now.at = p /\ now.event \in Event
             /\ appended' = [appended EXCEPT ![p] = Append(@, now.event)]
             /\ IF now.to # "queue" \/ ~conn["events"].up THEN queue' = queue
                ELSE queue' = [queue EXCEPT ![p] = Trim(Append(@, now.event))]
             /\ IF now.to # "popped" \/ serving = NotServing THEN serving' = serving
                ELSE /\ serving \in Serving /\ serving' \in Serving
                     /\ serving'.id = serving.id /\ serving'.left = serving.left
                     /\ serving'.at = serving.at /\ serving'.events = serving.events
                     /\ serving'.kept = serving.kept
                     /\ serving'.popped = Trim(Append(serving.popped, now.event))
             /\ \/ now.left \ {p} = {} /\ publishing'[b] = Quiet
                \/ /\ now.left \ {p} # {} /\ publishing'[b] \in Publishing
                   /\ publishing'[b].event = now.event /\ publishing'[b].left = now.left \ {p}
                   /\ publishing'[b].at = None /\ publishing'[b].to = now.to
<1> DEFINE now == publishing[b]
<1>1. now \in Publishing /\ now.at = p /\ now.event \in Event
  BY DEF AppendTo, EventsType, Publishing
<1>2. ASSUME now.to = "popped", serving # NotServing
      PROVE  /\ serving \in Serving /\ serving' \in Serving
             /\ serving'.id = serving.id /\ serving'.left = serving.left
             /\ serving'.at = serving.at /\ serving'.events = serving.events
             /\ serving'.kept = serving.kept
             /\ serving'.popped = Trim(Append(serving.popped, now.event))
  <2>1. serving \in Serving /\ serving.popped \in Seq(Event)
    BY <1>2 DEF EventsType, Serving
  <2>2. Append(serving.popped, now.event) \in Seq(Event)
    BY <1>1, <2>1, AppendProperties
  <2>3. PICK q \in Seq(Event) : q = Trim(Append(serving.popped, now.event))
    BY <2>2, TrimFacts
  <2>4. PICK s \in Serving : s = [serving EXCEPT !.popped = q]
    BY <2>1 DEF Serving
  <2>5. /\ s.id = serving.id /\ s.left = serving.left /\ s.at = serving.at
        /\ s.events = serving.events /\ s.kept = serving.kept /\ s.popped = q
    BY <2>1, <2>4 DEF Serving
  <2>6. serving' = s
    BY <1>2, <2>3, <2>4 DEF AppendTo
  <2> QED
    BY <2>1, <2>3, <2>5, <2>6
<1>3. ASSUME now.to # "popped" \/ serving = NotServing PROVE serving' = serving
  BY <1>3 DEF AppendTo
<1>4. IF now.to # "queue" \/ ~conn["events"].up THEN queue' = queue
      ELSE queue' = [queue EXCEPT ![p] = Trim(Append(@, now.event))]
  BY DEF AppendTo
<1>5. CASE now.left \ {p} = {}
  <2>1. publishing' = [publishing EXCEPT ![b] = Quiet]
    BY <1>5 DEF AppendTo
  <2>2. publishing'[b] = Quiet /\ OnlyPublisher(b)
    BY <2>1 DEF EventsType, OnlyPublisher
  <2>3. appended' = [appended EXCEPT ![p] = Append(@, now.event)]
    BY DEF AppendTo
  <2> QED
    BY <1>1, <1>2, <1>3, <1>4, <1>5, <2>2, <2>3
<1>6. CASE now.left \ {p} # {}
  <2>1. PICK new \in Publishing : new = [now EXCEPT !.left = now.left \ {p}, !.at = None]
    BY <1>1 DEF Publishing
  <2>2. /\ new.event = now.event /\ new.left = now.left \ {p} /\ new.at = None
        /\ new.to = now.to
    BY <1>1, <2>1 DEF Publishing
  <2>3. publishing' = [publishing EXCEPT ![b] = new]
    BY <1>6, <2>1 DEF AppendTo
  <2>4. publishing'[b] = new /\ OnlyPublisher(b)
    BY <2>3 DEF EventsType, OnlyPublisher
  <2>5. appended' = [appended EXCEPT ![p] = Append(@, now.event)]
    BY DEF AppendTo
  <2> QED
    BY <1>1, <1>2, <1>3, <1>4, <1>6, <2>2, <2>4, <2>5
<1> QED
  BY <1>5, <1>6

(* A step of a thread leaves to the server what is the server's.            *)
LEMMA ThreadLeaves ==
  ASSUME CallsType, NEW t \in Thread, ThreadStep(t)
  PROVE  /\ UNCHANGED <<setting, subscriptions, serverVars, busVars>>
         /\ \A c \in Conn : conn'[c].up = conn[c].up
         /\ ~Drain(t) => delivered' = delivered
<1>1. /\ UNCHANGED <<setting, subscriptions, serverVars, busVars>>
      /\ ~Drain(t) => delivered' = delivered
  BY DEF ThreadStep, Send, Acquire, Drain, DrainGarbled, Receive, Crash, TimeOut
<1>2. OnlyConn(ConnOf(t)) /\ conn'[ConnOf(t)].up = conn[ConnOf(t)].up
  <2>1. CASE Send(t)
    BY <2>1, SendEffect DEF Sends, Ended, Stands
  <2>2. CASE Acquire(t)
    BY <2>2, AcquireEffect DEF Stands
  <2>3. CASE Drain(t)
    BY <2>3, DrainEffect DEF Drains, Ended, Stands
  <2>4. CASE Receive(t)
    BY <2>4, ReceiveEffect DEF Receives, Ended, Stands
  <2>5. CASE Crash(t) \/ TimeOut(t)
    BY <2>5, GivesUpEffect DEF Ended, Stands
  <2>6. CASE DrainGarbled(t)
    BY <2>6, DrainGarbledEffect DEF Ended, Stands
  <2> QED
    BY <2>1, <2>2, <2>3, <2>4, <2>5, <2>6 DEF ThreadStep
<1> QED
  BY <1>1, <1>2 DEF OnlyConn

(* What the callbacks get.                                                  *)
LEMMA DispatchEffect ==
  ASSUME EventsType, NEW t \in Thread, NEW r \in Reply, Dispatch(t, r)
  PROVE  /\ delivered' \in [Pattern -> Seq(Event)]
         /\ \A p \in Pattern :
              delivered'[p] = IF t = Poller /\ p \in subscriptions
                              THEN delivered[p] \o EventsFor(p, r.events) ELSE delivered[p]
<1>1. CASE t # Poller
  BY <1>1 DEF Dispatch, EventsType
<1>2. CASE t = Poller
  <2>1. delivered' = [p \in Pattern |->
                       IF p \in subscriptions THEN delivered[p] \o EventsFor(p, r.events)
                       ELSE delivered[p]]
    BY <1>2 DEF Dispatch
  <2>2. ASSUME NEW p \in Pattern PROVE delivered[p] \o EventsFor(p, r.events) \in Seq(Event)
    <3>1. delivered[p] \in Seq(Event) /\ r.events \in Seq(Event)
      BY ReplyId DEF EventsType
    <3>2. EventsFor(p, r.events) \in Seq(Event)
      BY <3>1, EventsForFacts
    <3> QED
      BY <3>1, <3>2, ConcatProperties
  <2>3. \A p \in Pattern : delivered'[p] \in Seq(Event)
    BY <2>1, <2>2 DEF EventsType
  <2> QED
    BY <1>2, <2>1, <2>3
<1> QED
  BY <1>1, <1>2

(* The types of events after a step of a thread.                            *)
LEMMA ThreadEvents ==
  ASSUME CallsType, EventsType, Bounded, NEW t \in Thread, ThreadStep(t)
  PROVE  EventsType' /\ Bounded'
<1>1. /\ UNCHANGED <<setting, subscriptions, serverVars, busVars>>
      /\ conn'["events"].up = conn["events"].up
      /\ ~Drain(t) => delivered' = delivered
  BY ThreadLeaves DEF Conn
<1>2. delivered' \in [Pattern -> Seq(Event)]
  <2>1. CASE Drain(t)
    <3>1. Drains(t) /\ conn[ConnOf(t)].buffer # <<>> /\ conn[ConnOf(t)].buffer \in Seq(Reply)
      BY <2>1, DrainEffect, ConnFields, Connections
    <3>2. Head(conn[ConnOf(t)].buffer) \in Reply
      BY <3>1, HeadTailProperties
    <3>3. Dispatch(t, Head(conn[ConnOf(t)].buffer)) \/ delivered' = delivered
      BY <3>1 DEF Drains
    <3> QED
      BY <3>2, <3>3, DispatchEffect DEF EventsType
  <2> QED
    BY <1>1, <2>1 DEF EventsType
<1> QED
  BY <1>1, <1>2 DEF EventsType, Bounded, serverVars, busVars

(* The steps of the server and of the publishers.                           *)
LEMMA CutEvents ==
  ASSUME CallsType, EventsType, Bounded, NEW c \in Conn, Close(c) \/ Hangup(c)
  PROVE  EventsType' /\ Bounded'
<1>1. Cuts(c)
  BY CutEffect
<1>2. /\ UNCHANGED <<setting, clientVars, busVars>>
      /\ subscribed' = IF c = "events" THEN {} ELSE subscribed
      /\ queue' = IF c = "events" THEN [p \in Pattern |-> <<>>] ELSE queue
      /\ serving' = IF c = "events" THEN NotServing ELSE serving
  BY DEF Close, Hangup
<1>3. c # "events" => conn'["events"].up = conn["events"].up
  BY <1>1 DEF Cuts, OnlyConn, Conn
<1>4. /\ queue' \in [Pattern -> Seq(Event)]
      /\ \A p \in Pattern : Len(queue'[p]) <= MaxQueue
  <2>1. CASE c = "events"
    <3>1. queue' = [p \in Pattern |-> <<>>]
      BY <1>2, <2>1
    <3> QED
      BY <3>1, EmptyEvents, TransportAssumption
  <2>2. CASE c # "events"
    BY <1>2, <2>2 DEF EventsType
  <2> QED
    BY <2>1, <2>2
<1> QED
  BY <1>2, <1>3, <1>4 DEF EventsType, Bounded, clientVars, busVars

(* The types of events after a step of a poll;  what is popped, kept and    *)
(* put back is not longer than a queue.                                     *)
LEMMA PollEvents ==
  ASSUME CallsType, SendType, EventsType, Bounded, PollServed
  PROVE  EventsType' /\ Bounded'
<1>1. CASE StartPoll
  <2>1. /\ UNCHANGED <<setting, clientVars, queue, busVars>>
        /\ OnlyConn("events") /\ conn'["events"].up = conn["events"].up /\ conn["events"].up
        /\ serving' \in Serving /\ serving'.popped = <<>> /\ serving'.kept = <<>>
        /\ subscribed' \subseteq Pattern
    BY <1>1, StartPollEffect, ReplyId DEF StartPoll, Stands, EventsType
  <2>2. Bounded'
    BY <2>1, EmptyEvents, ItemsOfEmpty, TransportAssumption DEF Bounded
  <2> QED
    BY <2>1, <2>2 DEF EventsType, clientVars, busVars
<1>2. CASE FinishPoll
  <2>1. /\ UNCHANGED <<setting, clientVars, subscribed, appended>>
        /\ conn'["events"].up = conn["events"].up /\ serving' = NotServing
        /\ serving \in Serving
    BY <1>2, FinishPollEffect DEF FinishPoll
  <2>2. /\ queue' \in [Pattern -> Seq(Event)]
        /\ publishing' \in [Publisher -> {Quiet} \cup Publishing]
    BY <1>2, PutBackEffect DEF Redirects
  <2>3. \A p \in Pattern : Len(queue'[p]) <= MaxQueue
    BY <1>2, <2>1, PutBackEffect, Notserving DEF EventsType, Bounded
  <2> QED
    BY <2>1, <2>2, <2>3 DEF EventsType, Bounded, clientVars
<1>3. ASSUME NEW p \in Pattern, Pop(p) PROVE EventsType' /\ Bounded'
  <2>1. /\ UNCHANGED <<setting, conn, clientVars, subscribed, appended>>
        /\ serving \in Serving /\ serving' \in Serving /\ serving'.popped = queue[p]
        /\ serving'.kept = serving.kept /\ queue' = [queue EXCEPT ![p] = <<>>]
        /\ publishing' \in [Publisher -> {Quiet} \cup Publishing]
    BY <1>3, PopEffect DEF Pop, Redirects
  <2>2. /\ queue' \in [Pattern -> Seq(Event)]
        /\ \A q \in Pattern : Len(queue'[q]) <= MaxQueue
    BY <2>1, EmptyEvents, TransportAssumption DEF EventsType
  <2>3. Bounded'
    BY <2>1, Notserving DEF Bounded, EventsType
  <2>4. conn["events"].up
    BY <2>1, Notserving DEF EventsType
  <2> QED
    BY <2>1, <2>2, <2>3, <2>4 DEF EventsType, clientVars
<1>4. ASSUME NEW p \in Pattern, Collect(p) PROVE EventsType' /\ Bounded'
  <2>1. /\ UNCHANGED <<setting, conn, clientVars, subscribed, queue, appended>>
        /\ publishing' \in [Publisher -> {Quiet} \cup Publishing]
    BY <1>4, CollectEffect DEF Collect, Redirects
  <2>2. PICK n \in 0..Len(serving.popped) :
          /\ serving \in Serving /\ serving.popped \in Seq(Event) /\ serving' \in Serving
          /\ serving'.popped = <<>>
          /\ \/ n = Len(serving.popped) /\ serving'.kept = serving.kept
             \/ \E k \in [pattern : Pattern, events : Seq(Event)] :
                  /\ k.pattern = p /\ k.events = Suffix(serving.popped, n)
                  /\ serving'.kept = Append(serving.kept, k)
    BY <1>4, CollectEffect, Zenon
  <2>3. Len(serving.popped) \in Nat /\ Len(Suffix(serving.popped, n)) = Len(serving.popped) - n
    BY <2>2, SuffixFacts, LenProperties
  <2>4. /\ serving.kept \in Seq([pattern : Pattern, events : Seq(Event)])
        /\ MaxQueue \in Nat /\ n \in Nat
    BY <2>2, <2>3, TransportAssumption DEF Serving
  <2>5. ASSUME NEW x \in ItemsOf(serving'.kept) PROVE Len(x.events) <= MaxQueue
    <3>1. \A y \in ItemsOf(serving.kept) : Len(y.events) <= MaxQueue
      BY <2>2, Notserving DEF Bounded
    <3>2. CASE serving'.kept = serving.kept
      BY <2>5, <3>1, <3>2
    <3>3. ASSUME NEW k \in [pattern : Pattern, events : Seq(Event)],
                 k.events = Suffix(serving.popped, n), serving'.kept = Append(serving.kept, k)
          PROVE  Len(x.events) <= MaxQueue
      <4>1. ItemsOf(Append(serving.kept, k)) = ItemsOf(serving.kept) \cup {k}
        <5> DEFINE Kept == [pattern : Pattern, events : Seq(Event)]
        <5>1. serving.kept \in Seq(Kept) /\ k \in Kept
          BY <2>4
        <5> HIDE DEF Kept
        <5> QED
          BY <5>1, ItemsOfAppend
      <4>2. Len(k.events) <= MaxQueue
        BY <2>2, <2>3, <2>4, <3>3, Notserving DEF Bounded
      <4> QED
        BY <2>5, <3>1, <3>3, <4>1, <4>2
    <3> QED
      BY <2>2, <3>2, <3>3
  <2>6. Bounded'
    BY <2>2, <2>5, EmptyEvents, TransportAssumption DEF Bounded
  <2>7. conn["events"].up
    BY <2>2, Notserving DEF EventsType
  <2> QED
    BY <2>1, <2>2, <2>6, <2>7 DEF EventsType, clientVars
<1> QED
  BY <1>1, <1>2, <1>3, <1>4 DEF PollServed

(* The types of events after a step of a publisher.                         *)
LEMMA PublisherEvents ==
  ASSUME CallsType, EventsType, Bounded, NEW b \in Publisher,
         PublisherStep(b) \/ \E topic \in Topic : Publish(b, topic)
  PROVE  EventsType' /\ Bounded'
<1>1. ASSUME NEW topic \in Topic, Publish(b, topic) PROVE EventsType' /\ Bounded'
  BY <1>1, PublishEffect DEF Publish, OnlyPublisher, EventsType, Bounded, clientVars, serverVars
<1>2. ASSUME NEW p \in Pattern, Take(b, p) PROVE EventsType' /\ Bounded'
  BY <1>2, TakeEffect DEF Take, OnlyPublisher, EventsType, Bounded, clientVars, serverVars
<1>3. ASSUME NEW p \in Pattern, AppendTo(b, p) PROVE EventsType' /\ Bounded'
  <2> DEFINE e == publishing[b].event
  <2>1. /\ UNCHANGED <<setting, conn, clientVars, subscribed>> /\ e \in Event
        /\ publishing' \in [Publisher -> {Quiet} \cup Publishing]
        /\ appended' = [appended EXCEPT ![p] = Append(@, e)]
        /\ queue' = queue \/ queue' = [queue EXCEPT ![p] = Trim(Append(@, e))]
    BY <1>3, AppendToEffect DEF AppendTo, OnlyPublisher
  <2>2. \/ serving' = serving
        \/ /\ serving \in Serving /\ serving' \in Serving /\ serving'.kept = serving.kept
           /\ serving'.popped = Trim(Append(serving.popped, e))
    BY <1>3, AppendToEffect
  <2> HIDE DEF e
  <2>3. Append(appended[p], e) \in Seq(Event) /\ Append(queue[p], e) \in Seq(Event)
    BY <2>1, AppendProperties DEF EventsType
  <2>4. Trim(Append(queue[p], e)) \in Seq(Event) /\ Len(Trim(Append(queue[p], e))) <= MaxQueue
    BY <2>3, TrimFacts
  <2>5. /\ queue' \in [Pattern -> Seq(Event)] /\ appended' \in [Pattern -> Seq(Event)]
        /\ \A q \in Pattern : Len(queue'[q]) <= MaxQueue
    BY <2>1, <2>3, <2>4 DEF EventsType
  <2>6. ASSUME serving \in Serving PROVE Len(Trim(Append(serving.popped, e))) <= MaxQueue
    <3>1. Append(serving.popped, e) \in Seq(Event)
      BY <2>1, <2>6, AppendProperties DEF Serving
    <3> QED
      BY <3>1, TrimFacts
  <2>7. serving' \in {NotServing} \cup Serving /\ Bounded'
    BY <2>2, <2>6, Notserving DEF Bounded, EventsType
  <2>8. conn["events"].up \/ (subscribed = {} /\ serving' = NotServing)
    BY <2>2, Notserving DEF EventsType
  <2> QED
    BY <2>1, <2>5, <2>7, <2>8 DEF EventsType, clientVars
<1> QED
  BY <1>1, <1>2, <1>3 DEF PublisherStep

(* What the server has of its connections changes when it sends a reply or  *)
(* takes up a poll, and what was not sent stays so.                         *)
LEMMA SendTypeStep ==
  ASSUME CallsType, SendType, EventsType, [Next]_vars
  PROVE  /\ SendType' /\ \A c \in Conn : sending[c].unsent \subseteq sending'[c].unsent
         /\ ~(\E c \in Conn : Answer(c)) /\ ~StartPoll /\ ~FinishPoll => sending' = sending
<1>1. CASE \E c \in Conn : Answer(c)
  <2>1. PICK c \in Conn : \E Q, r : Sent(c, Q, r)
    BY <1>1, AnswerEffect
  <2> QED
    BY <1>1, <2>1 DEF Sent, SendsOnly, SendType
<1>2. CASE StartPoll
  BY <1>2, StartPollEffect DEF SendsOnly, SendType
<1>3. CASE FinishPoll
  <2>1. PICK Q, r : Sent("events", Q, r)
    BY <1>3, FinishPollEffect
  <2> QED
    BY <1>3, <2>1 DEF Sent, SendsOnly, SendType
<1>4. ASSUME ~(\E c \in Conn : Answer(c)), ~StartPoll, ~FinishPoll
      PROVE  sending' = sending
  <2>1. ASSUME NEW t \in Thread, ThreadStep(t) PROVE sending' = sending
    BY <2>1, ThreadLeaves DEF serverVars
  <2>2. ASSUME NEW b \in Publisher, PublisherStep(b) \/ \E topic \in Topic : Publish(b, topic)
        PROVE  sending' = sending
    BY <2>2 DEF PublisherStep, Publish, Take, AppendTo, serverVars
  <2>3. ASSUME NEW p \in Pattern, Pop(p) \/ Collect(p) PROVE sending' = sending
    BY <2>3 DEF Pop, Collect
  <2> QED
    BY <1>4, <2>1, <2>2, <2>3
       DEF Next, PollServed, Call, Poll, Subscribe, Unsubscribe, Close, Hangup, vars, serverVars
<1> QED
  BY <1>1, <1>2, <1>3, <1>4 DEF SendType

(* Every step keeps the other types.                                        *)
OtherTypes == CallsType /\ Holders /\ EventsType /\ Bounded
LEMMA OtherTypesStep == OtherTypes /\ SendType /\ [Next]_vars => OtherTypes'
<1> SUFFICES ASSUME OtherTypes, SendType, [Next]_vars PROVE OtherTypes'
  OBVIOUS
<1> USE DEF OtherTypes
<1>1. CASE UNCHANGED vars
  BY <1>1 DEF vars, clientVars, serverVars, busVars, CallsType, Holders, EventsType, Bounded
<1>2. ASSUME NEW t \in Caller, Call(t) PROVE OtherTypes'
  <2>1. /\ t \in Thread /\ thread[t] = Idle /\ {} \in SUBSET Pattern /\ conn' = conn
        /\ calls' = calls + 1 /\ calls < MaxCalls /\ Ask(t, {})
        /\ UNCHANGED <<setting, subscriptions, delivered, serverVars, busVars>>
    BY <1>2 DEF Call, Thread
  <2>2. Asked(t, {})
    BY <2>1, AskEffect
  <2>3. calls' \in 0..MaxCalls
    BY <2>1, TransportAssumption DEF CallsType
  <2>4. Holders'
    BY <2>1, <2>2, CalledFacts, PhaseHolders DEF Asked
  <2> QED
    BY <2>1, <2>2, <2>3, <2>4
       DEF Asked, OnlyThread, OnlyResult, CallsType, EventsType, Bounded, serverVars, busVars
<1>3. CASE Poll
  <2>1. /\ Poller \in Thread /\ thread[Poller] = Idle /\ subscriptions \in SUBSET Pattern
        /\ conn' = conn /\ Ask(Poller, subscriptions)
        /\ UNCHANGED <<setting, calls, subscriptions, delivered, serverVars, busVars>>
    BY <1>3 DEF Poll, Thread, EventsType
  <2>2. Asked(Poller, subscriptions)
    BY <2>1, AskEffect
  <2>3. Holders'
    BY <2>1, <2>2, CalledFacts, PhaseHolders DEF Asked
  <2> QED
    BY <2>1, <2>2, <2>3
       DEF Asked, OnlyThread, OnlyResult, CallsType, EventsType, Bounded, serverVars, busVars
<1>4. ASSUME NEW t \in Thread, ThreadStep(t) PROVE OtherTypes'
  BY <1>4, ThreadCalls, ThreadEvents
<1>5. ASSUME NEW p \in Pattern, Subscribe(p) \/ Unsubscribe(p) PROVE OtherTypes'
  BY <1>5 DEF Subscribe, Unsubscribe, CallsType, Holders, EventsType, Bounded, serverVars, busVars
<1>6. ASSUME NEW c \in Conn, Close(c) \/ Hangup(c) PROVE OtherTypes'
  <2>1. Cuts(c) /\ UNCHANGED <<setting, thread, result, calls>>
    BY <1>6, CutEffect DEF Close, Hangup, clientVars
  <2>2. CallsType' /\ Holders'
    BY <2>1, SameHolders DEF Cuts, CallsType, OnlyConn
  <2> QED
    BY <1>6, <2>2, CutEvents
<1>7. ASSUME NEW c \in Conn, Answer(c) PROVE OtherTypes'
  <2>1. /\ OnlyConn(c) /\ conn'[c].holder = conn[c].holder /\ c = "shared"
        /\ UNCHANGED <<setting, clientVars, subscribed, queue, serving, busVars>>
    BY <1>7, AnswerEffect DEF Answer
  <2>2. CallsType' /\ Holders'
    BY <2>1, SameHolders DEF CallsType, OnlyConn, clientVars
  <2>3. conn'["events"] = conn["events"]
    BY <2>1 DEF OnlyConn, Conn
  <2> QED
    BY <2>1, <2>2, <2>3 DEF EventsType, Bounded, clientVars, busVars
<1>8. CASE PollServed
  <2>1. CASE StartPoll \/ FinishPoll
    <3>1. /\ "events" \in Conn /\ OnlyConn("events")
          /\ conn'["events"].holder = conn["events"].holder
          /\ UNCHANGED <<setting, clientVars>>
      BY <2>1, StartPollEffect, FinishPollEffect DEF StartPoll, FinishPoll, Conn
    <3>2. CallsType' /\ Holders'
      BY <3>1, SameHolders DEF CallsType, OnlyConn, clientVars
    <3> QED
      BY <1>8, <3>2, PollEvents
  <2>2. ASSUME NEW p \in Pattern, Pop(p) \/ Collect(p) PROVE OtherTypes'
    <3>1. UNCHANGED <<setting, conn, clientVars>>
      BY <2>2 DEF Pop, Collect
    <3>2. CallsType' /\ Holders'
      BY <3>1 DEF CallsType, Holders, clientVars
    <3> QED
      BY <1>8, <3>2, PollEvents
  <2> QED
    BY <1>8, <2>1, <2>2 DEF PollServed
<1>9. ASSUME NEW b \in Publisher, PublisherStep(b) \/ \E topic \in Topic : Publish(b, topic)
      PROVE  OtherTypes'
  <2>1. UNCHANGED <<setting, conn, clientVars>>
    BY <1>9 DEF PublisherStep, Publish, Take, AppendTo
  <2>2. CallsType' /\ Holders'
    BY <2>1 DEF CallsType, Holders, clientVars
  <2> QED
    BY <1>9, <2>2, PublisherEvents
<1> QED
  BY <1>1, <1>2, <1>3, <1>4, <1>5, <1>6, <1>7, <1>8, <1>9 DEF Next

(* Every step keeps the types.                                              *)
LEMMA TypeStep == TypeInv /\ [Next]_vars => TypeInv'
<1>1. TypeInv <=> OtherTypes /\ SendType
  BY DEF TypeInv, OtherTypes
<1>2. OtherTypes /\ SendType /\ [Next]_vars => SendType'
  BY SendTypeStep DEF OtherTypes
<1>3. TypeInv' <=> OtherTypes' /\ SendType'
  BY DEF TypeInv, OtherTypes
<1> QED
  BY <1>1, <1>2, <1>3, OtherTypesStep

(* The types are right at the start.                                        *)
LEMMA TypeInit == Init => TypeInv
<1> SUFFICES ASSUME Init PROVE TypeInv
  OBVIOUS
<1>1. setting \in Settings /\ 0 \in 0..MaxCalls /\ 0 <= MaxQueue
  BY TransportAssumption DEF Init
<1>2. PICK k \in Connection :
        k = [sock |-> TRUE, up |-> TRUE, requests |-> <<>>, replies |-> <<>>,
             buffer |-> <<>>, stash |-> {}, holder |-> None]
  BY EmptySeq DEF Connection
<1>3. k.holder = None /\ k.up
  BY <1>2
<1>4. conn = [c \in Conn |-> k]
  BY <1>2 DEF Init
<1>5. CallsType
  BY <1>1, <1>4 DEF Init, CallsType
<1>6. Holders
  BY <1>3, <1>4, CalledFacts DEF Init, Holders
<1>0. SendType
  <2>1. PICK y \in Sender : y = [cut |-> FALSE, stalled |-> 0, unsent |-> {}]
    BY DEF Sender
  <2>2. sending = [c \in Conn |-> y]
    BY <2>1 DEF Init
  <2> QED
    BY <2>2 DEF SendType
<1>7. EventsType
  <2>1. subscriptions \subseteq Pattern
    BY DEF Init
  <2>2. conn["events"].up
    BY <1>3, <1>4 DEF Conn
  <2> QED
    BY <1>1, <2>1, <2>2, EmptyEvents DEF Init, EventsType
<1>8. Bounded
  BY DEF Init, Bounded
<1> QED
  BY <1>0, <1>5, <1>6, <1>7, <1>8 DEF TypeInv

(* Connections, calls, results, events and queues have their types, one     *)
(* thread has a receive lock, the one that is receiving, no queue is longer *)
(* than its limit, and nothing is served over a connection that is gone.    *)
THEOREM TypeTheorem == Spec => []TypeOK
<1>1. TypeInv => TypeOK
  BY CalledFacts DEF TypeInv, TypeOK, CallsType, SendType, Sender, Holders, EventsType, Connection,
     Called, Result
<1>2. TypeInv /\ [Next]_vars => TypeInv'
  BY TypeStep
<1> HIDE DEF TypeInv
<1> QED
  BY <1>1, <1>2, TypeInit, PTL DEF Spec

-----------------------------------------------------------------------------
(* Every request is in one place.                                           *)

(* No id comes twice in a sequence.                                         *)
Distinct(s) == \A i, k \in DOMAIN s : s[i].id = s[k].id => i = k

(* The ids of sequences that are put together or taken apart.               *)
LEMMA IdsOfEmpty == IdsOf(<<>>) = {} /\ Distinct(<<>>)
BY DEF IdsOf, Distinct

(* The ids of a sequence with one more item.                                *)
LEMMA IdsOfAppend ==
  ASSUME NEW S, NEW s \in Seq(S), NEW e \in S
  PROVE  /\ IdsOf(Append(s, e)) = IdsOf(s) \cup {e.id}
         /\ Distinct(s) /\ e.id \notin IdsOf(s) => Distinct(Append(s, e))
<1>1. /\ Append(s, e) \in Seq(S) /\ Len(Append(s, e)) = Len(s) + 1 /\ Len(s) \in Nat
      /\ \A i \in 1..Len(s) : Append(s, e)[i] = s[i]
      /\ Append(s, e)[Len(s) + 1] = e
  BY AppendProperties, LenProperties
<1>2. DOMAIN Append(s, e) = 1..Len(s) + 1 /\ DOMAIN s = 1..Len(s)
  BY <1>1, LenProperties
<1>3. ASSUME NEW i \in 1..Len(s) + 1 PROVE Append(s, e)[i].id \in IdsOf(s) \cup {e.id}
  BY <1>1, <1>2 DEF IdsOf
<1>4. ASSUME NEW i \in 1..Len(s) PROVE \E j \in 1..Len(s) + 1 : s[i].id = Append(s, e)[j].id
  BY <1>1
<1>5. \E j \in 1..Len(s) + 1 : e.id = Append(s, e)[j].id
  BY <1>1
<1>6. IdsOf(Append(s, e)) = IdsOf(s) \cup {e.id}
  BY <1>2, <1>3, <1>4, <1>5 DEF IdsOf
<1>7. ASSUME Distinct(s), e.id \notin IdsOf(s),
             NEW i \in 1..Len(s) + 1, NEW k \in 1..Len(s) + 1,
             Append(s, e)[i].id = Append(s, e)[k].id
      PROVE  i = k
  <2>1. \A j \in 1..Len(s) : s[j].id # e.id
    BY <1>2, <1>7 DEF IdsOf
  <2> QED
    BY <1>1, <1>2, <1>7, <2>1 DEF Distinct
<1> QED
  BY <1>2, <1>6, <1>7 DEF Distinct

(* The ids of a sequence without its first item.                            *)
LEMMA IdsOfTail ==
  ASSUME NEW S, NEW s \in Seq(S), s # <<>>, Distinct(s)
  PROVE  /\ Head(s) \in S /\ Tail(s) \in Seq(S) /\ Distinct(Tail(s))
         /\ Head(s).id \in IdsOf(s) /\ IdsOf(Tail(s)) = IdsOf(s) \ {Head(s).id}
<1>1. /\ Head(s) \in S /\ Tail(s) \in Seq(S) /\ Len(Tail(s)) = Len(s) - 1
      /\ Len(s) \in Nat \ {0} /\ Head(s) = s[1]
      /\ \A i \in 1..Len(s) - 1 : Tail(s)[i] = s[i + 1]
  BY HeadTailProperties, EmptySeq
<1>2. DOMAIN s = 1..Len(s) /\ DOMAIN Tail(s) = 1..Len(s) - 1 /\ 1 \in 1..Len(s)
  BY <1>1, LenProperties
<1>3. Head(s).id \in IdsOf(s)
  BY <1>1, <1>2 DEF IdsOf
<1>4. ASSUME NEW i \in 1..Len(s) - 1 PROVE Tail(s)[i].id \in IdsOf(s) \ {Head(s).id}
  <2>1. i + 1 \in 1..Len(s) /\ i + 1 # 1 /\ Tail(s)[i] = s[i + 1]
    BY <1>1
  <2> QED
    BY <1>1, <1>2, <2>1 DEF IdsOf, Distinct
<1>5. ASSUME NEW i \in 1..Len(s), s[i].id # Head(s).id
      PROVE  \E j \in 1..Len(s) - 1 : s[i].id = Tail(s)[j].id
  <2>1. i - 1 \in 1..Len(s) - 1 /\ Tail(s)[i - 1] = s[(i - 1) + 1] /\ (i - 1) + 1 = i
    BY <1>1, <1>5
  <2> QED
    BY <2>1
<1>6. IdsOf(Tail(s)) = IdsOf(s) \ {Head(s).id}
  <2>1. IdsOf(Tail(s)) \subseteq IdsOf(s) \ {Head(s).id}
    BY <1>2, <1>4 DEF IdsOf
  <2>2. IdsOf(s) \ {Head(s).id} \subseteq IdsOf(Tail(s))
    BY <1>2, <1>5 DEF IdsOf
  <2> QED
    BY <2>1, <2>2
<1>7. ASSUME NEW i \in 1..Len(s) - 1, NEW k \in 1..Len(s) - 1, Tail(s)[i].id = Tail(s)[k].id
      PROVE  i = k
  <2>1. /\ i + 1 \in 1..Len(s) /\ Tail(s)[i] = s[i + 1]
        /\ k + 1 \in 1..Len(s) /\ Tail(s)[k] = s[k + 1]
    BY <1>1
  <2>2. i + 1 = k + 1
    BY <1>2, <1>7, <2>1 DEF Distinct
  <2> QED
    BY <2>2
<1> QED
  BY <1>1, <1>2, <1>3, <1>6, <1>7 DEF Distinct

(* The ids of the two parts of a sequence.                                  *)
LEMMA IdsOfSplit ==
  ASSUME NEW S, NEW s \in Seq(S), NEW n \in 0..Len(s), Distinct(s)
  PROVE  /\ Distinct(Prefix(s, n)) /\ Distinct(Suffix(s, n))
         /\ IdsOf(Prefix(s, n)) \cap IdsOf(Suffix(s, n)) = {}
         /\ IdsOf(Prefix(s, n)) \cup IdsOf(Suffix(s, n)) = IdsOf(s)
<1>1. /\ Prefix(s, n) \in Seq(S) /\ Len(Prefix(s, n)) = n /\ Len(s) \in Nat
      /\ \A i \in 1..n : Prefix(s, n)[i] = s[i]
      /\ Suffix(s, n) \in Seq(S) /\ Len(Suffix(s, n)) = Len(s) - n
      /\ \A i \in 1..Len(s) - n : Suffix(s, n)[i] = s[n + i]
  BY PrefixFacts, SuffixFacts, LenProperties
<1>2. /\ DOMAIN Prefix(s, n) = 1..n /\ DOMAIN Suffix(s, n) = 1..Len(s) - n
      /\ DOMAIN s = 1..Len(s)
  BY <1>1, LenProperties
<1>3. Distinct(Prefix(s, n))
  BY <1>1, <1>2 DEF Distinct
<1>4. ASSUME NEW i \in 1..Len(s) - n
      PROVE  n + i \in 1..Len(s) /\ n + i \notin 1..n /\ Suffix(s, n)[i] = s[n + i]
  BY <1>1
<1>5. Distinct(Suffix(s, n))
  <2> SUFFICES ASSUME NEW i \in 1..Len(s) - n, NEW k \in 1..Len(s) - n,
                      Suffix(s, n)[i].id = Suffix(s, n)[k].id
               PROVE  i = k
    BY <1>2 DEF Distinct
  <2>1. n + i = n + k
    BY <1>2, <1>4 DEF Distinct
  <2> QED
    BY <2>1
<1>6. ASSUME NEW i \in 1..n, NEW k \in 1..Len(s) - n
      PROVE  Prefix(s, n)[i].id # Suffix(s, n)[k].id
  <2>1. n + k \in 1..Len(s) /\ n + k # i /\ i \in 1..Len(s)
    BY <1>1
  <2> QED
    BY <1>1, <1>2, <2>1 DEF Distinct
<1>7. IdsOf(Prefix(s, n)) \cap IdsOf(Suffix(s, n)) = {}
  BY <1>2, <1>6 DEF IdsOf
<1>8. IdsOf(Prefix(s, n)) \subseteq IdsOf(s) /\ IdsOf(Suffix(s, n)) \subseteq IdsOf(s)
  <2>1. \A i \in 1..n : i \in 1..Len(s) /\ Prefix(s, n)[i] = s[i]
    BY <1>1
  <2> QED
    BY <1>2, <1>4, <2>1 DEF IdsOf
<1>9. ASSUME NEW i \in 1..Len(s)
      PROVE  s[i].id \in IdsOf(Prefix(s, n)) \cup IdsOf(Suffix(s, n))
  <2>1. CASE i \in 1..n
    BY <1>1, <1>2, <2>1 DEF IdsOf
  <2>2. CASE i \notin 1..n
    <3>1. i - n \in 1..Len(s) - n /\ n + (i - n) = i
      BY <1>1, <2>2
    <3>2. Suffix(s, n)[i - n] = s[i]
      BY <1>4, <3>1
    <3> QED
      BY <1>2, <3>1, <3>2 DEF IdsOf
  <2> QED
    BY <2>1, <2>2
<1>10. IdsOf(s) \subseteq IdsOf(Prefix(s, n)) \cup IdsOf(Suffix(s, n))
  BY <1>2, <1>9 DEF IdsOf
<1> QED
  BY <1>3, <1>5, <1>7, <1>8, <1>10

(* The requests and replies of a connection are in one place each: sent and *)
(* not read (Q), served (S), answered (R), read (B) or put aside (T).       *)
IdsAside(T) == {r.id : r \in T}
AllIds(Q, R, B, T, S) == IdsOf(Q) \cup IdsOf(R) \cup IdsOf(B) \cup IdsAside(T) \cup S
Single(Q, R, B, T, S) ==
  /\ Distinct(Q) /\ Distinct(R) /\ Distinct(B) /\ \A r, q \in T : r.id = q.id => r = q
  /\ IdsOf(Q) \cap IdsOf(R) = {} /\ IdsOf(Q) \cap IdsOf(B) = {}
  /\ IdsOf(R) \cap IdsOf(B) = {}
  /\ IdsAside(T) \cap (IdsOf(Q) \cup IdsOf(R) \cup IdsOf(B)) = {}
  /\ S \cap (IdsOf(Q) \cup IdsOf(R) \cup IdsOf(B) \cup IdsAside(T)) = {}

(* Ids stay single when a request with a new one is sent,                   *)
LEMMA SingleSent ==
  ASSUME NEW Q \in Seq(Request), NEW R, NEW B, NEW T, NEW S, Single(Q, R, B, T, S),
         NEW q \in Request, q.id \notin AllIds(Q, R, B, T, S)
  PROVE  /\ Single(Append(Q, q), R, B, T, S)
         /\ AllIds(Append(Q, q), R, B, T, S) = AllIds(Q, R, B, T, S) \cup {q.id}
<1>1. /\ IdsOf(Append(Q, q)) = IdsOf(Q) \cup {q.id}
      /\ Distinct(Q) /\ q.id \notin IdsOf(Q) => Distinct(Append(Q, q))
  BY IdsOfAppend
<1> QED
  BY <1>1 DEF Single, AllIds

(* when a request is answered,                                              *)
LEMMA SingleAnswered ==
  ASSUME NEW Q \in Seq(Request), NEW R \in Seq(Reply), NEW B, NEW T, NEW S,
         Single(Q, R, B, T, S), Q # <<>>, NEW r \in Reply, r.id = Head(Q).id
  PROVE  /\ Single(Tail(Q), Append(R, r), B, T, S)
         /\ AllIds(Tail(Q), Append(R, r), B, T, S) = AllIds(Q, R, B, T, S)
<1>1. /\ Distinct(Tail(Q)) /\ Head(Q).id \in IdsOf(Q)
      /\ IdsOf(Tail(Q)) = IdsOf(Q) \ {Head(Q).id}
  BY IdsOfTail DEF Single
<1>2. /\ IdsOf(Append(R, r)) = IdsOf(R) \cup {r.id}
      /\ Distinct(R) /\ r.id \notin IdsOf(R) => Distinct(Append(R, r))
  BY IdsOfAppend
<1> QED
  BY <1>1, <1>2 DEF Single, AllIds

(* when a poll is taken up,                                                 *)
LEMMA SingleTaken ==
  ASSUME NEW Q \in Seq(Request), NEW R, NEW B, NEW T, Single(Q, R, B, T, {}), Q # <<>>
  PROVE  /\ Single(Tail(Q), R, B, T, {Head(Q).id})
         /\ AllIds(Tail(Q), R, B, T, {Head(Q).id}) = AllIds(Q, R, B, T, {})
<1>1. /\ Distinct(Tail(Q)) /\ Head(Q).id \in IdsOf(Q)
      /\ IdsOf(Tail(Q)) = IdsOf(Q) \ {Head(Q).id}
  BY IdsOfTail DEF Single
<1> QED
  BY <1>1 DEF Single, AllIds

(* when its reply is written,                                               *)
LEMMA SingleServed ==
  ASSUME NEW Q, NEW R \in Seq(Reply), NEW B, NEW T, NEW r \in Reply,
         Single(Q, R, B, T, {r.id})
  PROVE  /\ Single(Q, Append(R, r), B, T, {})
         /\ AllIds(Q, Append(R, r), B, T, {}) = AllIds(Q, R, B, T, {r.id})
<1>1. /\ IdsOf(Append(R, r)) = IdsOf(R) \cup {r.id}
      /\ Distinct(R) /\ r.id \notin IdsOf(R) => Distinct(Append(R, r))
  BY IdsOfAppend
<1> QED
  BY <1>1 DEF Single, AllIds

(* when replies are received,                                               *)
LEMMA SingleReceived ==
  ASSUME NEW Q, NEW R \in Seq(Reply), NEW T, NEW S, Single(Q, R, <<>>, T, S),
         NEW n \in 0..Len(R)
  PROVE  /\ Single(Q, Suffix(R, n), Prefix(R, n), T, S)
         /\ AllIds(Q, Suffix(R, n), Prefix(R, n), T, S) = AllIds(Q, R, <<>>, T, S)
<1>1. /\ Distinct(Prefix(R, n)) /\ Distinct(Suffix(R, n))
      /\ IdsOf(Prefix(R, n)) \cap IdsOf(Suffix(R, n)) = {}
      /\ IdsOf(Prefix(R, n)) \cup IdsOf(Suffix(R, n)) = IdsOf(R)
  BY IdsOfSplit DEF Single
<1> QED
  BY <1>1, IdsOfEmpty DEF Single, AllIds

(* when one is read, and put aside or not,                                  *)
LEMMA SingleRead ==
  ASSUME NEW Q, NEW R, NEW B \in Seq(Reply), NEW T, NEW S, Single(Q, R, B, T, S), B # <<>>
  PROVE  /\ Single(Q, R, Tail(B), T, S) /\ Single(Q, R, Tail(B), T \cup {Head(B)}, S)
         /\ Head(B).id \in AllIds(Q, R, B, T, S) /\ Head(B).id \notin IdsAside(T)
         /\ AllIds(Q, R, Tail(B), T, S) = AllIds(Q, R, B, T, S) \ {Head(B).id}
         /\ AllIds(Q, R, Tail(B), T \cup {Head(B)}, S) = AllIds(Q, R, B, T, S)
<1>1. /\ Distinct(Tail(B)) /\ Head(B).id \in IdsOf(B)
      /\ IdsOf(Tail(B)) = IdsOf(B) \ {Head(B).id}
  BY IdsOfTail DEF Single
<1>2. IdsAside(T \cup {Head(B)}) = IdsAside(T) \cup {Head(B).id}
  BY DEF IdsAside
<1>3. \A r, q \in T \cup {Head(B)} : r.id = q.id => r = q
  BY <1>1 DEF Single, IdsAside
<1>4. Single(Q, R, Tail(B), T, S)
  BY <1>1 DEF Single
<1>5. Single(Q, R, Tail(B), T \cup {Head(B)}, S)
  <2>1. /\ Head(B).id \notin IdsOf(Q) \cup IdsOf(R) \cup S
        /\ Head(B).id \notin IdsOf(Tail(B))
    BY <1>1 DEF Single
  <2> DEFINE U == T \cup {Head(B)}
  <2> DEFINE V == IdsOf(Q) \cup IdsOf(R) \cup IdsOf(Tail(B))
  <2>2. IdsAside(T) \cap V = {} /\ Head(B).id \notin V
    BY <1>4, <2>1 DEF Single
  <2> HIDE DEF V
  <2>3. IdsAside(U) \cap V = {}
    BY <1>2, <2>2
  <2>4. IdsAside(U) \cap (IdsOf(Q) \cup IdsOf(R) \cup IdsOf(Tail(B))) = {}
    BY <2>3 DEF V
  <2>5. S \cap (IdsOf(Q) \cup IdsOf(R) \cup IdsOf(Tail(B)) \cup IdsAside(U)) = {}
    BY <1>2, <1>4, <2>1 DEF Single
  <2>6. \A r, q \in U : r.id = q.id => r = q
    BY <1>3
  <2> HIDE DEF U
  <2>7. Single(Q, R, Tail(B), U, S)
    BY <1>4, <2>4, <2>5, <2>6 DEF Single
  <2> QED
    BY <2>7 DEF U
<1>6. Head(B).id \in AllIds(Q, R, B, T, S) /\ Head(B).id \notin IdsAside(T)
  BY <1>1 DEF Single, AllIds
<1>7. AllIds(Q, R, Tail(B), T, S) = AllIds(Q, R, B, T, S) \ {Head(B).id}
  BY <1>1 DEF Single, AllIds
<1>8. AllIds(Q, R, Tail(B), T \cup {Head(B)}, S) = AllIds(Q, R, B, T, S)
  BY <1>1, <1>2 DEF AllIds
<1> QED
  BY <1>4, <1>5, <1>6, <1>7, <1>8

(* when a reply is not sent,                                                *)
LEMMA SingleUnsent ==
  ASSUME NEW Q \in Seq(Request), NEW R, NEW B, NEW T, NEW S, Single(Q, R, B, T, S)
  PROVE  /\ Single(Q, R, B, T, {})
         /\ AllIds(Q, R, B, T, {}) = AllIds(Q, R, B, T, S) \ S
         /\ Q # <<>> => /\ Single(Tail(Q), R, B, T, S)
                        /\ AllIds(Tail(Q), R, B, T, S) = AllIds(Q, R, B, T, S) \ {Head(Q).id}
<1>1. ASSUME Q # <<>>
      PROVE  /\ Distinct(Tail(Q)) /\ Head(Q).id \in IdsOf(Q)
             /\ IdsOf(Tail(Q)) = IdsOf(Q) \ {Head(Q).id}
  BY <1>1, IdsOfTail DEF Single
<1> QED
  BY <1>1 DEF Single, AllIds

(* and when a connection ends.                                              *)
LEMMA SingleCut ==
  ASSUME NEW Q, NEW R \in Seq(Reply), NEW B, NEW T, NEW S, Single(Q, R, B, T, S),
         NEW Z \in SUBSET S
  PROVE  /\ Single(Q, R, <<>>, T, S) /\ Single(<<>>, <<>>, <<>>, T, Z)
         /\ \A n \in 0..Len(R) : Single(<<>>, Prefix(R, n), B, T, Z)
<1>1. \A n \in 0..Len(R) :
        Distinct(Prefix(R, n)) /\ IdsOf(Prefix(R, n)) \subseteq IdsOf(R)
  BY IdsOfSplit DEF Single
<1> QED
  BY <1>1, IdsOfEmpty DEF Single

(* How often an id comes, when it comes at most once.                       *)
LEMMA CountIds ==
  ASSUME NEW S, NEW s \in Seq(S), Distinct(s), NEW i
  PROVE  Cardinality({<<j, s[j]>> : j \in {j \in DOMAIN s : s[j].id = i}})
           = IF i \in IdsOf(s) THEN 1 ELSE 0
<1> DEFINE A == {<<j, s[j]>> : j \in {j \in DOMAIN s : s[j].id = i}}
<1>1. CASE i \in IdsOf(s)
  <2>1. PICK j \in DOMAIN s : s[j].id = i
    BY <1>1 DEF IdsOf
  <2>2. {k \in DOMAIN s : s[k].id = i} = {j}
    BY <2>1 DEF Distinct
  <2>3. A = {<<j, s[j]>>}
    BY <2>2
  <2> HIDE DEF A
  <2>4. Cardinality(A) = 1
    BY <2>3, FS_Singleton
  <2> QED
    BY <1>1, <2>4 DEF A
<1>2. CASE i \notin IdsOf(s)
  <2>1. {k \in DOMAIN s : s[k].id = i} = {}
    BY <1>2 DEF IdsOf
  <2>2. A = {}
    BY <2>1
  <2> HIDE DEF A
  <2>3. Cardinality(A) = 0
    BY <2>2, FS_EmptySet
  <2> QED
    BY <1>2, <2>3 DEF A
<1> QED
  BY <1>1, <1>2

(* What a connection is serving.                                            *)
Served(c) == IF c = "events" /\ serving # NotServing THEN {serving.id} ELSE {}

IdsIn(c) == AllIds(conn[c].requests, conn[c].replies, conn[c].buffer, conn[c].stash, Served(c))
SingleIn(c) == Single(conn[c].requests, conn[c].replies, conn[c].buffer, conn[c].stash, Served(c))

(* So an id is in as many places as it should be, one or none.              *)
LEMMA CountPlaces ==
  ASSUME CallsType, NEW c \in Conn, SingleIn(c), NEW i
  PROVE  Places(c, i) = IF i \in IdsIn(c) THEN 1 ELSE 0
<1> DEFINE k == conn[c]
           Of(s) == {<<j, s[j]>> : j \in {j \in DOMAIN s : s[j].id = i}}
           Aside == {r \in k.stash : r.id = i}
<1>1. k.requests \in Seq(Request) /\ k.replies \in Seq(Reply) /\ k.buffer \in Seq(Reply)
  BY ConnFields
<1>2. /\ Distinct(k.requests) /\ Distinct(k.replies) /\ Distinct(k.buffer)
  BY DEF SingleIn, Single
<1>3. /\ Cardinality(Of(k.requests)) = IF i \in IdsOf(k.requests) THEN 1 ELSE 0
      /\ Cardinality(Of(k.replies)) = IF i \in IdsOf(k.replies) THEN 1 ELSE 0
      /\ Cardinality(Of(k.buffer)) = IF i \in IdsOf(k.buffer) THEN 1 ELSE 0
  <2>1. Cardinality(Of(k.requests)) = IF i \in IdsOf(k.requests) THEN 1 ELSE 0
    BY <1>1, <1>2, CountIds
  <2>2. Cardinality(Of(k.replies)) = IF i \in IdsOf(k.replies) THEN 1 ELSE 0
    BY <1>1, <1>2, CountIds
  <2>3. Cardinality(Of(k.buffer)) = IF i \in IdsOf(k.buffer) THEN 1 ELSE 0
    BY <1>1, <1>2, CountIds
  <2> QED
    BY <2>1, <2>2, <2>3
<1>4. Cardinality(Aside) = IF i \in IdsAside(k.stash) THEN 1 ELSE 0
  <2>1. CASE i \in IdsAside(k.stash)
    <3>1. PICK r \in k.stash : r.id = i
      BY <2>1 DEF IdsAside
    <3>2. Aside = {r}
      BY <3>1 DEF SingleIn, Single
    <3> HIDE DEF Aside
    <3> QED
      BY <2>1, <3>2, FS_Singleton
  <2>2. CASE i \notin IdsAside(k.stash)
    <3>1. Aside = {}
      BY <2>2 DEF IdsAside
    <3> HIDE DEF Aside
    <3> QED
      BY <2>2, <3>1, FS_EmptySet
  <2> QED
    BY <2>1, <2>2
<1>5. Places(c, i) = Cardinality(Of(k.requests)) + Cardinality(Of(k.replies))
                       + Cardinality(Of(k.buffer)) + Cardinality(Aside)
                       + IF i \in Served(c) THEN 1 ELSE 0
  BY DEF Places, Served
<1> HIDE DEF Of, Aside, k
<1> QED
  BY <1>3, <1>4, <1>5 DEF SingleIn, IdsIn, Single, AllIds, k

(* A thread is in a call, and its call has been sent.                       *)
Busy(t) == thread[t].phase # "idle"
Awaits(t) == thread[t].phase \in {"waiting", "receiving"}

(* Calls have ids of their own, that are not on their way before they are   *)
(* sent and are on their way or back as long as they are waited for, unless *)
(* the reply did not go out whole; only one thread calls at a time where    *)
(* threads do not share a connection; and connections live where none is    *)
(* lost.                                                                    *)
OwnIds == \A t, u \in Thread :
  Busy(t) /\ Busy(u) /\ thread[t].request.id = thread[u].request.id => t = u
NotSent == \A t \in Thread :
  thread[t].phase = "calling" => thread[t].request.id \notin IdsIn(ConnOf(t))
StillThere == \A t \in Thread :
  Awaits(t) => \/ thread[t].request.id \in IdsIn(ConnOf(t)) \cup UnsentIds(ConnOf(t))
               \/ May("lost")
OneCaller == ~May("shared") => \A t, u \in Caller : Busy(t) /\ Busy(u) => t = u
Alive == ~May("lost") => \A c \in Conn : conn[c].sock /\ conn[c].up

RepliesInv ==
  /\ \A c \in Conn : SingleIn(c)
  /\ OwnIds /\ NotSent /\ StillThere /\ NotPutAside /\ OwnReply /\ OneCaller /\ Alive

(* What the replies need follows.                                           *)
LEMMA RepliesFollow == CallsType /\ RepliesInv => RepliesKept
<1> SUFFICES ASSUME CallsType, RepliesInv PROVE OnePlace
  BY DEF RepliesInv, RepliesKept
<1>1. ASSUME NEW c \in Conn, NEW i
      PROVE  Places(c, i) = IF i \in IdsIn(c) THEN 1 ELSE 0
  BY CountPlaces DEF RepliesInv
<1>2. \A c \in Conn, i \in Id : Places(c, i) <= 1
  BY <1>1
<1>3. ASSUME NEW t \in Thread, Awaits(t)
      PROVE  \/ Places(ConnOf(t), thread[t].request.id) = 1
             \/ thread[t].request.id \in UnsentIds(ConnOf(t)) \/ May("lost")
  <2>1. thread[t].request.id \in IdsIn(ConnOf(t)) \cup UnsentIds(ConnOf(t)) \/ May("lost")
    BY <1>3 DEF RepliesInv, StillThere
  <2> QED
    BY <1>1, <2>1, Connections
<1> QED
  BY <1>2, <1>3 DEF OnePlace, Awaits

(* A connection that does not change.                                       *)
LEMMA SameConn ==
  ASSUME NEW c \in Conn, conn'[c] = conn[c], Served(c)' = Served(c), SingleIn(c)
  PROVE  SingleIn(c)' /\ IdsIn(c)' = IdsIn(c)
BY DEF SingleIn, IdsIn

(* A connection with other contents.                                        *)
LEMMA OtherContents ==
  ASSUME NEW c \in Conn, NEW sock, NEW up, NEW Q, NEW R, NEW B, NEW T,
         Stands(conn'[c], sock, up, Q, R, B, T), Served(c)' = Served(c)
  PROVE  /\ SingleIn(c)' <=> Single(Q, R, B, T, Served(c))
         /\ IdsIn(c)' = AllIds(Q, R, B, T, Served(c))
BY DEF SingleIn, IdsIn, Stands

(* A step of a thread ends its call or brings it on.                        *)
IdsKept(c, i) ==
  /\ IdsIn(c) \ {i} \subseteq IdsIn(c)' \cup UnsentIds(c)
  /\ IdsIn(c)' \subseteq IdsIn(c) \cup {i}
EndsCall(t) ==
  LET c == ConnOf(t)
      i == thread[t].request.id
  IN  /\ \E how, reply :
           Ended(t, how, reply) /\ (how = "answered" => reply = i /\ i \notin IdsIn(c)')
      /\ IdsKept(c, i) \/ (May("lost") /\ IdsIn(c)' \subseteq IdsIn(c))
      /\ conn'[c].stash \subseteq conn[c].stash
      /\ May("lost") \/ (conn'[c].sock = conn[c].sock /\ conn'[c].up = conn[c].up)
GoesOn(t) ==
  LET c == ConnOf(t)
      i == thread[t].request.id
  IN  /\ OnlyConn(c) /\ OnlyThread(t) /\ thread'[t] \in Called /\ Awaits(t)'
      /\ thread'[t].request = thread[t].request /\ result' = result
      /\ IdsKept(c, i) /\ (i \in IdsIn(c)' \cup UnsentIds(c) \/ May("lost"))
      /\ \A r \in conn'[c].stash : r \in conn[c].stash \/ r.id # i
      /\ conn'[c].sock = conn[c].sock /\ conn'[c].up = conn[c].up

(* Send ends a call or brings it on.                                        *)
LEMMA SendIds ==
  ASSUME CallsType, RepliesInv, NEW t \in Thread, Send(t), Served(ConnOf(t))' = Served(ConnOf(t))
  PROVE  SingleIn(ConnOf(t))' /\ (EndsCall(t) \/ GoesOn(t))
<1> DEFINE c == ConnOf(t)
           k == conn[c]
           i == thread[t].request.id
<1>1. /\ c \in Conn /\ SingleIn(c) /\ thread[t] \in Called /\ Sends(t)
      /\ k.requests \in Seq(Request) /\ thread[t].request \in Request /\ i \notin IdsIn(c)
      /\ thread[t].phase = "calling"
  BY Connections, SendEffect, ConnFields, ThreadCalled DEF RepliesInv, NotSent
<1>2. Single(k.requests, k.replies, k.buffer, k.stash, Served(c))
  BY <1>1 DEF SingleIn
<1>3. Stashed(t) = {}
  BY <1>1 DEF Stashed, IdsIn, AllIds, IdsAside
<1>4. CASE ~(k.sock /\ k.up) /\ Ended(t, "lost", None)
           /\ Stands(conn'[c], FALSE, k.up, k.requests, k.replies, k.buffer, k.stash)
  <2>1. SingleIn(c)' /\ IdsIn(c)' = IdsIn(c) /\ conn'[c].stash = k.stash
    BY <1>1, <1>2, <1>4, OtherContents DEF IdsIn, Stands
  <2>2. May("lost")
    BY <1>1, <1>4 DEF RepliesInv, Alive
  <2> QED
    BY <1>4, <2>1, <2>2 DEF EndsCall, IdsKept
<1>5. CASE ~(k.sock /\ k.up) /\ Ended(t, "lost", None)
           /\ Stands(conn'[c], FALSE, k.up, k.requests, k.replies, <<>>, k.stash)
  <2>1. May("lost")
    BY <1>1, <1>5 DEF RepliesInv, Alive
  <2>2. /\ SingleIn(c)' <=> Single(k.requests, k.replies, <<>>, k.stash, Served(c))
        /\ IdsIn(c)' = AllIds(k.requests, k.replies, <<>>, k.stash, Served(c))
        /\ conn'[c].stash = k.stash
    BY <1>1, <1>5, OtherContents DEF Stands
  <2>3. IdsIn(c)' \subseteq IdsIn(c)
    BY <2>2, IdsOfEmpty DEF IdsIn, AllIds
  <2>4. Single(k.requests, k.replies, <<>>, k.stash, Served(c))
    BY <1>2, IdsOfEmpty DEF Single
  <2> QED
    BY <1>5, <2>1, <2>2, <2>3, <2>4 DEF EndsCall
<1>6. CASE /\ k.sock /\ OnlyConn(c) /\ OnlyThread(t)
           /\ Stands(conn'[c], k.sock, k.up, IF k.up THEN Append(k.requests, thread[t].request)
                                     ELSE k.requests, k.replies, k.buffer, k.stash)
           /\ thread'[t] \in Called /\ thread'[t].phase = "waiting"
           /\ thread'[t].request = thread[t].request
           /\ result' = result
  <2>1. CASE k.up
    <3>1. Stands(conn'[c], k.sock, k.up, Append(k.requests, thread[t].request), k.replies,
                 k.buffer, k.stash)
      BY <1>6, <2>1
    <3>2. /\ SingleIn(c)' <=> Single(Append(k.requests, thread[t].request), k.replies, k.buffer,
                                     k.stash, Served(c))
          /\ IdsIn(c)' = AllIds(Append(k.requests, thread[t].request), k.replies, k.buffer,
                                k.stash, Served(c))
          /\ conn'[c].stash = k.stash /\ conn'[c].sock = k.sock /\ conn'[c].up = k.up
      BY <1>1, <3>1, OtherContents DEF Stands
    <3>3. i \notin AllIds(k.requests, k.replies, k.buffer, k.stash, Served(c))
      BY <1>1 DEF IdsIn
    <3>4. /\ Single(Append(k.requests, thread[t].request), k.replies, k.buffer, k.stash, Served(c))
          /\ AllIds(Append(k.requests, thread[t].request), k.replies, k.buffer, k.stash, Served(c))
               = AllIds(k.requests, k.replies, k.buffer, k.stash, Served(c)) \cup {i}
      BY <1>1, <1>2, <3>3, SingleSent
    <3>5. SingleIn(c)' /\ IdsIn(c)' = IdsIn(c) \cup {i}
      BY <3>2, <3>4 DEF IdsIn
    <3> QED
      BY <1>6, <3>2, <3>5 DEF GoesOn, IdsKept, Awaits
  <2>2. CASE ~k.up
    <3>1. May("lost")
      BY <1>1, <2>2 DEF RepliesInv, Alive
    <3>2. SingleIn(c)' /\ IdsIn(c)' = IdsIn(c)
      BY <1>1, <1>2, <1>6, <2>2, OtherContents DEF IdsIn
    <3>3. conn'[c].stash = k.stash /\ conn'[c].sock = k.sock /\ conn'[c].up = k.up
      BY <1>6 DEF Stands
    <3> QED
      BY <1>6, <3>1, <3>2, <3>3 DEF GoesOn, IdsKept, Awaits
  <2> QED
    BY <2>1, <2>2
<1> QED
  BY <1>1, <1>3, <1>4, <1>5, <1>6 DEF Sends

(* So does Drain,                                                           *)
LEMMA DrainIds ==
  ASSUME CallsType, RepliesInv, NEW t \in Thread, Drain(t), Served(ConnOf(t))' = Served(ConnOf(t))
  PROVE  SingleIn(ConnOf(t))' /\ (EndsCall(t) \/ GoesOn(t))
<1> DEFINE c == ConnOf(t)
           k == conn[c]
           i == thread[t].request.id
           reply == Head(k.buffer)
<1>1. /\ c \in Conn /\ SingleIn(c) /\ thread[t] \in Called /\ Drains(t)
      /\ k.buffer \in Seq(Reply) /\ k.buffer # <<>> /\ thread[t].phase = "receiving"
  BY Connections, DrainEffect, ConnFields DEF RepliesInv
<1>2. Single(k.requests, k.replies, k.buffer, k.stash, Served(c))
  BY <1>1 DEF SingleIn
<1> DEFINE aside == k.stash \cup {reply}
<1>3. /\ Single(k.requests, k.replies, Tail(k.buffer), k.stash, Served(c))
      /\ AllIds(k.requests, k.replies, Tail(k.buffer), k.stash, Served(c))
           = AllIds(k.requests, k.replies, k.buffer, k.stash, Served(c)) \ {reply.id}
      /\ Single(k.requests, k.replies, Tail(k.buffer), aside, Served(c))
      /\ AllIds(k.requests, k.replies, Tail(k.buffer), aside, Served(c))
           = AllIds(k.requests, k.replies, k.buffer, k.stash, Served(c))
  <2> DEFINE Q == k.requests
             R == k.replies
             B == k.buffer
             T == k.stash
             S == Served(c)
  <2>1. Single(Q, R, B, T, S) /\ B \in Seq(Reply) /\ B # <<>>
    BY <1>1, <1>2
  <2> HIDE DEF Q, R, B, T, S
  <2>2. /\ Single(Q, R, Tail(B), T, S) /\ Single(Q, R, Tail(B), T \cup {Head(B)}, S)
        /\ AllIds(Q, R, Tail(B), T, S) = AllIds(Q, R, B, T, S) \ {Head(B).id}
        /\ AllIds(Q, R, Tail(B), T \cup {Head(B)}, S) = AllIds(Q, R, B, T, S)
    BY <2>1, SingleRead
  <2> QED
    BY <2>2 DEF Q, R, B, T, S
<1>4. CASE /\ reply.id = i /\ Ended(t, "answered", reply.id)
           /\ Stands(conn'[c], k.sock, k.up, k.requests, k.replies, Tail(k.buffer), k.stash)
  <2>1. SingleIn(c)' /\ IdsIn(c)' = IdsIn(c) \ {i} /\ conn'[c].stash = k.stash
        /\ conn'[c].sock = k.sock /\ conn'[c].up = k.up
    BY <1>1, <1>3, <1>4, OtherContents DEF IdsIn, Stands
  <2> QED
    BY <1>4, <2>1 DEF EndsCall, IdsKept
<1>5. CASE /\ reply.id # i /\ OnlyConn(c)
           /\ Stands(conn'[c], k.sock, k.up, k.requests, k.replies, Tail(k.buffer),
                     k.stash \cup {reply})
           /\ UNCHANGED <<thread, result, delivered>>
  <2>1. Stands(conn'[c], k.sock, k.up, k.requests, k.replies, Tail(k.buffer), aside)
    BY <1>5
  <2> HIDE DEF aside
  <2>2. /\ SingleIn(c)' <=> Single(k.requests, k.replies, Tail(k.buffer), aside, Served(c))
        /\ IdsIn(c)' = AllIds(k.requests, k.replies, Tail(k.buffer), aside, Served(c))
    BY <1>1, <2>1, OtherContents
  <2>3. SingleIn(c)' /\ IdsIn(c)' = IdsIn(c)
    BY <1>3, <2>2 DEF IdsIn
  <2>4. /\ conn'[c].stash = k.stash \cup {reply} /\ conn'[c].sock = k.sock
        /\ conn'[c].up = k.up
    BY <1>5 DEF Stands
  <2>5. i \in IdsIn(c) \cup UnsentIds(c) \/ May("lost")
    BY <1>1 DEF RepliesInv, StillThere, Awaits
  <2>6. OnlyThread(t) /\ thread'[t] = thread[t] /\ result' = result
    BY <1>5 DEF OnlyThread, CallsType
  <2> QED
    BY <1>1, <1>5, <2>3, <2>4, <2>5, <2>6 DEF GoesOn, IdsKept, Awaits
<1> QED
  BY <1>1, <1>4, <1>5 DEF Drains

(* DrainGarbled ends a call and takes a line away that nobody can read,     *)
LEMMA DrainGarbledIds ==
  ASSUME CallsType, RepliesInv, NEW t \in Thread, DrainGarbled(t),
         Served(ConnOf(t))' = Served(ConnOf(t))
  PROVE  /\ SingleIn(ConnOf(t))' /\ EndsCall(t)
         /\ IdsIn(ConnOf(t))' = IdsIn(ConnOf(t)) \ {Head(conn[ConnOf(t)].buffer).id}
<1> DEFINE c == ConnOf(t)
           k == conn[c]
           i == thread[t].request.id
<1>1. /\ c \in Conn /\ SingleIn(c) /\ k.buffer \in Seq(Reply) /\ k.buffer # <<>>
      /\ Ended(t, "garbled", None) /\ Head(k.buffer).id \in UnsentIds(c)
      /\ Stands(conn'[c], k.sock, k.up, k.requests, k.replies, Tail(k.buffer), k.stash)
  BY Connections, DrainGarbledEffect, ConnFields DEF RepliesInv
<1>2. /\ Single(k.requests, k.replies, Tail(k.buffer), k.stash, Served(c))
      /\ AllIds(k.requests, k.replies, Tail(k.buffer), k.stash, Served(c))
           = AllIds(k.requests, k.replies, k.buffer, k.stash, Served(c)) \ {Head(k.buffer).id}
  <2> DEFINE Q == k.requests
             R == k.replies
             B == k.buffer
             T == k.stash
             S == Served(c)
  <2>1. Single(Q, R, B, T, S) /\ B \in Seq(Reply) /\ B # <<>>
    BY <1>1 DEF SingleIn
  <2> HIDE DEF Q, R, B, T, S
  <2>2. /\ Single(Q, R, Tail(B), T, S) /\ Single(Q, R, Tail(B), T \cup {Head(B)}, S)
        /\ AllIds(Q, R, Tail(B), T, S) = AllIds(Q, R, B, T, S) \ {Head(B).id}
        /\ AllIds(Q, R, Tail(B), T \cup {Head(B)}, S) = AllIds(Q, R, B, T, S)
    BY <2>1, SingleRead
  <2> QED
    BY <2>2 DEF Q, R, B, T, S
<1>3. SingleIn(c)' /\ IdsIn(c)' = IdsIn(c) \ {Head(k.buffer).id} /\ conn'[c].stash = k.stash
      /\ conn'[c].sock = k.sock /\ conn'[c].up = k.up
  BY <1>1, <1>2, OtherContents DEF IdsIn, Stands
<1> QED
  BY <1>1, <1>3 DEF EndsCall, IdsKept

(* so does Receive,                                                         *)
LEMMA ReceiveIds ==
  ASSUME CallsType, RepliesInv, NEW t \in Thread, Receive(t),
         Served(ConnOf(t))' = Served(ConnOf(t))
  PROVE  SingleIn(ConnOf(t))' /\ (EndsCall(t) \/ GoesOn(t))
<1> DEFINE c == ConnOf(t)
           k == conn[c]
           i == thread[t].request.id
<1>1. /\ c \in Conn /\ SingleIn(c) /\ thread[t] \in Called /\ Receives(t)
      /\ k.replies \in Seq(Reply) /\ k.buffer = <<>> /\ thread[t].phase = "receiving"
  BY Connections, ReceiveEffect, ConnFields DEF RepliesInv
<1>2. Single(k.requests, k.replies, <<>>, k.stash, Served(c))
  BY <1>1 DEF SingleIn
<1>3. ASSUME NEW n \in 1..Len(k.replies), OnlyConn(c),
             Stands(conn'[c], k.sock, k.up, k.requests, Suffix(k.replies, n),
                      Prefix(k.replies, n), k.stash),
             UNCHANGED <<thread, result>>
      PROVE  SingleIn(c)' /\ GoesOn(t)
  <2>1. n \in 0..Len(k.replies)
    BY <1>1, LenProperties
  <2>2. /\ Single(k.requests, Suffix(k.replies, n), Prefix(k.replies, n), k.stash, Served(c))
        /\ AllIds(k.requests, Suffix(k.replies, n), Prefix(k.replies, n), k.stash, Served(c))
             = AllIds(k.requests, k.replies, <<>>, k.stash, Served(c))
    BY <1>1, <1>2, <2>1, SingleReceived
  <2>3. SingleIn(c)' /\ IdsIn(c)' = IdsIn(c)
    BY <1>1, <1>3, <2>2, OtherContents DEF IdsIn
  <2>4. conn'[c].stash = k.stash /\ conn'[c].sock = k.sock /\ conn'[c].up = k.up
    BY <1>3 DEF Stands
  <2>5. i \in IdsIn(c) \cup UnsentIds(c) \/ May("lost")
    BY <1>1 DEF RepliesInv, StillThere, Awaits
  <2>6. OnlyThread(t) /\ thread'[t] = thread[t] /\ result' = result
    BY <1>3 DEF OnlyThread, CallsType
  <2> QED
    BY <1>1, <1>3, <2>3, <2>4, <2>5, <2>6 DEF GoesOn, IdsKept, Awaits
<1>4. CASE /\ ~k.up /\ Ended(t, "lost", None)
           /\ Stands(conn'[c], FALSE, k.up, k.requests, k.replies, k.buffer, k.stash)
  <2>1. SingleIn(c)' /\ IdsIn(c)' = IdsIn(c) /\ conn'[c].stash = k.stash
    BY <1>1, <1>2, <1>4, OtherContents DEF IdsIn, Stands
  <2>2. May("lost")
    BY <1>1, <1>4 DEF RepliesInv, Alive
  <2> QED
    BY <1>4, <2>1, <2>2 DEF EndsCall, IdsKept
<1> QED
  BY <1>1, <1>3, <1>4 DEF Receives

(* and so does every step of a thread.                                      *)
LEMMA ThreadIds ==
  ASSUME CallsType, RepliesInv, NEW t \in Thread, ThreadStep(t)
  PROVE  (\A c \in Conn : SingleIn(c)') /\ (EndsCall(t) \/ GoesOn(t))
<1> DEFINE c == ConnOf(t)
           k == conn[c]
<1>1. c \in Conn /\ SingleIn(c) /\ \A d \in Conn : Served(d)' = Served(d)
  BY Connections, ThreadLeaves DEF RepliesInv, Served, serverVars
<1>2. SingleIn(c)' /\ (EndsCall(t) \/ GoesOn(t))
  <2>1. CASE Send(t)
    BY <1>1, <2>1, SendIds
  <2>2. CASE Acquire(t)
    <3>1. /\ OnlyConn(c) /\ OnlyThread(t) /\ UNCHANGED result
          /\ Stands(conn'[c], k.sock, k.up, k.requests, k.replies, k.buffer, k.stash)
          /\ thread[t].phase = "waiting"
          /\ thread'[t] \in Called /\ thread'[t].phase = "receiving"
          /\ thread'[t].request = thread[t].request
      BY <2>2, AcquireEffect DEF Acquire
    <3>2. SingleIn(c)' /\ IdsIn(c)' = IdsIn(c)
      BY <1>1, <3>1, OtherContents DEF IdsIn, SingleIn
    <3>3. conn'[c].stash = k.stash /\ conn'[c].sock = k.sock /\ conn'[c].up = k.up
      BY <3>1 DEF Stands
    <3>4. thread[t].request.id \in IdsIn(c) \cup UnsentIds(c) \/ May("lost")
      BY <3>1 DEF RepliesInv, StillThere, Awaits
    <3> QED
      BY <3>1, <3>2, <3>3, <3>4 DEF GoesOn, IdsKept, Awaits
  <2>3. CASE Drain(t)
    BY <1>1, <2>3, DrainIds
  <2>4. CASE Receive(t)
    BY <1>1, <2>4, ReceiveIds
  <2>5. CASE Crash(t) \/ TimeOut(t)
    <3>1. PICK how \in Failure : Ended(t, how, None)
      BY <2>5, GivesUpEffect
    <3>2. Stands(conn'[c], k.sock, k.up, k.requests, k.replies, k.buffer, k.stash)
      BY <2>5, GivesUpEffect
    <3>3. SingleIn(c)' /\ IdsIn(c)' = IdsIn(c) /\ conn'[c].stash = k.stash
          /\ conn'[c].sock = k.sock /\ conn'[c].up = k.up
      BY <1>1, <3>2, OtherContents DEF IdsIn, SingleIn, Stands
    <3>4. how # "answered"
      BY DEF Failure
    <3> QED
      BY <3>1, <3>3, <3>4 DEF EndsCall, IdsKept
  <2>6. CASE DrainGarbled(t)
    BY <1>1, <2>6, DrainGarbledIds
  <2> QED
    BY <2>1, <2>2, <2>3, <2>4, <2>5, <2>6 DEF ThreadStep
<1>3. OnlyConn(c)
  BY <1>2 DEF EndsCall, GoesOn, Ended
<1>4. ASSUME NEW d \in Conn \ {c} PROVE SingleIn(d)'
  BY <1>1, <1>3, <1>4, SameConn DEF RepliesInv, OnlyConn
<1> QED
  BY <1>2, <1>4

(* What a step of a thread leaves for the others: no other is in the middle *)
(* of a call whose reply it takes or puts aside.                            *)
LEMMA BusyIsCalled ==
  ASSUME CallsType, NEW t \in Thread
  PROVE  /\ Busy(t) <=> thread[t] \in Called
         /\ Awaits(t) => Busy(t) /\ (thread[t].phase = "calling" => Busy(t))
         /\ thread[t] = Idle => ~Busy(t) /\ ~Awaits(t) /\ thread[t].phase # "calling"
BY CalledFacts DEF CallsType, Busy, Awaits

(* Who shares a connection with nobody is alone on it.                      *)
LEMMA Alone ==
  ASSUME OneCaller, NEW t \in Thread, NEW u \in Thread, Busy(t), Busy(u),
         ConnOf(t) = ConnOf(u), u = Poller \/ ~May("shared")
  PROVE  t = u
<1>1. t = Poller <=> u = Poller
  BY DEF ConnOf
<1> QED
  BY <1>1 DEF OneCaller, Thread

(* A call that ends leaves the replies of others where they are.            *)
LEMMA EndReplies ==
  ASSUME CallsType, RepliesInv, NEW t \in Thread, EndsCall(t),
         UNCHANGED <<setting, sending>>,
         \A c \in Conn : SingleIn(c)', \A c \in Conn \ {ConnOf(t)} : IdsIn(c)' = IdsIn(c)
  PROVE  RepliesInv'
<1> DEFINE c == ConnOf(t)
           i == thread[t].request.id
<1>1. PICK how, reply : Ended(t, how, reply) /\ (how = "answered" => reply = i)
  BY DEF EndsCall
<1>2. /\ OnlyConn(c) /\ OnlyThread(t) /\ OnlyResult(t) /\ thread[t] \in Called
      /\ thread'[t] = Idle /\ result'[t].id = i /\ result'[t].how = how
      /\ result'[t].reply = reply /\ c \in Conn /\ Busy(t)
  BY <1>1, Connections, BusyIsCalled DEF Ended
<1>3. thread'[t].phase = "idle"
  BY <1>2, CalledFacts
<1>4. \A u \in Thread \ {t} : thread'[u] = thread[u] /\ result'[u] = result[u]
  BY <1>2 DEF OnlyThread, OnlyResult
<1>5. IdsKept(c, i) \/ (May("lost") /\ IdsIn(c)' \subseteq IdsIn(c))
  BY DEF EndsCall
<1>6. OwnIds' /\ OneCaller'
  BY <1>3, <1>4 DEF RepliesInv, OwnIds, OneCaller, Busy, May, Thread
<1>7. OwnReply'
  BY <1>1, <1>2, <1>4 DEF RepliesInv, OwnReply
<1>8. ASSUME NEW u \in Thread, u # t, Busy(u)
      PROVE  thread[u].request.id # i
  BY <1>2, <1>8 DEF RepliesInv, OwnIds
<1>9. NotSent'
  <2> SUFFICES ASSUME NEW u \in Thread, thread'[u].phase = "calling"
               PROVE  thread'[u].request.id \notin IdsIn(ConnOf(u))'
    BY DEF NotSent
  <2>1. u # t /\ thread'[u] = thread[u] /\ thread[u].phase = "calling"
    BY <1>3, <1>4
  <2>2. thread[u].request.id \notin IdsIn(ConnOf(u)) /\ thread[u].request.id # i
    BY <1>8, <2>1 DEF RepliesInv, NotSent, Busy
  <2> QED
    BY <1>5, <2>1, <2>2, Connections DEF IdsKept
<1>10. StillThere'
  <2> SUFFICES ASSUME NEW u \in Thread, Awaits(u)'
               PROVE  \/ thread'[u].request.id \in IdsIn(ConnOf(u))' \cup UnsentIds(ConnOf(u))
                      \/ May("lost")
    BY DEF StillThere, May, UnsentIds
  <2>1. u # t /\ thread'[u] = thread[u] /\ Awaits(u)
    BY <1>3, <1>4 DEF Awaits
  <2>2. \/ thread[u].request.id \in IdsIn(ConnOf(u)) \cup UnsentIds(ConnOf(u))
        \/ May("lost")
    BY <2>1 DEF RepliesInv, StillThere
  <2>3. thread[u].request.id # i
    BY <1>8, <2>1 DEF Awaits, Busy
  <2> QED
    BY <1>5, <2>1, <2>2, <2>3, Connections DEF IdsKept
<1>11. NotPutAside'
  <2> SUFFICES ASSUME NEW u \in Thread, Awaits(u)', u = Poller \/ ~May("shared")
               PROVE  Stashed(u)' = {}
    BY DEF NotPutAside, May, Awaits
  <2>1. u # t /\ thread'[u] = thread[u] /\ Awaits(u)
    BY <1>3, <1>4 DEF Awaits
  <2>2. Stashed(u) = {}
    BY <2>1 DEF RepliesInv, NotPutAside, Awaits
  <2>3. conn'[ConnOf(u)].stash \subseteq conn[ConnOf(u)].stash
    BY <1>2, Connections DEF OnlyConn, EndsCall
  <2> QED
    BY <2>1, <2>2, <2>3 DEF Stashed
<1>12. Alive'
  <2>1. May("lost") \/ \A d \in Conn : conn'[d].sock = conn[d].sock /\ conn'[d].up = conn[d].up
    BY <1>2 DEF EndsCall, OnlyConn
  <2> QED
    BY <2>1 DEF RepliesInv, Alive, May
<1> QED
  BY <1>6, <1>7, <1>9, <1>10, <1>11, <1>12 DEF RepliesInv

(* So does a call that goes on.                                             *)
LEMMA GoOnReplies ==
  ASSUME CallsType, RepliesInv, NEW t \in Thread, GoesOn(t), Busy(t),
         UNCHANGED <<setting, sending>>,
         \A c \in Conn : SingleIn(c)', \A c \in Conn \ {ConnOf(t)} : IdsIn(c)' = IdsIn(c)
  PROVE  RepliesInv'
<1> DEFINE c == ConnOf(t)
           i == thread[t].request.id
<1>1. /\ OnlyConn(c) /\ OnlyThread(t) /\ thread'[t] \in Called
      /\ thread'[t].request = thread[t].request /\ result' = result /\ c \in Conn
      /\ IdsKept(c, i) /\ (i \in IdsIn(c)' \cup UnsentIds(c) \/ May("lost"))
      /\ Awaits(t)' /\ thread'[t].phase # "calling"
  BY Connections DEF GoesOn, Awaits
<1>2. \A u \in Thread \ {t} : thread'[u] = thread[u]
  BY <1>1 DEF OnlyThread
<1>3. OwnIds' /\ OneCaller'
  <2>1. \A u \in Thread : Busy(u)' => Busy(u) /\ thread'[u].request = thread[u].request
    BY <1>1, <1>2 DEF Busy
  <2> QED
    BY <2>1 DEF RepliesInv, OwnIds, OneCaller, May, Thread
<1>4. OwnReply'
  BY <1>1 DEF RepliesInv, OwnReply
<1>5. ASSUME NEW u \in Thread, u # t, Busy(u)
      PROVE  thread[u].request.id # i
  BY <1>5 DEF RepliesInv, OwnIds
<1>6. NotSent'
  <2> SUFFICES ASSUME NEW u \in Thread, thread'[u].phase = "calling"
               PROVE  thread'[u].request.id \notin IdsIn(ConnOf(u))'
    BY DEF NotSent
  <2>1. u # t /\ thread'[u] = thread[u] /\ thread[u].phase = "calling"
    BY <1>1, <1>2
  <2>2. thread[u].request.id \notin IdsIn(ConnOf(u)) /\ thread[u].request.id # i
    BY <1>5, <2>1 DEF RepliesInv, NotSent, Busy
  <2> QED
    BY <1>1, <2>1, <2>2, Connections DEF IdsKept
<1>7. StillThere'
  <2> SUFFICES ASSUME NEW u \in Thread, Awaits(u)'
               PROVE  \/ thread'[u].request.id \in IdsIn(ConnOf(u))' \cup UnsentIds(ConnOf(u))
                      \/ May("lost")
    BY DEF StillThere, May, UnsentIds
  <2>1. CASE u = t
    BY <1>1, <2>1
  <2>2. CASE u # t
    <3>1. thread'[u] = thread[u] /\ Awaits(u)
      BY <1>2, <2>2 DEF Awaits
    <3>2. \/ thread[u].request.id \in IdsIn(ConnOf(u)) \cup UnsentIds(ConnOf(u))
          \/ May("lost")
      BY <3>1 DEF RepliesInv, StillThere
    <3>3. thread[u].request.id # i
      BY <1>5, <2>2, <3>1 DEF Awaits, Busy
    <3> QED
      BY <1>1, <3>1, <3>2, <3>3, Connections DEF IdsKept
  <2> QED
    BY <2>1, <2>2
<1>8. NotPutAside'
  <2> SUFFICES ASSUME NEW u \in Thread, Awaits(u)', u = Poller \/ ~May("shared")
               PROVE  Stashed(u)' = {}
    BY DEF NotPutAside, May, Awaits
  <2>1. CASE u = t
    <3>1. \A r \in conn[c].stash : r.id # i
      <4>1. CASE Awaits(t)
        BY <2>1, <4>1 DEF RepliesInv, NotPutAside, Stashed, Awaits
      <4>2. CASE thread[t].phase = "calling"
        BY <4>2 DEF RepliesInv, NotSent, IdsIn, AllIds, IdsAside
      <4> QED
        BY <4>1, <4>2, BusyIsCalled DEF Called, Phase, Awaits
    <3>2. \A r \in conn'[c].stash : r.id # i
      BY <3>1 DEF GoesOn
    <3> QED
      BY <1>1, <2>1, <3>2 DEF Stashed
  <2>2. CASE u # t
    <3>1. thread'[u] = thread[u] /\ Awaits(u)
      BY <1>2, <2>2 DEF Awaits
    <3>2. Stashed(u) = {}
      BY <3>1 DEF RepliesInv, NotPutAside, Awaits
    <3>3. ConnOf(u) # c
      BY <2>2, <3>1, Alone, BusyIsCalled DEF RepliesInv
    <3>4. conn'[ConnOf(u)] = conn[ConnOf(u)]
      BY <1>1, <3>3, Connections DEF OnlyConn
    <3> QED
      BY <3>1, <3>2, <3>4 DEF Stashed
  <2> QED
    BY <2>1, <2>2
<1>9. Alive'
  <2>1. \A d \in Conn : conn'[d].sock = conn[d].sock /\ conn'[d].up = conn[d].up
    BY <1>1 DEF GoesOn, OnlyConn
  <2> QED
    BY <2>1 DEF RepliesInv, Alive, May
<1> QED
  BY <1>3, <1>4, <1>6, <1>7, <1>8, <1>9 DEF RepliesInv

(* A step of a thread, a new call, a step of the server and a lost          *)
(* connection.                                                              *)
LEMMA ThreadReplies ==
  ASSUME CallsType, RepliesInv, NEW t \in Thread, ThreadStep(t)
  PROVE  RepliesInv'
<1>1. /\ \A c \in Conn : SingleIn(c)'
      /\ EndsCall(t) \/ GoesOn(t)
  BY ThreadIds
<1>2. UNCHANGED <<setting, sending>> /\ \A d \in Conn : Served(d)' = Served(d)
  BY ThreadLeaves DEF Served, serverVars
<1>3. OnlyConn(ConnOf(t))
  BY <1>1 DEF EndsCall, GoesOn, Ended
<1>4. \A c \in Conn \ {ConnOf(t)} : IdsIn(c)' = IdsIn(c)
  BY <1>2, <1>3, SameConn DEF RepliesInv, OnlyConn
<1>5. Busy(t)
  BY CalledFacts DEF ThreadStep, Send, Acquire, Drain, DrainGarbled, Receive, Crash, TimeOut,
     Receiving, Busy
<1> QED
  BY <1>1, <1>2, <1>4, <1>5, EndReplies, GoOnReplies

(* A new call takes nobody's reply.                                         *)
LEMMA AskReplies ==
  ASSUME CallsType, RepliesInv, NEW t \in Thread, NEW topics \in SUBSET Pattern,
         Asked(t, topics), UNCHANGED <<setting, serving, sending>>,
         May("shared") \/ t = Poller \/ \A u \in Caller : thread[u] = Idle
  PROVE  RepliesInv'
<1> DEFINE i == thread'[t].request.id
<1>1. /\ conn' = conn /\ OnlyThread(t) /\ OnlyResult(t) /\ thread[t] = Idle
      /\ thread'[t].phase = "calling" /\ ~InUse(i) /\ result'[t] = None
  BY DEF Asked
<1>2. \A c \in Conn : SingleIn(c)' /\ IdsIn(c)' = IdsIn(c) /\ Served(c)' = Served(c)
  BY <1>1, SameConn DEF RepliesInv, Served
<1>3. ASSUME NEW c \in Conn PROVE i \notin IdsIn(c)
  BY <1>1 DEF InUse, IdsIn, AllIds, IdsAside, Served
<1>4. \A u \in Thread : Busy(u) => thread[u].request.id # i
  BY <1>1 DEF InUse, Busy
<1>5. \A u \in Thread \ {t} : thread'[u] = thread[u] /\ result'[u] = result[u]
  BY <1>1 DEF OnlyThread, OnlyResult
<1>6. OwnIds'
  BY <1>4, <1>5 DEF RepliesInv, OwnIds, Busy
<1>7. OneCaller'
  <2>1. \A u \in Caller : thread[u] = Idle => ~Busy(u)
    BY BusyIsCalled DEF Thread
  <2>2. Poller \notin Caller
    BY TransportAssumption
  <2> QED
    BY <1>5, <2>1, <2>2 DEF RepliesInv, OneCaller, Busy, May, Thread
<1>8. NotSent'
  BY <1>2, <1>3, <1>5, Connections DEF RepliesInv, NotSent
<1>9. StillThere'
  BY <1>1, <1>2, <1>5, Connections DEF RepliesInv, StillThere, Awaits, UnsentIds, May
<1>10. NotPutAside' /\ OwnReply' /\ Alive'
  <2>1. NotPutAside'
    BY <1>1, <1>5 DEF RepliesInv, NotPutAside, Stashed, May
  <2>2. OwnReply' /\ Alive'
    BY <1>1, <1>5 DEF RepliesInv, OwnReply, Alive, May
  <2> QED
    BY <2>1, <2>2
<1> QED
  BY <1>2, <1>6, <1>7, <1>8, <1>9, <1>10 DEF RepliesInv

(* Steps that leave threads and results alone, and move requests and        *)
(* replies about.                                                           *)
LEMMA OtherReplies ==
  ASSUME RepliesInv, UNCHANGED <<setting, thread, result>>,
         \A c \in Conn : /\ SingleIn(c)' /\ IdsIn(c)' \subseteq IdsIn(c)
                         /\ conn'[c].stash = conn[c].stash
                         /\ sending[c].unsent \subseteq sending'[c].unsent,
         May("lost") \/ \A c \in Conn : /\ IdsIn(c) \subseteq IdsIn(c)' \cup UnsentIds(c)'
                                        /\ conn'[c].sock = conn[c].sock
                                        /\ conn'[c].up = conn[c].up
  PROVE  RepliesInv'
<1>1. OwnIds' /\ OneCaller' /\ OwnReply'
  BY DEF RepliesInv, OwnIds, OneCaller, OwnReply, Busy, May
<1>2. NotSent'
  BY Connections DEF RepliesInv, NotSent
<1>3. StillThere'
  <2>1. \A c \in Conn : UnsentIds(c) \subseteq UnsentIds(c)'
    BY DEF UnsentIds
  <2> QED
    BY <2>1, Connections DEF RepliesInv, StillThere, Awaits, May
<1>4. NotPutAside'
  BY Connections DEF RepliesInv, NotPutAside, Stashed, May
<1>5. Alive'
  BY DEF RepliesInv, Alive, May
<1> QED
  BY <1>1, <1>2, <1>3, <1>4, <1>5 DEF RepliesInv

(* The end of a connection loses replies and gives none to the wrong call.  *)
LEMMA CutReplies ==
  ASSUME CallsType, RepliesInv, NEW c \in Conn, Close(c) \/ Hangup(c)
  PROVE  RepliesInv'
<1>1. /\ Cuts(c) /\ May("lost") /\ UNCHANGED <<setting, sending, thread, result>>
      /\ serving' = IF c = "events" THEN NotServing ELSE serving
  BY CutEffect DEF Close, Hangup, clientVars
<1>2. OnlyConn(c) /\ Served(c)' \in SUBSET Served(c)
  BY <1>1 DEF Cuts, Served
<1>3. \A d \in Conn \ {c} : Served(d)' = Served(d)
  BY <1>1 DEF Served, Conn
<1>4. \A d \in Conn \ {c} :
        SingleIn(d)' /\ IdsIn(d)' = IdsIn(d) /\ conn'[d].stash = conn[d].stash
  BY <1>2, <1>3, SameConn DEF OnlyConn, RepliesInv
<1>5. SingleIn(c)' /\ IdsIn(c)' \subseteq IdsIn(c) /\ conn'[c].stash = conn[c].stash
  <2> DEFINE k == conn[c]
  <2>1. k.replies \in Seq(Reply)
    BY ConnFields
  <2>2. Single(k.requests, k.replies, k.buffer, k.stash, Served(c))
    BY DEF RepliesInv, SingleIn
  <2>3. /\ Single(<<>>, <<>>, <<>>, k.stash, Served(c)')
        /\ \A n \in 0..Len(k.replies) :
             Single(<<>>, Prefix(k.replies, n), k.buffer, k.stash, Served(c)')
    BY <1>2, <2>1, <2>2, SingleCut
  <2>4. CASE Stands(conn'[c], FALSE, FALSE, <<>>, <<>>, <<>>, k.stash)
    <3>1. SingleIn(c)'
      BY <2>3, <2>4 DEF Stands, SingleIn
    <3>2. IdsIn(c)' \subseteq IdsIn(c)
      BY <1>2, <2>4, IdsOfEmpty DEF Stands, IdsIn, AllIds
    <3> QED
      BY <2>4, <3>1, <3>2 DEF Stands
  <2>5. ASSUME NEW n \in 0..Len(k.replies),
               Stands(conn'[c], k.sock, FALSE, <<>>, Prefix(k.replies, n), k.buffer, k.stash)
        PROVE  SingleIn(c)' /\ IdsIn(c)' \subseteq IdsIn(c) /\ conn'[c].stash = conn[c].stash
    <3>1. SingleIn(c)'
      BY <2>3, <2>5 DEF Stands, SingleIn
    <3>2. IdsOf(Prefix(k.replies, n)) \subseteq IdsOf(k.replies)
      BY <2>1, <2>2, IdsOfSplit DEF Single
    <3>3. IdsIn(c)' = AllIds(<<>>, Prefix(k.replies, n), k.buffer, k.stash, Served(c)')
      BY <2>5 DEF Stands, IdsIn
    <3>4. IdsIn(c)' \subseteq IdsIn(c)
      BY <1>2, <3>2, <3>3, IdsOfEmpty DEF IdsIn, AllIds
    <3> QED
      BY <2>5, <3>1, <3>4 DEF Stands
  <2> QED
    BY <1>1, <2>4, <2>5 DEF Cuts
<1> QED
  BY <1>1, <1>4, <1>5, OtherReplies

(* Ids that are still there, or were in a reply that was not sent.          *)
IdsMove(c) ==
  /\ SingleIn(c)' /\ IdsIn(c)' \subseteq IdsIn(c)
  /\ IdsIn(c) \subseteq IdsIn(c)' \cup UnsentIds(c)'
  /\ sending[c].unsent \subseteq sending'[c].unsent

(* A reply that is not sent is among those.                                 *)
LEMMA UnsentId ==
  ASSUME NEW c, NEW Q, NEW r, SentNot(c, Q, r)
  PROVE  r.id \in UnsentIds(c)'
BY DEF SentNot, UnsentIds

(* A poll that is taken up or answered.                                     *)
LEMMA PollIds ==
  ASSUME CallsType, SendType, EventsType, RepliesInv, StartPoll \/ FinishPoll
  PROVE  IdsMove("events")
<1> DEFINE k == conn["events"]
<1>1. CASE StartPoll
  <2> DEFINE q == Head(k.requests)
  <2>1. /\ OnlyConn("events") /\ k.requests # <<>> /\ serving = NotServing /\ "events" \in Conn
        /\ k.requests \in Seq(Request) /\ serving' \in Serving /\ serving'.id = q.id
        /\ Stands(conn'["events"], k.sock, k.up, Tail(k.requests), k.replies,
                  k.buffer, k.stash)
        /\ sending'["events"].unsent = sending["events"].unsent
    BY <1>1, StartPollEffect, ConnFields DEF Conn
  <2>2. Served("events") = {} /\ Served("events")' = {q.id}
    BY <2>1, Notserving DEF Served
  <2>3. /\ Single(Tail(k.requests), k.replies, k.buffer, k.stash, {q.id})
        /\ AllIds(Tail(k.requests), k.replies, k.buffer, k.stash, {q.id})
             = AllIds(k.requests, k.replies, k.buffer, k.stash, {})
    BY <2>1, <2>2, SingleTaken DEF RepliesInv, SingleIn
  <2>4. SingleIn("events")' /\ IdsIn("events")' = IdsIn("events")
    BY <2>1, <2>2, <2>3 DEF Stands, SingleIn, IdsIn
  <2> QED
    BY <2>1, <2>4 DEF IdsMove
<1>2. CASE FinishPoll
  <2>1. /\ serving \in Serving /\ serving' = NotServing /\ "events" \in Conn
        /\ k.replies \in Seq(Reply) /\ k.requests \in Seq(Request)
    BY <1>2, FinishPollEffect, ConnFields DEF Conn
  <2>2. PICK r \in Reply : r.id = serving.id /\ Sent("events", k.requests, r)
    BY <1>2, FinishPollEffect
  <2>3. Served("events") = {r.id} /\ Served("events")' = {}
    BY <2>1, <2>2, Notserving DEF Served
  <2>4. Single(k.requests, k.replies, k.buffer, k.stash, {r.id})
    BY <2>1, <2>3 DEF RepliesInv, SingleIn
  <2>5. CASE SentWhole("events", k.requests, r)
    <3>1. /\ Single(k.requests, Append(k.replies, r), k.buffer, k.stash, {})
          /\ AllIds(k.requests, Append(k.replies, r), k.buffer, k.stash, {})
               = AllIds(k.requests, k.replies, k.buffer, k.stash, {r.id})
      BY <2>1, <2>4, SingleServed
    <3>2. SingleIn("events")' /\ IdsIn("events")' = IdsIn("events")
      BY <2>3, <2>5, <3>1 DEF SentWhole, Stands, SingleIn, IdsIn
    <3> QED
      BY <2>2, <3>2 DEF IdsMove, Sent
  <2>6. CASE SentNot("events", k.requests, r)
    <3>1. /\ Single(k.requests, k.replies, k.buffer, k.stash, {})
          /\ AllIds(k.requests, k.replies, k.buffer, k.stash, {})
               = AllIds(k.requests, k.replies, k.buffer, k.stash, {r.id}) \ {r.id}
      BY <2>1, <2>4, SingleUnsent
    <3>2. SingleIn("events")' /\ IdsIn("events")' = IdsIn("events") \ {r.id}
      BY <2>3, <2>6, <3>1 DEF SentNot, Stands, SingleIn, IdsIn
    <3> QED
      BY <2>2, <2>6, <3>2, UnsentId DEF IdsMove, Sent
  <2> QED
    BY <2>2, <2>5, <2>6 DEF Sent
<1> QED
  BY <1>1, <1>2

(* A request that is answered.                                              *)
LEMMA AnswerIds ==
  ASSUME CallsType, SendType, RepliesInv, Answer("shared"), serving' = serving
  PROVE  IdsMove("shared")
<1> DEFINE k == conn["shared"]
           S == Served("shared")
<1>1. /\ k.requests # <<>> /\ "shared" \in Conn
      /\ k.requests \in Seq(Request) /\ k.replies \in Seq(Reply)
  BY AnswerEffect, ConnFields DEF Conn
<1>2. PICK r \in Reply : r.id = Head(k.requests).id /\ Sent("shared", Tail(k.requests), r)
  BY AnswerEffect DEF Conn
<1>3. S' = S
  BY DEF Served
<1>4. Single(k.requests, k.replies, k.buffer, k.stash, S)
  BY <1>1 DEF RepliesInv, SingleIn
<1>5. CASE SentWhole("shared", Tail(k.requests), r)
  <2>1. /\ Single(Tail(k.requests), Append(k.replies, r), k.buffer, k.stash, S)
        /\ AllIds(Tail(k.requests), Append(k.replies, r), k.buffer, k.stash, S)
             = AllIds(k.requests, k.replies, k.buffer, k.stash, S)
    BY <1>1, <1>2, <1>4, SingleAnswered
  <2>2. SingleIn("shared")' /\ IdsIn("shared")' = IdsIn("shared")
    BY <1>3, <1>5, <2>1 DEF SentWhole, Stands, SingleIn, IdsIn
  <2> QED
    BY <1>2, <2>2 DEF IdsMove, Sent
<1>6. CASE SentNot("shared", Tail(k.requests), r)
  <2>1. /\ Single(Tail(k.requests), k.replies, k.buffer, k.stash, S)
        /\ AllIds(Tail(k.requests), k.replies, k.buffer, k.stash, S)
             = AllIds(k.requests, k.replies, k.buffer, k.stash, S) \ {r.id}
    BY <1>1, <1>2, <1>4, SingleUnsent
  <2>2. SingleIn("shared")' /\ IdsIn("shared")' = IdsIn("shared") \ {r.id}
    BY <1>3, <1>6, <2>1 DEF SentNot, Stands, SingleIn, IdsIn
  <2> QED
    BY <1>2, <1>6, <2>2, UnsentId DEF IdsMove, Sent
<1> QED
  BY <1>2, <1>5, <1>6 DEF Sent

(* A server that answers.                                                   *)
LEMMA ServerReplies ==
  ASSUME CallsType, SendType, EventsType, RepliesInv,
         Answer("shared") \/ StartPoll \/ FinishPoll
  PROVE  RepliesInv'
<1>1. UNCHANGED <<setting, thread, result>>
  BY DEF Answer, StartPoll, FinishPoll, clientVars
<1>2. ASSUME NEW c \in Conn, OnlyConn(c), SendsOnly(c), \A d \in Conn \ {c} : Served(d)' = Served(d),
             IdsMove(c), conn'[c].stash = conn[c].stash,
             conn'[c].sock = conn[c].sock, conn'[c].up = conn[c].up
      PROVE  RepliesInv'
  <2>1. \A d \in Conn \ {c} : /\ SingleIn(d)' /\ IdsIn(d)' = IdsIn(d) /\ conn'[d] = conn[d]
                              /\ sending'[d] = sending[d]
    BY <1>2, SameConn DEF OnlyConn, SendsOnly, RepliesInv
  <2> QED
    BY <1>1, <1>2, <2>1, OtherReplies DEF IdsMove
<1>3. CASE Answer("shared")
  <2> DEFINE k == conn["shared"]
  <2>1. serving' = serving /\ "shared" \in Conn
    BY <1>3 DEF Answer, Conn
  <2>2. PICK r, Q : Sent("shared", Q, r)
    BY <1>3, <2>1, AnswerEffect
  <2>3. /\ OnlyConn("shared") /\ SendsOnly("shared") /\ conn'["shared"].stash = k.stash
        /\ conn'["shared"].sock = k.sock /\ conn'["shared"].up = k.up
    BY <2>2 DEF Sent, SentWhole, SentNot, Stands
  <2>4. \A d \in Conn : Served(d)' = Served(d)
    BY <2>1 DEF Served
  <2> QED
    BY <1>2, <1>3, <2>1, <2>3, <2>4, AnswerIds
<1>4. CASE StartPoll \/ FinishPoll
  <2>1. /\ OnlyConn("events") /\ "events" \in Conn /\ SendsOnly("events")
        /\ conn'["events"].stash = conn["events"].stash
        /\ conn'["events"].sock = conn["events"].sock /\ conn'["events"].up = conn["events"].up
    <3>1. CASE StartPoll
      BY <3>1, StartPollEffect DEF Stands, Conn
    <3>2. CASE FinishPoll
      <4>1. PICK Q, r : Sent("events", Q, r)
        BY <3>2, FinishPollEffect
      <4> QED
        BY <4>1 DEF Sent, SentWhole, SentNot, Stands, Conn
    <3> QED
      BY <1>4, <3>1, <3>2
  <2>2. \A d \in Conn \ {"events"} : Served(d)' = Served(d)
    BY DEF Served
  <2> QED
    BY <1>2, <1>4, <2>1, <2>2, PollIds
<1> QED
  BY <1>3, <1>4

(* Steps that leave the connections alone.                                  *)
LEMMA ApartReplies ==
  ASSUME RepliesInv, UNCHANGED <<setting, conn, sending, thread, result>>,
         serving = NotServing <=> serving' = NotServing,
         serving # NotServing => serving'.id = serving.id
  PROVE  RepliesInv'
<1>1. \A c \in Conn : Served(c)' = Served(c)
  BY DEF Served
<1>2. \A c \in Conn : SingleIn(c)' /\ IdsIn(c)' = IdsIn(c)
  BY <1>1, SameConn DEF RepliesInv
<1> QED
  BY <1>2, OtherReplies

(* The invariant is preserved.                                              *)
LEMMA RepliesStep ==
  ASSUME CallsType, SendType, EventsType, RepliesInv, [Next]_vars
  PROVE  RepliesInv'
<1>1. CASE UNCHANGED vars
  BY <1>1, ApartReplies DEF vars, clientVars, serverVars
<1>2. ASSUME NEW t \in Caller, Call(t) PROVE RepliesInv'
  <2>1. Asked(t, {}) /\ t \in Thread
    BY <1>2, AskEffect DEF Call, Thread
  <2>2. /\ UNCHANGED <<setting, serving, sending>>
        /\ May("shared") \/ \A u \in Caller : thread[u] = Idle
    BY <1>2 DEF Call, serverVars
  <2> QED
    BY <2>1, <2>2, AskReplies
<1>3. CASE Poll
  <2>1. Asked(Poller, subscriptions) /\ Poller \in Thread /\ subscriptions \in SUBSET Pattern
    BY <1>3, AskEffect DEF Poll, Thread, EventsType
  <2>2. UNCHANGED <<setting, serving, sending>>
    BY <1>3 DEF Poll, serverVars
  <2> QED
    BY <2>1, <2>2, AskReplies
<1>4. ASSUME NEW t \in Thread, ThreadStep(t) PROVE RepliesInv'
  BY <1>4, ThreadReplies
<1>5. ASSUME NEW p \in Pattern, Subscribe(p) \/ Unsubscribe(p) PROVE RepliesInv'
  BY <1>5, ApartReplies DEF Subscribe, Unsubscribe, serverVars
<1>6. ASSUME NEW c \in Conn, Close(c) \/ Answer(c) \/ Hangup(c) PROVE RepliesInv'
  <2>1. Answer(c) => c = "shared"
    BY DEF Answer
  <2> QED
    BY <1>6, <2>1, CutReplies, ServerReplies
<1>7. CASE PollServed
  <2>1. ASSUME NEW p \in Pattern, Pop(p) PROVE RepliesInv'
    <3>1. /\ serving \in Serving /\ serving' \in Serving /\ serving'.id = serving.id
          /\ UNCHANGED <<setting, conn, sending, thread, result>>
      BY <2>1, PopEffect DEF Pop, clientVars
    <3> QED
      BY <3>1, Notserving, ApartReplies
  <2>2. ASSUME NEW p \in Pattern, Collect(p) PROVE RepliesInv'
    <3>1. /\ serving \in Serving /\ serving' \in Serving /\ serving'.id = serving.id
          /\ UNCHANGED <<setting, conn, sending, thread, result>>
      BY <2>2, CollectEffect DEF Collect, clientVars
    <3> QED
      BY <3>1, Notserving, ApartReplies
  <2> QED
    BY <1>7, <2>1, <2>2, ServerReplies DEF PollServed
<1>8. ASSUME NEW b \in Publisher, PublisherStep(b) \/ \E topic \in Topic : Publish(b, topic)
      PROVE  RepliesInv'
  <2>1. UNCHANGED <<setting, conn, sending, thread, result>>
    BY <1>8 DEF PublisherStep, Publish, Take, AppendTo, clientVars, serverVars
  <2>2. \/ serving' = serving
        \/ serving \in Serving /\ serving' \in Serving /\ serving'.id = serving.id
    <3>1. ASSUME NEW p \in Pattern, AppendTo(b, p)
          PROVE  \/ serving' = serving
                 \/ serving \in Serving /\ serving' \in Serving /\ serving'.id = serving.id
      BY <3>1, AppendToEffect
    <3> QED
      BY <1>8, <3>1 DEF PublisherStep, Publish, Take, serverVars
  <2> QED
    BY <2>1, <2>2, Notserving, ApartReplies
<1> QED
  BY <1>1, <1>2, <1>3, <1>4, <1>5, <1>6, <1>7, <1>8 DEF Next

(* The invariant holds at the start.                                        *)
LEMMA RepliesInit == Init => RepliesInv
<1> SUFFICES ASSUME Init PROVE RepliesInv
  OBVIOUS
<1>1. \A t \in Thread : thread[t].phase = "idle" /\ result[t] = None
  BY CalledFacts DEF Init
<1>2. ASSUME NEW c \in Conn
      PROVE  /\ conn[c].requests = <<>> /\ conn[c].replies = <<>> /\ conn[c].buffer = <<>>
             /\ conn[c].stash = {} /\ conn[c].sock /\ conn[c].up /\ Served(c) = {}
  BY DEF Init, Served
<1>3. \A c \in Conn : SingleIn(c)
  <2>1. Single(<<>>, <<>>, <<>>, {}, {})
    BY IdsOfEmpty DEF Single, IdsAside
  <2> QED
    BY <1>2, <2>1 DEF SingleIn
<1>4. OwnIds /\ OneCaller /\ NotSent /\ StillThere /\ NotPutAside /\ OwnReply
  BY <1>1 DEF OwnIds, OneCaller, NotSent, StillThere, NotPutAside, OwnReply, Busy, Awaits, Thread
<1> QED
  BY <1>2, <1>3, <1>4 DEF RepliesInv, Alive

(* However many threads share a connection, however late replies are, and   *)
(* whatever becomes of those that cannot be encoded or sent, a call that is *)
(* answered gets the reply to its own request; a request that is waited for *)
(* is in one place, itself or its reply, and never in two, unless its own   *)
(* reply did not go out whole or connections may be lost; and nobody waits  *)
(* for a reply that was put aside where threads do not share a connection.  *)
THEOREM RepliesKeptTheorem == Spec => []RepliesKept
<1>1. TypeInv /\ RepliesInv => RepliesKept
  BY RepliesFollow DEF TypeInv
<1>2. TypeInv /\ RepliesInv /\ [Next]_vars => TypeInv' /\ RepliesInv'
  BY TypeStep, RepliesStep DEF TypeInv
<1>3. Init => TypeInv /\ RepliesInv
  BY TypeInit, RepliesInit
<1> HIDE DEF TypeInv, RepliesInv, RepliesKept
<1> QED
  BY <1>1, <1>2, <1>3, PTL DEF Spec

-----------------------------------------------------------------------------
(* Events come in the order in which they were published.                   *)

(* Of two events of a pattern by one publisher, the first;  of two replies, *)
(* the one whose events of the pattern come first.                          *)
Ahead(p) == {x \in Event \X Event :
  x[1].topic \in Matches(p) /\ x[2].topic \in Matches(p) /\ x[1].by = x[2].by
    => x[1].number < x[2].number}
RepliesAhead(p) ==
  {x \in Reply \X Reply : Before(Ahead(p), ItemsOf(x[1].events), ItemsOf(x[2].events))}

InReplies(s) == UNION {ItemsOf(r.events) : r \in ItemsOf(s)}
RepliesSorted(p, s) ==
  /\ \A r \in ItemsOf(s) : Sorted(Ahead(p), r.events)
  /\ Sorted(RepliesAhead(p), s)

(* No replies have no events.                                               *)
LEMMA InRepliesEmpty == InReplies(<<>>) = {} /\ \A p : RepliesSorted(p, <<>>)
BY ItemsOfEmpty DEF InReplies, RepliesSorted

(* The events in replies are events.                                        *)
LEMMA InRepliesType ==
  ASSUME NEW s \in Seq(Reply)
  PROVE  InReplies(s) \subseteq Event /\ ItemsOf(s) \subseteq Reply
<1>1. ItemsOf(s) \subseteq Reply
  BY ItemsType
<1>2. \A r \in Reply : ItemsOf(r.events) \subseteq Event
  BY ItemsType, ReplyId
<1> QED
  BY <1>1, <1>2 DEF InReplies

(* The events of replies that come first come first.                        *)
LEMMA BeforeReplies ==
  ASSUME NEW p, NEW A \in SUBSET Reply, NEW B \in SUBSET Reply, Before(RepliesAhead(p), A, B)
  PROVE  Before(Ahead(p), UNION {ItemsOf(r.events) : r \in A}, UNION {ItemsOf(r.events) : r \in B})
<1> SUFFICES ASSUME NEW r \in A, NEW q \in B, NEW x \in ItemsOf(r.events), NEW y \in ItemsOf(q.events)
             PROVE  <<x, y>> \in Ahead(p)
  BY DEF Before
<1>1. <<r, q>> \in RepliesAhead(p)
  BY DEF Before
<1>2. Before(Ahead(p), ItemsOf(r.events), ItemsOf(q.events))
  BY <1>1 DEF RepliesAhead
<1> QED
  BY <1>2 DEF Before

(* Replies that are put together, taken apart, or read.                     *)
LEMMA RepliesSplit ==
  ASSUME NEW p, NEW s \in Seq(Reply), NEW n \in 0..Len(s)
  PROVE  /\ Prefix(s, n) \in Seq(Reply) /\ Suffix(s, n) \in Seq(Reply)
         /\ InReplies(s) = InReplies(Prefix(s, n)) \cup InReplies(Suffix(s, n))
         /\ RepliesSorted(p, s) =>
              /\ RepliesSorted(p, Prefix(s, n)) /\ RepliesSorted(p, Suffix(s, n))
              /\ Before(Ahead(p), InReplies(Prefix(s, n)), InReplies(Suffix(s, n)))
<1>1. Prefix(s, n) \in Seq(Reply) /\ Suffix(s, n) \in Seq(Reply)
  BY PrefixFacts, SuffixFacts
<1>2. ItemsOf(s) = ItemsOf(Prefix(s, n)) \cup ItemsOf(Suffix(s, n))
  <2>1. Len(s) \in Nat /\ 1..Len(s) = (1..n) \cup (n + 1..Len(s))
    BY LenProperties
  <2>2. /\ ItemsOf(Prefix(s, n)) = {s[i] : i \in 1..n}
        /\ ItemsOf(Suffix(s, n)) = {s[i] : i \in n + 1..Len(s)}
        /\ ItemsOf(s) = {s[i] : i \in 1..Len(s)}
    BY SplitItems
  <2> QED
    BY <2>1, <2>2
<1>3. InReplies(s) = InReplies(Prefix(s, n)) \cup InReplies(Suffix(s, n))
  BY <1>2 DEF InReplies
<1>4. ASSUME RepliesSorted(p, s)
      PROVE  /\ RepliesSorted(p, Prefix(s, n)) /\ RepliesSorted(p, Suffix(s, n))
             /\ Before(Ahead(p), InReplies(Prefix(s, n)), InReplies(Suffix(s, n)))
  <2>1. /\ Sorted(RepliesAhead(p), Prefix(s, n)) /\ Sorted(RepliesAhead(p), Suffix(s, n))
        /\ Before(RepliesAhead(p), ItemsOf(Prefix(s, n)), ItemsOf(Suffix(s, n)))
    BY <1>4, SplitSorted DEF RepliesSorted
  <2>2. ItemsOf(Prefix(s, n)) \subseteq Reply /\ ItemsOf(Suffix(s, n)) \subseteq Reply
    BY <1>1, InRepliesType
  <2>3. Before(Ahead(p), InReplies(Prefix(s, n)), InReplies(Suffix(s, n)))
    BY <2>1, <2>2, BeforeReplies DEF InReplies
  <2> QED
    BY <1>2, <1>4, <2>1, <2>3 DEF RepliesSorted
<1> QED
  BY <1>1, <1>3, <1>4

(* The events of replies with one more.                                     *)
LEMMA RepliesAppend ==
  ASSUME NEW p, NEW s \in Seq(Reply), NEW r \in Reply
  PROVE  /\ InReplies(Append(s, r)) = InReplies(s) \cup ItemsOf(r.events)
         /\ RepliesSorted(p, s) /\ Sorted(Ahead(p), r.events)
              /\ Before(Ahead(p), InReplies(s), ItemsOf(r.events))
              => RepliesSorted(p, Append(s, r))
<1>1. ItemsOf(Append(s, r)) = ItemsOf(s) \cup {r}
  BY ItemsOfAppend
<1>2. InReplies(Append(s, r)) = InReplies(s) \cup ItemsOf(r.events)
  BY <1>1 DEF InReplies
<1>3. ASSUME RepliesSorted(p, s), Sorted(Ahead(p), r.events),
             Before(Ahead(p), InReplies(s), ItemsOf(r.events))
      PROVE  RepliesSorted(p, Append(s, r))
  <2>1. Before(RepliesAhead(p), ItemsOf(s), {r})
    <3>1. ItemsOf(s) \subseteq Reply
      BY InRepliesType
    <3>2. \A q \in ItemsOf(s) : Before(Ahead(p), ItemsOf(q.events), ItemsOf(r.events))
      BY <1>3 DEF Before, InReplies
    <3> QED
      BY <3>1, <3>2 DEF Before, RepliesAhead
  <2>2. Sorted(RepliesAhead(p), Append(s, r))
    BY <1>3, <2>1, SortedAppend DEF RepliesSorted
  <2> QED
    BY <1>1, <1>3, <2>2 DEF RepliesSorted
<1> QED
  BY <1>2, <1>3

(* The first item of a sequence is its first part.                          *)
LEMMA HeadIsPrefix ==
  ASSUME NEW S, NEW s \in Seq(S), s # <<>>
  PROVE  /\ 1 \in 0..Len(s) /\ Tail(s) = Suffix(s, 1) /\ ItemsOf(Prefix(s, 1)) = {Head(s)}
         /\ Head(s) \in S
<1>1. Len(s) \in Nat \ {0} /\ Head(s) = s[1] /\ Head(s) \in S
  BY EmptySeq, HeadTailProperties
<1>2. 1 \in 0..Len(s) /\ 1..1 = {1}
  BY <1>1
<1>3. Tail(s) = Suffix(s, 1)
  BY TailIsSubSeq DEF Suffix
<1>4. ItemsOf(Prefix(s, 1)) = {s[i] : i \in 1..1}
  BY <1>2, SplitItems
<1> QED
  BY <1>1, <1>2, <1>3, <1>4

(* The events of the first reply come before those of the others.           *)
LEMMA RepliesHead ==
  ASSUME NEW p, NEW s \in Seq(Reply), s # <<>>
  PROVE  /\ Head(s) \in Reply /\ Tail(s) \in Seq(Reply)
         /\ InReplies(s) = ItemsOf(Head(s).events) \cup InReplies(Tail(s))
         /\ RepliesSorted(p, s) =>
              /\ RepliesSorted(p, Tail(s)) /\ Sorted(Ahead(p), Head(s).events)
              /\ Before(Ahead(p), ItemsOf(Head(s).events), InReplies(Tail(s)))
<1>1. /\ 1 \in 0..Len(s) /\ Tail(s) = Suffix(s, 1) /\ ItemsOf(Prefix(s, 1)) = {Head(s)}
      /\ Head(s) \in Reply
  BY HeadIsPrefix
<1>2. /\ Suffix(s, 1) \in Seq(Reply)
      /\ InReplies(s) = InReplies(Prefix(s, 1)) \cup InReplies(Suffix(s, 1))
      /\ RepliesSorted(p, s) =>
           /\ RepliesSorted(p, Prefix(s, 1)) /\ RepliesSorted(p, Suffix(s, 1))
           /\ Before(Ahead(p), InReplies(Prefix(s, 1)), InReplies(Suffix(s, 1)))
  BY <1>1, RepliesSplit
<1>3. InReplies(Prefix(s, 1)) = ItemsOf(Head(s).events)
  BY <1>1 DEF InReplies
<1>4. RepliesSorted(p, Prefix(s, 1)) => Sorted(Ahead(p), Head(s).events)
  BY <1>1 DEF RepliesSorted
<1> QED
  BY <1>1, <1>2, <1>3, <1>4

(* The stages that events go through, from the last to the first: they are  *)
(* delivered (D), in replies under way (U), in the reply that is written    *)
(* (S), held until it is written (H), and queued (Q).                       *)
Chain(R, D, U, S, H, Q) ==
  /\ Before(R, D, U \cup S \cup H \cup Q) /\ Before(R, U, S \cup H \cup Q)
  /\ Before(R, S, H \cup Q) /\ Before(R, H, Q)

(* Events stay in order in their stages when some go away,                  *)
LEMMA ChainFewer ==
  ASSUME NEW R, NEW D, NEW U, NEW S, NEW H, NEW Q, Chain(R, D, U, S, H, Q),
         NEW U1, NEW S1, NEW H1, NEW Q1,
         U1 \subseteq U, S1 \subseteq S, H1 \subseteq H, Q1 \subseteq Q
  PROVE  Chain(R, D, U1, S1, H1, Q1)
BY DEF Chain, Before

(* when the first reply is delivered,                                       *)
LEMMA ChainDelivered ==
  ASSUME NEW R, NEW D, NEW U, NEW S, NEW H, NEW Q, Chain(R, D, U, S, H, Q),
         NEW D1, NEW X, NEW U1, D1 \subseteq D \cup X, X \cup U1 \subseteq U, Before(R, X, U1)
  PROVE  Chain(R, D1, U1, S, H, Q)
<1>1. Before(R, D1, U1 \cup S \cup H \cup Q)
  BY DEF Chain, Before
<1> QED
  BY <1>1 DEF Chain, Before

(* when a queue is popped,                                                  *)
LEMMA ChainPopped ==
  ASSUME NEW R, NEW D, NEW U, NEW S, NEW H, NEW Q, Chain(R, D, U, S, H, Q)
  PROVE  Chain(R, D, U, S, Q, {})
BY DEF Chain, Before

(* when the first of what was popped go into the reply,                     *)
LEMMA ChainCollected ==
  ASSUME NEW R, NEW D, NEW U, NEW S, NEW H, NEW Q, Chain(R, D, U, S, H, Q),
         NEW X, NEW H1, X \cup H1 \subseteq H, Before(R, X, H1)
  PROVE  Chain(R, D, U, S \cup X, H1, Q)
<1>1. Before(R, S \cup X, H1 \cup Q)
  BY DEF Chain, Before
<1> QED
  BY <1>1 DEF Chain, Before

(* when events come into the reply that belong to no other stage,           *)
LEMMA ChainAside ==
  ASSUME NEW R, NEW D, NEW U, NEW S, NEW H, NEW Q, Chain(R, D, U, S, H, Q),
         NEW X, Before(R, D \cup U, X), Before(R, X, H \cup Q)
  PROVE  Chain(R, D, U, S \cup X, H, Q)
BY DEF Chain, Before

(* when the reply is written and what was kept is put back,                 *)
LEMMA ChainFinished ==
  ASSUME NEW R, NEW D, NEW U, NEW S, NEW H, NEW Q, Chain(R, D, U, S, H, Q),
         NEW Q1, Q1 \subseteq H \cup Q
  PROVE  Chain(R, D, U \cup S, {}, {}, Q1)
<1>1. Before(R, D, (U \cup S) \cup {} \cup {} \cup Q1)
  BY DEF Chain, Before
<1>2. Before(R, U \cup S, {} \cup {} \cup Q1)
  BY DEF Chain, Before
<1> QED
  BY <1>1, <1>2 DEF Chain, Before

(* when an event comes into the queue,                                      *)
LEMMA ChainQueued ==
  ASSUME NEW R, NEW D, NEW U, NEW S, NEW H, NEW Q, Chain(R, D, U, S, H, Q), NEW e,
         Before(R, D \cup U \cup S \cup H, {e}), NEW Q1, Q1 \subseteq Q \cup {e}
  PROVE  Chain(R, D, U, S, H, Q1)
<1>1. Before(R, D, U \cup S \cup H \cup Q1)
  BY DEF Chain, Before
<1>2. Before(R, U, S \cup H \cup Q1)
  BY DEF Chain, Before
<1> QED
  BY <1>1, <1>2 DEF Chain, Before

(* and when one comes to what was popped.                                   *)
LEMMA ChainHeld ==
  ASSUME NEW R, NEW D, NEW U, NEW S, NEW H, NEW Q, Chain(R, D, U, S, H, Q), NEW e,
         Before(R, D \cup U \cup S, {e}), Before(R, {e}, Q), NEW H1, H1 \subseteq H \cup {e}
  PROVE  Chain(R, D, U, S, H1, Q)
<1>1. Before(R, D, U \cup S \cup H1 \cup Q)
  BY DEF Chain, Before
<1>2. Before(R, U, S \cup H1 \cup Q)
  BY DEF Chain, Before
<1> QED
  BY <1>1, <1>2 DEF Chain, Before

(* Where the events of a pattern are.                                       *)
Buffer == conn["events"].buffer
Wire == conn["events"].replies
UnderWay == InReplies(Buffer) \cup InReplies(Wire)
InPoll == IF serving = NotServing THEN {} ELSE ItemsOf(serving.events)
KeptIn(p) == UNION {ItemsOf(k.events) : k \in KeptFor(p)}
Popped(p) == IF serving.at = p THEN ItemsOf(serving.popped) ELSE {}
Held(p) == IF serving = NotServing THEN {} ELSE KeptIn(p) \cup Popped(p)
Queued(p) == ItemsOf(queue[p])
Reached(p) == ItemsOf(delivered[p]) \cup UnderWay \cup InPoll \cup Held(p) \cup Queued(p)

Pending(b) == publishing[b] # Quiet
Matching(p) == {e \in Event : e.topic \in Matches(p)}

(* Events are where they match.                                             *)
PendingOk == \A b \in Publisher : Pending(b) =>
  /\ publishing[b].event.by = b /\ publishing[b].at \in publishing[b].left \cup {None}
  /\ \A p \in publishing[b].left : publishing[b].event \in Matching(p)
Topics ==
  /\ \A p \in Pattern :
       ItemsOf(delivered[p]) \cup Held(p) \cup Queued(p) \cup ItemsOf(appended[p])
         \subseteq Matching(p)
  /\ PendingOk

(* The server has not got yet to the patterns that are left.                *)
Serves == serving # NotServing =>
  /\ serving.at \in serving.left \cup {None}
  /\ \A k \in ItemsOf(serving.kept) : k.pattern \notin serving.left
  /\ \A k, m \in ItemsOf(serving.kept) : k.pattern = m.pattern => k = m

(* Who appends to a queue that was popped has nothing in the new one.       *)
Popping == \A b \in Publisher :
  Pending(b) /\ publishing[b].at # None /\ publishing[b].to = "popped" /\ conn["events"].up =>
    /\ serving # NotServing /\ serving.at = publishing[b].at
    /\ \A e \in Queued(serving.at) : e.by # b

(* Events are numbered as they are published.                               *)
Numbered == \E n \in 0..MaxEvents : Published = 1..n
Numbers == Numbered /\ \A p \in Pattern : \A e \in Reached(p) : e.number \in Published

Ordered(p) ==
  /\ Chain(Ahead(p), ItemsOf(delivered[p]), UnderWay, InPoll, Held(p), Queued(p))
  /\ Sorted(Ahead(p), delivered[p]) /\ Sorted(Ahead(p), queue[p])
  /\ RepliesSorted(p, Buffer) /\ RepliesSorted(p, Wire)
  /\ Before(Ahead(p), InReplies(Buffer), InReplies(Wire))
  /\ serving # NotServing =>
       /\ Sorted(Ahead(p), serving.events)
       /\ serving.at = p => Sorted(Ahead(p), serving.popped)
       /\ \A k \in KeptFor(p) : Sorted(Ahead(p), k.events)

(* An event comes after everything that its publisher has published before. *)
Fresh(p) == \A b \in Publisher :
  Pending(b) /\ p \in publishing[b].left => Before(Ahead(p), Reached(p), {publishing[b].event})

OrderInv ==
  /\ Topics /\ Serves /\ Popping /\ Numbers
  /\ \A p \in Pattern : Apart(p) => Ordered(p) /\ Fresh(p)

(* Events in order are in the order that is promised.                       *)
LEMMA OrderFollows == EventsType /\ OrderInv => InOrder
<1> SUFFICES ASSUME EventsType, OrderInv, NEW p \in Pattern, Apart(p),
                    NEW i \in DOMAIN delivered[p], NEW k \in DOMAIN delivered[p], i < k
             PROVE  /\ delivered[p][i] # delivered[p][k]
                    /\ delivered[p][i].by = delivered[p][k].by =>
                         delivered[p][i].number < delivered[p][k].number
  BY DEF InOrder
<1> DEFINE x == delivered[p][i]
           y == delivered[p][k]
<1>1. x \in Matching(p) /\ y \in Matching(p)
  BY DEF OrderInv, Topics, ItemsOf
<1>2. <<x, y>> \in Ahead(p)
  BY DEF OrderInv, Ordered, Sorted
<1> HIDE DEF x, y
<1>3. x.by = y.by => x.number < y.number
  BY <1>1, <1>2 DEF Ahead, Matching
<1>4. x.number \in Nat
  BY <1>1 DEF Matching, Event
<1>5. x # y
  BY <1>3, <1>4
<1> QED
  BY <1>3, <1>5 DEF x, y

(* What is where has its type.                                              *)
LEMMA WhereTypes ==
  ASSUME CallsType, EventsType
  PROVE  /\ Buffer \in Seq(Reply) /\ Wire \in Seq(Reply)
         /\ UnderWay \subseteq Event /\ InPoll \subseteq Event
         /\ \A p \in Pattern :
              /\ Held(p) \subseteq Event /\ Queued(p) \subseteq Event /\ queue[p] \in Seq(Event)
              /\ delivered[p] \in Seq(Event) /\ ItemsOf(delivered[p]) \subseteq Event
              /\ appended[p] \in Seq(Event)
         /\ serving # NotServing =>
              /\ serving \in Serving /\ serving.popped \in Seq(Event)
              /\ serving.events \in Seq(Event)
              /\ serving.kept \in Seq([pattern : Pattern, events : Seq(Event)])
              /\ ItemsOf(serving.kept) \subseteq [pattern : Pattern, events : Seq(Event)]
<1>1. Buffer \in Seq(Reply) /\ Wire \in Seq(Reply)
  BY ConnFields DEF Buffer, Wire, Conn
<1>2. UnderWay \subseteq Event
  BY <1>1, InRepliesType DEF UnderWay
<1>3. ASSUME serving # NotServing
      PROVE  /\ serving \in Serving /\ serving.popped \in Seq(Event)
             /\ serving.events \in Seq(Event)
             /\ serving.kept \in Seq([pattern : Pattern, events : Seq(Event)])
  BY <1>3 DEF EventsType, Serving
<1> DEFINE Rest == [pattern : Pattern, events : Seq(Event)]
<1>4. serving # NotServing => ItemsOf(serving.kept) \subseteq Rest
  <2>1. serving # NotServing => serving.kept \in Seq(Rest)
    BY <1>3
  <2> HIDE DEF Rest
  <2> QED
    BY <2>1, ItemsType
<1>5. InPoll \subseteq Event
  BY <1>3, ItemsType DEF InPoll
<1>6. ASSUME NEW p \in Pattern
      PROVE  /\ Held(p) \subseteq Event /\ Queued(p) \subseteq Event /\ queue[p] \in Seq(Event)
             /\ delivered[p] \in Seq(Event) /\ ItemsOf(delivered[p]) \subseteq Event
             /\ appended[p] \in Seq(Event)
  <2>1. queue[p] \in Seq(Event) /\ delivered[p] \in Seq(Event) /\ appended[p] \in Seq(Event)
    BY DEF EventsType
  <2>2. Queued(p) \subseteq Event /\ ItemsOf(delivered[p]) \subseteq Event
    BY <2>1, ItemsType DEF Queued
  <2>3. Held(p) \subseteq Event
    <3>1. CASE serving = NotServing
      BY <3>1 DEF Held
    <3>2. CASE serving # NotServing
      <4>1. Popped(p) \subseteq Event
        BY <1>3, <3>2, ItemsType DEF Popped
      <4>2. \A k \in Rest : ItemsOf(k.events) \subseteq Event
        BY ItemsType
      <4>3. KeptIn(p) \subseteq Event
        BY <1>4, <3>2, <4>2 DEF KeptIn, KeptFor
      <4> QED
        BY <4>1, <4>3 DEF Held
    <3> QED
      BY <3>1, <3>2
  <2> QED
    BY <2>1, <2>2, <2>3
<1> QED
  BY <1>1, <1>2, <1>3, <1>4, <1>5, <1>6

(* Events of other patterns are ahead of nothing and after nothing.         *)
LEMMA ApartBefore ==
  ASSUME NEW p \in Pattern, NEW q \in Pattern, p # q, Apart(p),
         NEW A \in SUBSET Event, NEW B \in SUBSET Matching(q)
  PROVE  Before(Ahead(p), A, B) /\ Before(Ahead(p), B, A)
<1>1. \A e \in B : e \in Event /\ e.topic \notin Matches(p)
  BY DEF Apart, Matching
<1> QED
  BY <1>1 DEF Before, Ahead

(* The same events in the order of another pattern.                         *)
LEMMA ApartSorted ==
  ASSUME NEW p \in Pattern, NEW q \in Pattern, p # q, Apart(p),
         NEW s \in Seq(Event), ItemsOf(s) \subseteq Matching(q)
  PROVE  Sorted(Ahead(p), s)
<1>1. \A e \in ItemsOf(s) : e \in Event /\ e.topic \notin Matches(p)
  BY DEF Apart, Matching
<1>2. \A i \in DOMAIN s : s[i] \in ItemsOf(s)
  BY DEF ItemsOf
<1> QED
  BY <1>1, <1>2 DEF Sorted, Ahead

-----------------------------------------------------------------------------
(* Steps of a thread.                                                       *)

(* What a thread does to the replies with events:  nothing, but for the one *)
(* that polls, which loses what is in the buffer, reads what is on the      *)
(* wire, puts a reply aside or gives its events to callbacks.               *)
Moves ==
  \/ /\ delivered' = delivered
     /\ \/ Buffer' \in {Buffer, <<>>} /\ Wire' = Wire
        \/ Buffer # <<>> /\ Buffer' = Tail(Buffer) /\ Wire' = Wire
        \/ \E n \in 0..Len(Wire) :
             Buffer = <<>> /\ Buffer' = Prefix(Wire, n) /\ Wire' = Suffix(Wire, n)
  \/ /\ Buffer # <<>> /\ Buffer' = Tail(Buffer) /\ Wire' = Wire
     /\ Dispatch(Poller, Head(Buffer))

(* Every step of a thread does one of these.                                *)
LEMMA ThreadMoves ==
  ASSUME CallsType, NEW t \in Thread, ThreadStep(t)
  PROVE  Moves
<1>1. ~Drain(t) => delivered' = delivered
  BY ThreadLeaves
<1>2. CASE t # Poller
  <2>1. ConnOf(t) = "shared"
    BY <1>2 DEF ConnOf
  <2>2. OnlyConn(ConnOf(t))
    BY SendEffect, AcquireEffect, DrainEffect, DrainGarbledEffect, ReceiveEffect, GivesUpEffect
       DEF ThreadStep, Sends, Drains, Receives, Ended
  <2>3. Buffer' = Buffer /\ Wire' = Wire
    BY <2>1, <2>2 DEF OnlyConn, Conn, Buffer, Wire
  <2>4. CASE Drain(t)
    <3>1. Drains(t)
      BY <2>4, DrainEffect
    <3>2. delivered' = delivered
      BY <1>2, <3>1 DEF Drains, Dispatch
    <3> QED
      BY <2>3, <3>2 DEF Moves
  <2> QED
    BY <1>1, <2>3, <2>4 DEF Moves
<1>3. CASE t = Poller
  <2>1. ConnOf(t) = "events"
    BY <1>3 DEF ConnOf
  <2> DEFINE k == conn["events"]
  <2>2. CASE Send(t)
    <3>1. Sends(t) /\ delivered' = delivered
      BY <1>1, <2>2, SendEffect DEF Send
    <3>2. Buffer' \in {Buffer, <<>>} /\ Wire' = Wire
      BY <2>1, <3>1 DEF Sends, Stands, Buffer, Wire
    <3> QED
      BY <3>1, <3>2 DEF Moves
  <2>3. CASE Acquire(t)
    BY <2>1, <2>3, AcquireEffect DEF Acquire, Stands, Buffer, Wire, Moves
  <2>4. CASE Drain(t)
    <3>1. Drains(t) /\ Buffer # <<>>
      BY <2>1, <2>4, DrainEffect DEF Buffer
    <3>2. Buffer' = Tail(Buffer) /\ Wire' = Wire
      BY <2>1, <3>1 DEF Drains, Stands, Buffer, Wire
    <3>3. Dispatch(Poller, Head(Buffer)) \/ delivered' = delivered
      BY <1>3, <2>1, <3>1 DEF Drains, Buffer
    <3> QED
      BY <3>1, <3>2, <3>3 DEF Moves
  <2>5. CASE Receive(t)
    <3>1. Receives(t) /\ Buffer = <<>> /\ delivered' = delivered
      BY <2>1, <2>5, ReceiveEffect DEF Buffer, Receive
    <3>2. CASE \E n \in 1..Len(k.replies) :
                 Stands(conn'["events"], k.sock, k.up, k.requests, Suffix(k.replies, n),
                        Prefix(k.replies, n), k.stash)
      <4>1. PICK n \in 1..Len(Wire) : Buffer' = Prefix(Wire, n) /\ Wire' = Suffix(Wire, n)
        BY <3>2 DEF Stands, Buffer, Wire
      <4>2. n \in 0..Len(Wire)
        BY <4>1, ConnFields, LenProperties DEF Wire, Conn
      <4> QED
        BY <3>1, <4>1, <4>2 DEF Moves
    <3>3. CASE Stands(conn'["events"], FALSE, k.up, k.requests, k.replies, k.buffer, k.stash)
      BY <3>1, <3>3 DEF Stands, Buffer, Wire, Moves
    <3> QED
      BY <2>1, <3>1, <3>2, <3>3 DEF Receives
  <2>6. CASE Crash(t) \/ TimeOut(t)
    <3>1. delivered' = delivered
      BY <2>6 DEF Crash, TimeOut
    <3> QED
      BY <2>1, <2>6, <3>1, GivesUpEffect DEF Stands, Buffer, Wire, Moves
  <2>7. CASE DrainGarbled(t)
    BY <2>1, <2>7, DrainGarbledEffect DEF Stands, Buffer, Wire, Moves
  <2> QED
    BY <2>2, <2>3, <2>4, <2>5, <2>6, <2>7 DEF ThreadStep
<1> QED
  BY <1>2, <1>3

-----------------------------------------------------------------------------
(* Steps that publish nothing.                                              *)

(* The events that are published stay the same.                             *)
KeepsPending ==
  /\ appended' = appended
  /\ \A b \in Publisher :
       /\ Pending(b)' <=> Pending(b)
       /\ Pending(b) => /\ publishing'[b].event = publishing[b].event
                        /\ publishing'[b].left = publishing[b].left
                        /\ publishing'[b].at = publishing[b].at

(* Steps that leave the publishers alone.                                   *)
LEMMA SamePending ==
  ASSUME UNCHANGED busVars
  PROVE  KeepsPending
BY DEF busVars, KeepsPending, Pending

(* A publisher that is redirected has the same event.                       *)
LEMMA RedirectsPending ==
  ASSUME NEW T, NEW to, Redirects(T, to), appended' = appended
  PROVE  KeepsPending
BY DEF Redirects, KeepsPending, Pending

(* The numbers stay the same.                                               *)
LEMMA SamePublished ==
  ASSUME appended' = appended,
         \A b \in Publisher :
           /\ Pending(b)' <=> Pending(b)
           /\ Pending(b) => publishing'[b].event = publishing[b].event
  PROVE  Published' = Published
<1> DEFINE B == {x \in Publisher : Pending(x)}
<1>1. B' = B
  OBVIOUS
<1>2. {publishing'[b].event.number : b \in B} = {publishing[b].event.number : b \in B}
  OBVIOUS
<1> DEFINE A(a) == {e.number : e \in UNION {ItemsOf(a[p]) : p \in Pattern}}
<1>3. /\ Published = A(appended) \cup {publishing[b].event.number : b \in B}
      /\ Published' = A(appended') \cup {publishing'[b].event.number : b \in B'}
  BY DEF Published, Pending
<1> HIDE DEF A, B
<1> QED
  BY <1>1, <1>2, <1>3

(* Nothing is reached anew, but by events of other patterns.                *)
NothingNew == \A p \in Pattern : \A e \in Reached(p)' :
  /\ \E q \in Pattern : e \in Reached(q)
  /\ Apart(p) => e \in Reached(p) \/ e \in Event \ Matching(p)

(* After a step that publishes nothing and brings up nothing new, what is   *)
(* in order stays in order.                                                 *)
LEMMA QuietOrder ==
  ASSUME EventsType, EventsType', OrderInv, KeepsPending, NothingNew,
         \A p \in Pattern :
           ItemsOf(delivered[p])' \cup Held(p)' \cup Queued(p)' \subseteq Matching(p),
         Serves', Popping', \A p \in Pattern : Apart(p) => Ordered(p)'
  PROVE  OrderInv'
<1>1. Published' = Published
  BY SamePublished DEF KeepsPending
<1>2. Numbers'
  BY <1>1 DEF NothingNew, OrderInv, Numbers, Numbered
<1>3. PendingOk'
  BY DEF OrderInv, Topics, PendingOk, KeepsPending
<1>4. Topics'
  <2>1. \A p \in Pattern : ItemsOf(appended'[p]) \subseteq Matching(p)
    BY DEF OrderInv, Topics, KeepsPending
  <2> QED
    BY <1>3, <2>1 DEF Topics, Matching
<1>5. ASSUME NEW p \in Pattern, Apart(p) PROVE Fresh(p)'
  <2> SUFFICES ASSUME NEW b \in Publisher, Pending(b)', p \in publishing'[b].left,
                      NEW e \in Reached(p)'
               PROVE  <<e, publishing'[b].event>> \in Ahead(p)
    BY DEF Fresh, Before, Ahead
  <2>1. /\ Pending(b) /\ p \in publishing[b].left
        /\ publishing'[b].event = publishing[b].event
    BY DEF KeepsPending
  <2>2. publishing[b].event \in Event
    BY <2>1 DEF EventsType, Publishing, Pending
  <2>3. CASE e \in Reached(p)
    BY <1>5, <2>1, <2>3 DEF OrderInv, Fresh, Before
  <2>4. CASE e \in Event \ Matching(p)
    BY <2>1, <2>2, <2>4 DEF Ahead, Matching
  <2> QED
    BY <1>5, <2>3, <2>4 DEF NothingNew
<1> QED
  BY <1>2, <1>4, <1>5 DEF OrderInv, Apart

(* What happens to the replies under way.                                   *)
LineOk(p) ==
  /\ RepliesSorted(p, Buffer) /\ RepliesSorted(p, Wire)
  /\ Before(Ahead(p), InReplies(Buffer), InReplies(Wire))

(* Replies that move on stay in order, and one that is delivered was before *)
(* the others.                                                              *)
LEMMA MovesLine ==
  ASSUME CallsType, Moves, NEW p
  PROVE  /\ UnderWay' \subseteq UnderWay /\ (LineOk(p) => LineOk(p)')
         /\ \/ delivered' = delivered
            \/ /\ Dispatch(Poller, Head(Buffer)) /\ Head(Buffer) \in Reply
               /\ ItemsOf(Head(Buffer).events) \cup UnderWay' \subseteq UnderWay
               /\ LineOk(p) => /\ Before(Ahead(p), ItemsOf(Head(Buffer).events), UnderWay')
                               /\ Sorted(Ahead(p), Head(Buffer).events)
<1>1. Buffer \in Seq(Reply) /\ Wire \in Seq(Reply)
  BY ConnFields DEF Buffer, Wire, Conn
<1>2. CASE Buffer' \in {Buffer, <<>>} /\ Wire' = Wire /\ delivered' = delivered
  <2>1. InReplies(Buffer)' \subseteq InReplies(Buffer) /\ InReplies(Wire)' = InReplies(Wire)
    BY <1>2, InRepliesEmpty
  <2>2. LineOk(p) => LineOk(p)'
    BY <1>2, <2>1, InRepliesEmpty DEF LineOk, Before
  <2> QED
    BY <1>2, <2>1, <2>2 DEF UnderWay
<1>3. CASE Buffer # <<>> /\ Buffer' = Tail(Buffer) /\ Wire' = Wire
           /\ (delivered' = delivered \/ Dispatch(Poller, Head(Buffer)))
  <2> DEFINE X == ItemsOf(Head(Buffer).events)
  <2>1. /\ Head(Buffer) \in Reply
        /\ InReplies(Buffer) = X \cup InReplies(Tail(Buffer))
        /\ RepliesSorted(p, Buffer) =>
             /\ RepliesSorted(p, Tail(Buffer)) /\ Sorted(Ahead(p), Head(Buffer).events)
             /\ Before(Ahead(p), X, InReplies(Tail(Buffer)))
    BY <1>1, <1>3, RepliesHead
  <2>2. /\ InReplies(Buffer)' = InReplies(Tail(Buffer)) /\ InReplies(Wire)' = InReplies(Wire)
        /\ X \cup UnderWay' \subseteq UnderWay
    BY <1>3, <2>1 DEF UnderWay
  <2> HIDE DEF X
  <2>3. ASSUME LineOk(p)
        PROVE  LineOk(p)' /\ Before(Ahead(p), X, UnderWay') /\ Sorted(Ahead(p), Head(Buffer).events)
    <3>1. Before(Ahead(p), X \cup InReplies(Tail(Buffer)), InReplies(Wire))
      BY <2>1, <2>3 DEF LineOk
    <3>2. LineOk(p)'
      BY <1>3, <2>1, <2>2, <2>3, <3>1 DEF LineOk, Before
    <3>3. UnderWay' = InReplies(Tail(Buffer)) \cup InReplies(Wire)
      BY <2>2 DEF UnderWay
    <3>4. Before(Ahead(p), X, UnderWay')
      BY <2>1, <2>3, <3>1, <3>3 DEF LineOk, Before
    <3> QED
      BY <2>1, <2>3, <3>2, <3>4 DEF LineOk
  <2> QED
    BY <1>3, <2>1, <2>2, <2>3 DEF X
<1>4. ASSUME NEW n \in 0..Len(Wire), delivered' = delivered,
             Buffer = <<>>, Buffer' = Prefix(Wire, n), Wire' = Suffix(Wire, n)
      PROVE  UnderWay' \subseteq UnderWay /\ (LineOk(p) => LineOk(p)')
  <2>1. /\ InReplies(Wire) = InReplies(Prefix(Wire, n)) \cup InReplies(Suffix(Wire, n))
        /\ RepliesSorted(p, Wire) =>
             /\ RepliesSorted(p, Prefix(Wire, n)) /\ RepliesSorted(p, Suffix(Wire, n))
             /\ Before(Ahead(p), InReplies(Prefix(Wire, n)), InReplies(Suffix(Wire, n)))
    BY <1>1, RepliesSplit
  <2>2. /\ InReplies(Buffer)' = InReplies(Prefix(Wire, n))
        /\ InReplies(Wire)' = InReplies(Suffix(Wire, n))
    BY <1>4
  <2> QED
    BY <1>4, <2>1, <2>2 DEF UnderWay, LineOk
<1> QED
  BY <1>2, <1>3, <1>4 DEF Moves

(* What is held, where the poll stays the same.                             *)
LEMMA SameServing ==
  ASSUME serving' = serving
  PROVE  \A p : KeptFor(p)' = KeptFor(p) /\ Held(p)' = Held(p) /\ InPoll' = InPoll
BY DEF KeptFor, Held, KeptIn, Popped, InPoll

(* The order is preserved by steps of a thread.                             *)
LEMMA MovesOrder ==
  ASSUME CallsType, EventsType, CallsType', EventsType', OrderInv, Moves,
         UNCHANGED <<queue, serving, busVars>>, conn'["events"].up = conn["events"].up
  PROVE  OrderInv'
<1>1. KeepsPending
  BY SamePending
<1>2. Serves' /\ Popping'
  BY DEF OrderInv, Serves, Popping, busVars, Pending, Queued
<1>3. \A p \in Pattern :
        /\ Held(p)' = Held(p) /\ InPoll' = InPoll /\ Queued(p)' = Queued(p)
        /\ KeptFor(p)' = KeptFor(p)
  BY SameServing DEF Queued
<1>4. ASSUME NEW p \in Pattern
      PROVE  /\ ItemsOf(delivered'[p]) \subseteq Matching(p)
             /\ ItemsOf(delivered'[p]) \cup UnderWay' \subseteq ItemsOf(delivered[p]) \cup UnderWay
             /\ Ordered(p) => Ordered(p)'
  <2>1. UnderWay' \subseteq UnderWay /\ (LineOk(p) => LineOk(p)')
    BY MovesLine
  <2>2. CASE delivered' = delivered
    <3>1. ItemsOf(delivered'[p]) \subseteq Matching(p)
      BY <2>2 DEF OrderInv, Topics
    <3>2. ASSUME Ordered(p) PROVE Ordered(p)'
      <4>1. Chain(Ahead(p), ItemsOf(delivered[p]), UnderWay', InPoll, Held(p), Queued(p))
        BY <2>1, <3>2, ChainFewer DEF Ordered
      <4> QED
        BY <1>3, <2>1, <2>2, <3>2, <4>1 DEF Ordered, LineOk, Ahead
    <3> QED
      BY <2>1, <2>2, <3>1, <3>2
  <2>3. ASSUME Dispatch(Poller, Head(Buffer)), Head(Buffer) \in Reply,
               ItemsOf(Head(Buffer).events) \cup UnderWay' \subseteq UnderWay,
               LineOk(p) => /\ Before(Ahead(p), ItemsOf(Head(Buffer).events), UnderWay')
                            /\ Sorted(Ahead(p), Head(Buffer).events)
        PROVE  /\ ItemsOf(delivered'[p]) \subseteq Matching(p)
               /\ ItemsOf(delivered'[p]) \subseteq ItemsOf(delivered[p]) \cup UnderWay
               /\ Ordered(p) => Ordered(p)'
    <3> DEFINE r == Head(Buffer)
               X == EventsFor(p, r.events)
    <3>1. Poller \in Thread /\ r.events \in Seq(Event) /\ delivered[p] \in Seq(Event)
      BY <2>3, ReplyId DEF Thread, EventsType
    <3>2. delivered'[p] = delivered[p] \o X \/ delivered'[p] = delivered[p]
      BY <2>3, <3>1, DispatchEffect
    <3>3. /\ X \in Seq(Event)
          /\ ItemsOf(X) = {e \in ItemsOf(r.events) : e.topic \in Matches(p)}
          /\ Sorted(Ahead(p), r.events) => Sorted(Ahead(p), X)
      BY <3>1, EventsForFacts
    <3>4. ItemsOf(X) \subseteq Matching(p)
      BY <3>1, <3>3, ItemsType DEF Matching
    <3>5. ItemsOf(delivered[p] \o X) = ItemsOf(delivered[p]) \cup ItemsOf(X)
      BY <3>1, <3>3, ItemsOfConcat
    <3>6. ItemsOf(X) \subseteq ItemsOf(r.events)
      BY <3>3
    <3> HIDE DEF X
    <3>7. /\ ItemsOf(delivered'[p]) \subseteq ItemsOf(delivered[p]) \cup ItemsOf(X)
          /\ ItemsOf(X) \subseteq UnderWay
      BY <2>3, <3>2, <3>5, <3>6
    <3>8. ItemsOf(delivered'[p]) \subseteq Matching(p)
      BY <3>4, <3>7 DEF OrderInv, Topics
    <3>9. ASSUME Ordered(p) PROVE Ordered(p)'
      <4>1. LineOk(p) /\ LineOk(p)'
        BY <2>1, <3>9 DEF Ordered, LineOk
      <4>2. Before(Ahead(p), ItemsOf(X), UnderWay')
        BY <2>3, <3>6, <4>1 DEF Before
      <4>3. Chain(Ahead(p), ItemsOf(delivered'[p]), UnderWay', InPoll, Held(p), Queued(p))
        <5>1. Chain(Ahead(p), ItemsOf(delivered[p]), UnderWay, InPoll, Held(p), Queued(p))
          BY <3>9 DEF Ordered
        <5>2. ItemsOf(X) \cup UnderWay' \subseteq UnderWay
          BY <2>3, <3>7
        <5> HIDE DEF r
        <5> QED
          BY <3>7, <4>2, <5>1, <5>2, ChainDelivered
      <4>4. Sorted(Ahead(p), delivered[p] \o X)
        <5>1. Before(Ahead(p), ItemsOf(delivered[p]), ItemsOf(X))
          BY <3>7, <3>9 DEF Ordered, Chain, Before
        <5>2. Sorted(Ahead(p), delivered[p]) /\ Sorted(Ahead(p), X)
          BY <2>3, <3>3, <3>9, <4>1 DEF Ordered
        <5> QED
          BY <3>1, <3>3, <5>1, <5>2, SortedConcat
      <4>5. Sorted(Ahead(p), delivered'[p])
        BY <3>2, <3>9, <4>4 DEF Ordered
      <4> QED
        BY <1>3, <3>9, <4>1, <4>3, <4>5 DEF Ordered, LineOk, Ahead
    <3> QED
      BY <2>3, <3>7, <3>8, <3>9
  <2> QED
    BY <2>1, <2>2, <2>3, MovesLine
<1>5. \A p \in Pattern : Reached(p)' \subseteq Reached(p)
  BY <1>3, <1>4 DEF Reached
<1>6. NothingNew
  BY <1>5 DEF NothingNew
<1>7. \A p \in Pattern :
        ItemsOf(delivered[p])' \cup Held(p)' \cup Queued(p)' \subseteq Matching(p)
  BY <1>3, <1>4 DEF OrderInv, Topics
<1>8. \A p \in Pattern : Apart(p) => Ordered(p)'
  BY <1>4 DEF OrderInv
<1> QED
  BY <1>1, <1>2, <1>6, <1>7, <1>8, QuietOrder

(* A connection that ends.                                                  *)
LEMMA CutOrder ==
  ASSUME CallsType, EventsType, CallsType', EventsType', OrderInv, NEW c \in Conn,
         Close(c) \/ Hangup(c)
  PROVE  OrderInv'
<1>1. /\ Cuts(c) /\ UNCHANGED <<clientVars, busVars>>
      /\ queue' = IF c = "events" THEN [p \in Pattern |-> <<>>] ELSE queue
      /\ serving' = IF c = "events" THEN NotServing ELSE serving
  BY CutEffect DEF Close, Hangup
<1>2. CASE c = "shared"
  <2>1. conn'["events"] = conn["events"]
    BY <1>1, <1>2 DEF Cuts, OnlyConn, Conn
  <2>2. Moves
    BY <1>1, <2>1 DEF Moves, Buffer, Wire, clientVars
  <2> QED
    BY <1>1, <1>2, <2>1, <2>2, MovesOrder
<1>3. CASE c = "events"
  <2>1. /\ queue' = [p \in Pattern |-> <<>>] /\ serving' = NotServing /\ delivered' = delivered
        /\ KeepsPending
    BY <1>1, <1>3, SamePending DEF clientVars
  <2>2. ~conn'["events"].up
    BY <1>1, <1>3 DEF Cuts, Stands
  <2>3. Serves' /\ Popping'
    BY <2>1, <2>2 DEF Serves, Popping
  <2>4. /\ InPoll' = {}
        /\ \A p \in Pattern : Held(p)' = {} /\ Queued(p)' = {}
    BY <2>1, ItemsOfEmpty DEF InPoll, Held, Queued
  <2>5. /\ UnderWay' \subseteq UnderWay
        /\ \A p \in Pattern : LineOk(p) => LineOk(p)'
    <3>1. CASE Buffer' = <<>> /\ Wire' = <<>>
      BY <3>1, InRepliesEmpty DEF UnderWay, LineOk, Before
    <3>2. ASSUME NEW n \in 0..Len(Wire), Buffer' = Buffer, Wire' = Prefix(Wire, n)
          PROVE  /\ UnderWay' \subseteq UnderWay
                 /\ \A p \in Pattern : LineOk(p) => LineOk(p)'
      <4>1. Wire \in Seq(Reply)
        BY WhereTypes
      <4>2. ASSUME NEW p \in Pattern
            PROVE  /\ InReplies(Wire) = InReplies(Prefix(Wire, n)) \cup InReplies(Suffix(Wire, n))
                   /\ RepliesSorted(p, Wire) => RepliesSorted(p, Prefix(Wire, n))
        BY <4>1, RepliesSplit
      <4>3. InReplies(Wire) = InReplies(Prefix(Wire, n)) \cup InReplies(Suffix(Wire, n))
        BY <4>1, RepliesSplit
      <4>4. InReplies(Wire)' \subseteq InReplies(Wire) /\ InReplies(Buffer)' = InReplies(Buffer)
        BY <3>2, <4>3
      <4>5. \A p \in Pattern : LineOk(p) => LineOk(p)'
        BY <3>2, <4>2, <4>4 DEF LineOk, Before
      <4> QED
        BY <4>4, <4>5 DEF UnderWay
    <3> QED
      BY <1>1, <1>3, <3>1, <3>2 DEF Cuts, Stands, Buffer, Wire
  <2>6. ASSUME NEW p \in Pattern, Ordered(p) PROVE Ordered(p)'
    <3>1. Chain(Ahead(p), ItemsOf(delivered[p]), UnderWay', {}, {}, {})
      BY <2>5, <2>6, ChainFewer DEF Ordered
    <3>2. LineOk(p)' /\ Sorted(Ahead(p), queue'[p])
      BY <2>1, <2>5, <2>6, ItemsOfEmpty DEF Ordered, LineOk
    <3> QED
      BY <2>1, <2>4, <2>6, <3>1, <3>2 DEF Ordered, LineOk, Ahead
  <2>7. NothingNew
    BY <2>1, <2>4, <2>5 DEF NothingNew, Reached
  <2>8. \A p \in Pattern :
          ItemsOf(delivered[p])' \cup Held(p)' \cup Queued(p)' \subseteq Matching(p)
    BY <2>1, <2>4 DEF OrderInv, Topics
  <2>9. \A p \in Pattern : Apart(p) => Ordered(p)'
    BY <2>6 DEF OrderInv
  <2> QED
    BY <2>1, <2>3, <2>7, <2>8, <2>9, QuietOrder
<1> QED
  BY <1>2, <1>3 DEF Conn

(* A poll begins.                                                           *)
LEMMA StartOrder ==
  ASSUME CallsType, SendType, EventsType, CallsType', EventsType', OrderInv, StartPoll
  PROVE  OrderInv'
<1>1. /\ UNCHANGED <<clientVars, queue, busVars>> /\ Buffer' = Buffer /\ Wire' = Wire
      /\ serving = NotServing /\ serving' \in Serving /\ serving'.at = None
      /\ serving'.popped = <<>> /\ serving'.events = <<>> /\ serving'.kept = <<>>
  BY StartPollEffect DEF StartPoll, Stands, Buffer, Wire
<1>2. delivered' = delivered /\ KeepsPending /\ serving' # NotServing
  BY <1>1, SamePending, Notserving DEF clientVars
<1>3. ItemsOf(serving'.kept) = {} /\ ItemsOf(serving'.events) = {}
  BY <1>1, ItemsOfEmpty
<1>4. /\ InPoll = {} /\ InPoll' = {} /\ UnderWay' = UnderWay
      /\ \A p \in Pattern : /\ KeptFor(p)' = {} /\ Held(p) = {} /\ Held(p)' = {}
                            /\ Queued(p)' = Queued(p)
  BY <1>1, <1>2, <1>3, TransportAssumption
     DEF InPoll, KeptFor, KeptIn, Popped, Held, Queued, UnderWay
<1>5. Serves'
  BY <1>1, <1>3 DEF Serves
<1>6. Popping'
  <2>1. conn'["events"].up = conn["events"].up
    BY StartPollEffect DEF Stands
  <2> QED
    BY <1>1, <2>1 DEF OrderInv, Popping, busVars, Pending
<1>7. ASSUME NEW p \in Pattern, Ordered(p) PROVE Ordered(p)'
  <2>1. Sorted(Ahead(p), serving'.events) /\ Sorted(Ahead(p), serving'.popped)
    BY <1>1, ItemsOfEmpty
  <2> QED
    BY <1>1, <1>2, <1>4, <1>7, <2>1 DEF Ordered, Ahead
<1>8. NothingNew
  BY <1>2, <1>4 DEF NothingNew, Reached
<1>9. \A p \in Pattern :
        ItemsOf(delivered[p])' \cup Held(p)' \cup Queued(p)' \subseteq Matching(p)
  BY <1>2, <1>4 DEF OrderInv, Topics
<1>10. \A p \in Pattern : Apart(p) => Ordered(p)'
  BY <1>7 DEF OrderInv
<1> QED
  BY <1>2, <1>5, <1>6, <1>8, <1>9, <1>10, QuietOrder

(* A queue is popped.                                                       *)
LEMMA PopWhere ==
  ASSUME CallsType, EventsType, Serves, NEW q \in Pattern, Pop(q)
  PROVE  /\ queue'[q] = <<>> /\ \A p \in Pattern \ {q} : queue'[p] = queue[p]
         /\ serving # NotServing /\ serving' # NotServing
         /\ InPoll' = InPoll /\ KeptFor(q) = {} /\ \A p \in Pattern : KeptFor(p)' = KeptFor(p)
         /\ \A p \in Pattern \ {q} : Held(p)' = Held(p) /\ Queued(p)' = Queued(p)
         /\ Held(q) = {} /\ Held(q)' = Queued(q) /\ Queued(q)' = {}
<1>1. /\ serving \in Serving /\ q \in serving.left /\ serving.at = None
      /\ serving' \in Serving /\ serving'.at = q /\ serving'.popped = queue[q]
      /\ serving'.events = serving.events /\ serving'.kept = serving.kept
      /\ queue' = [queue EXCEPT ![q] = <<>>]
  BY PopEffect
<1>2. serving # NotServing /\ serving' # NotServing
  BY <1>1, Notserving
<1>3. queue'[q] = <<>> /\ \A p \in Pattern \ {q} : queue'[p] = queue[p]
  BY <1>1 DEF EventsType
<1>4. InPoll' = InPoll /\ \A p \in Pattern : KeptFor(p)' = KeptFor(p)
  BY <1>1, <1>2 DEF InPoll, KeptFor
<1>5. KeptFor(q) = {}
  BY <1>1, <1>2 DEF Serves, KeptFor
<1>6. \A p \in Pattern : Held(p) = KeptIn(p) /\ KeptIn(p)' = KeptIn(p)
  BY <1>1, <1>2, <1>4, TransportAssumption DEF Held, KeptIn, Popped
<1>7. KeptIn(q) = {} /\ \A p \in Pattern \ {q} : Popped(p)' = {}
  BY <1>1, <1>5 DEF KeptIn, Popped
<1>8. Popped(q)' = Queued(q)
  BY <1>1 DEF Popped, Queued
<1> QED
  BY <1>2, <1>3, <1>4, <1>5, <1>6, <1>7, <1>8, ItemsOfEmpty DEF Held, Queued

(* The order is preserved by Pop.                                           *)
LEMMA PopOrder ==
  ASSUME CallsType, EventsType, CallsType', EventsType', OrderInv, NEW q \in Pattern, Pop(q)
  PROVE  OrderInv'
<1>1. /\ UNCHANGED <<conn, clientVars, appended>> /\ Buffer' = Buffer /\ Wire' = Wire
      /\ serving \in Serving /\ q \in serving.left /\ serving.at = None
      /\ serving' \in Serving /\ serving'.left = serving.left
      /\ serving'.at = q /\ serving'.popped = queue[q]
      /\ serving'.events = serving.events /\ serving'.kept = serving.kept
      /\ queue' = [queue EXCEPT ![q] = <<>>]
  BY PopEffect DEF Pop, Buffer, Wire
<1> DEFINE T == {b \in Publisher : publishing[b] # Quiet /\ publishing[b].at = q
                                   /\ publishing[b].to = "queue"}
<1>2. Redirects(T, "popped")
  BY PopEffect
<1>3. delivered' = delivered /\ KeepsPending /\ serving # NotServing /\ serving' # NotServing
  BY <1>1, <1>2, RedirectsPending, Notserving DEF clientVars
<1>4. /\ queue'[q] = <<>> /\ \A p \in Pattern \ {q} : queue'[p] = queue[p]
      /\ InPoll' = InPoll /\ UnderWay' = UnderWay
      /\ \A p \in Pattern : KeptFor(p)' = KeptFor(p)
      /\ \A p \in Pattern \ {q} : Held(p)' = Held(p) /\ Queued(p)' = Queued(p)
      /\ Held(q) = {} /\ Held(q)' = Queued(q) /\ Queued(q)' = {}
  BY <1>1, PopWhere DEF OrderInv, UnderWay
<1>5. Serves'
  BY <1>1, <1>3 DEF OrderInv, Serves
<1>6. Popping'
  <2> SUFFICES ASSUME NEW b \in Publisher, Pending(b)', publishing'[b].at # None,
                      publishing'[b].to = "popped", conn'["events"].up
               PROVE  /\ serving' # NotServing /\ serving'.at = publishing'[b].at
                      /\ \A e \in Queued(serving.at)' : e.by # b
    BY DEF Popping
  <2>1. /\ Pending(b) /\ publishing'[b].at = publishing[b].at /\ conn["events"].up
        /\ publishing'[b].to = IF b \in T THEN "popped" ELSE publishing[b].to
    BY <1>1, <1>2, <1>3 DEF Redirects, KeepsPending, Pending
  <2>2. b \in T
    BY <1>1, <2>1 DEF OrderInv, Popping
  <2>3. publishing'[b].at = q
    BY <2>1, <2>2
  <2>4. Queued(serving.at)' = {}
    BY <1>1, <1>4, ItemsOfEmpty DEF Queued
  <2> QED
    BY <1>1, <1>3, <2>3, <2>4
<1>7. ASSUME NEW p \in Pattern, Ordered(p) PROVE Ordered(p)'
  <2>1. CASE p = q
    <3>1. Chain(Ahead(p), ItemsOf(delivered[p]), UnderWay, InPoll, Held(p)', Queued(p)')
      BY <1>4, <1>7, <2>1, ChainPopped DEF Ordered
    <3>2. Sorted(Ahead(p), queue'[p]) /\ Sorted(Ahead(p), serving'.popped)
      BY <1>1, <1>4, <1>7, <2>1, ItemsOfEmpty DEF Ordered
    <3> QED
      BY <1>1, <1>3, <1>4, <1>7, <3>1, <3>2 DEF Ordered, Ahead
  <2>2. CASE p # q
    BY <1>1, <1>3, <1>4, <1>7, <2>2 DEF Ordered, Ahead
  <2> QED
    BY <2>1, <2>2
<1>8. NothingNew
  <2>1. \A p \in Pattern : Reached(p)' \subseteq Reached(p)
    BY <1>3, <1>4 DEF Reached
  <2> QED
    BY <2>1 DEF NothingNew
<1>9. \A p \in Pattern :
         ItemsOf(delivered[p])' \cup Held(p)' \cup Queued(p)' \subseteq Matching(p)
  BY <1>3, <1>4 DEF OrderInv, Topics
<1>10. \A p \in Pattern : Apart(p) => Ordered(p)'
  BY <1>7 DEF OrderInv
<1> QED
  BY <1>3, <1>5, <1>6, <1>8, <1>9, <1>10, QuietOrder

(* What was popped goes into the reply, as far as there is room.            *)
LEMMA CollectWhere ==
  ASSUME CallsType, EventsType, Serves, NEW q \in Pattern, Collect(q)
  PROVE  \E n \in 0..Len(serving.popped) :
           LET first == Among(Serializable, Prefix(serving.popped, n))
               X == ItemsOf(first)
               Y == ItemsOf(Suffix(serving.popped, n))
           IN  /\ serving # NotServing /\ serving' # NotServing
               /\ serving'.at = None /\ serving'.left = serving.left \ {q}
               /\ serving'.events = serving.events \o first
               /\ InPoll' = InPoll \cup X /\ Held(q)' = Y
               /\ X \cup Y \subseteq Held(q) /\ Held(q) \cap Serializable \subseteq X \cup Y
               /\ \A k \in KeptFor(q)' : k.events = Suffix(serving.popped, n)
               /\ \A p \in Pattern \ {q} : KeptFor(p)' = KeptFor(p) /\ Held(p)' = Held(p)
               /\ Serves'
<1> DEFINE Rest == [pattern : Pattern, events : Seq(Event)]
<1>1. PICK n \in 0..Len(serving.popped) :
        /\ serving \in Serving /\ serving.at = q /\ serving.popped \in Seq(Event)
        /\ serving' \in Serving
        /\ serving'.left = serving.left \ {q} /\ serving'.at = None
        /\ serving'.events = serving.events \o Among(Serializable, Prefix(serving.popped, n))
        /\ \/ n = Len(serving.popped) /\ serving'.kept = serving.kept
           \/ \E k \in [pattern : Pattern, events : Seq(Event)] :
                /\ k.pattern = q /\ k.events = Suffix(serving.popped, n)
                /\ serving'.kept = Append(serving.kept, k)
  <2>1. \E n \in 0..Len(serving.popped) :
            /\ serving \in Serving /\ serving.at = q /\ serving.popped \in Seq(Event)
            /\ serving' \in Serving /\ serving'.id = serving.id
            /\ serving'.left = serving.left \ {q} /\ serving'.at = None /\ serving'.popped = <<>>
            /\ serving'.events = serving.events \o Among(Serializable, Prefix(serving.popped, n))
            /\ \/ n = Len(serving.popped) /\ serving'.kept = serving.kept
               \/ \E k \in [pattern : Pattern, events : Seq(Event)] :
                    /\ k.pattern = q /\ k.events = Suffix(serving.popped, n)
                    /\ serving'.kept = Append(serving.kept, k)
            /\ Redirects({b \in Publisher : publishing[b] # Quiet /\ publishing[b].at = q
                                            /\ publishing[b].to = "popped"}, "nowhere")
    BY CollectEffect
  <2> QED
    BY <2>1, Zenon
<1> DEFINE first == Among(Serializable, Prefix(serving.popped, n))
           X == ItemsOf(first)
           P == ItemsOf(Prefix(serving.popped, n))
           Y == ItemsOf(Suffix(serving.popped, n))
<1>2. serving # NotServing /\ serving' # NotServing /\ q # None
  BY <1>1, Notserving, TransportAssumption
<1>3. /\ q \in serving.left
      /\ \A k \in ItemsOf(serving.kept) : k.pattern \notin serving.left
      /\ \A k, m \in ItemsOf(serving.kept) : k.pattern = m.pattern => k = m
  BY <1>1, <1>2 DEF Serves
<1>4. /\ serving.events \in Seq(Event) /\ Prefix(serving.popped, n) \in Seq(Event)
      /\ serving.kept \in Seq(Rest)
  BY <1>1, <1>2, PrefixFacts, WhereTypes
<1>5. InPoll' = InPoll \cup X /\ X = {e \in P : e \in Serializable}
  <2>1. first \in Seq(Event) /\ X = {e \in P : e \in Serializable}
    BY <1>4, AmongFacts
  <2> HIDE DEF first
  <2>2. serving'.events = serving.events \o first
    BY <1>1 DEF first
  <2> QED
    BY <1>1, <1>2, <1>4, <2>1, <2>2, ItemsOfConcat DEF InPoll
<1>6. ItemsOf(serving.popped) = P \cup Y
  <2>1. Len(serving.popped) \in Nat
    BY <1>1, LenProperties
  <2>2. 1..Len(serving.popped) = (1..n) \cup (n + 1..Len(serving.popped))
    BY <2>1
  <2>3. /\ P = {serving.popped[i] : i \in 1..n}
        /\ Y = {serving.popped[i] : i \in n + 1..Len(serving.popped)}
        /\ ItemsOf(serving.popped) = {serving.popped[i] : i \in 1..Len(serving.popped)}
    BY <1>1, SplitItems
  <2> QED
    BY <2>2, <2>3
<1>7. KeptFor(q) = {}
  BY <1>3 DEF KeptFor
<1>8. X \cup Y \subseteq Held(q) /\ Held(q) \cap Serializable \subseteq X \cup Y
  <2>1. Held(q) = P \cup Y
    BY <1>1, <1>2, <1>6, <1>7 DEF Held, KeptIn, Popped
  <2> QED
    BY <1>5, <2>1
<1>9. ASSUME NEW p \in Pattern PROVE Popped(p)' = {} /\ (p # q => Popped(p) = {})
  BY <1>1, TransportAssumption DEF Popped
<1>10. ASSUME NEW k \in Rest, k.pattern = q, k.events = Suffix(serving.popped, n),
              serving'.kept = Append(serving.kept, k)
       PROVE  /\ Held(q)' = Y /\ \A m \in KeptFor(q)' : m.events = Suffix(serving.popped, n)
              /\ \A p \in Pattern \ {q} : KeptFor(p)' = KeptFor(p) /\ Held(p)' = Held(p)
              /\ Serves'
  <2>1. ItemsOf(serving'.kept) = ItemsOf(serving.kept) \cup {k}
    <3> HIDE DEF Rest
    <3> QED
      BY <1>4, <1>10, ItemsOfAppend
  <2>2. KeptFor(q)' = {k}
    BY <1>7, <1>10, <2>1 DEF KeptFor
  <2>3. \A p \in Pattern \ {q} : KeptFor(p)' = KeptFor(p)
    BY <1>10, <2>1 DEF KeptFor
  <2>4. Held(q)' = Y
    BY <1>2, <1>9, <1>10, <2>2 DEF Held, KeptIn
  <2>5. \A p \in Pattern \ {q} : Held(p)' = Held(p)
    BY <1>2, <1>9, <2>3 DEF Held, KeptIn
  <2>6. Serves'
    BY <1>1, <1>3, <1>10, <2>1 DEF Serves
  <2> QED
    BY <1>10, <2>2, <2>3, <2>4, <2>5, <2>6
<1>11. /\ Held(q)' = Y /\ \A m \in KeptFor(q)' : m.events = Suffix(serving.popped, n)
       /\ \A p \in Pattern \ {q} : KeptFor(p)' = KeptFor(p) /\ Held(p)' = Held(p)
       /\ Serves'
  <2>1. CASE n = Len(serving.popped) /\ serving'.kept = serving.kept
    <3>1. \A p \in Pattern : KeptFor(p)' = KeptFor(p)
      BY <2>1 DEF KeptFor
    <3>2. Y = {}
      <4>1. /\ Y = {serving.popped[i] : i \in n + 1..Len(serving.popped)}
            /\ Len(serving.popped) \in Nat
        BY <1>1, SplitItems, LenProperties
      <4>2. n + 1..Len(serving.popped) = {}
        BY <2>1, <4>1
      <4> QED
        BY <4>1, <4>2
    <3>3. Held(q)' = Y
      BY <1>2, <1>7, <1>9, <3>1, <3>2 DEF Held, KeptIn
    <3>4. \A p \in Pattern \ {q} : Held(p)' = Held(p)
      BY <1>2, <1>9, <3>1 DEF Held, KeptIn
    <3>5. Serves'
      BY <1>1, <1>3, <2>1 DEF Serves
    <3>6. KeptFor(q)' = {}
      BY <1>7, <3>1
    <3> QED
      BY <3>1, <3>3, <3>4, <3>5, <3>6
  <2> QED
    BY <1>1, <1>10, <2>1
<1> QED
  BY <1>1, <1>2, <1>5, <1>8, <1>11

(* The order is preserved by Collect.                                       *)
LEMMA CollectOrder ==
  ASSUME CallsType, EventsType, CallsType', EventsType', OrderInv, NEW q \in Pattern, Collect(q)
  PROVE  OrderInv'
<1>1. /\ UNCHANGED <<conn, clientVars, queue, appended>> /\ Buffer' = Buffer /\ Wire' = Wire
      /\ serving.at = q
  BY DEF Collect, Buffer, Wire
<1> DEFINE T == {b \in Publisher : publishing[b] # Quiet /\ publishing[b].at = q
                                   /\ publishing[b].to = "popped"}
<1>2. Redirects(T, "nowhere")
  BY CollectEffect
<1>3. delivered' = delivered /\ KeepsPending
  BY <1>1, <1>2, RedirectsPending DEF clientVars
<1>4. PICK n \in 0..Len(serving.popped) :
        LET first == Among(Serializable, Prefix(serving.popped, n))
            X == ItemsOf(first)
            Y == ItemsOf(Suffix(serving.popped, n))
        IN  /\ serving # NotServing /\ serving' # NotServing
            /\ serving'.at = None /\ serving'.left = serving.left \ {q}
            /\ serving'.events = serving.events \o first
            /\ InPoll' = InPoll \cup X /\ Held(q)' = Y
            /\ X \cup Y \subseteq Held(q) /\ Held(q) \cap Serializable \subseteq X \cup Y
            /\ \A k \in KeptFor(q)' : k.events = Suffix(serving.popped, n)
            /\ \A p \in Pattern \ {q} : KeptFor(p)' = KeptFor(p) /\ Held(p)' = Held(p)
            /\ Serves'
  <2>1. Serves
    BY DEF OrderInv
  <2> QED
    BY <2>1, CollectWhere
<1> DEFINE first == Among(Serializable, Prefix(serving.popped, n))
           X == ItemsOf(first)
           P == ItemsOf(Prefix(serving.popped, n))
           Y == ItemsOf(Suffix(serving.popped, n))
<1>5. /\ serving # NotServing /\ serving' # NotServing
      /\ serving'.at = None /\ serving'.left = serving.left \ {q}
      /\ serving'.events = serving.events \o first
      /\ InPoll' = InPoll \cup X /\ Held(q)' = Y /\ X \cup Y \subseteq Held(q)
      /\ \A k \in KeptFor(q)' : k.events = Suffix(serving.popped, n)
      /\ \A p \in Pattern \ {q} : KeptFor(p)' = KeptFor(p) /\ Held(p)' = Held(p)
      /\ Serves'
  BY <1>4
<1>6. /\ serving.popped \in Seq(Event) /\ serving.events \in Seq(Event)
      /\ InPoll = ItemsOf(serving.events) /\ first \in Seq(Event) /\ X \subseteq P
      /\ \A R : Sorted(R, Prefix(serving.popped, n)) => Sorted(R, first)
  <2>1. /\ serving.popped \in Seq(Event) /\ serving.events \in Seq(Event)
        /\ InPoll = ItemsOf(serving.events) /\ Prefix(serving.popped, n) \in Seq(Event)
    BY <1>5, WhereTypes, PrefixFacts DEF InPoll
  <2>2. /\ first \in Seq(Event) /\ X = {e \in P : e \in Serializable}
        /\ \A R : Sorted(R, Prefix(serving.popped, n)) => Sorted(R, first)
    BY <2>1, AmongFacts
  <2> QED
    BY <2>1, <2>2
<1> HIDE DEF first
<1>7. \A p \in Pattern : Queued(p)' = Queued(p) /\ queue'[p] = queue[p]
  BY <1>1 DEF Queued
<1>8. UnderWay' = UnderWay
  BY <1>1 DEF UnderWay
<1>9. X \subseteq Matching(q) /\ X \subseteq Event
  <2>1. X \subseteq Matching(q)
    BY <1>5 DEF OrderInv, Topics
  <2> QED
    BY <2>1 DEF Matching
<1>10. Popping'
  <2> SUFFICES ASSUME NEW b \in Publisher, Pending(b)', publishing'[b].at # None,
                      publishing'[b].to = "popped", conn'["events"].up
               PROVE  FALSE
    BY DEF Popping
  <2>1. /\ Pending(b) /\ publishing'[b].at = publishing[b].at /\ conn["events"].up
        /\ publishing'[b].to = IF b \in T THEN "nowhere" ELSE publishing[b].to
    BY <1>1, <1>2, <1>3 DEF Redirects, KeepsPending, Pending
  <2>2. b \notin T /\ publishing[b].to = "popped"
    BY <2>1
  <2>3. publishing[b].at = q
    BY <1>1, <2>1, <2>2 DEF OrderInv, Popping
  <2> QED
    BY <2>1, <2>2, <2>3 DEF Pending
<1>11. ASSUME NEW p \in Pattern, Apart(p), Ordered(p) PROVE Ordered(p)'
  <2>1. Sorted(Ahead(p), serving.events) /\ Chain(Ahead(p), ItemsOf(delivered[p]), UnderWay,
                                                  InPoll, Held(p), Queued(p))
    BY <1>5, <1>11 DEF Ordered
  <2>2. CASE p = q
    <3>1. Sorted(Ahead(p), serving.popped)
      BY <1>1, <1>5, <1>11, <2>2 DEF Ordered
    <3>2. /\ Sorted(Ahead(p), first)
          /\ Sorted(Ahead(p), Suffix(serving.popped, n)) /\ Before(Ahead(p), X, Y)
      <4>1. /\ Sorted(Ahead(p), Prefix(serving.popped, n))
            /\ Sorted(Ahead(p), Suffix(serving.popped, n)) /\ Before(Ahead(p), P, Y)
        BY <1>6, <3>1, SplitSorted
      <4> QED
        BY <1>6, <4>1 DEF Before
    <3>3. Chain(Ahead(p), ItemsOf(delivered[p]), UnderWay, InPoll \cup X, Y, Queued(p))
      BY <1>5, <2>1, <2>2, <3>2, ChainCollected
    <3>4. Before(Ahead(p), ItemsOf(serving.events), X)
      BY <1>5, <1>6, <2>1, <2>2 DEF Chain, Before
    <3>5. Sorted(Ahead(p), serving'.events)
      BY <1>5, <1>6, <2>1, <3>2, <3>4, SortedConcat
    <3>6. \A k \in KeptFor(p)' : Sorted(Ahead(p), k.events)
      BY <1>5, <2>2, <3>2
    <3>7. serving'.at # p
      BY <1>5, TransportAssumption
    <3> QED
      BY <1>1, <1>3, <1>5, <1>7, <1>8, <1>11, <2>2, <3>3, <3>5, <3>6, <3>7 DEF Ordered, Ahead
  <2>3. CASE p # q
    <3>1. /\ Before(Ahead(p), ItemsOf(delivered[p]) \cup UnderWay, X)
          /\ Before(Ahead(p), X, Held(p) \cup Queued(p)) /\ Before(Ahead(p), InPoll, X)
      <4>1. /\ ItemsOf(delivered[p]) \cup UnderWay \subseteq Event
            /\ Held(p) \cup Queued(p) \subseteq Event /\ InPoll \subseteq Event
        BY WhereTypes
      <4> HIDE DEF X
      <4> QED
        BY <1>9, <1>11, <2>3, <4>1, ApartBefore
    <3>2. Chain(Ahead(p), ItemsOf(delivered[p]), UnderWay, InPoll \cup X, Held(p), Queued(p))
      BY <2>1, <3>1, ChainAside
    <3>3. Sorted(Ahead(p), first)
      BY <1>6, <1>9, <1>11, <2>3, ApartSorted
    <3>4. Sorted(Ahead(p), serving'.events)
      BY <1>5, <1>6, <2>1, <3>1, <3>3, SortedConcat
    <3>5. \A k \in KeptFor(p)' : Sorted(Ahead(p), k.events)
      BY <1>5, <1>11, <2>3 DEF Ordered
    <3>6. serving'.at # p /\ Held(p)' = Held(p)
      BY <1>5, <2>3, TransportAssumption
    <3> QED
      BY <1>1, <1>3, <1>5, <1>7, <1>8, <1>11, <3>2, <3>4, <3>5, <3>6 DEF Ordered, Ahead
  <2> QED
    BY <2>2, <2>3
<1>12. NothingNew
  <2>1. \A p \in Pattern : Reached(p)' \subseteq Reached(p) \cup X
    BY <1>3, <1>5, <1>7, <1>8 DEF Reached
  <2>2. X \subseteq Reached(q)
    BY <1>5 DEF Reached
  <2>3. \A p \in Pattern \ {q} : Apart(p) => X \subseteq Event \ Matching(p)
    BY <1>9 DEF Apart, Matching
  <2> HIDE DEF X
  <2> QED
    BY <2>1, <2>2, <2>3 DEF NothingNew
<1>13. \A p \in Pattern :
         ItemsOf(delivered[p])' \cup Held(p)' \cup Queued(p)' \subseteq Matching(p)
  BY <1>3, <1>5, <1>7 DEF OrderInv, Topics
<1>14. \A p \in Pattern : Apart(p) => Ordered(p)'
  BY <1>11 DEF OrderInv
<1> QED
  BY <1>3, <1>5, <1>10, <1>12, <1>13, <1>14, QuietOrder

(* The reply is written, and what was kept is put back.                     *)
LEMMA FinishOrder ==
  ASSUME CallsType, SendType, EventsType, CallsType', EventsType', OrderInv, FinishPoll
  PROVE  OrderInv'
<1>1. /\ UNCHANGED <<clientVars, appended>> /\ Buffer' = Buffer
      /\ serving \in Serving /\ serving.left = {} /\ serving' = NotServing
      /\ conn'["events"].up = conn["events"].up
  BY FinishPollEffect DEF FinishPoll, Sent, SentWhole, SentNot, Stands, Buffer
<1>2. PICK r \in Reply : r.events = serving.events /\ Wire' \in {Append(Wire, r), Wire}
  BY FinishPollEffect DEF Sent, SentWhole, SentNot, Stands, Wire
<1> DEFINE T == {b \in Publisher : publishing[b] # Quiet /\ publishing[b].to = "queue"
                          /\ publishing[b].at \in {k.pattern : k \in ItemsOf(serving.kept)}}
<1>3. /\ queue' \in [Pattern -> Seq(Event)]
      /\ \A p \in Pattern :
           \/ queue'[p] = queue[p] /\ \A k \in ItemsOf(serving.kept) : k.pattern # p
           \/ \E k \in ItemsOf(serving.kept) : k.pattern = p /\ queue'[p] = k.events
      /\ Redirects(T, "nowhere")
  BY PutBackEffect
<1>4. delivered' = delivered /\ KeepsPending /\ serving # NotServing
  BY <1>1, <1>3, RedirectsPending, Notserving DEF clientVars
<1>5. \A p \in Pattern : queue'[p] = queue[p] \/ \E k \in KeptFor(p) : queue'[p] = k.events
  BY <1>3 DEF KeptFor
<1>6. /\ InPoll = ItemsOf(serving.events) /\ InPoll' = {}
      /\ \A p \in Pattern : Held(p)' = {} /\ Queued(p)' \subseteq Held(p) \cup Queued(p)
  <2>1. InPoll = ItemsOf(serving.events) /\ InPoll' = {} /\ \A p \in Pattern : Held(p)' = {}
    BY <1>1, <1>4 DEF InPoll, Held
  <2>2. ASSUME NEW p \in Pattern PROVE Queued(p)' \subseteq Held(p) \cup Queued(p)
    BY <1>4, <1>5 DEF Queued, Held, KeptIn
  <2> QED
    BY <2>1, <2>2
<1>7. /\ Wire \in Seq(Reply) /\ InReplies(Append(Wire, r)) = InReplies(Wire) \cup InPoll
      /\ InReplies(Wire)' \subseteq InReplies(Wire) \cup InPoll
  <2>1. Wire \in Seq(Reply)
    BY WhereTypes
  <2>2. InReplies(Append(Wire, r)) = InReplies(Wire) \cup ItemsOf(r.events)
    BY <2>1, RepliesAppend
  <2> QED
    BY <1>2, <1>6, <2>1, <2>2
<1>8. UnderWay' \subseteq UnderWay \cup InPoll
  BY <1>1, <1>7 DEF UnderWay
<1>9. Serves' /\ Popping'
  <2>1. Serves'
    BY <1>1 DEF Serves
  <2> SUFFICES ASSUME NEW b \in Publisher, Pending(b)', publishing'[b].at # None,
                      publishing'[b].to = "popped", conn'["events"].up
               PROVE  FALSE
    BY <2>1 DEF Popping
  <2>2. /\ Pending(b) /\ publishing'[b].at = publishing[b].at /\ conn["events"].up
        /\ publishing'[b].to = IF b \in T THEN "nowhere" ELSE publishing[b].to
    BY <1>1, <1>3, <1>4 DEF Redirects, KeepsPending, Pending
  <2>3. publishing[b].to = "popped"
    BY <2>2
  <2>4. serving.at = publishing[b].at /\ serving.at \in serving.left \cup {None}
    BY <1>4, <2>2, <2>3 DEF OrderInv, Popping, Serves
  <2> QED
    BY <1>1, <2>2, <2>4
<1>10. ASSUME NEW p \in Pattern, Ordered(p) PROVE Ordered(p)'
  <2>1. /\ Chain(Ahead(p), ItemsOf(delivered[p]), UnderWay, InPoll, Held(p), Queued(p))
        /\ RepliesSorted(p, Wire) /\ Sorted(Ahead(p), r.events) /\ RepliesSorted(p, Buffer)
        /\ Before(Ahead(p), InReplies(Buffer), InReplies(Wire))
    BY <1>2, <1>4, <1>10 DEF Ordered
  <2>2. Chain(Ahead(p), ItemsOf(delivered[p]), UnderWay \cup InPoll, {}, {}, Queued(p)')
    BY <1>6, <2>1, ChainFinished
  <2>3. Before(Ahead(p), InReplies(Wire), ItemsOf(r.events))
    BY <1>2, <1>6, <2>1 DEF Chain, Before, UnderWay
  <2>4. RepliesSorted(p, Append(Wire, r))
    BY <1>7, <2>1, <2>3, RepliesAppend
  <2>5. Before(Ahead(p), InReplies(Buffer), InReplies(Wire) \cup InPoll)
    BY <2>1 DEF Chain, Before, UnderWay
  <2>6. Sorted(Ahead(p), queue'[p])
    BY <1>4, <1>5, <1>10 DEF Ordered
  <2>7. RepliesSorted(p, Buffer)' /\ RepliesSorted(p, Wire)'
    BY <1>1, <1>2, <2>1, <2>4
  <2>8. Before(Ahead(p), InReplies(Buffer)', InReplies(Wire)')
    BY <1>1, <1>7, <2>5 DEF Before
  <2>9. Chain(Ahead(p), ItemsOf(delivered'[p]), UnderWay', InPoll', Held(p)', Queued(p)')
    BY <1>4, <1>6, <1>8, <2>2, ChainFewer
  <2> QED
    BY <1>1, <1>4, <1>10, <2>6, <2>7, <2>8, <2>9 DEF Ordered, Ahead
<1>11. NothingNew
  <2>1. \A p \in Pattern : Reached(p)' \subseteq Reached(p)
    BY <1>4, <1>6, <1>8 DEF Reached
  <2> QED
    BY <2>1 DEF NothingNew
<1>12. \A p \in Pattern :
         ItemsOf(delivered[p])' \cup Held(p)' \cup Queued(p)' \subseteq Matching(p)
  BY <1>4, <1>6 DEF OrderInv, Topics
<1>13. \A p \in Pattern : Apart(p) => Ordered(p)'
  BY <1>10 DEF OrderInv
<1> QED
  BY <1>4, <1>9, <1>11, <1>12, <1>13, QuietOrder

-----------------------------------------------------------------------------
(* Steps of a publisher.                                                    *)

(* Where nothing moves everything is in order.                              *)
LEMMA SamePlaces ==
  ASSUME UNCHANGED <<conn, delivered, queue, serving>>
  PROVE  /\ \A p : /\ Held(p)' = Held(p) /\ Queued(p)' = Queued(p)
                   /\ Reached(p)' = Reached(p) /\ (Ordered(p)' <=> Ordered(p))
         /\ Serves' <=> Serves
<1>1. Buffer' = Buffer /\ Wire' = Wire /\ UnderWay' = UnderWay /\ InPoll' = InPoll
  BY DEF Buffer, Wire, UnderWay, InPoll
<1>2. \A p : KeptFor(p)' = KeptFor(p) /\ Held(p)' = Held(p) /\ Queued(p)' = Queued(p)
  BY SameServing DEF Queued
<1>3. \A p : Reached(p)' = Reached(p)
  BY <1>1, <1>2 DEF Reached
<1>4. ASSUME NEW p PROVE Ordered(p)' <=> Ordered(p)
  BY <1>1, <1>2 DEF Ordered, Ahead
<1>5. Serves' <=> Serves
  BY DEF Serves
<1> QED
  BY <1>2, <1>3, <1>4, <1>5

(* What is reached are events.                                              *)
LEMMA ReachedType ==
  ASSUME CallsType, EventsType, NEW p \in Pattern
  PROVE  Reached(p) \subseteq Event
BY WhereTypes DEF Reached

(* A publisher looks up a queue.                                            *)
LEMMA TakeOrder ==
  ASSUME EventsType, OrderInv, NEW b \in Publisher, NEW p \in Pattern, Take(b, p)
  PROVE  OrderInv'
<1>1. /\ UNCHANGED <<conn, delivered, queue, serving, appended>>
      /\ Pending(b) /\ Pending(b)' /\ p \in publishing[b].left
      /\ publishing'[b].event = publishing[b].event /\ publishing'[b].left = publishing[b].left
      /\ publishing'[b].at = p /\ publishing'[b].to = "queue"
      /\ \A x \in Publisher \ {b} : publishing'[x] = publishing[x]
  BY TakeEffect, Notquiet DEF Take, OnlyPublisher, Pending, clientVars, serverVars
<1>2. \A x \in Publisher :
        /\ Pending(x)' <=> Pending(x)
        /\ Pending(x) => /\ publishing'[x].event = publishing[x].event
                         /\ publishing'[x].left = publishing[x].left
  BY <1>1 DEF Pending
<1>3. Published' = Published
  BY <1>1, <1>2, SamePublished
<1>4. /\ \A q : /\ Held(q)' = Held(q) /\ Queued(q)' = Queued(q)
                /\ Reached(q)' = Reached(q) /\ (Ordered(q)' <=> Ordered(q))
      /\ Serves' <=> Serves
  BY <1>1, SamePlaces
<1>5. PendingOk'
  BY <1>1, <1>2 DEF OrderInv, Topics, PendingOk, Pending
<1>6. Topics'
  BY <1>1, <1>4, <1>5 DEF OrderInv, Topics, Matching
<1>7. Popping'
  <2> SUFFICES ASSUME NEW x \in Publisher, Pending(x)', publishing'[x].at # None,
                      publishing'[x].to = "popped", conn'["events"].up
               PROVE  /\ serving' # NotServing /\ serving'.at = publishing'[x].at
                      /\ \A e \in Queued(serving.at)' : e.by # x
    BY DEF Popping
  <2>1. x # b
    BY <1>1
  <2>2. publishing'[x] = publishing[x] /\ Pending(x) /\ conn["events"].up
    BY <1>1, <1>2, <2>1
  <2>3. Queued(serving.at)' = Queued(serving.at)
    BY <1>1 DEF Queued
  <2> QED
    BY <1>1, <2>2, <2>3 DEF OrderInv, Popping
<1>8. Numbers'
  BY <1>3, <1>4 DEF OrderInv, Numbers, Numbered
<1>9. ASSUME NEW q \in Pattern, Fresh(q) PROVE Fresh(q)'
  <2> SUFFICES ASSUME NEW x \in Publisher, Pending(x)', q \in publishing'[x].left
               PROVE  Before(Ahead(q), Reached(q)', {publishing'[x].event})
    BY DEF Fresh, Ahead
  <2> QED
    BY <1>2, <1>4, <1>9 DEF Fresh
<1> QED
  BY <1>4, <1>6, <1>7, <1>8, <1>9 DEF OrderInv, Apart

(* An event is published, with the next number.                             *)
LEMMA PublishOrder ==
  ASSUME CallsType, EventsType, OrderInv, NEW b \in Publisher, NEW topic \in Topic,
         Publish(b, topic)
  PROVE  OrderInv'
<1> DEFINE e == publishing'[b].event
<1>1. /\ UNCHANGED <<conn, delivered, queue, serving, appended>>
      /\ ~Pending(b) /\ Pending(b)' /\ e \in Event /\ e.topic = topic /\ e.by = b
      /\ e.number = Cardinality(Published) + 1
      /\ publishing'[b].left = {p \in subscribed : topic \in Matches(p)}
      /\ publishing'[b].at = None /\ publishing'[b].to = "queue"
      /\ \A x \in Publisher \ {b} : publishing'[x] = publishing[x]
      /\ Cardinality(Published) < MaxEvents
  BY PublishEffect, Notquiet DEF Publish, OnlyPublisher, Pending, clientVars, serverVars
<1> HIDE DEF e
<1>2. PICK n \in 0..MaxEvents : Published = 1..n
  BY DEF OrderInv, Numbers, Numbered
<1>3. n \in Nat /\ MaxEvents \in Nat /\ Cardinality(1..n) = n
  <2>1. n \in Nat /\ MaxEvents \in Nat /\ n \in Int /\ 1 \in Int
    BY <1>2, TransportAssumption
  <2>2. Cardinality(1..n) = IF 1 > n THEN 0 ELSE n - 1 + 1
    BY <2>1, FS_Interval
  <2> QED
    BY <2>1, <2>2
<1>4. e.number = n + 1 /\ n + 1 \in 0..MaxEvents
  BY <1>1, <1>2, <1>3
<1>5. Published' = Published \cup {e.number}
  <2> DEFINE B == {x \in Publisher : Pending(x)}
             A(a) == {f.number : f \in UNION {ItemsOf(a[p]) : p \in Pattern}}
  <2>1. /\ Published = A(appended) \cup {publishing[x].event.number : x \in B}
        /\ Published' = A(appended') \cup {publishing'[x].event.number : x \in B'}
    BY DEF Published, Pending
  <2>2. A(appended') = A(appended)
    BY <1>1
  <2>3. B' = B \cup {b} /\ b \notin B
    BY <1>1 DEF Pending
  <2>4. \A x \in B : publishing'[x] = publishing[x]
    BY <1>1, <2>3
  <2>5. {publishing'[x].event.number : x \in B'}
          = {publishing[x].event.number : x \in B} \cup {e.number}
    BY <2>3, <2>4 DEF e
  <2> HIDE DEF A, B
  <2> QED
    BY <2>1, <2>2, <2>5
<1>6. Published' = 1..n + 1
  BY <1>2, <1>3, <1>4, <1>5
<1>7. /\ \A q : /\ Held(q)' = Held(q) /\ Queued(q)' = Queued(q)
                /\ Reached(q)' = Reached(q) /\ (Ordered(q)' <=> Ordered(q))
      /\ Serves' <=> Serves
  BY <1>1, SamePlaces
<1>8. PendingOk'
  <2> SUFFICES ASSUME NEW x \in Publisher, Pending(x)'
               PROVE  /\ publishing'[x].event.by = x
                      /\ publishing'[x].at \in publishing'[x].left \cup {None}
                      /\ \A p \in publishing'[x].left : publishing'[x].event \in Matching(p)
    BY DEF PendingOk, Matching
  <2>1. CASE x = b
    BY <1>1, <2>1 DEF e, Matching
  <2>2. CASE x # b
    <3>1. publishing'[x] = publishing[x] /\ Pending(x)
      BY <1>1, <2>2 DEF Pending
    <3> QED
      BY <3>1 DEF OrderInv, Topics, PendingOk
  <2> QED
    BY <2>1, <2>2
<1>9. Topics'
  BY <1>1, <1>7, <1>8 DEF OrderInv, Topics, Matching
<1>10. Popping'
  <2> SUFFICES ASSUME NEW x \in Publisher, Pending(x)', publishing'[x].at # None,
                      publishing'[x].to = "popped", conn'["events"].up
               PROVE  /\ serving' # NotServing /\ serving'.at = publishing'[x].at
                      /\ \A f \in Queued(serving.at)' : f.by # x
    BY DEF Popping
  <2>1. x # b
    BY <1>1
  <2>2. publishing'[x] = publishing[x] /\ Pending(x) /\ conn["events"].up
    BY <1>1, <2>1 DEF Pending
  <2>3. Queued(serving.at)' = Queued(serving.at)
    BY <1>1 DEF Queued
  <2> QED
    BY <1>1, <2>2, <2>3 DEF OrderInv, Popping
<1>11. Numbers'
  BY <1>4, <1>5, <1>6, <1>7 DEF OrderInv, Numbers, Numbered
<1>12. ASSUME NEW q \in Pattern, Fresh(q) PROVE Fresh(q)'
  <2> SUFFICES ASSUME NEW x \in Publisher, Pending(x)', q \in publishing'[x].left,
                      NEW f \in Reached(q)
               PROVE  <<f, publishing'[x].event>> \in Ahead(q)
    BY <1>7 DEF Fresh, Before, Ahead
  <2>1. CASE x = b
    <3>1. f.number \in 1..n /\ f \in Event
      BY <1>2, ReachedType DEF OrderInv, Numbers
    <3>2. f.number < e.number
      BY <1>3, <1>4, <3>1
    <3> QED
      BY <1>1, <2>1, <3>1, <3>2 DEF e, Ahead
  <2>2. CASE x # b
    <3>1. publishing'[x] = publishing[x] /\ Pending(x)
      BY <1>1, <2>2 DEF Pending
    <3> QED
      BY <1>12, <3>1 DEF Fresh, Before
  <2> QED
    BY <2>1, <2>2
<1> QED
  BY <1>7, <1>9, <1>10, <1>11, <1>12 DEF OrderInv, Apart

(* An event that comes at the end of a queue with a limit.                  *)
LEMMA TrimItems ==
  ASSUME NEW R, NEW s \in Seq(Event), NEW e \in Event
  PROVE  /\ Trim(Append(s, e)) \in Seq(Event)
         /\ ItemsOf(Trim(Append(s, e))) \subseteq ItemsOf(s) \cup {e}
         /\ Sorted(R, s) /\ Before(R, ItemsOf(s), {e}) => Sorted(R, Trim(Append(s, e)))
<1> DEFINE t == Append(s, e)
<1>1. t \in Seq(Event) /\ ItemsOf(t) = ItemsOf(s) \cup {e}
  BY AppendProperties, ItemsOfAppend
<1>2. Sorted(R, s) /\ Before(R, ItemsOf(s), {e}) => Sorted(R, t)
  BY SortedAppend
<1> HIDE DEF t
<1>3. PICK n \in 0..Len(t) : Trim(t) = Suffix(t, n) /\ Trim(t) \in Seq(Event)
  BY <1>1, TrimFacts
<1>4. Sorted(R, t) => Sorted(R, Suffix(t, n))
  BY <1>1, SplitSorted
<1>5. ItemsOf(Suffix(t, n)) \subseteq ItemsOf(t)
  <2>1. /\ ItemsOf(Suffix(t, n)) = {t[i] : i \in n + 1..Len(t)}
        /\ ItemsOf(t) = {t[i] : i \in 1..Len(t)} /\ Len(t) \in Nat
    BY <1>1, SplitItems, LenProperties
  <2>2. n + 1..Len(t) \subseteq 1..Len(t)
    BY <2>1
  <2> QED
    BY <2>1, <2>2
<1> QED
  BY <1>1, <1>2, <1>3, <1>4, <1>5 DEF t

(* Where the event goes: into the queue, into the one that was popped, or   *)
(* nowhere.                                                                 *)
LEMMA AppendWhere ==
  ASSUME CallsType, EventsType, OrderInv, NEW b \in Publisher, NEW p \in Pattern, AppendTo(b, p)
  PROVE  LET e == publishing[b].event
         IN  /\ \A q \in Pattern \ {p} :
                  Queued(q)' = Queued(q) /\ queue'[q] = queue[q] /\ Held(q)' = Held(q)
             /\ \A q \in Pattern : KeptFor(q)' = KeptFor(q)
             /\ InPoll' = InPoll /\ (serving' # NotServing <=> serving # NotServing) /\ Serves'
             /\ serving # NotServing =>
                  /\ serving'.at = serving.at /\ serving'.events = serving.events
                  /\ serving.at # p => serving'.popped = serving.popped
             /\ \/ /\ serving' = serving /\ Held(p)' = Held(p)
                   /\ queue'[p] = queue[p] \/ queue'[p] = Trim(Append(queue[p], e))
                \/ /\ queue' = queue /\ Queued(p)' = Queued(p)
                   /\ serving # NotServing /\ serving.at = p /\ \A x \in Queued(p) : x.by # b
                   /\ serving'.popped = Trim(Append(serving.popped, e))
                   /\ Held(p)' \subseteq Held(p) \cup {e}
<1> DEFINE e == publishing[b].event
           now == publishing[b]
<1>1. /\ now \in Publishing /\ now.at = p /\ e \in Event /\ Pending(b)
      /\ IF now.to # "queue" \/ ~conn["events"].up THEN queue' = queue
         ELSE queue' = [queue EXCEPT ![p] = Trim(Append(@, e))]
      /\ IF now.to # "popped" \/ serving = NotServing THEN serving' = serving
         ELSE /\ serving \in Serving /\ serving' \in Serving
              /\ serving'.left = serving.left /\ serving'.at = serving.at
              /\ serving'.events = serving.events /\ serving'.kept = serving.kept
              /\ serving'.popped = Trim(Append(serving.popped, e))
  BY AppendToEffect, Notquiet DEF Pending
<1> HIDE DEF e
<1>2. queue \in [Pattern -> Seq(Event)] /\ p # None
  BY TransportAssumption DEF EventsType
<1>3. /\ \A q \in Pattern \ {p} : Queued(q)' = Queued(q) /\ queue'[q] = queue[q]
      /\ queue'[p] = queue[p] \/ queue'[p] = Trim(Append(queue[p], e))
  BY <1>1, <1>2 DEF Queued
<1>4. CASE now.to # "popped" \/ serving = NotServing
  <2>1. serving' = serving
    BY <1>1, <1>4
  <2>2. /\ \A q : KeptFor(q)' = KeptFor(q) /\ Held(q)' = Held(q)
        /\ InPoll' = InPoll
    BY <2>1, SameServing
  <2>3. Serves'
    BY <2>1 DEF OrderInv, Serves
  <2> QED
    BY <1>3, <2>1, <2>2, <2>3 DEF e
<1>5. CASE now.to = "popped" /\ serving # NotServing
  <2>1. /\ queue' = queue /\ serving \in Serving /\ serving' \in Serving
        /\ serving'.left = serving.left /\ serving'.at = serving.at
        /\ serving'.events = serving.events /\ serving'.kept = serving.kept
        /\ serving'.popped = Trim(Append(serving.popped, e)) /\ serving' # NotServing
    BY <1>1, <1>5, Notserving
  <2>2. conn["events"].up
    BY <1>5 DEF EventsType
  <2>3. serving.at = p /\ \A x \in Queued(p) : x.by # b
    BY <1>1, <1>2, <1>5, <2>2 DEF OrderInv, Popping
  <2>4. InPoll' = InPoll /\ \A q \in Pattern : KeptFor(q)' = KeptFor(q)
    BY <1>5, <2>1 DEF InPoll, KeptFor
  <2>5. Serves'
    BY <1>5, <2>1 DEF OrderInv, Serves
  <2>6. \A q \in Pattern \ {p} : Held(q)' = Held(q)
    BY <1>5, <2>1, <2>3, <2>4 DEF Held, KeptIn, Popped
  <2>7. ItemsOf(serving'.popped) \subseteq ItemsOf(serving.popped) \cup {e}
    <3>1. serving.popped \in Seq(Event)
      BY <1>5, WhereTypes
    <3> QED
      BY <1>1, <2>1, <3>1, TrimItems
  <2>8. Held(p)' \subseteq Held(p) \cup {e}
    <3>1. Held(p) = KeptIn(p) \cup ItemsOf(serving.popped)
      BY <1>5, <2>3 DEF Held, Popped
    <3>2. Held(p)' = KeptIn(p)' \cup ItemsOf(serving'.popped)
      BY <2>1, <2>3 DEF Held, Popped
    <3>3. KeptIn(p)' = KeptIn(p)
      BY <2>4 DEF KeptIn
    <3> QED
      BY <2>7, <3>1, <3>2, <3>3
  <2>9. Queued(p)' = Queued(p)
    BY <2>1 DEF Queued
  <2> QED
    BY <1>3, <1>5, <2>1, <2>3, <2>4, <2>5, <2>6, <2>8, <2>9 DEF e
<1> QED
  BY <1>4, <1>5

(* A publisher appends its event.                                           *)
LEMMA AppendOrder ==
  ASSUME CallsType, EventsType, OrderInv, NEW b \in Publisher, NEW p \in Pattern, AppendTo(b, p)
  PROVE  OrderInv'
<1> DEFINE e == publishing[b].event
<1>1. /\ UNCHANGED <<conn, delivered>> /\ Pending(b) /\ e \in Event
      /\ publishing[b].at = p /\ publishing[b].left \subseteq Pattern
      /\ appended' = [appended EXCEPT ![p] = Append(@, e)]
      /\ \/ publishing[b].left \ {p} = {} /\ ~Pending(b)'
         \/ /\ Pending(b)' /\ publishing'[b].event = e
            /\ publishing'[b].left = publishing[b].left \ {p} /\ publishing'[b].at = None
      /\ \A x \in Publisher \ {b} : publishing'[x] = publishing[x]
  BY AppendToEffect, Notquiet DEF AppendTo, OnlyPublisher, Pending, clientVars, Publishing
<1>2. /\ \A q \in Pattern \ {p} :
           Queued(q)' = Queued(q) /\ queue'[q] = queue[q] /\ Held(q)' = Held(q)
      /\ \A q \in Pattern : KeptFor(q)' = KeptFor(q)
      /\ InPoll' = InPoll /\ (serving' # NotServing <=> serving # NotServing) /\ Serves'
      /\ serving # NotServing =>
           /\ serving'.at = serving.at /\ serving'.events = serving.events
           /\ serving.at # p => serving'.popped = serving.popped
      /\ \/ /\ serving' = serving /\ Held(p)' = Held(p)
            /\ queue'[p] = queue[p] \/ queue'[p] = Trim(Append(queue[p], e))
         \/ /\ queue' = queue /\ Queued(p)' = Queued(p)
            /\ serving # NotServing /\ serving.at = p /\ \A x \in Queued(p) : x.by # b
            /\ serving'.popped = Trim(Append(serving.popped, e))
            /\ Held(p)' \subseteq Held(p) \cup {e}
  BY AppendWhere
<1>3. /\ e.by = b /\ p \in publishing[b].left
      /\ \A q \in publishing[b].left : e \in Matching(q)
  BY <1>1, TransportAssumption DEF OrderInv, Topics, PendingOk
<1> HIDE DEF e
<1>4. queue[p] \in Seq(Event) /\ appended \in [Pattern -> Seq(Event)]
  BY DEF EventsType
<1>5. Queued(p)' \subseteq Queued(p) \cup {e} /\ Held(p)' \subseteq Held(p) \cup {e}
  BY <1>1, <1>2, <1>4, TrimItems DEF Queued
<1>6. Buffer' = Buffer /\ Wire' = Wire /\ UnderWay' = UnderWay
  BY <1>1 DEF Buffer, Wire, UnderWay
<1>7. /\ Reached(p)' \subseteq Reached(p) \cup {e}
      /\ \A q \in Pattern \ {p} : Reached(q)' = Reached(q)
  BY <1>1, <1>2, <1>5, <1>6 DEF Reached
<1>8. ItemsOf(appended'[p]) = ItemsOf(appended[p]) \cup {e}
      /\ \A q \in Pattern \ {p} : appended'[q] = appended[q]
  BY <1>1, <1>4, ItemsOfAppend
<1>9. Published' = Published
  <2> DEFINE B == {x \in Publisher : Pending(x)}
             A == UNION {ItemsOf(appended[q]) : q \in Pattern}
  <2>1. /\ Published = {f.number : f \in A} \cup {publishing[x].event.number : x \in B}
        /\ Published' = {f.number : f \in A'} \cup {publishing'[x].event.number : x \in B'}
    BY DEF Published, Pending
  <2>2. A' = A \cup {e}
    BY <1>8
  <2>3. B' \subseteq B /\ B \subseteq B' \cup {b} /\ b \in B
    BY <1>1 DEF Pending
  <2>4. \A x \in B' : publishing'[x].event = publishing[x].event
    BY <1>1 DEF e
  <2>5. {publishing'[x].event.number : x \in B'} \subseteq {publishing[x].event.number : x \in B}
    BY <2>3, <2>4
  <2>6. {publishing[x].event.number : x \in B}
          \subseteq {publishing'[x].event.number : x \in B'} \cup {e.number}
    BY <2>3, <2>4 DEF e
  <2>7. e.number \in {publishing[x].event.number : x \in B}
    BY <2>3 DEF e
  <2> HIDE DEF A, B
  <2> QED
    BY <2>1, <2>2, <2>5, <2>6, <2>7
<1>10. Numbers'
  <2>1. e.number \in Published
    BY <1>1 DEF e, Published, Pending
  <2>2. \A q \in Pattern : \A f \in Reached(q)' : f.number \in Published
    BY <1>7, <2>1 DEF OrderInv, Numbers
  <2> QED
    BY <1>9, <2>2 DEF OrderInv, Numbers, Numbered
<1>11. PendingOk'
  <2> SUFFICES ASSUME NEW x \in Publisher, Pending(x)'
               PROVE  /\ publishing'[x].event.by = x
                      /\ publishing'[x].at \in publishing'[x].left \cup {None}
                      /\ \A q \in publishing'[x].left : publishing'[x].event \in Matching(q)
    BY DEF PendingOk, Matching
  <2>1. CASE x = b
    BY <1>1, <1>3, <2>1
  <2>2. CASE x # b
    <3>1. publishing'[x] = publishing[x] /\ Pending(x)
      BY <1>1, <2>2 DEF Pending
    <3> QED
      BY <3>1 DEF OrderInv, Topics, PendingOk
  <2> QED
    BY <2>1, <2>2
<1>12. Topics'
  <2>1. e \in Matching(p)
    BY <1>3
  <2>2. ASSUME NEW q \in Pattern
        PROVE  ItemsOf(delivered'[q]) \cup Held(q)' \cup Queued(q)' \cup ItemsOf(appended'[q])
                 \subseteq Matching(q)
    BY <1>1, <1>2, <1>5, <1>8, <2>1 DEF OrderInv, Topics
  <2> QED
    BY <1>11, <2>2 DEF Topics, Matching
<1>13. Popping'
  <2> SUFFICES ASSUME NEW x \in Publisher, Pending(x)', publishing'[x].at # None,
                      publishing'[x].to = "popped", conn'["events"].up
               PROVE  /\ serving' # NotServing /\ serving'.at = publishing'[x].at
                      /\ \A f \in Queued(serving.at)' : f.by # x
    BY DEF Popping
  <2>1. x # b
    BY <1>1
  <2>2. publishing'[x] = publishing[x] /\ Pending(x) /\ conn["events"].up
    BY <1>1, <2>1 DEF Pending
  <2>3. /\ serving # NotServing /\ serving.at = publishing[x].at
        /\ \A f \in Queued(serving.at) : f.by # x
    BY <1>1, <2>2 DEF OrderInv, Popping
  <2>4. serving.at \in Pattern
    <3>1. publishing[x] \in Publishing /\ publishing[x].at # None
      BY <2>2 DEF EventsType, Pending
    <3> QED
      BY <2>3, <3>1 DEF Publishing
  <2>5. \A f \in Queued(serving.at)' : f.by # x
    <3>1. Queued(serving.at)' \subseteq Queued(serving.at) \cup {e}
      BY <1>2, <1>5, <2>3, <2>4 DEF Queued
    <3> QED
      BY <1>3, <2>1, <2>3, <3>1
  <2> QED
    BY <1>2, <2>2, <2>3, <2>5
<1>14. ASSUME NEW q \in Pattern, Apart(q) PROVE Ordered(q)'
  <2>1. Ordered(q) /\ Fresh(q)
    BY <1>14 DEF OrderInv
  <2>2. CASE q # p
    BY <1>1, <1>2, <1>6, <2>1, <2>2 DEF Ordered, Ahead
  <2>3. CASE q = p
    <3>1. Before(Ahead(p), Reached(p), {e})
      BY <1>1, <1>3, <2>1, <2>3 DEF Fresh, e
    <3>2. Chain(Ahead(p), ItemsOf(delivered[p]), UnderWay, InPoll, Held(p), Queued(p))
      BY <2>1, <2>3 DEF Ordered
    <3>3. CASE /\ serving' = serving /\ Held(p)' = Held(p)
               /\ queue'[p] = queue[p] \/ queue'[p] = Trim(Append(queue[p], e))
      <4>1. Before(Ahead(p), ItemsOf(delivered[p]) \cup UnderWay \cup InPoll \cup Held(p), {e})
        BY <3>1 DEF Reached, Before
      <4>2. Chain(Ahead(p), ItemsOf(delivered[p]), UnderWay, InPoll, Held(p), Queued(p)')
        BY <1>5, <3>2, <4>1, ChainQueued
      <4>3. Sorted(Ahead(p), queue[p]) /\ Before(Ahead(p), ItemsOf(queue[p]), {e})
        BY <2>1, <2>3, <3>1 DEF Ordered, Reached, Queued, Before
      <4>4. Sorted(Ahead(p), queue'[p])
        BY <1>1, <1>4, <3>3, <4>3, TrimItems
      <4> QED
        BY <1>1, <1>2, <1>6, <2>1, <2>3, <3>3, <4>2, <4>4 DEF Ordered, Ahead
    <3>4. CASE /\ queue' = queue /\ Queued(p)' = Queued(p)
               /\ serving # NotServing /\ serving.at = p /\ \A x \in Queued(p) : x.by # b
               /\ serving'.popped = Trim(Append(serving.popped, e))
               /\ Held(p)' \subseteq Held(p) \cup {e}
      <4>1. Before(Ahead(p), ItemsOf(delivered[p]) \cup UnderWay \cup InPoll, {e})
        BY <3>1 DEF Reached, Before
      <4>2. Before(Ahead(p), {e}, Queued(p))
        <5>1. Queued(p) \subseteq Event
          BY WhereTypes
        <5> QED
          BY <1>1, <1>3, <3>4, <5>1 DEF Before, Ahead
      <4>3. Chain(Ahead(p), ItemsOf(delivered[p]), UnderWay, InPoll, Held(p)', Queued(p))
        BY <3>2, <3>4, <4>1, <4>2, ChainHeld
      <4>4. /\ Sorted(Ahead(p), serving.popped)
            /\ Before(Ahead(p), ItemsOf(serving.popped), {e})
        BY <2>1, <2>3, <3>1, <3>4 DEF Ordered, Reached, Held, Popped, Before
      <4>5. serving.popped \in Seq(Event)
        BY <3>4, WhereTypes
      <4>6. Sorted(Ahead(p), serving'.popped)
        BY <1>1, <3>4, <4>4, <4>5, TrimItems
      <4> QED
        BY <1>1, <1>2, <1>6, <2>1, <2>3, <3>4, <4>3, <4>6 DEF Ordered, Ahead
    <3> QED
      BY <1>2, <3>3, <3>4
  <2> QED
    BY <2>2, <2>3
<1>15. ASSUME NEW q \in Pattern, Apart(q) PROVE Fresh(q)'
  <2>1. Fresh(q)
    BY <1>15 DEF OrderInv
  <2> SUFFICES ASSUME NEW x \in Publisher, Pending(x)', q \in publishing'[x].left,
                      NEW f \in Reached(q)'
               PROVE  <<f, publishing'[x].event>> \in Ahead(q)
    BY DEF Fresh, Before, Ahead
  <2>2. /\ Pending(x) /\ q \in publishing[x].left /\ publishing'[x].event = publishing[x].event
        /\ x = b => q # p
    BY <1>1 DEF e, Pending
  <2>3. CASE f \in Reached(q)
    BY <2>1, <2>2, <2>3 DEF Fresh, Before
  <2>4. CASE f = e /\ q = p
    <3>1. x # b
      BY <2>2, <2>4
    <3>2. publishing[x].event.by = x /\ publishing[x].event \in Event
      BY <2>2 DEF OrderInv, Topics, PendingOk, EventsType, Publishing, Pending
    <3> QED
      BY <1>1, <1>3, <2>2, <2>4, <3>1, <3>2 DEF Ahead
  <2> QED
    BY <1>7, <2>3, <2>4
<1> QED
  BY <1>2, <1>10, <1>12, <1>13, <1>14, <1>15 DEF OrderInv, Apart

(* Every step keeps the order.                                              *)
LEMMA OrderStep ==
  ASSUME TypeInv, TypeInv', OrderInv, [Next]_vars
  PROVE  OrderInv'
<1> USE DEF TypeInv
<1>1. CASE UNCHANGED vars
  BY <1>1, MovesOrder DEF vars, clientVars, serverVars, busVars, Moves, Buffer, Wire
<1>2. CASE Poll \/ \E t \in Caller : Call(t)
  BY <1>2, MovesOrder DEF Poll, Call, serverVars, busVars, Moves, Buffer, Wire
<1>3. ASSUME NEW t \in Thread, ThreadStep(t) PROVE OrderInv'
  <2>1. Moves /\ UNCHANGED <<queue, serving, busVars>> /\ conn'["events"].up = conn["events"].up
    BY <1>3, ThreadMoves, ThreadLeaves DEF serverVars, Conn
  <2> QED
    BY <2>1, MovesOrder
<1>4. ASSUME NEW p \in Pattern, Subscribe(p) \/ Unsubscribe(p) PROVE OrderInv'
  BY <1>4, MovesOrder DEF Subscribe, Unsubscribe, serverVars, busVars, Moves, Buffer, Wire
<1>5. ASSUME NEW c \in Conn, Close(c) \/ Hangup(c) PROVE OrderInv'
  BY <1>5, CutOrder
<1>6. ASSUME NEW c \in Conn, Answer(c) PROVE OrderInv'
  <2>1. c = "shared" /\ OnlyConn(c) /\ UNCHANGED <<clientVars, queue, serving, busVars>>
    BY <1>6, AnswerEffect DEF Answer, Sent
  <2>2. conn'["events"] = conn["events"]
    BY <2>1 DEF OnlyConn, Conn
  <2> QED
    BY <2>1, <2>2, MovesOrder DEF clientVars, serverVars, Moves, Buffer, Wire
<1>7. CASE PollServed
  BY <1>7, StartOrder, PopOrder, CollectOrder, FinishOrder DEF PollServed
<1>8. ASSUME NEW b \in Publisher, PublisherStep(b) \/ \E topic \in Topic : Publish(b, topic)
      PROVE  OrderInv'
  BY <1>8, TakeOrder, AppendOrder, PublishOrder DEF PublisherStep
<1> QED
  BY <1>1, <1>2, <1>3, <1>4, <1>5, <1>6, <1>7, <1>8 DEF Next

(* Nothing is out of order at the start.                                    *)
LEMMA OrderInit == Init => OrderInv
<1> SUFFICES ASSUME Init PROVE OrderInv
  OBVIOUS
<1>1. /\ delivered = [p \in Pattern |-> <<>>] /\ appended = [p \in Pattern |-> <<>>]
      /\ queue = [p \in Pattern |-> <<>>] /\ serving = NotServing
      /\ Buffer = <<>> /\ Wire = <<>> /\ \A b \in Publisher : ~Pending(b)
  BY DEF Init, Buffer, Wire, Conn, Pending
<1>2. /\ UnderWay = {} /\ InPoll = {}
      /\ \A p \in Pattern : /\ ItemsOf(delivered[p]) = {} /\ Held(p) = {} /\ Queued(p) = {}
                            /\ ItemsOf(appended[p]) = {} /\ Reached(p) = {}
  BY <1>1, ItemsOfEmpty, InRepliesEmpty DEF UnderWay, InPoll, Held, Queued, Reached
<1>3. Topics /\ Serves /\ Popping
  BY <1>1, <1>2 DEF Topics, PendingOk, Serves, Popping
<1>4. Numbers
  <2>1. Published = {} /\ 0 \in 0..MaxEvents /\ 1..0 = {}
    BY <1>1, <1>2, TransportAssumption DEF Published, Pending
  <2> QED
    BY <1>2, <2>1 DEF Numbers, Numbered
<1>5. \A p \in Pattern : Ordered(p) /\ Fresh(p)
  BY <1>1, <1>2, ItemsOfEmpty, InRepliesEmpty DEF Ordered, Fresh, Chain, Before
<1> QED
  BY <1>3, <1>4, <1>5 DEF OrderInv

-----------------------------------------------------------------------------
(* The latest events are there.                                             *)

(* The end of a sequence.                                                   *)
Ends(s, t) == \E n \in 0..Len(t) : s = Suffix(t, n)

(* Nothing is an end of everything.                                         *)
LEMMA EndsEmpty ==
  ASSUME NEW S, NEW t \in Seq(S)
  PROVE  Ends(<<>>, t)
<1>1. Len(t) \in Nat /\ Len(t) \in 0..Len(t)
  BY LenProperties
<1>2. Suffix(t, Len(t)) \in Seq(S) /\ Len(Suffix(t, Len(t))) = Len(t) - Len(t)
  BY <1>1, SuffixFacts
<1>3. Suffix(t, Len(t)) = <<>>
  BY <1>1, <1>2, EmptySeq
<1> QED
  BY <1>1, <1>3 DEF Ends

(* An end of an end is an end.                                              *)
LEMMA EndsSuffix ==
  ASSUME NEW S, NEW s \in Seq(S), NEW t \in Seq(S), Ends(s, t), NEW m \in 0..Len(s)
  PROVE  Ends(Suffix(s, m), t)
<1>1. PICK n \in 0..Len(t) : s = Suffix(t, n)
  BY DEF Ends
<1>2. /\ Len(t) \in Nat /\ Len(s) = Len(t) - n
      /\ \A i \in 1..Len(t) - n : s[i] = t[n + i]
  BY <1>1, SuffixFacts, LenProperties
<1>3. PICK j \in 0..Len(t) : j = n + m
  BY <1>2
<1>4. /\ Suffix(s, m) \in Seq(S) /\ Len(Suffix(s, m)) = Len(s) - m
      /\ \A i \in 1..Len(s) - m : Suffix(s, m)[i] = s[m + i]
  BY SuffixFacts
<1>5. /\ Suffix(t, j) \in Seq(S) /\ Len(Suffix(t, j)) = Len(t) - j
      /\ \A i \in 1..Len(t) - j : Suffix(t, j)[i] = t[j + i]
  BY <1>3, SuffixFacts
<1>6. Len(Suffix(s, m)) = Len(Suffix(t, j))
  <2>1. n \in Nat /\ m \in Nat /\ j = n + m /\ Len(t) \in Nat
    BY <1>2, <1>3
  <2>2. Len(Suffix(s, m)) = (Len(t) - n) - m /\ Len(Suffix(t, j)) = Len(t) - j
    BY <1>2, <1>4, <1>5
  <2> QED
    BY <2>1, <2>2
<1>7. ASSUME NEW i \in 1..Len(Suffix(s, m)) PROVE Suffix(s, m)[i] = Suffix(t, j)[i]
  <2>1. i \in 1..Len(s) - m /\ m + i \in 1..Len(t) - n /\ i \in 1..Len(t) - j
    BY <1>2, <1>3, <1>4, <1>7
  <2>2. Suffix(s, m)[i] = t[n + (m + i)] /\ Suffix(t, j)[i] = t[j + i]
    BY <1>2, <1>4, <1>5, <2>1
  <2> QED
    BY <1>3, <2>1, <2>2
<1>8. Suffix(s, m) = Suffix(t, j)
  BY <1>4, <1>5, <1>6, <1>7, SeqEqual
<1> QED
  BY <1>3, <1>8 DEF Ends

(* An end stays one when both get an item more.                             *)
LEMMA EndsAppend ==
  ASSUME NEW S, NEW s \in Seq(S), NEW t \in Seq(S), Ends(s, t), NEW e \in S
  PROVE  Ends(Append(s, e), Append(t, e))
<1>1. PICK n \in 0..Len(t) : s = Suffix(t, n)
  BY DEF Ends
<1>2. /\ Len(t) \in Nat /\ Len(s) = Len(t) - n
      /\ \A i \in 1..Len(t) - n : s[i] = t[n + i]
  BY <1>1, SuffixFacts, LenProperties
<1>3. /\ Append(s, e) \in Seq(S) /\ Len(Append(s, e)) = Len(s) + 1
      /\ \A i \in 1..Len(s) : Append(s, e)[i] = s[i]
      /\ Append(s, e)[Len(s) + 1] = e
  BY AppendProperties
<1>4. /\ Append(t, e) \in Seq(S) /\ Len(Append(t, e)) = Len(t) + 1
      /\ \A i \in 1..Len(t) : Append(t, e)[i] = t[i]
      /\ Append(t, e)[Len(t) + 1] = e
  BY AppendProperties
<1> DEFINE u == Append(t, e)
<1>5. u \in Seq(S) /\ n \in 0..Len(u)
  BY <1>2, <1>4
<1>6. /\ Suffix(u, n) \in Seq(S) /\ Len(Suffix(u, n)) = Len(u) - n
      /\ \A i \in 1..Len(u) - n : Suffix(u, n)[i] = u[n + i]
  <2> HIDE DEF u
  <2> QED
    BY <1>5, SuffixFacts
<1>7. Len(Append(s, e)) = Len(Suffix(u, n))
  BY <1>2, <1>3, <1>4, <1>6
<1>8. ASSUME NEW i \in 1..Len(Append(s, e)) PROVE Append(s, e)[i] = Suffix(u, n)[i]
  <2>1. i \in 1..Len(u) - n /\ i \in 1..Len(s) + 1 /\ Len(s) \in Nat
    BY <1>2, <1>3, <1>4, <1>8
  <2>2. CASE i \in 1..Len(s)
    <3>1. n + i \in 1..Len(t) /\ i \in 1..Len(t) - n
      BY <1>2, <2>2
    <3>2. u[n + i] = t[n + i] /\ Append(s, e)[i] = t[n + i]
      BY <1>2, <1>3, <1>4, <2>2, <3>1
    <3> QED
      BY <1>6, <2>1, <3>2
  <2>3. CASE i = Len(s) + 1
    <3>1. n + i = Len(t) + 1
      BY <1>2, <2>3
    <3> QED
      BY <1>3, <1>4, <1>6, <2>1, <2>3, <3>1
  <2> QED
    BY <2>1, <2>2, <2>3
<1>9. Append(s, e) = Suffix(u, n)
  <2> HIDE DEF u
  <2> QED
    BY <1>3, <1>6, <1>7, <1>8, SeqEqual
<1> QED
  BY <1>5, <1>9 DEF Ends

(* The latest items of a sequence, and of one with an item more.            *)
LEMMA LatestItems ==
  ASSUME NEW S, NEW t \in Seq(S), NEW n \in Nat
  PROVE  ItemsOf(Latest(t, n)) = {t[i] : i \in {k \in 1..Len(t) : k + n > Len(t)}}
<1> DEFINE m == IF Len(t) <= n THEN 0 ELSE Len(t) - n
<1>1. Latest(t, n) = Suffix(t, m) /\ Len(t) \in Nat
  BY LatestFacts
<1>2. m \in 0..Len(t)
  BY <1>1
<1>3. m + 1..Len(t) = {k \in 1..Len(t) : k + n > Len(t)}
  BY <1>1
<1> HIDE DEF m
<1>4. ItemsOf(Suffix(t, m)) = {t[i] : i \in m + 1..Len(t)}
  BY <1>2, SplitItems
<1> QED
  BY <1>1, <1>3, <1>4

(* With an item more, no other is among the latest that was not before.     *)
LEMMA LatestAppend ==
  ASSUME NEW S, NEW t \in Seq(S), NEW e \in S, NEW n \in Nat
  PROVE  ItemsOf(Latest(Append(t, e), n)) \subseteq ItemsOf(Latest(t, n)) \cup {e}
<1> DEFINE u == Append(t, e)
<1>1. /\ u \in Seq(S) /\ Len(u) = Len(t) + 1 /\ Len(t) \in Nat
      /\ \A i \in 1..Len(t) : u[i] = t[i]
      /\ u[Len(t) + 1] = e
  BY AppendProperties, LenProperties
<1> HIDE DEF u
<1>2. ASSUME NEW i \in 1..Len(u), i + n > Len(u)
      PROVE  u[i] = e \/ \E k \in 1..Len(t) : k + n > Len(t) /\ u[i] = t[k]
  BY <1>1, <1>2
<1>3. /\ ItemsOf(Latest(u, n)) = {u[i] : i \in {k \in 1..Len(u) : k + n > Len(u)}}
      /\ ItemsOf(Latest(t, n)) = {t[i] : i \in {k \in 1..Len(t) : k + n > Len(t)}}
  BY <1>1, LatestItems
<1> QED
  BY <1>2, <1>3 DEF u

(* An end that is long enough has the latest items.                         *)
LEMMA LatestInEnd ==
  ASSUME NEW S, NEW s \in Seq(S), NEW t \in Seq(S), Ends(s, t), NEW n \in Nat, n <= Len(s)
  PROVE  ItemsOf(Latest(t, n)) \subseteq ItemsOf(s)
<1>1. PICK m \in 0..Len(t) : s = Suffix(t, m)
  BY DEF Ends
<1>2. Len(t) \in Nat /\ Len(s) = Len(t) - m /\ ItemsOf(s) = {t[i] : i \in m + 1..Len(t)}
  BY <1>1, SuffixFacts, SplitItems, LenProperties
<1>3. \A i \in 1..Len(t) : i + n > Len(t) => i \in m + 1..Len(t)
  BY <1>2
<1>4. ItemsOf(Latest(t, n)) = {t[i] : i \in {k \in 1..Len(t) : k + n > Len(t)}}
  BY LatestItems
<1> QED
  BY <1>2, <1>3, <1>4

-----------------------------------------------------------------------------
(* Where no event is published in the middle of a poll, the replies to      *)
(* polls come in time, and nobody unsubscribes.                             *)
Calm == {"overlap", "slow", "lost", "leave"} \cap setting = {}

(* The settings that are not calm, one by one.                              *)
LEMMA CalmMeans == Calm => ~May("overlap") /\ ~May("slow") /\ ~May("lost") /\ ~May("leave")
BY DEF Calm, May

Asks == ItemsOf(conn["events"].requests)
Lines == ItemsOf(Buffer) \cup ItemsOf(Wire)
Unsent == sending["events"].unsent

(* There is no reply but to the poll that is waited for;  the server has    *)
(* read every request, the reply to a request that is not answered has not  *)
(* been tried, and a line that cannot be decoded is among those that did    *)
(* not go out whole;  nothing is published meanwhile;  and what is asked    *)
(* for, published or appended has a subscription.                           *)
OwnPolls == IdsIn("events") \subseteq IF Awaits(Poller) THEN {thread[Poller].request.id} ELSE {}
Undecided == {r.id : r \in Asks} \cup Served("events")
  \cup IF thread[Poller].phase = "calling" THEN {thread[Poller].request.id} ELSE {}
NoRemains ==
  /\ sending["events"].stalled = 0
  /\ Undecided \cap UnsentIds("events") = {}
  /\ \A r \in Lines : r.id \in UnsentIds("events") => r \in Unsent
Meanwhile == \A b \in Publisher :
  Pending(b) => serving = NotServing /\ publishing[b].to = "queue"
Wanted ==
  /\ subscribed \subseteq subscriptions
  /\ \A r \in Asks : r.topics \subseteq subscriptions
  /\ Busy(Poller) => thread[Poller].request.topics \subseteq subscriptions
  /\ \A b \in Publisher : Pending(b) => publishing[b].left \subseteq subscriptions
  /\ \A p \in Pattern : appended[p] # <<>> => p \in subscriptions

(* What is queued, popped or kept is the end of what was appended, and only *)
(* one of them is;  and the latest events are somewhere, or were in a reply *)
(* that did not go out whole.                                               *)
Lasts(p) ==
  /\ Ends(queue[p], appended[p])
  /\ serving # NotServing =>
       /\ serving.at = p => Ends(serving.popped, appended[p]) /\ queue[p] = <<>>
       /\ \A k \in KeptFor(p) : Ends(k.events, appended[p]) /\ queue[p] = <<>>
Known(p) == Reached(p) \cup UnsentEvents
Kept(p) == Due(p) \subseteq Known(p)

Polls == OwnPolls /\ NoRemains
InCalm == Polls /\ Meanwhile /\ Wanted /\ \A p \in Pattern : Lasts(p) /\ Kept(p)
CalmInv == Calm => InCalm

(* What a step of a thread then does: it reads replies, drops one that it   *)
(* cannot decode, or gives the events of one to callbacks.                  *)
Reads ==
  \/ Buffer' = Buffer /\ Wire' = Wire /\ delivered' = delivered
  \/ /\ delivered' = delivered /\ Buffer = <<>>
     /\ \E n \in 0..Len(Wire) : Buffer' = Prefix(Wire, n) /\ Wire' = Suffix(Wire, n)
  \/ /\ Buffer # <<>> /\ Buffer' = Tail(Buffer) /\ Wire' = Wire
     /\ \/ Dispatch(Poller, Head(Buffer))
        \/ delivered' = delivered /\ Head(Buffer) \in Unsent
Calling == thread[Poller].phase = "calling"
GoesOnPolling ==
  /\ Busy(Poller)' => Busy(Poller) /\ thread'[Poller].request = thread[Poller].request
  /\ Calling' => Calling
  /\ \A r \in Asks' : r \in Asks \/ (Calling /\ r = thread[Poller].request)

(* Where replies come in time, the thread that polls reads its own reply,   *)
(* and gives up only when it did not go out whole.                          *)
LEMMA CalmThread ==
  ASSUME CallsType, RepliesInv, Calm, Polls, NEW t \in Thread, ThreadStep(t)
  PROVE  OwnPolls' /\ Reads /\ GoesOnPolling
<1> DEFINE k == conn["events"]
           i == thread[Poller].request.id
<1>1. /\ ~May("slow") /\ ~May("lost") /\ k.sock /\ k.up /\ Poller \in Thread
      /\ "events" \in Conn /\ k \in Connection /\ k.requests \in Seq(Request)
      /\ ConnOf(Poller) = "events"
  BY CalmMeans, ConnFields DEF RepliesInv, Alive, Conn, Thread, ConnOf
<1>2. (EndsCall(t) \/ GoesOn(t)) /\ OwnPolls /\ NoRemains
  BY ThreadIds DEF Polls
<1>3. UNCHANGED <<setting, serving>> /\ (~Drain(t) => delivered' = delivered)
  BY ThreadLeaves DEF serverVars
<1>4. CASE t # Poller
  <2>1. ConnOf(t) = "shared" /\ OnlyConn(ConnOf(t)) /\ OnlyThread(t)
    BY <1>2, <1>4 DEF ConnOf, EndsCall, GoesOn, Ended
  <2>2. conn'["events"] = conn["events"] /\ thread'[Poller] = thread[Poller]
    BY <1>1, <1>4, <2>1 DEF OnlyConn, OnlyThread, Conn
  <2>3. delivered' = delivered
    <3>1. CASE Drain(t)
      <4>1. Drains(t)
        BY <3>1, DrainEffect
      <4> QED
        BY <1>4, <4>1 DEF Drains, Dispatch
    <3> QED
      BY <1>3, <3>1
  <2>4. OwnPolls'
    BY <1>2, <1>3, <2>2 DEF OwnPolls, IdsIn, Served, Awaits
  <2> QED
    BY <2>2, <2>3, <2>4 DEF Reads, GoesOnPolling, Calling, Buffer, Wire, Asks, Busy
<1>5. CASE t = Poller
  <2>1. ASSUME GoesOn(t) PROVE OwnPolls'
    <3>1. /\ IdsIn("events")' \subseteq IdsIn("events") \cup {i} /\ Awaits(Poller)'
          /\ thread'[Poller].request.id = i
      BY <1>1, <1>5, <2>1 DEF GoesOn, IdsKept
    <3> QED
      BY <1>2, <3>1 DEF OwnPolls
  <2>2. CASE Send(t)
    <3>1. Sends(t) /\ thread[t].phase = "calling" /\ delivered' = delivered
      BY <1>3, <2>2, SendEffect DEF Send
    <3>2. IdsIn("events") = {}
      BY <1>2, <1>5, <3>1 DEF OwnPolls, Awaits
    <3>3. Stashed(t) = {}
      BY <1>1, <1>5, <3>2 DEF Stashed, IdsIn, AllIds, IdsAside
    <3>4. /\ Stands(conn'["events"], k.sock, k.up, Append(k.requests, thread[t].request),
                    k.replies, k.buffer, k.stash)
          /\ thread[t] \in Called /\ thread'[t].phase = "waiting"
          /\ thread'[t].request = thread[t].request
      BY <1>1, <1>5, <3>1, <3>3 DEF Sends
    <3>5. GoesOn(t)
      BY <1>2, <3>4 DEF EndsCall, Ended, Idle
    <3>6. Reads
      BY <3>1, <3>4 DEF Reads, Stands, Buffer, Wire
    <3>7. Asks' = Asks \cup {thread[t].request}
      <4>1. thread[t].request \in Request
        BY <3>4 DEF Called
      <4>2. ItemsOf(Append(k.requests, thread[t].request))
              = ItemsOf(k.requests) \cup {thread[t].request}
        BY <1>1, <4>1, ItemsOfAppend
      <4> QED
        BY <3>4, <4>2 DEF Stands, Asks
    <3>8. Busy(Poller) /\ Calling
      BY <1>5, <3>1 DEF Busy, Calling
    <3> QED
      BY <1>5, <2>1, <3>4, <3>5, <3>6, <3>7, <3>8 DEF GoesOnPolling
  <2>3. CASE Acquire(t)
    <3>1. /\ Stands(conn'["events"], k.sock, k.up, k.requests, k.replies, k.buffer, k.stash)
          /\ thread[t].phase = "waiting" /\ thread'[t].phase = "receiving"
          /\ delivered' = delivered
      BY <1>5, <1>1, <2>3, AcquireEffect DEF Acquire
    <3>2. GoesOn(t)
      BY <1>2, <3>1 DEF EndsCall, Ended, Idle
    <3>3. Busy(Poller) /\ thread'[Poller].request = thread[Poller].request
      BY <1>5, <3>1, <3>2 DEF Busy, GoesOn
    <3>4. Reads /\ Asks' = Asks
      BY <3>1 DEF Reads, Stands, Buffer, Wire, Asks
    <3> QED
      BY <1>5, <2>1, <3>1, <3>2, <3>3, <3>4 DEF GoesOnPolling, Calling
  <2>4. CASE Drain(t)
    <3>1. /\ Drains(t) /\ thread[t].phase = "receiving" /\ k.buffer # <<>>
          /\ k.buffer \in Seq(Reply)
      BY <1>1, <1>5, <2>4, DrainEffect, ConnFields
    <3>2. Head(k.buffer).id = i
      <4>1. Head(k.buffer).id \in IdsOf(k.buffer)
        BY <3>1, HeadTailProperties DEF IdsOf
      <4>2. Awaits(Poller)
        BY <1>5, <3>1 DEF Awaits
      <4> QED
        BY <1>2, <4>1, <4>2 DEF OwnPolls, IdsIn, AllIds
    <3>3. /\ Ended(t, "answered", i) /\ Dispatch(Poller, Head(k.buffer))
          /\ Stands(conn'["events"], k.sock, k.up, k.requests, k.replies, Tail(k.buffer), k.stash)
      BY <1>1, <1>5, <3>1, <3>2 DEF Drains
    <3>4. thread'[Poller].phase = "idle" /\ Asks' = Asks
      BY <1>5, <3>3 DEF Ended, Idle, Stands, Asks
    <3>5. EndsCall(t)
      BY <1>2, <1>5, <3>4 DEF GoesOn, Awaits
    <3>6. i \notin IdsIn("events")' /\ IdsIn("events")' \subseteq IdsIn("events") \cup {i}
      <4>1. PICK how, reply : Ended(t, how, reply) /\ (how = "answered" => i \notin IdsIn("events")')
        BY <1>1, <1>5, <3>5 DEF EndsCall
      <4>2. how = "answered"
        BY <3>3, <4>1 DEF Ended
      <4> QED
        BY <1>1, <1>5, <3>5, <4>1, <4>2 DEF EndsCall, IdsKept
    <3>7. OwnPolls'
      BY <1>2, <3>6 DEF OwnPolls
    <3>8. Reads
      BY <3>1, <3>3 DEF Reads, Stands, Buffer, Wire
    <3> QED
      BY <3>4, <3>7, <3>8 DEF GoesOnPolling, Busy, Calling
  <2>5. CASE Receive(t)
    <3>1. /\ Receives(t) /\ Buffer = <<>> /\ delivered' = delivered
          /\ thread[t].phase = "receiving"
      BY <1>1, <1>3, <1>5, <2>5, ReceiveEffect DEF Buffer, Receive
    <3>2. PICK n \in 1..Len(k.replies) :
            /\ Stands(conn'["events"], k.sock, k.up, k.requests, Suffix(k.replies, n),
                      Prefix(k.replies, n), k.stash)
            /\ thread' = thread
      BY <1>1, <1>5, <3>1 DEF Receives
    <3>3. GoesOn(t)
      BY <1>2, <3>1, <3>2 DEF EndsCall, Ended, Idle
    <3>4. n \in 0..Len(Wire)
      BY <1>1, <3>2, ConnFields, LenProperties DEF Wire
    <3>5. Reads /\ Asks' = Asks
      BY <3>1, <3>2, <3>4 DEF Reads, Stands, Buffer, Wire, Asks
    <3> QED
      BY <2>1, <3>2, <3>3, <3>5 DEF GoesOnPolling, Busy, Calling
  <2>6. CASE Crash(t)
    BY <1>1, <1>5, <2>6 DEF Crash
  <2>7. CASE TimeOut(t)
    <3>1. /\ thread[t].phase = "receiving" /\ k.buffer = <<>> /\ ~OnItsWay(t)
      BY <1>1, <1>5, <2>7 DEF TimeOut, Receiving
    <3>2. i \notin IdsIn("events")
      <4>1. SUFFICES ASSUME i \in IdsIn("events") PROVE FALSE
        OBVIOUS
      <4>2. i \notin IdsOf(k.requests)
        <5>1. ASSUME i \in IdsOf(k.requests) PROVE FALSE
          <6>1. k.requests # <<>>
            BY <5>1, IdsOfEmpty
          <6>2. Len(k.requests) \in Nat /\ Len(k.requests) # 0
            BY <1>1, <6>1, LenProperties, EmptySeq
          <6>3. sending["events"].stalled = 0
            BY <1>2 DEF NoRemains
          <6>4. Readable("events")
            BY <1>1, <6>2, <6>3 DEF Readable
          <6> QED
            BY <1>1, <1>5, <3>1, <5>1, <6>4 DEF OnItsWay
        <5> QED
          BY <5>1
      <4>3. i \in IdsAside(k.stash)
        BY <1>1, <1>5, <3>1, <4>1, <4>2, IdsOfEmpty DEF OnItsWay, IdsIn, AllIds, Served
      <4>4. Stashed(t) # {}
        BY <1>1, <1>5, <4>3 DEF Stashed, IdsAside
      <4> QED
        BY <1>1, <1>5, <3>1, <4>4 DEF RepliesInv, NotPutAside
    <3>3. IdsIn("events") = {}
      BY <1>2, <3>2 DEF OwnPolls
    <3>4. /\ \E how \in Failure : Ended(t, how, None)
          /\ Stands(conn'["events"], k.sock, k.up, k.requests, k.replies, k.buffer, k.stash)
      BY <1>1, <1>5, <2>7, GivesUpEffect
    <3>5. IdsIn("events")' = IdsIn("events")
      <4>1. Served("events")' = Served("events")
        BY <1>3 DEF Served
      <4>2. IdsIn("events")' = AllIds(k.requests, k.replies, k.buffer, k.stash, Served("events"))
        BY <1>1, <3>4, <4>1, OtherContents
      <4> QED
        BY <4>2 DEF IdsIn
    <3>6. OwnPolls'
      BY <3>3, <3>5 DEF OwnPolls
    <3>7. Reads /\ Asks' = Asks
      BY <1>3, <2>7, <3>4 DEF Reads, Stands, Buffer, Wire, Asks, TimeOut
    <3> QED
      BY <1>5, <3>4, <3>6, <3>7 DEF GoesOnPolling, Busy, Calling, Ended, Idle
  <2>8. CASE DrainGarbled(t)
    <3>1. /\ Ended(t, "garbled", None) /\ k.buffer # <<>> /\ k.buffer \in Seq(Reply)
          /\ Head(k.buffer).id \in UnsentIds("events") /\ delivered' = delivered
          /\ Stands(conn'["events"], k.sock, k.up, k.requests, k.replies, Tail(k.buffer), k.stash)
      BY <1>1, <1>5, <2>8, DrainGarbledEffect, ConnFields
    <3>2. IdsIn("events")' = IdsIn("events") \ {Head(k.buffer).id}
      BY <1>1, <1>3, <1>5, <2>8, DrainGarbledIds DEF Served
    <3>3. Head(k.buffer).id \in IdsOf(k.buffer) /\ Head(k.buffer) \in ItemsOf(k.buffer)
      BY <3>1, HeadTailProperties DEF IdsOf, ItemsOf
    <3>4. IdsIn("events")' = {}
      BY <1>2, <3>2, <3>3 DEF OwnPolls, IdsIn, AllIds
    <3>5. OwnPolls'
      BY <3>4 DEF OwnPolls
    <3>6. Head(k.buffer) \in Unsent
      BY <1>2, <3>1, <3>3 DEF NoRemains, Lines, Buffer
    <3>7. Reads /\ Asks' = Asks
      BY <3>1, <3>6 DEF Reads, Stands, Buffer, Wire, Asks
    <3> QED
      BY <1>5, <3>1, <3>5, <3>7 DEF GoesOnPolling, Busy, Calling, Ended, Idle
  <2> QED
    BY <2>2, <2>3, <2>4, <2>5, <2>6, <2>7, <2>8 DEF ThreadStep
<1> QED
  BY <1>4, <1>5

(* What is not lost is still somewhere.                                     *)
LEMMA StaysKept ==
  ASSUME CallsType, EventsType, NEW p \in Pattern, Kept(p), UNCHANGED <<setting, appended>>,
         \A e \in ItemsOf(appended[p]) \cap Serializable : e \in Known(p) => e \in Known(p)'
  PROVE  Kept(p)'
<1>1. appended[p] \in Seq(Event) /\ MaxQueue \in Nat
  BY WhereTypes, TransportAssumption
<1>2. /\ ItemsOf(Latest(appended[p], MaxQueue))
           = {appended[p][i] : i \in {k \in 1..Len(appended[p]) : k + MaxQueue > Len(appended[p])}}
      /\ DOMAIN appended[p] = 1..Len(appended[p])
  BY <1>1, LatestItems, LenProperties
<1>3. ItemsOf(Latest(appended[p], MaxQueue)) \subseteq ItemsOf(appended[p])
  BY <1>2 DEF ItemsOf
<1>4. Due(p)' = Due(p) /\ Due(p) \subseteq ItemsOf(appended[p]) \cap Serializable
  BY <1>3 DEF Due, Serializable, May
<1> QED
  BY <1>4 DEF Kept

(* Nothing is lost on the way to the callbacks.                             *)
LEMMA ReadsKept ==
  ASSUME CallsType, EventsType, Topics, Wanted, Reads, UNCHANGED <<queue, serving, appended>>,
         sending'["events"] = sending["events"],
         NEW p \in Pattern, NEW e \in ItemsOf(appended[p]), e \in Known(p)
  PROVE  e \in Known(p)'
<1>0. UnsentEvents' = UnsentEvents
  BY DEF UnsentEvents
<1>1. Buffer \in Seq(Reply) /\ Wire \in Seq(Reply) /\ delivered[p] \in Seq(Event)
  BY WhereTypes
<1>2. Held(p)' = Held(p) /\ InPoll' = InPoll /\ Queued(p)' = Queued(p)
  BY SameServing DEF Queued
<1>3. CASE Buffer' = Buffer /\ Wire' = Wire /\ delivered' = delivered
  BY <1>0, <1>2, <1>3 DEF Known, Reached, UnderWay
<1>4. ASSUME NEW n \in 0..Len(Wire), delivered' = delivered, Buffer = <<>>,
             Buffer' = Prefix(Wire, n), Wire' = Suffix(Wire, n)
      PROVE  e \in Known(p)'
  <2>1. InReplies(Wire) = InReplies(Prefix(Wire, n)) \cup InReplies(Suffix(Wire, n))
    BY <1>1, RepliesSplit
  <2>2. UnderWay' = UnderWay
    BY <1>4, <2>1, InRepliesEmpty DEF UnderWay
  <2> QED
    BY <1>0, <1>2, <1>4, <2>2 DEF Known, Reached
<1>5. CASE /\ Buffer # <<>> /\ Buffer' = Tail(Buffer) /\ Wire' = Wire
           /\ Dispatch(Poller, Head(Buffer))
  <2> DEFINE r == Head(Buffer)
             X == EventsFor(p, r.events)
  <2>1. /\ r \in Reply /\ InReplies(Buffer) = ItemsOf(r.events) \cup InReplies(Tail(Buffer))
    BY <1>1, <1>5, RepliesHead
  <2>2. UnderWay = ItemsOf(r.events) \cup UnderWay'
    BY <1>5, <2>1 DEF UnderWay
  <2>3. e \in Matching(p) /\ p \in subscriptions
    <3>1. appended[p] # <<>>
      BY ItemsOfEmpty
    <3> QED
      BY <3>1 DEF Topics, Wanted
  <2>4. Poller \in Thread /\ r.events \in Seq(Event)
    BY <2>1, ReplyId DEF Thread
  <2>5. delivered'[p] = delivered[p] \o X
    BY <1>5, <2>1, <2>3, <2>4, DispatchEffect
  <2>6. X \in Seq(Event) /\ ItemsOf(X) = {x \in ItemsOf(r.events) : x.topic \in Matches(p)}
    BY <2>4, EventsForFacts
  <2> HIDE DEF X
  <2>7. ItemsOf(delivered'[p]) = ItemsOf(delivered[p]) \cup ItemsOf(X)
    BY <1>1, <2>5, <2>6, ItemsOfConcat
  <2>8. e \in ItemsOf(r.events) => e \in ItemsOf(X)
    BY <2>3, <2>6 DEF Matching
  <2> QED
    BY <1>0, <1>2, <2>2, <2>7, <2>8 DEF Known, Reached
<1>6. CASE /\ Buffer # <<>> /\ Buffer' = Tail(Buffer) /\ Wire' = Wire
           /\ delivered' = delivered /\ Head(Buffer) \in Unsent
  <2>1. InReplies(Buffer) = ItemsOf(Head(Buffer).events) \cup InReplies(Tail(Buffer))
    BY <1>1, <1>6, RepliesHead
  <2>2. UnderWay = ItemsOf(Head(Buffer).events) \cup UnderWay'
    BY <1>6, <2>1 DEF UnderWay
  <2>3. ItemsOf(Head(Buffer).events) \subseteq UnsentEvents
    BY <1>6 DEF UnsentEvents, Unsent
  <2> QED
    BY <1>0, <1>2, <1>6, <2>2, <2>3 DEF Known, Reached
<1> QED
  BY <1>3, <1>4, <1>5, <1>6 DEF Reads

(* Steps that only read, ask or subscribe.                                  *)
LEMMA CalmReads ==
  ASSUME CallsType, EventsType, Topics, InCalm, Polls', Reads,
         UNCHANGED <<setting, subscribed, queue, serving, busVars>>,
         sending'["events"] = sending["events"], subscriptions \subseteq subscriptions',
         \A r \in Asks' : r.topics \subseteq subscriptions',
         Busy(Poller)' => thread'[Poller].request.topics \subseteq subscriptions'
  PROVE  InCalm'
<1>1. UNCHANGED <<queue, serving, appended, publishing, subscribed>>
  BY DEF busVars
<1>2. Meanwhile' /\ Wanted'
  BY <1>1 DEF InCalm, Meanwhile, Wanted, Pending
<1>3. \A p \in Pattern : Lasts(p)'
  BY <1>1, SameServing DEF InCalm, Lasts
<1>4. \A p \in Pattern : Kept(p)'
  BY <1>1, ReadsKept, StaysKept DEF InCalm
<1> QED
  BY <1>2, <1>3, <1>4 DEF InCalm

(* There is no reply but to the poll that is waited for, after each step.   *)
LEMMA SamePolls ==
  ASSUME OwnPolls, IdsIn("events")' \subseteq IdsIn("events"), thread'[Poller] = thread[Poller]
  PROVE  OwnPolls'
BY DEF OwnPolls, Awaits

(* The steps, one by one.                                                   *)
LEMMA OwnPollsStep ==
  ASSUME TypeInv, RepliesInv, Calm, Polls, [Next]_vars
  PROVE  OwnPolls'
<1>1. /\ CallsType /\ SendType /\ EventsType /\ Poller \in Thread /\ "events" \in Conn
      /\ OwnPolls
  BY DEF TypeInv, Thread, Conn, Polls
<1>2. ASSUME conn' = conn, thread'[Poller] = thread[Poller],
             \/ serving' = serving
             \/ serving \in Serving /\ serving' \in Serving /\ serving'.id = serving.id
      PROVE  OwnPolls'
  <2>1. Served("events")' = Served("events")
    BY <1>2, Notserving DEF Served
  <2> QED
    BY <1>1, <1>2, <2>1, SamePolls DEF IdsIn
<1>3. CASE UNCHANGED vars
  BY <1>2, <1>3 DEF vars, clientVars, serverVars
<1>4. ASSUME NEW t \in Caller, Call(t) PROVE OwnPolls'
  <2>1. Asked(t, {}) /\ t \in Thread
    BY <1>1, <1>4, AskEffect DEF Call, Thread
  <2>2. t # Poller
    BY TransportAssumption
  <2>3. thread'[Poller] = thread[Poller] /\ conn' = conn /\ serving' = serving
    BY <1>1, <1>4, <2>1, <2>2 DEF Asked, OnlyThread, Call, serverVars
  <2> QED
    BY <1>2, <2>3
<1>5. CASE Poll
  <2>1. conn' = conn /\ serving' = serving /\ thread[Poller] = Idle
    BY <1>5 DEF Poll, serverVars
  <2>2. IdsIn("events") = {}
    BY <1>1, <2>1, CalledFacts DEF OwnPolls, Awaits
  <2>3. IdsIn("events")' = {}
    BY <2>1, <2>2 DEF IdsIn, Served
  <2> QED
    BY <2>3 DEF OwnPolls
<1>6. ASSUME NEW t \in Thread, ThreadStep(t) PROVE OwnPolls'
  BY <1>1, <1>6, CalmThread
<1>7. ASSUME NEW p \in Pattern, Subscribe(p) \/ Unsubscribe(p) PROVE OwnPolls'
  BY <1>2, <1>7 DEF Subscribe, Unsubscribe, serverVars
<1>8. ASSUME NEW c \in Conn, Close(c) \/ Answer(c) \/ Hangup(c) PROVE OwnPolls'
  <2>1. Answer(c) /\ c = "shared"
    BY <1>8, CalmMeans DEF Close, Hangup, Answer
  <2>2. OnlyConn("shared") /\ serving' = serving /\ thread' = thread
    BY <1>1, <2>1, AnswerEffect DEF Answer, Sent, clientVars
  <2>3. IdsIn("events")' = IdsIn("events")
    BY <1>1, <2>2 DEF OnlyConn, IdsIn, Served
  <2> QED
    BY <1>1, <2>2, <2>3, SamePolls
<1>9. CASE PollServed
  <2>1. CASE StartPoll \/ FinishPoll
    <3>1. thread' = thread
      BY <2>1 DEF StartPoll, FinishPoll, clientVars
    <3>2. IdsIn("events")' \subseteq IdsIn("events")
      BY <1>1, <2>1, PollIds DEF IdsMove
    <3> QED
      BY <1>1, <3>1, <3>2, SamePolls
  <2>2. ASSUME NEW p \in Pattern, Pop(p) PROVE OwnPolls'
    BY <1>1, <1>2, <2>2, PopEffect DEF Pop, clientVars
  <2>3. ASSUME NEW p \in Pattern, Collect(p) PROVE OwnPolls'
    BY <1>1, <1>2, <2>3, CollectEffect DEF Collect, clientVars
  <2> QED
    BY <1>9, <2>1, <2>2, <2>3 DEF PollServed
<1>10. ASSUME NEW b \in Publisher, PublisherStep(b) \/ \E topic \in Topic : Publish(b, topic)
       PROVE  OwnPolls'
  <2>1. UNCHANGED <<conn, thread>>
    BY <1>10 DEF PublisherStep, Publish, Take, AppendTo, clientVars
  <2>2. \/ serving' = serving
        \/ serving \in Serving /\ serving' \in Serving /\ serving'.id = serving.id
    <3>1. ASSUME NEW p \in Pattern, AppendTo(b, p)
          PROVE  \/ serving' = serving
                 \/ serving \in Serving /\ serving' \in Serving /\ serving'.id = serving.id
      BY <1>1, <3>1, AppendToEffect
    <3> QED
      BY <1>10, <3>1 DEF PublisherStep, Publish, Take, serverVars
  <2> QED
    BY <1>2, <2>1, <2>2
<1> QED
  BY <1>3, <1>4, <1>5, <1>6, <1>7, <1>8, <1>9, <1>10 DEF Next

(* A line that is read is one no more, or one of the others.                *)
LEMMA ReadsLines ==
  ASSUME CallsType, EventsType, Reads
  PROVE  Lines' \subseteq Lines
<1>1. Buffer \in Seq(Reply) /\ Wire \in Seq(Reply)
  BY WhereTypes
<1>2. ASSUME NEW s \in Seq(Reply), NEW n \in 0..Len(s)
      PROVE  ItemsOf(Prefix(s, n)) \cup ItemsOf(Suffix(s, n)) \subseteq ItemsOf(s)
  <2>1. /\ ItemsOf(Prefix(s, n)) = {s[i] : i \in 1..n}
        /\ ItemsOf(Suffix(s, n)) = {s[i] : i \in n + 1..Len(s)}
        /\ ItemsOf(s) = {s[i] : i \in 1..Len(s)} /\ Len(s) \in Nat
    BY SplitItems, LenProperties
  <2> QED
    BY <2>1
<1>3. CASE Buffer' = Buffer /\ Wire' = Wire
  BY <1>3 DEF Lines
<1>4. ASSUME NEW n \in 0..Len(Wire), Buffer' = Prefix(Wire, n), Wire' = Suffix(Wire, n)
      PROVE  Lines' \subseteq Lines
  BY <1>1, <1>2, <1>4 DEF Lines
<1>5. CASE Buffer # <<>> /\ Buffer' = Tail(Buffer) /\ Wire' = Wire
  <2>1. Tail(Buffer) = Suffix(Buffer, 1) /\ 1 \in 0..Len(Buffer)
    BY <1>1, <1>5, HeadIsPrefix
  <2>2. ItemsOf(Tail(Buffer)) \subseteq ItemsOf(Buffer)
    BY <1>1, <1>2, <2>1
  <2> QED
    BY <1>5, <2>2 DEF Lines
<1> QED
  BY <1>3, <1>4, <1>5 DEF Reads

(* Steps in which the server sends nothing leave no remains.                *)
LEMMA SameRemains ==
  ASSUME NoRemains, sending'["events"].stalled = 0, Unsent' = Unsent,
         Undecided' \cap UnsentIds("events") = {}, Lines' \subseteq Lines
  PROVE  NoRemains'
<1>1. UnsentIds("events")' = UnsentIds("events")
  BY DEF UnsentIds, Unsent
<1> QED
  BY <1>1 DEF NoRemains

(* The reply to a poll is the only one, and the server has read every       *)
(* request before it.                                                       *)
LEMMA FinishRemains ==
  ASSUME CallsType, SendType, EventsType, RepliesInv, OwnPolls, NoRemains, FinishPoll
  PROVE  NoRemains'
<1> DEFINE k == conn["events"]
<1>1. /\ serving \in Serving /\ serving' = NotServing /\ "events" \in Conn
      /\ k.requests \in Seq(Request) /\ k.replies \in Seq(Reply) /\ k.buffer \in Seq(Reply)
      /\ serving # NotServing /\ Poller \in Thread /\ thread' = thread
  BY FinishPollEffect, ConnFields, Notserving DEF Conn, Thread, FinishPoll, clientVars
<1>2. PICK r \in Reply : r.id = serving.id /\ Sent("events", k.requests, r)
  BY FinishPollEffect
<1>3. Served("events") = {r.id} /\ Served("events")' = {}
  BY <1>1, <1>2 DEF Served
<1>4. /\ r.id \notin IdsOf(k.requests) \cup IdsOf(k.replies) \cup IdsOf(k.buffer)
      /\ IdsOf(k.requests) \cup IdsOf(k.replies) \cup IdsOf(k.buffer) \cup {r.id}
           \subseteq IdsIn("events")
  BY <1>1, <1>3 DEF RepliesInv, SingleIn, Single, IdsIn, AllIds
<1>5. Awaits(Poller) /\ IdsIn("events") = {r.id}
  BY <1>4 DEF OwnPolls
<1>6. /\ IdsOf(k.requests) = {} /\ IdsOf(k.replies) = {} /\ IdsOf(k.buffer) = {}
  BY <1>4, <1>5
<1>7. /\ k.requests = <<>> /\ ItemsOf(k.requests) = {}
      /\ ItemsOf(k.replies) = {} /\ k.replies = <<>> /\ ItemsOf(k.buffer) = {}
  <2>1. ASSUME NEW S, NEW s \in Seq(S), IdsOf(s) = {} PROVE s = <<>> /\ ItemsOf(s) = {}
    <3>1. DOMAIN s = 1..Len(s) /\ Len(s) \in Nat
      BY <2>1, LenProperties
    <3>2. DOMAIN s = {}
      BY <2>1, Zenon DEF IdsOf
    <3>3. Len(s) = 0
      BY <3>1, <3>2
    <3>4. s = <<>>
      BY <2>1, <3>3, EmptySeq
    <3> QED
      BY <3>4, ItemsOfEmpty
  <2> QED
    BY <1>1, <1>6, <2>1
<1>8. /\ conn'["events"].requests = <<>> /\ conn'["events"].buffer = k.buffer
      /\ conn'["events"].replies \in {k.replies, Append(k.replies, r)}
      /\ sending'["events"].stalled = 0
      /\ sending["events"].unsent \subseteq sending'["events"].unsent
      /\ sending'["events"].unsent \subseteq sending["events"].unsent \cup {r}
  <2>1. Len(k.requests) = 0 /\ 0..0 = {0}
    BY <1>7, EmptySeq
  <2> QED
    BY <1>2, <1>7, <2>1 DEF Sent, SentWhole, SentNot, Stands
<1>9. Undecided' = {}
  <2>1. Asks' = {} /\ thread'[Poller].phase # "calling"
    BY <1>1, <1>5, <1>8, ItemsOfEmpty DEF Asks, Awaits
  <2> QED
    BY <1>3, <2>1 DEF Undecided
<1>10. Lines' \subseteq {r}
  <2>1. ItemsOf(Append(k.replies, r)) = ItemsOf(k.replies) \cup {r}
    BY <1>1, ItemsOfAppend
  <2> QED
    BY <1>7, <1>8, <2>1 DEF Lines, Buffer, Wire
<1>11. r.id \notin UnsentIds("events")
  BY <1>3 DEF NoRemains, Undecided
<1>12. r.id \in UnsentIds("events")' => r \in Unsent'
  BY <1>8, <1>11 DEF UnsentIds, Unsent
<1> QED
  BY <1>8, <1>9, <1>10, <1>12 DEF NoRemains

(* Nothing remains to be read, after each step.                             *)
LEMMA NoRemainsStep ==
  ASSUME TypeInv, RepliesInv, Calm, Polls, [Next]_vars
  PROVE  NoRemains'
<1>1. /\ CallsType /\ SendType /\ EventsType /\ Poller \in Thread /\ "events" \in Conn
      /\ OwnPolls /\ NoRemains
  BY DEF TypeInv, Thread, Conn, Polls
<1>2. ASSUME conn'["events"] = conn["events"], sending'["events"] = sending["events"],
             Served("events")' = Served("events"), thread'[Poller] = thread[Poller]
      PROVE  NoRemains'
  <2>1. Lines' = Lines /\ Unsent' = Unsent /\ Undecided' = Undecided
    BY <1>2 DEF Lines, Buffer, Wire, Unsent, Undecided, Asks
  <2> QED
    BY <1>1, <1>2, <2>1, SameRemains DEF NoRemains
<1>3. CASE UNCHANGED vars
  BY <1>2, <1>3 DEF vars, clientVars, serverVars, Served
<1>4. ASSUME NEW t \in Caller, Call(t) PROVE NoRemains'
  <2>1. Asked(t, {}) /\ t \in Thread
    BY <1>1, <1>4, AskEffect DEF Call, Thread
  <2>2. t # Poller
    BY TransportAssumption
  <2>3. /\ thread'[Poller] = thread[Poller] /\ conn' = conn /\ serving' = serving
        /\ sending' = sending
    BY <1>1, <1>4, <2>1, <2>2 DEF Asked, OnlyThread, Call, serverVars
  <2> QED
    BY <1>2, <2>3 DEF Served
<1>5. CASE Poll
  <2>1. Asked(Poller, subscriptions)
    BY <1>1, <1>5, AskEffect DEF Poll, EventsType
  <2>2. conn' = conn /\ serving' = serving /\ sending' = sending
    BY <1>5 DEF Poll, serverVars
  <2>3. thread'[Poller].request.id \notin UnsentIds("events")
    BY <1>1, <2>1 DEF Asked, InUse, UnsentIds
  <2>4. Undecided' \subseteq Undecided \cup {thread'[Poller].request.id}
    BY <2>2 DEF Undecided, Asks, Served
  <2>5. Undecided' \cap UnsentIds("events") = {}
    BY <1>1, <2>3, <2>4 DEF NoRemains
  <2>6. Lines' = Lines /\ Unsent' = Unsent /\ sending'["events"].stalled = 0
    BY <1>1, <2>2 DEF Lines, Buffer, Wire, Unsent, NoRemains
  <2> QED
    BY <1>1, <2>5, <2>6, SameRemains
<1>6. ASSUME NEW t \in Thread, ThreadStep(t) PROVE NoRemains'
  <2>1. Reads /\ GoesOnPolling
    BY <1>1, <1>6, CalmThread
  <2>2. sending' = sending /\ serving' = serving
    BY <1>1, <1>6, ThreadLeaves DEF serverVars
  <2>3. Undecided' \subseteq Undecided
    <3>1. Calling' => Calling /\ thread'[Poller].request = thread[Poller].request
      <4>1. Calling => Busy(Poller)
        BY DEF Calling, Busy
      <4>2. Calling' => Busy(Poller)'
        BY DEF Calling, Busy
      <4> QED
        BY <2>1, <4>1, <4>2 DEF GoesOnPolling
    <3> QED
      BY <2>1, <2>2, <3>1 DEF GoesOnPolling, Undecided, Served, Calling
  <2>4. Lines' \subseteq Lines /\ Unsent' = Unsent /\ sending'["events"].stalled = 0
    BY <1>1, <2>1, <2>2, ReadsLines DEF Unsent, NoRemains
  <2> QED
    BY <1>1, <2>3, <2>4, SameRemains DEF NoRemains
<1>7. ASSUME NEW p \in Pattern, Subscribe(p) \/ Unsubscribe(p) PROVE NoRemains'
  BY <1>2, <1>7 DEF Subscribe, Unsubscribe, serverVars, Served
<1>8. ASSUME NEW c \in Conn, Close(c) \/ Answer(c) \/ Hangup(c) PROVE NoRemains'
  <2>1. Answer(c) /\ c = "shared"
    BY <1>8, CalmMeans DEF Close, Hangup, Answer
  <2>2. /\ OnlyConn("shared") /\ SendsOnly("shared") /\ serving' = serving /\ thread' = thread
    BY <1>1, <2>1, AnswerEffect DEF Answer, Sent, clientVars
  <2>3. conn'["events"] = conn["events"] /\ sending'["events"] = sending["events"]
    BY <1>1, <2>2 DEF OnlyConn, SendsOnly
  <2> QED
    BY <1>2, <2>2, <2>3 DEF Served
<1>9. CASE StartPoll
  <2> DEFINE s == conn["events"].requests
  <2>1. /\ s # <<>> /\ s \in Seq(Request) /\ conn'["events"].requests = Tail(s)
        /\ Buffer' = Buffer /\ Wire' = Wire /\ serving' \in Serving /\ serving'.id = Head(s).id
        /\ serving = NotServing /\ thread' = thread
        /\ sending'["events"].stalled = 0 /\ Unsent' = Unsent
    BY <1>1, <1>9, StartPollEffect, ConnFields
       DEF Stands, Buffer, Wire, Unsent, StartPoll, clientVars
  <2>2. Served("events")' = {Head(s).id}
    BY <2>1, Notserving DEF Served
  <2>3. Head(s) \in ItemsOf(s) /\ ItemsOf(Tail(s)) \subseteq ItemsOf(s)
    <3>1. /\ Head(s) = s[1] /\ Len(s) \in Nat /\ Len(s) > 0 /\ DOMAIN s = 1..Len(s)
          /\ Tail(s) \in Seq(Request) /\ Len(Tail(s)) = Len(s) - 1
          /\ \A i \in 1..Len(Tail(s)) : Tail(s)[i] = s[i + 1]
      BY <2>1, HeadTailProperties, LenProperties, EmptySeq
    <3>2. DOMAIN Tail(s) = 1..Len(Tail(s))
      BY <3>1, LenProperties
    <3> QED
      BY <3>1, <3>2 DEF ItemsOf
  <2>4. Undecided' \subseteq Undecided
    BY <2>1, <2>2, <2>3 DEF Undecided, Asks
  <2> QED
    BY <1>1, <2>1, <2>4, SameRemains DEF NoRemains, Lines
<1>10. CASE FinishPoll
  BY <1>1, <1>10, FinishRemains
<1>11. ASSUME NEW p \in Pattern, Pop(p) \/ Collect(p) PROVE NoRemains'
  <2>1. UNCHANGED <<conn, sending, thread>>
    BY <1>11 DEF Pop, Collect, clientVars
  <2>2. serving \in Serving /\ serving' \in Serving /\ serving'.id = serving.id
    BY <1>1, <1>11, PopEffect, CollectEffect
  <2> QED
    BY <1>2, <2>1, <2>2, Notserving DEF Served
<1>12. ASSUME NEW b \in Publisher, PublisherStep(b) \/ \E topic \in Topic : Publish(b, topic)
       PROVE  NoRemains'
  <2>1. UNCHANGED <<conn, sending, thread>>
    BY <1>12 DEF PublisherStep, Publish, Take, AppendTo, clientVars, serverVars
  <2>2. \/ serving' = serving
        \/ serving \in Serving /\ serving' \in Serving /\ serving'.id = serving.id
    <3>1. ASSUME NEW p \in Pattern, AppendTo(b, p)
          PROVE  \/ serving' = serving
                 \/ serving \in Serving /\ serving' \in Serving /\ serving'.id = serving.id
      BY <1>1, <3>1, AppendToEffect
    <3> QED
      BY <1>12, <3>1 DEF PublisherStep, Publish, Take, serverVars
  <2> QED
    BY <1>2, <2>1, <2>2, Notserving DEF Served
<1> QED
  BY <1>3, <1>4, <1>5, <1>6, <1>7, <1>8, <1>9, <1>10, <1>11, <1>12 DEF Next, PollServed

(* Asking, reading and subscribing.                                         *)
LEMMA AskCalm ==
  ASSUME TypeInv, RepliesInv, OrderInv, Calm, InCalm, Polls',
         \/ UNCHANGED vars \/ Poll \/ \E t \in Caller : Call(t)
         \/ \E p \in Pattern : Subscribe(p)
         \/ \E c \in Conn : Answer(c)
  PROVE  InCalm'
<1>1. /\ CallsType /\ SendType /\ EventsType /\ Topics
      /\ Poller \in Thread /\ "events" \in Conn
  BY DEF TypeInv, OrderInv, Thread, Conn
<1>2. Wanted
  BY DEF InCalm
<1>3. ASSUME UNCHANGED <<setting, subscribed, queue, serving, busVars, delivered>>,
             conn'["events"] = conn["events"], sending'["events"] = sending["events"],
             subscriptions \subseteq subscriptions',
             Busy(Poller)' => thread'[Poller].request.topics \subseteq subscriptions'
      PROVE  InCalm'
  <2>1. Reads
    BY <1>3 DEF Reads, Buffer, Wire
  <2>2. \A r \in Asks' : r.topics \subseteq subscriptions'
    BY <1>2, <1>3 DEF Wanted, Asks
  <2> QED
    BY <1>1, <1>3, <2>1, <2>2, CalmReads
<1>4. ASSUME UNCHANGED <<setting, subscribed, queue, serving, busVars, delivered>>,
             conn'["events"] = conn["events"], sending'["events"] = sending["events"],
             subscriptions \subseteq subscriptions', thread'[Poller] = thread[Poller]
      PROVE  InCalm'
  <2>1. Busy(Poller)' => thread'[Poller].request.topics \subseteq subscriptions'
    BY <1>2, <1>4 DEF Wanted, Busy
  <2> QED
    BY <1>3, <1>4, <2>1
<1>5. CASE UNCHANGED vars
  BY <1>4, <1>5 DEF vars, clientVars, serverVars
<1>6. CASE Poll
  <2>1. Asked(Poller, subscriptions)
    BY <1>1, <1>6, AskEffect DEF Poll, EventsType
  <2>2. UNCHANGED <<setting, conn, serverVars, busVars, delivered, subscriptions>>
    BY <1>6 DEF Poll
  <2> QED
    BY <1>3, <2>1, <2>2 DEF Asked, serverVars
<1>7. ASSUME NEW t \in Caller, Call(t) PROVE InCalm'
  <2>1. Asked(t, {}) /\ t \in Thread
    BY <1>1, <1>7, AskEffect DEF Call, Thread
  <2>2. t # Poller
    BY TransportAssumption
  <2>3. thread'[Poller] = thread[Poller]
    BY <1>1, <2>1, <2>2 DEF Asked, OnlyThread
  <2>4. UNCHANGED <<setting, conn, serverVars, busVars, delivered, subscriptions>>
    BY <1>7 DEF Call
  <2> QED
    BY <1>4, <2>3, <2>4 DEF serverVars
<1>8. ASSUME NEW p \in Pattern, Subscribe(p) PROVE InCalm'
  BY <1>4, <1>8 DEF Subscribe, serverVars
<1>9. ASSUME NEW c \in Conn, Answer(c) PROVE InCalm'
  <2>1. c = "shared" /\ UNCHANGED <<setting, clientVars, subscribed, queue, serving, busVars>>
    BY <1>9 DEF Answer
  <2>2. OnlyConn("shared") /\ SendsOnly("shared")
    BY <1>1, <1>9, <2>1, AnswerEffect DEF Sent
  <2>3. conn'["events"] = conn["events"] /\ sending'["events"] = sending["events"]
    BY <1>1, <2>2 DEF OnlyConn, SendsOnly
  <2> QED
    BY <1>4, <2>1, <2>3 DEF clientVars
<1> QED
  BY <1>5, <1>6, <1>7, <1>8, <1>9

(* Steps of a thread.                                                       *)
LEMMA ThreadCalm ==
  ASSUME TypeInv, RepliesInv, OrderInv, Calm, InCalm, Polls', NEW t \in Thread, ThreadStep(t)
  PROVE  InCalm'
<1>1. CallsType /\ EventsType /\ Topics /\ Wanted /\ Polls
  BY DEF TypeInv, OrderInv, InCalm
<1>2. Reads /\ GoesOnPolling
  BY <1>1, CalmThread
<1>3. /\ UNCHANGED <<setting, subscribed, queue, serving, busVars, subscriptions>>
      /\ sending' = sending
  BY <1>1, ThreadLeaves DEF serverVars
<1>4. Busy(Poller)' => thread'[Poller].request.topics \subseteq subscriptions'
  BY <1>1, <1>2, <1>3 DEF Wanted, GoesOnPolling
<1>5. \A r \in Asks' : r.topics \subseteq subscriptions'
  BY <1>1, <1>2, <1>3 DEF Wanted, GoesOnPolling, Busy, Calling
<1> QED
  BY <1>1, <1>2, <1>3, <1>4, <1>5, CalmReads

(* Steps of the server: what was somewhere still is.                        *)
LEMMA ServedCalm ==
  ASSUME CallsType, EventsType, InCalm, Polls', UNCHANGED <<setting, thread, subscriptions, appended>>,
         \A b \in Publisher : ~Pending(b)', subscribed' \subseteq subscriptions, Asks' \subseteq Asks,
         \A p \in Pattern : Lasts(p)' /\ Known(p) \cap Serializable \subseteq Known(p)'
  PROVE  InCalm'
<1>1. Meanwhile' /\ Wanted'
  BY DEF InCalm, Meanwhile, Wanted, Busy
<1>2. \A p \in Pattern : Kept(p)'
  BY StaysKept DEF InCalm
<1> QED
  BY <1>1, <1>2 DEF InCalm

(* A poll is taken up: it asks for what is subscribed to.                   *)
LEMMA StartCalm ==
  ASSUME CallsType, SendType, EventsType, RepliesInv, Calm, InCalm, Polls', StartPoll
  PROVE  InCalm'
<1>1. /\ UNCHANGED <<clientVars, queue, busVars>> /\ Buffer' = Buffer /\ Wire' = Wire
      /\ serving = NotServing /\ serving' \in Serving /\ serving'.at = None
      /\ serving'.popped = <<>> /\ serving'.events = <<>> /\ serving'.kept = <<>>
      /\ serving' # NotServing /\ setting' = setting /\ UnsentEvents' = UnsentEvents
  BY StartPollEffect, Notserving DEF StartPoll, Stands, Buffer, Wire, UnsentEvents
<1>2. \A b \in Publisher : ~Pending(b)'
  BY <1>1, CalmMeans DEF StartPoll, Pending, busVars
<1>3. /\ subscribed' = subscribed \cup Head(conn["events"].requests).topics
      /\ conn["events"].requests # <<>> /\ conn["events"].requests \in Seq(Request)
      /\ conn'["events"].requests = Tail(conn["events"].requests)
  BY StartPollEffect, ConnFields DEF Stands, Conn
<1>4. Head(conn["events"].requests) \in Asks /\ Asks' \subseteq Asks
  <2> DEFINE s == conn["events"].requests
  <2>1. /\ Head(s) = s[1] /\ Len(s) \in Nat /\ Len(s) > 0 /\ DOMAIN s = 1..Len(s)
        /\ Tail(s) \in Seq(Request) /\ Len(Tail(s)) = Len(s) - 1
        /\ \A i \in 1..Len(Tail(s)) : Tail(s)[i] = s[i + 1]
    BY <1>3, HeadTailProperties, LenProperties, EmptySeq
  <2>2. DOMAIN Tail(s) = 1..Len(Tail(s))
    BY <2>1, LenProperties
  <2>3. ItemsOf(Tail(s)) \subseteq ItemsOf(s) /\ Head(s) \in ItemsOf(s)
    BY <2>1, <2>2 DEF ItemsOf
  <2> QED
    BY <1>3, <2>3 DEF Asks
<1>5. subscribed' \subseteq subscriptions
  BY <1>3, <1>4 DEF InCalm, Wanted
<1>6. delivered' = delivered /\ UNCHANGED <<setting, thread, subscriptions, appended>>
  BY <1>1 DEF clientVars, busVars
<1>7. ItemsOf(serving'.kept) = {} /\ ItemsOf(serving'.events) = {}
  BY <1>1, ItemsOfEmpty
<1>8. /\ InPoll = {} /\ InPoll' = {} /\ UnderWay' = UnderWay
      /\ \A p \in Pattern : /\ KeptFor(p)' = {} /\ Held(p) = {} /\ Held(p)' = {}
                            /\ Queued(p)' = Queued(p)
  BY <1>1, <1>7, TransportAssumption DEF InPoll, KeptFor, KeptIn, Popped, Held, Queued, UnderWay
<1>9. \A p \in Pattern : Lasts(p)'
  BY <1>1, <1>6, <1>8, TransportAssumption DEF InCalm, Lasts
<1>10. \A p \in Pattern : Known(p) \subseteq Known(p)'
  BY <1>1, <1>6, <1>8 DEF Known, Reached
<1> QED
  BY <1>2, <1>4, <1>5, <1>6, <1>9, <1>10, ServedCalm

(* Where a poll is served, no publisher is about to append.                 *)
LEMMA NobodyMeanwhile ==
  ASSUME InCalm, serving # NotServing
  PROVE  /\ \A b \in Publisher : ~Pending(b)
         /\ \A T, to : Redirects(T, to) => \A b \in Publisher : ~Pending(b)'
BY DEF InCalm, Meanwhile, Redirects, Pending

(* A queue is popped: what is popped is the end of what was appended.       *)
LEMMA PopCalm ==
  ASSUME CallsType, EventsType, Serves, InCalm, Polls', NEW q \in Pattern, Pop(q)
  PROVE  InCalm'
<1>1. /\ UNCHANGED <<setting, conn, sending, clientVars, subscribed, appended>>
      /\ serving'.at = q /\ serving'.popped = queue[q] /\ serving # NotServing
  BY PopEffect, Notserving DEF Pop
<1>2. /\ queue'[q] = <<>> /\ \A p \in Pattern \ {q} : queue'[p] = queue[p]
      /\ InPoll' = InPoll /\ KeptFor(q) = {} /\ \A p \in Pattern : KeptFor(p)' = KeptFor(p)
      /\ \A p \in Pattern \ {q} : Held(p)' = Held(p) /\ Queued(p)' = Queued(p)
      /\ Held(q) = {} /\ Held(q)' = Queued(q) /\ Queued(q)' = {}
  BY PopWhere
<1>3. \A b \in Publisher : ~Pending(b)'
  BY <1>1, PopEffect, NobodyMeanwhile
<1>4. /\ UNCHANGED <<delivered, thread, subscriptions, appended>>
      /\ UnderWay' = UnderWay /\ Asks' = Asks /\ UnsentEvents' = UnsentEvents
  BY <1>1 DEF clientVars, UnderWay, Buffer, Wire, Asks, UnsentEvents
<1>5. ASSUME NEW p \in Pattern PROVE Lasts(p)'
  <2>1. Ends(<<>>, appended[p])
    BY WhereTypes, EndsEmpty
  <2> QED
    BY <1>1, <1>2, <2>1 DEF InCalm, Lasts
<1>6. \A p \in Pattern : Known(p) \subseteq Known(p)'
  BY <1>2, <1>4 DEF Known, Reached
<1> QED
  BY <1>1, <1>3, <1>4, <1>5, <1>6, ServedCalm DEF InCalm, Wanted

(* What is popped goes into the reply and what has no room is still the end *)
(* of what was appended.                                                    *)
LEMMA CollectCalm ==
  ASSUME CallsType, EventsType, Serves, InCalm, Polls', NEW q \in Pattern, Collect(q)
  PROVE  InCalm'
<1>1. /\ UNCHANGED <<setting, conn, sending, clientVars, subscribed, queue, appended>>
      /\ serving # NotServing /\ serving.at = q
  BY DEF Collect
<1>2. PICK n \in 0..Len(serving.popped) :
        LET X == ItemsOf(Among(Serializable, Prefix(serving.popped, n)))
            Y == ItemsOf(Suffix(serving.popped, n))
        IN  /\ serving'.at = None /\ InPoll' = InPoll \cup X /\ Held(q)' = Y
            /\ Held(q) \cap Serializable \subseteq X \cup Y
            /\ \A k \in KeptFor(q)' : k.events = Suffix(serving.popped, n)
            /\ \A p \in Pattern \ {q} : KeptFor(p)' = KeptFor(p) /\ Held(p)' = Held(p)
  <2>1. \E n \in 0..Len(serving.popped) :
           LET first == Among(Serializable, Prefix(serving.popped, n))
               X == ItemsOf(first)
               Y == ItemsOf(Suffix(serving.popped, n))
           IN  /\ serving # NotServing /\ serving' # NotServing
               /\ serving'.at = None /\ serving'.left = serving.left \ {q}
               /\ serving'.events = serving.events \o first
               /\ InPoll' = InPoll \cup X /\ Held(q)' = Y
               /\ X \cup Y \subseteq Held(q) /\ Held(q) \cap Serializable \subseteq X \cup Y
               /\ \A k \in KeptFor(q)' : k.events = Suffix(serving.popped, n)
               /\ \A p \in Pattern \ {q} : KeptFor(p)' = KeptFor(p) /\ Held(p)' = Held(p)
               /\ Serves'
    BY CollectWhere
  <2> QED
    BY <2>1, Zenon
<1>3. \A b \in Publisher : ~Pending(b)'
  <2>1. \E T : Redirects(T, "nowhere")
    BY CollectEffect
  <2> QED
    BY <1>1, <2>1, NobodyMeanwhile
<1>4. /\ UNCHANGED <<delivered, thread, subscriptions, appended>>
      /\ UnderWay' = UnderWay /\ Asks' = Asks /\ UnsentEvents' = UnsentEvents
  BY <1>1 DEF clientVars, UnderWay, Buffer, Wire, Asks, UnsentEvents
<1>5. \A p \in Pattern \ {q} : Lasts(p)'
  BY <1>1, <1>2, TransportAssumption DEF InCalm, Lasts
<1>6. Lasts(q)'
  <2>1. Ends(serving.popped, appended[q]) /\ queue[q] = <<>> /\ Ends(queue[q], appended[q])
    BY <1>1 DEF InCalm, Lasts
  <2>2. appended[q] \in Seq(Event) /\ serving.popped \in Seq(Event)
    BY <1>1, WhereTypes
  <2>3. Ends(Suffix(serving.popped, n), appended[q])
    BY <2>1, <2>2, EndsSuffix
  <2>4. \A k \in KeptFor(q)' : Ends(k.events, appended'[q]) /\ queue'[q] = <<>>
    BY <1>1, <1>2, <2>1, <2>3
  <2>5. serving'.at # q
    BY <1>2, TransportAssumption
  <2> QED
    BY <1>1, <2>1, <2>4, <2>5 DEF Lasts
<1>7. \A p \in Pattern : Known(p) \cap Serializable \subseteq Known(p)'
  BY <1>1, <1>2, <1>4 DEF Known, Reached, Queued
<1> QED
  BY <1>1, <1>3, <1>4, <1>5, <1>6, <1>7, ServedCalm DEF InCalm, Wanted

(* What was kept is put back: nothing was queued meanwhile.                 *)
LEMMA FinishCalm ==
  ASSUME CallsType, SendType, EventsType, Serves, InCalm, Polls', FinishPoll
  PROVE  InCalm'
<1>1. /\ UNCHANGED <<setting, clientVars, subscribed, appended>> /\ Buffer' = Buffer
      /\ serving \in Serving /\ serving.left = {} /\ serving' = NotServing
      /\ serving # NotServing /\ Asks' = Asks
  BY FinishPollEffect, Notserving
     DEF FinishPoll, Sent, SentWhole, SentNot, Stands, Buffer, Asks
<1>2. PICK r \in Reply :
        /\ r.events = serving.events /\ Unsent \subseteq Unsent'
        /\ Wire' = Append(Wire, r) \/ (Wire' = Wire /\ r \in Unsent')
  <2>1. PICK r \in Reply : r.events = serving.events /\ Sent("events", conn["events"].requests, r)
    BY FinishPollEffect
  <2> QED
    BY <2>1 DEF Sent, SentWhole, SentNot, Stands, Wire, Unsent
<1>3. \A p \in Pattern :
        \/ queue'[p] = queue[p] /\ KeptFor(p) = {}
        \/ \E k \in KeptFor(p) : queue'[p] = k.events
  BY PutBackEffect DEF KeptFor
<1>4. \A b \in Publisher : ~Pending(b)'
  <2>1. \E T : Redirects(T, "nowhere")
    BY PutBackEffect
  <2> QED
    BY <1>1, <2>1, NobodyMeanwhile
<1>5. UNCHANGED <<setting, delivered, thread, subscriptions, appended>>
  BY <1>1 DEF clientVars
<1>6. /\ UnsentEvents \subseteq UnsentEvents'
      /\ UnderWay \cup InPoll \subseteq UnderWay' \cup UnsentEvents'
  <2>1. Wire \in Seq(Reply)
    BY WhereTypes
  <2>2. InReplies(Append(Wire, r)) = InReplies(Wire) \cup ItemsOf(r.events)
    BY <2>1, RepliesAppend
  <2>3. InPoll = ItemsOf(r.events)
    BY <1>1, <1>2 DEF InPoll
  <2> QED
    BY <1>1, <1>2, <2>2, <2>3 DEF UnderWay, UnsentEvents, Unsent
<1>7. ASSUME NEW p \in Pattern PROVE Lasts(p)' /\ Held(p) \cup Queued(p) \subseteq Queued(p)'
  <2>1. serving.at # p
    BY <1>1, TransportAssumption DEF Serves
  <2>2. Held(p) = KeptIn(p)
    BY <1>1, <2>1 DEF Held, Popped
  <2>3. Ends(queue[p], appended[p])
    BY DEF InCalm, Lasts
  <2>4. CASE queue'[p] = queue[p] /\ KeptFor(p) = {}
    <3>1. Held(p) = {} /\ Queued(p)' = Queued(p)
      BY <2>2, <2>4 DEF KeptIn, Queued
    <3> QED
      BY <1>1, <2>3, <2>4, <3>1 DEF Lasts
  <2>5. ASSUME NEW k \in KeptFor(p), queue'[p] = k.events
        PROVE  Lasts(p)' /\ Held(p) \cup Queued(p) \subseteq Queued(p)'
    <3>1. Ends(k.events, appended[p]) /\ queue[p] = <<>>
      BY <1>1, <2>5 DEF InCalm, Lasts
    <3>2. KeptFor(p) = {k}
      BY <1>1, <2>5 DEF Serves, KeptFor
    <3>3. KeptIn(p) = ItemsOf(k.events)
      BY <3>2 DEF KeptIn
    <3>4. Queued(p) = {} /\ Queued(p)' = ItemsOf(k.events)
      BY <2>5, <3>1, ItemsOfEmpty DEF Queued
    <3> QED
      BY <1>1, <2>2, <2>5, <3>1, <3>3, <3>4 DEF Lasts
  <2> QED
    BY <1>3, <2>4, <2>5
<1>8. \A p \in Pattern : Known(p) \subseteq Known(p)'
  BY <1>5, <1>6, <1>7 DEF Known, Reached
<1> QED
  BY <1>1, <1>4, <1>5, <1>7, <1>8, ServedCalm DEF InCalm, Wanted

(* Steps of a publisher: none is taken in the middle of a poll.             *)
LEMMA PublisherCalm ==
  ASSUME InCalm, Polls', UNCHANGED <<thread, conn, serving, subscriptions, subscribed>>,
         NEW b \in Publisher, OnlyPublisher(b),
         Pending(b)' => /\ serving = NotServing /\ publishing'[b].to = "queue"
                        /\ publishing'[b].left \subseteq subscriptions,
         \A p \in Pattern : appended'[p] # <<>> => p \in subscriptions,
         \A p \in Pattern : Lasts(p)' /\ Kept(p)'
  PROVE  InCalm'
<1>1. \A x \in Publisher \ {b} : (Pending(x)' <=> Pending(x)) /\ publishing'[x] = publishing[x]
  BY DEF OnlyPublisher, Pending
<1>2. Meanwhile'
  BY <1>1 DEF InCalm, Meanwhile
<1>3. Wanted'
  BY <1>1 DEF InCalm, Wanted, Asks, Busy
<1> QED
  BY <1>2, <1>3 DEF InCalm

(* An event is published, and a queue looked up.                            *)
LEMMA AnnounceCalm ==
  ASSUME CallsType, EventsType, Calm, InCalm, Polls', NEW b \in Publisher,
         \/ \E topic \in Topic : Publish(b, topic)
         \/ \E p \in Pattern : Take(b, p)
  PROVE  InCalm'
<1>1. UNCHANGED <<setting, conn, clientVars, serverVars, appended>>
  BY DEF Publish, Take
<1>2. UNCHANGED <<setting, conn, sending, thread, delivered, queue, serving, subscriptions, subscribed, appended>>
  BY <1>1 DEF clientVars, serverVars
<1>3. ASSUME NEW topic \in Topic, Publish(b, topic)
      PROVE  /\ OnlyPublisher(b) /\ serving = NotServing /\ publishing'[b].to = "queue"
             /\ publishing'[b].left \subseteq subscriptions
  <2>1. /\ OnlyPublisher(b) /\ publishing'[b].to = "queue"
        /\ publishing'[b].left = {p \in subscribed : topic \in Matches(p)}
    BY <1>3, PublishEffect
  <2>2. serving = NotServing
    BY <1>3, CalmMeans DEF Publish
  <2> QED
    BY <2>1, <2>2 DEF InCalm, Wanted
<1>4. ASSUME NEW p \in Pattern, Take(b, p)
      PROVE  /\ OnlyPublisher(b) /\ serving = NotServing /\ publishing'[b].to = "queue"
             /\ publishing'[b].left \subseteq subscriptions
  <2>1. /\ OnlyPublisher(b) /\ publishing'[b].to = "queue" /\ Pending(b)
        /\ publishing'[b].left = publishing[b].left
    BY <1>4, TakeEffect, Notquiet DEF Pending
  <2> QED
    BY <2>1 DEF InCalm, Meanwhile, Wanted
<1>5. \A p \in Pattern : appended'[p] # <<>> => p \in subscriptions
  BY <1>2 DEF InCalm, Wanted
<1>6. \A p \in Pattern : Lasts(p)' /\ Kept(p)'
  <2>1. \A p \in Pattern : KeptFor(p)' = KeptFor(p) /\ Reached(p)' = Reached(p)
    BY <1>2, SameServing, SamePlaces
  <2> QED
    BY <1>2, <2>1 DEF InCalm, Lasts, Kept, Known, UnsentEvents, Due, Serializable, May
<1> QED
  BY <1>2, <1>3, <1>4, <1>5, <1>6, PublisherCalm

(* An event is appended: if there is no room, what stays are the latest.    *)
LEMMA AppendCalm ==
  ASSUME CallsType, EventsType, RepliesInv, PendingOk, Calm, InCalm, Polls',
         NEW b \in Publisher, NEW p \in Pattern, AppendTo(b, p)
  PROVE  InCalm'
<1> DEFINE e == publishing[b].event
           t == appended[p]
           s == queue[p]
<1>1. /\ OnlyPublisher(b) /\ Pending(b) /\ publishing[b].at = p /\ e \in Event
      /\ appended' = [appended EXCEPT ![p] = Append(@, e)]
      /\ IF publishing[b].to # "queue" \/ ~conn["events"].up THEN queue' = queue
         ELSE queue' = [queue EXCEPT ![p] = Trim(Append(@, e))]
      /\ IF publishing[b].to # "popped" \/ serving = NotServing THEN serving' = serving
         ELSE serving \in Serving
      /\ \/ publishing'[b] = Quiet
         \/ /\ publishing'[b].left = publishing[b].left \ {p}
            /\ publishing'[b].to = publishing[b].to
  BY AppendToEffect, Notquiet DEF Pending
<1>2. /\ serving = NotServing /\ publishing[b].to = "queue" /\ conn["events"].up
      /\ publishing[b].left \subseteq subscriptions
  <2>1. conn["events"].up
    BY CalmMeans DEF RepliesInv, Alive, Conn
  <2> QED
    BY <1>1, <2>1 DEF InCalm, Meanwhile, Wanted
<1>3. /\ UNCHANGED <<setting, conn, sending, clientVars, subscribed, serving>>
      /\ queue' = [queue EXCEPT ![p] = Trim(Append(@, e))]
  BY <1>1, <1>2 DEF AppendTo
<1>4. p # None /\ p \in subscriptions
  BY <1>1, <1>2, TransportAssumption DEF PendingOk
<1> HIDE DEF e
<1>5. /\ s \in Seq(Event) /\ t \in Seq(Event)
      /\ queue'[p] = Trim(Append(s, e)) /\ appended'[p] = Append(t, e)
      /\ \A q \in Pattern \ {p} : queue'[q] = queue[q] /\ appended'[q] = appended[q]
  BY <1>1, <1>3 DEF EventsType
<1>6. \A q \in Pattern : appended'[q] # <<>> => q \in subscriptions
  BY <1>4, <1>5 DEF InCalm, Wanted
<1>7. /\ Append(s, e) \in Seq(Event) /\ Append(t, e) \in Seq(Event)
      /\ ItemsOf(Append(s, e)) = ItemsOf(s) \cup {e}
  BY <1>1, <1>5, AppendProperties, ItemsOfAppend
<1>8. Ends(Append(s, e), Append(t, e))
  <2>1. Ends(s, t)
    BY DEF InCalm, Lasts
  <2> HIDE DEF s, t
  <2> QED
    BY <1>1, <1>5, <2>1, EndsAppend
<1> DEFINE u == Append(s, e)
           v == Append(t, e)
<1>9. PICK n \in 0..Len(u) : /\ Trim(u) = Suffix(u, n) /\ Trim(u) \in Seq(Event)
                             /\ n > 0 => Len(Trim(u)) = MaxQueue
  <2> HIDE DEF u
  <2> QED
    BY <1>7, TrimFacts DEF u
<1>10. Ends(Trim(u), v)
  <2>1. Ends(Suffix(u, n), v)
    <3>1. u \in Seq(Event) /\ v \in Seq(Event) /\ Ends(u, v)
      BY <1>7, <1>8
    <3> HIDE DEF u, v
    <3> QED
      BY <3>1, EndsSuffix
  <2> QED
    BY <1>9, <2>1
<1>11. \A q \in Pattern : Lasts(q)'
  BY <1>2, <1>3, <1>5, <1>10 DEF InCalm, Lasts
<1>12. /\ \A q \in Pattern : Held(q)' = Held(q)
       /\ InPoll' = InPoll /\ UnderWay' = UnderWay /\ delivered' = delivered
       /\ \A q \in Pattern \ {p} : Queued(q)' = Queued(q)
       /\ Queued(p)' = ItemsOf(Trim(u))
       /\ UnsentEvents' = UnsentEvents /\ Serializable' = Serializable
  BY <1>3, <1>5, SameServing
     DEF UnderWay, Buffer, Wire, Queued, clientVars, UnsentEvents, Serializable, May
<1>13. \A q \in Pattern \ {p} : Kept(q)'
  <2>1. \A q \in Pattern \ {p} : Known(q)' = Known(q) /\ Due(q)' = Due(q)
    BY <1>5, <1>12 DEF Known, Reached, Due
  <2> QED
    BY <2>1 DEF InCalm, Kept
<1>14. ItemsOf(Latest(v, MaxQueue)) \cap Serializable \subseteq Known(p)'
  <2>1. MaxQueue \in Nat
    BY TransportAssumption
  <2>2. CASE n = 0
    <3>1. ItemsOf(Trim(u)) = ItemsOf(s) \cup {e}
      <4>1. u \in Seq(Event) /\ Len(u) \in Nat /\ n + 1..Len(u) = 1..Len(u)
        BY <1>7, <2>2, LenProperties
      <4>2. ItemsOf(Suffix(u, n)) = {u[i] : i \in n + 1..Len(u)} /\ ItemsOf(u) = {u[i] : i \in 1..Len(u)}
        <5> HIDE DEF u
        <5> QED
          BY <4>1, SplitItems
      <4> QED
        BY <1>7, <1>9, <4>1, <4>2
    <3>2. ItemsOf(Latest(v, MaxQueue)) \subseteq ItemsOf(Latest(t, MaxQueue)) \cup {e}
      BY <1>1, <1>5, <2>1, LatestAppend
    <3>3. ItemsOf(Latest(t, MaxQueue)) \cap Serializable \subseteq Known(p)
      BY DEF InCalm, Kept, Due
    <3>4. Known(p) \cup {e} \subseteq Known(p)'
      BY <1>12, <3>1 DEF Known, Reached, Queued
    <3> QED
      BY <3>2, <3>3, <3>4
  <2>3. CASE n > 0
    <3>1. Len(Trim(u)) = MaxQueue /\ MaxQueue <= Len(Trim(u))
      BY <1>9, <2>1, <2>3
    <3>2. ItemsOf(Latest(v, MaxQueue)) \subseteq ItemsOf(Trim(u))
      <4>1. v \in Seq(Event)
        BY <1>7
      <4> HIDE DEF u, v
      <4> QED
        BY <1>9, <1>10, <2>1, <3>1, <4>1, LatestInEnd
    <3> QED
      BY <1>12, <3>2 DEF Known, Reached
  <2>4. n \in Nat
    OBVIOUS
  <2> QED
    BY <2>2, <2>3, <2>4
<1>15. Kept(p)'
  BY <1>5, <1>12, <1>14 DEF Kept, Due
<1>16. Pending(b)' => /\ serving = NotServing /\ publishing'[b].to = "queue"
                      /\ publishing'[b].left \subseteq subscriptions
  BY <1>1, <1>2 DEF Pending
<1>17. UNCHANGED <<thread, conn, serving, subscriptions, subscribed>>
  BY <1>3 DEF clientVars
<1> QED
  BY <1>1, <1>6, <1>11, <1>13, <1>15, <1>16, <1>17, PublisherCalm

(* The invariant is preserved.                                              *)
LEMMA CalmStep ==
  ASSUME TypeInv, RepliesInv, OrderInv, CalmInv, [Next]_vars
  PROVE  CalmInv'
<1>1. setting' = setting
  BY ThreadLeaves DEF TypeInv, Next, vars, Call, Poll, Subscribe, Unsubscribe, Close, Answer,
    Hangup, PollServed, StartPoll, FinishPoll, Pop, Collect, PublisherStep, Take, AppendTo, Publish
<1> SUFFICES ASSUME Calm, InCalm PROVE InCalm'
  BY <1>1 DEF CalmInv, Calm
<1>2. CallsType /\ SendType /\ EventsType /\ Serves /\ PendingOk /\ Polls
  BY DEF TypeInv, OrderInv, Topics, InCalm
<1>3. Polls'
  BY <1>2, OwnPollsStep, NoRemainsStep DEF Polls
<1>4. CASE \/ UNCHANGED vars \/ Poll \/ \E t \in Caller : Call(t)
           \/ \E p \in Pattern : Subscribe(p)
           \/ \E c \in Conn : Answer(c)
  BY <1>3, <1>4, AskCalm
<1>5. ASSUME NEW t \in Thread, ThreadStep(t) PROVE InCalm'
  BY <1>3, <1>5, ThreadCalm
<1>6. ASSUME NEW p \in Pattern, Unsubscribe(p) PROVE InCalm'
  BY <1>6, CalmMeans DEF Unsubscribe
<1>7. ASSUME NEW c \in Conn, Close(c) \/ Hangup(c) PROVE InCalm'
  BY <1>7, CalmMeans DEF Close, Hangup
<1>8. CASE PollServed
  BY <1>2, <1>3, <1>8, StartCalm, FinishCalm, PopCalm, CollectCalm DEF PollServed
<1>9. ASSUME NEW b \in Publisher, PublisherStep(b) \/ \E topic \in Topic : Publish(b, topic)
      PROVE  InCalm'
  BY <1>2, <1>3, <1>9, AnnounceCalm, AppendCalm DEF PublisherStep
<1> QED
  BY <1>4, <1>5, <1>6, <1>7, <1>8, <1>9 DEF Next

(* The invariant holds at the start.                                        *)
LEMMA CalmInit == Init => CalmInv
<1> SUFFICES ASSUME Init PROVE InCalm
  BY DEF CalmInv
<1>1. /\ conn["events"].requests = <<>> /\ conn["events"].replies = <<>>
      /\ conn["events"].buffer = <<>> /\ conn["events"].stash = {}
      /\ serving = NotServing /\ thread[Poller] = Idle /\ Poller \in Thread
      /\ sending["events"].stalled = 0 /\ Unsent = {}
      /\ subscribed = {} /\ \A b \in Publisher : ~Pending(b)
      /\ \A p \in Pattern : queue[p] = <<>> /\ appended[p] = <<>>
  BY DEF Init, Conn, Thread, Pending, Unsent
<1>2. OwnPolls
  BY <1>1, IdsOfEmpty DEF OwnPolls, IdsIn, AllIds, IdsAside, Served
<1>5. NoRemains
  BY <1>1 DEF NoRemains, UnsentIds, Unsent
<1>3. Meanwhile /\ Wanted
  BY <1>1, CalledFacts, ItemsOfEmpty DEF Meanwhile, Wanted, Asks, Busy
<1>4. ASSUME NEW p \in Pattern PROVE Lasts(p) /\ Kept(p)
  <2>1. <<>> \in Seq(Event) /\ Len(<<>>) = 0 /\ MaxQueue \in Nat
    BY EmptyEvents, TransportAssumption
  <2>2. Ends(<<>>, <<>>)
    BY <2>1, EndsEmpty
  <2>3. Latest(<<>>, MaxQueue) = <<>>
    BY <2>1 DEF Latest
  <2> QED
    BY <1>1, <2>2, <2>3, ItemsOfEmpty DEF Lasts, Kept, Due
<1> QED
  BY <1>2, <1>3, <1>4, <1>5 DEF InCalm, Polls

(* What is reached is somewhere.                                            *)
LEMMA CalmFollows == CallsType /\ EventsType /\ CalmInv => LatestKept
<1> SUFFICES ASSUME CallsType, EventsType, InCalm, NEW p \in Pattern
             PROVE  Due(p) \subseteq There(p) \cup UnsentEvents
  BY DEF LatestKept, CalmInv, Calm
<1>1. Buffer \in Seq(Reply) /\ Wire \in Seq(Reply)
  BY WhereTypes
<1>2. ItemsOf(Under) = ItemsOf(Wire) \cup ItemsOf(Buffer)
  BY <1>1, ItemsOfConcat DEF Under, Wire, Buffer
<1>3. UnderWay \subseteq UNION {ItemsOf(r.events) : r \in ItemsOf(Under)}
  BY <1>2 DEF UnderWay, InReplies
<1>4. serving # NotServing =>
        /\ InPoll = ItemsOf(serving.events)
        /\ Held(p) \subseteq ItemsOf(serving.popped)
                               \cup UNION {ItemsOf(k.events) : k \in ItemsOf(serving.kept)}
  BY DEF InPoll, Held, KeptIn, Popped, KeptFor
<1>5. serving = NotServing => InPoll = {} /\ Held(p) = {}
  BY DEF InPoll, Held
<1>6. ItemsOf(delivered[p]) \cup UnderWay \cup Queued(p) \subseteq There(p)
  BY <1>3 DEF There, Queued
<1>7. ASSUME serving # NotServing
      PROVE  ItemsOf(serving.events) \cup ItemsOf(serving.popped)
               \cup UNION {ItemsOf(k.events) : k \in ItemsOf(serving.kept)} \subseteq There(p)
  BY <1>7 DEF There
<1>8. InPoll \cup Held(p) \subseteq There(p)
  BY <1>4, <1>5, <1>7
<1>9. Reached(p) \subseteq There(p)
  BY <1>6, <1>8 DEF Reached
<1> QED
  BY <1>9 DEF InCalm, Kept, Known

(* Callbacks get the events of a pattern that shares no topics with others  *)
(* once, and those of one publisher in the order in which it published      *)
(* them, whatever the threads do and whatever is lost;  and the latest      *)
(* events, as many as a queue holds, are somewhere until they are           *)
(* delivered, but for those that cannot be encoded and those in a reply     *)
(* that did not go out whole, when no event is published in the middle of a *)
(* poll, the replies to polls come in time, no connection ends and nobody   *)
(* unsubscribes.                                                            *)
THEOREM EventsKeptTheorem == Spec => []EventsKept
<1> DEFINE Inv == TypeInv /\ RepliesInv /\ OrderInv /\ CalmInv
<1>1. Inv => EventsKept
  BY OrderFollows, CalmFollows DEF TypeInv, EventsKept
<1>2. Inv /\ [Next]_vars => Inv'
  <2> SUFFICES ASSUME Inv, [Next]_vars PROVE Inv'
    OBVIOUS
  <2>1. TypeInv'
    BY TypeStep
  <2>2. RepliesInv'
    BY RepliesStep DEF TypeInv
  <2>3. OrderInv'
    BY <2>1, OrderStep
  <2>4. CalmInv'
    BY CalmStep
  <2> QED
    BY <2>1, <2>2, <2>3, <2>4
<1>3. Init => Inv
  BY TypeInit, RepliesInit, OrderInit, CalmInit
<1> HIDE DEF Inv, EventsKept
<1> QED
  BY <1>1, <1>2, <1>3, PTL DEF Spec
===============================================================================
