------------------------------- MODULE Transport -------------------------------
(***************************************************************************)
(* The socket transport: the client (lib_command/core/                     *)
(* transport_socket_client.py) and the server (transport_socket_server.py).*)
(*                                                                         *)
(* The client has a connection that its background threads share           *)
(* ("shared") and one of its own for the thread that polls for events      *)
(* ("events").  The server has a thread for each connection, which answers *)
(* one request after another.  Threads of the engine publish events, which *)
(* the message bus hands to a queue of the connection that has polled for  *)
(* their topic.                                                            *)
(***************************************************************************)
EXTENDS Naturals, Sequences, FiniteSets

CONSTANTS
  Caller,       (* the background threads                                   *)
  Poller,       (* the thread that polls                                    *)
  Publisher,    (* threads that publish events                              *)
  Pattern,      (* what can be subscribed to                                *)
  Topic,        (* the topics of events                                     *)
  Matches(_),   (* the topics that a pattern matches                        *)
  Id,           (* correlation ids                                          *)
  MaxPerPoll,   (* _MAX_EVENTS_PER_POLL                                     *)
  MaxQueue,     (* _MAX_EVENTS_PER_TOPIC_QUEUE                              *)
  Unserializable, (* the numbers of the events that no JSON can be made of  *)
  MaxCalls,     (* bound on the calls of background threads                 *)
  MaxEvents,    (* bound on the events that are published                   *)
  MaxUnsent,    (* bound on the replies of a connection that cannot be sent *)
  None,         (* no thread, no pattern                                    *)
  Settings      (* the settings a run looks at, sets of the following       *)

(* shared: several threads call at a time;  slow: replies that come after   *)
(* the time-out;  lost: connections that end;  events: polls;  overlap:     *)
(* events that are published while the server answers a poll;  leave:       *)
(* subscriptions that end;  unsent: replies that cannot be encoded or sent; *)
(* unserializable: events that cannot be encoded, those in Unserializable.  *)
Possibilities == {"shared", "slow", "lost", "events", "overlap", "leave",
                  "unsent", "unserializable"}

ASSUME TransportAssumption ==
  /\ Poller \notin Caller /\ None \notin Caller \cup {Poller} \cup Pattern
  /\ \A p \in Pattern : Matches(p) \subseteq Topic
  /\ MaxPerPoll \in Nat \ {0} /\ MaxQueue \in Nat \ {0}
  /\ MaxCalls \in Nat /\ MaxEvents \in Nat /\ MaxUnsent \in Nat
  /\ Settings \subseteq SUBSET Possibilities

(* A connection has at the client a socket, the lines it has read, the      *)
(* replies put aside and the receive lock;  on the way the requests and the *)
(* replies;  and at the server, in sending, whether a line was left without *)
(* its end, how many of the requests are in the buffer and are not looked   *)
(* at before there is something to read, and the replies that did not go    *)
(* out whole.                                                               *)
VARIABLES
  setting,       (* the setting;  it does not change                        *)
  conn,          (* the connections, at the client and on the way           *)
  thread,        (* what each thread of the client waits for                *)
  result,        (* what its last call returned, and to which request       *)
  calls,         (* how many calls there were                               *)
  subscriptions, (* _subscriptions                                          *)
  delivered,     (* the events that callbacks have got, for each pattern    *)
  subscribed,    (* conn_bus_subs                                           *)
  queue,         (* conn_event_queues                                       *)
  serving,       (* how far the server has got with a poll                  *)
  sending,       (* the connections at the server                           *)
  publishing,    (* what each publisher is about to append                  *)
  appended       (* the events that were appended, for each pattern         *)

clientVars == <<thread, result, calls, subscriptions, delivered>>
serverVars == <<subscribed, queue, serving, sending>>
busVars == <<publishing, appended>>
vars == <<setting, conn, clientVars, serverVars, busVars>>

Thread == Caller \cup {Poller}
Conn == {"shared", "events"}
ConnOf(t) == IF t = Poller THEN "events" ELSE "shared"
May(p) == p \in setting

Event == [topic : Topic, by : Publisher, number : 1..MaxEvents]
Request == [id : Id, topics : SUBSET Pattern]
Reply == [id : Id, events : Seq(Event)]
Failure == {"timeout", "lost", "crashed", "garbled"}

Idle == [phase |-> "idle"]
Receiving(t) == thread[t].phase = "receiving"
Phase == {"calling", "waiting", "receiving"}
NotServing == [left |-> {}, kept |-> <<>>]
Quiet == [left |-> {}]

TypeOK ==
  /\ setting \in Settings
  /\ conn \in [Conn -> [sock : BOOLEAN, up : BOOLEAN, requests : Seq(Request),
                        replies : Seq(Reply), buffer : Seq(Reply),
                        stash : SUBSET Reply, holder : Thread \cup {None}]]
  /\ sending \in [Conn -> [cut : BOOLEAN, stalled : Nat, unsent : SUBSET Reply]]
  /\ \A t \in Thread : thread[t] = Idle \/ thread[t] \in [phase : Phase, request : Request]
  /\ \A c \in Conn : conn[c].holder # None =>
       /\ ConnOf(conn[c].holder) = c
       /\ thread[conn[c].holder].phase = "receiving"
  /\ \A t \in Thread : thread[t].phase = "receiving" => conn[ConnOf(t)].holder = t
  /\ result \in [Thread -> {None} \cup [id : Id, how : {"answered"} \cup Failure, reply : Id \cup {None}]]
  /\ calls \in 0..MaxCalls
  /\ subscriptions \subseteq Pattern /\ subscribed \subseteq Pattern
  /\ delivered \in [Pattern -> Seq(Event)] /\ appended \in [Pattern -> Seq(Event)]
  /\ queue \in [Pattern -> Seq(Event)]
  /\ \A p \in Pattern : Len(queue[p]) <= MaxQueue
  /\ conn["events"].up \/ (subscribed = {} /\ serving = NotServing)

Init ==
  /\ setting \in Settings
  /\ conn = [c \in Conn |->
       [sock |-> TRUE, up |-> TRUE, requests |-> <<>>, replies |-> <<>>,
        buffer |-> <<>>, stash |-> {}, holder |-> None]]
  /\ sending = [c \in Conn |-> [cut |-> FALSE, stalled |-> 0, unsent |-> {}]]
  /\ thread = [t \in Thread |-> Idle] /\ result = [t \in Thread |-> None] /\ calls = 0
  /\ subscriptions \in IF May("events") THEN SUBSET Pattern ELSE {{}}
  /\ delivered = [p \in Pattern |-> <<>>] /\ appended = [p \in Pattern |-> <<>>]
  /\ subscribed = {} /\ queue = [p \in Pattern |-> <<>>]
  /\ serving = NotServing /\ publishing = [b \in Publisher |-> Quiet]

ItemsOf(s) == {s[i] : i \in DOMAIN s}
IdsOf(s) == {s[i].id : i \in DOMAIN s}
Latest(s, n) == IF Len(s) <= n THEN s ELSE SubSeq(s, Len(s) - n + 1, Len(s))
Prefix(s, n) == SubSeq(s, 1, n)
Suffix(s, n) == SubSeq(s, n + 1, Len(s))
AtMost(s, n) == IF Len(s) < n THEN Len(s) ELSE n

-----------------------------------------------------------------------------
(* Calls: send_and_wait.                                                    *)

InUse(i) ==
  \/ \E t \in Thread : thread[t].phase # "idle" /\ thread[t].request.id = i
  \/ \E c \in Conn :
       LET k == conn[c]
       IN  i \in IdsOf(k.requests) \cup IdsOf(k.replies) \cup IdsOf(k.buffer)
                 \cup {r.id : r \in k.stash \cup sending[c].unsent}
  \/ serving # NotServing /\ serving.id = i

(* A request with an id that is not in use, as a uuid is.                   *)
Ask(t, topics) ==
  \E i \in Id :
    /\ ~InUse(i) /\ \A k \in Id : k < i => InUse(k)
    /\ thread' = [thread EXCEPT ![t] =
                    [phase |-> "calling", request |-> [id |-> i, topics |-> topics]]]
    /\ result' = [result EXCEPT ![t] = None]

Call(t) ==
  /\ thread[t] = Idle /\ calls < MaxCalls
  /\ May("shared") \/ \A u \in Caller : thread[u] = Idle
  /\ ~May("events")
  /\ Ask(t, {})
  /\ calls' = calls + 1
  /\ UNCHANGED <<setting, conn, subscriptions, delivered, serverVars, busVars>>

(* One round of _poll_loop.                                                 *)
Poll ==
  /\ thread[Poller] = Idle
  /\ subscriptions # {} /\ conn["events"].sock
  /\ Ask(Poller, subscriptions)
  /\ UNCHANGED <<setting, conn, calls, subscriptions, delivered, serverVars, busVars>>

(* A call ends, and its thread gives back the lock it has.                  *)
Returns(t, how, reply, k) ==
  /\ thread' = [thread EXCEPT ![t] = Idle]
  /\ result' = [result EXCEPT ![t] =
                  [id |-> thread[t].request.id, how |-> how, reply |-> reply]]
  /\ conn' = [conn EXCEPT ![ConnOf(t)] =
       [k EXCEPT !.holder = IF k.holder = t THEN None ELSE k.holder]]
  /\ UNCHANGED calls

Stashed(t) == {r \in conn[ConnOf(t)].stash : r.id = thread[t].request.id}

(* Under the send lock: a look at the stash, then sendall, which fails at   *)
(* once, or not before the reply is read, when the server is gone.          *)
Send(t) ==
  LET k == conn[ConnOf(t)]
  IN  /\ thread[t].phase = "calling"
      /\ \/ \E r \in Stashed(t) :
              Returns(t, "answered", r.id, [k EXCEPT !.stash = @ \ {r}])
         \/ /\ Stashed(t) = {} /\ ~(k.sock /\ k.up)
            /\ Returns(t, "lost", None, [k EXCEPT !.sock = FALSE,
                                            !.buffer = IF k.sock THEN <<>> ELSE @])
         \/ /\ Stashed(t) = {} /\ k.sock
            /\ conn' = [conn EXCEPT ![ConnOf(t)].requests =
                          IF k.up THEN Append(@, thread[t].request) ELSE @]
            /\ thread' = [thread EXCEPT ![t].phase = "waiting"]
            /\ UNCHANGED <<result, calls>>
      /\ UNCHANGED <<setting, subscriptions, delivered, serverVars, busVars>>

(* The receive lock.                                                        *)
Acquire(t) ==
  /\ thread[t].phase = "waiting"
  /\ conn[ConnOf(t)].holder = None
  /\ conn' = [conn EXCEPT ![ConnOf(t)].holder = t]
  /\ thread' = [thread EXCEPT ![t].phase = "receiving"]
  /\ UNCHANGED <<setting, result, calls, subscriptions, delivered, serverVars, busVars>>

(* The events of a sequence that are in a set.                              *)
Among(E, events) ==
  LET upTo[n \in 0..Len(events)] ==
        IF n = 0 THEN <<>>
        ELSE IF events[n] \in E THEN Append(upTo[n - 1], events[n])
        ELSE upTo[n - 1]
  IN  upTo[Len(events)]

(* The events that a pattern matches.                                       *)
EventsFor(p, events) == Among({e \in Event : e.topic \in Matches(p)}, events)

(* The events of a poll go to the callbacks.                                *)
Dispatch(t, r) ==
  delivered' = IF t # Poller THEN delivered
               ELSE [p \in Pattern |->
                      IF p \in subscriptions THEN delivered[p] \o EventsFor(p, r.events)
                      ELSE delivered[p]]

(* Fault: the first reply is taken for one's own.                           *)
DrainAny(t) ==
  LET k == conn[ConnOf(t)]
      rest == [k EXCEPT !.buffer = Tail(@)]
  IN  /\ Receiving(t) /\ k.buffer # <<>>
      /\ Returns(t, "answered", Head(k.buffer).id, rest) /\ Dispatch(t, Head(k.buffer))
      /\ UNCHANGED <<setting, subscriptions, serverVars, busVars>>

UnsentIds(c) == {r.id : r \in sending[c].unsent}

(* A line of the buffer that has the beginning of another in front of it:   *)
(* nobody can decode it, and who reads it fails, whosever reply it was.     *)
DrainGarbled(t) ==
  LET k == conn[ConnOf(t)]
  IN  /\ Receiving(t) /\ k.buffer # <<>>
      /\ Head(k.buffer).id \in UnsentIds(ConnOf(t))
      /\ Returns(t, "garbled", None, [k EXCEPT !.buffer = Tail(@)])
      /\ UNCHANGED <<setting, subscriptions, delivered, serverVars, busVars>>

(* A line of the buffer: the reply, or one that is stashed.                 *)
Drain(t) ==
  LET k == conn[ConnOf(t)]
      reply == Head(k.buffer)
      rest == [k EXCEPT !.buffer = Tail(@)]
  IN  /\ Receiving(t) /\ k.buffer # <<>> /\ reply.id \notin UnsentIds(ConnOf(t))
      /\ IF reply.id = thread[t].request.id
         THEN Returns(t, "answered", reply.id, rest) /\ Dispatch(t, reply)
         ELSE /\ conn' = [conn EXCEPT ![ConnOf(t)] = [rest EXCEPT !.stash = @ \cup {reply}]]
              /\ UNCHANGED <<thread, result, calls, delivered>>
      /\ UNCHANGED <<setting, subscriptions, serverVars, busVars>>

(* recv: the next replies;  or the end of a connection.                     *)
Receive(t) ==
  LET k == conn[ConnOf(t)]
  IN  /\ Receiving(t) /\ k.buffer = <<>> /\ k.sock
      /\ \/ \E n \in 1..Len(k.replies) :
              /\ conn' = [conn EXCEPT ![ConnOf(t)].buffer = Prefix(k.replies, n),
                                      ![ConnOf(t)].replies = Suffix(k.replies, n)]
              /\ UNCHANGED <<thread, result, calls>>
         \/ /\ k.replies = <<>> /\ ~k.up
            /\ Returns(t, "lost", None, [k EXCEPT !.sock = FALSE])
      /\ UNCHANGED <<setting, subscriptions, delivered, serverVars, busVars>>

(* Another thread has found that the connection is lost: _sock is None, and *)
(* the next use of it raises an AttributeError.                             *)
Crash(t) ==
  LET k == conn[ConnOf(t)]
  IN  /\ Receiving(t) /\ k.buffer = <<>> /\ ~k.sock
      /\ Returns(t, "crashed", None, k)
      /\ UNCHANGED <<setting, subscriptions, delivered, serverVars, busVars>>

(* For the server there is something to read, and with it the lines that it *)
(* has in its buffer.                                                       *)
Readable(c) == conn[c].up /\ Len(conn[c].requests) > sending[c].stalled

OnItsWay(t) ==
  LET k == conn[ConnOf(t)]
  IN  \/ Readable(ConnOf(t)) /\ thread[t].request.id \in IdsOf(k.requests)
      \/ thread[t].request.id \in IdsOf(k.replies)
      \/ serving # NotServing /\ serving.id = thread[t].request.id

(* Fault: a call that has timed out keeps the lock.                         *)
TimeOutLocked(t) ==
  LET k == conn[ConnOf(t)]
  IN  /\ Receiving(t) /\ k.buffer = <<>> /\ k.sock
      /\ May("slow") \/ ~OnItsWay(t)
      /\ thread' = [thread EXCEPT ![t] = Idle]
      /\ UNCHANGED <<setting, conn, result, calls, subscriptions, delivered,
                     serverVars, busVars>>

(* The time-out, of a call that is answered too late or never.  A reply     *)
(* that comes later finds the next call.                                    *)
TimeOut(t) ==
  LET k == conn[ConnOf(t)]
  IN  /\ Receiving(t) /\ k.buffer = <<>> /\ k.sock
      /\ May("slow") \/ ~OnItsWay(t)
      /\ Returns(t, "timeout", None, k)
      /\ UNCHANGED <<setting, subscriptions, delivered, serverVars, busVars>>

Subscribe(p) ==
  /\ May("events") /\ p \notin subscriptions
  /\ subscriptions' = subscriptions \cup {p}
  /\ UNCHANGED <<setting, conn, thread, result, calls, delivered, serverVars, busVars>>

Unsubscribe(p) ==
  /\ May("leave") /\ p \in subscriptions
  /\ subscriptions' = subscriptions \ {p}
  /\ UNCHANGED <<setting, conn, thread, result, calls, delivered, serverVars, busVars>>

(* close.                                                                   *)
Close(c) ==
  /\ May("lost") /\ conn[c].sock
  /\ conn' = [conn EXCEPT ![c].sock = FALSE, ![c].buffer = <<>>, ![c].up = FALSE,
                          ![c].requests = <<>>, ![c].replies = <<>>]
  /\ subscribed' = IF c = "events" THEN {} ELSE subscribed
  /\ queue' = IF c = "events" THEN [p \in Pattern |-> <<>>] ELSE queue
  /\ serving' = IF c = "events" THEN NotServing ELSE serving
  /\ UNCHANGED <<setting, sending, clientVars, busVars>>

-----------------------------------------------------------------------------
(* The server.                                                              *)

(* sendall.  A reply that cannot be encoded or sent is logged, and the      *)
(* server goes back to recv with what it has read;  a part of the line may  *)
(* have gone out, and the next reply is written behind it.                  *)
SendReply(c, k, reply) ==
  \/ /\ conn' = [conn EXCEPT ![c] = [k EXCEPT !.replies = Append(@, reply)]]
     /\ sending' = [sending EXCEPT ![c] =
          [cut |-> FALSE, stalled |-> 0,
           unsent |-> IF @.cut THEN @.unsent \cup {reply} ELSE @.unsent]]
  \/ /\ May("unsent") /\ Cardinality(sending[c].unsent) < MaxUnsent
     /\ conn' = [conn EXCEPT ![c] = k]
     /\ \E part \in BOOLEAN, n \in 0..Len(k.requests) :
          sending' = [sending EXCEPT ![c] =
            [cut |-> @.cut \/ part, stalled |-> n, unsent |-> @.unsent \cup {reply}]]

(* A request that is not a poll has a reply, whatever happens in it.        *)
Answer(c) ==
  LET k == conn[c]
  IN  /\ Readable(c) /\ c = "shared"
      /\ SendReply(c, [k EXCEPT !.requests = Tail(@)],
                   [id |-> Head(k.requests).id, events |-> <<>>])
      /\ UNCHANGED <<setting, clientVars, subscribed, queue, serving, busVars>>

(* _handle_poll_events: new topics are subscribed to,                       *)
StartPoll ==
  LET k == conn["events"]
      request == Head(k.requests)
  IN  /\ Readable("events") /\ serving = NotServing
      /\ May("overlap") \/ \A b \in Publisher : publishing[b] = Quiet
      /\ subscribed' = subscribed \cup request.topics
      /\ serving' = [id |-> request.id, left |-> request.topics, at |-> None,
                     popped |-> <<>>, events |-> <<>>, kept |-> <<>>]
      /\ conn' = [conn EXCEPT !["events"].requests = Tail(@)]
      /\ sending' = [sending EXCEPT !["events"].stalled = 0]
      /\ UNCHANGED <<setting, clientVars, queue, busVars>>

(* Who is about to append to the queue of p, appends to `to' instead.       *)
Redirected(p, from, to) ==
  [b \in Publisher |->
    IF publishing[b] # Quiet /\ publishing[b].at = p /\ publishing[b].to = from
    THEN [publishing[b] EXCEPT !.to = to] ELSE publishing[b]]

(* a queue is taken from the connection,                                    *)
Pop(p) ==
  /\ serving # NotServing /\ p \in serving.left /\ serving.at = None
  /\ serving' = [serving EXCEPT !.at = p, !.popped = queue[p]]
  /\ queue' = [queue EXCEPT ![p] = <<>>]
  /\ publishing' = Redirected(p, "queue", "popped")
  /\ UNCHANGED <<setting, conn, sending, clientVars, subscribed, appended>>

Serializable == {e \in Event : May("unserializable") => e.number \notin Unserializable}

(* Fault: a queue that is too long for one reply is left for later polls.   *)
CollectLater(p) ==
  LET all == AtMost(serving.popped, MaxPerPoll) = Len(serving.popped)
  IN  /\ serving # NotServing /\ serving.at = p
      /\ serving' = [serving EXCEPT
           !.at = None, !.left = @ \ {p}, !.popped = <<>>,
           !.events = IF all THEN @ \o Among(Serializable, serving.popped) ELSE @,
           !.kept = IF all THEN @
                    ELSE Append(@, [pattern |-> p, events |-> serving.popped])]
      /\ publishing' = Redirected(p, "popped", "nowhere")
      /\ UNCHANGED <<setting, conn, sending, clientVars, subscribed, queue, appended>>

(* its first events go into the reply, but for those that cannot, and the   *)
(* others are kept,                                                         *)
Collect(p) ==
  LET n == AtMost(serving.popped, MaxPerPoll)
  IN  /\ serving # NotServing /\ serving.at = p
      /\ serving' = [serving EXCEPT
           !.at = None, !.left = @ \ {p}, !.popped = <<>>,
           !.events = @ \o Among(Serializable, Prefix(serving.popped, n)),
           !.kept = IF Len(serving.popped) <= n THEN @
                    ELSE Append(@, [pattern |-> p, events |-> Suffix(serving.popped, n)])]
      /\ publishing' = Redirected(p, "popped", "nowhere")
      /\ UNCHANGED <<setting, conn, sending, clientVars, subscribed, queue, appended>>

KeptFor(p) == {k \in ItemsOf(serving.kept) : k.pattern = p}

(* Fault: what a reply has no room for is not put back.                     *)
FinishPollForgetting ==
  /\ serving # NotServing /\ serving.left = {}
  /\ SendReply("events", conn["events"], [id |-> serving.id, events |-> serving.events])
  /\ serving' = NotServing
  /\ UNCHANGED <<setting, clientVars, subscribed, queue, busVars>>

(* and put back in the place of what was queued meanwhile.                  *)
FinishPoll ==
  /\ serving # NotServing /\ serving.left = {}
  /\ queue' = [p \in Pattern |->
       IF KeptFor(p) = {} THEN queue[p] ELSE (CHOOSE k \in KeptFor(p) : TRUE).events]
  /\ publishing' = [b \in Publisher |->
       IF publishing[b] # Quiet /\ publishing[b].to = "queue"
          /\ publishing[b].at \in {k.pattern : k \in ItemsOf(serving.kept)}
       THEN [publishing[b] EXCEPT !.to = "nowhere"] ELSE publishing[b]]
  /\ SendReply("events", conn["events"], [id |-> serving.id, events |-> serving.events])
  /\ serving' = NotServing
  /\ UNCHANGED <<setting, clientVars, subscribed, appended>>

(* The end of a connection, for the server or on the way:  a part of the    *)
(* replies may still arrive.                                                *)
Hangup(c) ==
  /\ May("lost") /\ conn[c].up
  /\ \E n \in 0..Len(conn[c].replies) :
       conn' = [conn EXCEPT ![c].up = FALSE, ![c].requests = <<>>,
                            ![c].replies = Prefix(@, n)]
  /\ subscribed' = IF c = "events" THEN {} ELSE subscribed
  /\ queue' = IF c = "events" THEN [p \in Pattern |-> <<>>] ELSE queue
  /\ serving' = IF c = "events" THEN NotServing ELSE serving
  /\ UNCHANGED <<setting, sending, clientVars, busVars>>

-----------------------------------------------------------------------------
(* The bus: publish calls the handler of every pattern that matches.        *)

Published == {e.number : e \in UNION {ItemsOf(appended[p]) : p \in Pattern}}
             \cup {publishing[b].event.number : b \in {x \in Publisher : publishing[x] # Quiet}}

Publish(b, topic) ==
  LET matching == {p \in subscribed : topic \in Matches(p)}
  IN  /\ publishing[b] = Quiet
      /\ \/ May("overlap")
         \/ serving = NotServing /\ \A x \in Publisher : publishing[x] = Quiet
      /\ matching # {} /\ Cardinality(Published) < MaxEvents
      /\ publishing' = [publishing EXCEPT ![b] =
           [event |-> [topic |-> topic, by |-> b, number |-> Cardinality(Published) + 1],
            left |-> matching, at |-> None, to |-> "queue"]]
      /\ UNCHANGED <<setting, conn, clientVars, serverVars, appended>>

(* The handler: it looks up the queue, ...                                  *)
Take(b, p) ==
  /\ publishing[b] # Quiet /\ publishing[b].at = None /\ p \in publishing[b].left
  /\ publishing' = [publishing EXCEPT ![b].at = p, ![b].to = "queue"]
  /\ UNCHANGED <<setting, conn, clientVars, serverVars, appended>>

(* Fault: a queue without a limit.                                          *)
Untrimmed(s) == s

Trim(s) == Latest(s, MaxQueue)

(* ... then appends the event and removes the oldest ones over the limit.   *)
AppendTo(b, p) ==
  LET now == publishing[b]
      left == now.left \ {p}
  IN  /\ now # Quiet /\ now.at = p
      /\ queue' = IF now.to # "queue" \/ ~conn["events"].up THEN queue
                  ELSE [queue EXCEPT ![p] = Trim(Append(@, now.event))]
      /\ serving' = IF now.to # "popped" \/ serving = NotServing THEN serving
                    ELSE [serving EXCEPT !.popped = Trim(Append(@, now.event))]
      /\ appended' = [appended EXCEPT ![p] = Append(@, now.event)]
      /\ publishing' = [publishing EXCEPT ![b] =
           IF left = {} THEN Quiet ELSE [now EXCEPT !.left = left, !.at = None]]
      /\ UNCHANGED <<setting, conn, sending, clientVars, subscribed>>

-----------------------------------------------------------------------------
ThreadStep(t) ==
  \/ Send(t) \/ Acquire(t) \/ Receive(t) \/ Drain(t) \/ DrainGarbled(t)
  \/ Crash(t) \/ TimeOut(t)
PublisherStep(b) == \E p \in Pattern : Take(b, p) \/ AppendTo(b, p)
PollServed == StartPoll \/ FinishPoll \/ \E p \in Pattern : Pop(p) \/ Collect(p)

Next ==
  \/ \E t \in Caller : Call(t)
  \/ Poll
  \/ \E t \in Thread : ThreadStep(t)
  \/ \E p \in Pattern : Subscribe(p) \/ Unsubscribe(p)
  \/ \E c \in Conn : Close(c) \/ Answer(c) \/ Hangup(c)
  \/ PollServed
  \/ \E b \in Publisher : PublisherStep(b) \/ \E topic \in Topic : Publish(b, topic)

(* A thread that has called runs to the end of its call, the one that polls *)
(* polls again, and the threads of the server and of the engine run.        *)
Spec ==
  /\ Init /\ [][Next]_vars
  /\ \A t \in Thread : WF_vars(ThreadStep(t))
  /\ WF_vars(Poll) /\ WF_vars(PollServed) /\ WF_vars(Answer("shared"))
  /\ \A b \in Publisher : WF_vars(PublisherStep(b))

-----------------------------------------------------------------------------
(* Properties.                                                              *)

(* A call gets the reply to its own request, whichever thread reads it and  *)
(* however late the replies to earlier calls are.                           *)
OwnReply == \A t \in Thread :
  result[t] # None /\ result[t].how = "answered" => result[t].reply = result[t].id

(* A request that was sent, or its reply, is in exactly one place as long   *)
(* as the connection lives and the reply goes out whole:  a late reply      *)
(* neither stays nor comes twice, and no call is without its reply because  *)
(* of other threads or of other replies, but for one written behind a part  *)
(* of another.                                                              *)
Places(c, i) ==
  LET k == conn[c]
      Of(s) == {<<j, s[j]>> : j \in {j \in DOMAIN s : s[j].id = i}}
  IN  Cardinality(Of(k.requests)) + Cardinality(Of(k.replies)) + Cardinality(Of(k.buffer))
        + Cardinality({r \in k.stash : r.id = i})
        + IF c = "events" /\ serving # NotServing /\ serving.id = i THEN 1 ELSE 0
OnePlace ==
  /\ \A c \in Conn, i \in Id : Places(c, i) <= 1
  /\ \A t \in Thread : thread[t].phase \in {"waiting", "receiving"} =>
       \/ Places(ConnOf(t), thread[t].request.id) = 1
       \/ thread[t].request.id \in UnsentIds(ConnOf(t)) \/ May("lost")

(* A thread that has a connection for itself does not wait for a reply that *)
(* was put aside.                                                           *)
NotPutAside == \A t \in Thread :
  thread[t].phase \in {"waiting", "receiving"} /\ (t = Poller \/ ~May("shared")) =>
    Stashed(t) = {}

RepliesKept == OwnReply /\ OnePlace /\ NotPutAside

(* Callbacks get the events of a pattern once, and those of one publisher   *)
(* in the order in which it published them, whatever the threads do;  but   *)
(* for patterns that share topics:  there is a queue for each of them, and  *)
(* an event comes out of each to the callbacks of all.                      *)
Apart(p) == \A q \in Pattern \ {p} : Matches(p) \cap Matches(q) = {}
InOrder == \A p \in Pattern : Apart(p) =>
  LET d == delivered[p] IN
  \A i, k \in DOMAIN d : i < k =>
    d[i] # d[k] /\ (d[i].by = d[k].by => d[i].number < d[k].number)

(* The latest events of a pattern, as many as a queue holds, are there      *)
(* until they are delivered, but for those that cannot be encoded and those *)
(* in a reply that did not go out whole: when no event is published in the  *)
(* middle of a poll, the replies to polls come in time, and nobody          *)
(* unsubscribes.                                                            *)
Under == conn["events"].replies \o conn["events"].buffer
There(p) ==
  ItemsOf(delivered[p]) \cup ItemsOf(queue[p])
    \cup (UNION {ItemsOf(r.events) : r \in ItemsOf(Under)})
    \cup IF serving = NotServing THEN {}
         ELSE ItemsOf(serving.events) \cup ItemsOf(serving.popped)
              \cup UNION {ItemsOf(k.events) : k \in ItemsOf(serving.kept)}
Due(p) == ItemsOf(Latest(appended[p], MaxQueue)) \cap Serializable
UnsentEvents == UNION {ItemsOf(r.events) : r \in sending["events"].unsent}
LatestKept ==
  {"overlap", "slow", "lost", "leave"} \cap setting = {} =>
    \A p \in Pattern : Due(p) \subseteq There(p) \cup UnsentEvents

EventsKept == InOrder /\ LatestKept

(* Every call ends, also when its reply does not come or cannot be read.    *)
(* And each event is delivered in the end that can be encoded, unless as    *)
(* many later ones of its pattern as a queue holds take its place: in the   *)
(* same conditions, and when replies can be sent and callers do not keep    *)
(* the lock for ever (there are MaxCalls of them).                          *)
CallsReturn == \A t \in Thread : thread[t] # Idle ~> thread[t] = Idle
EventsArrive ==
  {"overlap", "slow", "lost", "leave", "unsent"} \cap setting = {} =>
    \A p \in Pattern, n \in 1..MaxEvents :
      (\E e \in Due(p) : e.number = n)
        ~> \/ n \in {e.number : e \in ItemsOf(delivered[p])}
           \/ n \notin {e.number : e \in Due(p)}
Progress == CallsReturn /\ EventsArrive

-----------------------------------------------------------------------------
(* What the documentation says and the code does not do.                    *)

(* "If another thread already received our reply, return it immediately":   *)
(* a call whose reply another thread has put aside does not time out.       *)
StashedIsReturned ==
  [][\A t \in Thread : Receiving(t) /\ Stashed(t) # {} =>
       thread'[t] # Idle \/ result'[t].how # "timeout"]_vars

================================================================================
