----------------------------- MODULE RemoteEngine -----------------------------
(***************************************************************************)
(* The engine of a client whose workspace lives in another process         *)
(* (lib_openm/remote_engine.py): it keeps a copy of the workspace, fetches *)
(* it when there is none, drops it when a call has changed the structure,  *)
(* and patches it when dimensions and cubes come and go.  It also keeps,   *)
(* for itself, which cells have hard values (user_override_addrs of the    *)
(* local workspace).  Some of its methods make several calls.              *)
(***************************************************************************)
EXTENDS RemoteConnection

CONSTANTS
  Thing,       (* parts of the structure of a workspace: dimensions, rules  *)
  Cell,        (* the cells                                                 *)
  MaxHistory,  (* bound on what the server can undo, which forgets the rest *)
  MaxBatch     (* bound on the calls that one method makes                  *)

(* edits: methods that change the workspace;  fill: hard values set by      *)
(* set_range or batch_set_cell_data, too;  undo: undo, which the server     *)
(* does, and remembers changes for;  load: another workspace;  batch:       *)
(* methods that make several calls;  scope: batch_cache_scope, which the    *)
(* repository does not enter, though its users may.                         *)

VARIABLES
  server,      (* the workspace in the server, and those before it          *)
  local,       (* user_override_addrs of _local_ws                          *)
  cached,      (* _cached_workspace, if there is one                        *)
  own,         (* whether that is the object _local_ws                      *)
  pending,     (* _batch_invalidation_pending                               *)
  wsLock,      (* who has _ws_lock                                          *)
  made,        (* what the earlier calls of each thread's method have done  *)
  untold       (* history: the parts and the hard values that the server    *)
               (* has changed without the client's taking notice            *)

engineVars == <<server, local, cached, own, pending, wsLock, made, untold>>
vars == <<connectionVars, engineVars>>

Workspace == [things : SUBSET Thing, marks : SUBSET Cell]

(* get fetches the workspace, create and delete are for dimensions and      *)
(* cubes, edit changes other parts;  type and clear set a hard value;  fill *)
(* does, too, by set_range or batch_set_cell_data;  load replaces the       *)
(* workspace;  query is any other call.                                     *)
Operation ==
  {[kind |-> k, on |-> None] : k \in {"get", "undo", "query"}}
    \cup [kind : {"create", "delete", "edit"}, on : Thing]
    \cup [kind : {"type", "clear", "fill"}, on : Cell]
    \cup [kind : {"load"}, on : Workspace]

ASSUME EngineAssumption ==
  /\ Op \subseteq Operation /\ MaxHistory \in Nat /\ MaxBatch \in Nat \ {0}
  /\ None \notin Thing \cup Cell

Nothing == [calls |-> 0, things |-> {}, on |-> {}, off |-> {}]

TypeOK ==
  /\ ConnectionTypeOK
  /\ server \in [now : Workspace, before : Seq(Workspace)]
  /\ local \subseteq Cell
  /\ cached \subseteq Workspace /\ Cardinality(cached) <= 1
  /\ own \in BOOLEAN /\ pending \in BOOLEAN
  /\ wsLock # None => wsLock \in Busy /\ call[wsLock].op.kind = "get"
  /\ made \in [Thread -> [calls : 0..MaxBatch - 1, things : SUBSET Thing,
                          on : SUBSET Cell, off : SUBSET Cell]]
  /\ \A t \in Thread \ Busy : made[t] = Nothing
  /\ untold \in [things : SUBSET Thing, cells : SUBSET Cell]

Init ==
  /\ ConnectionInit
  /\ \E ws \in IF May("edits") THEN Workspace ELSE {[things |-> {}, marks |-> {}]} :
       /\ server = [now |-> ws, before |-> <<>>]
       /\ local = ws.marks /\ cached = {ws}
  /\ own = TRUE /\ pending = FALSE /\ wsLock = None
  /\ made = [t \in Thread |-> Nothing]
  /\ untold = [things |-> {}, cells |-> {}]

-----------------------------------------------------------------------------
(* The server (external): what it does for an operation, and its answer.    *)

Toggled(S, x) == IF x \in S THEN S \ {x} ELSE S \cup {x}

Changed(ws, op) ==
  CASE op.kind = "create" -> [ws EXCEPT !.things = @ \cup {op.on}]
    [] op.kind = "delete" -> [ws EXCEPT !.things = @ \ {op.on}]
    [] op.kind = "edit" -> [ws EXCEPT !.things = Toggled(@, op.on)]
    [] op.kind = "type" -> [ws EXCEPT !.marks = @ \cup {op.on}]
    [] op.kind = "clear" -> [ws EXCEPT !.marks = @ \ {op.on}]
    [] op.kind = "fill" -> [ws EXCEPT !.marks = Toggled(@, op.on)]
    [] op.kind = "load" -> op.on
    [] OTHER -> ws

Latest(s) ==
  IF ~May("undo") THEN <<>> ELSE IF Len(s) > MaxHistory THEN SubSeq(s, 1, MaxHistory) ELSE s

After(op) ==
  IF op.kind = "undo" /\ server.before # <<>>
  THEN [now |-> Head(server.before), before |-> Tail(server.before)]
  ELSE IF op.kind \in {"get", "undo", "query"} THEN server
  ELSE [now |-> Changed(server.now, op), before |-> Latest(<<server.now>> \o server.before)]

(* The hard values for which the client records no marks: those that are    *)
(* filled and those that an undo brings or takes away.                      *)
Unmarked(op) ==
  IF op.kind \notin {"fill", "undo"} THEN {}
  ELSE {c \in Cell : (c \in server.now.marks) # (c \in After(op).now.marks)}

(* GET_WORKSPACE may leave the marks out.                                   *)
Execute(r, failed) ==
  /\ server' = IF failed THEN server ELSE After(r.op)
  /\ untold' = IF failed THEN untold ELSE [untold EXCEPT !.cells = @ \cup Unmarked(r.op)]
  /\ \E marks \in {server.now.marks, {}} :
       Serve(r, IF r.op.kind = "get" THEN {[server.now EXCEPT !.marks = marks]} ELSE {}, failed)
  /\ UNCHANGED <<local, cached, own, pending, wsLock, made>>

-----------------------------------------------------------------------------
(* The client.                                                              *)

(* The workspace property, without a copy: a thread fetches it under the    *)
(* lock,                                                                    *)
Read(t, op) ==
  /\ op.kind = "get" /\ cached = {} /\ wsLock = None
  /\ Begin(t, op)
  /\ wsLock' = t
  /\ UNCHANGED <<server, local, cached, own, pending, made, untold>>

Do(t, op) ==
  /\ op.kind # "get"
  /\ op.kind = "query" \/ May("edits")
  /\ op.kind \in {"fill", "undo", "load"} => May(op.kind)
  /\ op.kind = "create" => op.on \notin server.now.things
  /\ Begin(t, op)
  /\ UNCHANGED engineVars

Finished(t, how) == call[t] # Idle /\ call[t].phase = "done" /\ call[t].how \in how
Forget(t) ==
  /\ call' = [call EXCEPT ![t] = Idle]
  /\ made' = [made EXCEPT ![t] = Nothing]
  /\ UNCHANGED <<setting, shut, netVars, lock, breakerVars, server>>

(* Fault: the copy from the server replaces the marks.                      *)
FetchedUnmerged(t) ==
  /\ Finished(t, {"ok"}) /\ call[t].op.kind = "get"
  /\ cached' = call[t].reply.data
  /\ own' = FALSE /\ untold' = [untold EXCEPT !.things = {}]
  /\ wsLock' = None /\ Forget(t)
  /\ UNCHANGED <<local, pending>>

(* and adds its own marks to the copy.                                      *)
Fetched(t) ==
  /\ Finished(t, {"ok"}) /\ call[t].op.kind = "get"
  /\ cached' = {[ws EXCEPT !.marks = @ \cup local] : ws \in call[t].reply.data}
  /\ own' = FALSE /\ untold' = [untold EXCEPT !.things = {}]
  /\ wsLock' = None /\ Forget(t)
  /\ UNCHANGED <<local, pending>>

(* create_dimension, create_cube, delete_dimension and delete_cube: the     *)
(* copy is patched.                                                         *)
Patched(t) ==
  /\ Finished(t, {"ok"}) /\ call[t].op.kind \in {"create", "delete"}
  /\ cached' = {Changed(ws, call[t].op) : ws \in cached}
  /\ Forget(t)
  /\ UNCHANGED <<local, own, pending, wsLock, untold>>

(* The copy, when an edit has been done in the local workspace.             *)
Shown(op) ==
  IF own /\ op.kind = "edit" THEN {Changed(ws, op) : ws \in cached} ELSE cached

(* The other changes, and undo: _invalidate_workspace_cache drops the copy, *)
(* if it is not to be dropped at the end of a scope.                        *)
Edited(t) ==
  /\ Finished(t, {"ok"}) /\ call[t].op.kind \in {"edit", "undo", "fill"}
  /\ cached' = IF pending THEN Shown(call[t].op) ELSE {}
  /\ Forget(t)
  /\ UNCHANGED <<local, own, pending, wsLock, untold>>

(* What a method has done after another call.                               *)
Made(m, op) ==
  CASE op.kind = "edit" -> [m EXCEPT !.calls = @ + 1, !.things = @ \cup {op.on}]
    [] op.kind = "type" -> [m EXCEPT !.calls = @ + 1, !.on = @ \cup {op.on}, !.off = @ \ {op.on}]
    [] op.kind = "clear" -> [m EXCEPT !.calls = @ + 1, !.on = @ \ {op.on}, !.off = @ \cup {op.on}]
    [] OTHER -> m
Marked(marks, m) == (marks \cup m.on) \ m.off

(* batch_create_dimension_items, and batch_set_cell_hardvalues_by_addr with *)
(* a server that cannot set several values at once: the next call.          *)
Another(t, op) ==
  /\ May("batch") /\ Finished(t, {"ok"}) /\ made[t].calls + 1 < MaxBatch
  /\ \/ {call[t].op.kind, op.kind} = {"edit"}
     \/ {call[t].op.kind, op.kind} \subseteq {"type", "clear"}
  /\ call' = [call EXCEPT ![t] = Started(op)]
  /\ made' = [made EXCEPT ![t] = Made(@, call[t].op)]
  /\ cached' = Shown(call[t].op)
  /\ UNCHANGED <<setting, shut, netVars, lock, breakerVars, server, local, own, pending,
                 wsLock, untold>>

(* Hard values: their marks, here and in the copy, after the last call.     *)
Typed(t) ==
  LET m == Made(made[t], call[t].op)
  IN  /\ Finished(t, {"ok"}) /\ call[t].op.kind \in {"type", "clear"}
      /\ local' = Marked(local, m)
      /\ cached' = {[ws EXCEPT !.marks = Marked(@, m)] : ws \in cached}
      /\ untold' = [untold EXCEPT !.cells = @ \ (m.on \cup m.off)]
      /\ Forget(t)
      /\ UNCHANGED <<own, pending, wsLock>>

(* replace_workspace: what was loaded is the local workspace and the copy.  *)
Loaded(t) ==
  /\ Finished(t, {"ok"}) /\ call[t].op.kind = "load"
  /\ local' = call[t].op.on.marks /\ cached' = {call[t].op.on} /\ own' = TRUE
  /\ untold' = [things |-> {}, cells |-> {}]
  /\ Forget(t)
  /\ UNCHANGED <<pending, wsLock>>

Queried(t) ==
  /\ Finished(t, {"ok"}) /\ call[t].op.kind = "query"
  /\ Forget(t)
  /\ UNCHANGED <<local, cached, own, pending, wsLock, untold>>

(* An exception: nothing is dropped or patched, whatever the earlier calls  *)
(* of the method have done.                                                 *)
Failed(t) ==
  /\ Finished(t, {"error", "raised", "refused"})
  /\ wsLock' = IF wsLock = t THEN None ELSE wsLock
  /\ untold' = [things |-> IF own THEN untold.things ELSE untold.things \cup made[t].things,
                cells |-> untold.cells \cup made[t].on \cup made[t].off]
  /\ Forget(t)
  /\ UNCHANGED <<local, cached, own, pending>>

(* batch_cache_scope, between calls;  in one scope there may be another.    *)
EnterScope ==
  /\ May("scope") /\ Busy = {}
  /\ pending' = TRUE
  /\ UNCHANGED <<connectionVars, server, local, cached, own, wsLock, made, untold>>

LeaveScope ==
  /\ pending /\ Busy = {}
  /\ pending' \in BOOLEAN /\ cached' = {}
  /\ UNCHANGED <<connectionVars, server, local, own, wsLock, made, untold>>

-----------------------------------------------------------------------------
Ends(t) ==
  \/ Fetched(t) \/ Patched(t) \/ Edited(t) \/ Typed(t) \/ Loaded(t) \/ Queried(t)
  \/ Failed(t)
ThreadStep(t) ==
  (CallStep(t) /\ UNCHANGED engineVars) \/ Ends(t) \/ \E op \in Op : Another(t, op)

Next ==
  \/ \E t \in Thread, op \in Op : Read(t, op) \/ Do(t, op)
  \/ \E t \in Thread : ThreadStep(t)
  \/ \E r \in requests, failed \in BOOLEAN : Execute(r, failed)
  \/ EnterScope \/ LeaveScope
  \/ Environment /\ UNCHANGED engineVars

(* Calls run, and the server executes what it has received.                 *)
Spec ==
  /\ Init /\ [][Next]_vars
  /\ \A t \in Thread : WF_vars(ThreadStep(t))
  /\ WF_vars(\E r \in requests : Execute(r, FALSE))

-----------------------------------------------------------------------------
(* Properties.                                                              *)

(* Between calls, and outside of scopes, the copy is the workspace of the   *)
(* server, and its marks, and those of the local workspace, are on the cells*)
(* that have hard values: for one thread and a network and a server that do *)
(* not fail, but for what the client was not told of.  That is what a       *)
(* method had changed that was refused before its last call, until the copy *)
(* is fetched, and hard values that such a method had set or that were      *)
(* filled or undone, until they are set again.                              *)
Calm == {"threads", "faults", "down", "interrupt", "close"} \cap setting = {}
FreshCopy ==
  Calm /\ Busy = {} =>
    /\ local \ untold.cells = server.now.marks \ untold.cells
    /\ \A ws \in cached : ~pending =>
         /\ ws.things \ untold.things = server.now.things \ untold.things
         /\ ws.marks \ untold.cells = server.now.marks \ untold.cells

CallsMatch == Answered /\ NoStorm

(* A call that has the lock gives it back, whatever the network and the     *)
(* server do, be it by an error;  and a call with a lock_timeout ends.      *)
CallsEnd == \A t \in Thread :
  /\ lock = t ~> lock = None
  /\ call[t] # Idle /\ call[t].op \in Quick ~> call[t] = Idle

-----------------------------------------------------------------------------
(* What the documentation says and the code does not do.                    *)

(* "The local copy is kept in sync by set_cell_hardvalue_by_addr /          *)
(* batch_set_cell_hardvalues_by_addr": without other ways to change hard    *)
(* values.                                                                  *)
KeptInSync ==
  Calm /\ Busy = {} /\ (\A op \in Op : op.kind \notin {"fill", "undo"}) =>
    local = server.now.marks

===============================================================================
