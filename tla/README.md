# A verification project for OM Core

OM Core is a multidimensional spreadsheet: cubes of cells, rules that compute
cells from other cells, and the hosts, commands, solvers and stores around them.
This directory holds TLA+ modules that model the parts of it where the order of
things decides what is true, TLC configurations that check them on small
instances, and theorems that TLAPS checks for every value of the constants.
Paths below are relative to the repository's root (`src/` in `PROJECT.json`).

1. [The system](#the-system)
2. [What is modelled](#what-is-modelled)
3. [The runs](#the-runs)
4. [What is proved](#what-is-proved)
5. [Where the code and its documentation disagree](#where-the-code-and-its-documentation-disagree)
6. [Not modelled](#not-modelled)
7. [Plan](#plan)

## The system

A client (the Qt window, the terminal UI, the REPL, a script, a remote session)
talks to a *session gateway*, which puts a request on a *message bus* and waits
for the reply. The *command service* takes the request to the *command executor*,
which opens an undo group, publishes lifecycle events and calls the command's
handler. Handlers call the *engine*. Three of them (recalculate, save, load) go
through the engine's *lifecycle state machine*. The solver commands call the
*solver service*, which starts a worker thread that evaluates candidates on the
live workspace. Snapshots go through the *timeline service* to a store adapter,
a file lock shared between processes, and an SQLite *data store* with a chain of
differences whose state is kept in memory.

The engine has no lock of its own (`lib_command/commands/query.py:1366` calls it
not generally thread-safe), each socket connection has a thread, and solver jobs
have threads too. So the state each component keeps, and who may interleave with
it, is what the inventory records.

| Component | State | Operations | What is hard | What makes it correct |
|---|---|---|---|---|
| Lifecycle state machine, `lib_openm/engine_state.py` | engine state, cancel flag, mutation lock, state lock | serialized command, cancel, shutdown | cancel and shutdown run without the mutation lock; a body may raise or be interrupted at any time | commands exclude each other; nobody is left in a transient state, but after an interrupt; a failed command faults the engine; only recovery commands leave that state |
| Solver service, `lib_runtime/solver`, `lib_runtime/solver_adapters` | jobs, runners, results with receipts, workspace leases, restoration tables | run, evaluate, cancel, fetch, apply, expire | worker threads write candidates into live cells; checks and effects lie in different critical sections; retries by request id | one session at a time; candidates leave no trace; the lease is given back if the job could be started; an apply happens wholly or fails |
| Evaluation and recalculation, `lib_openm/_engine_core.py`, `deps.py`, `model.py`, `rule_eval/` | cube data, overrides, rules, dependency graph, dirty set, evaluation stack | read, view, edit, set and delete rules, recompute, recalculate | lazy evaluation records edges while it runs; edges follow the branch an IF took; circular references are found deep inside | what is shown is what the rules say; hard values win; every operation ends |
| Snapshot store, `lib_datastore`, `lib_storeadapters`, `lib_runtime/timeline_service.py` | snapshot rows, branches, the in-memory delta chain, the restored-from pointer | save, load, restore, delete, branch | a chain in memory that restarts and other processes do not share; rows written one by one | every snapshot listed can be loaded and is what was saved |
| Undo and executor, `lib_openm/undo.py`, `lib_command/core/executor.py` | undo and redo stacks, the open group | execute, undo, redo | an action that raises half way; groups that nest | undo after do is the state before |
| Message bus, gateway, sessions, `lib_command/core` | subscriber lists, correlation and session ids on a shared context | publish, subscribe, request | threads share plain lists and attributes | each request gets its own reply, under its own session |
| Scheduled bus, `scheduled_message_bus.py`, `virtual_scheduler.py` | queue of callbacks, virtual time | publish, run until, request with deadline | nested waits move time back and forth | time does not go backwards; a request that timed out has no effect |
| Socket transport and polling, `transport_socket_client.py`, `transport_socket_server.py` | the shared connection, its lock, buffer and stash; a queue per subscription and connection | call, poll, publish | whoever has the lock reads everybody's replies; polls and pushes on different threads | every call gets its own reply, if one can be sent; every event reaches its poller once, in order |
| Remote engine, `lib_openm/remote_connection.py`, `remote_engine.py` | socket, failure count, circuit breaker, a copy of the remote workspace | call, reconnect, fetch, patch | a lost reply looks like a lost request; the copy and the server change at different times; methods of several calls fail half way | a call gets its own reply and runs at most once in an attempt; the copy is up to date, but for what the client was not told of |
| Solver backends and worker process, `subprocess_worker.py`, `backends/` | pipes, tokens, deadlines, the last candidate and result | solve, evaluate, cancel | blocking reads; two tokens, one in each process; a stop between two evaluations | answers stay in step with requests; what is reported was measured; a job ends |
| Rule language, workspace files, outline graph, commands, hosts, REPL and macros, user interfaces, formatting, plugins | trees, files, widgets | parse, load, convert, show | mostly sequential | see [Not modelled](#not-modelled) |

`PROJECT.json` lists every component with its sources and its status, and under
`hazards` the places in this code that a test would hardly reach, each with the
properties that cover it. Smaller hazards of the same components that it has no
room for:

- lifecycle: the admission check and the reply of a denied command read the state
  at different times (`engine_state.py:133`, `195`);
- solver: an apply in the middle of another job's session is undone by its next
  restore (`engine_solver_apply.py:83`); a job that is FINISHED but
  whose result is not stored yet (`solver_job.py:146`); results that are never evicted
  (`solver_service.py:754`); a full event queue that drops the last event
  (`runtime_event_publisher.py:50`);
- engine: a batch of rules that fails rolls back rules but not values and edges
  (`_engine_core.py:9732`); an undo that turns a computed value into a typed one
  (`_engine_core.py:9821`); a full recalculation after an edit, before the first
  evaluation (`_engine_core.py:6075`);
- snapshots: a crash between a row and its branch head
  (`sqlite_snapshot_adapter.py:256`); a failed write that is not reported
  (`datastore.py:358`);
- transport and remote: a frame header that arrives in two pieces is taken for the
  end of the connection (`remote_connection.py:333`); the time spent waiting for
  the lock is not part of the time-out (`transport_socket_client.py:115`); an error
  reply does not reset the count of the breaker (`remote_connection.py:226`);
- buses and sessions: a nested wait of the virtual scheduler leaves time ahead of
  queued calls (`virtual_scheduler.py:69`); threads share one list of subscribers
  (`message_bus.py:119`) and one session id (`session_gateway.py:147`).

## What is modelled

Next to an action stands the *fault* of it that the mutants of `PROJECT.json` use:
the same action with a plausible mistake. A fault is not part of `Next`. Every
property of a passing run is violated under one of them.

The modules of the second half share a convention: a constant `Settings` is a set
of sets of *possibilities* (what may happen: several threads, lost connections,
crashes, ...), and `Init` chooses one of them. So one run looks at several
environments, each small enough to be explored in full, and a property that holds
only in some says which.

### EngineState

`EngineState.tla` is `EngineStateMachine` and the three commands that call
`execute_serialized_command` (`lib_command/commands/system.py`). The mutation lock
is a variable with its owner, as it is held across steps; the state lock is not,
since a step of the model is exactly one stretch of code under it.

| Model | Code |
|---|---|
| `Acquire`, `Denied` | the non-blocking acquire, and the later read of the state that chooses the exception |
| `CheckState` | the admission check and the entry of the command's state |
| `BodyReturns`, `BodyRaises`, `BodyCancelled`, `FaultAfterCancel` | the body's end and the `except` clauses |
| `BodyInterrupted` | `KeyboardInterrupt`, which passes both `except` clauses, or ends the first between its two states; `executor.py:328` catches it and the session goes on |
| `Release` | the `finally` clause |
| `RequestCancel` | `request_cancel`, under the state lock only |
| `ShutdownWrite`, `ShutdownPublish` | `shutdown`, which writes under the state lock and publishes after it |
| `published` | what a subscriber of `engine.state_changed` saw last |

The bodies are abstract: they return, raise, raise `CalculationCancelledError` where
`CanRaiseCancelled` lets them, or are interrupted where `Interruptible` does (Python
raises `KeyboardInterrupt` in the main thread only, of hosts that leave Control-C to
it). After an interrupt the engine stays in LOADING, SAVING, RECALCULATING or
CANCELLING, until it is shut down, with the lock free: no command is ever admitted
again (`StrandedForGood`). `stranded` remembers it, and what `CommandStates`
promises otherwise is said of an engine that is not. An interrupt between the write
of a state and its event is left out. `MUTATING` is in the enumeration of the code
and no command enters it. `transition_to` is called by no command and left out.

### SolverService

`SolverService.tla` composes the service, its job runner, the evaluation session,
the lease adapter and the apply adapter on one workspace. A job is one
`run_solver` call and the worker thread it starts; a client is a thread that
applies results. A step is a critical section or the write of one variable cell.

| Model | Code |
|---|---|
| `RunCheck` ... `Start` | `SolverService.run_solver`, with `begin_solver_evaluation` of the lease adapter inside |
| `StartFails` | anything raised between the capture and `runner.start()` (the backend's lookup, the runner, the thread), which no handler catches: the lease stays held and, once the job is published, the job RUNNING |
| `RevisionMismatch`, `MismatchRaised` | the two releases of the lease on a stale expected revision |
| `Release`, `robbed` | a release discards the flag, whoever raised it; the jobs that lost their lease so are remembered |
| `BeginCandidate`, `WriteCell`, `Evaluate`, `RestoreCell`, `WriteFails`, `RestoreFails` | `SolverEvaluationSession.evaluate_candidate`, `close` and `_restore` |
| `BackendReturns`, `BackendRaises` | the backend, which may try any candidates and return any front |
| `OnJobFinished` | `_on_job_finished`: the result is stored, the lease released |
| `ApplyClaim` ... `ApplyRollback` | `apply_solver_result` and `commit_solver_result_values` |
| `ApplyFails`, `broken` | an apply that raises after some of its writes, which stay |
| `mixed` | calls with different points of one result have been in their writes at once |
| `Expire`, `EvictExpired` | the time to live of a result |
| `Edit` | any other session that types a value |

`Environment` says what else may happen: edits by others (`edit`), callers whose
expected revision is stale (`stale`), cubes that are deleted (`cube_gone`), starts
and applies that fail (`start_fails`, `apply_fails`), results that expire
(`expiry`). A property that holds only without some of them says so, and its run
leaves these out. Left out: the cancellation token and the deadline (here a backend
may stop after any evaluation; `SolverRun` has them), remote engines, the resolution
and validation of the problem (`BeginFails` may happen for any job), the status of
the result and the owner check.

### Recalculation

`Recalculation.tla` is the lazy evaluation of the engine on one cube: the
dependency graph of `deps.py`, and reads, views, edits, rules, recompute and full
recalculation of `_engine_core.py`. An evaluation is a stack of calls of
`_get_cell_by_addr`; a step resolves one reference or returns from one call.

| Model | Code |
|---|---|
| `ReadCell`, `ViewCell` | `get_cell_by_addr`, `get_cell_value` |
| `Cached`, `Supplied`, `Supply`, `Evaluate` | the paths of `_get_cell_by_addr` |
| `ReadReference`, `FinishEvaluation`, `FinishView`, `Conclude` | references and return of a rule, the edges recorded, `CircularReferenceError` |
| `EditCell`, `Closed`, `Reached` | `set_cell_hardvalue`, `clear_cell_hardvalue`, `_mark_node_and_dependents_dirty` |
| `SetRule`, `DeleteRule` | `set_rule` with one target, `delete_rule` |
| `RecomputeDirty`, `RecomputeCell`, `CloseFrontier`, `Ready` | `recompute_dirty_nodes` and its frontiers |
| `RecalculateAll`, `BootstrapCell`, `BootstrapDone` | `recalculate_all`, `_bootstrap_dependency_graph` |

Abstractions: arithmetic is an operator parameter `Compute`, the parser is left
out (a rule is the list of its references, with IF the one function that does not
read them all); rules are anchored to one cell and do not name that cell; the
code works through a frontier in the order of the node keys, the model in any
order, so what is checked does not hang on that order. `Denotation` is the
reference the cached values are compared with: the rules evaluated to the depth
of the number of cells, from `#CIRC!`.

### SolverRun

`SolverRun.tla` is what `SolverService` abstracts: the run of one job, between a
runner (`SolverJobRunner`, a thread, or `SubprocessSolverRunner`, which starts a
process) and a backend (scipy's COBYLA or pymoo). The optimizers are third-party
code and may ask for any candidates up to a limit; a point stands for its
objectives. In a process the pipes carry the messages; in a thread the same
variables are call and return.

| Model | Code |
|---|---|
| `Top`, `Read`, `ReadEnd`, `Decide`, `Evaluate`, `Finish` | `_ipc_loop` and `_run` of the runner |
| `Want`, `Ask`, `Answered` | the objective function that the optimizer calls, and `evaluate_candidate` in the process |
| `Stopped`, `Raised`, `Callback` | the ways out of the optimizer: `StopIteration`, other exceptions, scipy's callback |
| `Optimized`; `Minimized`, `Confirm`, `Confirmed`, `Return` | the result of pymoo; that of scipy, which evaluates the point again |
| `token`, `backend.token` | the two cancellation tokens; the one in the process is set by the backend's own deadline |
| `Crash` | the process ends without a word |

### SnapshotStore

`SnapshotStore.tla` is the timeline of one workspace: rows that hold a payload or
a difference from a base, branches and heads, and the state of the chain of
differences that each process keeps in memory. `Timeline.tla` is the promise: a
snapshot is a payload that never changes until it is deleted. The refinement
(`KeepsContents`) maps a snapshot to what *loading* it gives, so that a wrong base
is a wrong content.

| Model | Code |
|---|---|
| `Open`, `Recovered`, `Stop` | `_session_store` and `_recover_delta_state`; a process that closes or crashes, the lock it held gone |
| `FindNoFile`, `CreateNew`, `WriteSession` | `_session_store` without a file, and `create_new`: the tables, then an initial session without heads, both outside the lock, since `create_checkpoint` asks for the branch before it takes it |
| `emptied` | after which snapshots a session was emptied so, while nobody held the lock |
| `Request`, `CreateRow`, `CreateHead` | `create_snapshot` of the timeline service, under the file lock, in two transactions |
| `ForcedFull`, `ChainOf`, `Save`, `DeltaOf`, `PythonEqual` | `DeltaEngine`: full or difference, from which base, and the comparison of values |
| `Rebuilt`, `Apply` | `_reconstruct_from_delta` with its checksums |
| `Loaded`, `Readable` | `load_snapshot`, which gives a difference that has lost its base as it is (`Foreign`); the snapshots a workspace can be made of |
| `DeleteSnapshot` | the same of the store: a base may go |
| `Restore`, `Restructure`, `RestoreDone` | restore, and the branches and parents planned afterwards |
| `RewriteRow`, `Rewrite`, `Left` | the plan, row by row: the branch in one transaction, the parent, with the base of a difference, in the next |

A restore can make the root of main out of a difference whose ancestors were
deleted, and its base becomes NULL. `load_snapshot` then returns the stored
difference without applying it (`datastore.py:493`). It is not a workspace:
`restore_snapshot` raises `KeyError` at the first field it looks for and changes
nothing. So `KeepsContents` speaks of the workspace made of a snapshot, which is the
saved one or does not come about. The session metadata is read and written in one
step; so are, within a creation, the parent's row and the new one.

### CommandExecution

`CommandExecution.tla` is the undo manager with the group that the executor opens
around a command, and the edits of cells and batches that the engine pushes, which
are the only actions anybody pushes. `History.tla` is the promise: a line of states
with a cursor. The refinement (`LinearHistory`) recovers the line by undoing and
redoing what is on the stacks, so that it fails if an action does not restore what
was there.

| Model | Code |
|---|---|
| `Begin`, `Succeed`, `Fail` | `CommandExecutor.execute` |
| `PushAndDo`, `RunUndo`, `RunRedo`, `Latest`, `Concat` | `UndoManager`, `CompositeAction` |
| `SetCell`, `SetCells`, `Do`, `Undo` | `_CellEditAction`, `_BatchCellEditAction` and the methods that push them |
| `Replace` | restore of a checkpoint, which clears the stacks, and load of a file, which leaves them |
| `Evaluate` | a rule that fills a cell between commands |

### Transport

`Transport.tla` is the socket transport, client and server. Background threads of
the client share one connection; the thread that polls has its own. The server has
a thread for each connection; engine threads publish events.

| Model | Code |
|---|---|
| `Call`, `Poll`, `Send`, `Acquire`, `Drain`, `DrainGarbled`, `Receive`, `TimeOut`, `Crash` | `send_and_wait` and `_recv_matching`: stash, lock, replies read for others, lines that cannot be decoded, time-outs |
| `Subscribe`, `Unsubscribe`, `Dispatch` | the client's subscriptions and its callbacks |
| `Answer`, `StartPoll`, `Pop`, `Collect`, `FinishPoll` | the server's thread; a poll takes queues away, and puts back what does not fit |
| `SendReply`, `sending` | `encode_envelope` and `sendall`: a reply that cannot be encoded or sent, whole or in part, is logged and dropped, and the connection lives; what follows a part is garbled with it; requests already read wait for the next that comes |
| `Serializable` | events that no JSON can be made of are skipped |
| `Publish`, `Take`, `AppendTo` | the subscriber that the server adds to the bus, with the queue looked up before it is appended to |
| `Close`, `Hangup` | lost connections |

### RemoteConnection and RemoteEngine

`RemoteConnection.tla` is `call`: lock, attempts, circuit breaker, one socket.
`RemoteEngine.tla` extends it with what the client does around its calls, of which
some methods make several: the copy of the workspace that it fetches, drops or
patches, and its own record of hard values. The server is external: it executes
requests in order, keeps a history for undo, and may refuse, stop and restart.

| Model | Code |
|---|---|
| `Begin`, `Acquire`, `LockTimeout`, `CheckBreaker`, `Connect`, `Send`, `Receive`, `ReceiveNothing`, `FailedAttempt`, `Interrupt` | `RemoteConnection.call` |
| `Close` | `shutdown`, which does not take the lock |
| `Read`, `Fetched` | the property `workspace` without a copy, and the merge of the hard values |
| `Patched` | `create_dimension`, `create_cube`, `delete_dimension`, `delete_cube` |
| `Edited`, `Shown` | the other changes of the structure, `set_range` and `batch_set_cell_data`, undo: `_invalidate_workspace_cache`, which does nothing in a scope |
| `Another`, `Made` | `batch_create_dimension_items`, and `batch_set_cell_hardvalues_by_addr` with a server that cannot set several values at once: the next call |
| `Typed`, `Marked` | hard values and their marks, recorded after the last call |
| `Loaded`, `own` | `replace_workspace`; whether the copy is the local workspace itself |
| `EnterScope`, `LeaveScope`, `pending` | `batch_cache_scope`, which nothing in the repository enters |
| `Failed`, `untold` | an exception: nothing is dropped or marked, whatever earlier calls of the method have done; what the client has not been told of is remembered |
| `Serve`, `Execute`, `Break`, `Stop`, `Restart` | the other end and the network (external) |

The server is not in this model's sources: it is taken to change, for each call, the
one thing the call names. Left out: the first try of the batch call that an old
server does not know (it changes nothing), and the drop of the copy before
`bootstrap_dependency_graph`, which changes nothing of the workspace. Scopes are
entered and left between calls.

## The runs

All properties hold on every reachable state of the instance; no run bounds the
length of a behaviour.

| Run | Shows | Instance |
|---|---|---|
| `engine_state` | Commands exclude each other and leave no transient state, but for an interrupt, after which none runs; an observer is wrong in one case only; a faulted engine is left by recovery only; commands return | two threads, one of which can be interrupted, all three commands, any of which may raise or be cancelled, any number of cancels and shutdowns |
| `solver_evaluation` | The lease is up as long as a session or a job that could not be started has it, and no second session begins, unless a stale caller's second release took it away; candidates are tried whole and leave no trace | three jobs, two cells, two candidates, two evaluations per job; stale callers and starts that fail |
| `solver_apply` | Nobody leaves a result APPLYING, receipts carry the right revision; the workspace is a receipt's point or untouched, after a failed apply the first cells of one point, and only calls that overlap mix two | one job, whose front has up to two points, two clients, two request ids, expiry, applies that fail at any cell |
| `solver_live` | Jobs and applies end, the lease is given back, unless a start failed | two jobs, one client, with stale callers, edits, deleted cubes, failing starts and failing applies |
| `solver_run` | Answers stay in step with requests; what is reported was measured; a job ends | two candidates, three evaluations; thread and process, scipy and pymoo, with cancel, deadlines, failing evaluations and crashes |
| `recalc_edits` | Reads are right and nothing stale stays; edges follow the branches; evaluations do not nest; frontiers are settled; operations end | three cells, numbers modulo two, a chain, a branch, a circle and a circle an IF opens and closes; new rules that make and break circles |
| `recalc_views` | What a deleted rule fed is all that is stale; dirty cells are empty; hard values are kept; a full recalculation leaves nothing stale | the chain and the branch, with views and deletions of rules |
| `snapshots` | The store implements `Timeline`; main stays linear, unless a session is emptied, and chains short; a restore leaves the line it promises | two processes, up to three snapshots if they work at the same time, else four or five, limits of three on both chains; seven settings, among them two windows that open a store that is not there yet, restarts, deletions, write errors and values such as 1 and 1.0 |
| `command_history` | The undo stacks implement `History`; no group stays open | two cells, a history of two, commands of up to two edits; failures, other workspaces, batches, rules, two threads |
| `transport_calls` | Replies reach their callers; events come once, in order, and the latest are kept; calls end and each event that is due arrives | three callers, three calls; two publishers, three events, one of which may have no JSON, queues of two, one event to a poll, one reply that cannot be sent; eleven settings |
| `remote_calls` | Replies match; nothing runs twice in an attempt; a tripped breaker is respected; the copy is fresh but for what the client was not told of; the lock is given back | two threads, two attempts, a breaker of three, one part of the structure and one cell, methods of two calls; eight settings, with batches, scopes, workspaces that are loaded, filled cells and undo |
| `snapshot_restart` | A violation, see below | one process that restarts |

**Why the bounds are enough.** The lifecycle has one lock and one state, so two
threads show every way in which one command meets another. In the solver service,
two jobs are what exclusion is about and the third lets one wait while the other two
hand the lease over; two cells are the least for which a write is partial, two
clients and two ids the least for which a retry and a competitor differ, and a front
of two points the least that calls can mix. In a solver's run, three evaluations are
one before the stop, one across it and one after; a second candidate tells answers
apart. In the recalculation, three cells are the least with a dependent of a
dependent, with a branch whose other side has its own inputs, and with a circle fed
from outside. Four and five snapshots, with limits of three, let a chain reach its
limit, start again, and be cut by a restore; two processes let each other's memory
grow stale, and three snapshots are one before, one between and one after. Two cells
and a history of two let an action overwrite another's cell, the oldest be dropped
and redo be cut. With three callers one reads, one waits for the lock and one comes
late; three events overfill a queue of two, and one event to a poll makes every poll
put something back. A method of two calls is the least that fails half way. Two
attempts are a first one and a retry, and a breaker of three is reached by two
calls.

`MaxEvals`, `MaxSnapshots` and `Limit`, `MaxEdits`, `MaxCalls`, `MaxEvents`,
`MaxBatch` and the set `Id` bound what may be asked for, `MaxUnsent` the replies
that fail; `MaxBranch` the names of branches, of which
there are more than snapshots (an assumption), so that none is refused for a name.
`MaxHistory`, `MaxDeltaChain`, `FullEvery`, `MaxQueue`, `MaxPerPoll`, `Attempts`
and `Threshold` are limits of the code itself, made small.

**Symmetry** is used for jobs, clients, processes, and threads, cells and numbers
of commands, in runs that check safety and the two refinements, not liveness.
**Deadlock** is not checked in the solver service, snapshot, transport and remote
runs: what they may ask for is bounded, and when all is done nothing is left to do.
Elsewhere it is checked (`SolverRun` has an explicit step for a job that is over).

**Fairness** is weak and only for code that runs. `EngineState!FairSpec`: a thread
inside the call goes on, and `shutdown` goes on to its event; the only lock is
taken without blocking, and command bodies are assumed to end. `SolverService`:
caller, worker and client inside their calls, with backends that end; a job whose
start failed has neither.
`SolverRun`: the runner's thread, and a backend whose optimizer goes on within its
limits (`hang` takes that away). `Recalculation!LiveSpec`: a call of the engine
runs until it returns. `Transport`: the threads inside their calls, the thread that
polls, the server's threads, and publishers that have begun. `RemoteEngine`: the
threads inside their calls and the server while it is up. No command, cancel,
interrupt, shutdown, edit, expiry, failure, crash, loss, stop or restart need ever
come.

## What is proved

TLAPS checks these for any number of threads, processes, jobs, clients, cells,
numbers, candidates, patterns and rules. Each module's proofs are in the module of
the same name with `_proofs`.

**EngineState** (`ThreadAssumption`: "no thread" is not a thread, and those that can
be interrupted are threads). `SettledWhenFree` is not inductive: that a step leaves
the engine settled follows only if the thread holds the lock and the engine is in a
state its place in the call allows. `IInv` adds `Serialized`, the state at each
place (`PlaceState`), that a running command is one of the three, and that after an
interrupt the engine is in a state that admits none (`StrandedForGood`). From it:
`TypeOK`, `CommandStates` (its five parts) and the action property `RecoveryOnly`.
`ObserverAgrees` is inductive by itself.

**SolverService** (`SolverAssumption`: the constants' types). The lease is a flag
without an owner. `LeaseInv` says who owns it: the flag is up exactly while some job
that was not robbed is between its acquire and its release, or was abandoned there
by a failed start, there is never a second such job, and nobody is robbed before a
stale caller has released twice. It holds in every environment. From it:
`LeaseIsExact`. `SessionInv` then follows the write and restore loops cell by cell,
as long as nobody is robbed, where nobody else writes and no cube goes
(`QuietWorkspace`: neither `edit` nor `cube_gone`) and there are no clients. From it:
`NoTrace`. `ApplyInv` follows the loops of the applies: as long as no two calls with
different points were in their writes at once (`mixed`), the cells are the first
ones of one point over what the job found, and how far is known from the calls under
way; once an apply has failed (`broken`) the revision is no longer the job's, so that
the next one is refused. That gives `AppliesAreRecorded` and `AllOrNothing` for one
job (`OneJob`), any number of clients, points and request ids, with `apply_fails`,
under `QuietWorkspace`.

**SolverRun** (`RunAssumption`). `AnswersMatch` says that an answer is the one to
the candidate asked for. It is not inductive: the messages to stop are answers
too, and one of them, read as the answer, would put all later ones out of step.
`IInv` says that this can do no harm: either the two sides take turns (`InTurn`:
at most one of a request, an evaluation and an answer exists, for the backend's
candidate), or the process was told to stop (`ToldToStop`) and nothing is
evaluated any more, so that at most one answer is left, before all messages to
stop (`Behind`). `TypeOK` adds the protocol: which messages are in which pipe, and
that a job has a result or an error exactly when its runner has ended.
`ReportedAsMeasured` follows from a second invariant on top of it, `MInv`: the last
point and the last result are of one evaluation (`LastOfOne`), what the optimizer
was given is measured unless the job was stopped (`Got`), and as long as the backend
has read no answer nothing was measured but for the answer it reads next
(`NothingYet`), so that a job that reports the initial point with zeros has
evaluated nothing; nor does it later, since whoever leaves such a result has no
request waiting (`Sealed`).

**Recalculation** (`RecalculationAssumption`: there are finitely many cells, the
rules are rules and the arithmetic makes numbers of numbers). `IInv` is `TypeOK`,
that the stack is empty between operations and holds rule cells only,
`NoNestedEvaluation` and `DirtyIsEmpty`. The last needs the types (a dirty cell has
a node) and the closure of the invalidation walk. From it, besides its parts, the
action property `HardValuesKept`. None of these needs induction: the walk is defined
as the least closed set, so that a closed set that contains the start bounds it.

That what is computed is right needs `Denotation`, of which the proofs use three
facts. It satisfies the rules (`DenotationEquation`): each round of the iteration
can only turn errors into numbers, so that it stands still after as many rounds as
there are cells. It is the least such setting: if the cells that evaluations are on
need each other in a circle they show `#CIRC!`, as the code says when it meets the
circle. And two settings of the rules that agree on a set of cells which needs
nothing outside give these the same values: hence an edit leaves right whatever it
does not reach. `ValueInv` then says, of all cells but a set of stale ones (`Sound`),
that a computed value is what it should be, has edges from all cells its rule needs
up to the first stale one, and that these are computed or being computed; that what
an evaluation has read is right and needed; and that each evaluation is on what the
one further out reads next (`LinkedIn`), so that meeting a cell again is a circle.
It holds with no stale cells where no rule is deleted: `ValuesAreCorrect`,
`EdgesRecorded`, `FrontierIsSettled`. It holds in general with `Stale`, the cells
that need, directly or not, one with neither rule nor value: `StaleOnVoid`. Both
need that views are made only of rules without circles (`NoCircles`), since a view
in the middle of a circle leaves values without edges, as TLC shows (below).
`SweepIsFresh` has no such hypothesis, for a full recalculation empties all rule
cells first.

**SnapshotStore** (`SnapshotStoreAssumption`; in it, that branch names do not run
out: a store with `MaxSnapshots` snapshots makes fewer than `MaxBranch` branches).
`TypeInv` has the file and the session (`FileType`), the tables, the rows, the
memory, the jobs and the plans; the part that carries the rest is `WhatLoads`: what
a workspace can be made of is what was saved, whatever else is lost, by the
checksum, and a difference that has lost its base has not the fields of a workspace.
With it every step of the store is a step of `Timeline`, or a stutter: the
refinement `KeepsContents`, for every setting. `RestoredSpine`, for one process that
is not disturbed, rests on `TameInv`: between two operations main is a line in a
tree of snapshots that are each newer than their parent, and at each stage of a
restore the rows changed so far, half a row included, and the changes left make up
such a tree. `Chains` has an invariant for each of its parts: `LinearInv` (processes
that only save keep main a line under the lock, from one emptied session to the
next), `BoundInv` (a difference comes after its base, and below the limit, which
bounds the recursive `Depth`) and `LosslessInv` (as long as nothing is restored,
restarted or mistaken for something else, a difference applied to its base gives the
payload that was saved).

**CommandExecution** (`CommandAssumption`). `GroupsEnd`: when all threads are idle
no group is open. The invariant counts nothing; it says that an open group belongs
to a command that is running. It holds for any number of threads although they
share the group, since each end of a command closes whatever is open. `TypeInv`
needs to know of the edits in the stacks that one which restores a computed value
is on a cell with a rule (`FineEdit`). The refinement `LinearHistory`, for one user
at a time, rests on `UserInv`: commands take turns (`Turns`), what is lost to the
limit or to a workspace left is lost from the far end (`GoneFirst`), and every step
along either stack can be taken back from the cells it leads to (`Faithful`): the
states that undo and redo lead through are a line on which the present one has a
place, and undo and redo move that place.

**Transport** (`TransportAssumption`). `TypeInv` has the calls, the locks' holders,
the events, and of each connection what the server has left unsent. `RepliesKept`:
requests and replies are counted in five places (pipe, server, pipe back, buffer,
stash), and `RepliesInv` says that an id is in one of them at most, is the id of one
call, is in none before it is sent and in one as long as it is waited for, unless
the connection was lost or the reply is one of those that did not go out whole.
`EventsKept` orders the events of a pattern from the callbacks back to the queue
(`Ordered`: delivered, under way, in the poll, held by the server, queued), with the
events a publisher has yet to append after all (`Fresh`), for patterns that share no
topics (`Apart`). That the latest events are kept, where nothing disturbs a poll, is
`InCalm`: what is queued, popped or kept is an end of what was appended, and the
latest ones that have a JSON are somewhere, or in a reply that was not sent.

**RemoteEngine** (`ConnectionAssumption`, `EngineAssumption`). `TypeInv` has who
holds the lock and when the socket is open. `CallsMatch`: `CallsInv` counts what a
call has sent and what was executed of it (at most one in each attempt), and, where
no read is interrupted, says that what the socket carries is for the call that has
the lock, one thing at a time (`WireIsOwn`): this is why ids need not be compared.
`FreshCopy`, for one thread and a network and a server that do not fail, is
`CalmInv`: but for what the client was not told of, and for what the earlier calls of
its method have done, the copy is the server's workspace until the call is executed,
and will be again by its answer; in a scope, from its end. It holds with errors,
batches, scopes, loads, fills and undo.

**Induction.** Library theorems of induction take an operator as a parameter, which
no backend can instantiate. Where a recursive function matters (`Depth` and `Loaded`
along chains, the rounds of `Denotation`, `EventsFor`, `Concat`, `Walk`), the proofs
take the least number for which a claim fails, from the well-foundedness of the
naturals (`LeastNat`), and first show that the function exists (the `CHOOSE` behind a
recursive definition).

**Checked by TLC only.** Liveness (fairness and ENABLED are beyond the prover's
backends): `CommandsEnd`, the two `CallsEnd`, `JobEnds`, `OperationsEnd`, `Progress`.
Every safety property that a run finds to hold is stated by a theorem.

## Where the code and its documentation disagree

`snapshot_restart` ends in a violation. `datastore.py:213` says that the state of
the chain is reconstructed so that "new snapshots continue the delta chain".
`_recover_delta_state` takes the last *full* snapshot for the base in memory, and
line 310 stores the *parent*, a later difference, as the base of the next one: the
difference is from one and is applied to the other. The checksum notices, and
`load_snapshot` raises. `KeepsContents` holds all the same because of that checksum:
a snapshot may be lost but is never a different one.

The modules state more sentences of the repository, or check a property only
without the disturbance that breaks it. TLC refutes each when asked; they are kept
out of the regular runs to keep those few.

*Lifecycle*
- `CancelEndsFaulted` (`system.py:446`: a cancelled command ends in FAULTED): no
  body reads the flag; the body returns and IDLE overwrites CANCELLING.
- `ShutdownTerminal` (`engine_state.py`: "Terminal state"): a command that is
  running when `shutdown` is called writes its own final state over it.
- `FailureFaults` (`system.py:419`: "-> IDLE on success, or FAULTED on failure"): an
  interrupt is no `Exception` and leaves RECALCULATING, with nobody running.
- `FaultedReplyOnlyToOthers`: a recovery command that finds the lock held by a
  command that then faults the engine is told that the engine is faulted.

*Solver*
- `AppliedRequestNotRepeated` (`solver_service.py:442`): the entry remembers the
  last id only (line 534), so a retry after another request is applied again.
- `LeaseKeepsOthersOut` (`engine_solver_evaluation.py`): edits and applies do not
  look at the lease.
- `WritesOnBase` (`solver_ports.py`: "revalidates revision inside the transaction
  lock"): there is no lock between the comparison and the writes.
- `RetainedResults` (`solver_types.py`): nothing calls `cleanup_expired`.
- `NobodyRobbed` (`engine_solver_evaluation.py`: "prevent concurrent solver jobs on
  the same workspace"): the second release of a stale caller (lines 213 and 292) may
  be of another job's lease, and a third job may then begin.
- `JobEnds` with `"hang"` (`subprocess_worker.py:116`: "then kills if
  unresponsive"): cancellation is looked at between messages, and `readline` at 253
  waits for one.

*Recalculation* (the first three were also reproduced with the engine itself)
- `NoStaleValues` after `delete_rule` (`model.py:943`): dependents keep the values
  computed from the rule that is gone.
- `ReadsAreCorrect` with views on circular rules (`_engine_core.py:5388`: no
  caching, always fresh): a view caches `#CIRC!` below the cell it shows, without
  the edges an edit would need.
- `FullSweep` (`_engine_core.py:6031`): with an edit before the first evaluation
  only the edited cell is processed.

*Snapshots*
- `NoSiblings` (`sqlite_snapshot_adapter.py`: "form a linear chain instead of
  siblings"): a window that found no file writes the initial session outside the
  lock; the head that another has set meanwhile is gone, and the next snapshot has no
  parent.

*Undo*
- `ComputedIsNotTyped` (`undo.py:36`): undoing a hard value typed over a rule's
  value restores that value as a typed one (`_engine_core.py:9821`).
- `LinearHistory` with threads: one command's edits land in another's group.

*Transport and remote engine*
- `StashedIsReturned` (`transport_socket_client.py:74`, `112`): a thread that waits
  for the lock does not look into the stash again, and times out although its reply
  is there.
- `LatestKept` with `"overlap"`: what is published during a poll is overwritten
  when the poll puts its rest back, or appended to a queue that was taken away.
- `KeptInSync` (`remote_engine.py:275`: "The local copy is kept in sync by
  set_cell_hardvalue_by_addr / batch_set_cell_hardvalues_by_addr"): not when a later
  call of the batch is refused, for the marks are recorded after the last one.
  Nor do `set_range` and `batch_set_cell_data` record marks, nor does an undo remove
  them, and a batch of items that fails half way leaves a copy without the first ones.
- With several threads `FreshCopy` is not claimed: a fetch that overlaps a change
  stores the older copy.

Other observations made on the way, which no property states. Snapshots: an integer
that becomes an equal float makes an empty difference; `save_snapshot`'s False is
ignored; a crash between row and head makes the next snapshot a sibling, too; a
restored difference that has become a root cannot be restored again. Solver: a job
whose start fails keeps the lease for ever, and no other can start on its workspace.
Undo: `clear` is documented for opening files (`undo.py:67`) and called for restored
checkpoints only. Transport: "only one request is in flight at a time" is not so
with several threads; late replies leave their events, or themselves, in the stash;
a reply that cannot be sent is lost with its events, a part of it spoils the reply
behind it, and requests read with it wait for the next one; patterns that share
topics deliver an event twice to each of their callbacks, since the server queues it
for each pattern (`transport_socket_server.py:345`) and the client gives each copy
to all that match (`transport_socket_client.py:374`), where the bus within a process
calls a callback once: hence `InOrder` speaks of patterns that are `Apart`; the
server never unsubscribes. Remote: the breaker's count is not reset by error replies
(documented at 185-187); a call whose reply a reset took is executed again; a
KeyboardInterrupt leaves its reply to the next call, and ids are not compared;
`start_group` and `end_group` do nothing. Solver run: the token in the process is
documented as never set (426-431) and is, by the backend's deadline; once stopped,
scipy gets the last value again, or zeros, for other candidates, and pymoo gets
zeros and may report them as optimal; a parent's time-out can be reported as
"Cancelled by user"; the fallback for a maximized objective loses its sign; stderr
of the process is never read. The publisher of solver events is never connected
(`app_host.py:95`).

## Not modelled

Message bus, sessions and gateway: synchronous calls down a list of subscribers;
the part in which threads meet (the server's subscribers, the shared context) is in
`Transport` and `CommandExecution`. Scheduled bus and virtual scheduler: no host
constructs them, the simulation tests do. Rule language (tokenizer, parser,
functions, Excel compatibility): sequential transformation of data, the business of
unit tests. Workspace files, outline graph, technical channels: conversions that run
once at load. The optimizers themselves: third-party numerical code. Commands: one
per engine operation; those with a protocol of their own are in the modules. Hosts:
construction. REPL, scripting, macros, user interfaces, formatting, plugins: front
ends and presentation, most of the repository's lines; the Qt event loop is not in
the repository. Deterministic simulation testing (`lib_dst`): the repository's own
test harness.

Of the modelled components: rules that `set_rule` tries and takes back
(`_engine_core.py:8936`); several cubes, slice, function and volatile nodes and
rules over several cells in the recalculation; its parallel scheduler, which is
opt-in (its gate asks for a billion dirty cells unless `om-engine.conf` lowers it,
`_engine_core.py:252`); branches created or switched by hand, which only tests do;
hooks and macros of the executor; the conversions of the remote engine; policy
limits of the solver and full pipe buffers.

## Plan

Done, in this order: EngineState, the gate to the engine; SolverService, where
threads write live cells by design; Recalculation, the engine's own promise;
SnapshotStore with Timeline; CommandExecution with History; Transport;
RemoteConnection and RemoteEngine; SolverRun, which opens what SolverService
abstracts. In the second pass over them: what ends a step between its parts
(interrupts, starts that fail, replies that cannot be sent, methods of several calls).

The safety properties of the runs are proved. Next, the safety halves of the liveness
properties, which need neither ENABLED nor fairness: in each place of a call some
step's guard holds, and every step of an evaluation or of a recalculation lowers a
measure (references left to read on the stack, cells left in the frontiers). And
wider hypotheses where TLC finds no counterexample: `NoTrace` with clients
that apply between jobs, `AllOrNothing` for several jobs that follow each other, and
`LinearHistory` for users that take turns.

Then the parallel scheduler of the recalculation with two cubes, and the buses.
