# APEX Orchestration Engine: TLA+ models and proofs

APEX runs performance-test pipelines as LangGraph graphs behind a FastAPI
facade. The dangerous part of a pipeline is its execution phase: it creates a
run at an external load engine, starts production load, watches it, stops it,
collects the results and releases what it reserved. Around it the service
writes to work trackers, dispatches approved cycles, pays for analysis jobs,
mirrors runs that were started elsewhere and limits long-lived responses, each
with rows, leases and retries of its own. Workers crash, answers are lost,
operators abort, administrators edit connections. This directory models those
parts and states what must stay true of them.

Paths below are relative to `src/src/apex/` unless they say otherwise.

## 1. Inventory

### Components, their state and their operations

| Component | State | Operations | Where |
|---|---|---|---|
| Engine-run projection | table `engine_runs`, one row per (thread, attempt): status, handle, connection lease and generation, artifact-store pin, completion witness | `prepare_engine_provision`, `prepare_engine_start`, `record_engine_run`, `recover_engine_completion`, `mark_terminal`, `mark_aborted` | `services/engine_runs.py`, `persistence/repositories/engine_runs.py` |
| Connections | table `connections`: enabled flag, configuration, `runtime_version` generation | create, PATCH, enable, disable, delete, guarded by `durable_reference_reason` | `routers/connections.py`, `persistence/repositories/connections.py` |
| Execution spine | the phase entry in the graph checkpoint: attempt, pinned generation, marks, failure counters | `engine_reserve`, `engine_provision`, `engine_start`, `engine_status`, `engine_poll`, `engine_cleanup`, `engine_collect`, `engine_collection_index`, `engine_collection_settle` and their `*_blocked` interrupts | `graphs/pipeline/execution_phase.py` |
| Phase subgraph | gates of one phase | prepare, prompt gate, output gate, finalize | `graphs/pipeline/phase_subgraph.py`, `gates.py` |
| Plan resolver | `phase_results` per phase, the attempt numbers | seed the selected phases of a run | `graphs/pipeline/graph.py` |
| Engine abort | none of its own; reads queue, checkpoint, projection | `EngineAbortService.abort` | `services/engine_abort.py` |
| Pipeline facade | the thread's runs (LangGraph server) | launch, read, resume gate, rerun, abort | `services/pipeline_read.py`, `routers/pipelines.py` |
| Execution engines | remote runs, by idempotency key | validate, provision, start, get_status, abort, collect, teardown | `ports/execution_engine.py`, `adapters/*/engine.py` |
| Run authorization | none | which runs a caller may start on a thread | `auth/handlers.py` |
| Work-item mutations | outbox rows: status, claim token, lease, attempted marks; tombstones | reserve, claim, renew, mark, complete, fail, release, reconcile, retire | `services/work_item_mutations.py`, its repository |
| Cycle dispatch | dispatch rows: launch intent, thread, active environment | dispatch, resume, sync, cancel | `services/cycle_dispatch.py`, `routers/cycle_dispatch.py` |
| Analysis phase | the ledger in the checkpoint; native submission receipts; upload intents and references | submit, poll, collect, report, retry, revise, hand over | `graphs/pipeline/analysis_phase.py`, `services/native_analysis_submissions.py`, `services/artifact_references.py` |
| Native APEX Load control | reconcile leases, mirrored runs and scenarios, launch claims | poll, mirror, launch a report, create and replay | `services/apex_load_native.py`, its repository, `routers/apex_load.py` |
| Distributed limits | windows, lockouts and stream leases in Redis | check window, acquire, renew, release stream | `app/distributed_limits.py`, `app/security.py` |
| Connection resolver | per-loop cache of adapters, checkouts, retirements | resolve, retire, close | `services/connections.py` |
| Circuit breaker | failure count, opening time | before, success, failure | `adapters/http_resilience.py` |
| Human phases, cycles, prompts, documents, usage, audit, dashboard, deployment | tables and documents | mostly single-transaction CRUD and presentation | listed one by one in `PROJECT.json` |

### How they interact

* The graph node calls the projection (a database transaction), then the engine
  (HTTP), then the projection again, then commits a checkpoint
  (`durability="sync"`). Between any two of these the process may die; the node
  is then executed again from its start, with the checkpoint it began with.
* A nonterminal projection row *is* the lease: `durable_reference_reason` looks
  for it, so an administrator cannot disable or retarget the connection that is
  needed to stop the load. The same guard looks for outbox rows and for mirrored
  runs, each with its own condition.
* The abort facade shares no lock with the graph. It lists the thread's runs,
  reads the checkpoint, reads the projection, lists the runs again, calls the
  engine, and then decides whether the graph or itself owns finalization.
* The engine interprets every call under the attempt's idempotency key
  `{thread}-execution-a{attempt}`: `provision` is get-or-create, `start` and
  `abort` are idempotent, `teardown` releases resources.
* Cancelling a graph run drops its checkpoint, not its thread: nodes are
  synchronous functions that run `asyncio.run(...)` in a worker thread, so a
  cancelled node finishes its provider and database calls (a *zombie*).
* A work tracker has no idempotency keys: the outbox commits "attempted" before
  its one POST and afterwards only looks for the POST's marker, with a search
  that lags. Native RCA submissions use the same idea with a reservation row.
* A cycle dispatch inserts an intent that owns an environment, launches one root
  run under the launch lock, and follows the engine row from workspace reads
  (`sync_dispatch`). The execution phase asks the intent for permission before
  it reserves, provisions and starts.
* The native reconciler runs on every replica; a lease per connection and a
  claim per mirrored run decide which replica works.

### What is hard, and what makes each component correct

| Behaviour | What must hold | Property |
|---|---|---|
| Late and replayed writes to one row | the first terminal writer owns the row; a told outcome is final; a live row never moves back | `TerminalRowImmutable`, `AckedOutcomeIsFinal`, `LifecycleNeverRegresses` |
| Administration during a run | live load keeps its row and the connection it was reserved on, enabled and with unchanged values | `LeaseFencesConnection`, `LoadStaysReachable` |
| Crash between provider call, row and checkpoint | at most one load per attempt and per thread, never without a reservation | `ImplementsContract` |
| Half-done kills | the intent survives until the kill is confirmed, released and recorded | `KillIntentHeldUntilConfirmed`, `KillEventuallyConfirmed` |
| Lost acknowledgement of settlement | a witness in a row is only written after the effects it stands for | `WitnessIsTruthful`, `CollectionEventuallySettled` |
| Collection that fails after uploads, or is repeated | indexed objects are never deleted; success means collected | `IndexedObjectsSurvive`, `SucceededMeansCollected` |
| Teardown against collection | resources are released only behind an index or a kill | `TeardownNeverLosesResults` |
| End of the phase | no load is left behind | `FinishedPhaseLeavesNoLoad`, `LoadEventuallyEnds` |
| Abort racing all of this | load can always be found and killed; "confirmed" is final | `LoadIsAbortable`, `ConfirmedMeansStopped` |
| A POST whose answer, or whose worker's lease, is lost | one POST per key; told outcomes final; completed means applied; everything accountable is settled | `AtMostOnePost`, `ToldOutcomeIsFinal`, `CompletedMeansApplied`, `MutationEventuallySettled`, `ImplementsDispatchOnce` |
| Administration between reserving and sending a mutation | writes go out only with the reserved configuration, through an enabled connection | `WritesUnderReservation` |
| Launch of a dispatch against cancel, resumption and lost answers | one root run, none after a cancel | `IntentLaunchesOnce` |
| Late acknowledgements and syncs of a dispatch | an ended dispatch stays ended | `DispatchEndsOnce` |
| Giving an environment up from reads of two systems | no load runs on an environment that was given up, unless the reader's race forfeited it (section 6); it is given up in the end | `ImplementsEnvironmentLease`, `LaunchReleasesEnvironment` |
| An analysis submission that is lost, repeated, restarted or retried | no native key posted twice; no job paid for twice unknowingly; every run ends | `NativeSubmitsOnce`, `JobsAccounted`, `AnalysisRunEnds` |
| Collection between object, reference and checkpoint | the report rests on published results, byte for byte | `ReportIsGrounded` |
| Two replicas mirroring one provider | snapshots in order, one report per run and generation, reported in the end | `EndedRunsStayEnded`, `ReportedOnce`, `EndedRunIsReported` |
| A creation that is polled before it is recorded | a repeated request is answered | `CreationIsAnswered` |
| Cancelled, lost and late commands of a stream lease | limits hold; only outages leave a lease; no response without one | `SlotsWithinLimit`, `OnlyOutagesLeakSlots`, `LeasesAndResponsesAgree` |

The complete list, at the lines where each hazard bites, is `hazards` in
`PROJECT.json`.

## 2. Modules

```
EngineRunRow   ConnectionRow            pure operators: one row, one connection
     |    \     /    |        \
     |   EngineRunProjection   \        row + connection under any callers
     |       |        \         \
     |   ...Proofs     MC...     +--- WorkItemMutation --Contract--> DispatchOnce
     |                            \        \ ...Proofs                    ^
 EngineState                       \                                      |
     |                              +-- ApexLoadNative    AnalysisLedger -+
 EngineSpine -Contract->                     \ ...Proofs       \ ...Proofs
     |   \  \     ExecutionContract
     |    \  MCEngineSpine
     |     EngineSpineProofs  <- EngineAbortProofs, CycleDispatchProofs
     +-- EngineAbort -- MCEngineAbort             StreamAdmission (by itself)
     +-- CycleDispatch --Lease--> EnvironmentLease        \ ...Proofs
```

Every component module has an `MC` module with the constants of its instance.

**EngineRunRow** is one `engine_runs` row and the statements run against it.
`Upsert` is `_upsert_statement`: its `WHERE` clause (`TransitionAllowed`), its
`CASE` columns that keep the stored values of a stale or replayed write
(`Superseded`), and the columns it sets. A write names exactly the columns
`record_engine_run` sends; whether it pins the connection is part of the write,
because the READY write and one of the FAILED writes do not. `ProvisionDecision`,
`StartDecision` and `CompletionDecision` are the decisions taken under the row
lock. Handles, summaries and scopes are abstracted to "the full handle is
projected" and "the same / another generation".

**ConnectionRow** is the enabled flag, the generation, and `since`, the
generation at which flag and values last changed; `since` stands for the values
themselves. PATCH advances the generation when a runtime field is *present* in
the request, toggling always does. So there are two PATCHes: `Altered` changes a
value, and a durable reference refuses it; `Repeated` sends the values the row
has, is never refused, and moves the generation under whoever holds a lease.
`AcceptsGeneration` is what the code asks for (enabled, this very generation);
`Unaltered` is what an administrator cannot take from a holder (enabled, the
values of that generation). Every run takes both.

**EngineRunProjection** lets any number of callers use the projection in every
order: workers that crash and execute again (they simply call again), zombies,
and the abort facade. One action is one committed transaction; a transaction
that rolls back is no step. `acked` remembers what each caller was told.

**EngineState** is the state of the phase: the checkpoint `ck` (the phase entry
of the subgraph), the graph run (`run`, `owner`), each worker's position inside
a node with its own copy of the checkpoint (`wk`), and what lives outside the
graph: `row`, `conn`, the provider's runs `ext`, the store `objs` and its
ownership index `indexed`. It holds the pure updates that nodes commit
(`Retry...`, `Reopen...`, `PlanResolver`, `FinalStatus`).

**EngineSpine** has one action per node without outside effects, and one action
per transaction or provider call of a node with effects, then `Commit`. `Crash`
may come between any two. A call that fails may have had its effect or not, and
a transaction that fails may have committed. Failures draw from the budget
`MaxFaults`; a call that is refused for a reason in the state (disabled
connection, wrong generation, terminal row) needs no fault. A worker whose run
was cancelled keeps executing and its `Commit` changes nothing.

**EngineAbort** adds the abort request, one action per read or call, and
`CancelRuns`, the graph-only fallback of the facade.

**ExecutionContract** is the abstract specification: attempts one after
another, load at most once per attempt, only while the connection is reserved,
the reservation kept until the load is over, success only with results. The
mapping from the spine (`Contract` in EngineSpine) is: `current` is the
checkpoint's attempt, `verdict` the status of a phase that has ended, `held`
"the row holds the lease", `load` the provider phase reduced to unused / live /
over, `kept` "indexed and in the store".

**WorkItemMutation** is the outbox. `mutation` has a row per idempotency key,
`tombstone` the outcome of a key whose row was retired; `exec` is where an
execution of a request or of the reconciler is (its name is its claim token);
`posted`, `inflight`, `answer`, `visible`, `wrote` are the tracker: POSTs
issued, on their way, what became of them, what its search shows already, and
field updates; `told` is what callers were answered. One action is one
transaction or one tracker call: claim, mark as attempted, post, look for the
marker, fields, comment, complete, fail, release. A request that loses its
answer, is cancelled, or whose lease was reclaimed while its call is running
is an action of its own (`Interrupt`, `Crash`, `Expire`).

**DispatchOnce** is the abstract specification of a write that is not
idempotent: sent at most once per key, settled at most once, completed only if
it landed, failed only if it did not and never will. WorkItemMutation and
AnalysisLedger both implement it.

**CycleDispatch** composes the dispatch row with EngineSpine. A step of the
spine is taken by a dispatched run only under the binding checks that the code
makes before it reserves and before each provider call (`Dispatched`,
`CheckBinding`, `RefuseCall`). Requests insert or resume the intent, look for
the root run, bind the thread, create the run and record the answer; a reader's
`sync_dispatch` is three steps (rows, thread, and the update, which compares the
dispatch status and nothing else). Approvals and
bindings of the preparation are one Boolean (`valid`) that an administrator or
the clock revokes.

**EnvironmentLease** is the abstract specification of the environment a
dispatch owns: load starts at most once, only under the ownership, and the
ownership is given up only when no load runs and none will, or *forfeited*. The
second is the race of section 6: a `sync_dispatch` that met no engine row updates
the dispatch while an active one is there. The history variable `forfeited` of
CycleDispatch records exactly that (`Overtaken`), so everything else that gives
the environment up has to be justified.

**AnalysisLedger** is the reporting phase: one row per selected tool, executed
by a checkpointed node in order. A connector is get-or-create by key; native RCA
answers an equal submission with a live or done job if it has one, otherwise
with a new one, hence the reservation before its POST. A key is (selection,
try): try numbers stand for the digests the code derives from each other.
Collection is three steps through the upload outbox (intent, object, reference),
and `ReplayPut` and `ReplayFinish` are the reconciler's half. The operator
retries, revises, hands over or stops at the gate.

**ApexLoadNative** has the reconciler passes of the replicas (`pass`): claim a
connection, list, mirror runs, list and mirror scenarios, release; claim a run
that has ended, resolve it, start its report under the launch lock, record.
Mirror rows belong to a generation of the connection. A request creates the
scenario in the same rows: replay, create, record.

**StreamAdmission** is the shared limit on long-lived responses. `store` are
the leases in Redis, `wire` the commands that were sent and not executed,
`at` where the middleware is with each request. Scripts are atomic; a command
may be answered, lost, executed with its answer lost, or executed after its
sender gave the connection up. A request may be cancelled at any moment.

### What the checkpoint looks like from outside

The phase runs as a subgraph, and the subgraph's checkpoints belong to the run
that made them. While it runs, the parent graph's entry for the phase is still
the seed `plan_resolver` wrote. Three consequences shape the models:

* `route_execution_entry` and the `*_resume` nodes decide on marks that only the
  subgraph writes, but they execute when a subgraph is *entered*, and then they
  see the parent's seed. Their recovery branches are unreachable in this
  composition. The model contains the entry they really take (`prepare`) and the
  in-place resumption of interrupted subgraphs. The finding `restart_kill` is
  the visible consequence.
* The abort facade reads the parent's entry: it learns the attempt, never a
  handle. The handle comes from the projection (`ReadState`, `ReadProjection`).
* A run with input restarts the reporting subgraph without a ledger: the new
  ledger has the keys of the old one, and submissions have to be recognised by
  them (`Restart` in AnalysisLedger).

## 3. Runs

| Run | Instance | Shows |
|---|---|---|
| `projection` | 3 callers, generations 1 to 4, toggled or by a repeating PATCH | four properties of one row under every order of calls |
| `spine` | 2 workers, 2 attempts, 2 generations, budgets of 2, 4 faults, both gates on, input-less runs and runs with input on an unfinished attempt, provider creates runs at start | live load keeps its row and its connection, witnesses are true, success means collected, indexed objects survive |
| `live` | 1 worker, 1 attempt, 2 generations, 2 faults, no gates, fair | load ends, kills are confirmed, collections settle, unless the connection moves past the pinned generation |
| `abort` | 2 workers, 2 attempts, 2 generations, budgets of 1, 1 fault, both gates on, 1 abort request | the kill switch against the graph, a rerun and a zombie; no finished phase leaves load; kill intents are kept; the contract is implemented |
| `mutation` | 1 create, 1 enrichment, a request and the reconciler, 1 fault, 2 generations, fair | the outbox, and its refinement of DispatchOnce |
| `dispatch` | EngineSpine with 1 worker, 2 attempts, 1 fault; 2 requests, 1 reader, fair | one launch per intent, ended dispatches stay ended, the environment lease with its forfeits, its end |
| `analysis` | a connector and a native tool, 2 tries, 2 renderings, 1 fault, restarts, fair | submissions, jobs, the report, the end of runs |
| `native` | 2 replicas, 2 generations, 1 fault, provider echoes keys, fair | one report per generation, snapshots in order, the report and the creation are told |
| `admission` | 3 requests, limit 2, of which 1 for two of them, 1 fault, fair | limits, leaks, responses without a lease |
| `restart_kill` | EngineSpine, runs with input allowed, no fault | violation, section 6 |
| `abort_cancelled` | EngineAbort, provider creates runs at start, no fault, 1 request | violation, section 6 |
| `dispatch_refused` | CycleDispatch, no fault | violation, section 6 |

All runs set `CHECK_DEADLOCK FALSE`: a finished thread with nobody who reruns
it, a gate nobody answers, a settled outbox and a connection at its last
generation are proper ends.

`TypeOK`, `EngineTypeOK`, `AbortTypeOK`, `MutationTypeOK`, `DispatchTypeOK` and
`AdmissionTypeOK` hold on the same instances but are not listed in the runs;
all but `AbortTypeOK` and
`DispatchTypeOK` are theorems (in `AdmissionInv` for the last one).

### Bounds, and why they are enough

* `MaxAttempt = 2`: a second attempt exists to see whether the first leaves
  something behind. Attempts do not share rows, keys or objects, and the safety
  of the spine, its refinement of the contract included, is proved for every
  number of them. A dispatched thread has one.
* `Workers`: one executes the run, the second takes over after a crash or is
  the zombie. A third would be another zombie of an already cancelled run.
* `MaxRetry = 2`: a budget that is counted down once without being exhausted,
  and exhausted (the code's are 3, and larger for cleanup). In `abort` and
  `dispatch` it is 1: blocking at once, which keeps the composition affordable.
* `MaxFaults`: 4 in `spine`, so that a crash, a lost answer and a failed retry
  can fall into one attempt; all others have as many as their question needs.
  A composition with a rich fault alphabet is checked with one or two, and each
  of its faults can fall at every step.
* `MaxVersion`: 2 is the generation reserved and another one, reached by toggling
  or by either PATCH; in the projection 4, so that the connection is toggled off
  and on between two reservations, or repeated under a lease and altered after it.
* `MaxAborts = 1`: the abort is one request that reads and acts in ten steps, each
  of which everything else may come between. What the run checks of it is proved
  for any number of requests (section 4).
* Two `Requests`, two `Passes`: one and its concurrent repetition.
* `MaxTries = 2`: a first submission, and one after a failure or a doubt.
* Three `Streams`: two that compete for a slot of their source and one that
  only fills the global limit.
* Workers and callers are symmetric where no liveness is checked (`projection`,
  `spine`, `abort` and their violation runs). The refinement in `abort` is a
  safety property and does not tell workers apart.

Constants that are *choices*, not bounds:

| Constant | Says | In the passing runs |
|---|---|---|
| `Continues` | somebody starts an input-less run on a failed one (`deploy/compose-ha/README.md`) | `TRUE`, in `abort` `FALSE` |
| `Restarts` | callers may start runs with input on an unfinished attempt: direct LangGraph runs, where `auth/handlers.py` allows them | `spine` and `analysis` `TRUE`, `live`, `abort`, `dispatch` `FALSE` |
| `RunsAtStart` | the provider creates its run in `start` (LoadRunner) | `spine` `TRUE`, others `FALSE` |
| `EchoesKey` | the provider lists the key a scenario was created with | `TRUE` |
| `PromptGated`, `OutputGated` | gate policies | `TRUE` in `spine` and `abort` |

Section 6 says what TLC finds with the other value where a property then fails.
No choice removes a step of an administrator or of a reader: every passing run
takes the PATCH that repeats values, and `dispatch` the sync that is overtaken by
the engine row. Where a property does not survive such a step, its formula names
what is left of it.

### Fairness

EngineSpine, and what in the system stands for it:

* `NodeStep`, `WorkerStep`: the server keeps executing queued runs.
* `PollTimeout`: the poll deadline is a clock and a superstep budget; it passes
  whatever the provider answers.
* `ProviderStops`: a stop the provider accepted completes. A run that nobody
  stops need never end by itself.
* `ResumeBlocked`: operators retry blocked stages.
* `Continue`: somebody continues a failed run. This one is an assumption about
  people: the facade has no operation for it (a rerun requires a terminal
  phase), only the runbook has. With `Continues = FALSE` a crash that ends the
  run leaves load running unwatched, and `LoadEventuallyEnds` fails.

Gates need not be answered; nothing is assumed about administrators. A repeating
PATCH during an attempt makes every further call of that attempt refused, so the
three leads-to properties of `live` end in their goal or in `Moved` (the
connection is at another generation than the checkpoint's), those of `dispatch`
and `mutation` in the same (`Moved`, `connection.version # mutation[k].version`).

CycleDispatch has the same for a dispatched run, and people who keep looking at
the workspace (each read syncs). Nobody need resume or cancel a launch.

WorkItemMutation: an execution goes on until it ends or is interrupted; requests
that were sent arrive, the search catches up, leases and back-off times pass.
`Reconcile` is strongly fair per key because a pass takes ready rows oldest
first (25 at a time) for ever: a row that is ready again and again is taken up.

AnalysisLedger: the executing node goes on, a call is answered or times out, the
deadline passes. Nothing is assumed of jobs, services, store or operator.

ApexLoadNative: passes run for ever on every replica, and both halves of a pass
(poll, launch) come again and again, so claiming a connection and claiming a run
are strongly fair; overdue claims expire; the client repeats its request.

StreamAdmission: the tasks of a request run, Redis executes or the timeout of
the call passes, time passes. A response ends when it likes.

## 4. Proofs

Each proof module starts with its inductive invariant, then has the lemmas about
the operators it needs (the row operators are first in `EngineSpineProofs` and
`EngineRunProjectionProofs`), one lemma per action, and the theorems at the end.

`EngineRunProjectionProofs`, for any set of callers, any `MaxVersion`:

* `TypeCorrect`, `TerminalImmutable`, `AckedFinal`, `LeaseFence`,
  `NeverRegresses`, none with a further assumption.

The induction needs a fact the properties do not say: a caller that was told an
outcome is consistent with the row, so that two callers are told the same.
`LeaseFencesConnection` is inductive with the types: the connection of an active
row is enabled and unaltered since the generation the row pins, because the only
transition of the connection under a lease is `Repeated`. That the two
generations are *equal* is not an invariant of the code (section 6). The proofs
have one step per action and use lemmas about `Upsert`, `MarkTerminal` and the
two reservation decisions.

`EngineSpineProofs`, part one, for any set of workers, any bounds, both gate
policies and every value of `Continues`, `Restarts` and `RunsAtStart`. The only
hypothesis is `EngineAssumption`: `Nobody` is not a worker, bounds are positive,
policies are Boolean.

* `SpineTypeCorrect` and `StagingHolds`. Types alone are not inductive: the
  outcome a settlement writes to the row is a terminal status only because the
  collection left one in the entry, and it did because the last observation was
  terminal. `SpineInv` therefore adds to the types what each node left in the
  phase entry (`Staged`), that a worker inside a node still holds an entry of
  that node (`InPlace`), and that a kill about to be recorded is of a run that is
  over (`KillConfirmed`). The last one survives the provider's own steps because
  a run that is over stays over (`OverStaysOver`, shown of every step).
* `WitnessesAreTruthful`, `IndexedObjectsAreKept`, `SuccessIsCollected`,
  `OneWorkerInside`, by the invariant `SafetyInv` on top:
  * `Exclusive`: one worker at a time is inside a node and works on the committed
    checkpoint, which is what makes a returned update still apply when it is
    committed. It is the run's owner, or its run was cancelled and nobody takes
    the thread up again (`Abandoned`): the invariant serves the spine and the
    spine under aborts. In the spine by itself nobody cancels, and a worker
    inside a node always is the owner (`Attended`).
  * `Grounded`, of the checkpoint and of every entry waiting for its commit:
    what the entry says about its attempt is so. A batch waiting for its index is
    in the store and its row is collecting or terminal; nothing is indexed before
    its collection; a settlement's run is over and indexed; whatever may still
    be judged a success (`MaySucceed`) has a completed row settled by collection.
  * `Ready`: what a worker has established so far inside its node, for instance
    that resources are released before a witness is recorded.
  * `IndexedIsLate`: the row of an indexed attempt never returns to a status from
    which provisioning would be called or recovered. Without it, a restarted
    attempt could be provisioned again after its index was committed, and the
    next failing collection would delete indexed bytes.

  Most steps are `Quiet`: they take nothing back that an entry can be grounded
  in. The lemmas treat those at once and then the three nodes that are not
  quiet: collect, index, and the checkpoint that commits.

`EngineSpineProofs`, part two, under the same assumption, of the load that the
spine runs:

* `LoadHolds`: the invariant `LoadInv`, and `LoadIsReachable`, for every value of
  the choices. What `LoadStaysReachable` excepts can only happen where callers
  restart unfinished attempts: the connection was moved by a repeating PATCH, the
  restarted run pins the new generation, its provisioning is rejected, and the
  row is failed (`GivenUp`) while its load runs.
* If `Restarts = FALSE`: `NoLoadIsLeft`, `KillIntentIsHeld`, `TeardownIsSafe`;
  `SpineImplementsContract`, every step of the spine is a step of
  ExecutionContract or a stutter; and what the contract means for the spine:
  `LoadIsOwned`, `SingleLoad`, `CleanSuccess`, `AtMostOnce`.

The hypothesis is needed: TLC refutes the conclusions with the other value
(section 6). `SpineInv` and `SafetyInv` look at collection and say little of a
run that is live; `LoadInv` adds

* `Secured`: a live run has an active row with its handle, or its row was given up
  as above; and the connection of an active row is enabled and has the values it
  had at the generation the row pins (`Unaltered`).
* `Pinned`: the generation the checkpoint pins lies between the one an active row
  pins and the connection's. A kill resolves its adapter through the checkpoint,
  an abort through the row.
* `Tidy`: load is live only at start, status, poll and the nodes of a kill; a
  kill intent is set exactly on the nodes of a kill; a row is absent before the
  reservation and not active after the completion; a run that is over while its
  handle is not known yet is released, or its row names it or has ended; after
  the completion a run that the row names has been released. This is
  what a restart breaks: the fresh seed is at `prepare` while the row is active.
* `Holds`: what a worker between two effects has seen to. A worker about to
  start has an active row at its generation, so that the load it may start is
  secured at once; a worker about to provision has no live run.
* `Succeeds`: an update that waits for its commit stays with the attempt and
  drops a kill intent only when the run is over, released and settled.
* `Alone`: attempts of the past have let go, and released the run that their row
  names; attempts to come are untouched.

`LoadInv` was model-checked with both values of `Restarts` before it was proved.
The refinement takes it step by step: most steps change neither verdict nor load
(`ContractStutters`); the others move one attempt's row (`ContractByRow`:
`Hold`, `Release`), its run (`ContractByRun`: `Begin`, `Over`) or its index
(`ContractByIndex`: `Keep`), or end or change the attempt (`ContractByFinish`,
`ContractByAgain`).

`EngineAbortProofs`, the same spine with the kill switch in the race, for any
workers, bounds and number of abort requests: `AbortHolds`,
`KillSwitchFindsLoad`, `ConfirmedIsFinal`, `AbortLeavesNoLoad`,
`AbortHoldsKillIntent`, `AbortImplementsContract`, `AbortTeardownIsSafe`. The
spine's three invariants are kept by the steps of an abort too: it cancels, so
it needs the weak `Exclusive`; it stops load through the row, so it needs
`Secured`. `AskInv` says what the request still knows of what it read without a
lock: the attempt it targets is not one to come (and is past when the service
finalizes by itself), a run it is about to call had been named and a named row
stays named (`Named`), and a run it concluded to be over stays over. The last
theorem follows from two of these: what the service tears down is past, and a
past attempt whose row has a handle was released by the graph (`Alone`). A past
row without a handle is the last case of the property, and TLC reaches it: the
provisioning update is lost, the abort stops the run, a PATCH that repeats the
values moves the generation, the replayed provisioning is rejected and its
failed row drops the handle without a release, a rerun opens the next attempt,
and then the service tears down the past one, whose results nobody awaits. The
hypotheses are the environment of the run `abort`:

* `Continues = FALSE`. Otherwise a zombie and the worker that continues its run
  are inside the same node: TLC refutes `LoadIsAbortable` (section 6).
* `Restarts = FALSE`, for the reason above.
* `RunsAtStart = FALSE`, for `KillSwitchFindsLoad` alone: a provider that creates
  its run at start has no name to project before (finding `abort_cancelled`).

`StreamAdmissionProofs`, for any requests, keys, limits and faults:
`AdmissionIsOrderly`, `LimitHolds`, `LeaksAreOutages`. A slot is counted in the
script that takes it, so the limit needs only that store and script agree
(`WithinLimit`); that nothing leaks needs the order of the commands on the wire
(`Orderly`: an acquisition is on its way only while its request waits for it, a
release until it was answered, and a request that is over holds nothing), for
every request that no outage hit; that no response runs without a lease before
the first fault is `Leased`.

`CycleDispatchProofs`, for any requests, readers and workers:

* `IntentHolds`, `LaunchesOnce`, `EndsOnce`. The invariant says who may be about
  to create the root run: only the request in the launch lock, when there is
  none (`Launcher`); that binding the thread excludes cancelling (`RowInv`); and
  that a reader compares with a status that had not ended (`Looking`).
* `EnvironmentIsLeased`: the composition implements EnvironmentLease. On top of
  the invariants of the spine, which its own steps keep (`EngineHolds`), it
  needs that nothing executes before the launch (`Unlaunched`), that a start
  which passed its binding check still owns the environment or has forfeited it
  (`Owning`), that what was forfeited is not owned (`Forfeiture`), and that what a
  reader concluded from an ended row is still so (`Concluded`). The only
  hypothesis is `Restarts = FALSE`: a given-up row would let a reader give the
  environment up over live load.

`WorkItemMutationProofs`, for any keys, callers, reconcilers and bounds:

* `MutationTypeCorrect`, `OnePostPerKey`, `ToldIsFinal`, `CompletedIsApplied`,
  `WritesAreReserved`, none with a further assumption. The last one rests on
  `ReservationHolds`: the connection of every kept row is enabled and unaltered
  since the generation the row reserved.
* `OutboxImplementsContract`: every step is a step of DispatchOnce or a stutter.

The argument: a row that was never marked attempted has no POST and no trace in
the tracker; the mark is only set under the claim, and only the executor that
set it is at `post`. An executor that lost its claim is stopped by its token at
the next transaction, so what it reports late changes nothing. "Failed" is
written only by an owner that knows that nothing was sent, or was rejected.

`AnalysisLedgerProofs`, for any number of tools and tries, any renderings, with
and without restarts:

* `AnalysisTypeCorrect`, `ReportGrounded`, `JobsAccountedFor`.
* `SubmissionsImplementContract`: native submissions implement DispatchOnce.

The invariant `AnalysisInv` says what an executing node has in hand agrees with
its row (`Executing`), that rows, services and uploads agree (`Rows`,
`ServicesAgree`, `Uploads`), and that a selection takes a new try only when all
earlier ones are dead (`Ordered`): that is what `JobsAccounted` needs.

`ApexLoadNativeProofs`, for any replicas, generations and faults:

* `NativeTypeCorrect`: with the types, that a launch claim is held by exactly a
  row under launch. `EndedStayEnded`: a snapshot is applied only under the claim
  it was taken under, and a later claim is taken only after the earlier snapshot
  was applied or its claim lost (`SnapshotsInOrder`).
* `OneReport`, without further assumption. One report per generation follows
  from the launch lock and the deterministic thread (`LaunchesFrozen`). That two
  generations with a report are of one connection, enabled and unaltered between
  them, needs that the mirrored row is a durable reference that PATCH and
  disabling respect (`Frozen`, `ReportsFrozen`).

Only model-checked: all liveness (fairness is outside the prover's reach), that
is `LoadEventuallyEnds`, `KillEventuallyConfirmed`, `CollectionEventuallySettled`,
`MutationEventuallySettled`, `LaunchReleasesEnvironment`, `AnalysisRunEnds`,
`EndedRunIsReported`, `CreationIsAnswered` and `LeasesAndResponsesAgree`.

## 5. What is not modelled, and why

* Contents: specs, handles, summaries, artifacts, evidence and their validation.
  A validation that fails is a failing call. Configuration, payload schemas,
  redaction, pricing, prompt rendering and presentation are functions over data
  without steps of their own, and make up most of the repository's lines.
* Wire protocols of the adapters: the models keep what the port promises.
* The branch of `engine_collect` that finds pending references: the node that
  wrote them always moves on to the index node in the same checkpoint.
* Pruned threads and checkpoints from before attempts existed
  (`EngineAbortService.abort`, the two branches without `attempt_bound`).
* `locked_down` refusals for missing affinity: all modelled connections are
  stored rows with a generation. Static connections have none.
* The other phases of a pipeline, besides execution and reporting.
* `AbortTeardown` and `AbortProject` are entered only when the checkpoint has
  moved on to another attempt since the request read it; the paths over pruned
  threads, which also lead there, are the ones left out above.
* The run that resumed a gate after the row was inserted is younger than the
  row and is not counted as a monitor although it is one. The model has this
  (`older`); the answer is then `graph_finalization_pending`, which is safe.
* WorkItemMutation: lookup, tombstone and insert of a reservation are one step,
  because retention is thirty days; `Retire` waits until no execution works on
  the key, for the same reason. Errors of the database and the tracker are
  covered by interruptions and crashes. `ignore_backoff` decides nothing on
  rows that were never attempted. The in-memory repository of a development
  server has the same transitions.
* CycleDispatch: launches are serialised by the launch lock (a process lock and
  a Postgres advisory lock), so a conflict on `runs.create` is not reached; an
  ambiguous `runs.create` took effect or not by the time the request ends. A
  graph-only abort before the reservation leaves a thread without a row and a
  dispatch in `submitted`; EngineAbort is not composed with it. Start handles
  that would have to be compensated are left out for dispatched runs: the
  engine bound to a cycle is APEX Load. A second preparation is represented by
  the environment being free or owned: the database has a unique index.
* EngineSpine: the branch of `prepare` that hands the phase to a person (`hitl`),
  who reports results of load that no engine of this service ran.
* A request for a retired key of the outbox is refused; it changes no state and
  has no action.
* AnalysisLedger: `Record` commits the receipt and the checkpoint in one step; a
  receipt that is stored before its checkpoint is reached through `Restart`. A
  rerun of a terminal phase takes a new attempt and with it
  new keys; limits on retries of the report and on revisions; verification of
  an imported native execution. Development stores skip the upload outbox.
* ApexLoadNative: schedules (same code as scenarios), several runs, a PATCH that
  moves the connection to another provider, and the poll delay, which only
  skips passes. The launch lock spans replicas where the advisory lock is on
  (`locked_down`).
* StreamAdmission: the in-process backend, fixed windows and authentication
  lockouts. The admission object remembers one attempt per request; an
  acquisition cancelled in a subtask that the application survives would admit
  without a lease, and no caller does that.
* The circuit breaker, the connection resolver's adapter cache, approvals,
  prompts, documents, usage and audit: see section 7 and `PROJECT.json`.

## 6. Where code and documentation disagree

Each is a run that TLC ends with a counterexample.

1. `restart_kill`: `route_execution_entry` says a later run must continue a
   checkpointed kill. It never sees one (section 2): the run with input starts
   from a fresh seed of the same attempt and the intent is gone.
2. `abort_cancelled`: with a provider that creates its run at start, an abort
   whose reads fall before the start sees a READY row without an external id,
   falls back to cancelling the graph runs and answers 202, while the worker
   thread starts the load. Its docstring promises not to report success while
   production load is running.
3. `dispatch_refused`: `auth/handlers.py` says that the graph records a terminal
   refusal when the durable authority of a launch no longer matches. At
   `engine_reserve` it does. Inside `engine_provision` and `engine_start` the
   refusal is an ordinary error: retried, then blocked; the row stays
   PROVISIONING, the environment stays owned, and cancel is refused because a
   thread is bound.

Known gaps that are not runs of their own. "TLC" means that the passing run's
instance, changed as said, ends with a counterexample.

Execution phase:

* A PATCH that repeats values. `persistence/models.py` (444-448) says that
  metadata-only edits do not invalidate in-flight reservations. A PATCH that
  renames a connection and sends its unchanged `base_url` or `options` along
  advances `runtime_version`, and every run here has it. What survives it is in
  the properties: the lease, an enabled connection with the reserved values
  (`LeaseFencesConnection`, `LoadStaysReachable`, `WritesUnderReservation`), and
  one report per generation (`ReportedOnce`). What does not: every later record,
  abort and teardown of the run under way is refused until somebody restarts it,
  pending mutations are deferred for ever, and the native reconciler mirrors and
  reports every ended run again. The exits `Moved` of the liveness properties are
  this.
* `engine_provision` promises not to leak a created resource behind a terminal
  checkpoint. After a crash it validates again before it asks for the run; if
  validation now reports issues the phase fails and the run created earlier is
  never torn down (`FinishedPhaseLeavesNoOrphan`, one fault). It was never
  started, so it carries no load.
* A failed start of a provider that creates runs at start leads to a kill that
  finds nothing to kill, reads READY, and is retried for ever (`live` with
  `RunsAtStart = TRUE`, TLC refutes `KillEventuallyConfirmed`).
* With `Continues = TRUE`, TLC refutes `LoadIsAbortable` in EngineAbort: a
  run without input continues a cancelled one while the zombie is still in
  `engine_provision`; the zombie's validation failure sets FAILED over the
  second worker's READY row and releases the lease, and the second worker
  starts load behind it.
* An attempt whose row is terminal need not reach the end of its phase: a
  definitive provision or start failure writes FAILED without a witness; if the
  worker dies before its checkpoint, every further execution of the node is
  refused by the row (TLC refutes the leads-to with one crash).
  `deploy/compose-ha/README.md` expects a re-invocation to continue.
* `docs/runbooks/operations.md` (step 3 of the abort procedure) says the abort
  cancels remaining graph runs; `EngineAbortService` deliberately leaves them to
  collect results, and only the fallback cancels.
* Where callers may start runs with input (`Restarts = TRUE`),
  `FinishedPhaseLeavesNoLoad` and `ImplementsContract` fail as well: the
  restarted attempt can be skipped at its prompt gate while the load of the same
  attempt is live.

Dispatch: `sync_dispatch` finds no engine row, asks the thread over HTTP, learns
that its run failed, and then compares only the dispatch status when it gives the
environment up. If the failed run is continued meanwhile and inserts its row,
that row is active on a free environment, which another cycle may take; a start
that passed its binding check before then starts load on it. The run `dispatch`
takes this race; it is the state `forfeited` of EnvironmentLease. The promise that
ownership is released only after "terminal execution with confirmed cleanup" does
not hold there.

Outbox: the retry of an older enrichment may overwrite fields that a later,
already acknowledged enrichment of the same item has written.

Analysis:

* "RCA evidence archive changed" is not a provider-terminal failure: the retry
  polls the same job for ever.
* A tool that renders its result differently on re-collection conflicts with the
  published reference until the operator hands over or stops.
* After a lost receipt the operator's retry may pay for a second native job;
  `Counted` leaves such jobs out.

Native APEX Load:

* The fingerprint of a report's launch contains metrics and assessment. A first
  launch that fails after stamping its thread with less evidence makes every
  later one a conflict. `EndedRunIsReported` leaves this out (`"bare"`); without
  that disjunct TLC refutes it.
* A poll that mirrors a scenario with its key before the creation is recorded
  leaves a row without a fingerprint, and every repetition of the request is a
  conflict. `CreationIsAnswered` leaves this out; with `EchoesKey = FALSE` it
  holds without that disjunct.

Admission: an acquisition that Redis executes after its connection was given up
and after its compensation occupies a slot until it expires. It is the third
outage of `OnlyOutagesLeakSlots`.

## 7. Plan

Done: the modules of section 2, with proofs about the projection, the spine and
its contract, dispatch and environment, the outbox, the analysis ledger, the
native reconciler and stream admission.

Next modules, in this order:

1. **CircuitBreaker**: calls in flight across an opening; the breaker of a
   provider has no half-open state, and shares its counter among the calls.
2. **FixedWindow** and lockouts beside StreamAdmission: counting across a store
   that is lost, and failures recorded out of order.
3. **MasterGraph**: `plan_resolver` over several phases, skip and abort
   semantics; human phases as instances of the gate shape.
4. **ConnectionResolver**: checkouts, retirement and closing of cached adapters.
5. **Approvals** of cycles, in place of CycleDispatch's Boolean.

Next theorems:

1. `DispatchTypeOK`, from `IntentHolds` and `SpineTypeCorrect`, and `AbortTypeOK`,
   from `AbortHolds`.
2. The safety invariants of the next modules above, each with its module.
