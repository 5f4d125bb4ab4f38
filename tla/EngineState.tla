---------------------------- MODULE EngineState ----------------------------
(***************************************************************************)
(* The state the execution phase runs on, and the pure updates its nodes   *)
(* commit to it: the checkpointed phase entry, the runs and workers that   *)
(* execute its nodes, and what lives outside the graph (projection rows,   *)
(* the execution connection, the provider's runs, the artifact store).     *)
(***************************************************************************)
EXTENDS EngineRunRow, ConnectionRow, FiniteSets

CONSTANTS Workers,        \* processes that execute graph nodes
          Nobody,         \* not a worker
          MaxAttempt,     \* bound on phase attempts
          MaxVersion,     \* bound on connection generations
          MaxRetry,       \* the MAX_ENGINE_*_ATTEMPTS and poll-error budgets
          MaxFaults,      \* bound on crashes, provider and database failures
          PromptGated, OutputGated,   \* the run's gate policy
          Continues,      \* may a run without input continue a failed one?
          Restarts,       \* may a run with input start on an unfinished attempt?
          RunsAtStart     \* does the provider create its run only when started?

ASSUME EngineAssumption ==
    /\ Nobody \notin Workers
    /\ {MaxAttempt, MaxVersion, MaxRetry} \subseteq Nat \ {0}
    /\ MaxFaults \in Nat
    /\ {PromptGated, OutputGated, Continues, Restarts, RunsAtStart} \subseteq BOOLEAN

Attempts == 1 .. MaxAttempt
Versions == 0 .. MaxVersion

\* PhaseStatus, and the members TERMINAL_PHASE_STATUSES names.
TerminalPhase == {"succeeded", "failed", "skipped", "aborted"}
PhaseStatus == TerminalPhase \cup
    {"pending", "running", "awaiting_prompt_review", "awaiting_output_review"}

\* Nodes of the phase subgraph.  An interrupt node ends the run until an
\* operator resumes it; "end" is the end of the graph.
InterruptNode == {"prompt_gate", "output_gate", "provision_blocked",
                  "cleanup_blocked", "collection_blocked", "settle_blocked"}
Node == InterruptNode \cup
    {"prepare", "reserve", "provision", "start", "status", "poll", "cleanup",
     "collect", "index", "settle", "open_output_gate", "finalize", "end"}

\* Marks of the phase entry: engine_cleanup_required, engine_collection_index_
\* required and engine_collection_settled.  The other marks are read only by
\* route_execution_entry, which always meets the entry plan_resolver seeds: the
\* subgraph's checkpoints belong to the run that made them, and the parent's
\* entry changes only when the subgraph ends.
Mark == {"cleanup", "index", "settled"}

\* The stages whose failures the entry counts.
Stage == {"provision", "poll", "cleanup", "collection", "index", "settle"}

\* Provider-side lifecycle of one idempotency key.
LiveRun == {"running", "stopping"}
RunPhase == {"none", "ready"} \cup LiveRun \cup TerminalStatus

Checkpoint ==
    [node    : Node,          \* where execution continues
     attempt : Attempts,
     status  : PhaseStatus,
     gen     : Versions,      \* engine_connection_version, 0: affinity unstaged
     store   : BOOLEAN,       \* artifact_store_connection_id is set
     marks   : SUBSET Mark,
     fails   : [Stage -> 0 .. MaxRetry],
     last    : RunPhase,      \* engine_poll_last
     outcome : {"none"} \cup TerminalStatus]  \* collected terminal phase

\* Where a worker is: between the effects of a node, or before its commit.
WorkerStage == {"idle", "commit",
    "provision.prepare", "provision.call", "provision.reject", "provision.record",
    "start.call", "start.reject", "start.record", "cleanup.call", "cleanup.record",
    "collect.call", "settle.call", "settle.record"}

VARIABLES ck,      \* the last committed checkpoint
          run,     \* "active": a graph run is queued or executing; "none"
          owner,   \* the worker executing it, or Nobody
          wk,      \* wk[i]: where worker i is inside a node, and its copy of ck
          row,     \* row[a]: the engine_runs row of attempt a
          conn,    \* the execution connection's row
          ext,     \* ext[a]: the provider's run for the key of attempt a
          objs,    \* objs[a]: are a's artifacts in the store?
          indexed, \* indexed[a]: is their ownership indexed?
          faults   \* failures so far

worker == <<run, owner, wk>>
outside == <<row, conn, ext, objs, indexed>>
engineVars == <<ck, run, owner, wk, row, conn, ext, objs, indexed, faults>>

NoFailures == [s \in Stage |-> 0]

\* A phase entry as plan_resolver seeds it.
FreshEntry(a) ==
    [node |-> "prepare", attempt |-> a, status |-> "pending", gen |-> 0,
     store |-> FALSE, marks |-> {}, fails |-> NoFailures, last |-> "none",
     outcome |-> "none"]

Idle == [pc |-> "idle", ck |-> FreshEntry(1)]

EngineTypeOK ==
    /\ ck \in Checkpoint
    /\ run \in {"active", "none"}
    /\ owner \in Workers \cup {Nobody}
    /\ wk \in [Workers -> [pc : WorkerStage, ck : Checkpoint]]
    /\ row \in [Attempts -> RowOf(Versions)]
    /\ conn \in ConnectionOf(Versions \ {0})
    /\ ext \in [Attempts -> [phase : RunPhase, torn : BOOLEAN]]
    /\ objs \in [Attempts -> BOOLEAN] /\ indexed \in [Attempts -> BOOLEAN]
    /\ faults \in 0 .. MaxFaults

\* A thread whose phase no worker has touched yet.
Untouched ==
    /\ ck = FreshEntry(1)
    /\ owner = Nobody
    /\ wk = [i \in Workers |-> Idle]
    /\ row = [a \in Attempts |-> NoRow]
    /\ conn = NewConnection
    /\ ext = [a \in Attempts |-> [phase |-> "none", torn |-> FALSE]]
    /\ objs = [a \in Attempts |-> FALSE] /\ indexed = [a \in Attempts |-> FALSE]
    /\ faults = 0

EngineInit == Untouched /\ run = "active"

-----------------------------------------------------------------------------
\* Variant: the budget is compared before it is counted down.
LateRetry(c, stage, self, blocked) ==
    LET n == c.fails[stage] + 1
    IN  [c EXCEPT !.status = "running", !.fails[stage] = n,
                  !.node = IF n > MaxRetry THEN blocked ELSE self]

\* The _retry_* closures: count the failure, and either loop or fall into the
\* stage's interrupt.
Retry(c, stage, self, blocked) ==
    LET n == IF c.fails[stage] < MaxRetry THEN c.fails[stage] + 1 ELSE MaxRetry
    IN  [c EXCEPT !.status = "running", !.fails[stage] = n,
                  !.node = IF n = MaxRetry THEN blocked ELSE self]

\* Variant: a failed kill attempt drops the intent to kill.
ForgetfulRetryCleanup(c) == [Retry(c, "cleanup", "cleanup", "cleanup_blocked")
                               EXCEPT !.marks = @ \ {"cleanup"}]

RetryProvision(c) == Retry(c, "provision", "provision", "provision_blocked")
RetryCleanup(c)   == [Retry(c, "cleanup", "cleanup", "cleanup_blocked")
                        EXCEPT !.marks = @ \cup {"cleanup"}]
RetryCollect(c)   == Retry(c, "collection", "collect", "collection_blocked")
RetryIndex(c)     == [Retry(c, "index", "index", "collection_blocked")
                        EXCEPT !.marks = @ \cup {"index"}]
RetrySettle(c)    == Retry(c, "settle", "settle", "settle_blocked")

\* Variant: give up on the run without killing it.
SkipCleanup(c) == [c EXCEPT !.node = "finalize", !.status = "failed"]

\* Checkpoint the kill before attempting it.
EnterCleanup(c) ==
    [c EXCEPT !.node = "cleanup", !.marks = @ \cup {"cleanup"}, !.fails["cleanup"] = 0]

\* An operator's "retry" on a blocked stage gives it a new budget.
Reopen(c, stage, node) == [c EXCEPT !.status = "running", !.fails[stage] = 0, !.node = node]

ReopenProvision(c) == Reopen(c, "provision", "provision")
ReopenSettle(c)    == Reopen(c, "settle", "settle")
ReopenCleanup(c)   == [Reopen(c, "cleanup", "cleanup") EXCEPT !.marks = @ \cup {"cleanup"}]
\* Variant: always collect again, even what a lost acknowledgement indexed.
RestartCollection(c) == [Reopen(c, "collection", "collect") EXCEPT !.fails["index"] = 0]

ReopenCollection(c) ==
    [Reopen(c, "collection", IF "index" \in c.marks THEN "index" ELSE "collect")
       EXCEPT !.fails["index"] = 0]

\* After settlement the outcome decides between the output gate and finalize.
Continuation(c) == IF c.outcome = "completed" THEN "open_output_gate" ELSE "finalize"

\* The parent graph's entry for the phase: the subgraph's once it ended, else
\* the seed.
ParentStatus(c) == IF c.node = "end" THEN c.status ELSE "pending"

\* Variant: a finished attempt is worked on again under its own key.
ReusingPlanResolver(c) == FreshEntry(c.attempt)

\* plan_resolver for a run that selects the phase: a terminal entry is replaced
\* by the next attempt, an unfinished one by a fresh entry for the same attempt.
PlanResolver(c) ==
    IF ParentStatus(c) \in TerminalPhase
    THEN FreshEntry(c.attempt + 1)
    ELSE FreshEntry(c.attempt)

\* finalize.
FinalStatus(c) ==
    IF c.status \notin TerminalPhase \cup {"running", "awaiting_output_review"} THEN "failed"
    ELSE IF "settled" \in c.marks /\ c.outcome \in {"failed", "aborted"} THEN c.outcome
    ELSE IF c.status \in TerminalPhase THEN c.status
    ELSE "succeeded"
=============================================================================
