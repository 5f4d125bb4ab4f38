---------------------------- MODULE EngineSpine ----------------------------
(***************************************************************************)
(* The execution phase of one pipeline thread: the nodes of the checkpoint-*)
(* ed engine spine, executed by workers that may crash between any two     *)
(* effects, over a provider, a database and a connection that may fail.    *)
(*                                                                         *)
(* A node without outside effects is one action: it commits or it never    *)
(* happened.  A node with effects takes one action per database            *)
(* transaction or provider call and a last one, Commit, that checkpoints;  *)
(* whatever stops it before Commit makes the node execute again.           *)
(***************************************************************************)
EXTENDS EngineState

-----------------------------------------------------------------------------
(* Steps of a worker inside a node.                                        *)

\* The next failure comes out of a budget; a step without one leaves it alone.
Fault == faults < MaxFaults /\ faults' = faults + 1
Calm  == faults' = faults

\* The scheduler hands node n to an idle worker.
Takes(i, n) == run = "active" /\ owner = Nobody /\ wk[i].pc = "idle" /\ ck.node = n

\* Worker i enters the node at stage pc with its copy c of the checkpoint.
Enter(i, pc, c) ==
    /\ owner' = i
    /\ wk' = [wk EXCEPT ![i] = [pc |-> pc, ck |-> c]]
    /\ UNCHANGED <<ck, run>>

At(i, pc) == wk[i].pc = pc
Goto(i, pc) ==
    /\ wk' = [wk EXCEPT ![i].pc = pc]
    /\ UNCHANGED <<ck, run, owner>>

\* The node returns: its update waits for the superstep's commit.
Return(i, c) ==
    /\ wk' = [wk EXCEPT ![i] = [pc |-> "commit", ck |-> c]]
    /\ UNCHANGED <<ck, run, owner>>

\* The node raises: the run ends with an error and the checkpoint is unchanged.
Raise(i) ==
    /\ wk' = [wk EXCEPT ![i] = Idle]
    /\ run' = IF owner = i THEN "none" ELSE run
    /\ owner' = IF owner = i THEN Nobody ELSE owner
    /\ UNCHANGED ck

\* An interrupt, and the end of the graph, end the run.
RunAfter(c) == IF c.node \in InterruptNode \cup {"end"} THEN "none" ELSE "active"

\* A node without outside effects: read, compute, checkpoint.
Executes(n) == run = "active" /\ owner = Nobody /\ ck.node = n
Checkpoints(c) == ck' = c /\ run' = RunAfter(c) /\ UNCHANGED <<owner, wk>>

\* Only the worker the run still belongs to can commit; a worker whose run was
\* cancelled finishes its call and its update is dropped.
Commit(i) ==
    /\ At(i, "commit")
    /\ IF owner = i
       THEN ck' = wk[i].ck /\ run' = RunAfter(wk[i].ck) /\ owner' = Nobody
       ELSE UNCHANGED <<ck, run, owner>>
    /\ wk' = [wk EXCEPT ![i] = Idle]
    /\ UNCHANGED <<outside, faults>>

\* A crash loses the worker's progress.  The run is queued again, or shown as
\* failed.
Crash(i) ==
    /\ wk[i].pc # "idle"
    /\ Fault
    /\ wk' = [wk EXCEPT ![i] = Idle]
    /\ IF owner = i THEN owner' = Nobody /\ run' \in {"active", "none"}
       ELSE UNCHANGED <<owner, run>>
    /\ UNCHANGED <<ck, outside>>

\* A run fails between two supersteps: its recursion budget is exhausted, or no
\* worker takes it up again.
Stop ==
    /\ run = "active" /\ owner = Nobody
    /\ Fault
    /\ run' = "none"
    /\ UNCHANGED <<ck, owner, wk, outside>>

-----------------------------------------------------------------------------
(* Effects on one attempt's row and provider run.                          *)

Accepts(c) == AcceptsGeneration(conn, c.gen)

SetRow(a, r) == row' = [row EXCEPT ![a] = r] /\ UNCHANGED <<conn, ext, objs, indexed>>
SetRun(a, phase, torn) ==
    /\ ext' = [ext EXCEPT ![a] = [phase |-> phase, torn |-> torn]]
    /\ UNCHANGED <<row, conn, objs, indexed>>

\* What becomes of a run whose abort the provider accepts.  A provider that
\* creates its run at start has nothing to abort before.
AbortedPhase(phase) ==
    CASE phase = "none"    -> {"aborted"}
      [] phase = "ready"   -> {IF RunsAtStart THEN "ready" ELSE "aborted"}
      [] phase \in LiveRun -> {"aborted", "stopping"}
      [] OTHER             -> {phase}

\* Variant: teardown without the abort.
TeardownOnly(a, phase) == SetRun(a, phase, TRUE)

\* _compensate_unsafe_provision: abort, confirm, teardown.
Compensate(a, phase) ==
    \E p \in AbortedPhase(phase) \cap TerminalStatus : SetRun(a, p, TRUE)

\* record_engine_run(required=True) for a write w of attempt a: does the
\* transaction commit, and which node result do the two outcomes give?
Recordable(c, w) == TransitionAllowed(row[c.attempt], w) /\ (w.pin => Accepts(c))

RecordOrRaise(i, w, c) ==
    LET a == wk[i].ck.attempt
    IN  \/ /\ Recordable(wk[i].ck, w) /\ Calm
           /\ SetRow(a, Upsert(row[a], w)) /\ Return(i, c)
        \/ /\ ~Recordable(wk[i].ck, w) /\ Calm
           /\ UNCHANGED outside /\ Raise(i)
        \/ /\ Fault /\ Raise(i)                \* failed, or lost acknowledgement
           /\ \/ UNCHANGED outside
              \/ Recordable(wk[i].ck, w) /\ SetRow(a, Upsert(row[a], w))

-----------------------------------------------------------------------------
(* The nodes around the spine: prepare, the two gates, reserve, finalize.  *)

\* prepare and open_prompt_gate; an unmet prerequisite fails the phase.
Prepare ==
    /\ Executes("prepare")
    /\ \/ Checkpoints(IF PromptGated
                      THEN [ck EXCEPT !.node = "prompt_gate",
                                      !.status = "awaiting_prompt_review"]
                      ELSE [ck EXCEPT !.node = "reserve", !.status = "running"])
       \/ Checkpoints([ck EXCEPT !.node = "finalize", !.status = "failed"])
    /\ UNCHANGED <<outside, faults>>

\* prompt_gate, resumed by the operator: approve, skip_phase, abort, or no decision
\* within the loop cap.
DecidePrompt ==
    /\ run = "none" /\ ck.node = "prompt_gate"
    /\ \/ Checkpoints([ck EXCEPT !.node = "reserve"])
       \/ \E s \in {"skipped", "aborted", "failed"} :
            Checkpoints([ck EXCEPT !.node = "finalize", !.status = s])
    /\ UNCHANGED <<outside, faults>>

\* engine_reserve: the load test spec with its idempotency key, or a failed build.
Reserve ==
    /\ Executes("reserve")
    /\ \/ Checkpoints([ck EXCEPT !.node = "provision"])
       \/ Checkpoints([ck EXCEPT !.node = "finalize", !.status = "failed"])
    /\ UNCHANGED <<outside, faults>>

\* open_output_gate, flowing into output_gate: ungated, waiting for the operator,
\* or failed for want of evidence to show.
OpenOutputGate ==
    /\ Executes("open_output_gate")
    /\ \/ /\ ~OutputGated
          /\ Checkpoints([ck EXCEPT !.node = "finalize"])
       \/ /\ OutputGated
          /\ LET opened == [ck EXCEPT !.outcome = "none", !.marks = @ \ {"settled"}]
             IN  \/ Checkpoints([opened EXCEPT !.node = "output_gate",
                                              !.status = "awaiting_output_review"])
                \/ Checkpoints([opened EXCEPT !.node = "finalize", !.status = "failed"])
    /\ UNCHANGED <<outside, faults>>

\* output_gate, resumed by the operator: approve, revise (the report only: the
\* load run is not restarted), discuss, abort, or no decision within the loop cap.
DecideOutput ==
    /\ run = "none" /\ ck.node = "output_gate"
    /\ \/ Checkpoints([ck EXCEPT !.node = "finalize"])
       \/ \E s \in {"running", ck.status} :
            Checkpoints([ck EXCEPT !.node = "open_output_gate", !.status = s])
       \/ \E s \in {"aborted", "failed"} :
            Checkpoints([ck EXCEPT !.node = "finalize", !.status = s])
    /\ UNCHANGED <<outside, faults>>

Finalize ==
    /\ Executes("finalize")
    /\ Checkpoints([ck EXCEPT !.node = "end", !.status = FinalStatus(ck),
                              !.outcome = "none", !.marks = @ \ {"settled"}])
    /\ UNCHANGED <<outside, faults>>

\* A rerun of a finished phase: the facade starts no other run on a thread.
Rerun ==
    /\ run = "none"
    /\ ParentStatus(ck) \in TerminalPhase /\ ck.attempt < MaxAttempt
    /\ Checkpoints(PlanResolver(ck))
    /\ UNCHANGED <<outside, faults>>

\* A run with input on an unfinished attempt, where callers may start runs on
\* the thread themselves: plan_resolver seeds the attempt anew.
Restart ==
    /\ Restarts /\ run = "none"
    /\ ParentStatus(ck) \notin TerminalPhase
    /\ Checkpoints(PlanResolver(ck))
    /\ UNCHANGED <<outside, faults>>

\* A run without input continues from the last committed checkpoint.
Continue ==
    /\ Continues /\ run = "none"
    /\ ck.node \notin InterruptNode \cup {"end"}
    /\ run' = "active"
    /\ UNCHANGED <<ck, owner, wk, outside, faults>>

\* The operator's "retry" on a stage that exhausted its budget.
ResumeBlocked ==
    /\ run = "none"
    /\ \/ ck.node = "provision_blocked"  /\ Checkpoints(ReopenProvision(ck))
       \/ ck.node = "cleanup_blocked"    /\ Checkpoints(ReopenCleanup(ck))
       \/ ck.node = "collection_blocked" /\ Checkpoints(ReopenCollection(ck))
       \/ ck.node = "settle_blocked"     /\ Checkpoints(ReopenSettle(ck))
    /\ UNCHANGED <<outside, faults>>

-----------------------------------------------------------------------------
(* engine_provision                                                        *)

\* The affinity superstep: pin the connection and its generation, no provider
\* call.  Resolution fails on a disabled connection or a database error.
StageAffinity ==
    /\ Executes("provision") /\ ck.gen = 0
    /\ \/ /\ conn.enabled /\ Calm
          /\ Checkpoints([ck EXCEPT !.status = "running", !.gen = conn.version])
       \/ /\ IF conn.enabled THEN Fault ELSE Calm
          /\ Checkpoints(RetryProvision(ck))
    /\ UNCHANGED outside

\* Resolve the pinned connection.  Another generation is a definitive failure.
ProvisionResolve(i) ==
    /\ Takes(i, "provision") /\ ck.gen # 0
    /\ \/ Accepts(ck) /\ Calm /\ Enter(i, "provision.prepare", ck)
       \/ conn.enabled /\ ~Accepts(ck) /\ Calm /\ Enter(i, "provision.reject", ck)
       \/ /\ IF conn.enabled THEN Fault ELSE Calm
          /\ Enter(i, "commit", RetryProvision(ck))
    /\ UNCHANGED outside

Provisioned(c) == [c EXCEPT !.node = "start", !.fails["provision"] = 0]

\* prepare_engine_provision: a projected handle is recovered without a call.
ProvisionPrepare(i) ==
    /\ At(i, "provision.prepare")
    /\ LET c == wk[i].ck
           a == c.attempt
           r == InsertReservation(row[a], c.gen)
           decision == IF Accepts(c) THEN ProvisionDecision(r, c.gen) ELSE "reject"
       IN  \/ /\ decision = "call" /\ Calm
              /\ SetRow(a, r) /\ Goto(i, "provision.call")
           \/ /\ decision = "recover" /\ Calm
              /\ UNCHANGED outside /\ Return(i, Provisioned(c))
           \/ /\ decision = "reject" /\ Calm
              /\ UNCHANGED outside /\ Raise(i)
           \/ /\ Fault /\ Return(i, RetryProvision(c))
              /\ \/ UNCHANGED outside
                 \/ decision = "call" /\ SetRow(a, r)

\* validate, then provision, get-or-create by the attempt's key.  A handle that
\* may not be persisted is compensated, which makes the failure definitive.
ProvisionCall(i) ==
    /\ At(i, "provision.call")
    /\ LET c == wk[i].ck
           a == c.attempt
           created == IF ext[a].phase = "none" THEN "ready" ELSE ext[a].phase
       IN  \/ /\ Calm /\ SetRun(a, created, ext[a].torn) /\ Goto(i, "provision.record")
           \/ /\ Calm /\ UNCHANGED outside /\ Goto(i, "provision.reject")
           \/ /\ Fault /\ Compensate(a, created) /\ Goto(i, "provision.reject")
           \/ /\ Fault /\ Return(i, RetryProvision(c))
              /\ \/ UNCHANGED outside
                 \/ SetRun(a, created, ext[a].torn)

\* A definitive failure settles the row, then fails the phase.
ProvisionReject(i) ==
    /\ At(i, "provision.reject")
    /\ RecordOrRaise(i, Write("failed", FALSE, FALSE, 0, FALSE, "none"),
           [wk[i].ck EXCEPT !.node = "finalize", !.status = "failed"])

\* Project READY with the full handle; only a terminal winner raises.
ProvisionRecord(i) ==
    /\ At(i, "provision.record")
    /\ LET c == wk[i].ck
           a == c.attempt
           w == Write("ready", TRUE, FALSE, 0, FALSE, "none")
       IN  \/ /\ Recordable(c, w) /\ Calm
              /\ SetRow(a, Upsert(row[a], w)) /\ Return(i, Provisioned(c))
           \/ /\ ~Recordable(c, w) /\ Calm
              /\ UNCHANGED outside /\ Raise(i)
           \/ /\ Fault /\ Return(i, RetryProvision(c))
              /\ \/ UNCHANGED outside
                 \/ Recordable(c, w) /\ SetRow(a, Upsert(row[a], w))

-----------------------------------------------------------------------------
(* engine_start                                                            *)

\* prepare_engine_start: every refusal and every database error raises.
StartPrepare(i) ==
    /\ Takes(i, "start")
    /\ UNCHANGED outside
    /\ LET decision == IF Accepts(ck) THEN StartDecision(row[ck.attempt], ck.gen) ELSE "reject"
       IN  \/ decision = "call" /\ Calm /\ Enter(i, "start.call", ck)
           \/ /\ decision = "recover" /\ Calm
              /\ Enter(i, "commit", [ck EXCEPT !.node = "status"])
           \/ /\ IF decision = "reject" THEN Calm ELSE Fault
              /\ run' = "none" /\ UNCHANGED <<ck, owner, wk>>

\* adapter.start, idempotent; a finished run cannot be started.  An error
\* checkpoints the kill; an unsafe handle is compensated on the spot.
StartCall(i) ==
    /\ At(i, "start.call")
    /\ LET c == wk[i].ck
           a == c.attempt
           startable == Accepts(c) /\ ext[a].phase \in {"ready"} \cup LiveRun
           started == IF ext[a].phase = "ready" THEN "running" ELSE ext[a].phase
       IN  \/ /\ startable /\ Calm
              /\ SetRun(a, started, ext[a].torn) /\ Goto(i, "start.record")
           \/ /\ startable /\ Fault
              /\ Compensate(a, started) /\ Goto(i, "start.reject")
           \/ /\ IF startable THEN Fault ELSE Calm
              /\ Return(i, EnterCleanup(c))
              /\ \/ UNCHANGED outside
                 \/ startable /\ SetRun(a, started, ext[a].torn)

StartReject(i) ==
    /\ At(i, "start.reject")
    /\ RecordOrRaise(i, Write("failed", TRUE, TRUE, wk[i].ck.gen, FALSE, "none"),
           [wk[i].ck EXCEPT !.node = "finalize", !.status = "failed",
                            !.marks = @ \ {"cleanup"}])

StartRecord(i) ==
    /\ At(i, "start.record")
    /\ RecordOrRaise(i, Write("running", TRUE, TRUE, wk[i].ck.gen, FALSE, "none"),
           [wk[i].ck EXCEPT !.node = "status"])

-----------------------------------------------------------------------------
(* engine_status and engine_poll: reads, with a bounded error budget.      *)

Observed(c) ==
    [c EXCEPT !.last = ext[c.attempt].phase, !.fails["poll"] = 0,
              !.node = IF ext[c.attempt].phase \in TerminalStatus THEN "collect" ELSE "poll"]

PollFailed(c) ==
    [c EXCEPT !.node = "poll",
              !.fails["poll"] = IF c.fails["poll"] < MaxRetry THEN @ + 1 ELSE @]

InitialStatus ==
    /\ Executes("status")
    /\ \/ Accepts(ck) /\ Calm /\ Checkpoints(Observed(ck))
       \/ (IF Accepts(ck) THEN Fault ELSE Calm) /\ Checkpoints(PollFailed(ck))
    /\ UNCHANGED outside

Poll ==
    /\ Executes("poll")
    /\ \/ Accepts(ck) /\ Calm /\ Checkpoints(Observed(ck))
       \/ /\ IF Accepts(ck) THEN Fault ELSE Calm
          /\ LET c == PollFailed(ck)
             IN  Checkpoints(IF c.fails["poll"] = MaxRetry THEN EnterCleanup(c) ELSE c)
    /\ UNCHANGED outside

\* Variant: a poll loop without a deadline.
PollWithoutDeadline ==
    /\ Executes("poll")
    /\ Accepts(ck) /\ ext[ck.attempt].phase \notin TerminalStatus
    /\ Checkpoints([ck EXCEPT !.last = ext[ck.attempt].phase])
    /\ UNCHANGED <<outside, faults>>

\* A poll that answers may find the run over its time limit.
PollTimeout ==
    /\ Executes("poll")
    /\ Accepts(ck) /\ ext[ck.attempt].phase \notin TerminalStatus
    /\ Checkpoints([EnterCleanup(ck) EXCEPT !.last = ext[ck.attempt].phase])
    /\ UNCHANGED <<outside, faults>>

-----------------------------------------------------------------------------
(* engine_cleanup                                                          *)

\* Variant: the killed phase is left running for finalize to judge.
KilledButRunning(c) == [c EXCEPT !.node = "finalize", !.marks = @ \ {"cleanup"}]

Killed(c) ==
    [c EXCEPT !.node = "finalize", !.status = "failed", !.marks = @ \ {"cleanup"}]

\* recover_engine_completion: a committed kill is not repeated; another
\* terminal row, and any database error, raise.
CleanupRecover(i) ==
    /\ Takes(i, "cleanup")
    /\ UNCHANGED outside
    /\ LET decision == CompletionDecision(row[ck.attempt], ck.gen, FALSE, "cleanup",
                                          TerminalStatus)
       IN  \/ decision = "effect" /\ Calm /\ Enter(i, "cleanup.call", ck)
           \/ decision = "recover" /\ Calm /\ Enter(i, "commit", Killed(ck))
           \/ /\ IF decision = "reject" THEN Calm ELSE Fault
              /\ run' = "none" /\ UNCHANGED <<ck, owner, wk>>

\* abort, confirm by status, teardown.  Only a confirmed kill proceeds.
CleanupCall(i) ==
    /\ At(i, "cleanup.call")
    /\ LET c == wk[i].ck
           a == c.attempt
       IN  \/ /\ Accepts(c) /\ Calm
              /\ \E p \in AbortedPhase(ext[a].phase) :
                   IF p \in TerminalStatus
                   THEN SetRun(a, p, TRUE) /\ Goto(i, "cleanup.record")
                   ELSE SetRun(a, p, ext[a].torn) /\ Return(i, RetryCleanup(c))
           \/ /\ Accepts(c) /\ Fault /\ Return(i, RetryCleanup(c))
              /\ \/ UNCHANGED outside
                 \/ \E p \in AbortedPhase(ext[a].phase), torn \in BOOLEAN :
                      SetRun(a, p, (torn /\ p \in TerminalStatus) \/ ext[a].torn)
           \/ /\ ~Accepts(c) /\ Calm
              /\ UNCHANGED outside /\ Return(i, RetryCleanup(c))

CleanupRecord(i) ==
    /\ At(i, "cleanup.record")
    /\ LET c == wk[i].ck
       IN  RecordOrRaise(i, Write(ext[c.attempt].phase, TRUE, TRUE, c.gen, FALSE, "cleanup"),
                         Killed(c))

-----------------------------------------------------------------------------
(* engine_collect, engine_collection_index, engine_collection_settle       *)

\* The artifact-store affinity superstep.
StageStore ==
    /\ Executes("collect") /\ ~ck.store
    /\ \/ /\ Calm
          /\ Checkpoints([ck EXCEPT !.status = "running", !.store = TRUE])
       \/ Fault /\ Checkpoints(RetryCollect(ck))
    /\ UNCHANGED outside

\* Project COLLECTING, which reserves the store, before any byte is written.
CollectReserve(i) ==
    /\ Takes(i, "collect") /\ ck.store
    /\ LET a == ck.attempt
           w == Write("collecting", TRUE, TRUE, ck.gen, TRUE, "none")
       IN  \/ /\ Recordable(ck, w) /\ Calm
              /\ SetRow(a, Upsert(row[a], w)) /\ Enter(i, "collect.call", ck)
           \/ /\ ~Recordable(ck, w) /\ Calm
              /\ UNCHANGED outside /\ Enter(i, "commit", RetryCollect(ck))
           \/ /\ Fault /\ Enter(i, "commit", RetryCollect(ck))
              /\ \/ UNCHANGED outside
                 \/ Recordable(ck, w) /\ SetRow(a, Upsert(row[a], w))

\* The phase the collected run will be projected as: an SLA breach fails it.
ProjectedPhase(last) ==
    CASE last = "completed" -> {"completed", "failed"} [] OTHER -> {last}

\* Collect into the store and fetch the summary; a failure deletes what this
\* call wrote.
CollectCall(i) ==
    /\ At(i, "collect.call")
    /\ LET c == wk[i].ck
           a == c.attempt
       IN  \/ /\ Calm
              /\ objs' = [objs EXCEPT ![a] = TRUE]
              /\ \E o \in ProjectedPhase(c.last) :
                   Return(i, [c EXCEPT !.node = "index", !.status = "running",
                                       !.marks = @ \cup {"index"},
                                       !.fails["index"] = 0, !.outcome = o])
           \/ /\ Fault
              /\ objs' \in { [objs EXCEPT ![a] = FALSE], [objs EXCEPT ![a] = TRUE] }
              /\ Return(i, RetryCollect(c))
    /\ UNCHANGED <<row, conn, ext, indexed>>

\* One transaction that makes the checkpointed batch owned and readable.
Index(i) ==
    /\ Takes(i, "index")
    /\ \/ /\ Calm
          /\ indexed' = [indexed EXCEPT ![ck.attempt] = TRUE]
          /\ Enter(i, "commit", [ck EXCEPT !.node = "settle", !.status = "running",
                                    !.marks = @ \ {"index"},
                                    !.fails["collection"] = 0, !.fails["index"] = 0])
       \/ /\ Fault
          /\ indexed' \in { indexed, [indexed EXCEPT ![ck.attempt] = TRUE] }
          /\ Enter(i, "commit", RetryIndex(ck))
    /\ UNCHANGED <<row, conn, ext, objs>>

Settled(c) ==
    [c EXCEPT !.node = Continuation(c), !.status = "running",
              !.marks = @ \cup {"settled"},
              !.fails["settle"] = 0]

\* A committed settlement is recovered by its exact witness and not repeated.
SettleRecover(i) ==
    /\ Takes(i, "settle")
    /\ UNCHANGED outside
    /\ LET decision == CompletionDecision(row[ck.attempt], ck.gen, TRUE, "collection",
                                          {ck.outcome})
       IN  \/ decision = "effect" /\ Calm /\ Enter(i, "settle.call", ck)
           \/ decision = "recover" /\ Calm /\ Enter(i, "commit", Settled(ck))
           \/ /\ IF decision = "reject" THEN Calm ELSE Fault
              /\ run' = "none" /\ UNCHANGED <<ck, owner, wk>>

\* Variant: the terminal projection is written though the teardown failed.
BestEffortSettleCall(i) ==
    /\ At(i, "settle.call")
    /\ LET c == wk[i].ck
       IN  \/ Calm /\ SetRun(c.attempt, ext[c.attempt].phase, TRUE)
           \/ Fault /\ UNCHANGED outside
    /\ Goto(i, "settle.record")

\* teardown, then the terminal projection.
SettleCall(i) ==
    /\ At(i, "settle.call")
    /\ LET c == wk[i].ck
           a == c.attempt
       IN  \/ /\ Accepts(c) /\ Calm
              /\ SetRun(a, ext[a].phase, TRUE) /\ Goto(i, "settle.record")
           \/ /\ IF Accepts(c) THEN Fault ELSE Calm
              /\ Return(i, RetrySettle(c))
              /\ \/ UNCHANGED outside
                 \/ Accepts(c) /\ SetRun(a, ext[a].phase, TRUE)

SettleRecord(i) ==
    /\ At(i, "settle.record")
    /\ LET c == wk[i].ck
       IN  RecordOrRaise(i, Write(c.outcome, TRUE, TRUE, c.gen, TRUE, "collection"),
                         Settled(c))

-----------------------------------------------------------------------------
(* The provider and the administrator.                                     *)

\* A started run ends by itself, is stopped from the provider's side, or ends
\* while it is being stopped.
ProviderEnds(a) ==
    /\ ext[a].phase \in LiveRun
    /\ \E p \in TerminalStatus : SetRun(a, p, ext[a].torn)
    /\ UNCHANGED <<ck, worker, faults>>

\* Variant: disable does not look for durable references.
UncheckedToggleConnection ==
    /\ conn.version < MaxVersion
    /\ conn' = Toggled(conn)
    /\ UNCHANGED <<ck, worker, row, ext, objs, indexed, faults>>

\* disable is refused while a nonterminal row references the connection.
ToggleConnection ==
    /\ conn.version < MaxVersion
    /\ conn.enabled => \A a \in Attempts : ~HoldsLease(row[a])
    /\ conn' = Toggled(conn)
    /\ UNCHANGED <<ck, worker, row, ext, objs, indexed, faults>>

\* An execution engine's runtime fields are immutable: a PATCH can only repeat
\* them, under live load too, and the generation advances all the same.
PatchConnection ==
    /\ conn.version < MaxVersion
    /\ conn' = Repeated(conn)
    /\ UNCHANGED <<ck, worker, row, ext, objs, indexed, faults>>

-----------------------------------------------------------------------------
\* What a worker does inside the nodes that have outside effects.
WorkerStep(i) ==
    \/ ProvisionResolve(i) \/ ProvisionPrepare(i) \/ ProvisionCall(i)
    \/ ProvisionReject(i) \/ ProvisionRecord(i)
    \/ StartPrepare(i) \/ StartCall(i) \/ StartReject(i) \/ StartRecord(i)
    \/ CleanupRecover(i) \/ CleanupCall(i) \/ CleanupRecord(i)
    \/ CollectReserve(i) \/ CollectCall(i) \/ Index(i)
    \/ SettleRecover(i) \/ SettleCall(i) \/ SettleRecord(i)
    \/ Commit(i)

\* The nodes that only read and checkpoint.
NodeStep ==
    \/ Prepare \/ Reserve \/ StageAffinity
    \/ InitialStatus \/ Poll \/ PollTimeout \/ StageStore \/ OpenOutputGate \/ Finalize

\* What people do: decide gates, retry blocked stages, start further runs.
Operator ==
    DecidePrompt \/ DecideOutput \/ ResumeBlocked \/ Rerun \/ Restart \/ Continue

Administrator == ToggleConnection \/ PatchConnection

EngineNext ==
    \/ \E i \in Workers : WorkerStep(i) \/ Crash(i)
    \/ NodeStep \/ Stop
    \/ Operator
    \/ Administrator
    \/ \E a \in Attempts : ProviderEnds(a)

EngineSpec == EngineInit /\ [][EngineNext]_engineVars

\* What the code relies on to make progress: workers and nodes keep executing,
\* the poll deadline is a clock, the provider completes a stop it accepted, and
\* people eventually retry a blocked stage and continue a failed run.  A load
\* run need not end by itself, a gate need not be answered.
ProviderStops(a) == ext[a].phase = "stopping" /\ ProviderEnds(a)

Fairness ==
    /\ WF_engineVars(NodeStep) /\ WF_engineVars(PollTimeout)
    /\ \A i \in Workers : WF_engineVars(WorkerStep(i))
    /\ WF_engineVars(ResumeBlocked) /\ WF_engineVars(Continue)
    /\ \A a \in Attempts : WF_engineVars(ProviderStops(a))

FairEngineSpec == EngineSpec /\ Fairness
-----------------------------------------------------------------------------
(* Safety.                                                                 *)

\* The attempts the thread is done with.
Finished(a) == a < ck.attempt \/ (a = ck.attempt /\ ck.node = "end")

\* A completion witness in a row is only ever written after the effects it
\* stands for: collection after an indexed batch and a teardown, cleanup after a
\* confirmed kill and a teardown (_completion_replay_status trusts it instead of
\* repeating them).
WitnessIsTruthful ==
    \A a \in Attempts :
        /\ row[a].kind # "none" => ext[a].phase \in TerminalStatus /\ ext[a].torn
        /\ row[a].kind = "collection" => indexed[a] /\ objs[a]

\* A phase that finalize calls succeeded has a completed row settled by
\* collection: no crash, retry or replay turns a lost run into a success.
SucceededMeansCollected ==
    ck.status = "succeeded" =>
        /\ row[ck.attempt].status = "completed"
        /\ row[ck.attempt].kind = "collection"
        /\ indexed[ck.attempt]

\* Once the graph is past an attempt, no load it started is still running: the
\* header of execution_phase.py, kill before finalize.
FinishedPhaseLeavesNoLoad ==
    \A a \in Attempts : Finished(a) => ext[a].phase \notin LiveRun

\* While load is running its row holds the connection, which is enabled and has the
\* values the row was reserved on: crashes, replays and administrators leave the
\* load with the engine that can stop it.  Two ends of a PATCH that repeats values
\* are not excluded: the row's generation may be older than the connection's (every
\* abort is then refused), and a run started anew on the attempt then meets the
\* newer one, rejects the provision and gives the row up over its load.
LoadStaysReachable ==
    \A a \in Attempts :
        ext[a].phase \in LiveRun =>
            \/ row[a].lease /\ Unaltered(conn, row[a].version)
            \/ Restarts /\ row[a].status = "failed" /\ row[a].version < conn.version

\* The artifacts a committed ownership index names are in the store
\* (engine_collect deletes what a failed call wrote).
IndexedObjectsSurvive == \A a \in Attempts : indexed[a] => objs[a]

\* The checkpointed kill intent outlives every failure: it is dropped only once
\* the run is over, its resources are released and the row says so.
KillIntentHeldUntilConfirmed ==
    [][ "cleanup" \in ck.marks /\ "cleanup" \notin ck'.marks =>
          /\ ext[ck.attempt].phase \in TerminalStatus /\ ext[ck.attempt].torn
          /\ row[ck.attempt].status \in TerminalStatus ]_engineVars

\* Provider resources are released only behind an indexed collection or an intent
\* to kill, or for a past attempt whose row was given up without its handle: a
\* teardown never destroys results somebody still waits for.
TeardownNeverLosesResults ==
    [][ \A a \in Attempts :
          ~ext[a].torn /\ ext'[a].torn =>
            \/ indexed[a] /\ objs[a]
            \/ a = ck.attempt /\ "cleanup" \in ck.marks
            \/ ext[a].phase \notin TerminalStatus /\ ext'[a].phase = "aborted"
            \/ a < ck.attempt /\ ~row[a].handle ]_engineVars

\* Every run the provider created for an attempt the graph is done with has ended
\* and released its resources.
FinishedPhaseLeavesNoOrphan ==
    \A a \in Attempts :
        Finished(a) /\ ext[a].phase # "none" => ext[a].torn

-----------------------------------------------------------------------------
(* Liveness, under Fairness.                                               *)

\* A PATCH that repeats values has moved the connection past the generation this
\* attempt is pinned to, which every call to the provider is then refused for.
Moved == ck.gen \notin {0, conn.version}

\* Load that was started ends, by itself or by the poll deadline's kill, unless its
\* connection is moved: no failure leaves it running unwatched.
LoadEventuallyEnds ==
    \A a \in Attempts : ext[a].phase \in LiveRun ~> ext[a].phase \notin LiveRun \/ Moved

\* A checkpointed kill is eventually confirmed (engine_cleanup: "a process restart
\* resumes cleanup instead of losing the handle").
KillEventuallyConfirmed == "cleanup" \in ck.marks ~> "cleanup" \notin ck.marks \/ Moved

\* A finished run's results are eventually collected, indexed and settled.
CollectionEventuallySettled ==
    ck.node = "collect" ~> "settled" \in ck.marks \/ Moved

-----------------------------------------------------------------------------
(* Refinement.                                                             *)

Load(phase) ==
    CASE phase \in LiveRun -> "live" [] phase \in TerminalStatus -> "over" [] OTHER -> "unused"

Verdict(c) ==
    IF c.node # "end" THEN "open" ELSE IF c.status = "succeeded" THEN "success" ELSE "other"

Contract ==
    INSTANCE ExecutionContract
    WITH Attempt <- Attempts,
         current <- ck.attempt,
         verdict <- Verdict(ck),
         held <- [a \in Attempts |-> HoldsLease(row[a])],
         load <- [a \in Attempts |-> Load(ext[a].phase)],
         kept <- [a \in Attempts |-> indexed[a] /\ objs[a]]

\* The spine, with all its crashes, retries and replays, is a sequence of
\* attempts as the contract describes them.
ImplementsContract == Contract!ContractSpec
=============================================================================
