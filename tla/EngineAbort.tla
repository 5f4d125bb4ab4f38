---------------------------- MODULE EngineAbort ----------------------------
(***************************************************************************)
(* POST /v1/pipelines/{thread}/abort over a running execution phase: the   *)
(* kill switch (services/engine_abort.py), its graph-only fallback         *)
(* (services/pipeline_read.py abort_pipeline), and the spine they race.    *)
(* The request reads the checkpoint, the projection and the run queue one  *)
(* after the other, with no lock over any of them, and acts on what it     *)
(* read.  A cancelled run's worker is not stopped: it finishes its provider*)
(* and database calls, and only its checkpoint is dropped.                 *)
(***************************************************************************)
EXTENDS EngineSpine

CONSTANT MaxAborts        \* bound on abort requests

VARIABLES ab,     \* the abort request in flight: see AbortTypeOK
          older,  \* was the active run created before the row of its attempt?
          aborts  \* requests made so far

abortVars == <<ck, run, owner, wk, row, conn, ext, objs, indexed, faults, ab, older, aborts>>

AbortStage == {"idle", "state", "projection", "queue", "provider", "monitor",
               "confirm", "recheck", "teardown", "project", "fallback"}

\* What the caller was told: the 202s, "confirmed", "stopping" (with a monitor)
\* and "cancelled" (graph only), and the errors that ask for a retry.
AbortAnswer == {"none", "confirmed", "stopping", "cancelled", "no_active_run",
                "provisioning_pending", "confirmation_pending",
                "graph_finalization_pending", "projection_finalization_pending",
                "provider_failed"}

\* att: the attempt the request took from the checkpoint, then targets.  mon: the
\* run it saw active when it began has not ended since.
NoAbort == [pc |-> "idle", att |-> 1, mon |-> FALSE, answer |-> "none"]

AbortTypeOK ==
    /\ EngineTypeOK
    /\ ab \in [pc : AbortStage, att : Attempts, mon : BOOLEAN, answer : AbortAnswer]
    /\ older \in BOOLEAN
    /\ aborts \in 0 .. MaxAborts

AbortInit == EngineInit /\ ab = NoAbort /\ older = TRUE /\ aborts = 0

-----------------------------------------------------------------------------
AbortAt(pc) == ab.pc = pc
AbortGoto(pc) == ab' = [ab EXCEPT !.pc = pc]
Answers(answer) == ab' = [NoAbort EXCEPT !.att = ab.att, !.answer = answer]
EngineUnchanged == UNCHANGED <<engineVars, older, aborts>>

\* abort, first step: list the thread's pending and running graph runs.
BeginAbort ==
    /\ AbortAt("idle") /\ aborts < MaxAborts
    /\ aborts' = aborts + 1
    /\ ab' = [NoAbort EXCEPT !.pc = "state", !.mon = (run = "active")]
    /\ UNCHANGED <<engineVars, older>>

\* _target_from_state.  While the phase runs the parent's entry is still the
\* seed: it binds the attempt but never carries a handle.
ReadState ==
    /\ AbortAt("state")
    /\ ab' = [ab EXCEPT !.pc = "projection", !.att = ck.attempt]
    /\ EngineUnchanged

\* get_latest_abortable_for_thread: the nonterminal row of the last attempt.
Latest(a) ==
    /\ row[a].status \in ActiveStatus
    /\ \A b \in Attempts : b > a => row[b].status \notin ActiveStatus

\* The row names the external run: a provider that creates its run at start has
\* no id to project before.
NamesExternalRun(r) ==
    /\ r.status \in ActiveStatus \ {"provisioning"} /\ r.handle
    /\ RunsAtStart => r.status # "ready"

\* _target_from_projection, and the choice of a target: the projected handle of
\* the same attempt, "retry" while provisioning may be in flight, or nothing.
ReadProjection ==
    /\ AbortAt("projection")
    /\ EngineUnchanged
    /\ LET a == ab.att
       IN  \/ Latest(a) /\ NamesExternalRun(row[a]) /\ AbortGoto("queue")
           \/ /\ Latest(a) /\ row[a].status = "provisioning"
              /\ Answers("provisioning_pending")
           \/ /\ ~Latest(a) \/ (~NamesExternalRun(row[a]) /\ row[a].status # "provisioning")
              /\ AbortGoto("fallback")

\* The second reading of the queue, _stable_monitor_candidate_ids: a monitor was
\* active both times and created no later than the row.
ReadQueue ==
    /\ AbortAt("queue")
    /\ ab' = [ab EXCEPT !.pc = "provider", !.mon = @ /\ run = "active" /\ older]
    /\ EngineUnchanged

\* Resolve the pinned connection generation, adapter.abort, get_status.
AbortProvider ==
    /\ AbortAt("provider")
    /\ LET a == ab.att
       IN  \/ /\ AcceptsGeneration(conn, row[a].version) /\ Calm
              /\ \E p \in AbortedPhase(ext[a].phase) :
                   /\ SetRun(a, p, ext[a].torn)
                   /\ IF p \in TerminalStatus \cup {"stopping"}
                      THEN AbortGoto("monitor") ELSE Answers("provider_failed")
           \/ /\ AcceptsGeneration(conn, row[a].version) /\ Fault
              /\ Answers("provider_failed")
              /\ \/ UNCHANGED outside
                 \/ \E p \in AbortedPhase(ext[a].phase) : SetRun(a, p, ext[a].torn)
           \/ /\ ~AcceptsGeneration(conn, row[a].version) /\ Calm
              /\ UNCHANGED outside /\ Answers("provider_failed")
    /\ UNCHANGED <<ck, worker, older, aborts>>

\* Variant: an accepted abort is taken for a confirmed one when a monitor will
\* see it through.
OptimisticCheckMonitor ==
    /\ AbortAt("monitor")
    /\ EngineUnchanged
    /\ LET stopped == ext[ab.att].phase \in TerminalStatus
       IN  \/ ab.mon /\ Answers("confirmed")
           \/ ~ab.mon /\ stopped /\ AbortGoto("recheck")
           \/ ~ab.mon /\ ~stopped /\ AbortGoto("confirm")

\* _has_active_target_run.  A monitor keeps ownership of collection and teardown.
CheckMonitor ==
    /\ AbortAt("monitor")
    /\ EngineUnchanged
    /\ LET stopped == ext[ab.att].phase \in TerminalStatus
       IN  \/ ab.mon /\ Answers(IF stopped THEN "confirmed" ELSE "stopping")
           \/ ~ab.mon /\ stopped /\ AbortGoto("recheck")
           \/ ~ab.mon /\ ~stopped /\ AbortGoto("confirm")

\* _confirm_without_graph_monitor: poll the provider, or ask for a retry.
ConfirmStop ==
    /\ AbortAt("confirm")
    /\ EngineUnchanged
    /\ \/ ext[ab.att].phase \in TerminalStatus /\ AbortGoto("recheck")
       \/ ext[ab.att].phase \notin TerminalStatus /\ Answers("confirmation_pending")

\* Variant: the service finalizes what it stopped, without looking at the graph.
UncheckedRecheck ==
    /\ AbortAt("recheck")
    /\ EngineUnchanged
    /\ AbortGoto("teardown")

\* _state_requires_finalization and _state_proves_target_finalized: only when
\* the checkpoint has moved on to another attempt is the run the service's own.
Recheck ==
    /\ AbortAt("recheck")
    /\ EngineUnchanged
    /\ \/ /\ ck.attempt = ab.att /\ ParentStatus(ck) \notin TerminalPhase
          /\ Answers("graph_finalization_pending")
       \/ /\ ck.attempt = ab.att /\ ParentStatus(ck) \in TerminalPhase
          /\ Answers("confirmed")
       \/ ck.attempt # ab.att /\ AbortGoto("teardown")

AbortTeardown ==
    /\ AbortAt("teardown")
    /\ \/ Calm /\ SetRun(ab.att, ext[ab.att].phase, TRUE) /\ AbortGoto("project")
       \/ Fault /\ UNCHANGED outside /\ Answers("projection_finalization_pending")
    /\ UNCHANGED <<ck, worker, older, aborts>>

\* mark_terminal's compare-and-set; zero rows is no proof of finalization.
AbortProject ==
    /\ AbortAt("project")
    /\ LET a == ab.att
       IN  \/ /\ row[a].status \in ActiveStatus /\ Calm
              /\ SetRow(a, MarkTerminal(row[a], ext[a].phase)) /\ Answers("confirmed")
           \/ /\ row[a].status \notin ActiveStatus /\ Calm
              /\ UNCHANGED outside /\ Answers("projection_finalization_pending")
           \/ /\ Fault /\ UNCHANGED outside
              /\ Answers("projection_finalization_pending")
    /\ UNCHANGED <<ck, worker, older, aborts>>

\* PipelineService.abort_pipeline: cancel every pending and running run.
CancelRuns ==
    /\ AbortAt("fallback")
    /\ run' = "none" /\ owner' = Nobody
    /\ Answers(IF run = "active" THEN "cancelled" ELSE "no_active_run")
    /\ UNCHANGED <<ck, wk, outside, faults, older, aborts>>

AbortStep ==
    \/ BeginAbort \/ ReadState \/ ReadProjection \/ ReadQueue \/ AbortProvider
    \/ CheckMonitor \/ ConfirmStop \/ Recheck \/ AbortTeardown \/ AbortProject
    \/ CancelRuns

\* A step of the rest of the system, seen by the request: a run that ended is no
\* monitor, and a run created now is older than a row not yet inserted.
EngineStep ==
    /\ EngineNext
    /\ ab' = [ab EXCEPT !.mon = @ /\ run' = "active"]
    /\ older' = IF run = "none" /\ run' = "active"
                THEN row'[ck'.attempt].status = "absent" ELSE older
    /\ UNCHANGED aborts

AbortNext == EngineStep \/ AbortStep

AbortSpec == AbortInit /\ [][AbortNext]_abortVars

-----------------------------------------------------------------------------
(* Safety.                                                                 *)

\* The kill switch can find every load run: while load is live, the row it looks
\* up is active and names the external run.
LoadIsAbortable == \A a \in Attempts : ext[a].phase \in LiveRun => NamesExternalRun(row[a])

\* "the API never reports success while production load is still running"
\* (abort_pipeline): a graph-only cancellation is only reported with no load.
CancelledMeansNoLoad ==
    [][ ab.answer # "cancelled" /\ ab'.answer = "cancelled" =>
          \A a \in Attempts : ext'[a].phase \notin LiveRun ]_abortVars

\* A confirmed abort is final: whatever a run still being executed, or a zombie
\* of a cancelled one, does afterwards, the load does not come back.
ConfirmedMeansStopped ==
    ab.answer = "confirmed" => ext[ab.att].phase \in TerminalStatus

=============================================================================
