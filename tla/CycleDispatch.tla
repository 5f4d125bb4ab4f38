---------------------------- MODULE CycleDispatch ----------------------------
(***************************************************************************)
(* The dispatch of one approved cycle preparation (routers/cycle_dispatch  *)
(* .py, services/cycle_dispatch.py) into the pipeline whose execution phase*)
(* EngineSpine models.  The dispatch row is the launch intent and owns the *)
(* environment.  Requests insert or resume the intent, and launch its one  *)
(* root run under the launch lock; readers copy the progress of the engine *)
(* row into the dispatch row, and thereby give the environment up; the     *)
(* execution phase asks the intent for permission before it reserves,      *)
(* provisions and starts.                                                  *)
(***************************************************************************)
EXTENDS EngineSpine

CONSTANTS Requests,       \* concurrent POSTs of the same dispatch
          Readers         \* concurrent workspace reads, each with its sync

ASSUME DispatchAssumption == Nobody \notin Requests

VARIABLES dispatch,  \* the cycle_execution_dispatches row
          roots,     \* root runs created on the dispatch's thread
          forfeited, \* history: was the environment given up over an active engine
                     \* row, by a reader that had met none?
          valid,     \* do the approvals and bindings of the preparation hold?
          lock,      \* the request in the thread's launch lock, or Nobody
          rq,        \* rq[q]: where request q is
          rd,        \* rd[r]: where reader r is, and what it read
          checked    \* checked[i]: worker i's call passed the binding check

intentVars == <<dispatch, roots, forfeited, valid>>
dispatchVars == <<engineVars, intentVars, lock, rq, rd, checked>>

Launching == {"reserved", "uncertain"}
\* TERMINAL_DISPATCH holds the engine's own terminal statuses.
DispatchStatus == Launching \cup TerminalStatus \cup {"submitted", "running", "cleanup_pending"}

\* env, thread, canceled: active_environment_id, thread_id, canceled_by are set.
NoDispatch == [status |-> "absent", env |-> FALSE, thread |-> FALSE, canceled |-> FALSE]

\* Types of the intent, of the requests and readers and of the binding check.
DispatchTypeOK ==
    /\ EngineTypeOK
    /\ dispatch \in [status : DispatchStatus \cup {"absent"}, env : BOOLEAN,
                     thread : BOOLEAN, canceled : BOOLEAN]
    /\ roots \in Nat
    /\ {forfeited, valid} \subseteq BOOLEAN
    /\ lock \in Requests \cup {Nobody}
    /\ rq \in [Requests -> {"idle", "launch", "bind", "create", "record", "failed"}]
    /\ rd \in [Readers -> [pc : {"idle", "view", "sync"},
                           seen : DispatchStatus, verdict : DispatchStatus,
                           missed : BOOLEAN]]   \* there was no engine row
    /\ checked \in [Workers -> BOOLEAN]

Reading(pc, seen, verdict, missed) ==
    [pc |-> pc, seen |-> seen, verdict |-> verdict, missed |-> missed]
NotReading == Reading("idle", "reserved", "reserved", FALSE)

DispatchInit ==
    /\ Untouched /\ run = "none"
    /\ dispatch = NoDispatch /\ roots = 0 /\ forfeited = FALSE
    /\ valid = TRUE /\ lock = Nobody
    /\ rq = [q \in Requests |-> "idle"]
    /\ rd = [r \in Readers |-> NotReading]
    /\ checked = [i \in Workers |-> FALSE]

-----------------------------------------------------------------------------
(* The statements against the dispatch row: each is a compare-and-set on   *)
(* the status, and a row it does not match stays as it is.                 *)

\* The insert of dispatch: the intent owns the environment from here on.
Reserved == [NoDispatch EXCEPT !.status = "reserved", !.env = TRUE]

\* Variant: the callback binds whatever the intent has become.
AlwaysBindable(d) == TRUE

\* bind_thread, the callback before the root run is created.
Bindable(d) == d.status \in Launching

\* Variant: the acknowledgement overwrites the status.
SubmittedAnyway(d) == [d EXCEPT !.status = "submitted", !.thread = TRUE]

\* The launch was acknowledged, or ended in an exception.
Submitted(d) ==
    IF d.status \in Launching
    THEN [d EXCEPT !.status = "submitted", !.thread = TRUE] ELSE d
Uncertain(d) == IF d.status \in Launching THEN [d EXCEPT !.status = "uncertain"] ELSE d

\* cancel_dispatch: only an intent no thread was bound to.
Cancellable(d) == d.status \in Launching /\ ~d.thread
Cancelled(d) == [d EXCEPT !.status = "aborted", !.env = FALSE, !.canceled = TRUE]

\* sync_dispatch's update: a terminal status gives the environment up.
Synced(d, seen, verdict) ==
    IF d.status # seen THEN d
    ELSE [d EXCEPT !.status = verdict, !.env = @ /\ verdict \notin TerminalStatus]

\* Variant: only a completion witness ends the dispatch.
WitnessedVerdict(r, seen) ==
    CASE r.status \in TerminalStatus /\ r.kind # "none"        -> r.status
      [] r.status = "running"                                  -> "running"
      [] r.status \in {"collecting"} \cup TerminalStatus       -> "cleanup_pending"
      [] r.status \in {"ready", "provisioning"}                -> "submitted"
      [] OTHER                                                 -> seen

\* What sync_dispatch concludes from the engine row of attempt 1.  A terminal row
\* counts with its witness, or when it names no provider run.
EngineVerdict(r, seen) ==
    CASE r.status \in TerminalStatus /\ r.kind # "none"        -> r.status
      [] r.status \in {"failed", "aborted"} /\ ~r.handle       -> r.status
      [] r.status = "running"                                  -> "running"
      [] r.status \in {"collecting"} \cup TerminalStatus       -> "cleanup_pending"
      [] r.status \in {"ready", "provisioning"}                -> "submitted"
      [] OTHER                                                 -> seen

\* What it concludes from the thread when there is no engine row: the finished
\* phase's failure, or a thread whose run ended with an error.
ViewVerdict(seen) ==
    CASE roots = 0 \/ run = "active" \/ ck.node \in InterruptNode     -> seen
      [] ck.node = "end" -> IF ck.status \in {"failed", "aborted"} THEN ck.status ELSE seen
      [] OTHER           -> "failed"

-----------------------------------------------------------------------------
(* Requests: POST dispatch inserts or resumes the intent, and launches.    *)

Goes(q, pc) == rq' = [rq EXCEPT ![q] = pc]
Unlocks(q) == lock' = IF lock = q THEN Nobody ELSE lock
EngineIdle == UNCHANGED <<engineVars, checked>>

\* A new intent, where nothing blocks it; another preparation cannot take the
\* environment before it is given up (unique active_environment_id).
Intend(q) ==
    /\ rq[q] = "idle" /\ dispatch.status = "absent" /\ valid
    /\ dispatch' = Reserved /\ Goes(q, "launch")
    /\ UNCHANGED <<roots, forfeited, valid, lock, rd>> /\ EngineIdle

\* Resume the same intent: with a bound thread even when the checks changed.
Resume(q) ==
    /\ rq[q] = "idle" /\ dispatch.status \in Launching
    /\ valid \/ dispatch.thread
    /\ Goes(q, "launch")
    /\ UNCHANGED <<intentVars, lock, rd>> /\ EngineIdle

\* Variant: launch without looking for the root run.
LaunchAgain(q) ==
    /\ rq[q] = "launch" /\ lock = Nobody
    /\ lock' = q /\ Goes(q, "bind")
    /\ UNCHANGED <<intentVars, rd>> /\ EngineIdle

\* start_run under the launch lock, _find_launch_root_run: adopt the root run of
\* this intent, or go on to create it.
FindRoot(q) ==
    /\ rq[q] = "launch" /\ lock = Nobody
    /\ IF roots > 0 THEN Goes(q, "record") /\ UNCHANGED lock
                    ELSE Goes(q, "bind") /\ lock' = q
    /\ UNCHANGED <<intentVars, rd>> /\ EngineIdle

\* before_run_start commits before runs.create, or fails the launch.
BindThread(q) ==
    /\ rq[q] = "bind"
    /\ IF Bindable(dispatch)
       THEN dispatch' = [dispatch EXCEPT !.thread = TRUE] /\ Goes(q, "create") /\ UNCHANGED lock
       ELSE Goes(q, "failed") /\ Unlocks(q) /\ UNCHANGED dispatch
    /\ UNCHANGED <<roots, forfeited, valid, rd>> /\ EngineIdle

\* The root run: plan_resolver seeds the thread's execution phase.
Launches ==
    /\ roots' = roots + 1 /\ run' = "active"
    /\ ck' = IF roots = 0 THEN ck ELSE PlanResolver(ck)
    /\ UNCHANGED <<owner, wk, outside>>

\* runs.create; an error leaves open whether the run was created.
CreateRun(q) ==
    /\ rq[q] = "create" /\ run = "none"
    /\ \/ Calm /\ Launches /\ Goes(q, "record")
       \/ Fault /\ Goes(q, "failed")
          /\ \/ Launches
             \/ UNCHANGED <<roots, ck, worker, outside>>
    /\ Unlocks(q)
    /\ UNCHANGED <<dispatch, forfeited, valid, rd, checked>>

\* The acknowledgement is recorded: status submitted, with its run.
RecordLaunch(q) ==
    /\ rq[q] = "record"
    /\ dispatch' = Submitted(dispatch) /\ Goes(q, "idle")
    /\ UNCHANGED <<roots, forfeited, valid, lock, rd>> /\ EngineIdle

\* Any exception, the 45 s deadline included: the intent becomes uncertain.
GiveUpLaunch(q) ==
    /\ rq[q] \in {"launch", "bind", "create", "failed"}
    /\ dispatch' = Uncertain(dispatch) /\ Goes(q, "idle") /\ Unlocks(q)
    /\ UNCHANGED <<roots, forfeited, valid, rd>> /\ EngineIdle

\* The process that serves the request dies.
CrashRequest(q) ==
    /\ rq[q] # "idle" /\ Fault
    /\ Goes(q, "idle") /\ Unlocks(q)
    /\ UNCHANGED <<intentVars, rd, checked, ck, worker, outside>>

\* POST cancel, one statement.
Cancel ==
    /\ Cancellable(dispatch)
    /\ dispatch' = Cancelled(dispatch)
    /\ UNCHANGED <<roots, forfeited, valid, lock, rq, rd>> /\ EngineIdle

\* An approval is superseded, a validation expires, the author loses access.
Revoke ==
    /\ valid /\ valid' = FALSE
    /\ UNCHANGED <<dispatch, roots, forfeited, lock, rq, rd>> /\ EngineIdle

-----------------------------------------------------------------------------
(* Readers: sync_dispatch, which every read of the workspace of this or of *)
(* another preparation of the environment runs.                            *)

Reads(r, next) == rd' = [rd EXCEPT ![r] = next]
Compares(seen, verdict, missed) ==
    IF verdict = seen THEN NotReading ELSE Reading("sync", seen, verdict, missed)

\* Read the dispatch row and the engine row; without one the thread is asked.
ReadRows(r) ==
    /\ rd[r].pc = "idle"
    /\ dispatch.thread /\ dispatch.status \notin TerminalStatus
    /\ LET seen == dispatch.status
       IN  Reads(r, IF row[1].status = "absent"
                    THEN Reading("view", seen, seen, TRUE)
                    ELSE Compares(seen, EngineVerdict(row[1], seen), FALSE))
    /\ UNCHANGED <<intentVars, lock, rq>> /\ EngineIdle

\* get_pipeline, an HTTP call later.
ReadThread(r) ==
    /\ rd[r].pc = "view"
    /\ LET seen == rd[r].seen
       IN  Reads(r, Compares(seen, ViewVerdict(seen), TRUE))
    /\ UNCHANGED <<intentVars, lock, rq>> /\ EngineIdle

\* The engine row was inserted after the reader missed it, and is active.
Overtaken(r) == rd[r].missed /\ row[1].status \in ActiveStatus

\* The update, after the read of the engine row or of the thread.  It compares the
\* dispatch status only: an engine row inserted since goes unnoticed.
Sync(r) ==
    /\ rd[r].pc = "sync"
    /\ dispatch' = Synced(dispatch, rd[r].seen, rd[r].verdict)
    /\ forfeited' = (forfeited \/ (dispatch.env /\ ~dispatch'.env /\ Overtaken(r)))
    /\ Reads(r, NotReading)
    /\ UNCHANGED <<roots, valid, lock, rq>> /\ EngineIdle

-----------------------------------------------------------------------------
(* The execution phase, bound to the intent.                               *)

Calls == {"provision.call", "start.call"}

\* Variant: the binding no longer looks at the environment.
UnownedBindingHolds(c) == dispatch.thread /\ valid /\ c.attempt = 1

\* load_dispatch_binding: the intent names this thread, still owns its environment
\* and is still approved, and this is the first attempt.
BindingHolds(c) == dispatch.thread /\ dispatch.env /\ valid /\ c.attempt = 1

\* A worker asks right before the provider call, not in one step with it.
CheckBinding(i) ==
    /\ wk[i].pc \in Calls /\ ~checked[i] /\ BindingHolds(wk[i].ck)
    /\ checked' = [checked EXCEPT ![i] = TRUE]
    /\ UNCHANGED <<engineVars, intentVars, lock, rq, rd>>

\* A refusal is an error like any other: provision tries again, start kills.
RefuseCall(i) ==
    /\ wk[i].pc \in Calls /\ ~checked[i] /\ ~BindingHolds(wk[i].ck)
    /\ Return(i, IF wk[i].pc = "start.call"
                 THEN EnterCleanup(wk[i].ck) ELSE RetryProvision(wk[i].ck))
    /\ UNCHANGED <<outside, faults, intentVars, lock, rq, rd, checked>>

\* A step of the spine as a dispatched run takes it: engine_reserve refuses an
\* invalid binding, a provider call was checked, a rerun is refused, and the
\* engine (APEX Load) returns no start handle that would have to be compensated.
Dispatched(Step) ==
    /\ Step
    /\ ck.node = "reserve" /\ ck'.node = "provision" => BindingHolds(ck)
    /\ \A i \in Workers :
         wk[i].pc \in Calls /\ wk'[i].pc \notin {wk[i].pc, "idle"} => checked[i]
    /\ \A i \in Workers : wk'[i].pc # "start.reject"
    /\ ck'.attempt = ck.attempt
    /\ roots > 0
    /\ checked' = [i \in Workers |-> checked[i] /\ wk'[i] = wk[i]]
    /\ UNCHANGED <<intentVars, lock, rq, rd>>

EngineStep == Dispatched(EngineNext)

DispatchNext ==
    \/ EngineStep
    \/ \E i \in Workers : CheckBinding(i) \/ RefuseCall(i)
    \/ \E q \in Requests :
         \/ Intend(q) \/ Resume(q) \/ FindRoot(q) \/ BindThread(q) \/ CreateRun(q)
         \/ RecordLaunch(q) \/ GiveUpLaunch(q) \/ CrashRequest(q)
    \/ \E r \in Readers : ReadRows(r) \/ ReadThread(r) \/ Sync(r)
    \/ Cancel \/ Revoke

DispatchSpec == DispatchInit /\ [][DispatchNext]_dispatchVars

\* As in EngineSpine, with the binding checks among a worker's steps; and people
\* keep looking at the workspace.  Nobody need resume or cancel a launch.
DispatchFairness ==
    /\ WF_dispatchVars(Dispatched(NodeStep)) /\ WF_dispatchVars(Dispatched(PollTimeout))
    /\ \A i \in Workers :
         WF_dispatchVars(Dispatched(WorkerStep(i)) \/ CheckBinding(i) \/ RefuseCall(i))
    /\ WF_dispatchVars(Dispatched(ResumeBlocked)) /\ WF_dispatchVars(Dispatched(Continue))
    /\ \A a \in Attempts : WF_dispatchVars(Dispatched(ProviderStops(a)))
    /\ \A r \in Readers : WF_dispatchVars(ReadRows(r) \/ ReadThread(r) \/ Sync(r))

FairDispatchSpec == DispatchSpec /\ DispatchFairness

-----------------------------------------------------------------------------
(* Properties.                                                             *)

\* However often an intent is resumed and its answers are lost, it has at most one
\* root run, and none once it is cancelled: "Winning this CAS makes that callback
\* fail, proving no native run can start for this intent" (cancel_dispatch).
IntentLaunchesOnce == roots <= (IF dispatch.canceled THEN 0 ELSE 1)

\* A dispatch that ended stays ended: no late acknowledgement, exception or sync
\* revives it, and the environment it gave up is not taken back.
DispatchEndsOnce ==
    [][ dispatch.status \in TerminalStatus => dispatch'.status = dispatch.status
                                              /\ dispatch'.env = FALSE ]_dispatchVars

\* "Ownership is released only after cancellation before pipeline binding, a
\* recorded pre-provider failure, or terminal execution with confirmed cleanup"
\* (docs/qa/cycle-followups-2026-10-17.md): the composition keeps the lease, but for
\* the one race the code leaves open.  A sync that met no engine row and the thread's
\* error gives the environment up even when a continued run has inserted the row since.
Lease ==
    INSTANCE EnvironmentLease
    WITH owned <- CASE dispatch.status = "absent" -> "no"
                    [] dispatch.env               -> "yes"
                    [] forfeited                   -> "forfeited"
                    [] OTHER                      -> "given_up",
         load  <- Load(ext[1].phase)

ImplementsEnvironmentLease == Lease!LeaseSpec

\* A launched dispatch gives its environment up in the end, as long as its approvals
\* hold and its engine connection stays enabled and where it was: by settlement, by a
\* confirmed kill, or by a failure recorded before anything was created.
LaunchReleasesEnvironment ==
    roots > 0 ~> ~dispatch.env \/ ~valid \/ ~conn.enabled \/ Moved

\* "The graph validates current durable authority before every provider effect and
\* records a terminal refusal on mismatch" (auth/handlers.py): a launch whose
\* approval is gone before its load started ends, and gives the environment up.
RefusalReleasesEnvironment ==
    dispatch.env /\ dispatch.thread /\ roots > 0 /\ ~valid /\ ext[1].phase = "none"
      ~> ~dispatch.env
=============================================================================
