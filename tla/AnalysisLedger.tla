--------------------------- MODULE AnalysisLedger ---------------------------
(***************************************************************************)
(* The reporting phase's analysis ledger.  One row per selected tool is    *)
(* submitted, polled and collected by a checkpointed node, in order; its   *)
(* result is kept through the artifact upload outbox; failures wait for    *)
(* the operator.  A connector ("gateway") creates at most one job per      *)
(* idempotency key.  Native RCA does not: it answers an equal submission   *)
(* with a live or finished job if it still has one, otherwise with a new   *)
(* one.  A reservation in the database is therefore committed before the   *)
(* one POST of a native key.                                               *)
(*                                                                         *)
(* A key is <<selection, try>>: the key of a try is derived from the one   *)
(* before, and the first from the thread, the attempt and the input.  A    *)
(* job is named by the try that created it.                                *)
(***************************************************************************)
EXTENDS Naturals, FiniteSets

CONSTANTS
    N,          \* selected tools, in ledger order
    Native,     \* those that are native RCA
    MaxTries,   \* bound on submission attempts of a selection
    Contents,   \* renderings of a job's result
    MaxFaults,  \* bound on crashes and lost database acknowledgements
    Restarts    \* callers may start runs with input on the thread themselves

Selections == 1 .. N
Tries == 1 .. MaxTries
Keys == Selections \X Tries

ASSUME AnalysisAssumption ==
    /\ N \in Nat \ {0} /\ MaxTries \in Nat \ {0}
    /\ Native \subseteq Selections
    /\ Contents # {} /\ 0 \notin Contents
    /\ MaxFaults \in Nat
    /\ Restarts \in BOOLEAN

VARIABLES
    node,       \* next node of the checkpoint
    ledger,     \* analysis_ledger of the checkpoint
    late,       \* the deadline of the current row has passed
    run,        \* whether a run executes the thread
    exec,       \* the executing analysis_step
    receipt,    \* reservations of native submissions
    inflight,   \* keys whose POST has not reached its service yet
    answer,     \* what the service did with the POST of a key
    jobOf,      \* the job it answered
    job,        \* the jobs of the services
    intent,     \* the artifact upload outbox
    object,     \* the artifact store
    reference,  \* published artifact references
    faults

checkpoint == <<node, ledger, late, run>>
serviceVars == <<inflight, answer, jobOf, job>>
uploadVars == <<intent, object, reference>>
vars == <<checkpoint, exec, receipt, serviceVars, uploadVars, faults>>

Decision == {"recovery", "gate", "human"}
Node == {"agent", "step", "report", "end"} \cup Decision
Status == {"pending", "queued", "collecting", "succeeded", "failed"}
Row == [status : Status, try : Tries, job : Tries \cup {0}, started : BOOLEAN,
        uncertain : BOOLEAN, refused : BOOLEAN, content : Contents \cup {0}]
NewRow == [status |-> "pending", try |-> 1, job |-> 0, started |-> FALSE,
           uncertain |-> FALSE, refused |-> FALSE, content |-> 0]
NoLedger == <<>>
Ledger == [Selections -> Row]

Receipt == {"none", "claimed", "received"}
Execution == [pc : {"idle", "post", "await", "record", "store", "put", "finalize", "commit"},
              content : Contents \cup {0}]
Idle == [pc |-> "idle", content |-> 0]
Intent == [state : {"none", "claimed", "stale"}, content : Contents \cup {0}]
NoIntent == [state |-> "none", content |-> 0]

Init ==
    /\ node = "agent" /\ run = "active"
    /\ ledger = NoLedger /\ late = FALSE
    /\ exec = Idle
    /\ receipt = [k \in Keys |-> "none"]
    /\ inflight = {}
    /\ answer = [k \in Keys |-> "none"]
    /\ jobOf = [k \in Keys |-> 0]
    /\ job = [k \in Keys |-> "none"]
    /\ intent = [k \in Keys |-> NoIntent]
    /\ object = [k \in Keys |-> 0]
    /\ reference = [k \in Keys |-> 0]
    /\ faults = 0

-----------------------------------------------------------------------------
\* What the nodes write into a row.
Started(row) == [row EXCEPT !.started = TRUE]
Submitted(row, j) == [row EXCEPT !.job = j, !.status = "queued"]
Polled(row) == [row EXCEPT !.status = "queued"]
Collecting(row) == [row EXCEPT !.status = "collecting"]
Succeeded(row, c) == [row EXCEPT !.status = "succeeded", !.content = c]
Failed(row) == [row EXCEPT !.status = "failed"]
Refused(row) == [row EXCEPT !.status = "failed", !.refused = TRUE]
Uncertain(row) == [row EXCEPT !.status = "failed", !.uncertain = TRUE]
Resumed(row) == [row EXCEPT !.status = "pending", !.started = FALSE]
\* Variant: the new try inherits the doubt about the old one.
DoubtfulTry(row) == [row EXCEPT !.try = @ + 1, !.job = 0, !.refused = FALSE]
NextTry(row) == [row EXCEPT !.try = @ + 1, !.job = 0, !.refused = FALSE, !.uncertain = FALSE]

AnyFailed(rows) == \E s \in Selections : rows[s].status = "failed"
AllSucceeded(rows) == \A s \in Selections : rows[s].status = "succeeded"

RouteAnalysis(rows) ==
    IF AnyFailed(rows) THEN "recovery"
    ELSE IF AllSucceeded(rows) THEN "report" ELSE "step"

\* The row that analysis_step works on, and its key.
Current(s) ==
    /\ ledger[s].status # "succeeded"
    /\ \A r \in 1 .. s - 1 : ledger[r].status = "succeeded"
Key(s) == <<s, ledger[s].try>>

Executes(s, pc) ==
    /\ run = "active" /\ node = "step" /\ Current(s)
    /\ exec.pc = pc

\* A fresh look at the row: the deadline is committed, and not over.
Works(s) == Executes(s, "idle") /\ ledger[s].started /\ ~late

\* analysis_step returns: its row, the route and the interrupt it may end in are
\* committed together, and the next execution starts from them.
Reports(rows) ==
    /\ ledger' = rows
    /\ node' = RouteAnalysis(rows)
    /\ run' = IF AnyFailed(rows) THEN "none" ELSE "active"
    /\ exec' = Idle
Returns(s, row) == Reports([ledger EXCEPT ![s] = row]) /\ UNCHANGED late

Goto(pc) == exec' = [exec EXCEPT !.pc = pc] /\ UNCHANGED checkpoint
Fault == faults < MaxFaults /\ faults' = faults + 1

-----------------------------------------------------------------------------
(* analysis_step.                                                          *)

\* prepare_analysis: a ledger is made once.
PrepareAnalysis ==
    /\ run = "active" /\ node = "agent"
    /\ Reports(IF ledger = NoLedger THEN [s \in Selections |-> NewRow] ELSE ledger)
    /\ UNCHANGED <<late, receipt, serviceVars, uploadVars, faults>>

\* The write-ahead of the deadline is an execution of its own.
StartRow(s) ==
    /\ Executes(s, "idle") /\ ~ledger[s].started
    /\ Reports([ledger EXCEPT ![s] = Started(@)])
    /\ late' = FALSE
    /\ UNCHANGED <<receipt, serviceVars, uploadVars, faults>>

Expire(s) ==
    /\ Executes(s, "idle") /\ ledger[s].started /\ late
    /\ Returns(s, Failed(ledger[s]))
    /\ UNCHANGED <<receipt, serviceVars, uploadVars, faults>>

\* Any permanent error before the submission or of a poll: the connection does not
\* resolve, capabilities, provenance, another job's answer, a changed archive.
GiveUp(s) ==
    /\ Works(s)
    /\ Returns(s, Failed(ledger[s]))
    /\ UNCHANGED <<receipt, serviceVars, uploadVars, faults>>

\* Variant: a reservation without a receipt is taken for one's own.
ClaimAgain(s) ==
    /\ Works(s) /\ s \in Native /\ ledger[s].job = 0
    /\ receipt[Key(s)] \in {"none", "claimed"}
    /\ receipt' = [receipt EXCEPT ![Key(s)] = "claimed"]
    /\ Goto("post")
    /\ UNCHANGED <<serviceVars, uploadVars, faults>>

\* claim_native_analysis: only the execution whose insert commits may POST.
Claim(s) ==
    /\ Works(s) /\ s \in Native /\ ledger[s].job = 0
    /\ receipt[Key(s)] = "none"
    /\ receipt' = [receipt EXCEPT ![Key(s)] = "claimed"]
    /\ Goto("post")
    /\ UNCHANGED <<serviceVars, uploadVars, faults>>

ClaimReceived(s) ==
    /\ Works(s) /\ s \in Native /\ ledger[s].job = 0
    /\ receipt[Key(s)] = "received"
    /\ Returns(s, Submitted(ledger[s], jobOf[Key(s)]))
    /\ UNCHANGED <<receipt, serviceVars, uploadVars, faults>>

ClaimUncertain(s) ==
    /\ Works(s) /\ s \in Native /\ ledger[s].job = 0
    /\ receipt[Key(s)] = "claimed"
    /\ Returns(s, Uncertain(ledger[s]))
    /\ UNCHANGED <<receipt, serviceVars, uploadVars, faults>>

\* The database fails the claim, which may have been committed.
ClaimFails(s) ==
    /\ Works(s) /\ s \in Native /\ ledger[s].job = 0
    /\ Fault
    /\ \/ UNCHANGED receipt
       \/ /\ receipt[Key(s)] = "none"
          /\ receipt' = [receipt EXCEPT ![Key(s)] = "claimed"]
    /\ Returns(s, Failed(ledger[s]))
    /\ UNCHANGED <<serviceVars, uploadVars>>

\* submit_native_analysis, after its read of the test; the connector's submit.
Post(s) ==
    /\ \/ Executes(s, "post")
       \/ Works(s) /\ s \notin Native /\ ledger[s].job = 0
    /\ inflight' = inflight \cup {Key(s)}
    /\ Goto("await")
    /\ UNCHANGED <<receipt, answer, jobOf, job, uploadVars, faults>>

\* Any error of submit_native_analysis leaves its outcome open, whether or not the
\* POST was sent, arrives or was rejected.
PostUncertain(s) ==
    /\ Executes(s, "post") \/ (Executes(s, "await") /\ s \in Native)
    /\ Returns(s, Uncertain(ledger[s]))
    /\ UNCHANGED <<receipt, serviceVars, uploadVars, faults>>

\* The connector's answer is lost (transient: submitted again) or an error.
SubmitLost(s) ==
    /\ Executes(s, "await") /\ s \notin Native
    /\ \/ Returns(s, ledger[s])
       \/ Returns(s, Failed(ledger[s]))
    /\ UNCHANGED <<receipt, serviceVars, uploadVars, faults>>

Answered(s) ==
    /\ Executes(s, "await")
    /\ Key(s) \notin inflight /\ answer[Key(s)] = "created"
    /\ IF s \in Native THEN Goto("record")
       ELSE Returns(s, Submitted(ledger[s], jobOf[Key(s)]))
    /\ UNCHANGED <<receipt, serviceVars, uploadVars, faults>>

\* record_native_analysis_receipt.
Record(s) ==
    /\ Executes(s, "record")
    /\ receipt' = [receipt EXCEPT ![Key(s)] = "received"]
    /\ Returns(s, Submitted(ledger[s], jobOf[Key(s)]))
    /\ UNCHANGED <<serviceVars, uploadVars, faults>>

\* A receipt that cannot be stored: the row keeps the job, and fails.
RecordFails(s) ==
    /\ Executes(s, "record")
    /\ Fault
    /\ \/ UNCHANGED receipt
       \/ receipt' = [receipt EXCEPT ![Key(s)] = "received"]
    /\ Returns(s, Failed(Submitted(ledger[s], jobOf[Key(s)])))
    /\ UNCHANGED <<serviceVars, uploadVars>>

-----------------------------------------------------------------------------
\* A poll of a known job: still live, or ended without a result.  A transient
\* error of a poll changes nothing the row is decided by.
Poll(s) ==
    /\ Works(s) /\ ledger[s].job # 0
    /\ job[<<s, ledger[s].job>>] = "live"
    /\ Returns(s, Polled(ledger[s]))
    /\ UNCHANGED <<receipt, serviceVars, uploadVars, faults>>

PollRefused(s) ==
    /\ Works(s) /\ ledger[s].job # 0
    /\ job[<<s, ledger[s].job>>] = "failed"
    /\ Returns(s, Refused(ledger[s]))
    /\ UNCHANGED <<receipt, serviceVars, uploadVars, faults>>

\* A finished job's result is read, in one of its renderings; a transient error
\* leaves the row collecting.
Collect(s) ==
    /\ Works(s) /\ ledger[s].job # 0
    /\ job[<<s, ledger[s].job>>] = "done"
    /\ \/ /\ \E c \in Contents : exec' = [pc |-> "store", content |-> c]
          /\ UNCHANGED checkpoint
       \/ Returns(s, Collecting(ledger[s]))
    /\ UNCHANGED <<receipt, serviceVars, uploadVars, faults>>

\* Variant: a published artifact of the key is the result whatever it holds.
StageAnyFinished(s) ==
    /\ Executes(s, "store")
    /\ reference[Key(s)] # 0
    /\ Goto("commit")
    /\ UNCHANGED <<receipt, serviceVars, uploadVars, faults>>

\* reserve_artifact_upload: a published equal artifact is the result; an unequal
\* one, and any pending upload of the key, fail the row.
StageFinished(s) ==
    /\ Executes(s, "store")
    /\ reference[Key(s)] = exec.content
    /\ Goto("commit")
    /\ UNCHANGED <<receipt, serviceVars, uploadVars, faults>>

StageConflict(s) ==
    /\ Executes(s, "store")
    /\ \/ reference[Key(s)] \notin {0, exec.content}
       \/ reference[Key(s)] = 0 /\ intent[Key(s)].state # "none"
    /\ Returns(s, Failed(ledger[s]))
    /\ UNCHANGED <<receipt, serviceVars, uploadVars, faults>>

Stage(s) ==
    /\ Executes(s, "store")
    /\ reference[Key(s)] = 0 /\ intent[Key(s)].state = "none"
    /\ intent' = [intent EXCEPT ![Key(s)] = [state |-> "claimed", content |-> exec.content]]
    /\ Goto("put")
    /\ UNCHANGED <<receipt, serviceVars, object, reference, faults>>

Put(s) ==
    /\ Executes(s, "put")
    /\ object' = [object EXCEPT ![Key(s)] = exec.content]
    /\ Goto("finalize")
    /\ UNCHANGED <<receipt, serviceVars, intent, reference, faults>>

\* finalize_artifact_upload: the intent becomes the reference, unless the
\* reconciler was first.
Publish(k, c) ==
    /\ reference' = [reference EXCEPT ![k] = c]
    /\ intent' = [intent EXCEPT ![k] = NoIntent]
    /\ UNCHANGED object

Finalize(s) ==
    /\ Executes(s, "finalize")
    /\ Publish(Key(s), exec.content)
    /\ Goto("commit")
    /\ UNCHANGED <<receipt, serviceVars, faults>>

Keep(s) ==
    /\ Executes(s, "commit")
    /\ Returns(s, Succeeded(ledger[s], exec.content))
    /\ UNCHANGED <<receipt, serviceVars, uploadVars, faults>>

\* Any error of the store or of the outbox, before or after its effect, fails the
\* row or leaves it collecting.
StoreFails(s) ==
    /\ \E pc \in {"store", "put", "finalize", "commit"} : Executes(s, pc)
    /\ \/ Returns(s, Failed(ledger[s]))
       \/ Returns(s, Collecting(ledger[s]))
    /\ UNCHANGED <<receipt, serviceVars, uploadVars, faults>>

-----------------------------------------------------------------------------
(* The services, the outbox reconciler and time.                           *)

\* A service takes a POST, maybe long after its sender has gone.
Arrive(k) ==
    /\ k \in inflight
    /\ inflight' = inflight \ {k}
    /\ \/ /\ jobOf[k] = 0
          /\ answer' = [answer EXCEPT ![k] = "rejected"]
          /\ UNCHANGED <<jobOf, job>>
       \/ /\ jobOf[k] = 0
          /\ answer' = [answer EXCEPT ![k] = "created"]
          /\ jobOf' = [jobOf EXCEPT ![k] = k[2]]
          /\ job' = [job EXCEPT ![k] = "live"]
       \/ \E t \in Tries :
          /\ IF k[1] \in Native THEN job[<<k[1], t>>] \in {"live", "done"} ELSE t = jobOf[k]
          /\ answer' = [answer EXCEPT ![k] = "created"]
          /\ jobOf' = [jobOf EXCEPT ![k] = t]
          /\ UNCHANGED job
    /\ UNCHANGED <<checkpoint, exec, receipt, uploadVars, faults>>

JobEnds(k) ==
    /\ job[k] = "live"
    /\ \E e \in {"done", "failed"} : job' = [job EXCEPT ![k] = e]
    /\ UNCHANGED <<checkpoint, exec, receipt, inflight, answer, jobOf, uploadVars, faults>>

\* An upload whose claim is old is replayed from its intent by the reconciler.
ClaimLapses(k) ==
    /\ intent[k].state = "claimed"
    /\ intent' = [intent EXCEPT ![k].state = "stale"]
    /\ UNCHANGED <<checkpoint, exec, receipt, serviceVars, object, reference, faults>>

ReplayPut(k) ==
    /\ intent[k].state = "stale"
    /\ object' = [object EXCEPT ![k] = intent[k].content]
    /\ UNCHANGED <<checkpoint, exec, receipt, serviceVars, intent, reference, faults>>

ReplayFinish(k) ==
    /\ intent[k].state = "stale" /\ object[k] = intent[k].content
    /\ Publish(k, intent[k].content)
    /\ UNCHANGED <<checkpoint, exec, receipt, serviceVars, faults>>

\* Variant: the deadline bounds the submission only.
SubmissionDeadlinePasses ==
    /\ node = "step" /\ ~late
    /\ \E s \in Selections : Current(s) /\ ledger[s].started /\ ledger[s].job = 0
    /\ late' = TRUE
    /\ UNCHANGED <<node, ledger, run, exec, receipt, serviceVars, uploadVars, faults>>

\* timeout_s after started_at.
DeadlinePasses ==
    /\ node = "step" /\ ~late
    /\ \E s \in Selections : Current(s) /\ ledger[s].started
    /\ late' = TRUE
    /\ UNCHANGED <<node, ledger, run, exec, receipt, serviceVars, uploadVars, faults>>

-----------------------------------------------------------------------------
(* The report, the operator and the runs of the thread.                    *)

Moves(n) ==
    /\ node' = n
    /\ run' = IF n \in Decision \cup {"end"} THEN "none" ELSE "active"
    /\ UNCHANGED <<late, exec, receipt, serviceVars, uploadVars, faults>>

\* report_agent: the report is assembled, or fails into the recovery.
Report ==
    /\ run = "active" /\ node = "report"
    /\ Moves("gate") \/ Moves("recovery")
    /\ UNCHANGED ledger

\* analysis_recovery: the first failed row, or the report, is retried; the phase is
\* handed to a human or aborted.
FirstFailed(s) ==
    /\ ledger[s].status = "failed"
    /\ \A r \in 1 .. s - 1 : ledger[r].status # "failed"

\* Variant: a retry always submits anew.
RetryAnew(s) ==
    /\ node = "recovery" /\ FirstFailed(s) /\ ledger[s].try < MaxTries
    /\ ledger' = [ledger EXCEPT ![s] = Resumed(NextTry(@))]
    /\ Moves("step")

RetryRow(s) ==
    /\ node = "recovery" /\ FirstFailed(s)
    /\ IF ledger[s].refused \/ ledger[s].uncertain
       THEN /\ ledger[s].try < MaxTries
            /\ ledger' = [ledger EXCEPT ![s] = Resumed(NextTry(@))]
       ELSE ledger' = [ledger EXCEPT ![s] = Resumed(@)]
    /\ Moves("step")

RetryReport ==
    /\ node = "recovery" /\ ~AnyFailed(ledger)
    /\ Moves("report")
    /\ UNCHANGED ledger

AssignHuman ==
    /\ node = "recovery"
    /\ Moves("human")
    /\ UNCHANGED ledger

\* abort; approve or abort at the gate; complete or abort of the human task.
Finish ==
    /\ node \in Decision
    /\ Moves("end")
    /\ UNCHANGED ledger

\* revise: back to prepare_analysis, which keeps the ledger.
Revise ==
    /\ node = "gate"
    /\ Moves("agent")
    /\ UNCHANGED ledger

\* The run ends without its checkpoint: a crash or the cancellation of the run.
Crash ==
    /\ run = "active"
    /\ Fault
    /\ run' = "none" /\ exec' = Idle
    /\ UNCHANGED <<node, ledger, late, receipt, serviceVars, uploadVars>>

Continue ==
    /\ run = "none" /\ node \notin Decision \cup {"end"}
    /\ run' = "active"
    /\ UNCHANGED <<node, ledger, late, exec, receipt, serviceVars, uploadVars, faults>>

\* A run with input on the unfinished attempt starts the phase anew, with the keys
\* it had.
Restart ==
    /\ Restarts /\ run = "none" /\ node # "end"
    /\ run' = "active" /\ node' = "agent"
    /\ ledger' = NoLedger /\ late' = FALSE
    /\ UNCHANGED <<exec, receipt, serviceVars, uploadVars, faults>>

-----------------------------------------------------------------------------
\* What an execution does that is not an error of its environment.
Advances(s) ==
    \/ StartRow(s) \/ Expire(s) \/ Claim(s) \/ ClaimReceived(s) \/ ClaimUncertain(s)
    \/ Post(s) \/ Answered(s) \/ Record(s) \/ Poll(s) \/ PollRefused(s) \/ Collect(s)
    \/ StageFinished(s) \/ StageConflict(s) \/ Stage(s) \/ Put(s) \/ Finalize(s) \/ Keep(s)

\* What it does when its environment fails it.
Stumbles(s) ==
    \/ GiveUp(s) \/ ClaimFails(s) \/ PostUncertain(s) \/ SubmitLost(s) \/ RecordFails(s)
    \/ StoreFails(s)

Services(k) == Arrive(k) \/ JobEnds(k) \/ ClaimLapses(k) \/ ReplayPut(k) \/ ReplayFinish(k)

Decides ==
    \/ \E s \in Selections : RetryRow(s)
    \/ RetryReport \/ AssignHuman \/ Finish \/ Revise

Next ==
    \/ PrepareAnalysis \/ Report \/ DeadlinePasses
    \/ \E s \in Selections : Advances(s) \/ Stumbles(s)
    \/ \E k \in Keys : Services(k)
    \/ Decides \/ Crash \/ Continue \/ Restart

Spec == Init /\ [][Next]_vars

\* An execution goes on, a request is answered or times out and time passes.
\* Nothing is assumed of the jobs, the services, the store or the operator.
Fairness ==
    /\ WF_vars(PrepareAnalysis \/ Report \/ \E s \in Selections : Advances(s))
    /\ WF_vars(\E s \in Selections : PostUncertain(s) \/ SubmitLost(s))
    /\ WF_vars(DeadlinePasses)

FairSpec == Spec /\ Fairness

-----------------------------------------------------------------------------
\* Types of the ledger, the reservations, the services and the outbox; only a row
\* that knows its job is past pending, and an unconfirmed submission is failed and
\* knows none, whatever the operator retried.
AnalysisTypeOK ==
    /\ node \in Node /\ run \in {"active", "none"} /\ late \in BOOLEAN
    /\ ledger \in Ledger \cup {NoLedger}
    /\ node # "agent" => ledger # NoLedger
    /\ exec \in Execution
    /\ receipt \in [Keys -> Receipt]
    /\ inflight \in SUBSET Keys
    /\ answer \in [Keys -> {"none", "created", "rejected"}]
    /\ jobOf \in [Keys -> Tries \cup {0}]
    /\ job \in [Keys -> {"none", "live", "done", "failed"}]
    /\ intent \in [Keys -> Intent]
    /\ object \in [Keys -> Contents \cup {0}]
    /\ reference \in [Keys -> Contents \cup {0}]
    /\ faults \in Nat
    /\ ledger # NoLedger => \A s \in Selections :
           /\ ledger[s].status \in {"queued", "collecting", "succeeded"} => ledger[s].job # 0
           /\ ledger[s].uncertain => ledger[s].status = "failed" /\ ledger[s].job = 0

\* A selection has at most one job that is live or has a result, besides the native
\* jobs whose receipt was never stored: across lost answers, crashes, restarts and
\* retries no analysis is paid for twice unless the operator accepted the doubt.
Counted(s) ==
    {t \in Tries : /\ job[<<s, t>>] \in {"live", "done"}
                   /\ s \in Native => receipt[<<s, t>>] = "received"}
JobsAccounted == \A s \in Selections : Cardinality(Counted(s)) <= 1

\* What the report is assembled from, and the operator approves, is the published
\* result of a finished job of every selected tool, byte for byte what the row
\* recorded.
ReportIsGrounded ==
    node \in {"report", "gate"} =>
        \A s \in Selections :
            /\ ledger[s].status = "succeeded"
            /\ job[<<s, ledger[s].job>>] = "done"
            /\ ledger[s].content \in Contents
            /\ reference[Key(s)] = ledger[s].content
            /\ object[Key(s)] = ledger[s].content

\* A native submission keeps the promise of DispatchOnce: it is sent at most once
\* in the life of its key and a receipt is stored only of a job that was created.
NativeKeys == Native \X Tries
Effect(k) == IF k \in inflight THEN "sent" ELSE answer[k]
Outcome(k) == IF receipt[k] = "received" THEN "completed" ELSE "open"
Contract == INSTANCE DispatchOnce WITH
    Keys <- NativeKeys,
    effect <- [k \in NativeKeys |-> Effect(k)],
    outcome <- [k \in NativeKeys |-> Outcome(k)]
NativeSubmitsOnce == Contract!Spec

\* Every run ends, in a decision of the operator or in a lost run: a tool that never
\* answers, a job that never ends and a store that never keeps cannot hold it.
AnalysisRunEnds == run = "active" ~> run = "none"
=============================================================================
