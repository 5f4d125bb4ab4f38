-------------------------- MODULE WorkItemMutation --------------------------
(***************************************************************************)
(* The outbox of external work-item writes.  A request reserves a row      *)
(* under its idempotency key; an execution (of the request itself or of    *)
(* the reconciler) claims the row under a fresh token and a lease, calls   *)
(* the tracker and settles the row.  POSTs are not idempotent: a durable   *)
(* attempt record is committed before the one POST of a key, and an        *)
(* unanswered POST is only ever resolved by finding its marker, which the  *)
(* tracker's search shows late.                                            *)
(*                                                                         *)
(* A key of Creates is a create; a key of Enriches updates the fields      *)
(* and/or adds a comment to one common item.  An execution is named by its *)
(* worker, which is also its claim token.                                  *)
(***************************************************************************)
EXTENDS ConnectionRow

CONSTANTS
    Callers,        \* executions of HTTP requests
    Reconcilers,    \* executions of the background reconciler
    Nobody,
    Creates,
    Enriches,
    MaxVersion,     \* bound on connection generations
    MaxFaults       \* bound on interruptions, crashes and lost leases

Workers == Callers \cup Reconcilers
Keys == Creates \cup Enriches

ASSUME MutationAssumption ==
    /\ Nobody \notin Workers \cup Keys
    /\ Creates \cap Enriches = {}
    /\ MaxVersion \in Nat
    /\ MaxFaults \in Nat

VARIABLES
    mutation,    \* one row per key
    tombstone,   \* the outcome of a retired key
    connection,  \* the work-tracking connection
    exec,        \* the executions
    posted,      \* number of POSTs issued per key
    inflight,    \* keys whose POST has not reached the tracker yet
    answer,      \* what the tracker did with the POST of a key
    visible,     \* keys whose item or comment a search finds
    wrote,       \* enrichments whose fields were written at least once
    told,        \* definite outcomes that callers were given
    faults

rowVars == <<mutation, tombstone>>
trackerVars == <<posted, inflight, answer, visible, wrote>>
vars == <<mutation, tombstone, connection, exec, posted, inflight, answer,
          visible, wrote, told, faults>>

Terminal == {"completed", "failed"}
Live == {"pending", "running"}
StepStatus == {"pending", "completed", "skipped"}
Row == [status : {"absent"} \cup Live \cup Terminal, owner : Workers \cup {Nobody},
        lease : BOOLEAN, due : BOOLEAN, attempted : BOOLEAN,
        fields : StepStatus, comment : StepStatus, version : Nat]

NoRow == [status |-> "absent", owner |-> Nobody, lease |-> FALSE, due |-> FALSE,
          attempted |-> FALSE, fields |-> "skipped", comment |-> "skipped",
          version |-> 0]

\* The steps run under the heartbeat; an exception in them releases the row.
Operating == {"find", "fields", "stepFields", "marker", "mark", "post", "await",
              "stepComment", "read", "complete"}
Execution == [pc : Operating \cup {"idle", "claim", "fail", "release"},
              key : Keys \cup {Nobody}, attempted : BOOLEAN]
Idle == [pc |-> "idle", key |-> Nobody, attempted |-> FALSE]

Init ==
    /\ mutation = [k \in Keys |-> NoRow]
    /\ tombstone = [k \in Keys |-> "none"]
    /\ connection = NewConnection
    /\ exec = [w \in Workers |-> Idle]
    /\ posted = [k \in Keys |-> 0]
    /\ inflight = {}
    /\ answer = [k \in Keys |-> "none"]
    /\ visible = {}
    /\ wrote = {}
    /\ told = [k \in Keys |-> {}]
    /\ faults = 0

-----------------------------------------------------------------------------
Owns(w, k) == mutation[k].status = "running" /\ mutation[k].owner = w
Goto(w, pc) == exec' = [exec EXCEPT ![w].pc = pc]
Enter(w, k) == exec' = [exec EXCEPT ![w] = [pc |-> "claim", key |-> k, attempted |-> FALSE]]
Leave(w) == exec' = [exec EXCEPT ![w] = Idle]
SetRow(k, row) == mutation' = [mutation EXCEPT ![k] = row]

\* What the writes of the repository make of a row: inserted, claimed, put back
\* with a backoff, attempted, settled, its lease extended or run out.
Inserted(steps) ==
    [status |-> "pending", owner |-> Nobody, lease |-> FALSE, due |-> TRUE,
     attempted |-> FALSE, fields |-> steps[1], comment |-> steps[2],
     version |-> connection.version]
Claimed(row, w) == [row EXCEPT !.status = "running", !.owner = w, !.lease = TRUE, !.due = TRUE]
Requeued(row) == [row EXCEPT !.status = "pending", !.owner = Nobody, !.lease = FALSE, !.due = FALSE]
Attempted(row) == [row EXCEPT !.attempted = TRUE]
Settled(row, status) == [row EXCEPT !.status = status, !.owner = Nobody, !.lease = FALSE]
Renewed(row) == [row EXCEPT !.lease = TRUE]
Lapsed(row) == [row EXCEPT !.lease = FALSE]
Due(row) == [row EXCEPT !.due = TRUE]

\* What a caller is answered; the reconciler answers nobody.
Tell(w, k, outcome) ==
    told' = IF w \in Callers THEN [told EXCEPT ![k] = @ \cup {outcome}] ELSE told

\* The first writes of a payload: a create has none of the two steps, an
\* enrichment fields or a comment or both.
Steps(k) ==
    IF k \in Creates THEN {<<"skipped", "skipped">>}
    ELSE {<<"pending", "pending">>, <<"pending", "skipped">>, <<"skipped", "pending">>}

\* A request whose key is new inserts its row under the locked connection.  The
\* lookup of the key and of its tombstone is not separated from the insert: a
\* row lives for the retention time before it is retired.
ReserveNew(w, k) ==
    /\ w \in Callers /\ exec[w].pc = "idle"
    /\ mutation[k].status = "absent" /\ tombstone[k] = "none"
    /\ connection.enabled
    /\ \E steps \in Steps(k) : SetRow(k, Inserted(steps))
    /\ Enter(w, k)
    /\ UNCHANGED <<tombstone, connection, trackerVars, told, faults>>

\* A repeated request is answered from a settled row and otherwise continues the
\* row, if the connection is still the reserved one.  (For a retired key it is
\* refused, which changes nothing.)
ReplaySettled(w, k) ==
    /\ w \in Callers /\ exec[w].pc = "idle"
    /\ mutation[k].status \in Terminal
    /\ AcceptsGeneration(connection, mutation[k].version)
    /\ Tell(w, k, mutation[k].status)
    /\ UNCHANGED <<rowVars, connection, exec, trackerVars, faults>>

Continue(w, k) ==
    /\ w \in Callers /\ exec[w].pc = "idle"
    /\ mutation[k].status \in Live
    /\ AcceptsGeneration(connection, mutation[k].version)
    /\ Enter(w, k)
    /\ UNCHANGED <<rowVars, connection, trackerVars, told, faults>>

\* Variant: a claim that ran out is not taken up again.
PendingOnly(k) == mutation[k].status = "pending" /\ mutation[k].due

\* ready_ids: a row whose backoff is over, or whose lease is.
Ready(k) ==
    \/ mutation[k].status = "pending" /\ mutation[k].due
    \/ mutation[k].status = "running" /\ ~mutation[k].lease

\* The reconciler takes up a ready row on the connection it was reserved for; on
\* any other generation, or when the adapter cannot be resolved (a fault), it puts
\* the row off (defer_resolution).
Reconcile(w, k) ==
    /\ w \in Reconcilers /\ exec[w].pc = "idle"
    /\ Ready(k) /\ AcceptsGeneration(connection, mutation[k].version)
    /\ Enter(w, k)
    /\ UNCHANGED <<rowVars, connection, trackerVars, told, faults>>

Defer(w, k) ==
    LET resolvable == AcceptsGeneration(connection, mutation[k].version) IN
    /\ w \in Reconcilers /\ exec[w].pc = "idle"
    /\ Ready(k)
    /\ resolvable => faults < MaxFaults
    /\ faults' = IF resolvable THEN faults + 1 ELSE faults
    /\ SetRow(k, Requeued(mutation[k]))
    /\ UNCHANGED <<tombstone, connection, exec, trackerVars, told>>

\* The first step of a claimed row.
FirstStep(k) ==
    IF k \in Creates THEN "find"
    ELSE IF mutation[k].fields = "pending" THEN "fields"
    ELSE IF mutation[k].comment = "pending" THEN "marker" ELSE "read"

\* claim: a settled row is answered, a row under a live lease or in backoff is
\* refused, any other row passes to this execution.
AnswerSettled(w) ==
    LET k == exec[w].key IN
    /\ exec[w].pc = "claim"
    /\ mutation[k].status \in Terminal
    /\ Tell(w, k, mutation[k].status)
    /\ Leave(w)
    /\ UNCHANGED <<rowVars, connection, trackerVars, faults>>

Refuse(w) ==
    LET k == exec[w].key IN
    /\ exec[w].pc = "claim"
    /\ \/ mutation[k].status = "running" /\ mutation[k].lease
       \/ mutation[k].status = "pending" /\ ~mutation[k].due
    /\ Leave(w)
    /\ UNCHANGED <<rowVars, connection, trackerVars, told, faults>>

Claim(w) ==
    LET k == exec[w].key IN
    /\ exec[w].pc = "claim"
    /\ Ready(k)
    /\ SetRow(k, Claimed(mutation[k], w))
    /\ exec' = [exec EXCEPT ![w] = [pc |-> FirstStep(k), key |-> k,
                                    attempted |-> mutation[k].attempted]]
    /\ UNCHANGED <<tombstone, connection, trackerVars, told, faults>>

-----------------------------------------------------------------------------
\* A look for the marker of the key.  Nothing found after an attempt is
\* ambiguous and never posted again; the validators and the tracker may reject.
Look(w, pc, found) ==
    LET k == exec[w].key IN
    /\ exec[w].pc = pc
    /\ Goto(w, IF k \in visible THEN found
               ELSE IF exec[w].attempted THEN "release" ELSE "mark")
    /\ UNCHANGED <<rowVars, connection, trackerVars, told, faults>>

\* Variant: an attempted create that is not found is taken for a lost one.
FailingFind(w) ==
    /\ exec[w].pc = "find"
    /\ Goto(w, IF exec[w].key \in visible THEN "complete"
               ELSE IF exec[w].attempted THEN "fail" ELSE "mark")
    /\ UNCHANGED <<rowVars, connection, trackerVars, told, faults>>

\* Variant: an attempted comment is taken for a posted one.
TrustingMarker(w) ==
    /\ exec[w].pc = "marker"
    /\ Goto(w, IF exec[w].attempted \/ exec[w].key \in visible THEN "stepComment" ELSE "mark")
    /\ UNCHANGED <<rowVars, connection, trackerVars, told, faults>>

\* find_item_by_idempotency_marker, has_comment_idempotency_marker.
Find(w) == Look(w, "find", "complete")
Marker(w) == Look(w, "marker", "stepComment")

\* A permanent rejection: of the create by its validator, which runs only before
\* the attempt, or of the reads and writes of an enrichment.
Reject(w) ==
    LET k == exec[w].key IN
    /\ \/ exec[w].pc = "find" /\ ~exec[w].attempted /\ k \notin visible
       \/ exec[w].pc \in {"fields", "marker"}
    /\ Goto(w, "fail")
    /\ UNCHANGED <<rowVars, connection, trackerVars, told, faults>>

\* update_item_fields_idempotent: an exact write, issued again after any doubt.
Fields(w) ==
    LET k == exec[w].key IN
    /\ exec[w].pc = "fields"
    /\ wrote' = wrote \cup {k}
    /\ Goto(w, "stepFields")
    /\ UNCHANGED <<rowVars, connection, posted, inflight, answer, visible, told, faults>>

\* mark_step: only the owner records a finished step.
StepFields(w) ==
    LET k == exec[w].key IN
    /\ exec[w].pc = "stepFields"
    /\ IF Owns(w, k)
       THEN /\ SetRow(k, [mutation[k] EXCEPT !.fields = "completed"])
            /\ Goto(w, IF mutation[k].comment = "pending" THEN "marker" ELSE "read")
       ELSE /\ Goto(w, "release")
            /\ UNCHANGED mutation
    /\ UNCHANGED <<tombstone, connection, trackerVars, told, faults>>

StepComment(w) ==
    LET k == exec[w].key IN
    /\ exec[w].pc = "stepComment"
    /\ IF Owns(w, k)
       THEN /\ SetRow(k, [mutation[k] EXCEPT !.comment = "completed"])
            /\ Goto(w, "read")
       ELSE /\ Goto(w, "release")
            /\ UNCHANGED mutation
    /\ UNCHANGED <<tombstone, connection, trackerVars, told, faults>>

\* Variant: the attempt is recorded by row, not by claim.
UnclaimedMark(w) ==
    /\ exec[w].pc = "mark"
    /\ SetRow(exec[w].key, Attempted(mutation[exec[w].key]))
    /\ Goto(w, "post")
    /\ UNCHANGED <<tombstone, connection, trackerVars, told, faults>>

\* mark_provider_attempted, mark_comment_attempted: the durable record that
\* fences the one POST; an execution that lost its claim does not get it.
Mark(w) ==
    LET k == exec[w].key IN
    /\ exec[w].pc = "mark"
    /\ IF Owns(w, k)
       THEN /\ SetRow(k, Attempted(mutation[k]))
            /\ Goto(w, "post")
       ELSE /\ Goto(w, "release")
            /\ UNCHANGED mutation
    /\ UNCHANGED <<tombstone, connection, trackerVars, told, faults>>

\* create_item_idempotent, add_item_comment_idempotent.
Post(w) ==
    LET k == exec[w].key IN
    /\ exec[w].pc = "post"
    /\ posted' = [posted EXCEPT ![k] = @ + 1]
    /\ inflight' = inflight \cup {k}
    /\ Goto(w, "await")
    /\ UNCHANGED <<rowVars, connection, answer, visible, wrote, told, faults>>

\* The tracker takes the POST, maybe long after its sender has gone.
Arrive(k) ==
    /\ k \in inflight
    /\ inflight' = inflight \ {k}
    /\ \E a \in {"created", "rejected"} : answer' = [answer EXCEPT ![k] = a]
    /\ UNCHANGED <<rowVars, connection, exec, posted, visible, wrote, told, faults>>

\* The tracker's search shows what was created.
Index(k) ==
    /\ answer[k] = "created" /\ k \notin visible
    /\ visible' = visible \cup {k}
    /\ UNCHANGED <<rowVars, connection, exec, posted, inflight, answer, wrote, told, faults>>

Answered(w) ==
    LET k == exec[w].key IN
    /\ exec[w].pc = "await"
    /\ k \notin inflight
    /\ Goto(w, IF answer[k] = "rejected" THEN "fail"
               ELSE IF k \in Creates THEN "complete" ELSE "stepComment")
    /\ UNCHANGED <<rowVars, connection, trackerVars, told, faults>>

\* The read that follows an enrichment's writes; its failures are retryable.
ReadItem(w) ==
    /\ exec[w].pc = "read"
    /\ Goto(w, "complete")
    /\ UNCHANGED <<rowVars, connection, trackerVars, told, faults>>

-----------------------------------------------------------------------------
\* complete: by the owner; another execution's result is accepted when it is
\* equal, otherwise the lost claim is released.
Complete(w) ==
    LET k == exec[w].key IN
    /\ exec[w].pc = "complete" /\ Owns(w, k)
    /\ SetRow(k, Settled(mutation[k], "completed"))
    /\ Tell(w, k, "completed") /\ Leave(w)
    /\ UNCHANGED <<tombstone, connection, trackerVars, faults>>

CompleteAgain(w) ==
    LET k == exec[w].key IN
    /\ exec[w].pc = "complete" /\ mutation[k].status = "completed"
    /\ Tell(w, k, "completed") /\ Leave(w)
    /\ UNCHANGED <<rowVars, connection, trackerVars, faults>>

CompleteLost(w) ==
    LET k == exec[w].key IN
    /\ exec[w].pc = "complete" /\ ~Owns(w, k)
    /\ Goto(w, "release")
    /\ UNCHANGED <<rowVars, connection, trackerVars, told, faults>>

\* Variant: the failure is stored by row, not by claim.
UnclaimedFail(w) ==
    LET k == exec[w].key IN
    /\ exec[w].pc = "fail"
    /\ SetRow(k, Settled(mutation[k], "failed"))
    /\ Tell(w, k, "failed") /\ Leave(w)
    /\ UNCHANGED <<tombstone, connection, trackerVars, faults>>

\* fail: as complete, but a lost claim is only reported.
Fail(w) ==
    LET k == exec[w].key IN
    /\ exec[w].pc = "fail" /\ Owns(w, k)
    /\ SetRow(k, Settled(mutation[k], "failed"))
    /\ Tell(w, k, "failed") /\ Leave(w)
    /\ UNCHANGED <<tombstone, connection, trackerVars, faults>>

FailAgain(w) ==
    LET k == exec[w].key IN
    /\ exec[w].pc = "fail" /\ mutation[k].status = "failed"
    /\ Tell(w, k, "failed") /\ Leave(w)
    /\ UNCHANGED <<rowVars, connection, trackerVars, faults>>

FailLost(w) ==
    LET k == exec[w].key IN
    /\ exec[w].pc = "fail" /\ ~Owns(w, k)
    /\ Leave(w)
    /\ UNCHANGED <<rowVars, connection, trackerVars, told, faults>>

\* _release_after_interruption: only the owner's row goes back to the queue, with
\* a backoff.
Release(w) ==
    LET k == exec[w].key IN
    /\ exec[w].pc = "release"
    /\ Leave(w)
    /\ IF Owns(w, k)
       THEN SetRow(k, Requeued(mutation[k]))
       ELSE UNCHANGED mutation
    /\ UNCHANGED <<tombstone, connection, trackerVars, told, faults>>

\* Any other exception of a step, before or after its effect: a failed call or
\* commit, the caller's cancellation, a heartbeat that found the claim lost.
Interrupt(w) ==
    /\ exec[w].pc \in Operating
    /\ \/ ~Owns(w, exec[w].key) /\ UNCHANGED faults
       \/ faults < MaxFaults /\ faults' = faults + 1
    /\ Goto(w, "release")
    /\ UNCHANGED <<rowVars, connection, trackerVars, told>>

Crash(w) ==
    /\ exec[w].pc # "idle"
    /\ faults < MaxFaults
    /\ faults' = faults + 1
    /\ Leave(w)
    /\ UNCHANGED <<rowVars, connection, trackerVars, told>>

\* renew: the heartbeat extends the claim it still owns, even an expired one.
Renew(w) ==
    /\ exec[w].pc \in Operating
    /\ Owns(w, exec[w].key) /\ ~mutation[exec[w].key].lease
    /\ SetRow(exec[w].key, Renewed(mutation[exec[w].key]))
    /\ UNCHANGED <<tombstone, connection, exec, trackerVars, told, faults>>

\* Time: a lease runs out when its holder is gone, or is paused (a fault).
Expire(k) ==
    /\ mutation[k].status = "running" /\ mutation[k].lease
    /\ ~\E w \in Workers : Owns(w, k) /\ exec[w].key = k /\ exec[w].pc # "claim"
    /\ SetRow(k, Lapsed(mutation[k]))
    /\ UNCHANGED <<tombstone, connection, exec, trackerVars, told, faults>>

Pause(k) ==
    /\ mutation[k].status = "running" /\ mutation[k].lease
    /\ faults < MaxFaults
    /\ faults' = faults + 1
    /\ SetRow(k, Lapsed(mutation[k]))
    /\ UNCHANGED <<tombstone, connection, exec, trackerVars, told>>

BackoffElapses(k) ==
    /\ mutation[k].status = "pending" /\ ~mutation[k].due
    /\ SetRow(k, Due(mutation[k]))
    /\ UNCHANGED <<tombstone, connection, exec, trackerVars, told, faults>>

\* Variant: the tombstone is written from the row after the row was cleared.
LateTombstone(k) ==
    /\ mutation[k].status \in Terminal
    /\ k \notin inflight /\ \A w \in Workers : exec[w].key # k
    /\ SetRow(k, NoRow)
    /\ tombstone' = [tombstone EXCEPT ![k] = mutation'[k].status]
    /\ UNCHANGED <<connection, exec, trackerVars, told, faults>>

\* retire_terminal_before: after the retention time, which outlasts every
\* execution of the key.
Retire(k) ==
    /\ mutation[k].status \in Terminal
    /\ k \notin inflight /\ \A w \in Workers : exec[w].key # k
    /\ tombstone' = [tombstone EXCEPT ![k] = mutation[k].status]
    /\ SetRow(k, NoRow)
    /\ UNCHANGED <<connection, exec, trackerVars, told, faults>>

\* Variant: settled rows do not count as references.
ReferencedByLive == \E k \in Keys : mutation[k].status \in Live

\* The administrator.  Disabling, and a PATCH that changes a value, are refused
\* while any row of the connection is kept; a PATCH that repeats values is not, and
\* advances the generation too.  (Where no row is kept, any PATCH is taken for one
\* that changes a value: no row tells the difference.)
ReferencedByMutations == \E k \in Keys : mutation[k].status # "absent"

ToggleConnection ==
    /\ connection.version < MaxVersion
    /\ connection.enabled => ~ReferencedByMutations
    /\ connection' = Toggled(connection)
    /\ UNCHANGED <<rowVars, exec, trackerVars, told, faults>>

PatchConnection ==
    /\ connection.version < MaxVersion
    /\ connection' = IF ReferencedByMutations THEN Repeated(connection)
                     ELSE Altered(connection, connection.enabled)
    /\ UNCHANGED <<rowVars, exec, trackerVars, told, faults>>

-----------------------------------------------------------------------------
Step(w) ==
    \/ AnswerSettled(w) \/ Refuse(w) \/ Claim(w) \/ Find(w) \/ Marker(w) \/ Reject(w)
    \/ Fields(w) \/ StepFields(w) \/ StepComment(w) \/ Mark(w) \/ Post(w) \/ Answered(w)
    \/ ReadItem(w) \/ Complete(w) \/ CompleteAgain(w) \/ CompleteLost(w)
    \/ Fail(w) \/ FailAgain(w) \/ FailLost(w) \/ Release(w)

Request(w, k) == ReserveNew(w, k) \/ ReplaySettled(w, k) \/ Continue(w, k)

TrackerOrTime(k) ==
    Arrive(k) \/ Index(k) \/ Expire(k) \/ Pause(k) \/ BackoffElapses(k) \/ Retire(k)

Next ==
    \/ \E w \in Workers : Step(w) \/ Interrupt(w) \/ Crash(w) \/ Renew(w)
    \/ \E w \in Workers, k \in Keys : Request(w, k) \/ Reconcile(w, k) \/ Defer(w, k)
    \/ \E k \in Keys : TrackerOrTime(k)
    \/ ToggleConnection \/ PatchConnection

Spec == Init /\ [][Next]_vars

\* The reconciler loop runs for ever and a pass takes up the ready rows one after
\* the other, oldest first, so that a row which is ready again and again is taken
\* up; time passes, requests that were sent arrive and searches catch up; an
\* execution goes on until it ends or is interrupted.
Fairness ==
    /\ \A w \in Workers : WF_vars(Step(w))
    /\ \A k \in Keys :
           /\ SF_vars(\E w \in Reconcilers : Reconcile(w, k))
           /\ WF_vars(Arrive(k)) /\ WF_vars(Index(k))
           /\ WF_vars(Expire(k)) /\ WF_vars(BackoffElapses(k))

FairSpec == Spec /\ Fairness

-----------------------------------------------------------------------------
\* Types of the outbox; a POST is outstanding only after it was counted.
MutationTypeOK ==
    /\ mutation \in [Keys -> Row]
    /\ tombstone \in [Keys -> {"none"} \cup Terminal]
    /\ connection \in ConnectionOf(Nat)
    /\ exec \in [Workers -> Execution]
    /\ posted \in [Keys -> Nat]
    /\ inflight \in SUBSET Keys
    /\ answer \in [Keys -> {"none", "created", "rejected"}]
    /\ visible \in SUBSET Keys
    /\ wrote \in SUBSET Keys
    /\ told \in [Keys -> SUBSET Terminal]
    /\ faults \in Nat

\* A create or a comment is POSTed at most once in the whole life of its key,
\* whoever executes the row and however often its claim is lost.
AtMostOnePost == \A k \in Keys : posted[k] <= 1

\* A completed enrichment has written the fields it was asked to write and its
\* comment is in the tracker.
CompletedMeansApplied ==
    \A k \in Enriches : mutation[k].status = "completed" =>
        /\ mutation[k].fields # "skipped" => k \in wrote
        /\ mutation[k].comment # "skipped" => answer[k] = "created"

\* What a caller was told is the outcome of the key and remains it, also when an
\* execution that lost its claim reports late and after the row is retired.
ToldOutcomeIsFinal ==
    \A k \in Keys : \A o \in told[k] :
        mutation[k].status = o \/ tombstone[k] = o

\* Every write reaches the tracker with the configuration that its row reserved,
\* while the connection is enabled: an administrator cannot change or disable it
\* under an execution, one that has lost its claim included.  (Its generation may be
\* a later one: a PATCH that repeats values is accepted in the middle of a write.)
Writes(w) ==
    <<exec[w].pc, exec'[w].pc>> \in {<<"post", "await">>, <<"fields", "stepFields">>}
WritesUnderReservation ==
    [][\A w \in Workers : Writes(w) =>
          /\ mutation[exec[w].key].status # "absent"
          /\ Unaltered(connection, mutation[exec[w].key].version)]_vars

\* The creates of the outbox keep the promise of DispatchOnce.
Outcome(k) ==
    IF tombstone[k] # "none" THEN tombstone[k]
    ELSE IF mutation[k].status \in Terminal THEN mutation[k].status ELSE "open"
Effect(k) ==
    IF k \in inflight THEN "sent" ELSE answer[k]
Contract == INSTANCE DispatchOnce WITH
    Keys <- Creates,
    effect <- [k \in Creates |-> Effect(k)],
    outcome <- [k \in Creates |-> Outcome(k)]
ImplementsDispatchOnce == Contract!Spec

\* A POST was recorded as attempted and the tracker does not hold its effect.
Unaccounted(k) == mutation[k].attempted /\ answer[k] # "created"

\* A reserved mutation is settled in the end, unless its one attempt is and stays
\* without a trace in the tracker, which only an operator can resolve, or a PATCH
\* that repeats values moves the connection past the reserved generation.
MutationEventuallySettled ==
    \A k \in Keys : mutation[k].status \in Live ~>
        \/ mutation[k].status \notin Live \/ []Unaccounted(k)
        \/ connection.version # mutation[k].version
=============================================================================
