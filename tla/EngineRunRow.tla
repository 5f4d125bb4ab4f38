---------------------------- MODULE EngineRunRow ----------------------------
(***************************************************************************)
(* One row of the engine_runs projection, keyed by (thread, attempt), and  *)
(* the statements that services/engine_runs.py and the engine-run          *)
(* repository run against it.  Pure operators: every state machine of this *)
(* project that owns rows applies these, each in one database transaction. *)
(***************************************************************************)
EXTENDS Naturals

\* services/engine_runs.py _TERMINAL and _NONTERMINAL_ORDER.
TerminalStatus == {"completed", "failed", "aborted"}
ActiveStatus   == {"provisioning", "ready", "running", "stopping", "collecting"}
Order == [provisioning |-> 0, ready |-> 1, running |-> 2, stopping |-> 3,
          collecting |-> 4]

\* The post-teardown witnesses, COMPLETION_*_TEARDOWN.
CompletionKind == {"none", "collection", "cleanup"}

\* A row: its lifecycle status ("absent" before the insert), whether the full
\* provider handle is projected, whether connection_id still pins the execution
\* connection (the lease), the pinned connection generation, whether the
\* artifact store is pinned, and the completion witness.
RowOf(Versions) ==
    [status  : {"absent"} \cup ActiveStatus \cup TerminalStatus,
     handle  : BOOLEAN,
     lease   : BOOLEAN,
     version : Versions,
     store   : BOOLEAN,
     kind    : CompletionKind]

NoRow == [status |-> "absent", handle |-> FALSE, lease |-> FALSE,
          version |-> 0, store |-> FALSE, kind |-> "none"]

\* Does the row keep its execution connection referenced (the durable reference
\* that disabling or deleting the connection looks for)?
HoldsLease(r) == r.lease /\ r.status \in ActiveStatus

(***************************************************************************)
(* _upsert_statement.  A write w names the columns record_engine_run sends *)
(* : the status and handle always; pin, store and kind only when passed.   *)
(***************************************************************************)
Write(status, handle, pin, version, store, kind) ==
    [status |-> status, handle |-> handle, pin |-> pin, version |-> version,
     store |-> store, kind |-> kind]

\* Variant: an upsert without its WHERE clause.
AnyTransitionAllowed(r, w) == TRUE

\* The ON CONFLICT ... WHERE clause: a terminal row only accepts its own replay.
TransitionAllowed(r, w) ==
    \/ r.status \notin TerminalStatus
    \/ w.status = r.status

\* Variants: only one of the two reasons to keep the existing columns.
OrderOnlySuperseded(r, w) ==
    /\ w.status \in ActiveStatus /\ r.status \in ActiveStatus
    /\ Order[r.status] > Order[w.status]

ReplayOnlySuperseded(r, w) == w.status \in TerminalStatus /\ r.status = w.status

\* A stale or replayed write is acknowledged but keeps every existing column.
Superseded(r, w) ==
    \/ w.status \in TerminalStatus /\ r.status = w.status
    \/ /\ w.status \in ActiveStatus /\ r.status \in ActiveStatus
       /\ Order[r.status] > Order[w.status]

Upsert(r, w) ==
    IF ~TransitionAllowed(r, w) \/ Superseded(r, w) THEN r
    ELSE [status  |-> w.status,
          handle  |-> w.handle,
          lease   |-> w.status \notin TerminalStatus /\ (w.pin \/ r.lease),
          version |-> IF w.pin THEN w.version ELSE r.version,
          store   |-> w.store \/ r.store,
          kind    |-> IF w.kind = "none" THEN r.kind ELSE w.kind]

(***************************************************************************)
(* prepare_engine_provision: insert the provider lease if absent, then     *)
(* lock the row and decide.  prepare_engine_start: lock and decide only.   *)
(***************************************************************************)
InsertReservation(r, version) ==
    IF r.status = "absent"
    THEN [NoRow EXCEPT !.status = "provisioning", !.lease = TRUE, !.version = version]
    ELSE r

\* A locked reservation must name the connection generation the caller pinned.
SameGeneration(r, version) == r.lease /\ r.version = version

\* "call": issue the provider call; "recover": reuse the projected handle.
ProvisionDecision(r, version) ==
    IF ~SameGeneration(r, version) THEN "reject"
    ELSE IF r.status \in {"ready", "running"} THEN "recover"
    ELSE IF r.status = "provisioning" THEN IF r.handle THEN "recover" ELSE "call"
    ELSE "reject"

StartDecision(r, version) ==
    IF ~SameGeneration(r, version) \/ ~r.handle THEN "reject"
    ELSE IF r.status = "running" THEN "recover"
    ELSE IF r.status \in {"provisioning", "ready"} THEN "call"
    ELSE "reject"

\* Variants: a terminal row never answers; its artifact store is not compared
\* with the caller's but required to be unset.
UnreplayedCompletionDecision(r, version, store, kind, expected) ==
    IF r.status \in ActiveStatus THEN "effect" ELSE "reject"

StorelessCompletionDecision(r, version, store, kind, expected) ==
    IF r.status \in ActiveStatus THEN "effect"
    ELSE IF /\ r.handle /\ r.version = version /\ ~r.store
            /\ r.kind = kind /\ r.status \in expected
         THEN "recover"
    ELSE "reject"

\* _completion_replay_status: a terminal row answers only the exact witness.
CompletionDecision(r, version, store, kind, expected) ==
    IF r.status = "absent" THEN "reject"
    ELSE IF r.status \notin TerminalStatus THEN "effect"
    ELSE IF /\ r.handle /\ r.version = version /\ r.store = store
            /\ r.kind = kind /\ r.status \in expected
         THEN "recover"
    ELSE "reject"

\* EngineRunsRepository.mark_terminal: a compare-and-set on a nonterminal row.
MarkTerminal(r, status) ==
    IF r.status \in ActiveStatus
    THEN [r EXCEPT !.status = status, !.lease = FALSE]
    ELSE r
=============================================================================
