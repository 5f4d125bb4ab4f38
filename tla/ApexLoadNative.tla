---------------------------- MODULE ApexLoadNative ----------------------------
(***************************************************************************)
(* APEX Load runs that were started outside of pipelines.  Reconciler      *)
(* passes, on every replica, poll a connection under a lease, mirror the   *)
(* provider's runs and scenarios, and start one reporting pipeline for a   *)
(* run that has ended.  A request may create a scenario meanwhile.  Mirror *)
(* rows belong to one generation of the connection.                        *)
(*                                                                         *)
(* One native run and one scenario are followed.  A claim's token is named *)
(* by the pass that took it: a pass takes no second claim of a kind before *)
(* the first is given up or lost.                                          *)
(***************************************************************************)
EXTENDS ConnectionRow, FiniteSets

CONSTANTS
    Passes,         \* reconcilers, one per replica
    Nobody,
    MaxVersion,     \* bound on connection generations
    MaxFaults,      \* bound on crashes, stalls, failing calls and lost answers
    EchoesKey       \* does the provider list the key a scenario was created with?

Versions == 1 .. MaxVersion

ASSUME NativeAssumption ==
    /\ Nobody \notin Passes
    /\ MaxVersion \in Nat \ {0} /\ MaxFaults \in Nat
    /\ EchoesKey \in BOOLEAN

VARIABLES
    conn,     \* the connection row
    native,   \* the provider: its run, the scenario
    lease,    \* apex_load_native_reconcile_leases
    mirror,   \* apex_load_native_runs: the run's row of each generation
    mapping,  \* apex_load_native_scenarios: the scenario's row of each generation
    thread,   \* fingerprint stamped on the generation's deterministic thread
    reports,  \* reporting runs on that thread
    lock,     \* launch lock of the thread
    pass,     \* the reconcilers
    request,  \* the request that creates the scenario
    faults

runtime == <<thread, reports, lock>>
vars == <<conn, native, lease, mirror, mapping, runtime, pass, request, faults>>

\* What a launch can put into its request: metrics and assessment of the run, or
\* less while the provider has not computed them or does not answer.
Evidence == {"bare", "full"}

Polling == {"scan", "sync", "list", "mirror", "release"}
Launching == {"resolve", "start", "create", "mark", "unclaim"}
Seen == {"nothing", "absent", "running", "done", "listed", "unlisted"}

\* What there is of the run and of the scenario at the provider.
Provider == [run : {"running", "done"}, scenario : BOOLEAN]

LeaseRow == [version : Versions, token : Passes \cup {Nobody}, stale : BOOLEAN]

\* The row of the run in one generation; missing: pipeline_launch_error is
\* native_run_missing.
MirrorRow ==
    [status : {"none", "running", "done", "missing"},
     pipeline : {"pending", "launching", "retry", "stale", "launched"},
     missing : BOOLEAN, token : Passes \cup {Nobody}, stale : BOOLEAN]

\* The row of the scenario: it has the key of its creation, the fingerprint of it.
MappingRow ==
    [status : {"none", "live", "missing"}, keyed : BOOLEAN, printed : BOOLEAN]

PassState ==
    [at : {"idle"} \cup Polling \cup Launching, version : Versions, saw : Seen,
     evidence : Evidence \cup {"none"}]

RequestState ==
    [at : {"idle", "create", "record"}, version : Versions, told : BOOLEAN]

\* Types; and a claim on a launch is held by a row under launch, and only by one.
NativeTypeOK ==
    /\ conn \in ConnectionOf(Versions)
    /\ native \in Provider
    /\ lease \in LeaseRow
    /\ mirror \in [Versions -> MirrorRow]
    /\ \A v \in Versions :
         /\ mirror[v].token # Nobody <=> mirror[v].pipeline = "launching"
         /\ mirror[v].missing => mirror[v].pipeline = "stale"
    /\ mapping \in [Versions -> MappingRow]
    /\ thread \in [Versions -> Evidence \cup {"none"}]
    /\ reports \in [Versions -> Nat]
    /\ lock \in [Versions -> Passes \cup {Nobody}]
    /\ pass \in [Passes -> PassState]
    /\ request \in RequestState
    /\ faults \in 0 .. MaxFaults

At(place, version) ==
    [at |-> place, version |-> version, saw |-> "nothing", evidence |-> "none"]
Idle == At("idle", 1)
Goes(p, place) == pass' = [pass EXCEPT ![p] = At(place, pass[p].version)]
Ends(p) == pass' = [pass EXCEPT ![p] = Idle]

NativeInit ==
    /\ conn = NewConnection
    /\ native = [run |-> "running", scenario |-> FALSE]
    /\ lease = [version |-> 1, token |-> Nobody, stale |-> FALSE]
    /\ mirror = [v \in Versions |-> [status |-> "none", pipeline |-> "pending",
                                     missing |-> FALSE, token |-> Nobody, stale |-> FALSE]]
    /\ mapping = [v \in Versions |->
                    [status |-> "none", keyed |-> FALSE, printed |-> FALSE]]
    /\ thread = [v \in Versions |-> "none"]
    /\ reports = [v \in Versions |-> 0]
    /\ lock = [v \in Versions |-> Nobody]
    /\ pass = [p \in Passes |-> Idle]
    /\ request = [at |-> "idle", version |-> 1, told |-> FALSE]
    /\ faults = 0

Calm == UNCHANGED faults
Fault == faults < MaxFaults /\ faults' = faults + 1

-----------------------------------------------------------------------------
(* Polling a connection: _sync_connection.                                 *)

\* claim_enabled_connections: a free lease, or one whose holder is overdue.
ClaimConnection(p) ==
    /\ pass[p].at = "idle"
    /\ conn.enabled /\ (lease.token = Nobody \/ lease.stale)
    /\ lease' = [version |-> conn.version, token |-> p, stale |-> FALSE]
    /\ pass' = [pass EXCEPT ![p] = At("scan", conn.version)]
    /\ UNCHANGED <<conn, native, mirror, mapping, runtime, request, faults>>

\* The adapter is resolved, for the claimed generation only, and the runs are
\* listed.  The list is paged, so a run can slip between two pages ("absent"), and
\* it may be too long to be read completely, which says nothing of a run it lacks.
ScanRuns(p) ==
    /\ pass[p].at = "scan"
    /\ \/ /\ AcceptsGeneration(conn, pass[p].version)
          /\ \E saw \in {native.run, "absent", "nothing"} :
               /\ IF saw = native.run THEN Calm ELSE Fault
               /\ pass' = [pass EXCEPT ![p].at = "sync", ![p].saw = saw]
       \/ /\ IF AcceptsGeneration(conn, pass[p].version) THEN Fault ELSE Calm
          /\ Goes(p, "release")
    /\ UNCHANGED <<conn, native, lease, mirror, mapping, runtime, request>>

\* Variant: a writer whose lease was taken over is not refused.
Unfenced(p) == TRUE

\* _assert_connection_claim, under the lease row's lock.
HoldsClaim(p) == lease.token = p /\ lease.version = pass[p].version

\* The row after a snapshot.  A complete snapshot that lacks the run makes its row
\* stale, unless it is being launched or has been; a run that is seen again is
\* pending again.
SyncedRow(r, saw) ==
    CASE saw \in {"running", "done"} ->
           [r EXCEPT !.status = saw,
                     !.pipeline = IF r.missing THEN "pending" ELSE @,
                     !.missing = FALSE]
      [] saw = "absent" /\ r.status # "none" /\ r.pipeline = "launched" ->
           [r EXCEPT !.status = "missing"]
      [] saw = "absent" /\ r.status # "none" /\ r.pipeline \notin {"launching", "launched"} ->
           [r EXCEPT !.status = "missing", !.pipeline = "stale", !.missing = TRUE,
                     !.token = Nobody, !.stale = FALSE]
      [] OTHER -> r

\* sync_runs, one transaction.
SyncRuns(p) ==
    /\ pass[p].at = "sync"
    /\ \/ /\ HoldsClaim(p)
          /\ mirror' = [mirror EXCEPT ![pass[p].version] = SyncedRow(@, pass[p].saw)]
          /\ \/ Goes(p, "list") /\ Calm
             \/ Goes(p, "release") /\ Fault
       \/ /\ IF HoldsClaim(p) THEN Fault ELSE Calm
          /\ Goes(p, "release") /\ UNCHANGED mirror
    /\ UNCHANGED <<conn, native, lease, mapping, runtime, request>>

\* list_native_scenarios; a failure is logged and the pass goes on.
ListScenarios(p) ==
    /\ pass[p].at = "list"
    /\ \/ /\ pass' = [pass EXCEPT ![p].at = "mirror",
                                  ![p].saw = IF native.scenario THEN "listed" ELSE "unlisted"]
          /\ Calm
       \/ Goes(p, "release") /\ Fault
    /\ UNCHANGED <<conn, native, lease, mirror, mapping, runtime, request>>

\* Variant: a scenario that is listed again stays missing.
ForgottenScenario(r, saw) ==
    CASE saw = "listed" ->
           [r EXCEPT !.status = IF @ = "none" THEN "live" ELSE @, !.keyed = @ \/ EchoesKey]
      [] saw = "unlisted" /\ r.status # "none" -> [r EXCEPT !.status = "missing"]
      [] OTHER -> r

\* The scenario's row after a snapshot: the fingerprint of a creation is not part of it.
SyncedScenario(r, saw) ==
    CASE saw = "listed" -> [r EXCEPT !.status = "live", !.keyed = @ \/ EchoesKey]
      [] saw = "unlisted" /\ r.status # "none" -> [r EXCEPT !.status = "missing"]
      [] OTHER -> r

\* sync_scenarios, under the same claim.
SyncScenarios(p) ==
    /\ pass[p].at = "mirror"
    /\ \/ /\ HoldsClaim(p) /\ Calm
          /\ mapping' = [mapping EXCEPT ![pass[p].version] = SyncedScenario(@, pass[p].saw)]
       \/ /\ IF HoldsClaim(p) THEN Fault ELSE Calm
          /\ UNCHANGED mapping
    /\ Goes(p, "release")
    /\ UNCHANGED <<conn, native, lease, mirror, runtime, request>>

\* release_connection_claim: by token and generation.
ReleaseConnection(p) ==
    /\ pass[p].at = "release"
    /\ \/ /\ lease' = IF HoldsClaim(p)
                      THEN [lease EXCEPT !.token = Nobody, !.stale = FALSE] ELSE lease
          /\ Ends(p) /\ Calm
       \/ Ends(p) /\ Fault /\ UNCHANGED lease
    /\ UNCHANGED <<conn, native, mirror, mapping, runtime, request>>

-----------------------------------------------------------------------------
(* Starting the reporting pipeline: _launch_reporting_pipeline.            *)

\* Variant: the claim of a pass that died is not taken over.
UnclaimedOnly(r) ==
    r.status = "done" /\ r.pipeline \in {"pending", "retry"} /\ r.token = Nobody

\* claim_terminal_runs: an ended run not yet claimed, or claimed too long ago.
Claimable(r) ==
    /\ r.status = "done"
    /\ \/ r.pipeline \in {"pending", "retry"} /\ r.token = Nobody
       \/ r.pipeline = "launching" /\ r.stale

ClaimRun(p, v) ==
    /\ pass[p].at = "idle" /\ Claimable(mirror[v])
    /\ mirror' = [mirror EXCEPT ![v].pipeline = "launching", ![v].token = p,
                                ![v].stale = FALSE, ![v].missing = FALSE]
    /\ pass' = [pass EXCEPT ![p] = At("resolve", v)]
    /\ UNCHANGED <<conn, native, lease, mapping, runtime, request, faults>>

HoldsRun(p) ==
    /\ mirror[pass[p].version].token = p
    /\ mirror[pass[p].version].pipeline = "launching"

\* Variant: the claim's token is not cleared.
KeepsToken(p, status) ==
    mirror' = IF HoldsRun(p)
              THEN [mirror EXCEPT ![pass[p].version].pipeline = status,
                                  ![pass[p].version].stale = FALSE]
              ELSE mirror

\* The three statements that end a launch claim are fenced by its token.
GiveUp(p, status) ==
    mirror' = IF HoldsRun(p)
              THEN [mirror EXCEPT ![pass[p].version].pipeline = status,
                                  ![pass[p].version].token = Nobody,
                                  ![pass[p].version].stale = FALSE]
              ELSE mirror

\* The evidence that can be had now goes into the request; a row of another
\* generation is retired (mark_launch_claim_stale).
ResolveRun(p) ==
    /\ pass[p].at = "resolve"
    /\ \/ /\ AcceptsGeneration(conn, pass[p].version) /\ Calm
          /\ pass' = [pass EXCEPT ![p].at = "start", ![p].evidence = "full"]
          /\ UNCHANGED mirror
       \/ /\ AcceptsGeneration(conn, pass[p].version) /\ Fault
          /\ pass' = [pass EXCEPT ![p].at = "start", ![p].evidence = "bare"]
          /\ UNCHANGED mirror
       \/ /\ conn.enabled /\ conn.version # pass[p].version /\ Calm
          /\ GiveUp(p, "stale") /\ Ends(p)
       \/ /\ IF conn.enabled THEN Fault ELSE Calm
          /\ Goes(p, "unclaim") /\ UNCHANGED mirror
    /\ UNCHANGED <<conn, native, lease, mapping, runtime, request>>

\* Variant: the launch lock is not taken.
Unlocked(v) == TRUE

LockFree(v) == lock[v] = Nobody

\* _create_or_get_run up to the search for a root run: the thread is created with
\* the request's fingerprint or adopted with an equal one.
StartPipeline(p) ==
    LET v == pass[p].version
        stamped == IF thread[v] = "none" THEN pass[p].evidence ELSE thread[v]
    IN
    /\ pass[p].at = "start"
    /\ \/ /\ LockFree(v)
          /\ thread' = [thread EXCEPT ![v] = stamped]
          /\ \/ stamped # pass[p].evidence /\ Goes(p, "unclaim") /\ Calm /\ UNCHANGED lock
             \/ /\ stamped = pass[p].evidence /\ reports[v] > 0
                /\ Goes(p, "mark") /\ Calm /\ UNCHANGED lock
             \/ /\ stamped = pass[p].evidence /\ reports[v] = 0
                /\ Goes(p, "create") /\ Calm /\ lock' = [lock EXCEPT ![v] = p]
             \/ Goes(p, "unclaim") /\ Fault /\ UNCHANGED lock
       \/ Goes(p, "unclaim") /\ Fault /\ UNCHANGED <<thread, lock>>
    /\ UNCHANGED <<conn, native, lease, mirror, mapping, reports, request>>

\* Artifacts are collected and indexed, then the run is created; a failing
\* creation may have created it.
CreateReport(p) ==
    LET v == pass[p].version IN
    /\ pass[p].at = "create"
    /\ \/ Goes(p, "mark") /\ Calm /\ reports' = [reports EXCEPT ![v] = @ + 1]
       \/ Goes(p, "unclaim") /\ Fault /\ reports' = [reports EXCEPT ![v] = @ + 1]
       \/ Goes(p, "unclaim") /\ Fault /\ UNCHANGED reports
    /\ lock' = [lock EXCEPT ![v] = Nobody]
    /\ UNCHANGED <<conn, native, lease, mirror, mapping, thread, request>>

\* mark_pipeline_launched.
MarkLaunched(p) ==
    /\ pass[p].at = "mark"
    /\ \/ /\ GiveUp(p, "launched")
          /\ \/ Ends(p) /\ Calm
             \/ Goes(p, "unclaim") /\ Fault
       \/ UNCHANGED mirror /\ Goes(p, "unclaim") /\ Fault
    /\ UNCHANGED <<conn, native, lease, mapping, runtime, request>>

\* release_launch_claim, after any failure or the pass's timeout.
ReleaseRun(p) ==
    /\ pass[p].at = "unclaim"
    /\ \/ GiveUp(p, "retry") /\ Calm
       \/ UNCHANGED mirror /\ Fault
    /\ Ends(p)
    /\ UNCHANGED <<conn, native, lease, mapping, runtime, request>>

\* A replica dies: its database session, and with it the launch lock, goes; its
\* claims stay.  The creation of a run may just have reached the server.
Crash(p) ==
    LET v == pass[p].version IN
    /\ pass[p].at # "idle" /\ Fault /\ Ends(p)
    /\ lock' = [w \in Versions |-> IF lock[w] = p THEN Nobody ELSE lock[w]]
    /\ \/ UNCHANGED reports
       \/ pass[p].at = "create" /\ reports' = [reports EXCEPT ![v] = @ + 1]
    /\ UNCHANGED <<conn, native, lease, mirror, mapping, thread, request>>

-----------------------------------------------------------------------------
(* Time, the provider, administrators.                                     *)

\* A lease is overdue: its holder died or gave up without releasing, or stalls.
LeaseExpires ==
    /\ lease.token # Nobody /\ ~lease.stale
    /\ IF pass[lease.token].at \in Polling THEN Fault ELSE Calm
    /\ lease' = [lease EXCEPT !.stale = TRUE]
    /\ UNCHANGED <<conn, native, mirror, mapping, runtime, pass, request>>

LaunchExpires(v) ==
    LET r == mirror[v] IN
    /\ r.pipeline = "launching" /\ ~r.stale
    /\ IF pass[r.token].at \in Launching /\ pass[r.token].version = v THEN Fault ELSE Calm
    /\ mirror' = [mirror EXCEPT ![v].stale = TRUE]
    /\ UNCHANGED <<conn, native, lease, mapping, runtime, pass, request>>

RunAdvances ==
    /\ native.run = "running" /\ native' = [native EXCEPT !.run = "done"]
    /\ UNCHANGED <<conn, lease, mirror, mapping, runtime, pass, request, faults>>

\* durable_reference_reason: runs of some generation are mirrored.
Referenced == \E v \in Versions : mirror[v].status # "none"

\* Enable, and disable unless the row is referenced.
ToggleConnection ==
    /\ conn.version < MaxVersion /\ ~(conn.enabled /\ Referenced)
    /\ conn' = Toggled(conn)
    /\ UNCHANGED <<native, lease, mirror, mapping, runtime, pass, request, faults>>

\* Variant: the runtime fields of a referenced row may change.
UncheckedPatch ==
    /\ conn.version < MaxVersion
    /\ conn' = Altered(conn, conn.enabled)
    /\ UNCHANGED <<native, lease, mirror, mapping, runtime, pass, request, faults>>

\* A PATCH that carries runtime fields: it can only repeat them, but does so under
\* mirrored runs too, and the generation advances.
PatchConnection ==
    /\ conn.version < MaxVersion
    /\ conn' = Repeated(conn)
    /\ UNCHANGED <<native, lease, mirror, mapping, runtime, pass, request, faults>>

-----------------------------------------------------------------------------
(* Creating a scenario: routers/apex_load.create_scenario, by a client that *)
(* repeats the request with its key until it is told the result.           *)

\* A 409 or a lost answer tells the client nothing it could rely on.
Answers(told) == request' = [at |-> "idle", version |-> 1, told |-> told]

\* replay_created_resource decides on the row of the resolved generation.
ReplayCreated ==
    LET r == mapping[conn.version] IN
    /\ request.at = "idle" /\ ~request.told /\ conn.enabled
    /\ \/ ~r.keyed /\ request' = [at |-> "create", version |-> conn.version, told |-> FALSE]
       \/ r.keyed /\ (~r.printed \/ r.status = "missing") /\ Answers(FALSE)
       \/ r.keyed /\ r.printed /\ r.status = "live" /\ Answers(TRUE)
    /\ UNCHANGED <<conn, native, lease, mirror, mapping, runtime, pass, faults>>

\* create_native_scenario finds or creates by the key; the answer may be lost.
CreateScenario ==
    /\ request.at = "create"
    /\ \/ native' = [native EXCEPT !.scenario = TRUE]
          /\ \/ request' = [request EXCEPT !.at = "record"] /\ Calm
             \/ Answers(FALSE) /\ Fault
       \/ UNCHANGED native /\ Answers(FALSE) /\ Fault
    /\ UNCHANGED <<conn, lease, mirror, mapping, runtime, pass>>

\* record_created_resource: the connection must still be the one resolved, and a
\* row that has the key must have the fingerprint of this request.
RecordCreated ==
    LET r == mapping[request.version]
        admits == AcceptsGeneration(conn, request.version) /\ (r.keyed => r.printed)
    IN
    /\ request.at = "record"
    /\ \/ /\ admits
          /\ mapping' = [mapping EXCEPT ![request.version] =
                           [status |-> "live", keyed |-> TRUE, printed |-> TRUE]]
          /\ \/ Answers(TRUE) /\ Calm
             \/ Answers(FALSE) /\ Fault
       \/ ~admits /\ Answers(FALSE) /\ Calm /\ UNCHANGED mapping
       \/ admits /\ Answers(FALSE) /\ Fault /\ UNCHANGED mapping
    /\ UNCHANGED <<conn, native, lease, mirror, runtime, pass>>

-----------------------------------------------------------------------------

PassStep(p) ==
    \/ ClaimConnection(p) 
    \/ ScanRuns(p) \/ SyncRuns(p)
    \/ ListScenarios(p) \/ SyncScenarios(p) \/ ReleaseConnection(p)
    \/ \E v \in Versions : ClaimRun(p, v)
    \/ ResolveRun(p) \/ StartPipeline(p) \/ CreateReport(p)
    \/ MarkLaunched(p) \/ ReleaseRun(p)

RequestStep == ReplayCreated \/ CreateScenario \/ RecordCreated

NativeNext ==
    \/ \E p \in Passes : PassStep(p) \/ Crash(p)
    \/ LeaseExpires \/ \E v \in Versions : LaunchExpires(v)
    \/ RunAdvances \/ ToggleConnection \/ PatchConnection
    \/ RequestStep

NativeSpec == NativeInit /\ [][NativeNext]_vars

\* Passes keep running and poll a connection that stays due; the client repeats its
\* request; a claim nobody works on becomes overdue.
Fairness ==
    /\ \A p \in Passes : WF_vars(PassStep(p))
    /\ SF_vars(\E p \in Passes : ClaimConnection(p))
    /\ SF_vars(\E p \in Passes, v \in Versions : ClaimRun(p, v))
    /\ WF_vars(LeaseExpires) /\ WF_vars(\E v \in Versions : LaunchExpires(v))
    /\ WF_vars(RequestStep)

FairNativeSpec == NativeSpec /\ Fairness

-----------------------------------------------------------------------------
(* Properties.                                                             *)

\* "Durable native-run import and exactly-once reporting-launch ledger"
\* (persistence/models.py): over all passes and retries at most one reporting run is
\* created for the native run in each generation of the connection, not before it
\* has ended, and a row that says launched has one.  Over the generations the code
\* breaks the promise in one way only, a PATCH that repeats values: the run is
\* mirrored and reported again in a later generation of the very same connection,
\* never through one that was disabled or changed in between.
ReportedOnce ==
    /\ \A v, w \in Versions :
         reports[v] > 0 /\ reports[w] > 0 /\ v # w => Unaltered(conn, v)
    /\ \A v \in Versions :
         /\ reports[v] \in {0, 1}
         /\ reports[v] > 0 => native.run = "done"
         /\ mirror[v].pipeline = "launched" => reports[v] = 1

\* A snapshot taken before another one is never applied after it: once the mirror
\* has seen the run end, it never shows it running again.
EndedRunsStayEnded ==
    [][ \A v \in Versions :
          mirror[v].status = "done" => mirror'[v].status # "running" ]_vars

\* A run that has ended is reported, as long as its connection stays enabled,
\* whatever crash, stall, lost answer or faulty snapshot comes between; unless a
\* launch stamped its thread with less evidence than there is now (README).
EndedRunIsReported ==
    native.run = "done" ~> \/ \E v \in Versions : mirror[v].pipeline = "launched"
                           \/ \E v \in Versions : thread[v] = "bare"
                           \/ ~conn.enabled

\* "Caller-stable key for retry-safe native resource creation": once the provider
\* has the scenario, a client that repeats its request is told so; unless a poll
\* mirrored the key before the creation was recorded (README).
CreationIsAnswered ==
    native.scenario ~> \/ request.told
                       \/ \E v \in Versions : mapping[v].keyed /\ ~mapping[v].printed
                       \/ ~conn.enabled
=============================================================================
