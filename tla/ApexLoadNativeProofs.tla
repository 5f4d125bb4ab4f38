------------------------ MODULE ApexLoadNativeProofs ------------------------
(***************************************************************************)
(* Machine-checked proofs about ApexLoadNative, for any replicas and any   *)
(* number of generations and faults.                                       *)
(***************************************************************************)
EXTENDS ApexLoadNative, TLAPS

\* Nothing shows the run ended before it has; and a pass that holds the lease has
\* no snapshot that is older than the mirror.
SnapshotsInOrder ==
    /\ \A v \in Versions : mirror[v].status = "done" => native.run = "done"
    /\ \A p \in Passes :
         /\ pass[p].saw = "done" => native.run = "done"
         /\ pass[p].at = "sync" /\ pass[p].saw = "running" /\ HoldsClaim(p)
              => mirror[pass[p].version].status # "done"

\* The run is mirrored in a generation whose values the connection still has: they
\* are frozen, because no PATCH that changes them and no disable passes the
\* reference any more.
Frozen(v) == Unaltered(conn, v) /\ mirror[v].status # "none"

\* A launch that got past the resolution works on a frozen generation, and who
\* is about to create the report holds the lock of a thread without one.
LaunchesFrozen ==
    \A p \in Passes :
        /\ pass[p].at \in {"resolve", "start", "create"} => native.run = "done"
        /\ pass[p].at = "resolve" => mirror[pass[p].version].status # "none"
        /\ pass[p].at \in {"start", "create", "mark"} => Frozen(pass[p].version)
        /\ pass[p].at = "create" => lock[pass[p].version] = p /\ reports[pass[p].version] = 0
        /\ pass[p].at = "mark" => reports[pass[p].version] = 1

\* A report belongs to a frozen generation of a run that has ended, and a row
\* that says launched has one.
ReportsFrozen ==
    \A v \in Versions :
        /\ reports[v] \in {0, 1}
        /\ reports[v] = 1 => Frozen(v) /\ native.run = "done"
        /\ mirror[v].pipeline = "launched" => reports[v] = 1

\* The invariant of ReportedOnce.
ReportInv == NativeTypeOK /\ SnapshotsInOrder /\ LaunchesFrozen /\ ReportsFrozen
-----------------------------------------------------------------------------
(* Rows.                                                                   *)

\* A row under synchronisation stays a row, and the claim on it is not touched
\* while it is being launched.
LEMMA SyncedRowType ==
    ASSUME NEW r \in MirrorRow, NEW saw \in Seen,
           r.token # Nobody <=> r.pipeline = "launching", r.missing => r.pipeline = "stale"
    PROVE  LET s == SyncedRow(r, saw)
           IN  /\ s \in MirrorRow
               /\ s.token # Nobody <=> s.pipeline = "launching"
               /\ s.missing => s.pipeline = "stale"
  BY DEF SyncedRow, MirrorRow, Seen

\* What synchronisation does to the status: a complete snapshot without the run
\* never shows it, a row that exists stays, and launched is neither given nor taken.
LEMMA SyncedRowStatus ==
    ASSUME NEW r \in MirrorRow, NEW saw \in Seen, r.missing => r.pipeline = "stale"
    PROVE  LET s == SyncedRow(r, saw)
           IN  /\ s.status = "done" => saw = "done" \/ r.status = "done"
               /\ s.status = "running" => saw = "running" \/ r.status = "running"
               /\ s.status = "none" => r.status = "none"
               /\ s.pipeline = "launched" => r.pipeline = "launched"
  BY DEF SyncedRow, MirrorRow, Seen

\* The scenario's row stays a row.
LEMMA SyncedScenarioType ==
    ASSUME NativeAssumption, NEW r \in MappingRow, NEW saw
    PROVE  SyncedScenario(r, saw) \in MappingRow
  BY DEF SyncedScenario, MappingRow, NativeAssumption

\* The end of a claim keeps the rows and their status, and only its own row gets
\* the status it ends in.
LEMMA GiveUpRow ==
    ASSUME NativeTypeOK, NEW p \in Passes, NEW status \in {"retry", "stale", "launched"},
           GiveUp(p, status)
    PROVE  /\ mirror' \in [Versions -> MirrorRow]
           /\ \A v \in Versions :
                /\ mirror'[v].token # Nobody <=> mirror'[v].pipeline = "launching"
                /\ mirror'[v].missing => mirror'[v].pipeline = "stale"
                /\ mirror'[v].status = mirror[v].status
                /\ mirror'[v].pipeline = "launched" =>
                     \/ mirror[v].pipeline = "launched"
                     \/ status = "launched" /\ v = pass[p].version
  BY DEF GiveUp, HoldsRun, NativeTypeOK, MirrorRow, PassState

-----------------------------------------------------------------------------
(* Types.                                                                  *)

\* The initial state is typed.
LEMMA TypeInit == ASSUME NativeAssumption, NativeInit PROVE NativeTypeOK
  BY DEF NativeAssumption, NativeInit, NativeTypeOK, ConnectionOf, NewConnection, MirrorRow, MappingRow,
         PassState, Evidence, Seen, Idle, At, Versions, Provider, LeaseRow, RequestState

\* Wherever a pass goes and whatever it has seen, it stays typed.
LEMMA PassType ==
    ASSUME NativeTypeOK, NativeAssumption, NEW p \in Passes
    PROVE  /\ pass[p].version \in Versions /\ pass[p].saw \in Seen
           /\ \A q \in PassState : [pass EXCEPT ![p] = q] \in [Passes -> PassState]
           /\ Ends(p) => pass' \in [Passes -> PassState]
           /\ \A place \in Polling \cup Launching, v \in Versions : At(place, v) \in PassState
           /\ \A place \in Polling \cup Launching :
                Goes(p, place) => pass' \in [Passes -> PassState]
<1>1. 1 \in Versions BY DEF NativeAssumption, Versions
<1>2. Idle \in PassState BY <1>1 DEF At, Idle, PassState, Seen
<1>3. \A place \in Polling \cup Launching, v \in Versions : At(place, v) \in PassState
  BY DEF At, PassState, Seen
<1>4. pass \in [Passes -> PassState] BY DEF NativeTypeOK
<1>5. pass[p].version \in Versions /\ pass[p].saw \in Seen BY <1>4 DEF PassState
<1>6. \A q \in PassState : [pass EXCEPT ![p] = q] \in [Passes -> PassState] BY <1>4
<1>7. Ends(p) => pass' \in [Passes -> PassState] BY <1>2, <1>6 DEF Ends
<1>8. \A place \in Polling \cup Launching : Goes(p, place) => pass' \in [Passes -> PassState]
  BY <1>3, <1>5, <1>6 DEF Goes
<1> QED BY <1>3, <1>5, <1>6, <1>7, <1>8

\* A pass that goes on with what it saw, or with its evidence, stays typed.
LEMMA PassGoesOn ==
    ASSUME NativeTypeOK, NEW p \in Passes
    PROVE  /\ \A place \in Polling, saw \in Seen :
                [pass EXCEPT ![p].at = place, ![p].saw = saw] \in [Passes -> PassState]
           /\ \A evidence \in Evidence :
                [pass EXCEPT ![p].at = "start", ![p].evidence = evidence]
                    \in [Passes -> PassState]
<1>1. pass \in [Passes -> PassState] /\ pass[p] \in PassState BY DEF NativeTypeOK
<1>2. \A place \in Polling, saw \in Seen :
        [pass[p] EXCEPT !.at = place, !.saw = saw] \in PassState
  BY <1>1 DEF PassState
<1>3. \A evidence \in Evidence :
        [pass[p] EXCEPT !.at = "start", !.evidence = evidence] \in PassState
  BY <1>1 DEF PassState, Launching
<1> QED BY <1>1, <1>2, <1>3

\* Every step keeps the passes typed.
LEMMA PassesStep ==
    ASSUME NativeTypeOK, NativeAssumption, NativeNext
    PROVE  pass' \in [Passes -> PassState]
<1>1. pass \in [Passes -> PassState] BY DEF NativeTypeOK
<1>2. ASSUME NEW p \in Passes,
             \/ SyncRuns(p) \/ SyncScenarios(p) \/ ReleaseConnection(p) \/ StartPipeline(p)
             \/ CreateReport(p) \/ MarkLaunched(p) \/ ReleaseRun(p) \/ Crash(p)
      PROVE  pass' \in [Passes -> PassState]
  BY <1>2, PassType DEF SyncRuns, SyncScenarios, ReleaseConnection, StartPipeline,
     CreateReport, MarkLaunched, ReleaseRun, Crash, Polling, Launching
<1>3. ASSUME NEW p \in Passes, ClaimConnection(p) PROVE pass' \in [Passes -> PassState]
  <2>1. conn.version \in Versions BY DEF NativeTypeOK, ConnectionOf
  <2>2. At("scan", conn.version) \in PassState BY <2>1, PassType DEF Polling
  <2> QED BY <1>3, <2>2, PassType DEF ClaimConnection
<1>4. ASSUME NEW p \in Passes, NEW v \in Versions, ClaimRun(p, v)
      PROVE  pass' \in [Passes -> PassState]
  <2>1. At("resolve", v) \in PassState BY PassType DEF Launching
  <2> QED BY <1>4, <2>1, PassType DEF ClaimRun
<1>5. ASSUME NEW p \in Passes, ScanRuns(p) PROVE pass' \in [Passes -> PassState]
  <2>1. {native.run, "absent", "nothing"} \subseteq Seen BY DEF Seen, Provider, NativeTypeOK
  <2>2. \A saw \in {native.run, "absent", "nothing"} :
          [pass EXCEPT ![p].at = "sync", ![p].saw = saw] \in [Passes -> PassState]
    BY <2>1, PassGoesOn DEF Polling
  <2>3. \/ \E saw \in {native.run, "absent", "nothing"} :
             pass' = [pass EXCEPT ![p].at = "sync", ![p].saw = saw]
        \/ Goes(p, "release")
    BY <1>5 DEF ScanRuns
  <2>4. Goes(p, "release") => pass' \in [Passes -> PassState] BY PassType DEF Polling
  <2> QED BY <2>2, <2>3, <2>4
<1>6. ASSUME NEW p \in Passes, ListScenarios(p) PROVE pass' \in [Passes -> PassState]
  <2> DEFINE saw == IF native.scenario THEN "listed" ELSE "unlisted"
  <2>1. saw \in Seen BY DEF Seen
  <2>2. [pass EXCEPT ![p].at = "mirror", ![p].saw = saw] \in [Passes -> PassState]
    BY <2>1, PassGoesOn DEF Polling
  <2> QED BY <1>6, <2>2, PassType DEF ListScenarios, Polling
<1>7. ASSUME NEW p \in Passes, ResolveRun(p) PROVE pass' \in [Passes -> PassState]
  BY <1>7, PassType, PassGoesOn DEF ResolveRun, Launching, Evidence
<1>8. ASSUME LeaseExpires \/ (\E v \in Versions : LaunchExpires(v)) \/ RunAdvances
             \/ ToggleConnection \/ PatchConnection \/ RequestStep
      PROVE  UNCHANGED pass
  BY <1>8 DEF LeaseExpires, LaunchExpires, RunAdvances, ToggleConnection, PatchConnection,
     RequestStep, ReplayCreated, CreateScenario, RecordCreated
<1> QED BY <1>1, <1>2, <1>3, <1>4, <1>5, <1>6, <1>7, <1>8 DEF NativeNext, PassStep

\* Faults are counted up to their bound.
LEMMA FaultsStep ==
    ASSUME NativeTypeOK, NativeAssumption, NativeNext PROVE faults' \in 0 .. MaxFaults
<1>1. \A p \in Passes : PassStep(p) \/ Crash(p) => Calm \/ Fault
  BY DEF PassStep, ClaimConnection, ScanRuns, SyncRuns, ListScenarios, SyncScenarios,
     ReleaseConnection, ClaimRun, ResolveRun, StartPipeline, CreateReport, MarkLaunched,
     ReleaseRun, Crash, Calm
<1>2. LeaseExpires \/ (\E v \in Versions : LaunchExpires(v)) \/ RunAdvances
      \/ ToggleConnection \/ PatchConnection \/ RequestStep => Calm \/ Fault
  BY DEF LeaseExpires, LaunchExpires, RunAdvances, ToggleConnection, PatchConnection,
     RequestStep, ReplayCreated, CreateScenario, RecordCreated, Calm
<1>3. Calm \/ Fault BY <1>1, <1>2 DEF NativeNext
<1> QED BY <1>3 DEF Calm, Fault, NativeTypeOK, NativeAssumption

\* The other parts of NativeTypeOK: the claims on launches, and the other rows.
ClaimsTyped ==
    /\ mirror \in [Versions -> MirrorRow]
    /\ \A v \in Versions :
         /\ mirror[v].token # Nobody <=> mirror[v].pipeline = "launching"
         /\ mirror[v].missing => mirror[v].pipeline = "stale"

RowsTyped ==
    /\ conn \in ConnectionOf(Versions) /\ native \in Provider /\ lease \in LeaseRow
    /\ mapping \in [Versions -> MappingRow] /\ request \in RequestState
    /\ thread \in [Versions -> Evidence \cup {"none"}]
    /\ reports \in [Versions -> Nat] /\ lock \in [Versions -> Passes \cup {Nobody}]

\* The parts are the whole.
LEMMA TypedParts ==
    /\ NativeTypeOK => ClaimsTyped /\ RowsTyped
    /\ ClaimsTyped' /\ RowsTyped' /\ pass' \in [Passes -> PassState]
       /\ faults' \in 0 .. MaxFaults => NativeTypeOK'
  BY DEF NativeTypeOK, ClaimsTyped, RowsTyped

\* A claim is taken and given up together with the status launching, and a run
\* under launch is never marked missing.
LEMMA ClaimsStep ==
    ASSUME NativeTypeOK, NativeAssumption, NativeNext PROVE ClaimsTyped'
<1> USE DEF ClaimsTyped
<1>1. ClaimsTyped BY TypedParts
<1>2. ASSUME NEW p \in Passes, SyncRuns(p) PROVE ClaimsTyped'
  <2>1. CASE mirror' = [mirror EXCEPT ![pass[p].version] = SyncedRow(@, pass[p].saw)]
    <3> DEFINE v == pass[p].version
               s == SyncedRow(mirror[v], pass[p].saw)
    <3>1. v \in Versions /\ pass[p].saw \in Seen BY PassType
    <3>2. /\ s \in MirrorRow
          /\ s.token # Nobody <=> s.pipeline = "launching"
          /\ s.missing => s.pipeline = "stale"
      BY <1>1, <3>1, SyncedRowType
    <3>3. mirror' = [mirror EXCEPT ![v] = s] BY <2>1
    <3> HIDE DEF s, v
    <3> QED BY <1>1, <3>1, <3>2, <3>3
  <2> QED BY <1>1, <1>2, <2>1 DEF SyncRuns
<1>3. ASSUME NEW p \in Passes, NEW v \in Versions, ClaimRun(p, v) PROVE ClaimsTyped'
  <2>1. p # Nobody BY DEF NativeAssumption
  <2> DEFINE row == [mirror[v] EXCEPT !.pipeline = "launching", !.token = p,
                                      !.stale = FALSE, !.missing = FALSE]
  <2>2. mirror[v] \in MirrorRow BY <1>1
  <2>3. row \in MirrorRow /\ row.token = p /\ row.pipeline = "launching" /\ ~row.missing
    BY <2>2 DEF MirrorRow
  <2>4. mirror' = [mirror EXCEPT ![v] = row] BY <1>3 DEF ClaimRun
  <2> HIDE DEF row
  <2> QED BY <1>1, <2>1, <2>3, <2>4
<1>4. ASSUME NEW p \in Passes, ResolveRun(p) \/ MarkLaunched(p) \/ ReleaseRun(p)
      PROVE  ClaimsTyped'
  <2>1. \A status \in {"retry", "stale", "launched"} : GiveUp(p, status) => ClaimsTyped'
    BY GiveUpRow
  <2> QED BY <1>1, <1>4, <2>1 DEF ResolveRun, MarkLaunched, ReleaseRun
<1>5. ASSUME NEW v \in Versions, LaunchExpires(v) PROVE ClaimsTyped'
  BY <1>1, <1>5 DEF LaunchExpires, MirrorRow
<1>6. CASE UNCHANGED mirror
  BY <1>1, <1>6
<1>7. ASSUME NEW p \in Passes, Crash(p) PROVE UNCHANGED mirror
  BY <1>7 DEF Crash
<1>8. ASSUME NEW p \in Passes,
             \/ ClaimConnection(p) \/ ScanRuns(p) \/ ListScenarios(p) \/ SyncScenarios(p)
             \/ ReleaseConnection(p) \/ StartPipeline(p) \/ CreateReport(p)
      PROVE  UNCHANGED mirror
  BY <1>8 DEF ClaimConnection, ScanRuns, ListScenarios, SyncScenarios, ReleaseConnection,
              StartPipeline, CreateReport
<1>9. ASSUME LeaseExpires \/ RunAdvances \/ ToggleConnection \/ PatchConnection \/ RequestStep
      PROVE  UNCHANGED mirror
  BY <1>9 DEF LeaseExpires, RunAdvances, ToggleConnection, PatchConnection, RequestStep,
              ReplayCreated, CreateScenario, RecordCreated
<1> QED BY <1>2, <1>3, <1>4, <1>5, <1>6, <1>7, <1>8, <1>9 DEF NativeNext, PassStep

\* Every step of polling keeps the other rows typed.
LEMMA TypePolling ==
    ASSUME NativeTypeOK, NEW p \in Passes
    PROVE  (\/ ClaimConnection(p) \/ ScanRuns(p) \/ SyncRuns(p)
            \/ ListScenarios(p) \/ SyncScenarios(p) \/ ReleaseConnection(p))
           => RowsTyped'
<1> USE DEF RowsTyped, runtime
<1>1. RowsTyped BY TypedParts
<1>2. CASE ClaimConnection(p)
  <2>1. lease' \in LeaseRow BY <1>1, <1>2 DEF ClaimConnection, LeaseRow, ConnectionOf
  <2> QED BY <1>1, <1>2, <2>1 DEF ClaimConnection
<1>3. CASE ScanRuns(p) \/ SyncRuns(p) \/ ListScenarios(p)
  BY <1>1, <1>3 DEF ScanRuns, SyncRuns, ListScenarios
<1>4. CASE SyncScenarios(p)
  <2>1. mapping' \in [Versions -> MappingRow]
    BY <1>1, <1>4, SyncedScenarioType, NativeAssumption DEF SyncScenarios
  <2> QED BY <1>1, <1>4, <2>1 DEF SyncScenarios
<1>5. CASE ReleaseConnection(p)
  <2>1. lease' \in LeaseRow BY <1>1, <1>5 DEF ReleaseConnection, LeaseRow
  <2> QED BY <1>1, <1>5, <2>1 DEF ReleaseConnection
<1> QED BY <1>2, <1>3, <1>4, <1>5

\* Every step of a launch keeps them typed.
LEMMA TypeLaunching ==
    ASSUME NativeTypeOK, NEW p \in Passes
    PROVE  (\/ \E v \in Versions : ClaimRun(p, v)
            \/ ResolveRun(p) \/ StartPipeline(p) \/ CreateReport(p)
            \/ MarkLaunched(p) \/ ReleaseRun(p) \/ Crash(p))
           => RowsTyped'
<1> USE DEF RowsTyped, runtime
<1>1. RowsTyped BY TypedParts
<1>2. CASE \/ \E v \in Versions : ClaimRun(p, v)
           \/ ResolveRun(p) \/ MarkLaunched(p) \/ ReleaseRun(p)
  BY <1>1, <1>2 DEF ClaimRun, ResolveRun, MarkLaunched, ReleaseRun
<1>3. CASE StartPipeline(p)
  <2>1. pass[p].evidence \in Evidence \cup {"none"} BY DEF NativeTypeOK, PassState
  <2>2. /\ thread' \in [Versions -> Evidence \cup {"none"}]
        /\ lock' \in [Versions -> Passes \cup {Nobody}]
    BY <1>1, <1>3, <2>1 DEF StartPipeline
  <2> QED BY <1>1, <1>3, <2>2 DEF StartPipeline
<1>4. CASE CreateReport(p) \/ Crash(p)
  <2>1. reports' \in [Versions -> Nat] /\ lock' \in [Versions -> Passes \cup {Nobody}]
    BY <1>1, <1>4 DEF CreateReport, Crash
  <2> QED BY <1>1, <1>4, <2>1 DEF CreateReport, Crash
<1> QED BY <1>2, <1>3, <1>4

\* So do time, the provider, administrators and the client.
LEMMA TypeOthers ==
    ASSUME NativeTypeOK, NativeAssumption
    PROVE  (\/ LeaseExpires \/ (\E v \in Versions : LaunchExpires(v)) \/ RunAdvances
            \/ ToggleConnection \/ PatchConnection \/ RequestStep)
           => RowsTyped'
<1> USE DEF RowsTyped, runtime
<1>1. RowsTyped BY TypedParts
<1>2. CASE LeaseExpires
  <2>1. lease' \in LeaseRow BY <1>1, <1>2 DEF LeaseExpires, LeaseRow
  <2> QED BY <1>1, <1>2, <2>1 DEF LeaseExpires
<1>3. CASE (\E v \in Versions : LaunchExpires(v))
  BY <1>1, <1>3 DEF LaunchExpires
<1>4. CASE RunAdvances
  <2>1. native' \in Provider BY <1>1, <1>4 DEF RunAdvances, Provider
  <2> QED BY <1>1, <1>4, <2>1 DEF RunAdvances
<1>5. CASE ToggleConnection \/ PatchConnection
  <2>1. MaxVersion \in Nat BY DEF NativeAssumption
  <2>2. /\ conn.version \in 1 .. MaxVersion /\ conn.since \in 1 .. MaxVersion
        /\ conn.since <= conn.version
        /\ conn \in [enabled : BOOLEAN, version : Versions, since : Versions]
    BY <1>1 DEF ConnectionOf, Versions
  <2>3. conn.version < MaxVersion BY <1>5 DEF ToggleConnection, PatchConnection
  <2>4. conn.version + 1 \in Versions BY <2>1, <2>2, <2>3 DEF Versions
  <2>5. conn' \in ConnectionOf(Versions)
    <3>1. CASE ToggleConnection
      BY <2>1, <2>2, <2>4, <3>1 DEF ToggleConnection, Toggled, Altered, ConnectionOf, Versions
    <3>2. CASE PatchConnection
      BY <2>1, <2>2, <2>4, <3>2 DEF PatchConnection, Repeated, ConnectionOf, Versions
    <3> QED BY <1>5, <3>1, <3>2
  <2> QED BY <1>1, <1>5, <2>5 DEF ToggleConnection, PatchConnection
<1>6. CASE RequestStep
  <2>1. 1 \in Versions BY DEF Versions, NativeAssumption
  <2>2. \A told \in BOOLEAN : Answers(told) => request' \in RequestState
    BY <2>1 DEF Answers, RequestState
  <2>3. CASE ReplayCreated
    <3>0. conn.version \in Versions BY <1>1 DEF ConnectionOf
    <3>1. request' \in RequestState
      <4>1. [at |-> "create", version |-> conn.version, told |-> FALSE] \in RequestState
        BY <3>0 DEF RequestState
      <4> QED BY <4>1, <2>2, <2>3 DEF ReplayCreated
    <3> QED BY <1>1, <2>3, <3>1 DEF ReplayCreated
  <2>4. CASE CreateScenario
    <3>1. request' \in RequestState /\ native' \in Provider
      BY <1>1, <2>2, <2>4 DEF CreateScenario, RequestState, Provider
    <3> QED BY <1>1, <2>4, <3>1 DEF CreateScenario
  <2>5. CASE RecordCreated
    <3>1. request' \in RequestState BY <2>2, <2>5 DEF RecordCreated
    <3>2. [status |-> "live", keyed |-> TRUE, printed |-> TRUE] \in MappingRow BY DEF MappingRow
    <3>3. mapping' \in [Versions -> MappingRow] BY <1>1, <2>5, <3>2 DEF RecordCreated
    <3> QED BY <1>1, <2>5, <3>1, <3>3 DEF RecordCreated
  <2> QED BY <1>6, <2>3, <2>4, <2>5 DEF RequestStep
<1> QED BY <1>2, <1>3, <1>4, <1>5, <1>6

\* Every step keeps the types.
LEMMA TypeStep ==
    ASSUME NativeTypeOK, NativeAssumption, [NativeNext]_vars PROVE NativeTypeOK'
<1>1. CASE NativeNext
  <2>1. RowsTyped'
    BY <1>1, TypePolling, TypeLaunching, TypeOthers DEF NativeNext, PassStep
  <2> QED BY <1>1, <2>1, ClaimsStep, PassesStep, FaultsStep, TypedParts
<1>2. CASE UNCHANGED vars
  BY <1>2 DEF vars, runtime, NativeTypeOK
<1> QED BY <1>1, <1>2

\* Rows, passes, leases and locks keep their types, and a launch claim is held by
\* a row under launch and only by one, for any number of replicas and generations.
THEOREM NativeTypeCorrect == NativeSpec => []NativeTypeOK
<1>1. NativeInit => NativeTypeOK BY TypeInit, NativeAssumption
<1>2. NativeTypeOK /\ [NativeNext]_vars => NativeTypeOK' BY TypeStep, NativeAssumption
<1> QED BY <1>1, <1>2, PTL DEF NativeSpec
-----------------------------------------------------------------------------
(* What a step does, to the rows, to a pass, to the reports and the locks. *)

\* A row that exists stays; a status comes from a snapshot applied under the lease;
\* and only a launch ends in launched.
LEMMA MirrorStep ==
    ASSUME NativeTypeOK, NativeAssumption, NativeNext, NEW v \in Versions
    PROVE  /\ mirror'[v].status = "none" => mirror[v].status = "none"
           /\ \A status \in {"done", "running"} :
                mirror'[v].status = status =>
                  \/ mirror[v].status = status
                  \/ \E p \in Passes : /\ SyncRuns(p) /\ HoldsClaim(p)
                                       /\ pass[p].version = v /\ pass[p].saw = status
           /\ mirror'[v].pipeline = "launched" =>
                \/ mirror[v].pipeline = "launched"
                \/ \E p \in Passes : MarkLaunched(p) /\ v = pass[p].version
<1> DEFINE Result ==
      /\ mirror'[v].status = "none" => mirror[v].status = "none"
      /\ \A status \in {"done", "running"} :
           mirror'[v].status = status =>
             \/ mirror[v].status = status
             \/ \E p \in Passes : /\ SyncRuns(p) /\ HoldsClaim(p)
                                  /\ pass[p].version = v /\ pass[p].saw = status
      /\ mirror'[v].pipeline = "launched" =>
           \/ mirror[v].pipeline = "launched"
           \/ \E p \in Passes : MarkLaunched(p) /\ v = pass[p].version
<1>1. ClaimsTyped BY TypedParts
<1>2. ASSUME mirror' = mirror PROVE Result BY <1>2
<1>3. ASSUME NEW p \in Passes, SyncRuns(p) PROVE Result
  <2>1. CASE /\ HoldsClaim(p)
             /\ mirror' = [mirror EXCEPT ![pass[p].version] = SyncedRow(@, pass[p].saw)]
    <3>1. pass[p].saw \in Seen BY PassType
    <3>2. CASE pass[p].version = v
      <4> DEFINE row == SyncedRow(mirror[v], pass[p].saw)
      <4>1. mirror[v] \in MirrorRow /\ mirror[v].missing => mirror[v].pipeline = "stale"
        BY <1>1 DEF ClaimsTyped
      <4>2. mirror[v] \in MirrorRow BY <1>1 DEF ClaimsTyped
      <4>3. /\ row.status = "done" => pass[p].saw = "done" \/ mirror[v].status = "done"
            /\ row.status = "running" => pass[p].saw = "running" \/ mirror[v].status = "running"
            /\ row.status = "none" => mirror[v].status = "none"
            /\ row.pipeline = "launched" => mirror[v].pipeline = "launched"
        BY <3>1, <4>1, <4>2, SyncedRowStatus
      <4>4. mirror'[v] = row BY <1>1, <2>1, <3>2 DEF ClaimsTyped
      <4> HIDE DEF row
      <4> QED BY <1>3, <2>1, <3>2, <4>3, <4>4
    <3>3. CASE pass[p].version # v
      <4>1. mirror'[v] = mirror[v] BY <1>1, <2>1, <3>3 DEF ClaimsTyped
      <4> QED BY <4>1
    <3> QED BY <3>2, <3>3
  <2> QED BY <1>2, <1>3, <2>1 DEF SyncRuns
<1>4. ASSUME NEW p \in Passes, NEW w \in Versions, ClaimRun(p, w) PROVE Result
  <2>1. mirror'[v].status = mirror[v].status
    BY <1>1, <1>4 DEF ClaimRun, ClaimsTyped, MirrorRow
  <2>2. mirror'[v].pipeline = "launched" => mirror[v].pipeline = "launched"
    BY <1>1, <1>4 DEF ClaimRun, ClaimsTyped, MirrorRow
  <2> QED BY <2>1, <2>2
<1>5. ASSUME NEW p \in Passes, ResolveRun(p) \/ MarkLaunched(p) \/ ReleaseRun(p)
      PROVE  Result
  <2>1. ASSUME NEW status \in {"retry", "stale", "launched"}, GiveUp(p, status),
               status = "launched" => MarkLaunched(p)
        PROVE  Result
    BY <2>1, GiveUpRow
  <2>2. mirror' = mirror \/ GiveUp(p, "stale") \/ GiveUp(p, "retry")
        \/ (GiveUp(p, "launched") /\ MarkLaunched(p))
    BY <1>5 DEF ResolveRun, MarkLaunched, ReleaseRun
  <2> QED BY <1>2, <2>1, <2>2
<1>6. ASSUME NEW w \in Versions, LaunchExpires(w) PROVE Result
  <2>1. /\ mirror'[v].status = mirror[v].status /\ mirror'[v].pipeline = mirror[v].pipeline
    BY <1>1, <1>6 DEF LaunchExpires, ClaimsTyped, MirrorRow
  <2> QED BY <2>1
<1>7. ASSUME NEW p \in Passes,
             \/ ClaimConnection(p) \/ ScanRuns(p) \/ ListScenarios(p) \/ SyncScenarios(p)
             \/ ReleaseConnection(p) \/ StartPipeline(p) \/ CreateReport(p) \/ Crash(p)
      PROVE  mirror' = mirror
  BY <1>7 DEF ClaimConnection, ScanRuns, ListScenarios, SyncScenarios, ReleaseConnection,
              StartPipeline, CreateReport, Crash
<1>8. ASSUME LeaseExpires \/ RunAdvances \/ ToggleConnection \/ PatchConnection \/ RequestStep
      PROVE  mirror' = mirror
  BY <1>8 DEF LeaseExpires, RunAdvances, ToggleConnection, PatchConnection, RequestStep,
              ReplayCreated, CreateScenario, RecordCreated
<1> HIDE DEF Result
<1>9. ASSUME NEW p \in Passes, PassStep(p) \/ Crash(p) PROVE Result
  BY <1>2, <1>3, <1>4, <1>5, <1>7, <1>9 DEF PassStep
<1>10. Result BY <1>2, <1>6, <1>8, <1>9 DEF NativeNext
<1> QED BY <1>10 DEF Result

\* A run that has ended has ended.
LEMMA RunStays ==
    ASSUME NativeTypeOK, NativeNext, native.run = "done" PROVE native'.run = "done"
<1>1. native \in Provider BY DEF NativeTypeOK
<1>2. ASSUME NEW p \in Passes, PassStep(p) \/ Crash(p) PROVE native' = native
  BY <1>2 DEF PassStep, Crash, ClaimConnection, ScanRuns, SyncRuns, ListScenarios,
     SyncScenarios, ReleaseConnection, ClaimRun, ResolveRun, StartPipeline, CreateReport,
     MarkLaunched, ReleaseRun
<1>3. CASE CreateScenario BY <1>1, <1>3 DEF CreateScenario, Provider
<1>4. ASSUME LeaseExpires \/ (\E v \in Versions : LaunchExpires(v)) \/ RunAdvances
             \/ ToggleConnection \/ PatchConnection \/ ReplayCreated \/ RecordCreated
      PROVE  native' = native
  BY <1>4 DEF LeaseExpires, LaunchExpires, RunAdvances, ToggleConnection, PatchConnection,
     ReplayCreated, RecordCreated
<1> QED BY <1>2, <1>3, <1>4 DEF NativeNext, RequestStep

\* The connection the run is mirrored from can be neither disabled nor changed: a
\* PATCH repeats what is there.
LEMMA FrozenStep ==
    ASSUME NativeTypeOK, NativeAssumption, NativeNext, NEW v \in Versions, Frozen(v)
    PROVE  Frozen(v)'
<1>1. Referenced /\ conn.enabled BY DEF Frozen, Unaltered, Referenced
<1>2. ~ToggleConnection BY <1>1 DEF ToggleConnection
<1>3. ASSUME NEW p \in Passes, PassStep(p) \/ Crash(p) PROVE conn' = conn
  BY <1>3 DEF PassStep, Crash, ClaimConnection, ScanRuns, SyncRuns, ListScenarios,
     SyncScenarios, ReleaseConnection, ClaimRun, ResolveRun, StartPipeline, CreateReport,
     MarkLaunched, ReleaseRun
<1>4. ASSUME LeaseExpires \/ (\E w \in Versions : LaunchExpires(w)) \/ RunAdvances
             \/ RequestStep
      PROVE  conn' = conn
  BY <1>4 DEF LeaseExpires, LaunchExpires, RunAdvances, RequestStep, ReplayCreated,
     CreateScenario, RecordCreated
<1>5. conn' = conn \/ conn' = Repeated(conn)
  BY <1>2, <1>3, <1>4 DEF NativeNext, PatchConnection
<1>6. Unaltered(conn', v)
  <2>1. /\ conn \in [enabled : BOOLEAN, version : Versions, since : Versions]
        /\ conn.version \in Nat /\ v \in Nat
    BY DEF NativeTypeOK, ConnectionOf, Versions
  <2>2. Unaltered(conn, v) BY DEF Frozen
  <2> QED BY <1>5, <2>1, <2>2 DEF Repeated, Unaltered
<1>7. mirror'[v].status # "none" BY MirrorStep DEF Frozen
<1> QED BY <1>6, <1>7 DEF Frozen, Unaltered

\* A pass gets to a place only from the places, and under the conditions, named here.
LEMMA PassAfter ==
    ASSUME NativeTypeOK, NativeAssumption, NEW p \in Passes, PassStep(p) \/ Crash(p)
    PROVE  LET now == pass[p]
               next == pass'[p]
               v == pass[p].version
           IN  /\ next.saw = "done" => now.saw = "done" \/ native.run = "done"
               /\ next.at = "sync" => next.saw \in {native.run, "absent", "nothing"} /\ mirror' = mirror
               /\ next.at = "resolve" =>
                    \E w \in Versions : next.version = w /\ mirror[w].status = "done"
               /\ next.at \in {"start", "create", "mark"} => next.version = v
               /\ next.at = "start" => now.at = "resolve" /\ AcceptsGeneration(conn, v)
               /\ next.at = "create" =>
                    /\ now.at = "start" /\ reports[v] = 0 /\ reports' = reports /\ lock'[v] = p
               /\ next.at = "mark" =>
                    \/ now.at = "start" /\ reports[v] > 0 /\ reports' = reports
                    \/ now.at = "create" /\ reports' = [reports EXCEPT ![v] = @ + 1]
<1> USE DEF Ends, Goes, At, Idle
<1>1. /\ pass \in [Passes -> PassState] /\ pass[p] \in PassState
      /\ lock \in [Versions -> Passes \cup {Nobody}] /\ reports \in [Versions -> Nat]
      /\ pass[p].version \in Versions
  BY PassType DEF NativeTypeOK
<1>2. CASE ClaimConnection(p) BY <1>1, <1>2 DEF ClaimConnection
<1>3. CASE ScanRuns(p)
  <2>1. native.run \in {"running", "done"} BY DEF NativeTypeOK, Provider
  <2> QED BY <1>1, <1>3, <2>1 DEF ScanRuns, PassState
<1>4. CASE SyncRuns(p) BY <1>1, <1>4 DEF SyncRuns
<1>5. CASE ListScenarios(p) BY <1>1, <1>5 DEF ListScenarios, PassState
<1>6. CASE SyncScenarios(p) BY <1>1, <1>6 DEF SyncScenarios
<1>7. CASE ReleaseConnection(p) BY <1>1, <1>7 DEF ReleaseConnection
<1>8. CASE \E w \in Versions : ClaimRun(p, w) BY <1>1, <1>8 DEF ClaimRun, Claimable
<1>9. CASE ResolveRun(p)
  <2>1. CASE pass'[p].at # "start"
    <3>1. pass'[p].at \in {"idle", "unclaim"} /\ pass'[p].saw = "nothing"
      BY <1>1, <1>9, <2>1 DEF ResolveRun, PassState
    <3> QED BY <3>1
  <2>2. CASE pass'[p].at = "start"
    <3>1. /\ AcceptsGeneration(conn, pass[p].version) /\ pass[p].at = "resolve"
          /\ pass'[p].version = pass[p].version /\ pass'[p].saw = pass[p].saw
      BY <1>1, <1>9, <2>2 DEF ResolveRun, PassState
    <3> QED BY <2>2, <3>1
  <2> QED BY <2>1, <2>2
<1>10. CASE StartPipeline(p) BY <1>1, <1>10 DEF StartPipeline
<1>11. CASE CreateReport(p) BY <1>1, <1>11 DEF CreateReport
<1>12. CASE MarkLaunched(p) BY <1>1, <1>12 DEF MarkLaunched
<1>13. CASE ReleaseRun(p) BY <1>1, <1>13 DEF ReleaseRun
<1>14. CASE Crash(p) BY <1>1, <1>14 DEF Crash
<1> QED BY <1>2, <1>3, <1>4, <1>5, <1>6, <1>7, <1>8, <1>9, <1>10, <1>11, <1>12, <1>13, <1>14
        DEF PassStep

\* A pass moves itself; a report is created, and a held lock freed, only by who is
\* about to create.
LEMMA OthersAfter ==
    ASSUME NativeTypeOK, NativeAssumption, NEW p \in Passes, PassStep(p) \/ Crash(p)
    PROVE  /\ \A q \in Passes \ {p} : pass'[q] = pass[q]
           /\ \/ reports' = reports
              \/ /\ pass[p].at = "create"
                 /\ reports' = [reports EXCEPT ![pass[p].version] = @ + 1]
           /\ \A v \in Versions : lock[v] \in Passes \ {p} =>
                lock'[v] = lock[v] \/ (pass[p].at = "create" /\ pass[p].version = v)
<1>1. /\ pass \in [Passes -> PassState]
      /\ lock \in [Versions -> Passes \cup {Nobody}] /\ Nobody \notin Passes
  BY DEF NativeTypeOK, NativeAssumption
<1>2. \A q \in Passes \ {p} : pass'[q] = pass[q]
  BY <1>1 DEF Ends, Goes, PassStep, ClaimConnection, ScanRuns, SyncRuns, ListScenarios,
     SyncScenarios, ReleaseConnection, ClaimRun, ResolveRun, StartPipeline, CreateReport,
     MarkLaunched, ReleaseRun, Crash
<1>3. CASE CreateReport(p) BY <1>1, <1>2, <1>3 DEF CreateReport
<1>4. CASE Crash(p) BY <1>1, <1>2, <1>4 DEF Crash
<1>5. CASE StartPipeline(p) BY <1>1, <1>2, <1>5 DEF StartPipeline, LockFree
<1>6. CASE /\ PassStep(p)
           /\ ~CreateReport(p) /\ ~StartPipeline(p)
  BY <1>2, <1>6 DEF PassStep, ClaimConnection, ScanRuns, SyncRuns, ListScenarios,
     SyncScenarios, ReleaseConnection, ClaimRun, ResolveRun, MarkLaunched, ReleaseRun, runtime
<1> QED BY <1>3, <1>4, <1>5, <1>6

\* Nobody but the passes touches passes, reports or locks.
LEMMA EnvironmentAfter ==
    ASSUME NativeNext, ~(\E p \in Passes : PassStep(p) \/ Crash(p))
    PROVE  pass' = pass /\ reports' = reports /\ lock' = lock
  BY DEF NativeNext, LeaseExpires, LaunchExpires, RunAdvances, ToggleConnection,
     PatchConnection, RequestStep, ReplayCreated, CreateScenario, RecordCreated, runtime

-----------------------------------------------------------------------------
(* The snapshots.                                                          *)

\* At the start nothing has been seen.
LEMMA SnapshotsInit == ASSUME NativeAssumption, NativeInit PROVE SnapshotsInOrder
  BY DEF NativeInit, SnapshotsInOrder, Idle, At

\* The lease is taken over only by a pass that has yet to take its snapshot.
LEMMA LeaseAfter ==
    ASSUME NativeTypeOK, NativeAssumption, NativeNext, NEW q \in Passes,
           lease'.token = q, pass'[q].at = "sync"
    PROVE  lease'.token = lease.token /\ lease'.version = lease.version
<1>1. lease \in LeaseRow /\ pass \in [Passes -> PassState] /\ q # Nobody
  BY DEF NativeTypeOK, NativeAssumption
<1>2. ASSUME NEW p \in Passes, ClaimConnection(p) PROVE FALSE
  BY <1>1, <1>2 DEF ClaimConnection, At
<1>3. ASSUME NEW p \in Passes, ReleaseConnection(p)
      PROVE  lease'.token = lease.token /\ lease'.version = lease.version
  BY <1>1, <1>3 DEF ReleaseConnection, LeaseRow
<1>4. ASSUME LeaseExpires PROVE lease'.token = lease.token /\ lease'.version = lease.version
  BY <1>1, <1>4 DEF LeaseExpires, LeaseRow
<1>5. ASSUME NEW p \in Passes,
             \/ ScanRuns(p) \/ SyncRuns(p) \/ ListScenarios(p) \/ SyncScenarios(p)
             \/ (\E v \in Versions : ClaimRun(p, v)) \/ ResolveRun(p) \/ StartPipeline(p)
             \/ CreateReport(p) \/ MarkLaunched(p) \/ ReleaseRun(p) \/ Crash(p)
      PROVE  lease' = lease
  BY <1>5 DEF ScanRuns, SyncRuns, ListScenarios, SyncScenarios, ClaimRun, ResolveRun,
     StartPipeline, CreateReport, MarkLaunched, ReleaseRun, Crash
<1>6. ASSUME (\E v \in Versions : LaunchExpires(v)) \/ RunAdvances \/ ToggleConnection
             \/ PatchConnection \/ RequestStep
      PROVE  lease' = lease
  BY <1>6 DEF LaunchExpires, RunAdvances, ToggleConnection, PatchConnection, RequestStep,
     ReplayCreated, CreateScenario, RecordCreated
<1> QED BY <1>2, <1>3, <1>4, <1>5, <1>6 DEF NativeNext, PassStep

\* Every step keeps the snapshots in order.
LEMMA SnapshotsStep ==
    ASSUME NativeTypeOK, SnapshotsInOrder, NativeAssumption, NativeNext
    PROVE  SnapshotsInOrder'
<1>1. pass \in [Passes -> PassState] /\ native \in Provider BY DEF NativeTypeOK
<1>2. ASSUME NEW v \in Versions, mirror'[v].status = "done" PROVE native'.run = "done"
  <2>1. mirror[v].status = "done" \/ \E p \in Passes : pass[p].saw = "done"
    BY <1>2, MirrorStep
  <2> QED BY <2>1, RunStays DEF SnapshotsInOrder
<1>3. ASSUME NEW q \in Passes, pass'[q].saw = "done" PROVE native'.run = "done"
  <2>1. pass[q].saw = "done" \/ native.run = "done"
    BY <1>3, PassAfter, OthersAfter, EnvironmentAfter
  <2> QED BY <2>1, RunStays DEF SnapshotsInOrder
<1>4. ASSUME NEW q \in Passes, pass'[q].at = "sync", pass'[q].saw = "running",
             HoldsClaim(q)', mirror'[pass'[q].version].status = "done"
      PROVE  FALSE
  <2> DEFINE v == pass'[q].version
  <2>1. v \in Versions BY PassesStep DEF PassState
  <2>2. CASE pass'[q] = pass[q]
    <3>1. HoldsClaim(q) BY <1>4, <2>2, LeaseAfter DEF HoldsClaim
    <3>2. mirror[v].status # "done" BY <1>4, <2>2, <3>1 DEF SnapshotsInOrder
    <3>3. PICK p \in Passes : /\ SyncRuns(p) /\ HoldsClaim(p)
                              /\ pass[p].version = v /\ pass[p].saw = "done"
      BY <1>4, <2>1, <3>2, MirrorStep
    <3>4. p = q BY <3>1, <3>3 DEF HoldsClaim
    <3> QED BY <1>4, <2>2, <3>3, <3>4
  <2>3. CASE pass'[q] # pass[q]
    <3>1. PassStep(q) \/ Crash(q) BY <2>3, OthersAfter, EnvironmentAfter
    <3>2. native.run = "running" /\ mirror' = mirror BY <1>4, <3>1, PassAfter
    <3> QED BY <1>4, <2>1, <3>2 DEF SnapshotsInOrder
  <2> QED BY <2>2, <2>3
<1> QED BY <1>2, <1>3, <1>4 DEF SnapshotsInOrder

\* A snapshot that would show a run running again is refused.
LEMMA StepKeepsEnded ==
    ASSUME NativeTypeOK, SnapshotsInOrder, NativeAssumption, [NativeNext]_vars,
           NEW v \in Versions, mirror[v].status = "done"
    PROVE  mirror'[v].status # "running"
<1>1. CASE UNCHANGED vars BY <1>1 DEF vars
<1>2. CASE NativeNext
  <2> SUFFICES ASSUME mirror'[v].status = "running" PROVE FALSE OBVIOUS
  <2>1. PICK p \in Passes : /\ SyncRuns(p) /\ HoldsClaim(p)
                            /\ pass[p].version = v /\ pass[p].saw = "running"
    BY <1>2, MirrorStep
  <2> QED BY <2>1 DEF SnapshotsInOrder, SyncRuns
<1> QED BY <1>1, <1>2

\* A snapshot taken before another one is never applied after it: once the mirror has
\* seen the run end, no pass of any replica shows it running again.
THEOREM EndedStayEnded == NativeSpec => EndedRunsStayEnded
<1> DEFINE Inv == NativeTypeOK /\ SnapshotsInOrder
<1>1. NativeInit => Inv BY TypeInit, SnapshotsInit, NativeAssumption
<1>2. Inv /\ [NativeNext]_vars => Inv'
  <2>1. CASE NativeNext BY <2>1, TypeStep, SnapshotsStep, NativeAssumption
  <2>2. ASSUME Inv, UNCHANGED vars PROVE SnapshotsInOrder'
    BY <2>2 DEF vars, SnapshotsInOrder, HoldsClaim
  <2> QED BY <2>1, <2>2, TypeStep, NativeAssumption
<1>3. Inv /\ [NativeNext]_vars
      => [\A v \in Versions : mirror[v].status = "done" => mirror'[v].status # "running"]_vars
  BY StepKeepsEnded, NativeAssumption
<1> QED BY <1>1, <1>2, <1>3, PTL DEF NativeSpec, EndedRunsStayEnded

-----------------------------------------------------------------------------
(* The launches and the reports.                                           *)

\* At the start there is neither a launch nor a report.
LEMMA ReportsInit ==
    ASSUME NativeAssumption, NativeInit PROVE LaunchesFrozen /\ ReportsFrozen
  BY DEF NativeInit, LaunchesFrozen, ReportsFrozen, Idle, At

\* Every step keeps the launches in frozen generations, one of them at a time.
LEMMA LaunchesStep ==
    ASSUME ReportInv, NativeAssumption, NativeNext
    PROVE  LaunchesFrozen'
<1> USE DEF ReportInv
<1>1. /\ pass \in [Passes -> PassState] /\ pass' \in [Passes -> PassState]
      /\ reports \in [Versions -> Nat] /\ lock \in [Versions -> Passes \cup {Nobody}]
      /\ Nobody \notin Passes
  BY PassesStep DEF NativeTypeOK, NativeAssumption
<1> SUFFICES ASSUME NEW q \in Passes, NEW v \in Versions, v = pass'[q].version
             PROVE  /\ pass'[q].at \in {"resolve", "start", "create"} => native'.run = "done"
                    /\ pass'[q].at = "resolve" => mirror'[v].status # "none"
                    /\ pass'[q].at \in {"start", "create", "mark"} => Frozen(v)'
                    /\ pass'[q].at = "create" => lock'[v] = q /\ reports'[v] = 0
                    /\ pass'[q].at = "mark" => reports'[v] = 1
  <2>1. \A q \in Passes : pass'[q].version \in Versions BY <1>1 DEF PassState
  <2> QED BY <2>1 DEF LaunchesFrozen, Frozen, Unaltered
<1>3. CASE pass'[q] = pass[q] /\ ~(PassStep(q) \/ Crash(q))
  <2>1. \/ reports' = reports
        \/ \E p \in Passes \ {q} :
             /\ pass[p].at = "create" /\ reports' = [reports EXCEPT ![pass[p].version] = @ + 1]
    BY <1>3, OthersAfter, EnvironmentAfter
  <2>2. \A p \in Passes \ {q} : pass[p].at = "create" =>
          /\ pass'[q].at = "create" => pass[p].version # v
          /\ pass'[q].at = "mark" => pass[p].version # v
    BY <1>3 DEF LaunchesFrozen
  <2>3. pass'[q].at = "create" => lock[v] = q /\ reports[v] = 0
    BY <1>3 DEF LaunchesFrozen
  <2>4. pass'[q].at = "create" => lock'[v] = q
    BY <1>1, <1>3, <2>2, <2>3, OthersAfter, EnvironmentAfter
  <2>5. \A p \in Passes : pass[p].version \in Versions BY <1>1 DEF PassState
  <2>6. pass'[q].at \in {"create", "mark"} => reports'[v] = reports[v]
    BY <1>1, <2>1, <2>2, <2>5
  <2>7. pass'[q].at \in {"start", "create", "mark"} => Frozen(v)'
    <3>1. pass'[q].at \in {"start", "create", "mark"} => Frozen(v)
      BY <1>3 DEF LaunchesFrozen, Frozen, Unaltered
    <3>2. Frozen(v) => Frozen(v)'
      BY FrozenStep
    <3> QED BY <3>1, <3>2
  <2> QED BY <1>3, <2>3, <2>4, <2>6, <2>7, RunStays, MirrorStep DEF LaunchesFrozen
<1>4. CASE PassStep(q) \/ Crash(q)
  <2> DEFINE now == pass[q]
  <2>0. now.version \in Versions BY <1>1 DEF PassState
  <2>1. CASE pass'[q].at = "resolve"
    <3>1. mirror[v].status = "done" BY <1>4, <2>1, PassAfter
    <3>2. mirror'[v].status # "none" BY <3>1, MirrorStep
    <3>3. native'.run = "done" BY <3>1, RunStays DEF SnapshotsInOrder
    <3> QED BY <2>1, <3>2, <3>3
  <2>2. CASE pass'[q].at \in {"start", "create", "mark"}
    <3>1. now.version = v BY <1>4, <2>2, PassAfter
    <3>2. /\ pass'[q].at = "start" => now.at = "resolve" /\ AcceptsGeneration(conn, v)
          /\ pass'[q].at = "create" =>
               now.at = "start" /\ reports[v] = 0 /\ reports' = reports /\ lock'[v] = q
          /\ pass'[q].at = "mark" =>
               \/ now.at = "start" /\ reports[v] > 0 /\ reports' = reports
               \/ now.at = "create" /\ reports' = [reports EXCEPT ![v] = @ + 1]
      BY <1>4, <3>1, PassAfter
    <3>3. now.at \in {"resolve", "start", "create"} BY <2>2, <3>2
    <3>4. Frozen(v)
      <4>1. conn.since <= conn.version BY DEF NativeTypeOK, ConnectionOf
      <4>2. AcceptsGeneration(conn, v) => Unaltered(conn, v)
        BY <2>0, <3>1, <4>1 DEF AcceptsGeneration, Unaltered, Versions
      <4> QED BY <2>2, <3>1, <3>2, <4>2 DEF LaunchesFrozen, Frozen
    <3>5. Frozen(v)' BY <3>4, FrozenStep
    <3>6. native'.run = "done" BY <3>3, RunStays DEF LaunchesFrozen
    <3>7. reports[v] \in {0, 1} BY DEF ReportsFrozen
    <3>8. now.at = "create" => reports[v] = 0 BY <3>1 DEF LaunchesFrozen
    <3>9. pass'[q].at = "mark" => reports'[v] = 1 BY <1>1, <3>2, <3>7, <3>8
    <3> QED BY <2>2, <3>2, <3>5, <3>6, <3>9
  <2>3. CASE pass'[q].at \notin {"resolve", "start", "create", "mark"} BY <2>3
  <2> QED BY <2>1, <2>2, <2>3
<1> QED BY <1>3, <1>4, OthersAfter, EnvironmentAfter

\* Every step keeps the reports in frozen generations, one at most in each.
LEMMA ReportsStep ==
    ASSUME ReportInv, NativeAssumption, NativeNext
    PROVE  ReportsFrozen'
<1> USE DEF ReportInv
<1>1. /\ pass \in [Passes -> PassState] /\ reports \in [Versions -> Nat]
      /\ \A p \in Passes : pass[p].version \in Versions
  BY DEF NativeTypeOK, PassState
<1> SUFFICES ASSUME NEW v \in Versions
             PROVE  /\ reports'[v] \in {0, 1}
                    /\ reports'[v] = 1 => Frozen(v)' /\ native'.run = "done"
                    /\ mirror'[v].pipeline = "launched" => reports'[v] = 1
  BY DEF ReportsFrozen, Frozen, Unaltered
<1>2. \/ reports'[v] = reports[v]
      \/ /\ reports'[v] = 1
         /\ \E p \in Passes : pass[p].at = "create" /\ pass[p].version = v
  <2>1. \/ reports' = reports
        \/ \E p \in Passes : /\ pass[p].at = "create"
                             /\ reports' = [reports EXCEPT ![pass[p].version] = @ + 1]
    BY OthersAfter, EnvironmentAfter
  <2>2. \A p \in Passes : pass[p].at = "create" => reports[pass[p].version] = 0
    BY DEF LaunchesFrozen
  <2> QED BY <1>1, <2>1, <2>2
<1>3. reports'[v] \in {0, 1} BY <1>2 DEF ReportsFrozen
<1>4. reports'[v] = 1 => Frozen(v) /\ native.run = "done"
  BY <1>2 DEF ReportsFrozen, LaunchesFrozen
<1>5. reports'[v] = 1 => Frozen(v)' /\ native'.run = "done"
  BY <1>4, FrozenStep, RunStays
<1>6. mirror'[v].pipeline = "launched" => reports[v] = 1
  <2>1. \A p \in Passes : MarkLaunched(p) => reports[pass[p].version] = 1
    BY DEF MarkLaunched, LaunchesFrozen
  <2> QED BY <2>1, MirrorStep DEF ReportsFrozen
<1>7. reports[v] = 1 => reports'[v] = 1 BY <1>2
<1> QED BY <1>3, <1>5, <1>6, <1>7

\* Every step keeps the invariant.
LEMMA ReportInvStep ==
    ASSUME ReportInv, NativeAssumption, [NativeNext]_vars
    PROVE  ReportInv'
<1>1. CASE NativeNext
  BY <1>1, TypeStep, SnapshotsStep, LaunchesStep, ReportsStep DEF ReportInv
<1>2. CASE UNCHANGED vars
  BY <1>2, TypeStep DEF ReportInv, vars, runtime, SnapshotsInOrder, HoldsClaim,
     LaunchesFrozen, ReportsFrozen, Frozen
<1> QED BY <1>1, <1>2

\* What the invariant says of the reports of all generations.
LEMMA ReportInvImplies == ASSUME ReportInv PROVE ReportedOnce
<1>1. \A v \in Versions : reports[v] \in Nat /\ reports[v] \in {0, 1}
  BY DEF ReportInv, ReportsFrozen, NativeTypeOK
<1>2. \A v \in Versions : reports[v] > 0 => Frozen(v) /\ native.run = "done"
  BY <1>1 DEF ReportInv, ReportsFrozen
<1>3. \A v \in Versions : reports[v] > 0 => Unaltered(conn, v)
  BY <1>2 DEF Frozen
<1> QED BY <1>1, <1>2, <1>3 DEF ReportedOnce, ReportInv, ReportsFrozen

\* In each generation of the connection one reporting run at most is created for the
\* native run, after it ended, over any number of replicas, crashes, stalls and failing
\* calls; and generations that both have one differ by PATCHes that repeated values.
THEOREM OneReport == NativeSpec => []ReportedOnce
<1>1. NativeInit => ReportInv
  BY TypeInit, SnapshotsInit, ReportsInit, NativeAssumption DEF ReportInv
<1>2. ReportInv /\ [NativeNext]_vars => ReportInv' BY ReportInvStep, NativeAssumption
<1>3. ReportInv => ReportedOnce BY ReportInvImplies
<1> QED BY <1>1, <1>2, <1>3, PTL DEF NativeSpec
=============================================================================
