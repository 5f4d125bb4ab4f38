------------------------ MODULE CycleDispatchProofs ------------------------
(***************************************************************************)
(* CycleDispatch, for any requests, readers, workers and bounds: a launch  *)
(* intent launches at most one root run, what ended stays ended, and no    *)
(* load runs outside the environment that the dispatch owns, or forfeited. *)
(***************************************************************************)
EXTENDS CycleDispatch, EngineSpineProofs

-----------------------------------------------------------------------------
(* The inductive invariant: nothing here looks into the execution phase.   *)

DispatchRow ==
    [status : DispatchStatus \cup {"absent"}, env : BOOLEAN, thread : BOOLEAN,
     canceled : BOOLEAN]

Place == {"idle", "launch", "bind", "create", "record", "failed"}

Reader ==
    [pc : {"idle", "view", "sync"}, seen : DispatchStatus, verdict : DispatchStatus,
     missed : BOOLEAN]

IntentTypes ==
    /\ dispatch \in DispatchRow /\ roots \in Nat
    /\ lock \in Requests \cup {Nobody}
    /\ rq \in [Requests -> Place] /\ rd \in [Readers -> Reader]

\* The intent owns the environment from its insert to its end, a cancelled one was
\* never bound to a thread, and no root run is without a bound thread.
RowInv ==
    /\ dispatch.status = "absent" => dispatch = NoDispatch
    /\ dispatch.env <=> dispatch.status \notin TerminalStatus \cup {"absent"}
    /\ dispatch.canceled => dispatch.status = "aborted" /\ ~dispatch.thread
    /\ roots <= 1 /\ (roots > 0 => dispatch.thread)

\* Who is about to create the root run holds the launch lock, and there is none yet.
Launcher(q) ==
    /\ rq[q] \in {"bind", "create"} => lock = q /\ roots = 0
    /\ rq[q] \in {"create", "record"} => dispatch.thread

\* A reader compares with a status that had not ended.
Looking(r) == rd[r].pc # "idle" => rd[r].seen \notin TerminalStatus

IntentInv ==
    /\ IntentTypes /\ RowInv
    /\ \A q \in Requests : Launcher(q)
    /\ \A r \in Readers : Looking(r)

USE DEF TerminalStatus, Launching

-----------------------------------------------------------------------------
(* The statements against the dispatch row.                                *)

\* What is known of the row.
LEMMA RowFacts ==
    ASSUME IntentInv
    PROVE  /\ dispatch \in DispatchRow /\ RowInv /\ NoDispatch \in DispatchRow
           /\ roots \in Nat /\ Nobody \notin Requests
  BY DispatchAssumption
  DEF IntentInv, IntentTypes, NoDispatch, DispatchRow, DispatchStatus

\* The row after an update that keeps the thread and the cancellation, and gives the
\* environment up with a terminal status only.
LEMMA RowMoves ==
    ASSUME IntentInv, NEW d, roots' = roots, dispatch' = d, d \in DispatchRow,
           d.status # "absent", d.env <=> d.status \notin TerminalStatus,
           dispatch.thread => d.thread, d.canceled => d.status = "aborted" /\ ~d.thread
    PROVE  dispatch' \in DispatchRow /\ RowInv'
  BY RowFacts DEF RowInv

\* Resumption, acknowledgement and exception leave an ended intent alone.
LEMMA LaunchingUpdates ==
    ASSUME IntentInv, roots' = roots, dispatch.status # "absent",
           \/ dispatch' = Submitted(dispatch) \/ dispatch' = Uncertain(dispatch)
           \/ dispatch' = dispatch
           \/ Bindable(dispatch) /\ dispatch' = [dispatch EXCEPT !.thread = TRUE]
    PROVE  /\ dispatch' \in DispatchRow /\ RowInv' /\ (dispatch.thread => dispatch'.thread)
           /\ dispatch.status \in TerminalStatus => dispatch' = dispatch
<1> USE RowFacts DEF DispatchRow, DispatchStatus, RowInv
<1>1. CASE dispatch' = dispatch
  BY <1>1
<1>2. CASE dispatch.status \in Launching
  <2>1. ~dispatch.canceled /\ dispatch.env
    BY <1>2
  <2>2. CASE dispatch' = Submitted(dispatch)
    BY <1>2, <2>1, <2>2 DEF Submitted
  <2>3. CASE dispatch' = Uncertain(dispatch)
    BY <1>2, <2>1, <2>3 DEF Uncertain
  <2>4. CASE dispatch' = [dispatch EXCEPT !.thread = TRUE]
    BY <1>2, <2>1, <2>4
  <2> QED
    BY <1>1, <2>2, <2>3, <2>4
<1> QED
  BY <1>1, <1>2 DEF Submitted, Uncertain, Bindable

\* A sync compares with a status that had not ended, so it ends the intent once.
LEMMA SyncedUpdate ==
    ASSUME IntentInv, NEW seen \in DispatchStatus, NEW verdict \in DispatchStatus,
           seen \notin TerminalStatus, roots' = roots,
           dispatch' = Synced(dispatch, seen, verdict) \/ dispatch' = dispatch
    PROVE  /\ dispatch' \in DispatchRow /\ RowInv' /\ (dispatch.thread => dispatch'.thread)
           /\ dispatch.status \in TerminalStatus => dispatch' = dispatch
<1> USE RowFacts DEF DispatchRow, DispatchStatus, RowInv
<1>1. CASE dispatch' = dispatch
  BY <1>1
<1>2. CASE dispatch.status # seen /\ dispatch' = Synced(dispatch, seen, verdict)
  BY <1>1, <1>2 DEF Synced
<1>3. CASE dispatch.status = seen /\ dispatch' = Synced(dispatch, seen, verdict)
  <2>1. /\ dispatch.status \notin TerminalStatus \cup {"absent"}
        /\ ~dispatch.canceled /\ dispatch.env
    BY <1>3
  <2>2. dispatch' = [dispatch EXCEPT !.status = verdict, !.env = @ /\ verdict \notin TerminalStatus]
    BY <1>3 DEF Synced
  <2>3. dispatch' = [dispatch EXCEPT !.status = verdict, !.env = verdict \notin TerminalStatus]
    BY <2>1, <2>2
  <2> QED
    BY <2>1, <2>3
<1> QED
  BY <1>1, <1>2, <1>3

-----------------------------------------------------------------------------
(* The requests.                                                           *)

\* A request moves: the others keep what the launch lock gave them.
LEMMA RequestStep ==
    ASSUME IntentInv, NEW q \in Requests, NEW pc \in Place, Goes(q, pc), rd' = rd,
           lock' \in Requests \cup {Nobody}, roots' \in Nat, dispatch' \in DispatchRow,
           RowInv', dispatch.thread => dispatch'.thread,
           pc \in {"bind", "create"} => lock' = q /\ roots' = 0,
           pc \in {"create", "record"} => dispatch'.thread,
           \A p \in Requests \ {q} :
             rq[p] \in {"bind", "create"} => lock' = lock /\ roots' = roots
    PROVE  IntentInv'
<1>1. /\ rq' \in [Requests -> Place] /\ rq'[q] = pc
      /\ \A p \in Requests \ {q} : rq'[p] = rq[p]
  BY DEF Goes, IntentInv, IntentTypes
<1>2. \A p \in Requests : Launcher(p)'
  BY <1>1 DEF IntentInv, Launcher
<1>3. \A r \in Readers : Looking(r)'
  BY DEF IntentInv, Looking
<1> QED
  BY <1>1, <1>2, <1>3 DEF IntentInv, IntentTypes

\* A request inside the launch lock is alone there.
LEMMA AloneInLock ==
    ASSUME IntentInv, NEW q \in Requests, rq[q] \in {"bind", "create"} \/ lock = Nobody
    PROVE  \A p \in Requests \ {q} : rq[p] \notin {"bind", "create"}
  BY RowFacts DEF IntentInv, Launcher

\* The insert of the intent.
LEMMA IntendKeeps == ASSUME IntentInv, NEW q \in Requests, Intend(q) PROVE IntentInv'
<1>1. /\ dispatch.status = "absent" /\ dispatch' = Reserved /\ Goes(q, "launch")
      /\ roots' = roots /\ lock' = lock /\ rd' = rd
  BY DEF Intend
<1>2. dispatch = NoDispatch /\ roots = 0
  BY <1>1, RowFacts DEF RowInv, NoDispatch
<1>3. dispatch' \in DispatchRow /\ RowInv'
  BY <1>1, <1>2, RowFacts DEF RowInv, Reserved, NoDispatch, DispatchRow, DispatchStatus
<1>4. ~dispatch.thread /\ lock \in Requests \cup {Nobody} /\ "launch" \in Place
  BY <1>2 DEF NoDispatch, IntentInv, IntentTypes, Place
<1> QED
  BY <1>1, <1>2, <1>3, <1>4, RequestStep

\* Resuming the intent, and looking for its root run under the lock.
LEMMA FindKeeps ==
    ASSUME IntentInv, NEW q \in Requests, Resume(q) \/ FindRoot(q) PROVE IntentInv'
<1>1. /\ dispatch' = dispatch /\ roots' = roots /\ rd' = rd
  BY DEF Resume, FindRoot, intentVars
<1>2. RowInv' /\ dispatch' \in DispatchRow /\ roots' \in Nat /\ lock \in Requests \cup {Nobody}
      /\ "launch" \in Place /\ "record" \in Place /\ "bind" \in Place
  BY <1>1, RowFacts DEF RowInv, IntentInv, IntentTypes, Place
<1>3. CASE Resume(q)
  BY <1>1, <1>2, <1>3, RequestStep DEF Resume
<1>4. CASE FindRoot(q) /\ roots > 0
  BY <1>1, <1>2, <1>4, RowFacts, RequestStep DEF FindRoot, RowInv
<1>5. CASE FindRoot(q) /\ ~(roots > 0)
  <2>1. roots = 0 /\ lock = Nobody /\ lock' = q /\ Goes(q, "bind")
    BY <1>5, RowFacts DEF FindRoot
  <2> QED
    BY <1>1, <1>2, <2>1, AloneInLock, RequestStep
<1> QED
  BY <1>3, <1>4, <1>5

\* The thread is bound before the root run is created, or the launch fails.
LEMMA BindThreadKeeps ==
    ASSUME IntentInv, NEW q \in Requests, BindThread(q) PROVE IntentInv'
<1>1. /\ rq[q] = "bind" /\ lock = q /\ roots = 0 /\ roots' = roots /\ rd' = rd
      /\ "create" \in Place /\ "failed" \in Place
  BY DEF BindThread, IntentInv, Launcher, Place
<1>2. CASE Bindable(dispatch)
  <2>1. /\ dispatch' = [dispatch EXCEPT !.thread = TRUE] /\ Goes(q, "create")
        /\ lock' = lock /\ dispatch.status # "absent"
    BY <1>2 DEF BindThread, Bindable
  <2>2. dispatch'.thread
    BY <2>1, RowFacts DEF DispatchRow
  <2> QED
    BY <1>1, <1>2, <2>1, <2>2, LaunchingUpdates, AloneInLock, RequestStep
<1>3. CASE ~Bindable(dispatch)
  <2>1. dispatch' = dispatch /\ Goes(q, "failed") /\ lock' = Nobody
    BY <1>1, <1>3 DEF BindThread, Unlocks
  <2>2. RowInv' /\ dispatch' \in DispatchRow
    BY <1>1, <2>1, RowFacts DEF RowInv
  <2> QED
    BY <1>1, <2>1, <2>2, RowFacts, AloneInLock, RequestStep
<1> QED
  BY <1>2, <1>3

\* The only step that creates a root run: there is none, and the thread is bound.
LEMMA CreateRunKeeps ==
    ASSUME IntentInv, NEW q \in Requests, CreateRun(q) PROVE IntentInv'
<1>1. /\ rq[q] = "create" /\ lock = q /\ roots = 0 /\ dispatch.thread
      /\ dispatch' = dispatch /\ rd' = rd /\ lock' = Nobody
  BY DEF CreateRun, IntentInv, Launcher, Unlocks
<1>2. roots' \in {0, 1}
  BY <1>1 DEF CreateRun, Launches
<1>3. RowInv' /\ dispatch' \in DispatchRow
  BY <1>1, <1>2, RowFacts DEF RowInv
<1>4. PICK pc \in {"record", "failed"} : Goes(q, pc)
  BY DEF CreateRun
<1>5. pc \in Place
  BY DEF Place
<1> QED
  BY <1>1, <1>2, <1>3, <1>4, <1>5, AloneInLock, RequestStep

\* The acknowledgement, the exception and the death of the request.
LEMMA LeaveKeeps ==
    ASSUME IntentInv, NEW q \in Requests,
           \/ RecordLaunch(q) \/ GiveUpLaunch(q) \/ CrashRequest(q)
    PROVE  IntentInv'
<1>1. /\ Goes(q, "idle") /\ roots' = roots /\ rd' = rd /\ "idle" \in Place
      /\ lock' = lock \/ Unlocks(q)
      /\ \/ dispatch' = Submitted(dispatch) \/ dispatch' = Uncertain(dispatch)
         \/ dispatch' = dispatch
  BY DEF RecordLaunch, GiveUpLaunch, CrashRequest, Place, intentVars
<1>2. /\ lock' \in Requests \cup {Nobody}
      /\ \A p \in Requests \ {q} : rq[p] \in {"bind", "create"} => lock' = lock
  BY <1>1 DEF Unlocks, IntentInv, IntentTypes, Launcher
<1>3. dispatch' \in DispatchRow /\ RowInv' /\ (dispatch.thread => dispatch'.thread)
  <2>1. CASE dispatch.status # "absent"
    BY <1>1, <2>1, LaunchingUpdates
  <2>2. CASE dispatch.status = "absent"
    <3>1. dispatch' = dispatch
      BY <1>1, <2>2 DEF Submitted, Uncertain
    <3> QED
      BY <1>1, <3>1, RowFacts DEF RowInv
  <2> QED
    BY <2>1, <2>2
<1> QED
  BY <1>1, <1>2, <1>3, RowFacts, RequestStep

-----------------------------------------------------------------------------
(* The readers, cancellation, and the execution phase.                     *)

\* Steps that move neither requests nor the lock.
LEMMA RequestsStay ==
    ASSUME IntentInv, UNCHANGED <<roots, lock, rq>>, dispatch' \in DispatchRow, RowInv',
           dispatch.thread => dispatch'.thread, rd' \in [Readers -> Reader],
           \A r \in Readers : Looking(r)'
    PROVE  IntentInv'
  BY DEF IntentInv, IntentTypes, Launcher

\* A reader that goes on, or comes back, with what it read.
LEMMA ReaderMoves ==
    ASSUME IntentInv, NEW r \in Readers, NEW next \in Reader, Reads(r, next),
           next.pc # "idle" => next.seen \notin TerminalStatus
    PROVE  rd' \in [Readers -> Reader] /\ \A s \in Readers : Looking(s)'
<1>1. /\ rd' \in [Readers -> Reader] /\ rd'[r] = next
      /\ \A s \in Readers \ {r} : rd'[s] = rd[s]
  BY DEF Reads, IntentInv, IntentTypes
<1> QED
  BY <1>1 DEF IntentInv, Looking

\* What a reader may conclude is a status of the row.
LEMMA VerdictTypes ==
    ASSUME NEW seen \in DispatchStatus
    PROVE  /\ EngineVerdict(row[1], seen) \in DispatchStatus
           /\ ViewVerdict(seen) \in DispatchStatus
  BY DEF EngineVerdict, ViewVerdict, DispatchStatus

\* The next state of a reader that compares.
LEMMA CompareTypes ==
    ASSUME NEW seen \in DispatchStatus, NEW verdict \in DispatchStatus,
           NEW missed \in BOOLEAN, seen \notin TerminalStatus
    PROVE  /\ NotReading \in Reader /\ NotReading.pc = "idle"
           /\ Compares(seen, verdict, missed) \in Reader
           /\ Compares(seen, verdict, missed).pc # "idle" =>
                Compares(seen, verdict, missed).seen \notin TerminalStatus
  BY DEF NotReading, Compares, Reading, Reader, DispatchStatus

\* The reads.
LEMMA ReadKeeps ==
    ASSUME IntentInv, NEW r \in Readers, ReadRows(r) \/ ReadThread(r) PROVE IntentInv'
<1>1. UNCHANGED <<roots, lock, rq>> /\ dispatch' = dispatch
  BY DEF ReadRows, ReadThread, intentVars
<1>2. dispatch' \in DispatchRow /\ RowInv'
  BY <1>1, RowFacts DEF RowInv
<1>3. PICK next \in Reader :
        Reads(r, next) /\ (next.pc # "idle" => next.seen \notin TerminalStatus)
  <2>1. CASE ReadRows(r)
    <3> DEFINE seen == dispatch.status
    <3>1. seen \in DispatchStatus /\ seen \notin TerminalStatus
      BY <2>1, RowFacts DEF ReadRows, RowInv, NoDispatch, DispatchRow
    <3>2. Reads(r, IF row[1].status = "absent" THEN Reading("view", seen, seen, TRUE)
                   ELSE Compares(seen, EngineVerdict(row[1], seen), FALSE))
      BY <2>1 DEF ReadRows
    <3> HIDE DEF seen
    <3>3. /\ Reading("view", seen, seen, TRUE) \in Reader
          /\ Reading("view", seen, seen, TRUE).seen = seen
      BY <3>1 DEF Reading, Reader
    <3>4. /\ Compares(seen, EngineVerdict(row[1], seen), FALSE) \in Reader
          /\ Compares(seen, EngineVerdict(row[1], seen), FALSE).pc # "idle" =>
               Compares(seen, EngineVerdict(row[1], seen), FALSE).seen \notin TerminalStatus
      BY <3>1, VerdictTypes, CompareTypes
    <3> QED
      BY <3>1, <3>2, <3>3, <3>4
  <2>2. CASE ReadThread(r)
    <3> DEFINE seen == rd[r].seen
    <3>1. seen \in DispatchStatus /\ seen \notin TerminalStatus
      BY <2>2 DEF ReadThread, IntentInv, IntentTypes, Looking, Reader
    <3>2. Reads(r, Compares(seen, ViewVerdict(seen), TRUE))
      BY <2>2 DEF ReadThread
    <3> HIDE DEF seen
    <3> QED
      BY <3>1, <3>2, VerdictTypes, CompareTypes
  <2> QED
    BY <2>1, <2>2
<1>4. rd' \in [Readers -> Reader] /\ \A s \in Readers : Looking(s)'
  BY <1>3, ReaderMoves
<1> QED
  BY <1>1, <1>2, <1>4, RequestsStay

\* The update.
LEMMA SyncKeeps == ASSUME IntentInv, NEW r \in Readers, Sync(r) PROVE IntentInv'
<1>1. /\ UNCHANGED <<roots, lock, rq>> /\ Reads(r, NotReading) /\ rd[r].pc = "sync"
      /\ dispatch' = dispatch \/ dispatch' = Synced(dispatch, rd[r].seen, rd[r].verdict)
  BY DEF Sync
<1>2. /\ rd[r].seen \in DispatchStatus /\ rd[r].verdict \in DispatchStatus
      /\ rd[r].seen \notin TerminalStatus
  BY <1>1 DEF IntentInv, IntentTypes, Looking, Reader
<1>3. dispatch' \in DispatchRow /\ RowInv' /\ (dispatch.thread => dispatch'.thread)
  BY <1>1, <1>2, SyncedUpdate
<1>4. rd' \in [Readers -> Reader] /\ \A s \in Readers : Looking(s)'
  BY <1>1, <1>2, CompareTypes, ReaderMoves
<1> QED
  BY <1>1, <1>3, <1>4, RequestsStay

\* Cancellation of an intent that no thread was bound to.
LEMMA CancelKeeps == ASSUME IntentInv, Cancel PROVE IntentInv'
<1>1. /\ Cancellable(dispatch) /\ dispatch' = Cancelled(dispatch)
      /\ UNCHANGED <<roots, lock, rq, rd>>
  BY DEF Cancel
<1>2. dispatch' \in DispatchRow /\ RowInv'
  BY <1>1, RowFacts DEF Cancellable, Cancelled, RowInv, DispatchRow, DispatchStatus
<1>3. rd' \in [Readers -> Reader] /\ \A r \in Readers : Looking(r)'
  BY <1>1 DEF IntentInv, IntentTypes, Looking
<1>4. ~dispatch.thread
  BY <1>1 DEF Cancellable
<1> QED
  BY <1>1, <1>2, <1>3, <1>4, RequestsStay

\* The execution phase, the binding checks and a revocation do not touch the intent.
LEMMA EngineSideKeeps ==
    ASSUME IntentInv, UNCHANGED <<dispatch, roots, lock, rq, rd>> PROVE IntentInv'
  BY DEF IntentInv, IntentTypes, RowInv, Launcher, Looking

-----------------------------------------------------------------------------
\* No intent yet.
LEMMA IntentInitially == DispatchInit => IntentInv
  BY DEF DispatchInit, IntentInv, IntentTypes, RowInv, Launcher, Looking, NotReading,
         Reading, NoDispatch, DispatchRow, DispatchStatus, Place, Reader

\* Every step keeps the invariant.
LEMMA IntentStep == IntentInv /\ [DispatchNext]_dispatchVars => IntentInv'
<1> SUFFICES ASSUME IntentInv, [DispatchNext]_dispatchVars PROVE IntentInv'
  OBVIOUS
<1>1. CASE EngineStep \/ Revoke \/ UNCHANGED dispatchVars
  BY <1>1, EngineSideKeeps DEF EngineStep, Dispatched, Revoke, dispatchVars, intentVars
<1>2. ASSUME NEW i \in Workers, CheckBinding(i) \/ RefuseCall(i) PROVE IntentInv'
  BY <1>2, EngineSideKeeps DEF CheckBinding, RefuseCall, intentVars
<1>3. ASSUME NEW q \in Requests,
             \/ Intend(q) \/ Resume(q) \/ FindRoot(q) \/ BindThread(q) \/ CreateRun(q)
             \/ RecordLaunch(q) \/ GiveUpLaunch(q) \/ CrashRequest(q)
      PROVE  IntentInv'
  BY <1>3, IntendKeeps, FindKeeps, BindThreadKeeps, CreateRunKeeps, LeaveKeeps
<1>4. ASSUME NEW r \in Readers, ReadRows(r) \/ ReadThread(r) \/ Sync(r) PROVE IntentInv'
  BY <1>4, ReadKeeps, SyncKeeps
<1>5. CASE Cancel
  BY <1>5, CancelKeeps
<1> QED
  BY <1>1, <1>2, <1>3, <1>4, <1>5 DEF DispatchNext

\* The launch lock, the binding and the row's compare-and-sets together.
THEOREM IntentHolds == DispatchSpec => []IntentInv
  BY IntentInitially, IntentStep, PTL DEF DispatchSpec

\* However many requests resume an intent and whatever they are told, it has at most
\* one root run, and none once it is cancelled.
THEOREM LaunchesOnce == DispatchSpec => []IntentLaunchesOnce
<1>1. IntentInv => IntentLaunchesOnce
  BY DEF IntentInv, IntentTypes, RowInv, IntentLaunchesOnce
<1> QED
  BY <1>1, IntentHolds, PTL

\* An ended dispatch is never revived and never takes its environment back.
THEOREM EndsOnce == DispatchSpec => DispatchEndsOnce
<1>1. IntentInv /\ [DispatchNext]_dispatchVars =>
        [dispatch.status \in TerminalStatus =>
           dispatch'.status = dispatch.status /\ dispatch'.env = FALSE]_dispatchVars
  <2> SUFFICES ASSUME IntentInv, DispatchNext, dispatch.status \in TerminalStatus
               PROVE  dispatch'.status = dispatch.status /\ dispatch'.env = FALSE
    OBVIOUS
  <2>1. dispatch.env = FALSE
    BY RowFacts DEF RowInv, DispatchRow
  <2>2. dispatch' = dispatch
    <3>1. ASSUME NEW q \in Requests,
                 \/ Intend(q) \/ Resume(q) \/ FindRoot(q) \/ BindThread(q) \/ CreateRun(q)
                 \/ RecordLaunch(q) \/ GiveUpLaunch(q) \/ CrashRequest(q)
          PROVE  dispatch' = dispatch
      BY <3>1 DEF Intend, Resume, FindRoot, BindThread, CreateRun, RecordLaunch,
                  GiveUpLaunch, CrashRequest, Bindable, Submitted, Uncertain, intentVars
    <3>2. ASSUME NEW r \in Readers, ReadRows(r) \/ ReadThread(r) PROVE dispatch' = dispatch
      BY <3>2 DEF ReadRows, ReadThread, intentVars
    <3>3. ASSUME NEW r \in Readers, Sync(r) PROVE dispatch' = dispatch
      <4>1. rd[r].seen \notin TerminalStatus
        BY <3>3 DEF Sync, IntentInv, Looking
      <4> QED
        BY <3>3, <4>1 DEF Sync, Synced
    <3>4. ~Cancel
      BY DEF Cancel, Cancellable
    <3>5. CASE EngineStep \/ Revoke
      BY <3>5 DEF EngineStep, Dispatched, Revoke, intentVars
    <3>6. ASSUME NEW i \in Workers, CheckBinding(i) \/ RefuseCall(i) PROVE dispatch' = dispatch
      BY <3>6 DEF CheckBinding, RefuseCall, intentVars
    <3> QED
      BY <3>1, <3>2, <3>3, <3>4, <3>5, <3>6 DEF DispatchNext
  <2> QED
    BY <2>1, <2>2
<1> QED
  BY <1>1, IntentHolds, PTL DEF DispatchSpec, DispatchEndsOnce

-----------------------------------------------------------------------------
(* The environment.  Its invariant adds the execution phase to the intent. *)

EngineHolds == LoadInv /\ SpineInv /\ SafetyInv

\* Before its root run is created nothing executes.
Unlaunched ==
    roots = 0 =>
      /\ run = "none" /\ ck.node = "prepare" /\ \A i \in Workers : wk[i].pc = "idle"
      /\ \A a \in Attempts : ext[a].phase = "none"

\* A start that passed the binding check still owns the environment, or lost it to a
\* reader that had missed the engine row.
Owning(i) ==
    checked[i] /\ wk[i].pc = "start.call" =>
      (dispatch.env \/ forfeited) /\ wk[i].ck.attempt = 1

\* What was forfeited is gone for good.
Forfeiture ==
    /\ forfeited \in BOOLEAN
    /\ forfeited => ~dispatch.env /\ dispatch.status # "absent"

\* What a reader concluded from an ended row is still so.
Concluded(r) ==
    rd[r].pc = "sync" /\ ~rd[r].missed /\ rd[r].verdict \in TerminalStatus =>
      row[1].status \in TerminalStatus

EnvInv ==
    /\ EngineHolds /\ Unlaunched /\ Forfeiture /\ checked \in [Workers -> BOOLEAN]
    /\ \A i \in Workers : Owning(i)
    /\ \A r \in Readers : Concluded(r)

\* What the refinement sees of the dispatch.
Owned ==
    CASE dispatch.status = "absent" -> "no"
      [] dispatch.env               -> "yes"
      [] forfeited                   -> "forfeited"
      [] OTHER                      -> "given_up"

LeaseStep == [Lease!LeaseNext]_(Lease!leaseVars)

\* A start in flight is of the first attempt, under an active row.
LEMMA StartingRow ==
    ASSUME EnvInv, NEW i \in Workers, checked[i], wk[i].pc = "start.call"
    PROVE  row[1].status \in ActiveStatus
<1>1. wk[i].ck = ck /\ Holds(wk[i], row[ck.attempt], ext[ck.attempt])
  BY InsideOpen DEF EnvInv, EngineHolds
<1>2. ck.attempt = 1
  BY <1>1 DEF EnvInv, Owning
<1> QED
  BY <1>1, <1>2 DEF Holds

\* Live load has an active row, and an absent row has no load.
LEMMA LoadNeedsRow ==
    ASSUME ~Restarts, EngineHolds, row[1].status \in TerminalStatus \cup {"absent"}
    PROVE  Load(ext[1].phase) # "live"
<1>1. Secured(row[1], ext[1])
  BY EngineAssumption DEF EngineHolds, LoadInv, Attempts
<1> QED
  BY <1>1 DEF Secured, GivenUp, Load, LiveRun, ActiveStatus, TerminalStatus

\* Nothing of the execution phase changes, except that failures are counted.
LEMMA EngineStays ==
    ASSUME EngineHolds, UNCHANGED <<ck, run, owner, wk, outside>>,
           Fault \/ Calm \/ UNCHANGED faults
    PROVE  EngineHolds'
<1>1. SpineInv'
  BY RunChanges DEF EngineHolds, SpineInv, GraphOK
<1>2. SafetyInv'
  BY StayingIsQuiet, QuietStep DEF EngineHolds, outside
<1>3. LoadInv'
  BY StayingIsLawful DEF EngineHolds, LoadInv, Lawful
<1> QED
  BY <1>1, <1>2, <1>3 DEF EngineHolds

\* The root run starts the execution phase.
LEMMA LaunchKeepsEngine ==
    ASSUME EnvInv, roots = 0, Launches, Fault \/ Calm
    PROVE  EngineHolds'
<1>1. /\ run = "none" /\ ck.node = "prepare" /\ run' = "active"
      /\ UNCHANGED <<ck, owner, wk, outside>>
  BY DEF EnvInv, Unlaunched, Launches
<1>2. SpineInv'
  BY <1>1, RunChanges DEF EnvInv, EngineHolds
<1>3. SafetyInv'
  <2>1. SafetyInv /\ SpineInv /\ \A i \in Workers : wk[i].pc = "idle"
    BY DEF EnvInv, EngineHolds, Unlaunched
  <2> QED
    BY <1>1, <2>1, StayingIsQuiet, GraphStaysGrounded, IdleStep
<1>4. LoadInv'
  BY <1>1, StayingIsLawful DEF EnvInv, EngineHolds, Lawful, InterruptNode
<1> QED
  BY <1>2, <1>3, <1>4 DEF EngineHolds

\* A refused call returns like a failed one.
LEMMA RefuseKeepsEngine ==
    ASSUME EnvInv, NEW i \in Workers, RefuseCall(i)
    PROVE  EngineHolds'
<1> DEFINE c == IF wk[i].pc = "start.call"
                THEN EnterCleanup(wk[i].ck) ELSE RetryProvision(wk[i].ck)
<1>1. /\ wk[i].pc \in Calls /\ Return(i, c) /\ UNCHANGED outside /\ UNCHANGED faults
      /\ wk[i].pc \notin {"idle", "commit"}
  BY DEF RefuseCall, Calls
<1>2. LoadInv /\ SpineInv /\ SafetyInv
  BY DEF EnvInv, EngineHolds
<1>3. /\ wk[i].ck = ck /\ Good(ck)
      /\ ck.node = IF wk[i].pc = "start.call" THEN "start" ELSE "provision"
  BY <1>1, <1>2, InsideOpen, GraphCopy DEF InPlace, Calls
<1>4. Good(c) /\ Fits(c) /\ Follows(c)
  <2>1. CASE wk[i].pc = "start.call"
    <3>1. c = EnterCleanup(ck) /\ ck.node = "start"
      BY <1>3, <2>1
    <3>2. Good(c)
      BY <1>2, <1>3, <3>1, GraphCopy, LaunchUpdatesAreGood
    <3> QED
      BY <1>2, <3>1, <3>2, LaunchUpdatesFit, LaunchUpdatesFollow
  <2>2. CASE wk[i].pc # "start.call"
    <3>1. c = RetryProvision(ck) /\ ck.node = "provision"
      BY <1>3, <2>2
    <3>2. Good(c)
      BY <1>3, <3>1, RetriesAreGood
    <3> QED
      BY <1>2, <3>1, <3>2, RetriesFit, RetriesFollow
  <2> QED
    BY <2>1, <2>2
<1> HIDE DEF c
<1>5. SpineInv'
  BY <1>1, <1>2, <1>4, OutsideStays, WorkerMoveKeeps DEF SpineInv, Calm
<1>6. SafetyInv'
  BY <1>1, <1>2, <1>4, StayingIsQuiet, ReturnFitting
<1>7. LoadInv'
  BY <1>1, <1>2, <1>4, ReturnLawful DEF Lawful
<1> QED
  BY <1>5, <1>6, <1>7 DEF EngineHolds
\* What the environment lease sees of a step on the dispatch row.
LEMMA OwnershipStep ==
    ASSUME EnvInv, IntentInv, IntentInv', ext' = ext,
           \/ /\ \/ /\ dispatch'.status = "absent" <=> dispatch.status = "absent"
                    /\ dispatch'.env = dispatch.env
                 \/ dispatch.status = "absent" /\ dispatch'.env
                 \/ dispatch.env /\ dispatch'.status # "absent" /\ Load(ext[1].phase) # "live"
              /\ forfeited' = forfeited
           \/ dispatch.env /\ ~dispatch'.env /\ dispatch'.status # "absent" /\ forfeited' = TRUE
    PROVE  LeaseStep
<1>1. /\ dispatch.status = "absent" => ~dispatch.env
      /\ dispatch'.status = "absent" => ~dispatch'.env
      /\ dispatch.env \in BOOLEAN /\ dispatch'.env \in BOOLEAN
      /\ forfeited \in BOOLEAN /\ (forfeited => ~dispatch.env /\ dispatch.status # "absent")
  BY RowFacts DEF IntentInv, RowInv, IntentTypes, DispatchRow, EnvInv, Forfeiture
<1>2. Load(ext[1].phase)' = Load(ext[1].phase)
  OBVIOUS
<1>3. CASE Owned' = Owned
  BY <1>2, <1>3 DEF LeaseStep, Lease!leaseVars, Owned
<1>4. CASE dispatch.status = "absent" /\ dispatch'.env
  <2>1. Lease!Own
    BY <1>1, <1>2, <1>4 DEF Lease!Own
  <2> QED
    BY <2>1 DEF LeaseStep, Lease!LeaseNext
<1>5. CASE /\ dispatch.env /\ dispatch'.status # "absent" /\ ~dispatch'.env
           /\ Load(ext[1].phase) # "live" /\ forfeited' = forfeited
  <2>1. Lease!GiveUp
    BY <1>1, <1>2, <1>5 DEF Lease!GiveUp
  <2> QED
    BY <2>1 DEF LeaseStep, Lease!LeaseNext
<1>6. CASE dispatch.env /\ ~dispatch'.env /\ dispatch'.status # "absent" /\ forfeited' = TRUE
  <2>1. Lease!Forfeit
    BY <1>1, <1>2, <1>6 DEF Lease!Forfeit
  <2> QED
    BY <2>1 DEF LeaseStep, Lease!LeaseNext
<1>7. CASE /\ dispatch'.status = "absent" <=> dispatch.status = "absent"
           /\ dispatch'.env = dispatch.env /\ forfeited' = forfeited
  <2>1. Owned' = Owned
    BY <1>1, <1>7 DEF Owned
  <2> QED
    BY <1>3, <2>1
<1>8. CASE dispatch.env /\ dispatch'.env /\ dispatch'.status # "absent" /\ forfeited' = forfeited
  BY <1>1, <1>7, <1>8
<1> QED
  BY <1>1, <1>4, <1>5, <1>6, <1>7, <1>8

\* What it sees of a step of the execution phase.
LEMMA LoadStep ==
    ASSUME dispatch' = dispatch, forfeited' = forfeited, LoadsStep,
           Starts(1) => dispatch.status # "absent" /\ (dispatch.env \/ forfeited)
    PROVE  LeaseStep
<1> DEFINE l == Load(ext[1].phase)
<1>1. \/ l' = l
      \/ l \in {"unused", "live"} /\ l' = "over"
      \/ Starts(1)
  BY EngineAssumption DEF LoadsStep, Attempts
<1>2. Starts(1) => l = "unused"
  BY DEF Starts, Load, LiveRun, TerminalStatus
<1>3. l' \in {"unused", "live", "over"}
  BY DEF Load
<1>4. CASE l' = l
  BY <1>4 DEF LeaseStep, Lease!leaseVars
<1>5. CASE l \in {"unused", "live"} /\ l' = "over"
  <2>1. Lease!Finish
    BY <1>5 DEF Lease!Finish
  <2> QED
    BY <2>1 DEF LeaseStep, Lease!LeaseNext
<1>6. CASE Starts(1) /\ l' = "live"
  <2>1. Lease!Begin
    BY <1>2, <1>6 DEF Lease!Begin
  <2> QED
    BY <2>1 DEF LeaseStep, Lease!LeaseNext
<1> QED
  BY <1>1, <1>2, <1>3, <1>4, <1>5, <1>6

\* A step of the execution phase: a start passed the binding check.
LEMMA EngineStepLeases ==
    ASSUME EnvInv, IntentInv, EngineStep
    PROVE  EnvInv' /\ LeaseStep
<1>1. /\ EngineNext /\ roots > 0 /\ UNCHANGED <<dispatch, roots, forfeited, rd>>
      /\ checked' = [i \in Workers |-> checked[i] /\ wk'[i] = wk[i]]
  BY DEF EngineStep, Dispatched, intentVars
<1>2. EngineHolds' /\ RowsStay /\ LoadsStep
  BY <1>1, StepKeeps, StepSafe, StepLawful, StepEffect DEF EnvInv, EngineHolds, Lawful
<1>3. Unlaunched'
  BY <1>1 DEF Unlaunched
<1>4. \A i \in Workers : Owning(i)'
  BY <1>1 DEF EnvInv, Owning
<1>5. \A r \in Readers : Concluded(r)'
  BY <1>1, <1>2, EngineAssumption DEF EnvInv, Concluded, RowsStay, Attempts
<1>6. checked' \in [Workers -> BOOLEAN]
  BY <1>1
<1>7. Starts(1) => dispatch.status # "absent" /\ (dispatch.env \/ forfeited)
  <2> SUFFICES ASSUME NEW i \in Workers, StartCall(i) PROVE dispatch.env \/ forfeited
    BY RowFacts DEF Starts, RowInv, EnvInv, Forfeiture
  <2>1. wk[i].pc = "start.call" /\ wk \in [Workers -> WorkerOf]
    BY DEF StartCall, At, EnvInv, EngineHolds, SpineInv, WorkersOK
  <2>2. wk'[i].pc \in {"start.record", "start.reject", "commit"}
    BY <2>1 DEF StartCall, Goto, Return, WorkerOf
  <2>3. checked[i]
    BY <2>1, <2>2 DEF EngineStep, Dispatched, Calls
  <2> QED
    BY <2>1, <2>3 DEF EnvInv, Owning
<1>8. LeaseStep
  BY <1>1, <1>2, <1>7, LoadStep
<1> QED
  BY <1>1, <1>2, <1>3, <1>4, <1>5, <1>6, <1>8 DEF EnvInv, Forfeiture

\* A step that leaves the execution phase alone, and the environment where it is.
LEMMA IntentOnly ==
    ASSUME EnvInv, IntentInv, EngineHolds',
           UNCHANGED <<ck, run, wk, row, ext, checked, roots, forfeited, rd>>,
           dispatch.env => dispatch'.env \/ roots = 0,
           dispatch.status \in TerminalStatus => dispatch' = dispatch
    PROVE  EnvInv'
<1>1. Unlaunched'
  BY DEF EnvInv, Unlaunched
<1>2. \A i \in Workers : Owning(i)'
  BY DEF EnvInv, Owning, Unlaunched
<1>3. \A r \in Readers : Concluded(r)'
  BY DEF EnvInv, Concluded
<1>4. Forfeiture'
  BY RowFacts DEF EnvInv, Forfeiture, RowInv
<1> QED
  BY <1>1, <1>2, <1>3, <1>4 DEF EnvInv

\* The engine is idle.
LEMMA EngineIdles ==
    ASSUME EnvInv, EngineIdle
    PROVE  EngineHolds' /\ UNCHANGED <<ck, run, wk, row, ext, checked>>
<1>1. UNCHANGED engineVars
  BY DEF EngineIdle
<1> QED
  BY <1>1, StepKeeps, StepSafe, StepLawful
  DEF EnvInv, EngineHolds, Lawful, EngineIdle, engineVars
\* The requests that leave the execution phase alone, a cancellation before the
\* thread is bound, and a revocation.
LEMMA RequestLeases ==
    ASSUME EnvInv, IntentInv, IntentInv',
           \/ \E q \in Requests :
                \/ Intend(q) \/ Resume(q) \/ FindRoot(q) \/ BindThread(q)
                \/ RecordLaunch(q) \/ GiveUpLaunch(q)
           \/ Cancel \/ Revoke
    PROVE  EnvInv' /\ LeaseStep
<1>1. EngineIdle /\ UNCHANGED <<roots, forfeited, rd>>
  BY DEF Intend, Resume, FindRoot, BindThread, RecordLaunch, GiveUpLaunch, Cancel, Revoke,
         intentVars
<1>2. \/ dispatch.status = "absent" /\ dispatch' = Reserved
      \/ dispatch' = dispatch
      \/ Bindable(dispatch) /\ dispatch' = [dispatch EXCEPT !.thread = TRUE]
      \/ dispatch' = Submitted(dispatch) \/ dispatch' = Uncertain(dispatch)
      \/ Cancellable(dispatch) /\ dispatch' = Cancelled(dispatch)
  BY DEF Intend, Resume, FindRoot, BindThread, RecordLaunch, GiveUpLaunch, Cancel, Revoke,
         intentVars
<1>3. /\ dispatch \in DispatchRow /\ RowInv /\ roots \in Nat
      /\ EngineHolds' /\ UNCHANGED <<ck, run, wk, row, ext, checked>>
  BY <1>1, RowFacts, EngineIdles
<1>4. CASE dispatch.status = "absent" /\ dispatch' = Reserved
  <2>1. dispatch'.env
    BY <1>4 DEF Reserved, NoDispatch
  <2> QED
    BY <1>1, <1>3, <1>4, <2>1, IntentOnly, OwnershipStep
<1>5. CASE \/ dispatch' = dispatch
           \/ Bindable(dispatch) /\ dispatch' = [dispatch EXCEPT !.thread = TRUE]
           \/ dispatch' = Submitted(dispatch) \/ dispatch' = Uncertain(dispatch)
  <2>1. /\ dispatch'.env = dispatch.env
        /\ dispatch'.status = "absent" <=> dispatch.status = "absent"
        /\ dispatch.status \in TerminalStatus => dispatch' = dispatch
    BY <1>3, <1>5 DEF DispatchRow, Bindable, Submitted, Uncertain
  <2> QED
    BY <1>1, <1>3, <2>1, IntentOnly, OwnershipStep
<1>6. CASE Cancellable(dispatch) /\ dispatch' = Cancelled(dispatch)
  <2>1. /\ dispatch.env /\ roots = 0 /\ dispatch'.status # "absent"
        /\ dispatch.status \notin TerminalStatus
    BY <1>3, <1>6 DEF Cancellable, Cancelled, RowInv, DispatchRow
  <2>2. ext[1].phase = "none"
    BY <2>1, EngineAssumption DEF EnvInv, Unlaunched, Attempts
  <2>3. Load(ext[1].phase) # "live"
    BY <2>2 DEF Load, LiveRun, TerminalStatus
  <2> QED
    BY <1>1, <1>3, <2>1, <2>3, IntentOnly, OwnershipStep
<1> QED
  BY <1>2, <1>4, <1>5, <1>6

\* The root run is created, or its creation fails; and the process may die.
LEMMA LaunchLeases ==
    ASSUME EnvInv, IntentInv, IntentInv', NEW q \in Requests, CreateRun(q) \/ CrashRequest(q)
    PROVE  EnvInv' /\ LeaseStep
<1>1. /\ UNCHANGED <<dispatch, forfeited, rd, checked>>
      /\ Fault \/ Calm
      /\ CreateRun(q) => roots = 0
      /\ \/ CreateRun(q) /\ Launches
         \/ UNCHANGED <<roots, ck, worker, outside>>
  BY DEF CreateRun, CrashRequest, IntentInv, Launcher, intentVars
<1>2. CASE CreateRun(q) /\ Launches
  <2>1. EngineHolds'
    BY <1>1, <1>2, LaunchKeepsEngine
  <2>2. roots' = 1 /\ UNCHANGED <<wk, row, ext>>
    BY <1>1, <1>2 DEF Launches, outside
  <2>3. Unlaunched'
    BY <2>2 DEF Unlaunched
  <2>4. \A i \in Workers : Owning(i)'
    BY <1>1, <2>2 DEF EnvInv, Owning
  <2>5. \A r \in Readers : Concluded(r)'
    BY <1>1, <2>2 DEF EnvInv, Concluded
  <2> QED
    BY <1>1, <2>1, <2>2, <2>3, <2>4, <2>5, OwnershipStep DEF EnvInv, Forfeiture
<1>3. CASE UNCHANGED <<roots, ck, worker, outside>>
  <2>1. UNCHANGED <<ck, run, owner, wk, row, ext, roots>>
    BY <1>3 DEF worker, outside
  <2>2. EngineHolds'
    BY <1>1, <1>3, <2>1, EngineStays DEF EnvInv
  <2> QED
    BY <1>1, <2>1, <2>2, IntentOnly, OwnershipStep
<1> QED
  BY <1>1, <1>2, <1>3

\* The binding checks.
LEMMA BindingLeases ==
    ASSUME EnvInv, IntentInv, IntentInv', NEW i \in Workers, CheckBinding(i) \/ RefuseCall(i)
    PROVE  EnvInv' /\ LeaseStep
<1>1. UNCHANGED <<dispatch, roots, forfeited, rd, row, ext>>
  BY DEF CheckBinding, RefuseCall, intentVars, engineVars, outside
<1>2. CASE CheckBinding(i)
  <2>1. EngineHolds' /\ UNCHANGED <<ck, run, wk>>
    BY <1>2, StepKeeps, StepSafe, StepLawful
    DEF CheckBinding, EnvInv, EngineHolds, Lawful, engineVars
  <2>2. checked' = [checked EXCEPT ![i] = TRUE] /\ dispatch.env /\ wk[i].ck.attempt = 1
    BY <1>2 DEF CheckBinding, BindingHolds
  <2>3. Unlaunched'
    BY <1>1, <2>1 DEF EnvInv, Unlaunched
  <2>4. \A j \in Workers : Owning(j)'
    BY <1>1, <2>1, <2>2 DEF EnvInv, Owning
  <2>5. \A r \in Readers : Concluded(r)'
    BY <1>1 DEF EnvInv, Concluded
  <2> QED
    BY <1>1, <2>1, <2>2, <2>3, <2>4, <2>5, OwnershipStep DEF EnvInv, Forfeiture
<1>3. CASE RefuseCall(i)
  <2>1. EngineHolds' /\ UNCHANGED <<ck, run, checked>>
    BY <1>3, RefuseKeepsEngine DEF RefuseCall, Return
  <2>2. /\ wk[i].pc \in Calls /\ wk'[i].pc = "commit"
        /\ \A j \in Workers \ {i} : wk'[j] = wk[j]
    BY <1>3 DEF RefuseCall, Return, EnvInv, EngineHolds, SpineInv, WorkersOK
  <2>3. Unlaunched'
    BY <1>1, <2>2 DEF EnvInv, Unlaunched, Calls
  <2>4. \A j \in Workers : Owning(j)'
    BY <1>1, <2>1, <2>2 DEF EnvInv, Owning
  <2>5. \A r \in Readers : Concluded(r)'
    BY <1>1 DEF EnvInv, Concluded
  <2> QED
    BY <1>1, <2>1, <2>3, <2>4, <2>5, OwnershipStep DEF EnvInv, Forfeiture
<1> QED
  BY <1>2, <1>3

\* A reader reads: a verdict that ends the dispatch is of an ended row, or of none.
LEMMA ReadLeases ==
    ASSUME EnvInv, IntentInv, IntentInv', NEW r \in Readers, ReadRows(r) \/ ReadThread(r)
    PROVE  EnvInv' /\ LeaseStep
<1>1. EngineIdle /\ UNCHANGED <<dispatch, roots, forfeited>>
  BY DEF ReadRows, ReadThread, intentVars
<1>2. EngineHolds' /\ UNCHANGED <<ck, run, wk, row, ext, checked>>
  BY <1>1, EngineIdles
<1>3. /\ \A s \in Readers \ {r} : rd'[s] = rd[s]
      /\ rd'[r].pc = "sync" /\ ~rd'[r].missed /\ rd'[r].verdict \in TerminalStatus =>
           row[1].status \in TerminalStatus
  <2>1. rd \in [Readers -> Reader]
    BY DEF IntentInv, IntentTypes
  <2>2. CASE ReadRows(r)
    <3> DEFINE seen == dispatch.status
               verdict == EngineVerdict(row[1], seen)
    <3>1. /\ seen \notin TerminalStatus
          /\ rd' = [rd EXCEPT ![r] = IF row[1].status = "absent"
                                     THEN Reading("view", seen, seen, TRUE)
                                     ELSE Compares(seen, verdict, FALSE)]
      BY <2>2 DEF ReadRows, Reads
    <3>2. verdict \in TerminalStatus => row[1].status \in TerminalStatus
      BY <3>1 DEF EngineVerdict
    <3> HIDE DEF verdict
    <3>3. /\ rd'[r] = Reading("view", seen, seen, TRUE) \/ rd'[r] = NotReading
             \/ rd'[r] = Reading("sync", seen, verdict, FALSE)
          /\ \A s \in Readers \ {r} : rd'[s] = rd[s]
      BY <2>1, <3>1 DEF Compares
    <3> QED
      BY <3>2, <3>3 DEF Reading, NotReading
  <2>3. CASE ReadThread(r)
    <3> DEFINE seen == rd[r].seen
               verdict == ViewVerdict(seen)
    <3>1. rd' = [rd EXCEPT ![r] = Compares(seen, verdict, TRUE)]
      BY <2>3 DEF ReadThread, Reads
    <3> HIDE DEF seen, verdict
    <3>2. /\ rd'[r] = NotReading \/ rd'[r] = Reading("sync", seen, verdict, TRUE)
          /\ \A s \in Readers \ {r} : rd'[s] = rd[s]
      BY <2>1, <3>1 DEF Compares
    <3> QED
      BY <3>2 DEF Reading, NotReading
  <2> QED
    BY <2>2, <2>3
<1>4. \A s \in Readers : Concluded(s)'
  BY <1>2, <1>3 DEF EnvInv, Concluded
<1>5. Unlaunched' /\ \A i \in Workers : Owning(i)'
  BY <1>1, <1>2 DEF EnvInv, Unlaunched, Owning
<1> QED
  BY <1>1, <1>2, <1>4, <1>5, OwnershipStep DEF EnvInv, Forfeiture

\* A sync: what it gives up has no load, and no start in flight; what an active row
\* that it missed still needs is forfeited.
LEMMA SyncLeases ==
    ASSUME ~Restarts, EnvInv, IntentInv, IntentInv', NEW r \in Readers, Sync(r)
    PROVE  EnvInv' /\ LeaseStep
<1>1. EngineIdle /\ UNCHANGED roots /\ rd' = [rd EXCEPT ![r] = NotReading]
  BY DEF Sync, Reads
<1>2. EngineHolds' /\ UNCHANGED <<ck, run, wk, row, ext, checked>>
  BY <1>1, EngineIdles
<1>3. Unlaunched'
  BY <1>1, <1>2 DEF EnvInv, Unlaunched
<1>4. \A s \in Readers : Concluded(s)'
  <2>1. rd'[r].pc = "idle" /\ \A s \in Readers \ {r} : rd'[s] = rd[s]
    BY <1>1 DEF IntentInv, IntentTypes, NotReading, Reading
  <2> QED
    BY <1>2, <2>1 DEF EnvInv, Concluded
<1>5. /\ dispatch \in DispatchRow /\ RowInv
      /\ rd[r].verdict \in DispatchStatus /\ rd[r].seen \notin TerminalStatus
      /\ rd[r].pc = "sync" /\ "absent" \notin DispatchStatus /\ rd[r].seen \in DispatchStatus
  BY RowFacts DEF Sync, IntentInv, IntentTypes, Looking, Reader, DispatchStatus
<1>6. CASE /\ dispatch'.env = dispatch.env
           /\ dispatch'.status = "absent" <=> dispatch.status = "absent"
  <2>1. forfeited' = forfeited
    BY <1>6 DEF Sync, EnvInv, Forfeiture
  <2>2. (\A i \in Workers : Owning(i)') /\ Forfeiture'
    BY <1>2, <1>6, <2>1 DEF EnvInv, Owning, Forfeiture
  <2> QED
    BY <1>2, <1>3, <1>4, <1>6, <2>1, <2>2, OwnershipStep DEF EnvInv
<1>7. CASE ~(/\ dispatch'.env = dispatch.env
             /\ dispatch'.status = "absent" <=> dispatch.status = "absent")
  <2>1. /\ dispatch' = Synced(dispatch, rd[r].seen, rd[r].verdict)
        /\ dispatch.status = rd[r].seen
        /\ forfeited' = (forfeited \/ (dispatch.env /\ ~dispatch'.env /\ Overtaken(r)))
    BY <1>7 DEF Sync, Synced
  <2>2. dispatch' = [dispatch EXCEPT !.status = rd[r].verdict,
                                     !.env = dispatch.env /\ rd[r].verdict \notin TerminalStatus]
    BY <2>1 DEF Synced
  <2>3. dispatch'.status = rd[r].verdict /\ dispatch.status \notin TerminalStatus \cup {"absent"}
    BY <1>5, <2>1, <2>2 DEF DispatchRow
  <2>4. /\ dispatch.env /\ ~dispatch'.env /\ dispatch'.status # "absent"
        /\ rd[r].verdict \in TerminalStatus
    BY <1>5, <1>7, <2>2, <2>3 DEF RowInv, DispatchRow
  <2>5. ~forfeited /\ forfeited \in BOOLEAN
    BY <2>4 DEF EnvInv, Forfeiture
  <2>6. CASE Overtaken(r)
    <3>1. forfeited' = TRUE
      BY <2>1, <2>4, <2>6
    <3>2. (\A i \in Workers : Owning(i)') /\ Forfeiture'
      BY <1>2, <2>4, <3>1 DEF EnvInv, Owning, Forfeiture
    <3> QED
      BY <1>2, <1>3, <1>4, <2>4, <3>1, <3>2, OwnershipStep DEF EnvInv
  <2>7. CASE ~Overtaken(r)
    <3>1. forfeited' = forfeited
      BY <2>1, <2>5, <2>7
    <3>2. row[1].status \in TerminalStatus \cup {"absent"}
      <4>1. row[1].status \in ActiveStatus \cup TerminalStatus \cup {"absent"}
        BY EngineAssumption
        DEF EnvInv, EngineHolds, SpineInv, OutsideOK, RowOf, Attempts, ActiveStatus
      <4> QED
        BY <1>5, <2>4, <2>7, <4>1 DEF Overtaken, EnvInv, Concluded
    <3>3. Load(ext[1].phase) # "live"
      BY <3>2, LoadNeedsRow DEF EnvInv
    <3>4. \A i \in Workers : Owning(i)'
      <4>1. ASSUME NEW i \in Workers, checked[i], wk[i].pc = "start.call" PROVE FALSE
        BY <3>2, <4>1, StartingRow DEF ActiveStatus
      <4> QED
        BY <1>2, <4>1 DEF Owning
    <3>5. Forfeiture'
      BY <2>5, <3>1 DEF Forfeiture
    <3> QED
      BY <1>2, <1>3, <1>4, <2>4, <3>1, <3>3, <3>4, <3>5, OwnershipStep DEF EnvInv
  <2> QED
    BY <2>6, <2>7
<1> QED
  BY <1>6, <1>7

\* Nothing has happened yet.
LEMMA EnvInitially == ASSUME DispatchInit PROVE EnvInv /\ Lease!LeaseInit
<1>1. EngineHolds
  BY InitIsGood, InitIsSafe, InitIsLoad DEF DispatchInit, EngineHolds
<1>2. /\ ck.node = "prepare" /\ \A i \in Workers : wk[i].pc = "idle"
      /\ \A a \in Attempts : ext[a].phase = "none"
  BY DEF DispatchInit, Untouched, FreshEntry, Idle
<1>3. Unlaunched /\ (\A i \in Workers : Owning(i)) /\ \A r \in Readers : Concluded(r)
  BY <1>2 DEF DispatchInit, Unlaunched, Owning, Concluded, NotReading, Reading
<1>4. dispatch.status = "absent" /\ ~dispatch.env /\ ~forfeited /\ Load(ext[1].phase) = "unused"
  BY <1>2, EngineAssumption DEF DispatchInit, NoDispatch, Load, LiveRun, TerminalStatus, Attempts
<1>5. Lease!LeaseInit
  BY <1>4 DEF Lease!LeaseInit
<1> QED
  BY <1>1, <1>3, <1>5 DEF DispatchInit, EnvInv, Forfeiture

\* Every step keeps the invariant and is a step of the lease, or none.
LEMMA EnvStep ==
    ASSUME ~Restarts, EnvInv, IntentInv, [DispatchNext]_dispatchVars
    PROVE  EnvInv' /\ LeaseStep
<1>1. IntentInv'
  BY IntentStep
<1>2. CASE EngineStep
  BY <1>2, EngineStepLeases
<1>3. ASSUME NEW i \in Workers, CheckBinding(i) \/ RefuseCall(i) PROVE EnvInv' /\ LeaseStep
  BY <1>1, <1>3, BindingLeases
<1>4. ASSUME NEW q \in Requests,
             \/ Intend(q) \/ Resume(q) \/ FindRoot(q) \/ BindThread(q)
             \/ RecordLaunch(q) \/ GiveUpLaunch(q)
      PROVE  EnvInv' /\ LeaseStep
  BY <1>1, <1>4, RequestLeases
<1>5. ASSUME NEW q \in Requests, CreateRun(q) \/ CrashRequest(q) PROVE EnvInv' /\ LeaseStep
  BY <1>1, <1>5, LaunchLeases
<1>6. ASSUME NEW r \in Readers, ReadRows(r) \/ ReadThread(r) PROVE EnvInv' /\ LeaseStep
  BY <1>1, <1>6, ReadLeases
<1>7. ASSUME NEW r \in Readers, Sync(r) PROVE EnvInv' /\ LeaseStep
  BY <1>1, <1>7, SyncLeases
<1>8. CASE Cancel \/ Revoke
  BY <1>1, <1>8, RequestLeases
<1>9. CASE UNCHANGED dispatchVars
  <2>1. EngineIdle /\ UNCHANGED <<dispatch, roots, forfeited, rd>>
    BY <1>9 DEF dispatchVars, intentVars, EngineIdle
  <2> QED
    BY <1>1, <2>1, EngineIdles, IntentOnly, OwnershipStep
<1> QED
  BY <1>2, <1>3, <1>4, <1>5, <1>6, <1>7, <1>8, <1>9 DEF DispatchNext

\* "Ownership is released only after cancellation before pipeline binding, a recorded
\* pre-provider failure, or terminal execution with confirmed cleanup": the launch,
\* its readers and the execution phase together keep the environment lease.  What the
\* code gives up against that is exactly what the lease calls forfeited: a sync that met
\* no engine row, whose update finds an active one.
THEOREM EnvironmentIsLeased ==
    ASSUME ~Restarts PROVE DispatchSpec => ImplementsEnvironmentLease
<1>1. DispatchInit => EnvInv /\ Lease!LeaseInit
  BY EnvInitially
<1>2. EnvInv /\ IntentInv /\ [DispatchNext]_dispatchVars
        => EnvInv' /\ [Lease!LeaseNext]_(Lease!leaseVars)
  BY EnvStep DEF LeaseStep
<1> QED
  BY <1>1, <1>2, IntentHolds, PTL DEF DispatchSpec, ImplementsEnvironmentLease, Lease!LeaseSpec
=============================================================================
