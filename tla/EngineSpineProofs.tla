------------------------- MODULE EngineSpineProofs -------------------------
(***************************************************************************)
(* Safety of EngineSpine, for any set of workers, any bounds on attempts,  *)
(* generations, retries and failures, any gate policy and any caller       *)
(* policy.  Part one: its types (SpineInv), what a completion witness and  *)
(* a succeeded phase stand for, that indexed objects survive (SafetyInv),  *)
(* and that an attempt is worked on by one worker at a time (Attended).    *)
(* Part two: the load that the spine runs stays reachable and does not     *)
(* outlive its attempt, and the spine implements the contract of the       *)
(* execution phase.  The hypothesis ~Restarts there, that no caller starts *)
(* a run with input on an unfinished attempt, stands for what a run shows  *)
(* to be necessary.                                                        *)
(***************************************************************************)
EXTENDS EngineSpine, TLAPS

-----------------------------------------------------------------------------
(* The row operators, for any set of generations.                          *)

\* What a caller may send.
WriteOf(V) ==
    [status : ActiveStatus \cup TerminalStatus, handle : BOOLEAN, pin : BOOLEAN,
     version : V, store : BOOLEAN, kind : CompletionKind]

\* The upsert returns a row of the table's type for every write of the type.
LEMMA UpsertType ==
    ASSUME NEW V, NEW r \in RowOf(V), NEW w \in WriteOf(V)
    PROVE  Upsert(r, w) \in RowOf(V)
  BY DEF RowOf, WriteOf, Upsert, ActiveStatus, TerminalStatus, CompletionKind

\* A write built from columns of the right types has the type.
LEMMA WriteType ==
    ASSUME NEW V,
           NEW s \in ActiveStatus \cup TerminalStatus, NEW h \in BOOLEAN,
           NEW p \in BOOLEAN, NEW g \in V, NEW a \in BOOLEAN,
           NEW k \in CompletionKind
    PROVE  Write(s, h, p, g, a, k) \in WriteOf(V)
  BY DEF Write, WriteOf, ActiveStatus, TerminalStatus, CompletionKind

\* Inserting a reservation if there is none.
LEMMA InsertType ==
    ASSUME NEW V, 0 \in V, NEW r \in RowOf(V), NEW v \in V
    PROVE  InsertReservation(r, v) \in RowOf(V)
  BY DEF InsertReservation, NoRow, RowOf, ActiveStatus, TerminalStatus, CompletionKind

\* A row never comes back from collecting or a terminal status, a terminal row
\* is kept, and a witness comes from the row or from the write.
LEMMA UpsertMatures ==
    ASSUME NEW V, NEW r \in RowOf(V), NEW w \in WriteOf(V),
           TransitionAllowed(r, w)
    PROVE  /\ r.status \in {"collecting"} \cup TerminalStatus
              => Upsert(r, w).status \in {"collecting"} \cup TerminalStatus
           /\ r.status \in TerminalStatus => Upsert(r, w) = r
           /\ Upsert(r, w).kind \in {r.kind, w.kind}
<1>1. r.status \in TerminalStatus => Upsert(r, w) = r
  BY DEF RowOf, WriteOf, TransitionAllowed, Superseded, Upsert,
         ActiveStatus, TerminalStatus, CompletionKind
<1>2. r.status = "collecting" => Upsert(r, w).status \in {"collecting"} \cup TerminalStatus
  BY DEF RowOf, WriteOf, TransitionAllowed, Superseded, Upsert, Order,
         ActiveStatus, TerminalStatus, CompletionKind
<1>3. Upsert(r, w).kind \in {r.kind, w.kind}
  BY DEF RowOf, WriteOf, Upsert, ActiveStatus, TerminalStatus, CompletionKind
<1> QED
  BY <1>1, <1>2, <1>3

\* A settlement of a live row leaves its outcome and its witness.
LEMMA UpsertSettles ==
    ASSUME NEW V, NEW r \in RowOf(V), NEW w \in WriteOf(V),
           r.status \in ActiveStatus, w.status \in TerminalStatus, w.kind # "none"
    PROVE  Upsert(r, w).status = w.status /\ Upsert(r, w).kind = w.kind
  BY DEF RowOf, WriteOf, TransitionAllowed, Superseded, Upsert,
         ActiveStatus, TerminalStatus, CompletionKind

\* A collection that may be recorded leaves the row collecting.
LEMMA UpsertCollecting ==
    ASSUME NEW V, NEW r \in RowOf(V), NEW w \in WriteOf(V),
           TransitionAllowed(r, w), w.status = "collecting"
    PROVE  Upsert(r, w).status = "collecting"
  BY DEF RowOf, WriteOf, TransitionAllowed, Superseded, Upsert, Order,
         ActiveStatus, TerminalStatus, CompletionKind

-----------------------------------------------------------------------------
(* The inductive invariant.                                                *)

\* What a node relies on earlier nodes to have left in the phase entry: a
\* collection has a finished run to collect, and a settlement (or an index that
\* must be repeated) has the outcome it projects.
Staged(c) ==
    /\ c.node \in {"collect", "index", "collection_blocked"} => c.last \in TerminalStatus
    /\ c.node \in {"index", "settle", "settle_blocked"} => c.outcome \in TerminalStatus
    /\ "index" \in c.marks =>
         /\ c.node \in {"index", "collection_blocked"}
         /\ c.outcome \in TerminalStatus

Good(c) == c \in Checkpoint /\ Staged(c)

\* A worker inside a node holds the checkpoint that led to the node.
InPlace(w) ==
    /\ w.pc \in {"provision.prepare", "provision.call", "provision.reject",
                 "provision.record"} => w.ck.node = "provision"
    /\ w.pc \in {"start.call", "start.reject", "start.record"} => w.ck.node = "start"
    /\ w.pc \in {"cleanup.call", "cleanup.record"} => w.ck.node = "cleanup"
    /\ w.pc = "collect.call" => w.ck.node = "collect"
    /\ w.pc \in {"settle.call", "settle.record"} => w.ck.node = "settle"

\* A kill is only recorded once the provider's run is over.
KillConfirmed(w) == w.pc = "cleanup.record" => ext[w.ck.attempt].phase \in TerminalStatus

WorkerOf == [pc : WorkerStage, ck : Checkpoint]

WorkerInv(w) == w \in WorkerOf /\ Staged(w.ck) /\ InPlace(w) /\ KillConfirmed(w)

GraphOK == Good(ck) /\ run \in {"active", "none"} /\ owner \in Workers \cup {Nobody}

WorkersOK == wk \in [Workers -> WorkerOf] /\ \A i \in Workers : WorkerInv(wk[i])

OutsideOK ==
    /\ row \in [Attempts -> RowOf(Versions)]
    /\ conn \in ConnectionOf(Versions \ {0})
    /\ ext \in [Attempts -> [phase : RunPhase, torn : BOOLEAN]]
    /\ objs \in [Attempts -> BOOLEAN] /\ indexed \in [Attempts -> BOOLEAN]

FaultsOK == faults \in 0 .. MaxFaults

SpineInv == GraphOK /\ WorkersOK /\ OutsideOK /\ FaultsOK

\* A provider's run that is over stays over.
OverStaysOver ==
    \A a \in Attempts : ext[a].phase \in TerminalStatus => ext'[a].phase \in TerminalStatus

-----------------------------------------------------------------------------
(* The updates that nodes commit keep the phase entry good.                *)

\* The names an update can put in a checkpoint are values of its fields.
LEMMA Names ==
    /\ "prompt_gate" \in Node /\ "output_gate" \in Node
    /\ "provision_blocked" \in Node /\ "cleanup_blocked" \in Node
    /\ "collection_blocked" \in Node /\ "settle_blocked" \in Node
    /\ "prepare" \in Node /\ "reserve" \in Node /\ "provision" \in Node
    /\ "start" \in Node /\ "status" \in Node /\ "poll" \in Node /\ "cleanup" \in Node
    /\ "collect" \in Node /\ "index" \in Node /\ "settle" \in Node
    /\ "open_output_gate" \in Node /\ "finalize" \in Node /\ "end" \in Node
    /\ "succeeded" \in PhaseStatus /\ "failed" \in PhaseStatus /\ "skipped" \in PhaseStatus
    /\ "aborted" \in PhaseStatus /\ "running" \in PhaseStatus /\ "pending" \in PhaseStatus
    /\ "awaiting_prompt_review" \in PhaseStatus /\ "awaiting_output_review" \in PhaseStatus
    /\ "provision" \in Stage /\ "poll" \in Stage /\ "cleanup" \in Stage
    /\ "collection" \in Stage /\ "index" \in Stage /\ "settle" \in Stage
    /\ "cleanup" \in Mark /\ "index" \in Mark /\ "settled" \in Mark
    /\ "none" \in RunPhase /\ \A s \in TerminalStatus : s \in RunPhase
    /\ 0 \in 0 .. MaxRetry
  BY EngineAssumption
  DEF Node, InterruptNode, PhaseStatus, TerminalPhase, Stage, Mark, RunPhase, TerminalStatus

\* A seeded entry is good.
LEMMA FreshIsGood == ASSUME NEW a \in Attempts PROVE Good(FreshEntry(a))
<1>1. NoFailures \in [Stage -> 0 .. MaxRetry] /\ 0 \in Versions
  BY EngineAssumption, Names DEF NoFailures, Versions
<1> QED
  BY <1>1, Names DEF Good, Staged, FreshEntry, Checkpoint

\* Counting a failure loops or blocks, and keeps all but the status.
LEMMA RetryIsCheckpoint ==
    ASSUME NEW c \in Checkpoint, NEW stage \in Stage, NEW self \in Node, NEW blocked \in Node
    PROVE  /\ Retry(c, stage, self, blocked) \in Checkpoint
           /\ Retry(c, stage, self, blocked).node \in {self, blocked}
           /\ Retry(c, stage, self, blocked).status = "running"
           /\ Retry(c, stage, self, blocked).attempt = c.attempt
           /\ Retry(c, stage, self, blocked).marks = c.marks
           /\ Retry(c, stage, self, blocked).last = c.last
           /\ Retry(c, stage, self, blocked).outcome = c.outcome
<1>1. PICK n \in 0 .. MaxRetry :
         n = IF c.fails[stage] < MaxRetry THEN c.fails[stage] + 1 ELSE MaxRetry
  BY EngineAssumption DEF Checkpoint
<1> QED
  BY <1>1, Names DEF Retry, Checkpoint

\* Each stage's retry keeps the entry good at its own node.
LEMMA RetriesAreGood ==
    ASSUME NEW c, Good(c)
    PROVE  /\ c.node = "provision" => Good(RetryProvision(c))
           /\ c.node = "cleanup" => Good(RetryCleanup(c))
           /\ c.node = "collect" => Good(RetryCollect(c))
           /\ c.node = "index" => Good(RetryIndex(c))
           /\ c.node = "settle" => Good(RetrySettle(c))
<1> c \in Checkpoint /\ Staged(c)
  BY DEF Good
<1> USE Names DEF Good, Staged
<1>1. c.node = "provision" => Good(RetryProvision(c))
  <2> DEFINE d == Retry(c, "provision", "provision", "provision_blocked")
  <2>1. /\ d \in Checkpoint /\ d.node \in {"provision", "provision_blocked"} /\ d.marks = c.marks
        /\ d.last = c.last /\ d.outcome = c.outcome
    BY RetryIsCheckpoint
  <2> HIDE DEF d
  <2> QED
    BY <2>1 DEF RetryProvision, d
<1>2. c.node = "cleanup" => Good(RetryCleanup(c))
  <2> DEFINE d == Retry(c, "cleanup", "cleanup", "cleanup_blocked")
  <2>1. d \in Checkpoint /\ d.node \in {"cleanup", "cleanup_blocked"} /\ d.marks = c.marks
    BY RetryIsCheckpoint
  <2> HIDE DEF d
  <2>2. [d EXCEPT !.marks = @ \cup {"cleanup"}] \in Checkpoint
    BY <2>1 DEF Checkpoint
  <2> QED
    BY <2>1, <2>2 DEF RetryCleanup, d, Checkpoint
<1>3. c.node = "collect" => Good(RetryCollect(c))
  <2> DEFINE d == Retry(c, "collection", "collect", "collection_blocked")
  <2>1. /\ d \in Checkpoint /\ d.node \in {"collect", "collection_blocked"} /\ d.marks = c.marks
        /\ d.last = c.last /\ d.outcome = c.outcome
    BY RetryIsCheckpoint
  <2> HIDE DEF d
  <2> QED
    BY <2>1 DEF RetryCollect, d
<1>4. c.node = "index" => Good(RetryIndex(c))
  <2> DEFINE d == Retry(c, "index", "index", "collection_blocked")
  <2>1. /\ d \in Checkpoint /\ d.node \in {"index", "collection_blocked"}
        /\ d.last = c.last /\ d.outcome = c.outcome
    BY RetryIsCheckpoint
  <2> HIDE DEF d
  <2>2. [d EXCEPT !.marks = @ \cup {"index"}] \in Checkpoint
    BY <2>1 DEF Checkpoint
  <2> QED
    BY <2>1, <2>2 DEF RetryIndex, d, Checkpoint
<1>5. c.node = "settle" => Good(RetrySettle(c))
  <2> DEFINE d == Retry(c, "settle", "settle", "settle_blocked")
  <2>1. /\ d \in Checkpoint /\ d.node \in {"settle", "settle_blocked"} /\ d.marks = c.marks
        /\ d.last = c.last /\ d.outcome = c.outcome
    BY RetryIsCheckpoint
  <2> HIDE DEF d
  <2> QED
    BY <2>1 DEF RetrySettle, d
<1> QED
  BY <1>1, <1>2, <1>3, <1>4, <1>5

\* An operator's retry keeps the entry good at the blocked node.
LEMMA ReopensAreGood ==
    ASSUME NEW c, Good(c)
    PROVE  /\ c.node = "provision_blocked" => Good(ReopenProvision(c))
           /\ c.node = "cleanup_blocked" => Good(ReopenCleanup(c))
           /\ c.node = "collection_blocked" => Good(ReopenCollection(c))
           /\ c.node = "settle_blocked" => Good(ReopenSettle(c))
  BY Names DEF Good, Staged, Checkpoint, Reopen, ReopenProvision, ReopenCleanup,
               ReopenCollection, ReopenSettle

\* The updates of the nodes between provision and cleanup.
LEMMA LaunchUpdatesAreGood ==
    ASSUME NEW c, Good(c), ext \in [Attempts -> [phase : RunPhase, torn : BOOLEAN]],
           c.node \in {"provision", "start", "status", "poll", "cleanup"}
    PROVE  /\ Good(Provisioned(c))
           /\ Good([c EXCEPT !.node = "finalize", !.status = "failed"])
           /\ Good([c EXCEPT !.node = "finalize", !.status = "failed",
                             !.marks = @ \ {"cleanup"}])
           /\ Good([c EXCEPT !.node = "status"])
           /\ Good(Observed(c))
           /\ Good(PollFailed(c))
           /\ Good(EnterCleanup(c))
           /\ Good(EnterCleanup(PollFailed(c)))
           /\ Good([EnterCleanup(c) EXCEPT !.last = ext[c.attempt].phase])
           /\ Good(Killed(c))
<1> c \in Checkpoint /\ Staged(c)
  BY DEF Good
<1> USE Names DEF Good, Staged, Checkpoint
<1>1. /\ Good(Provisioned(c))
      /\ Good([c EXCEPT !.node = "finalize", !.status = "failed"])
      /\ Good([c EXCEPT !.node = "finalize", !.status = "failed", !.marks = @ \ {"cleanup"}])
      /\ Good([c EXCEPT !.node = "status"])
  BY DEF Provisioned
<1>2. Good(Observed(c))
  BY DEF Observed
<1>3. Good(PollFailed(c)) /\ PollFailed(c).node = "poll"
  <2>1. PICK n \in 0 .. MaxRetry :
           n = IF c.fails["poll"] < MaxRetry THEN c.fails["poll"] + 1 ELSE c.fails["poll"]
    BY EngineAssumption
  <2> DEFINE d == [c EXCEPT !.node = "poll", !.fails["poll"] = n]
  <2>2. d \in Checkpoint
    OBVIOUS
  <2>3. d.node = "poll" /\ d.marks = c.marks
    OBVIOUS
  <2>4. PollFailed(c) = d
    BY <2>1 DEF PollFailed
  <2> HIDE DEF d
  <2> QED
    BY <2>2, <2>3, <2>4
<1>4. ASSUME NEW d, Good(d), d.node \in {"provision", "start", "status", "poll", "cleanup"}
      PROVE  Good(EnterCleanup(d)) /\ Good([EnterCleanup(d) EXCEPT !.last = ext[c.attempt].phase])
  BY <1>4 DEF EnterCleanup
<1>5. Good(Killed(c))
  BY DEF Killed
<1>6. Good(EnterCleanup(PollFailed(c)))
  BY <1>3, <1>4
<1> QED
  BY <1>1, <1>2, <1>3, <1>4, <1>5, <1>6

\* The updates of the collection nodes: the outcome is terminal because the last
\* observation was.
LEMMA CollectionUpdatesAreGood ==
    ASSUME NEW c, Good(c)
    PROVE  /\ c.node = "collect" => \A o \in ProjectedPhase(c.last) :
                Good([c EXCEPT !.node = "index", !.status = "running",
                               !.marks = @ \cup {"index"},
                               !.fails["index"] = 0, !.outcome = o])
           /\ c.node = "index" =>
                Good([c EXCEPT !.node = "settle", !.status = "running",
                               !.marks = @ \ {"index"},
                               !.fails["collection"] = 0, !.fails["index"] = 0])
           /\ c.node = "settle" => Good(Settled(c))
<1> c \in Checkpoint /\ Staged(c)
  BY DEF Good
<1> USE Names DEF Good, Staged, Checkpoint
<1>1. ASSUME c.node = "collect", NEW o \in ProjectedPhase(c.last)
      PROVE  o \in TerminalStatus
  BY <1>1 DEF ProjectedPhase, TerminalStatus
<1>2. ASSUME c.node = "collect", NEW o \in ProjectedPhase(c.last)
      PROVE  Good([c EXCEPT !.node = "index", !.status = "running",
                            !.marks = @ \cup {"index"}, !.fails["index"] = 0, !.outcome = o])
  BY <1>1, <1>2
<1>3. c.node = "index" =>
        Good([c EXCEPT !.node = "settle", !.status = "running", !.marks = @ \ {"index"},
                       !.fails["collection"] = 0, !.fails["index"] = 0])
  OBVIOUS
<1>4. c.node = "settle" => Good(Settled(c))
  BY DEF Settled, Continuation
<1> QED
  BY <1>2, <1>3, <1>4

-----------------------------------------------------------------------------
(* What a step does to the graph and the workers.                          *)

\* An idle worker's copy is good.
LEMMA IdleIsGood == Idle \in WorkerOf /\ WorkerInv(Idle)
<1>1. 1 \in Attempts
  BY EngineAssumption DEF Attempts
<1>2. Good(FreshEntry(1))
  BY <1>1, FreshIsGood
<1> QED
  BY <1>2 DEF Idle, WorkerOf, WorkerStage, WorkerInv, InPlace, KillConfirmed, Good

\* Workers that do not move stay as they were: what they rely on is stable.
LEMMA WorkersStay ==
    ASSUME WorkersOK, OverStaysOver, wk' = wk
    PROVE  WorkersOK'
  BY DEF WorkersOK, WorkerInv, WorkerOf, KillConfirmed, OverStaysOver, Staged, InPlace, Checkpoint

\* One worker moves to a state that is good.
LEMMA WorkerMoves ==
    ASSUME WorkersOK, OverStaysOver, NEW i \in Workers, NEW w \in WorkerOf,
           Staged(w.ck), InPlace(w),
           w.pc = "cleanup.record" => ext'[w.ck.attempt].phase \in TerminalStatus,
           wk' = [wk EXCEPT ![i] = w]
    PROVE  WorkersOK'
<1>1. wk' \in [Workers -> WorkerOf]
  BY DEF WorkersOK
<1>2. ASSUME NEW j \in Workers PROVE WorkerInv(wk[j])'
  <2>1. CASE j = i
    <3>1. wk'[j] = w
      BY <2>1 DEF WorkersOK
    <3> QED
      BY <3>1 DEF WorkerInv, KillConfirmed, Staged, InPlace
  <2>2. CASE j # i
    <3>1. wk'[j] = wk[j] /\ WorkerInv(wk[j])
      BY <2>2 DEF WorkersOK
    <3>2. wk[j].ck.attempt \in Attempts
      BY <3>1 DEF WorkerInv, WorkerOf, Checkpoint
    <3> QED
      BY <3>1, <3>2 DEF WorkerInv, KillConfirmed, OverStaysOver, Staged, InPlace
  <2> QED
    BY <2>1, <2>2
<1> QED
  BY <1>1, <1>2 DEF WorkersOK

\* A node without outside effects.
LEMMA CheckpointsKeeps ==
    ASSUME GraphOK, WorkersOK, OverStaysOver, NEW c, Good(c), Checkpoints(c)
    PROVE  GraphOK' /\ WorkersOK'
<1>1. WorkersOK'
  BY WorkersStay DEF Checkpoints
<1>2. GraphOK'
  BY DEF Checkpoints, GraphOK, RunAfter, Good, Staged
<1> QED
  BY <1>1, <1>2

\* A worker enters a node.
LEMMA EnterKeeps ==
    ASSUME GraphOK, WorkersOK, OverStaysOver, NEW i \in Workers, NEW pc \in WorkerStage,
           NEW c, Good(c), InPlace([pc |-> pc, ck |-> c]), pc # "cleanup.record",
           Enter(i, pc, c)
    PROVE  GraphOK' /\ WorkersOK'
<1> DEFINE w == [pc |-> pc, ck |-> c]
<1>1. w \in WorkerOf /\ w.pc = pc /\ w.ck = c
  BY DEF WorkerOf, Good
<1>2. wk' = [wk EXCEPT ![i] = w]
  BY DEF Enter
<1>3. Staged(w.ck) /\ InPlace(w)
  BY <1>1 DEF Good
<1> HIDE DEF w
<1>4. WorkersOK'
  BY <1>1, <1>2, <1>3, WorkerMoves
<1>5. GraphOK'
  BY DEF Enter, GraphOK, Good, Staged
<1> QED
  BY <1>4, <1>5

\* A worker goes on inside its node.
LEMMA GotoKeeps ==
    ASSUME GraphOK, WorkersOK, OverStaysOver, NEW i \in Workers, NEW pc \in WorkerStage,
           InPlace([pc |-> pc, ck |-> wk[i].ck]),
           pc = "cleanup.record" => ext'[wk[i].ck.attempt].phase \in TerminalStatus,
           Goto(i, pc)
    PROVE  GraphOK' /\ WorkersOK'
<1> DEFINE w == [pc |-> pc, ck |-> wk[i].ck]
<1>1. wk[i] \in WorkerOf
  BY DEF WorkersOK
<1>2. w \in WorkerOf /\ w.pc = pc /\ w.ck = wk[i].ck /\ Staged(wk[i].ck)
  BY DEF WorkerOf, WorkersOK, WorkerInv
<1>3. wk' = [wk EXCEPT ![i] = w]
  <2>1. [wk[i] EXCEPT !.pc = pc] = w
    BY <1>1 DEF WorkerOf
  <2>2. wk' = [wk EXCEPT ![i] = [wk[i] EXCEPT !.pc = pc]]
    BY DEF Goto
  <2> QED
    BY <2>1, <2>2
<1>4. InPlace(w)
  OBVIOUS
<1> HIDE DEF w
<1>5. WorkersOK'
  BY <1>2, <1>3, <1>4, WorkerMoves
<1>6. GraphOK'
  BY DEF Goto, GraphOK, Good, Staged
<1> QED
  BY <1>5, <1>6

\* A node returns its update.
LEMMA ReturnKeeps ==
    ASSUME GraphOK, WorkersOK, OverStaysOver, NEW i \in Workers, NEW c, Good(c), Return(i, c)
    PROVE  GraphOK' /\ WorkersOK'
<1> DEFINE w == [pc |-> "commit", ck |-> c]
<1>1. w \in WorkerOf /\ w.pc = "commit" /\ w.ck = c
  BY DEF WorkerOf, WorkerStage, Good
<1>2. wk' = [wk EXCEPT ![i] = w]
  BY DEF Return
<1>3. Staged(w.ck) /\ InPlace(w)
  BY <1>1 DEF Good, InPlace
<1> HIDE DEF w
<1>4. WorkersOK'
  BY <1>1, <1>2, <1>3, WorkerMoves
<1>5. GraphOK'
  BY DEF Return, GraphOK, Good, Staged
<1> QED
  BY <1>4, <1>5

\* A worker becomes idle.
LEMMA IdleKeeps ==
    ASSUME WorkersOK, OverStaysOver, NEW i \in Workers, wk' = [wk EXCEPT ![i] = Idle]
    PROVE  WorkersOK'
<1>1. Idle.pc # "cleanup.record" /\ Staged(Idle.ck) /\ InPlace(Idle) /\ Idle \in WorkerOf
  BY IdleIsGood DEF Idle, WorkerInv
<1> QED
  BY <1>1, WorkerMoves

\* A node raises.
LEMMA RaiseKeeps ==
    ASSUME GraphOK, WorkersOK, OverStaysOver, NEW i \in Workers, Raise(i)
    PROVE  GraphOK' /\ WorkersOK'
<1>1. WorkersOK'
  BY IdleKeeps DEF Raise
<1>2. GraphOK'
  BY DEF Raise, GraphOK, Good, Staged
<1> QED
  BY <1>1, <1>2

-----------------------------------------------------------------------------
(* What a step does outside the graph.                                     *)

\* A step that leaves the outside alone.
LEMMA OutsideStays ==
    ASSUME OutsideOK, UNCHANGED outside
    PROVE  OutsideOK' /\ OverStaysOver
  BY DEF OutsideOK, outside, OverStaysOver

\* A transaction on one attempt's row.
LEMMA SetRowKeeps ==
    ASSUME OutsideOK, NEW a \in Attempts, NEW r \in RowOf(Versions), SetRow(a, r)
    PROVE  OutsideOK' /\ OverStaysOver
  BY DEF OutsideOK, SetRow, OverStaysOver

\* A provider call on one attempt's run that does not revive it.
LEMMA SetRunKeeps ==
    ASSUME OutsideOK, NEW a \in Attempts, NEW p \in RunPhase, NEW torn \in BOOLEAN,
           ext[a].phase \in TerminalStatus => p \in TerminalStatus,
           SetRun(a, p, torn)
    PROVE  OutsideOK' /\ OverStaysOver /\ ext'[a].phase = p
<1>1. ext'[a].phase = p
  BY DEF OutsideOK, SetRun
<1>2. OutsideOK'
  BY DEF OutsideOK, SetRun
<1>3. OverStaysOver
  BY <1>1 DEF OutsideOK, SetRun, OverStaysOver
<1> QED
  BY <1>1, <1>2, <1>3

\* An abort never revives a run.
LEMMA AbortedPhaseType ==
    ASSUME NEW phase \in RunPhase, NEW p \in AbortedPhase(phase)
    PROVE  p \in RunPhase /\ (phase \in TerminalStatus => p \in TerminalStatus)
  BY EngineAssumption DEF AbortedPhase, RunPhase, LiveRun, TerminalStatus

\* A compensation ends the run.
LEMMA CompensateKeeps ==
    ASSUME OutsideOK, NEW a \in Attempts, NEW phase \in RunPhase, Compensate(a, phase)
    PROVE  OutsideOK' /\ OverStaysOver
<1>1. PICK p \in AbortedPhase(phase) \cap TerminalStatus : SetRun(a, p, TRUE)
  BY DEF Compensate
<1> QED
  BY <1>1, SetRunKeeps, Names

\* The fault budget.
LEMMA FaultsStay == ASSUME FaultsOK, Fault \/ Calm PROVE FaultsOK'
  BY EngineAssumption DEF FaultsOK, Fault, Calm

\* The shared shape of the steps that end with record_engine_run(required=True).
LEMMA RecordOrRaiseKeeps ==
    ASSUME SpineInv, NEW i \in Workers, NEW w \in WriteOf(Versions), NEW c, Good(c),
           RecordOrRaise(i, w, c)
    PROVE  SpineInv'
<1> DEFINE a == wk[i].ck.attempt
           r == Upsert(row[a], w)
<1> GraphOK /\ WorkersOK /\ OutsideOK /\ FaultsOK
  BY DEF SpineInv
<1>1. a \in Attempts
  BY DEF WorkersOK, WorkerOf, Checkpoint
<1>2. r \in RowOf(Versions)
  BY <1>1, UpsertType DEF OutsideOK
<1>3. FaultsOK'
  BY FaultsStay DEF RecordOrRaise
<1>4. UNCHANGED outside \/ SetRow(a, r)
  BY DEF RecordOrRaise
<1>5. Return(i, c) \/ Raise(i)
  BY DEF RecordOrRaise
<1> HIDE DEF a, r
<1>6. OutsideOK' /\ OverStaysOver
  BY <1>1, <1>2, <1>4, OutsideStays, SetRowKeeps
<1>7. GraphOK' /\ WorkersOK'
  BY <1>5, <1>6, ReturnKeeps, RaiseKeeps
<1> QED
  BY <1>3, <1>6, <1>7 DEF SpineInv

-----------------------------------------------------------------------------
(* The nodes that only read and checkpoint, and what people do.            *)

\* A step that checkpoints a good entry and leaves the outside alone.
LEMMA CheckpointStep ==
    ASSUME SpineInv, NEW c, Good(c), Checkpoints(c), UNCHANGED outside,
           Fault \/ Calm \/ UNCHANGED faults
    PROVE  SpineInv'
<1>1. FaultsOK'
  BY FaultsStay DEF SpineInv, Calm
<1>2. OutsideOK' /\ OverStaysOver
  BY OutsideStays DEF SpineInv
<1> QED
  BY <1>1, <1>2, CheckpointsKeeps DEF SpineInv

\* What open_output_gate makes of an entry c when the gate is on: its outcome is
\* shown, and it waits for the operator, or has failed.
Opened(c, node, status) ==
    [c EXCEPT !.outcome = "none", !.marks = @ \ {"settled"}, !.node = node, !.status = status]

\* open_output_gate checkpoints one of three entries.
LEMMA OutputGateOpens ==
    ASSUME OpenOutputGate
    PROVE  /\ Executes("open_output_gate") /\ UNCHANGED <<outside, faults>>
           /\ \/ Checkpoints([ck EXCEPT !.node = "finalize"])
              \/ Checkpoints(Opened(ck, "output_gate", "awaiting_output_review"))
              \/ Checkpoints(Opened(ck, "finalize", "failed"))
  BY DEF OpenOutputGate, Opened

\* The updates of the nodes around the spine.
LEMMA GateUpdatesAreGood ==
    ASSUME NEW c, Good(c), c.node \notin {"collect", "index", "collection_blocked"}
    PROVE  /\ Good([c EXCEPT !.node = "prompt_gate", !.status = "awaiting_prompt_review"])
           /\ Good([c EXCEPT !.node = "reserve", !.status = "running"])
           /\ Good([c EXCEPT !.node = "reserve"])
           /\ Good([c EXCEPT !.node = "provision"])
           /\ Good([c EXCEPT !.node = "finalize"])
           /\ \A s \in {"running", c.status} :
                Good([c EXCEPT !.node = "open_output_gate", !.status = s])
           /\ \A s \in {"skipped", "aborted", "failed"} :
                Good([c EXCEPT !.node = "finalize", !.status = s])
           /\ Good(Opened(c, "output_gate", "awaiting_output_review"))
           /\ Good(Opened(c, "finalize", "failed"))
           /\ Good([c EXCEPT !.node = "end", !.status = FinalStatus(c),
                             !.outcome = "none", !.marks = @ \ {"settled"}])
<1> c \in Checkpoint /\ Staged(c)
  BY DEF Good
<1> USE Names DEF Good, Staged, Checkpoint
<1>1. /\ Good([c EXCEPT !.node = "prompt_gate", !.status = "awaiting_prompt_review"])
      /\ Good([c EXCEPT !.node = "reserve", !.status = "running"])
      /\ Good([c EXCEPT !.node = "reserve"])
      /\ Good([c EXCEPT !.node = "provision"])
      /\ Good([c EXCEPT !.node = "finalize"])
      /\ \A s \in {"running", c.status} :
           Good([c EXCEPT !.node = "open_output_gate", !.status = s])
  OBVIOUS
<1>2. ASSUME NEW s \in {"skipped", "aborted", "failed"}
      PROVE  Good([c EXCEPT !.node = "finalize", !.status = s])
  BY <1>2
<1>3. /\ Good(Opened(c, "output_gate", "awaiting_output_review"))
      /\ Good(Opened(c, "finalize", "failed"))
  BY DEF Opened
<1>4. FinalStatus(c) \in PhaseStatus
  BY DEF FinalStatus, TerminalPhase
<1>5. Good([c EXCEPT !.node = "end", !.status = FinalStatus(c),
                     !.outcome = "none", !.marks = @ \ {"settled"}])
  BY <1>4
<1> QED
  BY <1>1, <1>2, <1>3, <1>5

\* The updates that pin the connection's generation and the artifact store.
LEMMA AffinityUpdatesAreGood ==
    ASSUME NEW c, Good(c), conn \in ConnectionOf(Versions \ {0})
    PROVE  /\ Good([c EXCEPT !.status = "running", !.gen = conn.version])
           /\ Good([c EXCEPT !.status = "running", !.store = TRUE])
  BY Names DEF Good, Staged, Checkpoint, ConnectionOf

\* plan_resolver's entry stays within the bound on attempts.
LEMMA PlanResolverIsGood ==
    ASSUME NEW c, Good(c), ParentStatus(c) \in TerminalPhase => c.attempt < MaxAttempt
    PROVE  Good(PlanResolver(c))
<1>1. c.attempt \in Attempts
  BY DEF Good, Checkpoint
<1>2. c.attempt < MaxAttempt => c.attempt + 1 \in Attempts
  BY <1>1, EngineAssumption DEF Attempts
<1> QED
  BY <1>1, <1>2, FreshIsGood DEF PlanResolver

\* The nodes that only read and checkpoint.
LEMMA NodeStepKeeps == ASSUME SpineInv, NodeStep PROVE SpineInv'
<1> Good(ck) /\ OutsideOK
  BY DEF SpineInv, GraphOK
<1> conn \in ConnectionOf(Versions \ {0}) /\ ext \in [Attempts -> [phase : RunPhase, torn : BOOLEAN]]
  BY DEF OutsideOK
<1>1. CASE Prepare
  BY <1>1, GateUpdatesAreGood, CheckpointStep DEF Prepare, Executes
<1>2. CASE Reserve
  BY <1>2, GateUpdatesAreGood, CheckpointStep DEF Reserve, Executes
<1>3. CASE StageAffinity
  BY <1>3, AffinityUpdatesAreGood, RetriesAreGood, CheckpointStep DEF StageAffinity, Executes
<1>4. CASE InitialStatus
  BY <1>4, LaunchUpdatesAreGood, CheckpointStep DEF InitialStatus, Executes
<1>5. CASE Poll
  BY <1>5, LaunchUpdatesAreGood, CheckpointStep DEF Poll, Executes
<1>6. CASE PollTimeout
  BY <1>6, LaunchUpdatesAreGood, CheckpointStep DEF PollTimeout, Executes
<1>7. CASE StageStore
  BY <1>7, AffinityUpdatesAreGood, RetriesAreGood, CheckpointStep DEF StageStore, Executes
<1>8. CASE OpenOutputGate
  BY <1>8, OutputGateOpens, GateUpdatesAreGood, CheckpointStep DEF Executes
<1>9. CASE Finalize
  BY <1>9, GateUpdatesAreGood, CheckpointStep DEF Finalize, Executes
<1> QED
  BY <1>1, <1>2, <1>3, <1>4, <1>5, <1>6, <1>7, <1>8, <1>9 DEF NodeStep

\* A step that only changes whether a graph run is active.
LEMMA RunChanges ==
    ASSUME SpineInv, run' \in {"active", "none"}, UNCHANGED <<ck, owner, wk, outside>>,
           Fault \/ Calm \/ UNCHANGED faults
    PROVE  SpineInv'
<1>1. FaultsOK'
  BY FaultsStay DEF SpineInv, Calm
<1>2. OutsideOK' /\ OverStaysOver
  BY OutsideStays DEF SpineInv
<1>3. WorkersOK'
  BY <1>2, WorkersStay DEF SpineInv
<1>4. GraphOK'
  BY DEF SpineInv, GraphOK, Good, Staged
<1> QED
  BY <1>1, <1>2, <1>3, <1>4 DEF SpineInv

\* What people do.
LEMMA OperatorKeeps == ASSUME SpineInv, Operator PROVE SpineInv'
<1> Good(ck)
  BY DEF SpineInv, GraphOK
<1>1. CASE DecidePrompt
  BY <1>1, GateUpdatesAreGood, CheckpointStep DEF DecidePrompt
<1>2. CASE DecideOutput
  BY <1>2, GateUpdatesAreGood, CheckpointStep DEF DecideOutput
<1>3. CASE ResumeBlocked
  BY <1>3, ReopensAreGood, CheckpointStep DEF ResumeBlocked
<1>4. CASE Rerun
  BY <1>4, PlanResolverIsGood, CheckpointStep DEF Rerun
<1>5. CASE Restart
  BY <1>5, PlanResolverIsGood, CheckpointStep DEF Restart
<1>6. CASE Continue
  BY <1>6, RunChanges DEF Continue
<1> QED
  BY <1>1, <1>2, <1>3, <1>4, <1>5, <1>6 DEF Operator

-----------------------------------------------------------------------------
(* The worker's steps, one lemma per action.                               *)

\* The columns the nodes write have the types of the table's.
LEMMA WriteNames ==
    /\ 0 \in Versions /\ TRUE \in BOOLEAN /\ FALSE \in BOOLEAN
    /\ \A s \in {"ready", "running", "collecting", "completed", "failed", "aborted"} :
         s \in ActiveStatus \cup TerminalStatus
    /\ \A s \in TerminalStatus : s \in ActiveStatus \cup TerminalStatus
    /\ \A k \in {"none", "collection", "cleanup"} : k \in CompletionKind
  BY EngineAssumption DEF Versions, ActiveStatus, TerminalStatus, CompletionKind

\* What a worker's copy of the checkpoint is known to satisfy.
LEMMA WorkerCopy ==
    ASSUME SpineInv, NEW i \in Workers
    PROVE  /\ Good(wk[i].ck) /\ InPlace(wk[i]) /\ KillConfirmed(wk[i])
           /\ wk[i].ck.attempt \in Attempts /\ wk[i].ck.gen \in Versions
           /\ row[wk[i].ck.attempt] \in RowOf(Versions)
           /\ ext[wk[i].ck.attempt].phase \in RunPhase
           /\ ext[wk[i].ck.attempt].torn \in BOOLEAN
           /\ ext \in [Attempts -> [phase : RunPhase, torn : BOOLEAN]]
  BY DEF SpineInv, WorkersOK, WorkerInv, WorkerOf, Good, Checkpoint, OutsideOK

\* The same of the committed checkpoint.
LEMMA GraphCopy ==
    ASSUME SpineInv
    PROVE  /\ Good(ck) /\ ck.attempt \in Attempts /\ ck.gen \in Versions
           /\ row[ck.attempt] \in RowOf(Versions)
           /\ ext \in [Attempts -> [phase : RunPhase, torn : BOOLEAN]]
  BY DEF SpineInv, GraphOK, Good, Checkpoint, OutsideOK

\* A worker enters a node, goes on in it, returns from it or raises, with the
\* outside kept.
LEMMA WorkerMoveKeeps ==
    ASSUME SpineInv, OutsideOK', OverStaysOver, Fault \/ Calm, NEW i \in Workers,
           \/ \E pc \in WorkerStage : \E c :
                /\ Good(c) /\ InPlace([pc |-> pc, ck |-> c]) /\ pc # "cleanup.record"
                /\ Enter(i, pc, c)
           \/ \E pc \in WorkerStage :
                /\ InPlace([pc |-> pc, ck |-> wk[i].ck])
                /\ pc = "cleanup.record" => ext'[wk[i].ck.attempt].phase \in TerminalStatus
                /\ Goto(i, pc)
           \/ \E c : Good(c) /\ Return(i, c)
           \/ Raise(i)
    PROVE  SpineInv'
<1>1. GraphOK /\ WorkersOK /\ FaultsOK
  BY DEF SpineInv
<1>2. GraphOK' /\ WorkersOK'
  BY <1>1, EnterKeeps, GotoKeeps, ReturnKeeps, RaiseKeeps
<1>3. FaultsOK'
  BY <1>1, FaultsStay
<1> QED
  BY <1>2, <1>3 DEF SpineInv

\* Entering the commit of a good update, and a stage of the node one is at.
LEMMA Stages ==
    /\ \A c : InPlace([pc |-> "commit", ck |-> c])
    /\ \A c : c.node = "provision" =>
         \A pc \in {"provision.prepare", "provision.call", "provision.reject",
                    "provision.record"} :
           pc \in WorkerStage /\ InPlace([pc |-> pc, ck |-> c])
    /\ \A c : c.node = "start" =>
         \A pc \in {"start.call", "start.reject", "start.record"} :
           pc \in WorkerStage /\ InPlace([pc |-> pc, ck |-> c])
    /\ \A c : c.node = "cleanup" =>
         \A pc \in {"cleanup.call", "cleanup.record"} :
           pc \in WorkerStage /\ InPlace([pc |-> pc, ck |-> c])
    /\ \A c : c.node = "collect" => InPlace([pc |-> "collect.call", ck |-> c])
    /\ \A c : c.node = "settle" =>
         \A pc \in {"settle.call", "settle.record"} :
           pc \in WorkerStage /\ InPlace([pc |-> pc, ck |-> c])
    /\ "commit" \in WorkerStage /\ "collect.call" \in WorkerStage
  BY DEF InPlace, WorkerStage

\* The provision node is entered with a checkpoint at that node.
LEMMA ProvisionResolveKeeps ==
    ASSUME SpineInv, NEW i \in Workers, ProvisionResolve(i) PROVE SpineInv'
<1>1. OutsideOK' /\ OverStaysOver
  BY OutsideStays DEF SpineInv, ProvisionResolve
<1>2. Good(ck) /\ ck.node = "provision"
  BY GraphCopy DEF ProvisionResolve, Takes
<1>3. Good(RetryProvision(ck))
  BY <1>2, RetriesAreGood
<1>4. Fault \/ Calm
  BY DEF ProvisionResolve
<1>5. \E pc \in WorkerStage : \E c :
        /\ Good(c) /\ InPlace([pc |-> pc, ck |-> c]) /\ pc # "cleanup.record"
        /\ Enter(i, pc, c)
  BY <1>2, <1>3, Stages DEF ProvisionResolve
<1> QED
  BY <1>1, <1>4, <1>5, WorkerMoveKeeps

\* The reservation inserted before the provider call has the row's type.
LEMMA ProvisionPrepareKeeps ==
    ASSUME SpineInv, NEW i \in Workers, ProvisionPrepare(i) PROVE SpineInv'
<1> DEFINE c == wk[i].ck
           a == c.attempt
           r == InsertReservation(row[a], c.gen)
<1>1. /\ Good(c) /\ c.node = "provision" /\ a \in Attempts
      /\ r \in RowOf(Versions)
  <2>1. 0 \in Versions
    BY EngineAssumption DEF Versions
  <2> QED
    BY <2>1, WorkerCopy, InsertType DEF ProvisionPrepare, At, InPlace
<1>2. Good(RetryProvision(c)) /\ Good(Provisioned(c))
  BY <1>1, WorkerCopy, RetriesAreGood, LaunchUpdatesAreGood
<1>3. UNCHANGED outside \/ SetRow(a, r)
  BY DEF ProvisionPrepare
<1>4. Fault \/ Calm
  BY DEF ProvisionPrepare
<1>5. \/ Goto(i, "provision.call")
      \/ Return(i, Provisioned(c)) \/ Return(i, RetryProvision(c)) \/ Raise(i)
  BY DEF ProvisionPrepare
<1> HIDE DEF c, a, r
<1>6. OutsideOK' /\ OverStaysOver
  BY <1>1, <1>3, OutsideStays, SetRowKeeps DEF SpineInv
<1>7. InPlace([pc |-> "provision.call", ck |-> c]) /\ "provision.call" \in WorkerStage
  BY <1>1, Stages
<1> QED
  BY <1>2, <1>4, <1>5, <1>6, <1>7, WorkerMoveKeeps DEF c

\* Creating, refusing or compensating a run never revives one that is over.
LEMMA ProvisionCallKeeps ==
    ASSUME SpineInv, NEW i \in Workers, ProvisionCall(i) PROVE SpineInv'
<1> DEFINE c == wk[i].ck
           a == c.attempt
           created == IF ext[a].phase = "none" THEN "ready" ELSE ext[a].phase
<1>1. Good(c) /\ c.node = "provision" /\ a \in Attempts /\ ext[a].torn \in BOOLEAN
  BY WorkerCopy DEF ProvisionCall, At, InPlace
<1>2. created \in RunPhase /\ (ext[a].phase \in TerminalStatus => created \in TerminalStatus)
  BY WorkerCopy DEF RunPhase, TerminalStatus
<1>3. Good(RetryProvision(c))
  BY <1>1, RetriesAreGood
<1>4. UNCHANGED outside \/ SetRun(a, created, ext[a].torn) \/ Compensate(a, created)
  BY DEF ProvisionCall
<1>5. Fault \/ Calm
  BY DEF ProvisionCall
<1>6. Goto(i, "provision.record") \/ Goto(i, "provision.reject") \/ Return(i, RetryProvision(c))
  BY DEF ProvisionCall
<1> HIDE DEF c, a, created
<1>7. OutsideOK' /\ OverStaysOver
  BY <1>1, <1>2, <1>4, OutsideStays, SetRunKeeps, CompensateKeeps DEF SpineInv
<1>8. \A pc \in {"provision.record", "provision.reject"} :
        InPlace([pc |-> pc, ck |-> c]) /\ pc \in WorkerStage /\ pc # "cleanup.record"
  BY <1>1, Stages
<1> QED
  BY <1>3, <1>5, <1>6, <1>7, <1>8, WorkerMoveKeeps DEF c

\* The row of a definitive provision failure.
LEMMA ProvisionRejectKeeps ==
    ASSUME SpineInv, NEW i \in Workers, ProvisionReject(i) PROVE SpineInv'
<1>1. Good(wk[i].ck) /\ wk[i].ck.node = "provision"
  BY WorkerCopy DEF ProvisionReject, At, InPlace
<1>2. Good([wk[i].ck EXCEPT !.node = "finalize", !.status = "failed"])
  BY <1>1, WorkerCopy, LaunchUpdatesAreGood
<1>3. Write("failed", FALSE, FALSE, 0, FALSE, "none") \in WriteOf(Versions)
  BY WriteNames, WriteType
<1> QED
  BY <1>2, <1>3, RecordOrRaiseKeeps DEF ProvisionReject

\* The row of a provisioned run.
LEMMA ProvisionRecordKeeps ==
    ASSUME SpineInv, NEW i \in Workers, ProvisionRecord(i) PROVE SpineInv'
<1> DEFINE c == wk[i].ck
           a == c.attempt
           r == Upsert(row[a], Write("ready", TRUE, FALSE, 0, FALSE, "none"))
<1>1. Write("ready", TRUE, FALSE, 0, FALSE, "none") \in WriteOf(Versions)
  BY WriteNames, WriteType
<1>2. Good(c) /\ c.node = "provision" /\ a \in Attempts /\ r \in RowOf(Versions)
  BY <1>1, WorkerCopy, UpsertType DEF ProvisionRecord, At, InPlace
<1>3. Good(RetryProvision(c)) /\ Good(Provisioned(c))
  BY <1>2, WorkerCopy, RetriesAreGood, LaunchUpdatesAreGood
<1>4. UNCHANGED outside \/ SetRow(a, r)
  BY DEF ProvisionRecord
<1>5. Fault \/ Calm
  BY DEF ProvisionRecord
<1>6. Return(i, Provisioned(c)) \/ Return(i, RetryProvision(c)) \/ Raise(i)
  BY DEF ProvisionRecord
<1> HIDE DEF c, a, r
<1>7. OutsideOK' /\ OverStaysOver
  BY <1>2, <1>4, OutsideStays, SetRowKeeps DEF SpineInv
<1> QED
  BY <1>3, <1>5, <1>6, <1>7, WorkerMoveKeeps

\* The start node is entered with a checkpoint at that node.
LEMMA StartPrepareKeeps ==
    ASSUME SpineInv, NEW i \in Workers, StartPrepare(i) PROVE SpineInv'
<1>1. OutsideOK' /\ OverStaysOver /\ UNCHANGED outside
  BY OutsideStays DEF SpineInv, StartPrepare
<1>2. Good(ck) /\ ck.node = "start"
  BY GraphCopy DEF StartPrepare, Takes
<1>3. Good([ck EXCEPT !.node = "status"])
  BY <1>2, GraphCopy, LaunchUpdatesAreGood
<1>4. Fault \/ Calm
  BY DEF StartPrepare
<1>5. CASE \/ Enter(i, "start.call", ck)
           \/ Enter(i, "commit", [ck EXCEPT !.node = "status"])
  <2>1. \E pc \in WorkerStage : \E c :
          /\ Good(c) /\ InPlace([pc |-> pc, ck |-> c]) /\ pc # "cleanup.record"
          /\ Enter(i, pc, c)
    BY <1>2, <1>3, <1>5, Stages
  <2> QED
    BY <1>1, <1>4, <2>1, WorkerMoveKeeps
<1>6. CASE run' = "none" /\ UNCHANGED <<ck, owner, wk>>
  BY <1>1, <1>4, <1>6, RunChanges
<1> QED
  BY <1>5, <1>6 DEF StartPrepare

\* Starting a run never revives one that is over.
LEMMA StartCallKeeps ==
    ASSUME SpineInv, NEW i \in Workers, StartCall(i) PROVE SpineInv'
<1> DEFINE c == wk[i].ck
           a == c.attempt
           started == IF ext[a].phase = "ready" THEN "running" ELSE ext[a].phase
<1>1. Good(c) /\ c.node = "start" /\ a \in Attempts /\ ext[a].torn \in BOOLEAN
  BY WorkerCopy DEF StartCall, At, InPlace
<1>2. started \in RunPhase /\ (ext[a].phase \in TerminalStatus => started \in TerminalStatus)
  BY WorkerCopy DEF RunPhase, LiveRun, TerminalStatus
<1>3. Good(EnterCleanup(c))
  BY <1>1, WorkerCopy, LaunchUpdatesAreGood
<1>4. UNCHANGED outside \/ SetRun(a, started, ext[a].torn) \/ Compensate(a, started)
  BY DEF StartCall
<1>5. Fault \/ Calm
  BY DEF StartCall
<1>6. Goto(i, "start.record") \/ Goto(i, "start.reject") \/ Return(i, EnterCleanup(c))
  BY DEF StartCall
<1> HIDE DEF c, a, started
<1>7. OutsideOK' /\ OverStaysOver
  BY <1>1, <1>2, <1>4, OutsideStays, SetRunKeeps, CompensateKeeps DEF SpineInv
<1>8. \A pc \in {"start.record", "start.reject"} :
        InPlace([pc |-> pc, ck |-> c]) /\ pc \in WorkerStage /\ pc # "cleanup.record"
  BY <1>1, Stages
<1> QED
  BY <1>3, <1>5, <1>6, <1>7, <1>8, WorkerMoveKeeps DEF c

\* The row of an unsafe start.
LEMMA StartRejectKeeps ==
    ASSUME SpineInv, NEW i \in Workers, StartReject(i) PROVE SpineInv'
<1>1. Good(wk[i].ck) /\ wk[i].ck.node = "start" /\ wk[i].ck.gen \in Versions
  BY WorkerCopy DEF StartReject, At, InPlace
<1>2. Good([wk[i].ck EXCEPT !.node = "finalize", !.status = "failed",
                            !.marks = @ \ {"cleanup"}])
  BY <1>1, WorkerCopy, LaunchUpdatesAreGood
<1>3. Write("failed", TRUE, TRUE, wk[i].ck.gen, FALSE, "none") \in WriteOf(Versions)
  BY <1>1, WriteNames, WriteType
<1> QED
  BY <1>2, <1>3, RecordOrRaiseKeeps DEF StartReject

\* The row of a started run.
LEMMA StartRecordKeeps ==
    ASSUME SpineInv, NEW i \in Workers, StartRecord(i) PROVE SpineInv'
<1>1. Good(wk[i].ck) /\ wk[i].ck.node = "start" /\ wk[i].ck.gen \in Versions
  BY WorkerCopy DEF StartRecord, At, InPlace
<1>2. Good([wk[i].ck EXCEPT !.node = "status"])
  BY <1>1, WorkerCopy, LaunchUpdatesAreGood
<1>3. Write("running", TRUE, TRUE, wk[i].ck.gen, FALSE, "none") \in WriteOf(Versions)
  BY <1>1, WriteNames, WriteType
<1> QED
  BY <1>2, <1>3, RecordOrRaiseKeeps DEF StartRecord

\* The cleanup node is entered, or its committed kill recovered.
LEMMA CleanupRecoverKeeps ==
    ASSUME SpineInv, NEW i \in Workers, CleanupRecover(i) PROVE SpineInv'
<1>1. OutsideOK' /\ OverStaysOver /\ UNCHANGED outside
  BY OutsideStays DEF SpineInv, CleanupRecover
<1>2. Good(ck) /\ ck.node = "cleanup"
  BY GraphCopy DEF CleanupRecover, Takes
<1>3. Good(Killed(ck))
  BY <1>2, GraphCopy, LaunchUpdatesAreGood
<1>4. Fault \/ Calm
  BY DEF CleanupRecover
<1>5. CASE Enter(i, "cleanup.call", ck) \/ Enter(i, "commit", Killed(ck))
  <2>1. \E pc \in WorkerStage : \E c :
          /\ Good(c) /\ InPlace([pc |-> pc, ck |-> c]) /\ pc # "cleanup.record"
          /\ Enter(i, pc, c)
    BY <1>2, <1>3, <1>5, Stages
  <2> QED
    BY <1>1, <1>4, <2>1, WorkerMoveKeeps
<1>6. CASE run' = "none" /\ UNCHANGED <<ck, owner, wk>>
  BY <1>1, <1>4, <1>6, RunChanges
<1> QED
  BY <1>5, <1>6 DEF CleanupRecover

\* A worker goes on to record the kill only if the run is over.
LEMMA CleanupCallKeeps ==
    ASSUME SpineInv, NEW i \in Workers, CleanupCall(i) PROVE SpineInv'
<1> DEFINE c == wk[i].ck
           a == c.attempt
<1>1. /\ Good(c) /\ c.node = "cleanup" /\ a \in Attempts
      /\ ext[a].torn \in BOOLEAN /\ ext[a].phase \in RunPhase
  BY WorkerCopy DEF CleanupCall, At, InPlace
<1>2. Good(RetryCleanup(c))
  BY <1>1, RetriesAreGood
<1>3. Fault \/ Calm
  BY DEF CleanupCall
<1>4. \/ \E p \in AbortedPhase(ext[a].phase) :
           p \in TerminalStatus /\ SetRun(a, p, TRUE) /\ Goto(i, "cleanup.record")
      \/ /\ Return(i, RetryCleanup(c))
         /\ \/ UNCHANGED outside
            \/ \E p \in AbortedPhase(ext[a].phase), torn \in BOOLEAN : SetRun(a, p, torn)
  <2>1. ext[a].torn \in BOOLEAN
    BY <1>1
  <2>2. \A p, torn : torn \in BOOLEAN =>
          ((torn /\ p \in TerminalStatus) \/ ext[a].torn) \in BOOLEAN
    OBVIOUS
  <2> QED
    BY <2>1, <2>2, Zenon DEF CleanupCall
<1> HIDE DEF c, a
<1>5. OutsideOK
  BY DEF SpineInv
<1>6. CASE \E p \in AbortedPhase(ext[a].phase) :
             p \in TerminalStatus /\ SetRun(a, p, TRUE) /\ Goto(i, "cleanup.record")
  <2>1. PICK p \in AbortedPhase(ext[a].phase) :
          p \in TerminalStatus /\ SetRun(a, p, TRUE) /\ Goto(i, "cleanup.record")
    BY <1>6
  <2>2. OutsideOK' /\ OverStaysOver /\ ext'[a].phase \in TerminalStatus
    BY <1>1, <1>5, <2>1, Names, SetRunKeeps
  <2>3. InPlace([pc |-> "cleanup.record", ck |-> c]) /\ "cleanup.record" \in WorkerStage
    BY <1>1, Stages
  <2> QED
    BY <1>3, <2>1, <2>2, <2>3, WorkerMoveKeeps DEF c, a
<1>7. CASE /\ Return(i, RetryCleanup(c))
           /\ \/ UNCHANGED outside
              \/ \E p \in AbortedPhase(ext[a].phase), torn \in BOOLEAN : SetRun(a, p, torn)
  <2>1. OutsideOK' /\ OverStaysOver
    BY <1>1, <1>5, <1>7, AbortedPhaseType, OutsideStays, SetRunKeeps
  <2> QED
    BY <1>2, <1>3, <1>7, <2>1, WorkerMoveKeeps
<1> QED
  BY <1>4, <1>6, <1>7

\* The recorded kill carries the terminal phase the provider confirmed, which no
\* other step has changed since.
LEMMA CleanupRecordKeeps ==
    ASSUME SpineInv, NEW i \in Workers, CleanupRecord(i) PROVE SpineInv'
<1> DEFINE c == wk[i].ck
<1>1. /\ Good(c) /\ c.node = "cleanup" /\ c.gen \in Versions
      /\ ext[c.attempt].phase \in TerminalStatus
  BY WorkerCopy DEF CleanupRecord, At, InPlace, KillConfirmed
<1>2. Good(Killed(c))
  BY <1>1, WorkerCopy, LaunchUpdatesAreGood
<1>3. Write(ext[c.attempt].phase, TRUE, TRUE, c.gen, FALSE, "cleanup") \in WriteOf(Versions)
  BY <1>1, WriteNames, WriteType
<1> QED
  BY <1>2, <1>3, RecordOrRaiseKeeps DEF CleanupRecord

\* The row of a collection that is about to write bytes.
LEMMA CollectReserveKeeps ==
    ASSUME SpineInv, NEW i \in Workers, CollectReserve(i) PROVE SpineInv'
<1> DEFINE a == ck.attempt
           r == Upsert(row[a], Write("collecting", TRUE, TRUE, ck.gen, TRUE, "none"))
<1>1. Good(ck) /\ ck.node = "collect" /\ a \in Attempts
  BY GraphCopy DEF CollectReserve, Takes
<1>2. r \in RowOf(Versions)
  BY GraphCopy, WriteNames, WriteType, UpsertType
<1>3. Good(RetryCollect(ck))
  BY <1>1, RetriesAreGood
<1>4. UNCHANGED outside \/ SetRow(a, r)
  BY DEF CollectReserve
<1>5. Fault \/ Calm
  BY DEF CollectReserve
<1>6. Enter(i, "collect.call", ck) \/ Enter(i, "commit", RetryCollect(ck))
  BY DEF CollectReserve
<1> HIDE DEF a, r
<1>7. OutsideOK' /\ OverStaysOver
  BY <1>1, <1>2, <1>4, OutsideStays, SetRowKeeps DEF SpineInv
<1>8. \E pc \in WorkerStage : \E c :
        /\ Good(c) /\ InPlace([pc |-> pc, ck |-> c]) /\ pc # "cleanup.record"
        /\ Enter(i, pc, c)
  BY <1>1, <1>3, <1>6, Stages
<1> QED
  BY <1>5, <1>7, <1>8, WorkerMoveKeeps

\* Steps on the artifact store and its index leave rows and runs alone.
LEMMA StoreStep ==
    ASSUME OutsideOK, UNCHANGED <<row, conn, ext>>,
           objs' \in [Attempts -> BOOLEAN], indexed' \in [Attempts -> BOOLEAN]
    PROVE  OutsideOK' /\ OverStaysOver
  BY DEF OutsideOK, OverStaysOver

\* The collected outcome is terminal because the last observation was.
LEMMA CollectCallKeeps ==
    ASSUME SpineInv, NEW i \in Workers, CollectCall(i) PROVE SpineInv'
<1> DEFINE c == wk[i].ck
           collected(o) == [c EXCEPT !.node = "index", !.status = "running",
                                     !.marks = @ \cup {"index"},
                                     !.fails["index"] = 0, !.outcome = o]
<1>1. Good(c) /\ c.node = "collect"
  BY WorkerCopy DEF CollectCall, At, InPlace
<1>2. Good(RetryCollect(c)) /\ \A o \in ProjectedPhase(c.last) : Good(collected(o))
  BY <1>1, RetriesAreGood, CollectionUpdatesAreGood
<1>3. OutsideOK' /\ OverStaysOver
  <2>1. objs' \in [Attempts -> BOOLEAN] /\ indexed' \in [Attempts -> BOOLEAN]
    BY DEF SpineInv, OutsideOK, CollectCall
  <2> QED
    BY <2>1, StoreStep DEF SpineInv, CollectCall
<1>4. Fault \/ Calm
  BY DEF CollectCall
<1>5. Return(i, RetryCollect(c)) \/ \E o \in ProjectedPhase(c.last) : Return(i, collected(o))
  BY DEF CollectCall
<1> HIDE DEF c, collected
<1>6. \E d : Good(d) /\ Return(i, d)
  BY <1>2, <1>5
<1> QED
  BY <1>3, <1>4, <1>6, WorkerMoveKeeps

\* Indexing moves on with the outcome that was collected.
LEMMA IndexKeeps ==
    ASSUME SpineInv, NEW i \in Workers, Index(i) PROVE SpineInv'
<1> DEFINE settle == [ck EXCEPT !.node = "settle", !.status = "running",
                                !.marks = @ \ {"index"},
                                !.fails["collection"] = 0, !.fails["index"] = 0]
<1>1. Good(ck) /\ ck.node = "index"
  BY GraphCopy DEF Index, Takes
<1>2. Good(RetryIndex(ck)) /\ Good(settle)
  BY <1>1, RetriesAreGood, CollectionUpdatesAreGood
<1>3. OutsideOK' /\ OverStaysOver
  <2>1. objs' \in [Attempts -> BOOLEAN] /\ indexed' \in [Attempts -> BOOLEAN]
    BY DEF SpineInv, OutsideOK, Index
  <2> QED
    BY <2>1, StoreStep DEF SpineInv, Index
<1>4. Fault \/ Calm
  BY DEF Index
<1>5. Enter(i, "commit", RetryIndex(ck)) \/ Enter(i, "commit", settle)
  BY DEF Index
<1> HIDE DEF settle
<1>6. \E pc \in WorkerStage : \E c :
        /\ Good(c) /\ InPlace([pc |-> pc, ck |-> c]) /\ pc # "cleanup.record"
        /\ Enter(i, pc, c)
  BY <1>2, <1>5, Stages
<1> QED
  BY <1>3, <1>4, <1>6, WorkerMoveKeeps

\* The settle node is entered, or its committed settlement recovered.
LEMMA SettleRecoverKeeps ==
    ASSUME SpineInv, NEW i \in Workers, SettleRecover(i) PROVE SpineInv'
<1>1. OutsideOK' /\ OverStaysOver /\ UNCHANGED outside
  BY OutsideStays DEF SpineInv, SettleRecover
<1>2. Good(ck) /\ ck.node = "settle"
  BY GraphCopy DEF SettleRecover, Takes
<1>3. Good(Settled(ck))
  BY <1>2, CollectionUpdatesAreGood
<1>4. Fault \/ Calm
  BY DEF SettleRecover
<1>5. CASE Enter(i, "settle.call", ck) \/ Enter(i, "commit", Settled(ck))
  <2>1. \E pc \in WorkerStage : \E c :
          /\ Good(c) /\ InPlace([pc |-> pc, ck |-> c]) /\ pc # "cleanup.record"
          /\ Enter(i, pc, c)
    BY <1>2, <1>3, <1>5, Stages
  <2> QED
    BY <1>1, <1>4, <2>1, WorkerMoveKeeps
<1>6. CASE run' = "none" /\ UNCHANGED <<ck, owner, wk>>
  BY <1>1, <1>4, <1>6, RunChanges
<1> QED
  BY <1>5, <1>6 DEF SettleRecover

\* The teardown before settlement keeps the run's phase.
LEMMA SettleCallKeeps ==
    ASSUME SpineInv, NEW i \in Workers, SettleCall(i) PROVE SpineInv'
<1> DEFINE c == wk[i].ck
           a == c.attempt
<1>1. Good(c) /\ c.node = "settle" /\ a \in Attempts /\ ext[a].phase \in RunPhase
  BY WorkerCopy DEF SettleCall, At, InPlace
<1>2. Good(RetrySettle(c))
  BY <1>1, RetriesAreGood
<1>3. UNCHANGED outside \/ SetRun(a, ext[a].phase, TRUE)
  BY DEF SettleCall
<1>4. Fault \/ Calm
  BY DEF SettleCall
<1>5. Goto(i, "settle.record") \/ Return(i, RetrySettle(c))
  BY DEF SettleCall
<1> HIDE DEF c, a
<1>6. OutsideOK' /\ OverStaysOver
  BY <1>1, <1>3, OutsideStays, SetRunKeeps DEF SpineInv
<1>7. InPlace([pc |-> "settle.record", ck |-> c]) /\ "settle.record" \in WorkerStage
  BY <1>1, Stages
<1> QED
  BY <1>2, <1>4, <1>5, <1>6, <1>7, WorkerMoveKeeps DEF c

\* The settled row carries the collected outcome, which is terminal.
LEMMA SettleRecordKeeps ==
    ASSUME SpineInv, NEW i \in Workers, SettleRecord(i) PROVE SpineInv'
<1> DEFINE c == wk[i].ck
<1>1. /\ Good(c) /\ c.node = "settle" /\ c.gen \in Versions
      /\ c.outcome \in TerminalStatus
  BY WorkerCopy DEF SettleRecord, At, InPlace, Good, Staged
<1>2. Good(Settled(c))
  BY <1>1, CollectionUpdatesAreGood
<1>3. Write(c.outcome, TRUE, TRUE, c.gen, TRUE, "collection") \in WriteOf(Versions)
  BY <1>1, WriteNames, WriteType
<1> QED
  BY <1>2, <1>3, RecordOrRaiseKeeps DEF SettleRecord

\* What a worker commits was good when it returned it.
LEMMA CommitKeeps ==
    ASSUME SpineInv, NEW i \in Workers, Commit(i) PROVE SpineInv'
<1>1. OutsideOK' /\ OverStaysOver
  BY OutsideStays DEF SpineInv, Commit
<1>2. FaultsOK'
  BY DEF SpineInv, FaultsOK, Commit
<1>3. WorkersOK'
  BY <1>1, IdleKeeps DEF SpineInv, Commit
<1>4. Good(wk[i].ck)
  BY WorkerCopy
<1>5. GraphOK'
  BY <1>4 DEF SpineInv, GraphOK, Commit, RunAfter, Good, Staged
<1> QED
  BY <1>1, <1>2, <1>3, <1>5 DEF SpineInv

\* A crash loses only the worker's copy.
LEMMA CrashKeeps ==
    ASSUME SpineInv, NEW i \in Workers, Crash(i) PROVE SpineInv'
<1>1. OutsideOK' /\ OverStaysOver
  BY OutsideStays DEF SpineInv, Crash
<1>2. FaultsOK'
  BY FaultsStay DEF SpineInv, Crash
<1>3. WorkersOK'
  BY <1>1, IdleKeeps DEF SpineInv, Crash
<1>4. GraphOK'
  BY DEF SpineInv, GraphOK, Crash, Good, Staged
<1> QED
  BY <1>1, <1>2, <1>3, <1>4 DEF SpineInv

-----------------------------------------------------------------------------
(* The provider, the administrator, and the theorem.                       *)

\* A step of the provider or the administrator leaves graph and workers alone.
LEMMA OthersStep ==
    ASSUME SpineInv, OutsideOK', OverStaysOver, UNCHANGED <<ck, worker, faults>>
    PROVE  SpineInv'
<1>1. WorkersOK'
  BY WorkersStay DEF SpineInv, worker
<1> QED
  BY <1>1 DEF SpineInv, GraphOK, FaultsOK, Good, Staged, worker

\* A run that ends by itself or was told to.
LEMMA ProviderEndsKeeps ==
    ASSUME SpineInv, NEW a \in Attempts, ProviderEnds(a) PROVE SpineInv'
<1>1. PICK p \in TerminalStatus : SetRun(a, p, ext[a].torn)
  BY DEF ProviderEnds
<1>2. ext[a].torn \in BOOLEAN
  BY DEF SpineInv, OutsideOK
<1>3. OutsideOK' /\ OverStaysOver
  BY <1>1, <1>2, SetRunKeeps, Names DEF SpineInv
<1> QED
  BY <1>3, OthersStep DEF ProviderEnds

\* The administrator's generations stay within the bound.
LEMMA AdministratorKeeps == ASSUME SpineInv, Administrator PROVE SpineInv'
<1>1. conn' \in ConnectionOf(Versions \ {0})
  <2>1. conn \in ConnectionOf(Versions \ {0}) /\ conn.version < MaxVersion
    BY DEF SpineInv, OutsideOK, Administrator, ToggleConnection, PatchConnection
  <2>2. conn.version + 1 \in Versions \ {0}
    BY <2>1, EngineAssumption DEF ConnectionOf, Versions
  <2>3. CASE ToggleConnection
    <3>1. (~conn.enabled) \in BOOLEAN
      OBVIOUS
    <3> QED
      BY <2>1, <2>2, <2>3, <3>1 DEF ToggleConnection, Toggled, Altered, ConnectionOf, Versions
  <2>4. CASE PatchConnection
    BY <2>1, <2>2, <2>4 DEF PatchConnection, Repeated, ConnectionOf, Versions
  <2> QED
    BY <2>3, <2>4 DEF Administrator
<1>2. OutsideOK' /\ OverStaysOver
  BY <1>1 DEF SpineInv, OutsideOK, OverStaysOver, Administrator, ToggleConnection,
              PatchConnection
<1> QED
  BY <1>2, OthersStep DEF Administrator, ToggleConnection, PatchConnection

\* An untouched thread.
LEMMA InitIsGood ==
    ASSUME Untouched, run \in {"active", "none"} PROVE SpineInv
<1>1. 1 \in Attempts /\ 0 \in Versions /\ 1 \in Versions \ {0}
  BY EngineAssumption DEF Attempts, Versions
<1>2. GraphOK
  BY <1>1, FreshIsGood DEF Untouched, GraphOK
<1>3. WorkersOK
  BY IdleIsGood DEF Untouched, WorkersOK
<1>4. OutsideOK
  BY <1>1 DEF Untouched, OutsideOK, NoRow, RowOf, CompletionKind, ConnectionOf,
              NewConnection, RunPhase
<1>5. FaultsOK
  BY EngineAssumption DEF Untouched, FaultsOK
<1> QED
  BY <1>2, <1>3, <1>4, <1>5 DEF SpineInv

\* Every step of the spine keeps the invariant.
LEMMA StepKeeps == ASSUME SpineInv, [EngineNext]_engineVars PROVE SpineInv'
<1>1. ASSUME NEW i \in Workers, WorkerStep(i) PROVE SpineInv'
  BY <1>1, ProvisionResolveKeeps, ProvisionPrepareKeeps, ProvisionCallKeeps,
     ProvisionRejectKeeps, ProvisionRecordKeeps, StartPrepareKeeps, StartCallKeeps,
     StartRejectKeeps, StartRecordKeeps, CleanupRecoverKeeps, CleanupCallKeeps,
     CleanupRecordKeeps, CollectReserveKeeps, CollectCallKeeps, IndexKeeps,
     SettleRecoverKeeps, SettleCallKeeps, SettleRecordKeeps, CommitKeeps
  DEF WorkerStep
<1>2. ASSUME NEW i \in Workers, Crash(i) PROVE SpineInv'
  BY <1>2, CrashKeeps
<1>3. CASE NodeStep
  BY <1>3, NodeStepKeeps
<1>4. CASE Stop
  BY <1>4, RunChanges DEF Stop
<1>5. CASE Operator
  BY <1>5, OperatorKeeps
<1>6. CASE Administrator
  BY <1>6, AdministratorKeeps
<1>7. ASSUME NEW a \in Attempts, ProviderEnds(a) PROVE SpineInv'
  BY <1>7, ProviderEndsKeeps
<1>8. CASE UNCHANGED engineVars
  <2>1. UNCHANGED outside /\ UNCHANGED <<ck, worker, faults>>
    BY <1>8 DEF engineVars, outside, worker
  <2> QED
    BY <2>1, OutsideStays, OthersStep DEF SpineInv
<1> QED
  BY <1>1, <1>2, <1>3, <1>4, <1>5, <1>6, <1>7, <1>8 DEF EngineNext

\* What the nodes rely on in the phase entry holds at every step: no crash,
\* retry, replay, rerun or restart lets a collection start without a finished
\* run, a settlement without an outcome, or a kill be recorded before the run is
\* over.
THEOREM StagingHolds == EngineSpec => []SpineInv
<1>1. EngineInit => SpineInv
  BY InitIsGood DEF EngineInit
<1>2. SpineInv /\ [EngineNext]_engineVars => SpineInv'
  BY StepKeeps
<1> QED
  BY <1>1, <1>2, PTL DEF EngineSpec

\* Type correctness of the spine: in particular every status written to a row is
\* one the table's check constraint accepts.
THEOREM SpineTypeCorrect == EngineSpec => []EngineTypeOK
<1>1. SpineInv => EngineTypeOK
  BY DEF SpineInv, GraphOK, WorkersOK, OutsideOK, FaultsOK, Good, WorkerOf, EngineTypeOK
<1> QED
  BY <1>1, StagingHolds, PTL

-----------------------------------------------------------------------------
(* The inductive invariant, on top of SpineInv.                            *)

\* A run was cancelled from outside the graph, and nobody takes the thread up again:
\* a worker that was inside a node goes on, and its update will be dropped.
Abandoned ==
    /\ run = "none" /\ owner = Nobody /\ ck.node \notin InterruptNode \cup {"end"}
    /\ ~Continues /\ ~Restarts

\* One worker at a time is inside a node, and it executes what the committed
\* checkpoint asks for; unless it was cancelled, the run is its own.
Exclusive ==
    \A i \in Workers : wk[i].pc # "idle" =>
        /\ \A j \in Workers \ {i} : wk[j].pc = "idle"
        /\ (owner = i /\ run = "active") \/ Abandoned
        /\ wk[i].pc # "commit" => wk[i].ck = ck

\* Nobody is inside a node.
Vacant == (owner = Nobody \/ run = "none") /\ ~Abandoned

\* The lifecycle from which a row never returns to a provisioning or a start.
Late == {"collecting"} \cup TerminalStatus

\* An entry on the way to a success, or judged one.
MaySucceed(c) ==
    \/ c.node \in {"open_output_gate", "output_gate"}
    \/ c.node = "finalize" /\ FinalStatus(c) = "succeeded"
    \/ c.status = "succeeded"

\* What an entry c says about its attempt is so, where r is the attempt's row, x
\* the provider's run, o and n whether its objects are stored and indexed: a
\* collection's run is over, a batch waiting for its index is in the store, a
\* settlement's is indexed, nothing is indexed before, and what may still be
\* called a success was collected.
Grounded(c, r, x, o, n) ==
    /\ c.node \in {"collect", "index", "collection_blocked", "settle", "settle_blocked"}
         => x.phase \in TerminalStatus
    /\ c.node = "index" => "index" \in c.marks
    /\ "index" \in c.marks => o /\ r.status \in Late
    /\ c.node \in {"start", "status", "poll", "collect"} => ~n
    /\ c.node = "collection_blocked" /\ "index" \notin c.marks => ~n
    /\ c.node \in {"settle", "settle_blocked"} => n
    /\ MaySucceed(c) => r.status = "completed" /\ r.kind = "collection" /\ n

\* What a worker has established on its way through a node.
Ready(w, r, x, o, n) ==
    /\ w.pc = "commit" => Grounded(w.ck, r, x, o, n)
    /\ w.pc \in {"provision.call", "provision.record"} => ~n
    /\ w.pc = "collect.call" => r.status \in Late
    /\ w.pc \in {"settle.call", "settle.record"} => r.status \in ActiveStatus
    /\ w.pc \in {"cleanup.record", "settle.record"} => x.torn

GroundedAt(c) ==
    Grounded(c, row[c.attempt], ext[c.attempt], objs[c.attempt], indexed[c.attempt])

ReadyAt(w) ==
    Ready(w, row[w.ck.attempt], ext[w.ck.attempt], objs[w.ck.attempt],
          indexed[w.ck.attempt])

IndexedIsLate == \A a \in Attempts : indexed[a] => row[a].status \in Late

Solid == WitnessIsTruthful /\ IndexedObjectsSurvive /\ IndexedIsLate

SafetyInv ==
    Exclusive /\ GroundedAt(ck) /\ (\A i \in Workers : ReadyAt(wk[i])) /\ Solid

\* A step that takes nothing back: objects and index stay, rows only mature, what
\* is over stays over, what is released stays released, and witnesses are true.
Quiet ==
    /\ UNCHANGED <<objs, indexed>>
    /\ \A a \in Attempts :
         /\ row[a].status \in Late => row'[a].status \in Late
         /\ row[a].status \in TerminalStatus => row'[a] = row[a]
         /\ ext[a].phase \in TerminalStatus => ext'[a].phase \in TerminalStatus
         /\ ext[a].torn => ext'[a].torn
    /\ WitnessIsTruthful'

-----------------------------------------------------------------------------
(* Updates of the phase entry keep it grounded.                            *)

\* A grounded entry stays grounded while its surroundings mature.
LEMMA GroundedMatures ==
    ASSUME NEW c, NEW r, NEW x, NEW o, NEW n, NEW r2, NEW x2, Grounded(c, r, x, o, n),
           r.status \in Late => r2.status \in Late,
           r.status \in TerminalStatus => r2 = r,
           x.phase \in TerminalStatus => x2.phase \in TerminalStatus
    PROVE  Grounded(c, r2, x2, o, n)
  BY DEF Grounded, MaySucceed, TerminalStatus

\* A seeded entry.
LEMMA FreshIsGrounded ==
    ASSUME NEW a, NEW r, NEW x, NEW o, NEW n
    PROVE  Grounded(FreshEntry(a), r, x, o, n)
  BY DEF Grounded, MaySucceed, FreshEntry

\* The retries.
LEMMA RetriesAreGrounded ==
    ASSUME NEW c \in Checkpoint, NEW r, NEW x, NEW o \in BOOLEAN, NEW n \in BOOLEAN,
           Staged(c), Grounded(c, r, x, o, n)
    PROVE  /\ c.node = "provision" => Grounded(RetryProvision(c), r, x, o, n)
           /\ c.node = "cleanup" => Grounded(RetryCleanup(c), r, x, o, n)
           /\ c.node = "collect" => Grounded(RetryCollect(c), r, x, o, n)
           /\ c.node = "index" => Grounded(RetryIndex(c), r, x, o, n)
           /\ c.node = "settle" => Grounded(RetrySettle(c), r, x, o, n)
<1>1. ASSUME NEW d, d.status = "running", d.marks = c.marks,
             \/ c.node = "provision" /\ d.node \in {"provision", "provision_blocked"}
             \/ c.node = "collect" /\ d.node \in {"collect", "collection_blocked"}
             \/ c.node = "settle" /\ d.node \in {"settle", "settle_blocked"}
      PROVE  Grounded(d, r, x, o, n)
  <2>1. "index" \notin d.marks
    BY <1>1 DEF Staged
  <2>2. CASE c.node = "provision" /\ d.node \in {"provision", "provision_blocked"}
    BY <1>1, <2>1, <2>2 DEF Grounded, MaySucceed
  <2>3. CASE c.node = "collect" /\ d.node \in {"collect", "collection_blocked"}
    BY <1>1, <2>1, <2>3 DEF Grounded, MaySucceed
  <2>4. CASE c.node = "settle" /\ d.node \in {"settle", "settle_blocked"}
    BY <1>1, <2>1, <2>4 DEF Grounded, MaySucceed
  <2> QED
    BY <1>1, <2>2, <2>3, <2>4
<1>2. c.node = "provision" => Grounded(RetryProvision(c), r, x, o, n)
  BY <1>1, RetryIsCheckpoint, Names DEF RetryProvision
<1>3. c.node = "cleanup" => Grounded(RetryCleanup(c), r, x, o, n)
  <2> DEFINE d == Retry(c, "cleanup", "cleanup", "cleanup_blocked")
  <2>1. /\ d \in Checkpoint /\ d.node \in {"cleanup", "cleanup_blocked"}
        /\ d.status = "running" /\ d.marks = c.marks
    BY RetryIsCheckpoint, Names
  <2> HIDE DEF d
  <2>2. RetryCleanup(c) = [d EXCEPT !.marks = @ \cup {"cleanup"}]
    BY DEF RetryCleanup, d
  <2> QED
    BY <2>1, <2>2 DEF Grounded, MaySucceed, Staged, Checkpoint
<1>4. c.node = "collect" => Grounded(RetryCollect(c), r, x, o, n)
  BY <1>1, RetryIsCheckpoint, Names DEF RetryCollect
<1>5. c.node = "index" => Grounded(RetryIndex(c), r, x, o, n)
  <2> DEFINE d == Retry(c, "index", "index", "collection_blocked")
  <2>1. /\ d \in Checkpoint /\ d.node \in {"index", "collection_blocked"}
        /\ d.status = "running" /\ d.marks = c.marks
    BY RetryIsCheckpoint, Names
  <2> HIDE DEF d
  <2>2. RetryIndex(c) = [d EXCEPT !.marks = @ \cup {"index"}]
    BY DEF RetryIndex, d
  <2> QED
    BY <2>1, <2>2 DEF Grounded, MaySucceed, Staged, Checkpoint
<1>6. c.node = "settle" => Grounded(RetrySettle(c), r, x, o, n)
  BY <1>1, RetryIsCheckpoint, Names DEF RetrySettle
<1> QED
  BY <1>2, <1>3, <1>4, <1>5, <1>6

\* The operator's retries.
LEMMA ReopensAreGrounded ==
    ASSUME NEW c \in Checkpoint, NEW r, NEW x, NEW o \in BOOLEAN, NEW n \in BOOLEAN,
           Staged(c), Grounded(c, r, x, o, n)
    PROVE  /\ c.node = "provision_blocked" => Grounded(ReopenProvision(c), r, x, o, n)
           /\ c.node = "cleanup_blocked" => Grounded(ReopenCleanup(c), r, x, o, n)
           /\ c.node = "collection_blocked" => Grounded(ReopenCollection(c), r, x, o, n)
           /\ c.node = "settle_blocked" => Grounded(ReopenSettle(c), r, x, o, n)
  BY Names DEF Grounded, MaySucceed, Staged, Checkpoint, Reopen, ReopenProvision, ReopenCleanup,
               ReopenCollection, ReopenSettle

\* The entry of a collected batch with outcome d, and of an indexed one.
Collected(c, d) ==
    [c EXCEPT !.node = "index", !.status = "running", !.marks = @ \cup {"index"},
              !.fails["index"] = 0, !.outcome = d]

Indexed(c) ==
    [c EXCEPT !.node = "settle", !.status = "running", !.marks = @ \ {"index"},
              !.fails["collection"] = 0, !.fails["index"] = 0]

\* The updates of the collection nodes: the batch is in the store when its index
\* is asked for, indexed when its settlement is, and settled as completed when
\* the output gate opens.
LEMMA CollectionUpdatesAreGrounded ==
    ASSUME NEW c \in Checkpoint, NEW r, NEW x, NEW o \in BOOLEAN, NEW n \in BOOLEAN,
           Staged(c), Grounded(c, r, x, o, n)
    PROVE  /\ c.node = "collect" /\ o /\ r.status \in Late =>
                \A d \in TerminalStatus : Grounded(Collected(c, d), r, x, o, n)
           /\ c.node = "index" /\ n =>
                Grounded(Indexed(c), r, x, o, n)
           /\ c.node = "settle" /\ r.status = c.outcome /\ r.kind = "collection" =>
                Grounded(Settled(c), r, x, o, n)
<1> USE DEF Grounded, MaySucceed, Staged, Checkpoint
<1>1. ASSUME c.node = "collect", o, r.status \in Late, NEW d \in TerminalStatus
      PROVE  Grounded(Collected(c, d), r, x, o, n)
  BY <1>1 DEF Collected
<1>2. ASSUME c.node = "index", n
      PROVE  Grounded(Indexed(c), r, x, o, n)
  BY <1>2 DEF Indexed
<1>3. ASSUME c.node = "settle", r.status = c.outcome, r.kind = "collection"
      PROVE  Grounded(Settled(c), r, x, o, n)
  <2>1. c.outcome \in {"completed", "failed", "aborted"}
    BY <1>3 DEF TerminalStatus
  <2>2. CASE c.outcome = "completed"
    BY <1>3, <2>2 DEF Settled, Continuation
  <2>3. CASE c.outcome \in {"failed", "aborted"}
    BY <1>3, <2>3 DEF Settled, Continuation, FinalStatus, TerminalPhase
  <2> QED
    BY <2>1, <2>2, <2>3
<1> QED
  BY <1>1, <1>2, <1>3

-----------------------------------------------------------------------------
(* What a step does to the invariant.                                      *)

\* A quiet step keeps what is indexed solid and a grounded entry grounded.
LEMMA QuietKeeps ==
    ASSUME SafetyInv, Quiet
    PROVE  /\ Solid'
           /\ \A c \in Checkpoint : GroundedAt(c) =>
                Grounded(c, row'[c.attempt], ext'[c.attempt], objs'[c.attempt],
                         indexed'[c.attempt])
<1>1. Solid'
  BY DEF SafetyInv, Solid, Quiet, IndexedObjectsSurvive, IndexedIsLate
<1>2. ASSUME NEW c \in Checkpoint, GroundedAt(c)
      PROVE  Grounded(c, row'[c.attempt], ext'[c.attempt], objs'[c.attempt],
                      indexed'[c.attempt])
  <2>1. c.attempt \in Attempts
    BY DEF Checkpoint
  <2> QED
    BY <1>2, <2>1, GroundedMatures DEF GroundedAt, Quiet
<1> QED
  BY <1>1, <1>2

\* A step outside any worker: nobody is inside a node.
LEMMA NobodyInside ==
    ASSUME SafetyInv, Vacant
    PROVE  \A i \in Workers : wk[i].pc = "idle"
  BY EngineAssumption DEF SafetyInv, Exclusive, Vacant

\* A run that is executed was not cancelled.
LEMMA ActiveIsVacant == ASSUME owner = Nobody, run = "active" PROVE Vacant
  BY DEF Vacant, Abandoned

\* With nobody inside a node only the checkpoint counts.
LEMMA IdleStep ==
    ASSUME \A i \in Workers : wk[i].pc = "idle", wk' = wk, Solid', GroundedAt(ck)'
    PROVE  SafetyInv'
<1>1. Exclusive'
  BY DEF Exclusive
<1>2. ASSUME NEW i \in Workers PROVE ReadyAt(wk[i])'
  <2>1. wk'[i].pc = "idle"
    OBVIOUS
  <2> QED
    BY <2>1 DEF ReadyAt, Ready
<1> QED
  BY <1>1, <1>2 DEF SafetyInv

\* One worker moves while the others are idle.
LEMMA LoneWorkerMoves ==
    ASSUME WorkersOK, NEW i \in Workers, NEW w,
           \A j \in Workers \ {i} : wk[j].pc = "idle", wk' = [wk EXCEPT ![i] = w],
           Solid', GroundedAt(ck)',
           w.pc # "idle" =>
             /\ (owner' = i /\ run' = "active") \/ Abandoned'
             /\ w.pc # "commit" => w.ck = ck',
           Ready(w, row'[w.ck.attempt], ext'[w.ck.attempt], objs'[w.ck.attempt],
                 indexed'[w.ck.attempt])
    PROVE  SafetyInv'
<1>1. wk'[i] = w /\ \A j \in Workers \ {i} : wk'[j].pc = "idle"
  BY DEF WorkersOK
<1>2. Exclusive'
  BY <1>1 DEF Exclusive
<1>3. ASSUME NEW j \in Workers PROVE ReadyAt(wk[j])'
  <2>1. CASE j = i
    BY <1>1, <2>1 DEF ReadyAt
  <2>2. CASE j # i
    <3>1. wk'[j].pc = "idle"
      BY <1>1, <2>2
    <3> QED
      BY <3>1 DEF ReadyAt, Ready
  <2> QED
    BY <2>1, <2>2
<1> QED
  BY <1>2, <1>3 DEF SafetyInv

\* A worker that is not idle is alone, and holds the committed checkpoint until
\* it returns.
LEMMA InsideAlone ==
    ASSUME SafetyInv, SpineInv, NEW i \in Workers, wk[i].pc # "idle"
    PROVE  /\ (owner = i /\ run = "active") \/ Abandoned
           /\ \A j \in Workers \ {i} : wk[j].pc = "idle"
           /\ wk[i].pc # "commit" =>
                wk[i].ck = ck /\ GroundedAt(wk[i].ck)
  BY DEF SafetyInv, Exclusive

\* The graph's entry over a quiet step that does not checkpoint.
LEMMA GraphStaysGrounded ==
    ASSUME SafetyInv, SpineInv, Quiet, ck' = ck
    PROVE  Solid' /\ GroundedAt(ck)'
<1>1. ck \in Checkpoint /\ GroundedAt(ck)
  BY DEF SpineInv, GraphOK, Good, SafetyInv
<1> QED
  BY <1>1, QuietKeeps DEF GroundedAt

\* A worker enters a node with the committed checkpoint or returns at once.
LEMMA EnterSafe ==
    ASSUME SafetyInv, SpineInv, Quiet, NEW i \in Workers, NEW pc, NEW c,
           owner = Nobody, run = "active", Enter(i, pc, c),
           pc # "commit" => c = ck,
           Ready([pc |-> pc, ck |-> c], row'[c.attempt], ext'[c.attempt],
                 objs'[c.attempt], indexed'[c.attempt])
    PROVE  SafetyInv'
<1> DEFINE w == [pc |-> pc, ck |-> c]
<1>1. \A j \in Workers : wk[j].pc = "idle"
  BY ActiveIsVacant, NobodyInside
<1>2. Solid' /\ GroundedAt(ck)'
  BY GraphStaysGrounded DEF Enter
<1>3. wk' = [wk EXCEPT ![i] = w] /\ owner' = i /\ run' = "active" /\ ck' = ck
  BY DEF Enter
<1>4. w.pc = pc /\ w.ck = c
  OBVIOUS
<1>5. Ready(w, row'[w.ck.attempt], ext'[w.ck.attempt], objs'[w.ck.attempt],
            indexed'[w.ck.attempt])
  BY <1>4
<1>6. WorkersOK
  BY DEF SpineInv
<1> HIDE DEF w
<1> QED
  BY <1>1, <1>2, <1>3, <1>4, <1>5, <1>6, LoneWorkerMoves

\* A worker goes on inside its node.
LEMMA GotoSafe ==
    ASSUME SafetyInv, SpineInv, Quiet, NEW i \in Workers, NEW pc,
           wk[i].pc \notin {"idle", "commit"}, Goto(i, pc),
           Ready([pc |-> pc, ck |-> wk[i].ck],
                 row'[wk[i].ck.attempt], ext'[wk[i].ck.attempt],
                 objs'[wk[i].ck.attempt], indexed'[wk[i].ck.attempt])
    PROVE  SafetyInv'
<1> DEFINE w == [pc |-> pc, ck |-> wk[i].ck]
<1>1. /\ (owner = i /\ run = "active") \/ Abandoned
      /\ wk[i].ck = ck
      /\ \A j \in Workers \ {i} : wk[j].pc = "idle"
  BY InsideAlone
<1>2. Solid' /\ GroundedAt(ck)'
  BY GraphStaysGrounded DEF Goto
<1>3. wk[i] \in WorkerOf /\ WorkersOK
  BY DEF SpineInv, WorkersOK
<1>4. wk' = [wk EXCEPT ![i] = w] /\ owner' = owner /\ run' = run /\ ck' = ck
  <2>1. [wk[i] EXCEPT !.pc = pc] = w
    BY <1>3 DEF WorkerOf
  <2>2. wk' = [wk EXCEPT ![i] = [wk[i] EXCEPT !.pc = pc]]
    BY DEF Goto
  <2> QED
    BY <2>1, <2>2 DEF Goto
<1>5. w.pc = pc /\ w.ck = wk[i].ck
  OBVIOUS
<1>6. Ready(w, row'[w.ck.attempt], ext'[w.ck.attempt], objs'[w.ck.attempt],
            indexed'[w.ck.attempt])
  BY <1>5
<1> HIDE DEF w
<1>7. (owner' = i /\ run' = "active") \/ Abandoned'
  BY <1>1, <1>4 DEF Abandoned
<1> QED
  BY <1>1, <1>2, <1>3, <1>4, <1>5, <1>6, <1>7, LoneWorkerMoves

\* A node returns a grounded update.
LEMMA ReturnSafe ==
    ASSUME SafetyInv, SpineInv, Solid', GroundedAt(ck)', NEW i \in Workers, NEW c,
           wk[i].pc \notin {"idle", "commit"}, Return(i, c),
           Grounded(c, row'[c.attempt], ext'[c.attempt], objs'[c.attempt],
                    indexed'[c.attempt])
    PROVE  SafetyInv'
<1> DEFINE w == [pc |-> "commit", ck |-> c]
<1>1. /\ (owner = i /\ run = "active") \/ Abandoned
      /\ \A j \in Workers \ {i} : wk[j].pc = "idle"
  BY InsideAlone
<1>2. wk' = [wk EXCEPT ![i] = w] /\ owner' = owner /\ run' = run /\ ck' = ck
  BY DEF Return
<1>3. w.pc = "commit" /\ w.ck = c
  OBVIOUS
<1> HIDE DEF w
<1>4. Ready(w, row'[w.ck.attempt], ext'[w.ck.attempt], objs'[w.ck.attempt],
            indexed'[w.ck.attempt])
  BY <1>3 DEF Ready
<1>5. WorkersOK
  BY DEF SpineInv
<1>6. (owner' = i /\ run' = "active") \/ Abandoned'
  BY <1>1, <1>2 DEF Abandoned
<1> QED
  BY <1>1, <1>2, <1>3, <1>4, <1>5, <1>6, LoneWorkerMoves

\* A worker becomes idle: it raised, crashed, or committed.
LEMMA IdleSafe ==
    ASSUME SafetyInv, SpineInv, Solid', GroundedAt(ck)', NEW i \in Workers,
           wk[i].pc # "idle", wk' = [wk EXCEPT ![i] = Idle]
    PROVE  SafetyInv'
<1>1. Idle.pc = "idle" /\ \A j \in Workers \ {i} : wk[j].pc = "idle"
  BY InsideAlone DEF Idle
<1>2. WorkersOK
  BY DEF SpineInv
<1> QED
  BY <1>1, <1>2, LoneWorkerMoves DEF Ready

-----------------------------------------------------------------------------
(* Quiet steps.                                                            *)

\* Nothing happens outside.
LEMMA StayingIsQuiet == ASSUME SafetyInv, UNCHANGED outside PROVE Quiet
  BY DEF SafetyInv, Solid, Quiet, outside, WitnessIsTruthful

\* A provider call that does not revive a run nor un-release its resources.
LEMMA SetRunIsQuiet ==
    ASSUME SafetyInv, SpineInv, NEW a \in Attempts, NEW p, NEW torn,
           ext[a].phase \in TerminalStatus => p \in TerminalStatus,
           ext[a].torn => torn, SetRun(a, p, torn)
    PROVE  Quiet /\ ext'[a].phase = p /\ ext'[a].torn = torn
<1>1. /\ ext' = [ext EXCEPT ![a] = [phase |-> p, torn |-> torn]]
      /\ UNCHANGED <<row, conn, objs, indexed>>
  BY DEF SetRun
<1>2. \A b \in Attempts : ext'[b] = IF b = a THEN [phase |-> p, torn |-> torn] ELSE ext[b]
  BY <1>1 DEF SpineInv, OutsideOK
<1>3. \A b \in Attempts :
        /\ ext[b].phase \in TerminalStatus => ext'[b].phase \in TerminalStatus
        /\ ext[b].torn => ext'[b].torn
  BY <1>2
<1>4. WitnessIsTruthful'
  BY <1>1, <1>3 DEF SafetyInv, Solid, WitnessIsTruthful
<1> QED
  BY <1>1, <1>2, <1>3, <1>4 DEF Quiet

\* A compensation.
LEMMA CompensateIsQuiet ==
    ASSUME SafetyInv, SpineInv, NEW a \in Attempts, NEW phase, Compensate(a, phase)
    PROVE  Quiet
  BY SetRunIsQuiet DEF Compensate

\* A transaction on a row that accepts it, whose witness, if any, is true.
LEMMA UpsertIsQuiet ==
    ASSUME SafetyInv, SpineInv, NEW a \in Attempts, NEW w \in WriteOf(Versions),
           TransitionAllowed(row[a], w), SetRow(a, Upsert(row[a], w)),
           w.kind # "none" => ext[a].phase \in TerminalStatus /\ ext[a].torn,
           w.kind = "collection" => indexed[a] /\ objs[a]
    PROVE  Quiet /\ row'[a] = Upsert(row[a], w)
<1> DEFINE r == Upsert(row[a], w)
<1>1. row' = [row EXCEPT ![a] = r] /\ UNCHANGED <<conn, ext, objs, indexed>>
  BY DEF SetRow
<1>2. row[a] \in RowOf(Versions) /\ \A b \in Attempts : row'[b] = IF b = a THEN r ELSE row[b]
  BY <1>1 DEF SpineInv, OutsideOK
<1>3. /\ row[a].status \in Late => r.status \in Late
      /\ row[a].status \in TerminalStatus => r = row[a]
      /\ r.kind \in {row[a].kind, w.kind}
  BY <1>2, UpsertMatures DEF Late
<1> HIDE DEF r
<1>4. WitnessIsTruthful'
  BY <1>1, <1>2, <1>3 DEF SafetyInv, Solid, WitnessIsTruthful
<1> QED
  BY <1>1, <1>2, <1>3, <1>4 DEF Quiet, r

\* A reservation of an absent row.
LEMMA InsertIsQuiet ==
    ASSUME SafetyInv, SpineInv, NEW a \in Attempts, NEW v,
           SetRow(a, InsertReservation(row[a], v))
    PROVE  Quiet
<1> DEFINE r == InsertReservation(row[a], v)
<1>1. row' = [row EXCEPT ![a] = r] /\ UNCHANGED <<conn, ext, objs, indexed>>
  BY DEF SetRow
<1>2. \A b \in Attempts : row'[b] = IF b = a THEN r ELSE row[b]
  BY <1>1 DEF SpineInv, OutsideOK
<1>3. r = row[a] \/ (row[a].status = "absent" /\ r.kind = "none")
  BY DEF InsertReservation, NoRow
<1> HIDE DEF r
<1>4. WitnessIsTruthful'
  BY <1>1, <1>2, <1>3 DEF SafetyInv, Solid, WitnessIsTruthful
<1> QED
  BY <1>1, <1>2, <1>3, <1>4 DEF Quiet, Late, TerminalStatus

-----------------------------------------------------------------------------
(* The nodes that only read and checkpoint, and what people do.            *)

\* The updates stay with their attempt.
LEMMA SameAttempt ==
    ASSUME NEW c \in Checkpoint
    PROVE  /\ RetryProvision(c).attempt = c.attempt /\ RetryCleanup(c).attempt = c.attempt
           /\ RetryCollect(c).attempt = c.attempt /\ RetryIndex(c).attempt = c.attempt
           /\ RetrySettle(c).attempt = c.attempt
           /\ ReopenProvision(c).attempt = c.attempt /\ ReopenCleanup(c).attempt = c.attempt
           /\ ReopenCollection(c).attempt = c.attempt /\ ReopenSettle(c).attempt = c.attempt
           /\ Provisioned(c).attempt = c.attempt /\ Observed(c).attempt = c.attempt
           /\ PollFailed(c).attempt = c.attempt /\ EnterCleanup(c).attempt = c.attempt
           /\ EnterCleanup(PollFailed(c)).attempt = c.attempt
           /\ Killed(c).attempt = c.attempt /\ Settled(c).attempt = c.attempt
  BY DEF Checkpoint, Retry, RetryProvision, RetryCleanup, RetryCollect, RetryIndex,
         RetrySettle, Reopen, ReopenProvision, ReopenCleanup, ReopenCollection,
         ReopenSettle, Provisioned, Observed, PollFailed, EnterCleanup, Killed, Settled

\* What is known of the committed checkpoint.
LEMMA GraphFacts ==
    ASSUME SafetyInv, SpineInv
    PROVE  /\ ck \in Checkpoint /\ Staged(ck) /\ ck.attempt \in Attempts
           /\ Grounded(ck, row[ck.attempt], ext[ck.attempt], objs[ck.attempt],
                       indexed[ck.attempt])
           /\ objs[ck.attempt] \in BOOLEAN /\ indexed[ck.attempt] \in BOOLEAN
  BY DEF SafetyInv, GroundedAt, SpineInv, GraphOK, OutsideOK, Good, Checkpoint

\* A checkpoint with nobody inside a node and nothing happening outside.
LEMMA CheckpointSafe ==
    ASSUME SafetyInv, SpineInv, Vacant, UNCHANGED outside, NEW c,
           Checkpoints(c),
           Grounded(c, row[c.attempt], ext[c.attempt], objs[c.attempt], indexed[c.attempt])
    PROVE  SafetyInv'
<1>1. \A i \in Workers : wk[i].pc = "idle"
  BY NobodyInside
<1>2. Solid'
  BY StayingIsQuiet, QuietKeeps
<1>3. wk' = wk /\ GroundedAt(ck)'
  BY DEF Checkpoints, GroundedAt, outside
<1> QED
  BY <1>1, <1>2, <1>3, IdleStep

\* An entry that fits the attempt the graph is on.
Fits(c) ==
    /\ c.attempt = ck.attempt
    /\ Grounded(c, row[ck.attempt], ext[ck.attempt], objs[ck.attempt], indexed[ck.attempt])

\* Checkpointing a fitting entry.
LEMMA FittingCheckpoint ==
    ASSUME SafetyInv, SpineInv, Vacant, UNCHANGED outside,
           NEW c, Fits(c), Checkpoints(c)
    PROVE  SafetyInv'
  BY CheckpointSafe DEF Fits

\* The updates of the gates, reserve and finalize fit: of the entries that reach
\* finalize with the chance of a success, all come from the gate behind a settled
\* completion.
LEMMA GateUpdatesFit ==
    ASSUME SafetyInv, SpineInv
    PROVE  /\ ck.node \in {"prepare", "reserve", "prompt_gate"} =>
                /\ Fits([ck EXCEPT !.node = "prompt_gate",
                                   !.status = "awaiting_prompt_review"])
                /\ Fits([ck EXCEPT !.node = "reserve", !.status = "running"])
                /\ Fits([ck EXCEPT !.node = "reserve"])
                /\ Fits([ck EXCEPT !.node = "provision"])
           /\ ck.node \in {"prepare", "reserve", "prompt_gate", "output_gate"} =>
                \A s \in {"skipped", "aborted", "failed"} :
                  Fits([ck EXCEPT !.node = "finalize", !.status = s])
           /\ ck.node \in {"open_output_gate", "output_gate"} =>
                /\ Fits(Opened(ck, "output_gate", "awaiting_output_review"))
                /\ Fits(Opened(ck, "finalize", "failed"))
                /\ Fits([ck EXCEPT !.node = "finalize"])
                /\ \A s \in {"running", ck.status} :
                     Fits([ck EXCEPT !.node = "open_output_gate", !.status = s])
           /\ ck.node = "finalize" =>
                Fits([ck EXCEPT !.node = "end", !.status = FinalStatus(ck),
                                !.outcome = "none", !.marks = @ \ {"settled"}])
<1> DEFINE r == row[ck.attempt]
           x == ext[ck.attempt]
           o == objs[ck.attempt]
           n == indexed[ck.attempt]
<1>1. /\ ck \in Checkpoint /\ Staged(ck) /\ Grounded(ck, r, x, o, n)
      /\ o \in BOOLEAN /\ n \in BOOLEAN
  BY GraphFacts
<1> HIDE DEF r, x, o, n
<1>2. ASSUME ck.node \in {"prepare", "reserve", "prompt_gate"}
      PROVE  /\ Fits([ck EXCEPT !.node = "prompt_gate",
                                !.status = "awaiting_prompt_review"])
             /\ Fits([ck EXCEPT !.node = "reserve", !.status = "running"])
             /\ Fits([ck EXCEPT !.node = "reserve"])
             /\ Fits([ck EXCEPT !.node = "provision"])
  <2>1. /\ Grounded([ck EXCEPT !.node = "prompt_gate",
                               !.status = "awaiting_prompt_review"], r, x, o, n)
        /\ Grounded([ck EXCEPT !.node = "reserve", !.status = "running"], r, x, o, n)
        /\ Grounded([ck EXCEPT !.node = "reserve"], r, x, o, n)
        /\ Grounded([ck EXCEPT !.node = "provision"], r, x, o, n)
    BY <1>1, <1>2 DEF Grounded, MaySucceed, Staged, Checkpoint
  <2> QED
    BY <1>1, <2>1 DEF Fits, Checkpoint, r, x, o, n
<1>3. ASSUME ck.node \in {"prepare", "reserve", "prompt_gate", "output_gate"},
             NEW s \in {"skipped", "aborted", "failed"}
      PROVE  Fits([ck EXCEPT !.node = "finalize", !.status = s])
  <2>1. Grounded([ck EXCEPT !.node = "finalize", !.status = s], r, x, o, n)
    BY <1>1, <1>3 DEF Grounded, MaySucceed, Staged, Checkpoint, FinalStatus, TerminalPhase
  <2> QED
    BY <1>1, <2>1 DEF Fits, Checkpoint, r, x, o, n
<1>4. ASSUME ck.node \in {"open_output_gate", "output_gate"}
      PROVE  /\ Fits(Opened(ck, "output_gate", "awaiting_output_review"))
             /\ Fits(Opened(ck, "finalize", "failed"))
             /\ Fits([ck EXCEPT !.node = "finalize"])
             /\ \A s \in {"running", ck.status} :
                  Fits([ck EXCEPT !.node = "open_output_gate", !.status = s])
  <2>1. /\ Grounded(Opened(ck, "output_gate", "awaiting_output_review"), r, x, o, n)
        /\ Grounded(Opened(ck, "finalize", "failed"), r, x, o, n)
    BY <1>1, <1>4 DEF Opened, Grounded, MaySucceed, Staged, Checkpoint, FinalStatus,
                      TerminalPhase
  <2>2. /\ Grounded([ck EXCEPT !.node = "finalize"], r, x, o, n)
        /\ \A s \in {"running", ck.status} :
             Grounded([ck EXCEPT !.node = "open_output_gate", !.status = s], r, x, o, n)
    BY <1>1, <1>4 DEF Grounded, MaySucceed, Staged, Checkpoint
  <2> QED
    BY <1>1, <2>1, <2>2 DEF Opened, Fits, Checkpoint, r, x, o, n
<1>5. ASSUME ck.node = "finalize"
      PROVE  Fits([ck EXCEPT !.node = "end", !.status = FinalStatus(ck),
                             !.outcome = "none", !.marks = @ \ {"settled"}])
  <2>1. Grounded([ck EXCEPT !.node = "end", !.status = FinalStatus(ck),
                            !.outcome = "none", !.marks = @ \ {"settled"}], r, x, o, n)
    BY <1>1, <1>5 DEF Grounded, MaySucceed, Staged, Checkpoint
  <2> QED
    BY <1>1, <2>1 DEF Fits, Checkpoint, r, x, o, n
<1> QED
  BY <1>2, <1>3, <1>4, <1>5

\* The updates of the launch fit: an attempt that is not indexed is provisioned,
\* started, observed, or killed.
LEMMA LaunchUpdatesFit ==
    ASSUME SafetyInv, SpineInv
    PROVE  /\ ck.node = "provision" =>
                /\ Fits([ck EXCEPT !.status = "running", !.gen = conn.version])
                /\ Fits([ck EXCEPT !.node = "finalize", !.status = "failed"])
                /\ ~indexed[ck.attempt] => Fits(Provisioned(ck))
           /\ ck.node = "start" =>
                /\ Fits([ck EXCEPT !.node = "status"])
                /\ Fits([ck EXCEPT !.node = "finalize", !.status = "failed",
                                   !.marks = @ \ {"cleanup"}])
                /\ Fits(EnterCleanup(ck))
           /\ ck.node \in {"status", "poll"} =>
                /\ Fits(Observed(ck)) /\ Fits(PollFailed(ck))
                /\ Fits(EnterCleanup(PollFailed(ck)))
                /\ Fits([EnterCleanup(ck) EXCEPT !.last = ext[ck.attempt].phase])
           /\ ck.node = "cleanup" => Fits(Killed(ck))
           /\ ck.node = "collect" =>
                Fits([ck EXCEPT !.status = "running", !.store = TRUE])
<1> DEFINE r == row[ck.attempt]
           x == ext[ck.attempt]
           o == objs[ck.attempt]
           n == indexed[ck.attempt]
<1>1. /\ ck \in Checkpoint /\ Staged(ck) /\ Grounded(ck, r, x, o, n)
      /\ o \in BOOLEAN /\ n \in BOOLEAN
  BY GraphFacts
<1>2. ASSUME NEW c, Grounded(c, r, x, o, n), c.attempt = ck.attempt PROVE Fits(c)
  BY <1>2 DEF Fits
<1>3. ck.node \in {"status", "poll"} => Fits(Observed(ck))
  <2>1. ck.node \in {"status", "poll"} => Grounded(Observed(ck), r, x, o, n)
    BY <1>1 DEF Grounded, MaySucceed, Staged, Checkpoint, Observed
  <2> QED
    BY <1>1, <1>2, <2>1, SameAttempt
<1>4. n = indexed[ck.attempt]
  OBVIOUS
<1> HIDE DEF r, x, o, n
<1> USE DEF Grounded, MaySucceed, Staged, Checkpoint
<1>5. ASSUME ck.node = "provision"
      PROVE  /\ Fits([ck EXCEPT !.status = "running", !.gen = conn.version])
             /\ Fits([ck EXCEPT !.node = "finalize", !.status = "failed"])
             /\ ~n => Fits(Provisioned(ck))
  <2>1. Fits([ck EXCEPT !.status = "running", !.gen = conn.version])
    BY <1>1, <1>2, <1>5
  <2>2. Fits([ck EXCEPT !.node = "finalize", !.status = "failed"])
    BY <1>1, <1>2, <1>5 DEF FinalStatus, TerminalPhase
  <2>3. ~n => Fits(Provisioned(ck))
    BY <1>1, <1>2, <1>5 DEF Provisioned
  <2> QED
    BY <2>1, <2>2, <2>3
<1>6. ASSUME ck.node = "start"
      PROVE  /\ Fits([ck EXCEPT !.node = "status"])
             /\ Fits([ck EXCEPT !.node = "finalize", !.status = "failed",
                                !.marks = @ \ {"cleanup"}])
             /\ Fits(EnterCleanup(ck))
  <2>1. Fits([ck EXCEPT !.node = "status"])
    BY <1>1, <1>2, <1>6
  <2>2. Fits([ck EXCEPT !.node = "finalize", !.status = "failed", !.marks = @ \ {"cleanup"}])
    BY <1>1, <1>2, <1>6 DEF FinalStatus, TerminalPhase
  <2>3. Fits(EnterCleanup(ck))
    BY <1>1, <1>2, <1>6 DEF EnterCleanup
  <2> QED
    BY <2>1, <2>2, <2>3
<1>7. ASSUME ck.node \in {"status", "poll"}
      PROVE  /\ Fits(PollFailed(ck)) /\ Fits(EnterCleanup(PollFailed(ck)))
             /\ Fits([EnterCleanup(ck) EXCEPT !.last = ext[ck.attempt].phase])
  <2>1. Fits(PollFailed(ck))
    BY <1>1, <1>2, <1>7 DEF PollFailed
  <2>2. Fits(EnterCleanup(PollFailed(ck)))
    BY <1>1, <1>2, <1>7 DEF PollFailed, EnterCleanup
  <2>3. Fits([EnterCleanup(ck) EXCEPT !.last = ext[ck.attempt].phase])
    BY <1>1, <1>2, <1>7 DEF EnterCleanup
  <2> QED
    BY <2>1, <2>2, <2>3
<1>8. ASSUME ck.node = "cleanup" PROVE Fits(Killed(ck))
  BY <1>1, <1>2, <1>8 DEF Killed, FinalStatus, TerminalPhase
<1>9. ASSUME ck.node = "collect"
      PROVE  Fits([ck EXCEPT !.status = "running", !.store = TRUE])
  BY <1>1, <1>2, <1>9
<1> QED
  BY <1>3, <1>4, <1>5, <1>6, <1>7, <1>8, <1>9

\* The retries, the nodes' and the operator's, fit.
LEMMA RetriesFit ==
    ASSUME SafetyInv, SpineInv
    PROVE  /\ ck.node = "provision" => Fits(RetryProvision(ck))
           /\ ck.node = "cleanup" => Fits(RetryCleanup(ck))
           /\ ck.node = "collect" => Fits(RetryCollect(ck))
           /\ ck.node = "index" => Fits(RetryIndex(ck))
           /\ ck.node = "settle" => Fits(RetrySettle(ck))
           /\ ck.node = "provision_blocked" => Fits(ReopenProvision(ck))
           /\ ck.node = "cleanup_blocked" => Fits(ReopenCleanup(ck))
           /\ ck.node = "collection_blocked" => Fits(ReopenCollection(ck))
           /\ ck.node = "settle_blocked" => Fits(ReopenSettle(ck))
  BY GraphFacts, RetriesAreGrounded, ReopensAreGrounded, SameAttempt DEF Fits

\* The nodes that only read and checkpoint.
LEMMA NodeStepSafe == ASSUME SafetyInv, SpineInv, NodeStep PROVE SafetyInv'
<1>0. ASSUME NEW c, Fits(c), Checkpoints(c), UNCHANGED outside, owner = Nobody,
             run = "active"
      PROVE  SafetyInv'
  BY <1>0, ActiveIsVacant, FittingCheckpoint
<1>1. CASE Prepare
  BY <1>1, <1>0, GateUpdatesFit DEF Prepare, Executes
<1>2. CASE Reserve
  BY <1>2, <1>0, GateUpdatesFit DEF Reserve, Executes
<1>3. CASE StageAffinity
  BY <1>3, <1>0, LaunchUpdatesFit, RetriesFit DEF StageAffinity, Executes
<1>4. CASE InitialStatus
  BY <1>4, <1>0, LaunchUpdatesFit, RetriesFit DEF InitialStatus, Executes
<1>5. CASE Poll
  BY <1>5, <1>0, LaunchUpdatesFit, RetriesFit DEF Poll, Executes
<1>6. CASE PollTimeout
  BY <1>6, <1>0, LaunchUpdatesFit, RetriesFit DEF PollTimeout, Executes
<1>7. CASE StageStore
  BY <1>7, <1>0, LaunchUpdatesFit, RetriesFit DEF StageStore, Executes
<1>8. CASE OpenOutputGate
  BY <1>8, <1>0, OutputGateOpens, GateUpdatesFit DEF Executes
<1>9. CASE Finalize
  BY <1>9, <1>0, GateUpdatesFit DEF Finalize, Executes
<1> QED
  BY <1>1, <1>2, <1>3, <1>4, <1>5, <1>6, <1>7, <1>8, <1>9 DEF NodeStep

\* A step that changes neither checkpoint nor workers.
LEMMA QuietStep ==
    ASSUME SafetyInv, SpineInv, Quiet, UNCHANGED <<ck, wk>>,
           \/ UNCHANGED <<run, owner>>
              /\ \A i \in Workers : row'[wk[i].ck.attempt] = row[wk[i].ck.attempt]
           \/ Vacant
    PROVE  SafetyInv'
<1>1. Solid' /\ GroundedAt(ck)'
  BY GraphStaysGrounded
<1>2. CASE Vacant
  BY <1>1, <1>2, NobodyInside, IdleStep
<1>3. CASE /\ UNCHANGED <<run, owner>>
           /\ \A i \in Workers : row'[wk[i].ck.attempt] = row[wk[i].ck.attempt]
  <2>1. Exclusive'
    BY <1>3 DEF SafetyInv, Exclusive, Abandoned
  <2>2. ASSUME NEW i \in Workers PROVE ReadyAt(wk[i])'
    <3>1. wk[i].ck \in Checkpoint /\ wk[i].ck.attempt \in Attempts /\ ReadyAt(wk[i])
      BY WorkerCopy DEF Good, SafetyInv
    <3>2. wk[i].pc = "commit" =>
            Grounded(wk[i].ck, row'[wk[i].ck.attempt], ext'[wk[i].ck.attempt],
                     objs'[wk[i].ck.attempt], indexed'[wk[i].ck.attempt])
      BY <3>1, QuietKeeps DEF ReadyAt, Ready, GroundedAt
    <3> QED
      BY <1>3, <3>1, <3>2 DEF ReadyAt, Ready, Quiet
  <2> QED
    BY <1>1, <2>1, <2>2 DEF SafetyInv
<1> QED
  BY <1>2, <1>3

\* plan_resolver's entry.
LEMMA PlanResolverIsGrounded ==
    ASSUME NEW c, NEW r, NEW x, NEW o, NEW n
    PROVE  Grounded(PlanResolver(c), r, x, o, n)
  BY FreshIsGrounded DEF PlanResolver

\* Nobody takes a cancelled thread up again.
LEMMA OperatorFindsNobody == ASSUME Operator PROVE Vacant
<1>1. run = "none"
  BY DEF Operator, DecidePrompt, DecideOutput, ResumeBlocked, Rerun, Restart, Continue
<1>2. \/ ck.node \in InterruptNode \cup {"end"}
      \/ Continues \/ Restarts
  BY DEF Operator, DecidePrompt, DecideOutput, ResumeBlocked, Rerun, Restart, Continue,
         InterruptNode, ParentStatus, TerminalPhase
<1> QED
  BY <1>1, <1>2 DEF Vacant, Abandoned

\* What people do.
LEMMA OperatorSafe == ASSUME SafetyInv, SpineInv, Operator PROVE SafetyInv'
<1>0. ASSUME NEW c, Fits(c), Checkpoints(c), UNCHANGED outside, Vacant
      PROVE  SafetyInv'
  BY <1>0, FittingCheckpoint
<1>1. CASE DecidePrompt
  BY <1>1, <1>0, OperatorFindsNobody, GateUpdatesFit DEF DecidePrompt
<1>2. CASE DecideOutput
  BY <1>2, <1>0, OperatorFindsNobody, GateUpdatesFit DEF DecideOutput
<1>3. CASE ResumeBlocked
  BY <1>3, <1>0, OperatorFindsNobody, LaunchUpdatesFit, RetriesFit DEF ResumeBlocked
<1>4. CASE Rerun \/ Restart
  BY <1>4, OperatorFindsNobody, PlanResolverIsGrounded, CheckpointSafe DEF Rerun, Restart
<1>5. CASE Continue
  BY <1>5, OperatorFindsNobody, StayingIsQuiet, QuietStep DEF Continue
<1> QED
  BY <1>1, <1>2, <1>3, <1>4, <1>5 DEF Operator

-----------------------------------------------------------------------------
(* The worker's steps.                                                     *)

\* What a worker inside a node knows.
LEMMA InsideFacts ==
    ASSUME SafetyInv, SpineInv, NEW i \in Workers, wk[i].pc \notin {"idle", "commit"}
    PROVE  /\ wk[i].ck = ck /\ ck.attempt \in Attempts /\ ck.gen \in Versions
           /\ InPlace(wk[i]) /\ KillConfirmed(wk[i])
           /\ Ready(wk[i], row[ck.attempt], ext[ck.attempt], objs[ck.attempt],
                    indexed[ck.attempt])
           /\ row[ck.attempt] \in RowOf(Versions)
           /\ indexed[ck.attempt] \in BOOLEAN /\ objs[ck.attempt] \in BOOLEAN
<1>1. wk[i].ck = ck
  BY InsideAlone
<1>2. ReadyAt(wk[i])
  BY DEF SafetyInv
<1> QED
  BY <1>1, <1>2, WorkerCopy, GraphFacts DEF ReadyAt

\* A fitting entry is grounded after a quiet step.
LEMMA FittingMatures ==
    ASSUME SafetyInv, SpineInv, Quiet, NEW c, Fits(c)
    PROVE  Grounded(c, row'[c.attempt], ext'[c.attempt], objs'[c.attempt],
                    indexed'[c.attempt])
<1>1. ck.attempt \in Attempts
  BY GraphFacts
<1>2. /\ objs'[ck.attempt] = objs[ck.attempt] /\ indexed'[ck.attempt] = indexed[ck.attempt]
      /\ row[ck.attempt].status \in Late => row'[ck.attempt].status \in Late
      /\ row[ck.attempt].status \in TerminalStatus => row'[ck.attempt] = row[ck.attempt]
      /\ ext[ck.attempt].phase \in TerminalStatus => ext'[ck.attempt].phase \in TerminalStatus
  BY <1>1 DEF Quiet
<1>3. /\ c.attempt = ck.attempt
      /\ Grounded(c, row[ck.attempt], ext[ck.attempt], objs[ck.attempt], indexed[ck.attempt])
  BY DEF Fits
<1> QED
  BY <1>2, <1>3, GroundedMatures

\* A node that returns a fitting entry.
LEMMA ReturnFitting ==
    ASSUME SafetyInv, SpineInv, Quiet, NEW i \in Workers, NEW c, Fits(c),
           wk[i].pc \notin {"idle", "commit"}, Return(i, c)
    PROVE  SafetyInv'
  BY FittingMatures, GraphStaysGrounded, ReturnSafe DEF Return

\* A node that returns a fitting entry as soon as it is entered.
LEMMA EnterFitting ==
    ASSUME SafetyInv, SpineInv, Quiet, NEW i \in Workers, NEW c, Fits(c),
           owner = Nobody, run = "active", Enter(i, "commit", c)
    PROVE  SafetyInv'
<1>1. Ready([pc |-> "commit", ck |-> c], row'[c.attempt], ext'[c.attempt],
            objs'[c.attempt], indexed'[c.attempt])
  BY FittingMatures DEF Ready
<1> QED
  BY <1>1, EnterSafe

\* A node that raises.
LEMMA RaiseSafe ==
    ASSUME SafetyInv, SpineInv, Quiet, NEW i \in Workers, wk[i].pc # "idle", Raise(i)
    PROVE  SafetyInv'
  BY GraphStaysGrounded, IdleSafe DEF Raise

\* A node that ends the run as soon as it is entered.
LEMMA RefuseSafe ==
    ASSUME SafetyInv, SpineInv, owner = Nobody, run = "active",
           UNCHANGED <<ck, owner, wk, outside>>
    PROVE  SafetyInv'
  BY ActiveIsVacant, StayingIsQuiet, QuietStep

\* The steps that end with record_engine_run(required=True).
LEMMA RecordOrRaiseSafe ==
    ASSUME SafetyInv, SpineInv, NEW i \in Workers, NEW w \in WriteOf(Versions), NEW c,
           wk[i].pc \notin {"idle", "commit"}, c.attempt = ck.attempt,
           TransitionAllowed(row[ck.attempt], w) =>
             Grounded(c, Upsert(row[ck.attempt], w), ext[ck.attempt], objs[ck.attempt],
                      indexed[ck.attempt]),
           w.kind # "none" => ext[ck.attempt].phase \in TerminalStatus /\ ext[ck.attempt].torn,
           w.kind = "collection" => indexed[ck.attempt] /\ objs[ck.attempt],
           RecordOrRaise(i, w, c)
    PROVE  SafetyInv'
<1>1. wk[i].ck = ck /\ ck.attempt \in Attempts
  BY InsideFacts
<1>2. \/ /\ TransitionAllowed(row[ck.attempt], w)
         /\ SetRow(ck.attempt, Upsert(row[ck.attempt], w)) /\ Return(i, c)
      \/ UNCHANGED outside /\ Raise(i)
      \/ /\ TransitionAllowed(row[ck.attempt], w)
         /\ SetRow(ck.attempt, Upsert(row[ck.attempt], w)) /\ Raise(i)
  BY <1>1 DEF RecordOrRaise, Recordable
<1>3. CASE /\ TransitionAllowed(row[ck.attempt], w)
           /\ SetRow(ck.attempt, Upsert(row[ck.attempt], w)) /\ Return(i, c)
  <2>1. Quiet /\ row'[ck.attempt] = Upsert(row[ck.attempt], w)
    BY <1>1, <1>3, UpsertIsQuiet
  <2>2. ext' = ext /\ objs' = objs /\ indexed' = indexed /\ ck' = ck
    BY <1>3 DEF SetRow, Return
  <2>3. Grounded(c, row'[c.attempt], ext'[c.attempt], objs'[c.attempt], indexed'[c.attempt])
    BY <1>3, <2>1, <2>2
  <2> QED
    BY <1>3, <2>1, <2>2, <2>3, GraphStaysGrounded, ReturnSafe
<1>4. CASE UNCHANGED outside /\ Raise(i)
  BY <1>4, StayingIsQuiet, RaiseSafe
<1>5. CASE /\ TransitionAllowed(row[ck.attempt], w)
           /\ SetRow(ck.attempt, Upsert(row[ck.attempt], w)) /\ Raise(i)
  <2>1. Quiet
    BY <1>1, <1>5, UpsertIsQuiet
  <2> QED
    BY <1>5, <2>1, RaiseSafe
<1> QED
  BY <1>2, <1>3, <1>4, <1>5

\* The same of a fitting entry that says nothing about a collection.
LEMMA RecordFitting ==
    ASSUME SafetyInv, SpineInv, NEW i \in Workers, NEW w \in WriteOf(Versions), NEW c,
           wk[i].pc \notin {"idle", "commit"}, Fits(c), w.kind # "collection",
           w.kind # "none" => ext[ck.attempt].phase \in TerminalStatus /\ ext[ck.attempt].torn,
           RecordOrRaise(i, w, c)
    PROVE  SafetyInv'
<1>1. row[ck.attempt] \in RowOf(Versions)
  BY InsideFacts
<1>2. TransitionAllowed(row[ck.attempt], w) =>
        Grounded(c, Upsert(row[ck.attempt], w), ext[ck.attempt], objs[ck.attempt],
                 indexed[ck.attempt])
  BY <1>1, UpsertMatures, GroundedMatures DEF Fits, Late
<1> QED
  BY <1>2, RecordOrRaiseSafe DEF Fits

\* The provision node is entered, refused or retried without an effect.
LEMMA ProvisionResolveSafe ==
    ASSUME SafetyInv, SpineInv, NEW i \in Workers, ProvisionResolve(i) PROVE SafetyInv'
<1>1. owner = Nobody /\ run = "active" /\ ck.node = "provision" /\ Quiet
  BY StayingIsQuiet DEF ProvisionResolve, Takes
<1>2. CASE Enter(i, "provision.prepare", ck) \/ Enter(i, "provision.reject", ck)
  <2>1. \A pc \in {"provision.prepare", "provision.reject"} : \A r, x, o, n :
          Ready([pc |-> pc, ck |-> ck], r, x, o, n)
    BY DEF Ready
  <2> QED
    BY <1>1, <1>2, <2>1, EnterSafe
<1>3. CASE Enter(i, "commit", RetryProvision(ck))
  BY <1>1, <1>3, RetriesFit, EnterFitting
<1> QED
  BY <1>2, <1>3 DEF ProvisionResolve

\* A reservation that lets the provider be called, or recovers its handle, is not
\* of a collected attempt.
LEMMA ProvisionPrepareSafe ==
    ASSUME SafetyInv, SpineInv, NEW i \in Workers, ProvisionPrepare(i) PROVE SafetyInv'
<1> DEFINE a == ck.attempt
           r == InsertReservation(row[a], ck.gen)
           decision == IF Accepts(ck) THEN ProvisionDecision(r, ck.gen) ELSE "reject"
<1>1. wk[i].pc = "provision.prepare" /\ wk[i].pc \notin {"idle", "commit"}
  BY DEF ProvisionPrepare, At
<1>2. wk[i].ck = ck /\ a \in Attempts /\ ck.node = "provision"
  BY <1>1, InsideFacts DEF InPlace
<1>3. decision \in {"call", "recover"} => ~indexed[a]
  <2>1. decision \in {"call", "recover"} => row[a].status \notin Late
    BY DEF ProvisionDecision, InsertReservation, NoRow, Late, TerminalStatus
  <2> QED
    BY <1>2, <2>1 DEF SafetyInv, Solid, IndexedIsLate
<1>4. /\ Fits(RetryProvision(ck))
      /\ decision = "recover" => Fits(Provisioned(ck))
  BY <1>2, <1>3, RetriesFit, LaunchUpdatesFit
<1>5. \/ decision = "call" /\ SetRow(a, r) /\ Goto(i, "provision.call")
      \/ decision = "recover" /\ UNCHANGED outside /\ Return(i, Provisioned(ck))
      \/ UNCHANGED outside /\ Raise(i)
      \/ (UNCHANGED outside \/ SetRow(a, r)) /\ Return(i, RetryProvision(ck))
  BY <1>2 DEF ProvisionPrepare
<1>6. UNCHANGED outside \/ SetRow(a, r) => Quiet
  BY <1>2, StayingIsQuiet, InsertIsQuiet
<1>7. CASE decision = "call" /\ SetRow(a, r) /\ Goto(i, "provision.call")
  <2>1. ~indexed'[a]
    BY <1>3, <1>7 DEF SetRow
  <2>2. Ready([pc |-> "provision.call", ck |-> ck], row'[a], ext'[a], objs'[a], indexed'[a])
    BY <2>1 DEF Ready
  <2> QED
    BY <1>1, <1>2, <1>6, <1>7, <2>2, GotoSafe
<1> HIDE DEF a, r, decision
<1> QED
  BY <1>1, <1>4, <1>5, <1>6, <1>7, ReturnFitting, RaiseSafe

\* The provider call of an attempt that is not collected.
LEMMA ProvisionCallSafe ==
    ASSUME SafetyInv, SpineInv, NEW i \in Workers, ProvisionCall(i) PROVE SafetyInv'
<1> DEFINE a == ck.attempt
           created == IF ext[a].phase = "none" THEN "ready" ELSE ext[a].phase
<1>1. wk[i].pc = "provision.call" /\ wk[i].pc \notin {"idle", "commit"}
  BY DEF ProvisionCall, At
<1>2. /\ wk[i].ck = ck /\ a \in Attempts /\ ck.node = "provision" /\ ~indexed[a]
  BY <1>1, InsideFacts DEF InPlace, Ready
<1>3. Fits(RetryProvision(ck))
  BY <1>2, RetriesFit
<1>4. \/ UNCHANGED outside \/ SetRun(a, created, ext[a].torn) \/ Compensate(a, created)
  BY <1>2 DEF ProvisionCall
<1>5. \/ Goto(i, "provision.record") \/ Goto(i, "provision.reject")
      \/ Return(i, RetryProvision(ck))
  BY <1>2 DEF ProvisionCall
<1>6. Quiet
  <2>1. ext[a].phase \in TerminalStatus => created \in TerminalStatus
    BY DEF TerminalStatus
  <2> HIDE DEF created
  <2> QED
    BY <1>2, <1>4, <2>1, StayingIsQuiet, SetRunIsQuiet, CompensateIsQuiet
<1>7. \A pc \in {"provision.record", "provision.reject"} :
        Ready([pc |-> pc, ck |-> ck], row'[a], ext'[a], objs'[a], indexed'[a])
  BY <1>2, <1>6 DEF Ready, Quiet
<1> QED
  BY <1>1, <1>2, <1>3, <1>5, <1>6, <1>7, GotoSafe, ReturnFitting

\* A definitive provision failure.
LEMMA ProvisionRejectSafe ==
    ASSUME SafetyInv, SpineInv, NEW i \in Workers, ProvisionReject(i) PROVE SafetyInv'
<1> DEFINE w == Write("failed", FALSE, FALSE, 0, FALSE, "none")
<1>1. wk[i].pc = "provision.reject" /\ wk[i].pc \notin {"idle", "commit"}
  BY DEF ProvisionReject, At
<1>2. wk[i].ck = ck /\ ck.node = "provision"
  BY <1>1, InsideFacts DEF InPlace
<1>3. w \in WriteOf(Versions) /\ w.kind = "none"
  BY WriteNames, WriteType DEF Write
<1>4. RecordOrRaise(i, w, [ck EXCEPT !.node = "finalize", !.status = "failed"])
  BY <1>2 DEF ProvisionReject
<1> HIDE DEF w
<1> QED
  BY <1>1, <1>2, <1>3, <1>4, LaunchUpdatesFit, RecordFitting

\* The READY projection of an attempt that is not collected.
LEMMA ProvisionRecordSafe ==
    ASSUME SafetyInv, SpineInv, NEW i \in Workers, ProvisionRecord(i) PROVE SafetyInv'
<1> DEFINE a == ck.attempt
           w == Write("ready", TRUE, FALSE, 0, FALSE, "none")
<1>1. wk[i].pc = "provision.record" /\ wk[i].pc \notin {"idle", "commit"}
  BY DEF ProvisionRecord, At
<1>2. wk[i].ck = ck /\ a \in Attempts /\ ck.node = "provision" /\ ~indexed[a]
  BY <1>1, InsideFacts DEF InPlace, Ready
<1>3. w \in WriteOf(Versions) /\ w.kind = "none"
  BY WriteNames, WriteType DEF Write
<1>4. Fits(RetryProvision(ck)) /\ Fits(Provisioned(ck))
  BY <1>2, RetriesFit, LaunchUpdatesFit
<1>5. /\ \/ UNCHANGED outside
         \/ TransitionAllowed(row[a], w) /\ SetRow(a, Upsert(row[a], w))
      /\ Return(i, Provisioned(ck)) \/ Return(i, RetryProvision(ck)) \/ Raise(i)
  BY <1>2 DEF ProvisionRecord, Recordable
<1> HIDE DEF w
<1>6. Quiet
  BY <1>2, <1>3, <1>5, StayingIsQuiet, UpsertIsQuiet
<1> QED
  BY <1>1, <1>4, <1>5, <1>6, ReturnFitting, RaiseSafe

\* The start node is entered, recovered or refused without an effect.
LEMMA StartPrepareSafe ==
    ASSUME SafetyInv, SpineInv, NEW i \in Workers, StartPrepare(i) PROVE SafetyInv'
<1>1. owner = Nobody /\ run = "active" /\ ck.node = "start" /\ UNCHANGED outside /\ Quiet
  BY StayingIsQuiet DEF StartPrepare, Takes
<1>2. CASE Enter(i, "start.call", ck)
  <2>1. \A r, x, o, n : Ready([pc |-> "start.call", ck |-> ck], r, x, o, n)
    BY DEF Ready
  <2> QED
    BY <1>1, <1>2, <2>1, EnterSafe
<1>3. CASE Enter(i, "commit", [ck EXCEPT !.node = "status"])
  BY <1>1, <1>3, LaunchUpdatesFit, EnterFitting
<1>4. CASE UNCHANGED <<ck, owner, wk>>
  BY <1>1, <1>4, RefuseSafe
<1> QED
  BY <1>2, <1>3, <1>4 DEF StartPrepare

\* The start call.
LEMMA StartCallSafe ==
    ASSUME SafetyInv, SpineInv, NEW i \in Workers, StartCall(i) PROVE SafetyInv'
<1> DEFINE a == ck.attempt
           started == IF ext[a].phase = "ready" THEN "running" ELSE ext[a].phase
<1>1. wk[i].pc = "start.call" /\ wk[i].pc \notin {"idle", "commit"}
  BY DEF StartCall, At
<1>2. wk[i].ck = ck /\ a \in Attempts /\ ck.node = "start"
  BY <1>1, InsideFacts DEF InPlace
<1>3. Fits(EnterCleanup(ck))
  BY <1>2, LaunchUpdatesFit
<1>4. UNCHANGED outside \/ SetRun(a, started, ext[a].torn) \/ Compensate(a, started)
  BY <1>2 DEF StartCall
<1>5. Goto(i, "start.record") \/ Goto(i, "start.reject") \/ Return(i, EnterCleanup(ck))
  BY <1>2 DEF StartCall
<1>6. Quiet
  <2>1. ext[a].phase \in TerminalStatus => started \in TerminalStatus
    BY DEF TerminalStatus
  <2> HIDE DEF started
  <2> QED
    BY <1>2, <1>4, <2>1, StayingIsQuiet, SetRunIsQuiet, CompensateIsQuiet
<1>7. \A pc \in {"start.record", "start.reject"} :
        Ready([pc |-> pc, ck |-> ck], row'[a], ext'[a], objs'[a], indexed'[a])
  BY DEF Ready
<1> QED
  BY <1>1, <1>2, <1>3, <1>5, <1>6, <1>7, GotoSafe, ReturnFitting

\* An unsafe start.
LEMMA StartRejectSafe ==
    ASSUME SafetyInv, SpineInv, NEW i \in Workers, StartReject(i) PROVE SafetyInv'
<1> DEFINE w == Write("failed", TRUE, TRUE, ck.gen, FALSE, "none")
<1>1. wk[i].pc = "start.reject" /\ wk[i].pc \notin {"idle", "commit"}
  BY DEF StartReject, At
<1>2. wk[i].ck = ck /\ ck.node = "start" /\ ck.gen \in Versions
  BY <1>1, InsideFacts DEF InPlace
<1>3. w \in WriteOf(Versions) /\ w.kind = "none"
  BY <1>2, WriteNames, WriteType DEF Write
<1>4. RecordOrRaise(i, w, [ck EXCEPT !.node = "finalize", !.status = "failed",
                                     !.marks = @ \ {"cleanup"}])
  BY <1>2 DEF StartReject
<1> HIDE DEF w
<1> QED
  BY <1>1, <1>2, <1>3, <1>4, LaunchUpdatesFit, RecordFitting

\* The RUNNING projection.
LEMMA StartRecordSafe ==
    ASSUME SafetyInv, SpineInv, NEW i \in Workers, StartRecord(i) PROVE SafetyInv'
<1> DEFINE w == Write("running", TRUE, TRUE, ck.gen, FALSE, "none")
<1>1. wk[i].pc = "start.record" /\ wk[i].pc \notin {"idle", "commit"}
  BY DEF StartRecord, At
<1>2. wk[i].ck = ck /\ ck.node = "start" /\ ck.gen \in Versions
  BY <1>1, InsideFacts DEF InPlace
<1>3. w \in WriteOf(Versions) /\ w.kind = "none"
  BY <1>2, WriteNames, WriteType DEF Write
<1>4. RecordOrRaise(i, w, [ck EXCEPT !.node = "status"])
  BY <1>2 DEF StartRecord
<1> HIDE DEF w
<1> QED
  BY <1>1, <1>2, <1>3, <1>4, LaunchUpdatesFit, RecordFitting

\* A committed kill is recovered, or the kill begins.
LEMMA CleanupRecoverSafe ==
    ASSUME SafetyInv, SpineInv, NEW i \in Workers, CleanupRecover(i) PROVE SafetyInv'
<1>1. owner = Nobody /\ run = "active" /\ ck.node = "cleanup" /\ UNCHANGED outside /\ Quiet
  BY StayingIsQuiet DEF CleanupRecover, Takes
<1>2. CASE Enter(i, "cleanup.call", ck)
  <2>1. \A r, x, o, n : Ready([pc |-> "cleanup.call", ck |-> ck], r, x, o, n)
    BY DEF Ready
  <2> QED
    BY <1>1, <1>2, <2>1, EnterSafe
<1>3. CASE Enter(i, "commit", Killed(ck))
  BY <1>1, <1>3, LaunchUpdatesFit, EnterFitting
<1>4. CASE UNCHANGED <<ck, owner, wk>>
  BY <1>1, <1>4, RefuseSafe
<1> QED
  BY <1>2, <1>3, <1>4 DEF CleanupRecover

\* The kill: it is recorded only behind a teardown, and no answer of the provider
\* takes an earlier teardown back.
LEMMA CleanupCallSafe ==
    ASSUME SafetyInv, SpineInv, NEW i \in Workers, CleanupCall(i) PROVE SafetyInv'
<1> DEFINE a == ck.attempt
<1>1. wk[i].pc = "cleanup.call" /\ wk[i].pc \notin {"idle", "commit"}
  BY DEF CleanupCall, At
<1>2. wk[i].ck = ck /\ a \in Attempts /\ ck.node = "cleanup"
  BY <1>1, InsideFacts DEF InPlace
<1>3. Fits(RetryCleanup(ck))
  BY <1>2, RetriesFit
<1>4. \A p \in AbortedPhase(ext[a].phase) :
        ext[a].phase \in TerminalStatus => p \in TerminalStatus
  BY <1>2, AbortedPhaseType DEF SpineInv, OutsideOK
<1>5. \/ \E p \in AbortedPhase(ext[a].phase) :
           SetRun(a, p, TRUE) /\ Goto(i, "cleanup.record")
      \/ /\ Return(i, RetryCleanup(ck))
         /\ \/ UNCHANGED outside
            \/ \E p \in AbortedPhase(ext[a].phase) : \E torn :
                 SetRun(a, p, torn) /\ (ext[a].torn => torn)
  <2>1. \A p, torn : ext[a].torn => ((torn /\ p \in TerminalStatus) \/ ext[a].torn)
    OBVIOUS
  <2> QED
    BY <1>2, <2>1, Zenon DEF CleanupCall
<1>6. CASE \E p \in AbortedPhase(ext[a].phase) :
             SetRun(a, p, TRUE) /\ Goto(i, "cleanup.record")
  <2>1. Quiet /\ ext'[a].torn /\ Goto(i, "cleanup.record")
    BY <1>2, <1>4, <1>6, SetRunIsQuiet
  <2>2. Ready([pc |-> "cleanup.record", ck |-> ck], row'[a], ext'[a], objs'[a], indexed'[a])
    BY <2>1 DEF Ready
  <2> QED
    BY <1>1, <1>2, <2>1, <2>2, GotoSafe
<1>7. CASE /\ Return(i, RetryCleanup(ck))
           /\ \/ UNCHANGED outside
              \/ \E p \in AbortedPhase(ext[a].phase) : \E torn :
                   SetRun(a, p, torn) /\ (ext[a].torn => torn)
  <2>1. Quiet
    BY <1>2, <1>4, <1>7, StayingIsQuiet, SetRunIsQuiet
  <2> QED
    BY <1>1, <1>3, <1>7, <2>1, ReturnFitting
<1> QED
  BY <1>5, <1>6, <1>7

\* The recorded kill: its witness is of a run that is over and released.
LEMMA CleanupRecordSafe ==
    ASSUME SafetyInv, SpineInv, NEW i \in Workers, CleanupRecord(i) PROVE SafetyInv'
<1> DEFINE w == Write(ext[ck.attempt].phase, TRUE, TRUE, ck.gen, FALSE, "cleanup")
<1>1. wk[i].pc = "cleanup.record" /\ wk[i].pc \notin {"idle", "commit"}
  BY DEF CleanupRecord, At
<1>2. /\ wk[i].ck = ck /\ ck.node = "cleanup" /\ ck.gen \in Versions
      /\ ext[ck.attempt].phase \in TerminalStatus /\ ext[ck.attempt].torn
  BY <1>1, InsideFacts DEF InPlace, KillConfirmed, Ready
<1>3. w \in WriteOf(Versions) /\ w.kind = "cleanup"
  BY <1>2, WriteNames, WriteType DEF Write
<1>4. RecordOrRaise(i, w, Killed(ck))
  BY <1>2 DEF CleanupRecord
<1> HIDE DEF w
<1> QED
  BY <1>1, <1>2, <1>3, <1>4, LaunchUpdatesFit, RecordFitting

\* The store is reserved before any byte is written.
LEMMA CollectReserveSafe ==
    ASSUME SafetyInv, SpineInv, NEW i \in Workers, CollectReserve(i) PROVE SafetyInv'
<1> DEFINE a == ck.attempt
           w == Write("collecting", TRUE, TRUE, ck.gen, TRUE, "none")
<1>1. owner = Nobody /\ run = "active" /\ ck.node = "collect"
  BY DEF CollectReserve, Takes
<1>2. ck.gen \in Versions /\ a \in Attempts /\ row[a] \in RowOf(Versions)
  BY GraphFacts DEF Checkpoint, SpineInv, OutsideOK
<1>3. w \in WriteOf(Versions) /\ w.kind = "none" /\ w.status = "collecting"
  BY <1>2, WriteNames, WriteType DEF Write
<1>4. Fits(RetryCollect(ck))
  BY <1>1, RetriesFit
<1>5. \/ /\ TransitionAllowed(row[a], w) /\ SetRow(a, Upsert(row[a], w))
         /\ Enter(i, "collect.call", ck)
      \/ /\ Enter(i, "commit", RetryCollect(ck))
         /\ \/ UNCHANGED outside
            \/ TransitionAllowed(row[a], w) /\ SetRow(a, Upsert(row[a], w))
  BY DEF CollectReserve, Recordable
<1> HIDE DEF w
<1>6. CASE /\ TransitionAllowed(row[a], w) /\ SetRow(a, Upsert(row[a], w))
           /\ Enter(i, "collect.call", ck)
  <2>1. Quiet /\ row'[a] = Upsert(row[a], w)
    BY <1>2, <1>3, <1>6, UpsertIsQuiet
  <2>2. row'[a].status = "collecting"
    BY <1>2, <1>3, <1>6, <2>1, UpsertCollecting
  <2>3. Ready([pc |-> "collect.call", ck |-> ck], row'[a], ext'[a], objs'[a], indexed'[a])
    BY <2>2 DEF Ready, Late
  <2> QED
    BY <1>1, <1>6, <2>1, <2>3, EnterSafe
<1>7. CASE /\ Enter(i, "commit", RetryCollect(ck))
           /\ \/ UNCHANGED outside
              \/ TransitionAllowed(row[a], w) /\ SetRow(a, Upsert(row[a], w))
  <2>1. Quiet
    BY <1>2, <1>3, <1>7, StayingIsQuiet, UpsertIsQuiet
  <2> QED
    BY <1>1, <1>4, <1>7, <2>1, EnterFitting
<1> QED
  BY <1>5, <1>6, <1>7


\* Bytes are written and deleted only for an attempt that is not indexed.
LEMMA StoreKeeps ==
    ASSUME SafetyInv, SpineInv, NEW a \in Attempts, ~indexed[a],
           \A b \in Attempts \ {a} : objs'[b] = objs[b], UNCHANGED <<row, ext, indexed>>
    PROVE  Solid'
  BY DEF SafetyInv, Solid, WitnessIsTruthful, IndexedObjectsSurvive, IndexedIsLate

\* The collection writes the batch of an attempt that is not indexed; once it
\* succeeded the batch is in the store.
LEMMA CollectCallSafe ==
    ASSUME SafetyInv, SpineInv, NEW i \in Workers, CollectCall(i) PROVE SafetyInv'
<1> DEFINE a == ck.attempt
<1>1. wk[i].pc = "collect.call" /\ wk[i].pc \notin {"idle", "commit"}
  BY DEF CollectCall, At
<1>2. /\ wk[i].ck = ck /\ a \in Attempts /\ ck.node = "collect"
      /\ row[a].status \in Late /\ indexed[a] \in BOOLEAN /\ objs[a] \in BOOLEAN
  BY <1>1, InsideFacts DEF InPlace, Ready
<1>3. /\ ck \in Checkpoint /\ Staged(ck) /\ "index" \notin ck.marks
      /\ Grounded(ck, row[a], ext[a], objs[a], indexed[a]) /\ ~indexed[a]
  BY <1>2, GraphFacts DEF Staged, Grounded
<1>4. UNCHANGED <<row, ext, indexed, ck>>
  BY DEF CollectCall, Return
<1>5. PICK o \in BOOLEAN :
        /\ objs' = [objs EXCEPT ![a] = o]
        /\ \/ Return(i, RetryCollect(ck))
           \/ o /\ \E d \in ProjectedPhase(ck.last) : Return(i, Collected(ck, d))
  BY <1>2 DEF CollectCall, Collected
<1>6. objs'[a] = o /\ \A b \in Attempts \ {a} : objs'[b] = objs[b]
  BY <1>2, <1>5 DEF SpineInv, OutsideOK
<1>7. Grounded(ck, row[a], ext[a], o, indexed[a])
  BY <1>3 DEF Grounded
<1>8. Solid' /\ GroundedAt(ck)'
  BY <1>2, <1>3, <1>4, <1>6, <1>7, StoreKeeps DEF GroundedAt
<1>9. Grounded(RetryCollect(ck), row[a], ext[a], o, indexed[a])
  BY <1>2, <1>3, <1>7, RetriesAreGrounded
<1>10. ASSUME o, NEW d \in ProjectedPhase(ck.last)
       PROVE  Grounded(Collected(ck, d), row[a], ext[a], o, indexed[a])
  <2>1. d \in TerminalStatus
    BY <1>2, <1>3, <1>10 DEF Staged, ProjectedPhase, TerminalStatus
  <2>2. o = TRUE
    BY <1>10
  <2>3. Grounded(ck, row[a], ext[a], TRUE, indexed[a])
    BY <1>7, <2>2
  <2>4. \A e \in TerminalStatus : Grounded(Collected(ck, e), row[a], ext[a], TRUE, indexed[a])
    <3>1. TRUE \in BOOLEAN /\ indexed[a] \in BOOLEAN
      BY <1>2
    <3>2. ck \in Checkpoint /\ Staged(ck) /\ ck.node = "collect" /\ row[a].status \in Late
      BY <1>2, <1>3
    <3> QED
      BY <2>3, <3>1, <3>2, CollectionUpdatesAreGrounded, Zenon
  <2> QED
    BY <2>1, <2>2, <2>4
<1>11. RetryCollect(ck).attempt = a /\ \A d : Collected(ck, d).attempt = a
  BY <1>3, SameAttempt DEF Checkpoint, Collected
<1>12. \E c : Return(i, c) /\ c.attempt = a /\ Grounded(c, row[a], ext[a], o, indexed[a])
  BY <1>5, <1>9, <1>10, <1>11
<1> QED
  BY <1>1, <1>4, <1>6, <1>8, <1>12, ReturnSafe

\* The index names a batch that is in the store, of a row past its start.
LEMMA IndexSafe ==
    ASSUME SafetyInv, SpineInv, NEW i \in Workers, Index(i) PROVE SafetyInv'
<1> DEFINE a == ck.attempt
<1>1. owner = Nobody /\ run = "active" /\ ck.node = "index"
  BY DEF Index, Takes
<1>2. /\ ck \in Checkpoint /\ Staged(ck) /\ a \in Attempts
      /\ Grounded(ck, row[a], ext[a], objs[a], indexed[a])
      /\ objs[a] /\ row[a].status \in Late /\ indexed[a] \in BOOLEAN
  BY <1>1, GraphFacts DEF Grounded
<1>3. UNCHANGED <<row, ext, objs, ck>>
  BY DEF Index, Enter
<1>4. PICK n \in BOOLEAN :
        /\ indexed' = [indexed EXCEPT ![a] = n] /\ (indexed[a] => n)
        /\ \/ Enter(i, "commit", RetryIndex(ck))
           \/ n /\ Enter(i, "commit", Indexed(ck))
  <2>1. indexed = [indexed EXCEPT ![a] = indexed[a]]
    BY <1>2 DEF SpineInv, OutsideOK
  <2> QED
    BY <1>2, <2>1 DEF Index, Indexed
<1>5. indexed'[a] = n /\ \A b \in Attempts \ {a} : indexed'[b] = indexed[b]
  BY <1>2, <1>4 DEF SpineInv, OutsideOK
<1>6. Solid'
  BY <1>2, <1>3, <1>4, <1>5
  DEF SafetyInv, Solid, WitnessIsTruthful, IndexedObjectsSurvive, IndexedIsLate
<1>7. Grounded(ck, row[a], ext[a], objs[a], n)
  BY <1>1, <1>2, <1>4 DEF Grounded
<1>8. GroundedAt(ck)'
  BY <1>3, <1>5, <1>7 DEF GroundedAt
<1>9. Grounded(RetryIndex(ck), row[a], ext[a], objs[a], n)
  BY <1>1, <1>2, <1>7, RetriesAreGrounded
<1>10. n => Grounded(Indexed(ck), row[a], ext[a], objs[a], n)
  BY <1>1, <1>2, <1>7, CollectionUpdatesAreGrounded
<1>11. RetryIndex(ck).attempt = a /\ Indexed(ck).attempt = a
  BY <1>2, SameAttempt DEF Checkpoint, Indexed
<1>12. PICK c : Enter(i, "commit", c) /\ c.attempt = a
                /\ Grounded(c, row[a], ext[a], objs[a], n)
  BY <1>4, <1>9, <1>10, <1>11
<1> DEFINE w == [pc |-> "commit", ck |-> c]
<1>13. w.pc = "commit" /\ w.ck = c
  OBVIOUS
<1>14. wk' = [wk EXCEPT ![i] = w] /\ owner' = i /\ run' = "active"
  BY <1>1, <1>12 DEF Enter
<1> HIDE DEF w
<1>15. Ready(w, row'[w.ck.attempt], ext'[w.ck.attempt], objs'[w.ck.attempt],
             indexed'[w.ck.attempt])
  BY <1>3, <1>5, <1>12, <1>13 DEF Ready
<1>16. WorkersOK /\ \A j \in Workers : wk[j].pc = "idle"
  BY <1>1, ActiveIsVacant, NobodyInside DEF SpineInv
<1> QED
  BY <1>6, <1>8, <1>13, <1>14, <1>15, <1>16, LoneWorkerMoves

\* A committed settlement is recovered from a row that says what it settled.
LEMMA SettleRecoverSafe ==
    ASSUME SafetyInv, SpineInv, NEW i \in Workers, SettleRecover(i) PROVE SafetyInv'
<1> DEFINE a == ck.attempt
           decision == CompletionDecision(row[a], ck.gen, TRUE, "collection", {ck.outcome})
<1>1. owner = Nobody /\ run = "active" /\ ck.node = "settle" /\ UNCHANGED outside /\ Quiet
  BY StayingIsQuiet DEF SettleRecover, Takes
<1>2. /\ ck \in Checkpoint /\ Staged(ck) /\ a \in Attempts /\ row[a] \in RowOf(Versions)
      /\ Grounded(ck, row[a], ext[a], objs[a], indexed[a])
      /\ objs[a] \in BOOLEAN /\ indexed[a] \in BOOLEAN
  BY GraphFacts DEF SpineInv, OutsideOK
<1>3. decision = "effect" => row[a].status \in ActiveStatus
  BY <1>2 DEF CompletionDecision, RowOf
<1>4. decision = "recover" => row[a].status = ck.outcome /\ row[a].kind = "collection"
  BY DEF CompletionDecision
<1>5. \/ decision = "effect" /\ Enter(i, "settle.call", ck)
      \/ decision = "recover" /\ Enter(i, "commit", Settled(ck))
      \/ UNCHANGED <<ck, owner, wk>>
  BY DEF SettleRecover
<1> HIDE DEF decision
<1>6. CASE decision = "effect" /\ Enter(i, "settle.call", ck)
  <2>1. row'[a].status \in ActiveStatus
    BY <1>1, <1>3, <1>6 DEF outside
  <2>2. Ready([pc |-> "settle.call", ck |-> ck], row'[a], ext'[a], objs'[a], indexed'[a])
    BY <2>1 DEF Ready
  <2> QED
    BY <1>1, <1>6, <2>2, EnterSafe
<1>7. CASE decision = "recover" /\ Enter(i, "commit", Settled(ck))
  <2>1. Grounded(Settled(ck), row[a], ext[a], objs[a], indexed[a])
    BY <1>1, <1>2, <1>4, <1>7, CollectionUpdatesAreGrounded
  <2>2. Fits(Settled(ck))
    BY <1>2, <2>1, SameAttempt DEF Fits
  <2> QED
    BY <1>1, <1>7, <2>2, EnterFitting
<1>8. CASE UNCHANGED <<ck, owner, wk>>
  BY <1>1, <1>8, RefuseSafe
<1> QED
  BY <1>5, <1>6, <1>7, <1>8

\* The teardown before the settlement.
LEMMA SettleCallSafe ==
    ASSUME SafetyInv, SpineInv, NEW i \in Workers, SettleCall(i) PROVE SafetyInv'
<1> DEFINE a == ck.attempt
<1>1. wk[i].pc = "settle.call" /\ wk[i].pc \notin {"idle", "commit"}
  BY DEF SettleCall, At
<1>2. wk[i].ck = ck /\ a \in Attempts /\ ck.node = "settle" /\ row[a].status \in ActiveStatus
  BY <1>1, InsideFacts DEF InPlace, Ready
<1>3. Fits(RetrySettle(ck))
  BY <1>2, RetriesFit
<1>4. \/ SetRun(a, ext[a].phase, TRUE) /\ Goto(i, "settle.record")
      \/ /\ Return(i, RetrySettle(ck))
         /\ UNCHANGED outside \/ SetRun(a, ext[a].phase, TRUE)
  BY <1>2 DEF SettleCall
<1>5. CASE SetRun(a, ext[a].phase, TRUE) /\ Goto(i, "settle.record")
  <2>1. Quiet /\ ext'[a].torn = TRUE
    <3>1. PICK p : p = ext[a].phase
      OBVIOUS
    <3>2. SetRun(a, p, TRUE)
      BY <1>5, <3>1
    <3>3. a \in Attempts
      BY <1>2
    <3> QED
      BY <3>1, <3>2, <3>3, SetRunIsQuiet
  <2>2. row'[a].status \in ActiveStatus
    BY <1>2, <1>5 DEF SetRun
  <2>3. Ready([pc |-> "settle.record", ck |-> ck], row'[a], ext'[a], objs'[a], indexed'[a])
    BY <2>1, <2>2 DEF Ready
  <2> QED
    BY <1>1, <1>2, <1>5, <2>1, <2>3, GotoSafe
<1>6. CASE /\ Return(i, RetrySettle(ck))
           /\ UNCHANGED outside \/ SetRun(a, ext[a].phase, TRUE)
  <2>1. Quiet
    BY <1>2, <1>6, StayingIsQuiet, SetRunIsQuiet
  <2> QED
    BY <1>1, <1>3, <1>6, <2>1, ReturnFitting
<1> QED
  BY <1>4, <1>5, <1>6

\* The settlement: its witness is of an indexed batch and a released run, and the
\* row now says the outcome the entry was judged by.
LEMMA SettleRecordSafe ==
    ASSUME SafetyInv, SpineInv, NEW i \in Workers, SettleRecord(i) PROVE SafetyInv'
<1> DEFINE a == ck.attempt
           w == Write(ck.outcome, TRUE, TRUE, ck.gen, TRUE, "collection")
           r == Upsert(row[a], w)
<1>1. wk[i].pc = "settle.record" /\ wk[i].pc \notin {"idle", "commit"}
  BY DEF SettleRecord, At
<1>2. /\ wk[i].ck = ck /\ a \in Attempts /\ ck.node = "settle" /\ ck.gen \in Versions
      /\ row[a] \in RowOf(Versions) /\ row[a].status \in ActiveStatus /\ ext[a].torn
  BY <1>1, InsideFacts DEF InPlace, Ready
<1>3. /\ ck \in Checkpoint /\ Staged(ck)
      /\ Grounded(ck, row[a], ext[a], objs[a], indexed[a])
      /\ objs[a] \in BOOLEAN /\ indexed[a] \in BOOLEAN
  BY GraphFacts
<1>4. ext[a].phase \in TerminalStatus /\ indexed[a] /\ ck.outcome \in TerminalStatus
  BY <1>2, <1>3 DEF Grounded, Staged
<1>5. objs[a]
  BY <1>2, <1>4 DEF SafetyInv, Solid, IndexedObjectsSurvive
<1>6. w \in WriteOf(Versions) /\ w.kind = "collection" /\ w.status = ck.outcome
  BY <1>2, <1>4, WriteNames, WriteType DEF Write
<1>7. RecordOrRaise(i, w, Settled(ck))
  BY <1>2 DEF SettleRecord
<1> HIDE DEF w
<1>8. r.status = ck.outcome /\ r.kind = "collection"
  BY <1>2, <1>4, <1>6, UpsertSettles
<1>9. ASSUME TransitionAllowed(row[a], w)
      PROVE  Grounded(Settled(ck), r, ext[a], objs[a], indexed[a])
  <2>1. Grounded(ck, r, ext[a], objs[a], indexed[a])
    BY <1>2, <1>3, <1>6, <1>9, UpsertMatures, GroundedMatures DEF Late
  <2> HIDE DEF r
  <2> QED
    BY <1>2, <1>3, <1>8, <2>1, CollectionUpdatesAreGrounded
<1>10. Settled(ck).attempt = ck.attempt
  BY <1>3, SameAttempt
<1> QED
  BY <1>1, <1>2, <1>4, <1>5, <1>6, <1>7, <1>9, <1>10, RecordOrRaiseSafe

\* A commit makes the worker's entry the graph's, for the worker is the run's, so
\* its entry was computed from the checkpoint it replaces; or the run was cancelled.
LEMMA CommitSafe ==
    ASSUME SafetyInv, SpineInv, NEW i \in Workers, Commit(i) PROVE SafetyInv'
<1>1. /\ wk[i].pc = "commit" /\ wk[i].pc # "idle"
      /\ wk' = [wk EXCEPT ![i] = Idle] /\ UNCHANGED outside
  BY DEF Commit, At
<1>2. Solid'
  BY <1>1, StayingIsQuiet, QuietKeeps
<1>3. CASE owner = i
  <2>1. ck' = wk[i].ck
    BY <1>3 DEF Commit
  <2>2. Grounded(wk[i].ck, row[wk[i].ck.attempt], ext[wk[i].ck.attempt],
                 objs[wk[i].ck.attempt], indexed[wk[i].ck.attempt])
    BY <1>1 DEF SafetyInv, ReadyAt, Ready
  <2>3. GroundedAt(ck)'
    BY <1>1, <2>1, <2>2 DEF GroundedAt, outside
  <2> QED
    BY <1>1, <1>2, <2>3, IdleSafe
<1>4. CASE owner # i
  <2>1. GroundedAt(ck)'
    BY <1>1, <1>4, StayingIsQuiet, GraphStaysGrounded DEF Commit
  <2> QED
    BY <1>1, <1>2, <2>1, IdleSafe
<1> QED
  BY <1>3, <1>4

\* A crash leaves the committed checkpoint and everything outside.
LEMMA CrashSafe ==
    ASSUME SafetyInv, SpineInv, NEW i \in Workers, Crash(i) PROVE SafetyInv'
<1>1. wk[i].pc # "idle" /\ UNCHANGED <<ck, outside>> /\ wk' = [wk EXCEPT ![i] = Idle]
  BY DEF Crash
<1>2. Solid' /\ GroundedAt(ck)'
  BY <1>1, StayingIsQuiet, GraphStaysGrounded
<1> QED
  BY <1>1, <1>2, IdleSafe

-----------------------------------------------------------------------------
(* The provider, the administrator, and the theorems.                      *)

\* A run that ends by itself, or was told to, while a worker may be inside a node.
LEMMA ProviderEndsSafe ==
    ASSUME SafetyInv, SpineInv, NEW a \in Attempts, ProviderEnds(a) PROVE SafetyInv'
<1>1. PICK p \in TerminalStatus : SetRun(a, p, ext[a].torn)
  BY DEF ProviderEnds
<1>2. Quiet
  <2>1. PICK t : t = ext[a].torn
    OBVIOUS
  <2> QED
    BY <1>1, <2>1, SetRunIsQuiet
<1> QED
  BY <1>1, <1>2, QuietStep DEF ProviderEnds, SetRun, worker

\* The connection's administrator.
LEMMA AdministratorSafe ==
    ASSUME SafetyInv, SpineInv, Administrator PROVE SafetyInv'
<1>1. UNCHANGED <<ck, worker, row, ext, objs, indexed>>
  BY DEF Administrator, ToggleConnection, PatchConnection
<1>2. Quiet
  BY <1>1 DEF SafetyInv, Solid, Quiet, WitnessIsTruthful
<1> QED
  BY <1>1, <1>2, QuietStep DEF worker

\* Nothing happened yet.
LEMMA InitIsSafe == ASSUME Untouched PROVE SafetyInv
<1>1. 1 \in Attempts
  BY EngineAssumption DEF Attempts
<1>2. Solid
  BY DEF Untouched, Solid, WitnessIsTruthful, IndexedObjectsSurvive, IndexedIsLate, NoRow
<1>3. GroundedAt(ck)
  BY FreshIsGrounded DEF Untouched, GroundedAt
<1>4. \A i \in Workers : wk[i].pc = "idle"
  BY DEF Untouched, Idle
<1>5. Exclusive /\ \A i \in Workers : ReadyAt(wk[i])
  BY <1>4 DEF Exclusive, ReadyAt, Ready
<1> QED
  BY <1>2, <1>3, <1>5 DEF SafetyInv

\* Every step of the spine keeps the invariant.
LEMMA StepSafe ==
    ASSUME SafetyInv, SpineInv, [EngineNext]_engineVars PROVE SafetyInv'
<1>1. ASSUME NEW i \in Workers, WorkerStep(i) PROVE SafetyInv'
  BY <1>1, ProvisionResolveSafe, ProvisionPrepareSafe, ProvisionCallSafe,
     ProvisionRejectSafe, ProvisionRecordSafe, StartPrepareSafe, StartCallSafe,
     StartRejectSafe, StartRecordSafe, CleanupRecoverSafe, CleanupCallSafe,
     CleanupRecordSafe, CollectReserveSafe, CollectCallSafe, IndexSafe,
     SettleRecoverSafe, SettleCallSafe, SettleRecordSafe, CommitSafe
  DEF WorkerStep
<1>2. ASSUME NEW i \in Workers, Crash(i) PROVE SafetyInv'
  BY <1>2, CrashSafe
<1>3. CASE NodeStep
  BY <1>3, NodeStepSafe
<1>4. CASE Stop
  BY <1>4, RefuseSafe DEF Stop
<1>5. CASE Operator
  BY <1>5, OperatorSafe
<1>6. CASE Administrator
  BY <1>6, AdministratorSafe
<1>7. ASSUME NEW a \in Attempts, ProviderEnds(a) PROVE SafetyInv'
  BY <1>7, ProviderEndsSafe
<1>8. CASE UNCHANGED engineVars
  <2>1. UNCHANGED outside /\ UNCHANGED <<ck, wk, run, owner, row>>
    BY <1>8 DEF engineVars, outside
  <2> QED
    BY <2>1, StayingIsQuiet, QuietStep
<1> QED
  BY <1>1, <1>2, <1>3, <1>4, <1>5, <1>6, <1>7, <1>8 DEF EngineNext

\* One worker at a time is inside a node, and what the checkpoint, the workers,
\* the rows and the store say of each other is so at every step.
THEOREM SpineIsSafe == EngineSpec => [](SpineInv /\ SafetyInv)
<1>1. EngineInit => SpineInv /\ SafetyInv
  BY InitIsGood, InitIsSafe DEF EngineInit
<1>2. SpineInv /\ SafetyInv /\ [EngineNext]_engineVars => (SpineInv /\ SafetyInv)'
  BY StepKeeps, StepSafe
<1> QED
  BY <1>1, <1>2, PTL DEF EngineSpec

\* In the spine by itself no run is cancelled: who is inside a node owns the run.
Attended == \A i \in Workers : wk[i].pc # "idle" => owner = i /\ run = "active"

\* What a worker's step does to the graph run and to the workers.
StepShape(i) ==
    \/ owner = Nobody /\ run = "active" /\ \E pc, c : Enter(i, pc, c)
    \/ wk[i].pc # "idle" /\ ((\E pc : Goto(i, pc)) \/ (\E c : Return(i, c)) \/ Raise(i))
    \/ owner = Nobody /\ UNCHANGED <<owner, wk>>
    \/ Commit(i)

\* Every step of a worker is an entry, a move inside the node, or a commit.
LEMMA WorkerStepShape ==
    ASSUME NEW i \in Workers, WorkerStep(i) PROVE StepShape(i)
<1>1. CASE \/ ProvisionResolve(i) \/ StartPrepare(i) \/ CleanupRecover(i)
           \/ CollectReserve(i) \/ Index(i) \/ SettleRecover(i)
  BY <1>1 DEF ProvisionResolve, StartPrepare, CleanupRecover, CollectReserve, Index,
              SettleRecover, Takes, StepShape
<1>2. CASE \/ ProvisionPrepare(i) \/ ProvisionCall(i) \/ ProvisionRecord(i)
           \/ StartCall(i) \/ CleanupCall(i) \/ CollectCall(i) \/ SettleCall(i)
  BY <1>2 DEF ProvisionPrepare, ProvisionCall, ProvisionRecord, StartCall, CleanupCall,
              CollectCall, SettleCall, At, StepShape
<1>3. CASE \/ ProvisionReject(i) \/ StartReject(i) \/ StartRecord(i)
           \/ CleanupRecord(i) \/ SettleRecord(i)
  BY <1>3 DEF ProvisionReject, StartReject, StartRecord, CleanupRecord, SettleRecord,
              RecordOrRaise, At, StepShape
<1> QED
  BY <1>1, <1>2, <1>3 DEF WorkerStep, StepShape

\* Only the worker that owns the run enters a node, and it leaves before it lets go.
LEMMA AttendedStep ==
    ASSUME SpineInv, Attended, [EngineNext]_engineVars PROVE Attended'
<1>1. WorkersOK /\ DOMAIN wk = Workers
  BY DEF SpineInv, WorkersOK
<1>2. ASSUME NEW i \in Workers, WorkerStep(i) PROVE Attended'
  <2>1. StepShape(i)
    BY <1>2, WorkerStepShape
  <2>2. CASE owner = Nobody /\ run = "active" /\ \E pc, c : Enter(i, pc, c)
    BY <1>1, <2>2, EngineAssumption DEF Enter, Attended
  <2>3. CASE wk[i].pc # "idle"
             /\ ((\E pc : Goto(i, pc)) \/ (\E c : Return(i, c)) \/ Raise(i))
    BY <1>1, <2>3 DEF Goto, Return, Raise, Idle, Attended
  <2>4. CASE owner = Nobody /\ UNCHANGED <<owner, wk>>
    BY <2>4, EngineAssumption DEF Attended
  <2>5. CASE Commit(i)
    BY <1>1, <2>5 DEF Commit, At, Idle, Attended
  <2> QED
    BY <2>1, <2>2, <2>3, <2>4, <2>5 DEF StepShape
<1>3. ASSUME NEW i \in Workers, Crash(i) PROVE Attended'
  BY <1>1, <1>3 DEF Crash, Idle, Attended
<1>4. CASE NodeStep \/ Stop
  BY <1>4, EngineAssumption
  DEF NodeStep, Prepare, Reserve, StageAffinity, InitialStatus, Poll, PollTimeout, StageStore,
      OpenOutputGate, Finalize, Executes, Checkpoints, Stop, Attended
<1>5. CASE Operator
  BY <1>5 DEF Operator, DecidePrompt, DecideOutput, ResumeBlocked, Rerun, Restart, Continue,
              Checkpoints, Attended
<1>6. CASE Administrator \/ (\E a \in Attempts : ProviderEnds(a)) \/ UNCHANGED engineVars
  BY <1>6 DEF Administrator, ToggleConnection, PatchConnection, ProviderEnds, worker,
              engineVars, Attended
<1> QED
  BY <1>2, <1>3, <1>4, <1>5, <1>6 DEF EngineNext

\* Exclusivity: of the workers that may execute the thread's graph at most one is
\* inside a node, whatever crashed or was restarted before; it owns the run, and
\* works on the committed checkpoint.
THEOREM OneWorkerInside == EngineSpec => [](Exclusive /\ Attended)
<1>1. EngineInit => Attended
  BY DEF EngineInit, Untouched, Idle, Attended
<1>2. SpineInv /\ Attended /\ [EngineNext]_engineVars => Attended'
  BY AttendedStep
<1>3. SafetyInv => Exclusive
  BY DEF SafetyInv
<1> QED
  BY <1>1, <1>2, <1>3, SpineIsSafe, PTL DEF EngineSpec

\* The completion witnesses engine_collection_settle and engine_cleanup replay
\* from are only in rows whose effects are done.
THEOREM WitnessesAreTruthful == EngineSpec => []WitnessIsTruthful
<1>1. SafetyInv => WitnessIsTruthful
  BY DEF SafetyInv, Solid
<1> QED
  BY <1>1, SpineIsSafe, PTL

\* No committed artifact index ever names bytes that a failed collection deleted.
THEOREM IndexedObjectsAreKept == EngineSpec => []IndexedObjectsSurvive
<1>1. SafetyInv => IndexedObjectsSurvive
  BY DEF SafetyInv, Solid
<1> QED
  BY <1>1, SpineIsSafe, PTL

\* What finalize calls succeeded was collected, indexed and settled as completed.
THEOREM SuccessIsCollected == EngineSpec => []SucceededMeansCollected
<1>1. SafetyInv => SucceededMeansCollected
  BY DEF SafetyInv, GroundedAt, Grounded, MaySucceed, SucceededMeansCollected
<1> QED
  BY <1>1, SpineIsSafe, PTL

-----------------------------------------------------------------------------
(***************************************************************************)
(*                  Part two: the load and the contract                    *)
(***************************************************************************)

-----------------------------------------------------------------------------
(* The inductive invariant, on top of SpineInv and SafetyInv.              *)

\* The nodes before a reservation, of a kill, and after the completion.
BeforeRun == {"prepare", "prompt_gate", "reserve"}
KillNode  == {"cleanup", "cleanup_blocked"}
AfterRun  == {"open_output_gate", "output_gate", "finalize", "end"}

\* Does a row name the attempt's run, or say how it ended?
Named(r) == r.status # "absent" /\ (r.handle \/ r.status \in TerminalStatus)

\* A row that a run started anew on the attempt gave up, over a live run, because a
\* PATCH had moved the connection.
GivenUp(r) == Restarts /\ r.status = "failed" /\ r.version < conn.version

\* What one attempt's row r says of its run x.  A live run is reserved, unless it
\* was given up; the connection still has the values an active row was reserved on.
Secured(r, x) ==
    /\ r.status \in ActiveStatus => r.lease
    /\ r.status = "absent" => x.phase = "none" /\ ~r.handle
    /\ r.handle => r.status # "provisioning"
    /\ x.phase \in LiveRun => (r.status \in ActiveStatus /\ r.handle) \/ GivenUp(r)
    /\ r.status \in ActiveStatus => Unaltered(conn, r.version)

\* An entry c that pinned the connection pinned a generation between an active row's
\* and the connection's.
Pinned(c, r) ==
    c.gen # 0 /\ r.status \in ActiveStatus => r.version <= c.gen /\ c.gen <= conn.version

\* What the node of an entry c says of its attempt: where load may be live, that
\* the kill intent is set on the nodes of a kill, when a row is absent, active
\* or over, and that a run that is over before its handle is known is released.
Tidy(c, r, x) ==
    /\ x.phase \in LiveRun => c.node \in {"start", "status", "poll"} \cup KillNode
    /\ "cleanup" \in c.marks => c.node \in KillNode
    /\ c.node \in KillNode => "cleanup" \in c.marks
    /\ c.node \in BeforeRun => r.status = "absent"
    /\ c.node \in AfterRun => r.status \notin ActiveStatus /\ (r.handle => x.torn)
    /\ c.node \in {"provision", "provision_blocked"} /\ x.phase \in TerminalStatus
         => x.torn \/ r.handle \/ r.status \in TerminalStatus
    /\ c.node \in {"provision", "provision_blocked"} /\ r.handle => r.status \in ActiveStatus
    /\ "index" \in c.marks => r.status \in ActiveStatus

Agrees(c, r, x) ==
    /\ Pinned(c, r)
    /\ ~Restarts => Tidy(c, r, x)

\* What a worker w between two effects of a node has seen to.
Holds(w, r, x) ==
    /\ w.pc \in {"provision.call", "provision.record", "cleanup.call", "cleanup.record"}
         => r.status # "absent"
    /\ w.pc = "provision.call" => r.status = "provisioning" /\ ~r.handle
    /\ w.pc \in {"start.call", "start.record"}
         => r.status \in ActiveStatus /\ r.handle /\ r.version = w.ck.gen
    /\ w.pc = "collect.call" => r.status \in ActiveStatus
    /\ w.pc = "start.reject" => x.phase \in TerminalStatus /\ x.torn
    /\ w.pc \in {"provision.call", "provision.record"} => x.phase \notin LiveRun
    /\ w.pc = "provision.reject" /\ x.phase \in LiveRun /\ r.status \in ActiveStatus =>
         Restarts /\ r.version < conn.version

\* What an update c that waits for its commit does to the entry e: it stays with
\* the attempt, agrees with the row and the run, and drops a kill intent only
\* when the run is over, released, and settled.
Succeeds(c, e, r, x) ==
    /\ c.attempt = e.attempt /\ c.node # "end"
    /\ Agrees(c, r, x)
    /\ "cleanup" \in e.marks /\ "cleanup" \notin c.marks /\ ~Restarts =>
         x.phase \in TerminalStatus /\ x.torn /\ r.status \in TerminalStatus

WorkerAgrees(w, e, r, x) ==
    Holds(w, r, x) /\ (w.pc = "commit" => Succeeds(w.ck, e, r, x))

\* Attempts to come are untouched, and attempts of the past have let go.
Alone ==
    \A a \in Attempts :
        /\ a > ck.attempt => row[a].status = "absent"
        /\ a < ck.attempt => row[a].status \notin ActiveStatus /\ (row[a].handle => ext[a].torn)
        /\ a # ck.attempt => ext[a].phase \notin LiveRun

LoadInv ==
    /\ run = "active" => ck.node \notin InterruptNode \cup {"end"}
    /\ \A a \in Attempts : Secured(row[a], ext[a])
    /\ Agrees(ck, row[ck.attempt], ext[ck.attempt])
    /\ \A i \in Workers : WorkerAgrees(wk[i], ck, row[ck.attempt], ext[ck.attempt])
    /\ ~Restarts => Alone

-----------------------------------------------------------------------------
(* The steps.                                                              *)

\* A step of the contract, or none.
ContractStep == [Contract!ContractNext]_(Contract!contractVars)

\* The steps of the action properties KillIntentHeldUntilConfirmed and
\* TeardownNeverLosesResults.
KillStep ==
    "cleanup" \in ck.marks /\ "cleanup" \notin ck'.marks =>
        /\ ext[ck.attempt].phase \in TerminalStatus /\ ext[ck.attempt].torn
        /\ row[ck.attempt].status \in TerminalStatus

TeardownStep ==
    \A a \in Attempts :
        ~ext[a].torn /\ ext'[a].torn =>
            \/ indexed[a] /\ objs[a]
            \/ a = ck.attempt /\ "cleanup" \in ck.marks
            \/ ext[a].phase \notin TerminalStatus /\ ext'[a].phase = "aborted"
            \/ a < ck.attempt /\ ~row[a].handle

Lawful == LoadInv' /\ (~Restarts => ContractStep /\ KillStep /\ TeardownStep)

\* Worker i moves to w and leaves the checkpoint alone, with the others idle.
Moves(i, w) ==
    /\ wk' = [wk EXCEPT ![i] = w] /\ ck' = ck
    /\ run' = "active" => run = "active"
    /\ \A j \in Workers \ {i} : wk[j].pc = "idle"

-----------------------------------------------------------------------------
(* Steps of the contract.                                                  *)

\* A step that leaves everything alone the contract speaks of.
LEMMA ContractStutters ==
    ASSUME ck'.attempt = ck.attempt, Verdict(ck)' = Verdict(ck), UNCHANGED <<row, ext>>,
           \A a \in Attempts : (indexed'[a] /\ objs'[a]) = (indexed[a] /\ objs[a])
    PROVE  ContractStep
  BY DEF ContractStep, Contract!contractVars

\* The row of the open attempt is reserved before it is used, or released when
\* no load is live.
LEMMA ContractByRow ==
    ASSUME SpineInv, NEW a \in Attempts, a = ck.attempt, ck.node # "end", ck' = ck, NEW r,
           SetRow(a, r),
           \/ HoldsLease(r) = HoldsLease(row[a])
           \/ ~HoldsLease(r) /\ ext[a].phase \notin LiveRun
           \/ HoldsLease(r) /\ ext[a].phase = "none"
    PROVE  ContractStep
<1> DEFINE held == [b \in Attempts |-> HoldsLease(row[b])]
           load == [b \in Attempts |-> Load(ext[b].phase)]
<1>1. /\ row' = [row EXCEPT ![a] = r] /\ UNCHANGED <<ext, objs, indexed>>
      /\ \A b \in Attempts : row'[b] = IF b = a THEN r ELSE row[b]
  BY DEF SetRow, SpineInv, OutsideOK
<1>2. Verdict(ck)' = Verdict(ck) /\ Contract!Open(a)
  BY DEF Contract!Open, Verdict
<1>3. UNCHANGED load /\ \A b \in Attempts : UNCHANGED (indexed[b] /\ objs[b])
  BY <1>1
<1>4. CASE HoldsLease(r) = HoldsLease(row[a])
  <2>1. UNCHANGED held
    BY <1>1, <1>4
  <2> QED
    BY <1>1, <1>2, <2>1 DEF ContractStep, Contract!contractVars
<1>5. CASE ~HoldsLease(r) /\ ext[a].phase \notin LiveRun
  <2>1. held' = [held EXCEPT ![a] = FALSE]
    <3>1. \A b \in Attempts :
            HoldsLease(row'[b]) = IF b = a THEN FALSE ELSE HoldsLease(row[b])
      BY <1>1, <1>5 DEF HoldsLease
    <3> QED
      BY <3>1
  <2>2. load[a] # "live"
    BY <1>5 DEF Load
  <2>3. Contract!Release(a)
    BY <1>1, <1>2, <2>1, <2>2 DEF Contract!Release
  <2> QED
    BY <2>3 DEF ContractStep, Contract!ContractNext
<1>6. CASE HoldsLease(r) /\ ext[a].phase = "none"
  <2>1. held' = [held EXCEPT ![a] = TRUE]
    <3>1. \A b \in Attempts :
            HoldsLease(row'[b]) = IF b = a THEN TRUE ELSE HoldsLease(row[b])
      BY <1>1, <1>6 DEF HoldsLease
    <3> QED
      BY <3>1
  <2>2. load[a] = "unused"
    BY <1>6 DEF Load, LiveRun, TerminalStatus
  <2>3. Contract!Hold(a)
    BY <1>1, <1>2, <2>1, <2>2 DEF Contract!Hold
  <2> QED
    BY <2>3 DEF ContractStep, Contract!ContractNext
<1> QED
  BY <1>4, <1>5, <1>6

\* Any attempt's run may end; the open attempt's may begin under its reservation.
LEMMA ContractByRun ==
    ASSUME SpineInv, NEW a \in Attempts, ck' = ck, NEW p \in RunPhase, NEW torn,
           SetRun(a, p, torn),
           \/ Load(p) = Load(ext[a].phase)
           \/ p \in TerminalStatus
           \/ /\ a = ck.attempt /\ ck.node # "end" /\ HoldsLease(row[a])
              /\ p \in LiveRun /\ ext[a].phase \notin LiveRun \cup TerminalStatus
    PROVE  ContractStep
<1> DEFINE load == [b \in Attempts |-> Load(ext[b].phase)]
           held == [b \in Attempts |-> HoldsLease(row[b])]
<1>1. /\ UNCHANGED <<row, objs, indexed>>
      /\ \A b \in Attempts : ext'[b] = IF b = a THEN [phase |-> p, torn |-> torn] ELSE ext[b]
  BY DEF SetRun, SpineInv, OutsideOK
<1>2. UNCHANGED held /\ Verdict(ck)' = Verdict(ck)
  BY <1>1 DEF Verdict
<1>3. load' = [load EXCEPT ![a] = Load(p)]
  <2>1. \A b \in Attempts :
          Load(ext'[b].phase) = IF b = a THEN Load(p) ELSE Load(ext[b].phase)
    BY <1>1
  <2> QED
    BY <2>1
<1>4. CASE Load(p) = Load(ext[a].phase)
  <2>1. UNCHANGED load
    BY <1>3, <1>4
  <2> QED
    BY <1>1, <1>2, <2>1 DEF ContractStep, Contract!contractVars
<1>5. CASE p \in TerminalStatus /\ Load(ext[a].phase) # "over"
  <2>1. load' = [load EXCEPT ![a] = "over"]
    BY <1>3, <1>5 DEF Load, LiveRun, TerminalStatus
  <2>2. Contract!Over(a)
    BY <1>1, <1>2, <1>5, <2>1 DEF Contract!Over
  <2> QED
    BY <2>2 DEF ContractStep, Contract!ContractNext
<1>6. CASE /\ a = ck.attempt /\ ck.node # "end" /\ HoldsLease(row[a])
           /\ p \in LiveRun /\ ext[a].phase \notin LiveRun \cup TerminalStatus
  <2>1. Load(p) = "live" /\ Load(ext[a].phase) = "unused"
    BY <1>6 DEF Load, LiveRun, TerminalStatus
  <2>2. load' = [load EXCEPT ![a] = "live"] /\ load[a] = "unused" /\ held[a]
    BY <1>3, <1>6, <2>1
  <2>3. Contract!Open(a)
    BY <1>6 DEF Contract!Open, Verdict
  <2>4. Contract!Begin(a)
    BY <1>1, <1>2, <2>2, <2>3 DEF Contract!Begin
  <2> QED
    BY <2>4 DEF ContractStep, Contract!ContractNext
<1>7. p \in TerminalStatus => Load(p) = "over"
  BY DEF Load, LiveRun, TerminalStatus
<1> QED
  BY <1>4, <1>5, <1>6, <1>7

\* The results of the open attempt are kept when its load is over.
LEMMA ContractByIndex ==
    ASSUME SpineInv, NEW a \in Attempts, a = ck.attempt, ck.node # "end", ck' = ck,
           UNCHANGED <<row, ext, objs>>, NEW n \in BOOLEAN,
           indexed' = [indexed EXCEPT ![a] = n], indexed[a] => n, objs[a] = TRUE,
           HoldsLease(row[a]), ext[a].phase \in TerminalStatus
    PROVE  ContractStep
<1> DEFINE kept == [b \in Attempts |-> indexed[b] /\ objs[b]]
           load == [b \in Attempts |-> Load(ext[b].phase)]
           held == [b \in Attempts |-> HoldsLease(row[b])]
<1>1. Verdict(ck)' = Verdict(ck) /\ UNCHANGED <<load, held>> /\ ck'.attempt = ck.attempt
  BY DEF Verdict
<1>2. \A b \in Attempts : indexed'[b] = IF b = a THEN n ELSE indexed[b]
  BY DEF SpineInv, OutsideOK
<1>3. CASE n = indexed[a]
  <2>1. \A b \in Attempts : (indexed'[b] /\ objs'[b]) = (indexed[b] /\ objs[b])
    BY <1>2, <1>3
  <2> QED
    BY <1>1, <2>1, ContractStutters
<1>4. CASE n = TRUE
  <2>1. kept' = [kept EXCEPT ![a] = TRUE]
    <3>1. \A b \in Attempts :
            (indexed'[b] /\ objs'[b]) = IF b = a THEN TRUE ELSE (indexed[b] /\ objs[b])
      BY <1>2, <1>4
    <3> QED
      BY <3>1
  <2>2. held[a] /\ load[a] = "over" /\ Contract!Open(a)
    BY DEF Load, LiveRun, TerminalStatus, Contract!Open, Verdict
  <2>3. Contract!Keep(a)
    BY <1>1, <2>1, <2>2 DEF Contract!Keep
  <2> QED
    BY <2>3 DEF ContractStep, Contract!ContractNext
<1>5. indexed[a] \in BOOLEAN
  BY DEF SpineInv, OutsideOK
<1> QED
  BY <1>3, <1>4, <1>5

\* An attempt without a reservation and without live load is finished.
LEMMA ContractByFinish ==
    ASSUME SpineInv, ck.node # "end", ck'.node = "end", ck'.attempt = ck.attempt,
           UNCHANGED outside, ~HoldsLease(row[ck.attempt]),
           ext[ck.attempt].phase \notin LiveRun,
           ck'.status = "succeeded" => indexed[ck.attempt] /\ objs[ck.attempt]
    PROVE  ContractStep
<1>1. Verdict(ck) = "open" /\ Verdict(ck)' = IF ck'.status = "succeeded" THEN "success" ELSE "other"
  BY DEF Verdict
<1>2. ck.attempt \in Attempts
  BY DEF SpineInv, GraphOK, Good, Checkpoint
<1>3. Load(ext[ck.attempt].phase) # "live"
  BY DEF Load
<1>4. Contract!Finish
  BY <1>1, <1>2, <1>3 DEF Contract!Finish, outside
<1> QED
  BY <1>4 DEF ContractStep, Contract!ContractNext

\* The next attempt follows a finished one.
LEMMA ContractByAgain ==
    ASSUME ck.node = "end", ck'.node # "end", ck'.attempt = ck.attempt + 1,
           ck'.attempt \in Attempts, UNCHANGED outside
    PROVE  ContractStep
<1>1. Contract!Again
  BY DEF Contract!Again, Verdict, outside
<1> QED
  BY <1>1 DEF ContractStep, Contract!ContractNext

-----------------------------------------------------------------------------
(* What a step does to the invariant.                                      *)

\* An idle worker has nothing to see to.
LEMMA IdleAgrees ==
    ASSUME NEW w, w.pc = "idle" PROVE \A e, r, x : WorkerAgrees(w, e, r, x)
  BY DEF WorkerAgrees, Holds

\* A worker moves, with effects on the open attempt only.
LEMMA LoneMove ==
    ASSUME LoadInv, SpineInv, NEW i \in Workers, NEW w, Moves(i, w), conn' = conn,
           \A b \in Attempts \ {ck.attempt} : row'[b] = row[b] /\ ext'[b] = ext[b],
           Secured(row'[ck.attempt], ext'[ck.attempt]),
           Agrees(ck, row'[ck.attempt], ext'[ck.attempt]),
           WorkerAgrees(w, ck, row'[ck.attempt], ext'[ck.attempt])
    PROVE  LoadInv'
<1>1. ck' = ck /\ ck.attempt \in Attempts
  BY DEF Moves, SpineInv, GraphOK, Good, Checkpoint
<1>2. run' = "active" => ck'.node \notin InterruptNode \cup {"end"}
  BY DEF Moves, LoadInv
<1>3. \A b \in Attempts : Secured(row[b], ext[b])'
  <2>1. ASSUME NEW b \in Attempts, b # ck.attempt PROVE Secured(row[b], ext[b])'
    <3>1. row'[b] = row[b] /\ ext'[b] = ext[b] /\ Secured(row[b], ext[b])
      BY <2>1 DEF LoadInv
    <3> QED
      BY <3>1 DEF Secured, GivenUp
  <2>2. Secured(row[ck.attempt], ext[ck.attempt])'
    BY <1>1 DEF Secured, GivenUp
  <2> QED
    BY <1>1, <2>1, <2>2
<1>4. Agrees(ck, row[ck.attempt], ext[ck.attempt])'
  BY <1>1 DEF Agrees, Pinned, Tidy
<1>5. \A j \in Workers : WorkerAgrees(wk[j], ck, row[ck.attempt], ext[ck.attempt])'
  <2>1. wk'[i] = w /\ \A j \in Workers \ {i} : wk'[j].pc = "idle"
    BY DEF Moves, SpineInv, WorkersOK
  <2>2. ASSUME NEW j \in Workers, j # i
        PROVE  WorkerAgrees(wk[j], ck, row[ck.attempt], ext[ck.attempt])'
    <3>1. wk'[j].pc = "idle"
      BY <2>1, <2>2
    <3> QED
      BY <3>1, IdleAgrees DEF WorkerAgrees, Holds
  <2>3. WorkerAgrees(wk[i], ck, row[ck.attempt], ext[ck.attempt])'
    BY <1>1, <2>1 DEF WorkerAgrees, Holds, Succeeds, Agrees, Pinned, Tidy
  <2> QED
    BY <2>2, <2>3
<1>6. ~Restarts => Alone'
  <2>1. \A b \in Attempts : ~(b > b)
    BY EngineAssumption DEF Attempts
  <2> QED
    BY <1>1, <2>1 DEF LoadInv, Alone
<1> QED
  BY <1>2, <1>3, <1>4, <1>5, <1>6 DEF LoadInv

\* The generations of the connection, of rows and of entries are numbers.
LEMMA Generations ==
    ASSUME SpineInv
    PROVE  /\ conn \in ConnectionOf(Versions \ {0}) /\ Versions \subseteq Nat
           /\ conn.version \in Nat /\ conn.since \in Nat /\ conn.since <= conn.version
           /\ conn.enabled \in BOOLEAN
           /\ \A a \in Attempts : row[a].version \in Nat
           /\ ck.gen \in Nat
           /\ \A i \in Workers : wk[i].ck.gen \in Nat
<1>1. Versions \subseteq Nat
  BY EngineAssumption DEF Versions
<1>2. conn \in ConnectionOf(Versions \ {0})
  BY DEF SpineInv, OutsideOK
<1>3. /\ conn.version \in Versions /\ conn.since \in Versions /\ conn.since <= conn.version
      /\ conn.enabled \in BOOLEAN
  BY <1>2 DEF ConnectionOf
<1>4. \A a \in Attempts : row[a].version \in Versions
  BY DEF SpineInv, OutsideOK, RowOf
<1>5. ck.gen \in Versions /\ \A i \in Workers : wk[i].ck.gen \in Versions
  BY DEF SpineInv, GraphOK, Good, WorkersOK, WorkerOf, Checkpoint
<1> QED
  BY <1>1, <1>2, <1>3, <1>4, <1>5

\* What is known of the open attempt.
LEMMA OpenFacts ==
    ASSUME LoadInv, SpineInv
    PROVE  /\ ck \in Checkpoint /\ ck.attempt \in Attempts
           /\ row[ck.attempt] \in RowOf(Versions)
           /\ ext[ck.attempt] \in [phase : RunPhase, torn : BOOLEAN]
           /\ Secured(row[ck.attempt], ext[ck.attempt])
           /\ Agrees(ck, row[ck.attempt], ext[ck.attempt])
           /\ run = "active" => ck.node # "end"
  BY DEF LoadInv, SpineInv, GraphOK, OutsideOK, Good, Checkpoint

\* A worker's step without an effect on rows and runs.
LEMMA StillMove ==
    ASSUME LoadInv, SpineInv, NEW i \in Workers, NEW w, Moves(i, w),
           UNCHANGED <<row, conn, ext>>,
           \A a \in Attempts : (indexed'[a] /\ objs'[a]) = (indexed[a] /\ objs[a]),
           WorkerAgrees(w, ck, row[ck.attempt], ext[ck.attempt])
    PROVE  Lawful
<1>1. LoadInv'
  BY OpenFacts, LoneMove
<1>2. ContractStep /\ KillStep /\ TeardownStep
  BY ContractStutters DEF Moves, Verdict, KillStep, TeardownStep
<1> QED
  BY <1>1, <1>2 DEF Lawful

\* A worker's transaction on the open attempt's row.
LEMMA RowMove ==
    ASSUME LoadInv, SpineInv, NEW i \in Workers, NEW w, Moves(i, w), ck.node # "end",
           NEW r, SetRow(ck.attempt, r),
           row[ck.attempt].status \in TerminalStatus => r.status \notin ActiveStatus,
           Secured(r, ext[ck.attempt]), Agrees(ck, r, ext[ck.attempt]),
           WorkerAgrees(w, ck, r, ext[ck.attempt])
    PROVE  Lawful
<1> DEFINE a == ck.attempt
<1>1. a \in Attempts /\ row[a] \in RowOf(Versions) /\ Secured(row[a], ext[a]) /\ ck' = ck
  BY OpenFacts DEF Moves
<1>2. /\ \A b \in Attempts : row'[b] = IF b = a THEN r ELSE row[b]
      /\ UNCHANGED <<conn, ext, objs, indexed>>
  BY DEF SetRow, SpineInv, OutsideOK
<1>3. LoadInv'
  BY <1>1, <1>2, LoneMove
<1>4. ASSUME ~Restarts
      PROVE  \/ HoldsLease(r) = HoldsLease(row[a])
             \/ ~HoldsLease(r) /\ ext[a].phase \notin LiveRun
             \/ HoldsLease(r) /\ ext[a].phase = "none"
  <2>1. HoldsLease(r) <=> r.status \in ActiveStatus
    BY DEF HoldsLease, Secured
  <2>2. HoldsLease(row[a]) <=> row[a].status \in ActiveStatus
    BY <1>1 DEF HoldsLease, Secured
  <2>3. CASE r.status \in ActiveStatus /\ row[a].status \in ActiveStatus
    BY <2>1, <2>2, <2>3 DEF HoldsLease
  <2>4. CASE r.status \in ActiveStatus /\ row[a].status \notin ActiveStatus
    <3>1. row[a].status = "absent"
      BY <1>1, <2>4 DEF RowOf
    <3> QED
      BY <1>1, <2>1, <2>4, <3>1 DEF Secured
  <2>5. CASE r.status \notin ActiveStatus
    BY <1>4, <2>1, <2>5 DEF Secured, GivenUp
  <2> QED
    BY <2>3, <2>4, <2>5
<1>5. ~Restarts => ContractStep
  BY <1>1, <1>4, ContractByRow
<1>6. KillStep /\ TeardownStep
  BY <1>1, <1>2 DEF KillStep, TeardownStep
<1> QED
  BY <1>3, <1>5, <1>6 DEF Lawful

\* A worker's call on the open attempt's run: a run goes on to be live and over,
\* and a release has a reason.
LEMMA RunMove ==
    ASSUME LoadInv, SpineInv, NEW i \in Workers, NEW w, Moves(i, w), ck.node # "end",
           NEW p \in RunPhase, NEW t, SetRun(ck.attempt, p, t),
           ext[ck.attempt].phase \in TerminalStatus => p \in TerminalStatus,
           ext[ck.attempt].phase \in LiveRun => p \in LiveRun \cup TerminalStatus,
           ~Restarts /\ t /\ ~ext[ck.attempt].torn =>
             \/ indexed[ck.attempt] /\ objs[ck.attempt]
             \/ "cleanup" \in ck.marks
             \/ ext[ck.attempt].phase \notin TerminalStatus /\ p = "aborted",
           Secured(row[ck.attempt], [phase |-> p, torn |-> t]),
           Agrees(ck, row[ck.attempt], [phase |-> p, torn |-> t]),
           WorkerAgrees(w, ck, row[ck.attempt], [phase |-> p, torn |-> t])
    PROVE  Lawful
<1> DEFINE a == ck.attempt
           x == [phase |-> p, torn |-> t]
<1>1. a \in Attempts /\ Secured(row[a], ext[a]) /\ ck' = ck
  BY OpenFacts DEF Moves
<1>2. x.phase = p /\ x.torn = t
  OBVIOUS
<1>3. /\ \A b \in Attempts : ext'[b] = IF b = a THEN x ELSE ext[b]
      /\ UNCHANGED <<row, conn, objs, indexed>>
  BY DEF SetRun, SpineInv, OutsideOK
<1>4. LoadInv'
  <2> HIDE DEF x
  <2> QED
    BY <1>1, <1>3, LoneMove DEF x
<1>5. ASSUME ~Restarts PROVE ContractStep
  <2>1. p \in LiveRun => HoldsLease(row[a])
    BY <1>5, <1>2 DEF Secured, GivenUp, HoldsLease
  <2>2. \/ Load(p) = Load(ext[a].phase) \/ p \in TerminalStatus
        \/ p \in LiveRun /\ ext[a].phase \notin LiveRun \cup TerminalStatus
    BY DEF Load
  <2> QED
    BY <1>1, <2>1, <2>2, ContractByRun
<1>6. KillStep /\ (~Restarts => TeardownStep)
  BY <1>1, <1>2, <1>3 DEF KillStep, TeardownStep
<1> QED
  BY <1>4, <1>5, <1>6 DEF Lawful

\* A checkpoint of the open attempt, with nobody inside a node.
LEMMA CheckpointKeepsLoads ==
    ASSUME LoadInv, SpineInv, SafetyInv, Vacant, UNCHANGED outside,
           NEW c, Checkpoints(c), c.attempt = ck.attempt,
           Agrees(c, row[ck.attempt], ext[ck.attempt])
    PROVE  LoadInv'
<1>1. \A i \in Workers : wk[i].pc = "idle"
  BY NobodyInside
<1>2. ck' = c /\ wk' = wk /\ run' = RunAfter(c) /\ UNCHANGED <<row, conn, ext>>
  BY DEF Checkpoints, outside
<1>3. run' = "active" => ck'.node \notin InterruptNode \cup {"end"}
  BY <1>2 DEF RunAfter
<1>4. \A a \in Attempts : Secured(row[a], ext[a])'
  BY <1>2 DEF LoadInv, Secured, GivenUp
<1>5. Agrees(ck, row[ck.attempt], ext[ck.attempt])'
  BY <1>2 DEF Agrees, Pinned, Tidy
<1>6. \A i \in Workers : WorkerAgrees(wk[i], ck, row[ck.attempt], ext[ck.attempt])'
  BY <1>1, <1>2 DEF WorkerAgrees, Holds
<1>7. ~Restarts => Alone'
  BY <1>2 DEF LoadInv, Alone
<1> QED
  BY <1>3, <1>4, <1>5, <1>6, <1>7 DEF LoadInv

\* The same inside the attempt, which keeps its kill intent.
LEMMA CheckpointMove ==
    ASSUME LoadInv, SpineInv, SafetyInv, Vacant, UNCHANGED outside,
           NEW c, Checkpoints(c), c.attempt = ck.attempt, ck.node # "end", c.node # "end",
           Agrees(c, row[ck.attempt], ext[ck.attempt]),
           ~Restarts /\ "cleanup" \in ck.marks => "cleanup" \in c.marks
    PROVE  Lawful
<1>1. LoadInv'
  BY CheckpointKeepsLoads
<1>2. ck' = c /\ UNCHANGED <<row, ext, objs, indexed>>
  BY DEF Checkpoints, outside
<1>3. ContractStep
  <2>1. Verdict(ck)' = Verdict(ck)
    BY <1>2 DEF Verdict
  <2> QED
    BY <1>2, <2>1, ContractStutters
<1> QED
  BY <1>1, <1>2, <1>3 DEF Lawful, KillStep, TeardownStep

\* How a worker moves when it enters a node, goes on, returns, or raises.
LEMMA EnterMoves ==
    ASSUME SafetyInv, owner = Nobody, run = "active", NEW i \in Workers, NEW pc, NEW c,
           Enter(i, pc, c)
    PROVE  Moves(i, [pc |-> pc, ck |-> c])
  BY ActiveIsVacant, NobodyInside DEF Enter, Moves

\* Inside a node the worker's copy is the committed checkpoint.
LEMMA GotoMoves ==
    ASSUME SafetyInv, SpineInv, NEW i \in Workers, wk[i].pc \notin {"idle", "commit"},
           NEW pc, Goto(i, pc)
    PROVE  Moves(i, [pc |-> pc, ck |-> ck])
<1>1. wk[i] \in WorkerOf /\ wk[i].ck = ck /\ \A j \in Workers \ {i} : wk[j].pc = "idle"
  BY InsideAlone DEF SpineInv, WorkersOK
<1>2. [wk[i] EXCEPT !.pc = pc] = [pc |-> pc, ck |-> ck]
  BY <1>1 DEF WorkerOf
<1>3. wk' = [wk EXCEPT ![i] = [wk[i] EXCEPT !.pc = pc]]
  BY DEF Goto
<1> QED
  BY <1>1, <1>2, <1>3 DEF Goto, Moves

\* A returned update.
LEMMA ReturnMoves ==
    ASSUME SafetyInv, SpineInv, NEW i \in Workers, wk[i].pc # "idle", NEW c, Return(i, c)
    PROVE  Moves(i, [pc |-> "commit", ck |-> c])
  BY InsideAlone DEF Return, Moves

\* A raise.
LEMMA RaiseMoves ==
    ASSUME SafetyInv, SpineInv, NEW i \in Workers, wk[i].pc # "idle", Raise(i)
    PROVE  Moves(i, Idle)
  BY InsideAlone DEF Raise, Moves

-----------------------------------------------------------------------------
(* What the updates do to the parts of an entry that the invariant reads.  *)

\* The update d of c leaves attempt and generation, goes to one of nodes, and
\* leaves marks.
Steps(c, d, nodes, marks) ==
    d.attempt = c.attempt /\ d.gen = c.gen /\ d.node \in nodes /\ d.marks = marks

\* The retries, and the operator's.
LEMMA RetriesMove ==
    ASSUME NEW c \in Checkpoint
    PROVE  /\ Steps(c, RetryProvision(c), {"provision", "provision_blocked"}, c.marks)
           /\ Steps(c, RetryCleanup(c), KillNode, c.marks \cup {"cleanup"})
           /\ Steps(c, RetryCollect(c), {"collect", "collection_blocked"}, c.marks)
           /\ Steps(c, RetryIndex(c), {"index", "collection_blocked"}, c.marks \cup {"index"})
           /\ Steps(c, RetrySettle(c), {"settle", "settle_blocked"}, c.marks)
           /\ Steps(c, ReopenProvision(c), {"provision"}, c.marks)
           /\ Steps(c, ReopenCleanup(c), {"cleanup"}, c.marks \cup {"cleanup"})
           /\ Steps(c, ReopenCollection(c), {"collect", "index"}, c.marks)
           /\ Steps(c, ReopenSettle(c), {"settle"}, c.marks)
  BY DEF Steps, KillNode, Checkpoint, Retry, RetryProvision, RetryCleanup, RetryCollect,
         RetryIndex, RetrySettle, Reopen, ReopenProvision, ReopenCleanup, ReopenCollection,
         ReopenSettle

\* The updates of the launch, the watch and the kill.
LEMMA LaunchMoves ==
    ASSUME NEW c \in Checkpoint
    PROVE  /\ Steps(c, Provisioned(c), {"start"}, c.marks)
           /\ Steps(c, Observed(c),
                    IF ext[c.attempt].phase \in TerminalStatus THEN {"collect"} ELSE {"poll"},
                    c.marks)
           /\ Steps(c, PollFailed(c), {"poll"}, c.marks)
           /\ Steps(c, EnterCleanup(c), {"cleanup"}, c.marks \cup {"cleanup"})
           /\ Steps(c, EnterCleanup(PollFailed(c)), {"cleanup"}, c.marks \cup {"cleanup"})
           /\ Steps(c, [EnterCleanup(c) EXCEPT !.last = ext[c.attempt].phase], {"cleanup"},
                    c.marks \cup {"cleanup"})
           /\ Steps(c, Killed(c), {"finalize"}, c.marks \ {"cleanup"})
           /\ Steps(c, Settled(c), {"open_output_gate", "finalize"}, c.marks \cup {"settled"})
           /\ \A d : Steps(c, Collected(c, d), {"index"}, c.marks \cup {"index"})
           /\ Steps(c, Indexed(c), {"settle"}, c.marks \ {"index"})
  BY DEF Steps, Checkpoint, Provisioned, Observed, PollFailed, EnterCleanup, Killed, Settled,
         Continuation, Collected, Indexed

\* An entry that moves within the attempt agrees when its new node and marks do.
LEMMA MovedAgrees ==
    ASSUME NEW c, NEW d, NEW nodes, NEW marks, NEW r, NEW x,
           Agrees(c, r, x), Steps(c, d, nodes, marks), ~Restarts => Tidy(d, r, x)
    PROVE  Agrees(d, r, x)
  BY DEF Agrees, Pinned, Steps

\* An entry that may follow the committed one, the outside being as it is.
Follows(c) ==
    /\ c.attempt = ck.attempt /\ c.node # "end"
    /\ Agrees(c, row[ck.attempt], ext[ck.attempt])
    /\ ~Restarts /\ "cleanup" \in ck.marks => "cleanup" \in c.marks

\* An entry that moves within the attempt.
LEMMA MovedFollows ==
    ASSUME LoadInv, SpineInv, NEW c, NEW nodes, NEW marks, Steps(ck, c, nodes, marks),
           "end" \notin nodes,
           ~Restarts => /\ Tidy(c, row[ck.attempt], ext[ck.attempt])
                        /\ "cleanup" \in ck.marks => "cleanup" \in marks
    PROVE  Follows(c)
<1>1. Agrees(c, row[ck.attempt], ext[ck.attempt])
  BY OpenFacts, MovedAgrees
<1> QED
  BY <1>1 DEF Follows, Steps

\* The updates of the gates and of reserve.
LEMMA GateUpdatesFollow ==
    ASSUME LoadInv, SpineInv
    PROVE  /\ ck.node \in {"prepare", "prompt_gate"} =>
                /\ Follows([ck EXCEPT !.node = "prompt_gate",
                                      !.status = "awaiting_prompt_review"])
                /\ Follows([ck EXCEPT !.node = "reserve", !.status = "running"])
                /\ Follows([ck EXCEPT !.node = "reserve"])
           /\ ck.node = "reserve" => Follows([ck EXCEPT !.node = "provision"])
           /\ ck.node \in {"prepare", "reserve", "prompt_gate", "output_gate"} =>
                \A s \in {"skipped", "aborted", "failed"} :
                  Follows([ck EXCEPT !.node = "finalize", !.status = s])
           /\ ck.node \in {"open_output_gate", "output_gate"} =>
                /\ Follows(Opened(ck, "output_gate", "awaiting_output_review"))
                /\ Follows(Opened(ck, "finalize", "failed"))
                /\ Follows([ck EXCEPT !.node = "finalize"])
                /\ \A s \in {"running", ck.status} :
                     Follows([ck EXCEPT !.node = "open_output_gate", !.status = s])
<1> DEFINE r == row[ck.attempt]
           x == ext[ck.attempt]
<1>1. ck \in Checkpoint /\ Secured(r, x) /\ (~Restarts => Tidy(ck, r, x))
  BY OpenFacts DEF Agrees
<1>2. ASSUME NEW c, NEW n \in BeforeRun \cup AfterRun \cup {"provision"}, NEW marks,
             marks = ck.marks \/ marks = ck.marks \ {"settled"},
             Steps(ck, c, {n}, marks), ck.node \in BeforeRun \cup AfterRun,
             n # "end",
             n \in BeforeRun => ck.node \in BeforeRun,
             n = "provision" => ck.node = "reserve"
      PROVE  Follows(c)
  <2>1. c.node = n /\ c.marks = marks
    BY <1>2 DEF Steps
  <2>2. ~Restarts => Tidy(c, r, x) /\ ("cleanup" \in ck.marks => "cleanup" \in c.marks)
    BY <1>1, <1>2, <2>1
    DEF Tidy, BeforeRun, AfterRun, KillNode, Secured, ActiveStatus, LiveRun, TerminalStatus
  <2> HIDE DEF r, x
  <2> QED
    BY <1>2, <2>1, <2>2, MovedFollows DEF r, x
<1> DEFINE gate == [ck EXCEPT !.node = "prompt_gate", !.status = "awaiting_prompt_review"]
           reserve == [ck EXCEPT !.node = "reserve", !.status = "running"]
           review == Opened(ck, "output_gate", "awaiting_output_review")
           unshown == Opened(ck, "finalize", "failed")
           revise(s) == [ck EXCEPT !.node = "open_output_gate", !.status = s]
           over(s) == [ck EXCEPT !.node = "finalize", !.status = s]
<1>3. /\ Steps(ck, gate, {"prompt_gate"}, ck.marks) /\ Steps(ck, reserve, {"reserve"}, ck.marks)
      /\ Steps(ck, [ck EXCEPT !.node = "reserve"], {"reserve"}, ck.marks)
      /\ Steps(ck, [ck EXCEPT !.node = "provision"], {"provision"}, ck.marks)
      /\ Steps(ck, [ck EXCEPT !.node = "finalize"], {"finalize"}, ck.marks)
      /\ Steps(ck, review, {"output_gate"}, ck.marks \ {"settled"})
      /\ Steps(ck, unshown, {"finalize"}, ck.marks \ {"settled"})
      /\ \A s : Steps(ck, revise(s), {"open_output_gate"}, ck.marks)
      /\ \A s : Steps(ck, over(s), {"finalize"}, ck.marks)
  BY <1>1 DEF Steps, Checkpoint, Opened
<1> HIDE DEF gate, reserve, review, unshown, revise, over
<1>4. ASSUME ck.node \in {"prepare", "prompt_gate"}
      PROVE  Follows(gate) /\ Follows(reserve) /\ Follows([ck EXCEPT !.node = "reserve"])
  <2>1. ck.node \in BeforeRun /\ {"prompt_gate", "reserve"} \subseteq BeforeRun
    BY <1>4 DEF BeforeRun
  <2>2. Follows(gate)
    BY <1>2, <1>3, <2>1
  <2>3. Follows(reserve)
    BY <1>2, <1>3, <2>1
  <2>4. Follows([ck EXCEPT !.node = "reserve"])
    BY <1>2, <1>3, <2>1
  <2> QED
    BY <2>2, <2>3, <2>4
<1>5. ck.node = "reserve" => Follows([ck EXCEPT !.node = "provision"])
  BY <1>2, <1>3 DEF BeforeRun
<1>6. ck.node \in {"prepare", "reserve", "prompt_gate", "output_gate"} =>
        \A s \in {"skipped", "aborted", "failed"} : Follows(over(s))
  BY <1>2, <1>3 DEF BeforeRun, AfterRun
<1>7. ck.node \in {"open_output_gate", "output_gate"} =>
        /\ Follows(review) /\ Follows(unshown) /\ Follows([ck EXCEPT !.node = "finalize"])
        /\ \A s : Follows(revise(s))
  BY <1>2, <1>3 DEF BeforeRun, AfterRun
<1> QED
  BY <1>4, <1>5, <1>6, <1>7 DEF gate, reserve, review, unshown, revise, over

\* The updates of the launch and the watch.
LEMMA LaunchUpdatesFollow ==
    ASSUME LoadInv, SpineInv
    PROVE  /\ ck.node = "provision" /\ ck.gen = 0 /\ conn.enabled =>
                Follows([ck EXCEPT !.status = "running", !.gen = conn.version])
           /\ ck.node = "provision" => Follows(Provisioned(ck))
           /\ ck.node = "start" => Follows([ck EXCEPT !.node = "status"])
           /\ ck.node \in {"start", "status", "poll"} => Follows(EnterCleanup(ck))
           /\ ck.node \in {"status", "poll"} =>
                /\ Follows(Observed(ck)) /\ Follows(PollFailed(ck))
                /\ Follows(EnterCleanup(PollFailed(ck)))
                /\ Follows([EnterCleanup(ck) EXCEPT !.last = ext[ck.attempt].phase])
           /\ ck.node = "collect" => Follows([ck EXCEPT !.status = "running", !.store = TRUE])
<1> DEFINE r == row[ck.attempt]
           x == ext[ck.attempt]
<1>1. ck \in Checkpoint /\ Secured(r, x) /\ Agrees(ck, r, x) /\ (~Restarts => Tidy(ck, r, x))
  BY OpenFacts DEF Agrees
<1>2. ASSUME ck.node = "provision", ck.gen = 0, conn.enabled
      PROVE  Follows([ck EXCEPT !.status = "running", !.gen = conn.version])
  <2> DEFINE c == [ck EXCEPT !.status = "running", !.gen = conn.version]
  <2>1. /\ c.attempt = ck.attempt /\ c.gen = conn.version /\ c.node = "provision"
        /\ c.marks = ck.marks
    BY <1>1, <1>2 DEF Checkpoint
  <2> HIDE DEF c
  <2>2. Pinned(c, r)
    BY <1>1, <2>1, Generations DEF Secured, Unaltered, Pinned
  <2>3. ~Restarts => Tidy(c, r, x)
    BY <1>1, <1>2, <2>1 DEF Tidy
  <2> QED
    BY <2>1, <2>2, <2>3 DEF Follows, Agrees, c
<1>3. ASSUME NEW c, NEW n \in {"start", "status", "poll", "collect"}, Steps(ck, c, {n}, ck.marks),
             n # "collect" => ck.node \in {"provision", "start", "status", "poll"},
             n = "collect" => \/ ck.node = "collect"
                              \/ ck.node \in {"status", "poll"} /\ x.phase \in TerminalStatus
      PROVE  Follows(c)
  <2>1. c.node = n /\ c.marks = ck.marks
    BY <1>3 DEF Steps
  <2>2. ~Restarts => Tidy(c, r, x) /\ ("cleanup" \in ck.marks => "cleanup" \in c.marks)
    BY <1>1, <1>3, <2>1
    DEF Tidy, BeforeRun, AfterRun, KillNode, Secured, ActiveStatus, LiveRun, TerminalStatus
  <2> HIDE DEF r, x
  <2> QED
    BY <1>3, <2>1, <2>2, MovedFollows DEF r, x
<1>4. ASSUME NEW c, Steps(ck, c, {"cleanup"}, ck.marks \cup {"cleanup"}),
             ck.node \in {"start", "status", "poll"}
      PROVE  Follows(c)
  <2>1. c.node = "cleanup" /\ c.marks = ck.marks \cup {"cleanup"}
    BY <1>4 DEF Steps
  <2>2. ~Restarts => Tidy(c, r, x)
    BY <1>1, <1>4, <2>1 DEF Tidy, BeforeRun, AfterRun, KillNode
  <2> HIDE DEF r, x
  <2> QED
    BY <1>4, <2>1, <2>2, MovedFollows DEF r, x
<1>5. Steps(ck, [ck EXCEPT !.node = "status"], {"status"}, ck.marks)
  BY <1>1 DEF Steps, Checkpoint
<1>6. ck.node = "provision" => Follows(Provisioned(ck))
  BY <1>1, <1>3, LaunchMoves
<1>7. ck.node = "start" => Follows([ck EXCEPT !.node = "status"])
  BY <1>3, <1>5
<1>8. ck.node \in {"start", "status", "poll"} => Follows(EnterCleanup(ck))
  BY <1>1, <1>4, LaunchMoves
<1>9. ck.node \in {"status", "poll"} => Follows(Observed(ck)) /\ Follows(PollFailed(ck))
  <2>1. CASE x.phase \in TerminalStatus
    BY <1>1, <1>3, <2>1, LaunchMoves
  <2>2. CASE x.phase \notin TerminalStatus
    BY <1>1, <1>3, <2>2, LaunchMoves
  <2> QED
    BY <2>1, <2>2
<1>10. ck.node \in {"status", "poll"} =>
         /\ Follows(EnterCleanup(PollFailed(ck)))
         /\ Follows([EnterCleanup(ck) EXCEPT !.last = ext[ck.attempt].phase])
  BY <1>1, <1>4, LaunchMoves
<1>11. ASSUME ck.node = "collect"
       PROVE  Follows([ck EXCEPT !.status = "running", !.store = TRUE])
  <2> DEFINE c == [ck EXCEPT !.status = "running", !.store = TRUE]
  <2>1. Steps(ck, c, {"collect"}, ck.marks)
    BY <1>1, <1>11 DEF Steps, Checkpoint
  <2> HIDE DEF c
  <2>2. c.node = "collect" /\ c.marks = ck.marks
    BY <2>1 DEF Steps
  <2>3. ~Restarts => Tidy(c, r, x)
    BY <1>1, <1>11, <2>2 DEF Tidy, BeforeRun, AfterRun, KillNode
  <2>4. Follows(c)
    BY <2>1, <2>3, MovedFollows
  <2> QED
    BY <2>4 DEF c
<1> QED
  BY <1>2, <1>6, <1>7, <1>8, <1>9, <1>10, <1>11

\* The retries, the nodes' and the operator's.
LEMMA RetriesFollow ==
    ASSUME LoadInv, SpineInv, SafetyInv
    PROVE  /\ ck.node = "provision" => Follows(RetryProvision(ck))
           /\ ck.node = "cleanup" => Follows(RetryCleanup(ck))
           /\ ck.node = "collect" => Follows(RetryCollect(ck))
           /\ ck.node = "index" => Follows(RetryIndex(ck))
           /\ ck.node = "settle" => Follows(RetrySettle(ck))
           /\ ck.node = "provision_blocked" => Follows(ReopenProvision(ck))
           /\ ck.node = "cleanup_blocked" => Follows(ReopenCleanup(ck))
           /\ ck.node = "collection_blocked" => Follows(ReopenCollection(ck))
           /\ ck.node = "settle_blocked" => Follows(ReopenSettle(ck))
<1> DEFINE r == row[ck.attempt]
           x == ext[ck.attempt]
<1>1. ck \in Checkpoint /\ Secured(r, x) /\ (~Restarts => Tidy(ck, r, x))
  BY OpenFacts DEF Agrees
<1>2. ASSUME NEW nodes \in {{"provision", "provision_blocked"}, {"settle", "settle_blocked"},
                            {"collect", "collection_blocked", "index"}},
             NEW c, NEW ns, ns \subseteq nodes, ck.node \in nodes, Steps(ck, c, ns, ck.marks)
      PROVE  Follows(c)
  <2>1. c.node \in nodes /\ c.marks = ck.marks /\ "end" \notin ns
    BY <1>2 DEF Steps
  <2>2. ~Restarts => Tidy(c, r, x)
    BY <1>1, <1>2, <2>1 DEF Tidy, BeforeRun, AfterRun, KillNode
  <2> HIDE DEF r, x
  <2> QED
    BY <1>2, <2>1, <2>2, MovedFollows DEF r, x
<1>3. ASSUME NEW c, NEW ns, ns \subseteq KillNode, ck.node \in KillNode,
             Steps(ck, c, ns, ck.marks \cup {"cleanup"})
      PROVE  Follows(c)
  <2>1. c.node \in KillNode /\ c.marks = ck.marks \cup {"cleanup"} /\ "end" \notin ns
    BY <1>3 DEF Steps, KillNode
  <2>2. ~Restarts => Tidy(c, r, x)
    BY <1>1, <1>3, <2>1 DEF Tidy, BeforeRun, AfterRun, KillNode
  <2> HIDE DEF r, x
  <2> QED
    BY <1>3, <2>1, <2>2, MovedFollows DEF r, x
<1>4. ASSUME ck.node = "index" PROVE Follows(RetryIndex(ck))
  <2>1. "index" \in ck.marks
    BY <1>4, GraphFacts DEF Grounded
  <2>2. ck.marks \cup {"index"} = ck.marks
    BY <2>1
  <2>3. Steps(ck, RetryIndex(ck), {"index", "collection_blocked"}, ck.marks)
    BY <1>1, <2>2, RetriesMove DEF Steps
  <2> QED
    BY <1>2, <1>4, <2>3
<1>5. /\ ck.node = "provision" => Follows(RetryProvision(ck))
      /\ ck.node = "provision_blocked" => Follows(ReopenProvision(ck))
  BY <1>1, <1>2, RetriesMove
<1>6. /\ ck.node = "cleanup" => Follows(RetryCleanup(ck))
      /\ ck.node = "cleanup_blocked" => Follows(ReopenCleanup(ck))
  BY <1>1, <1>3, RetriesMove DEF KillNode
<1>7. /\ ck.node = "collect" => Follows(RetryCollect(ck))
      /\ ck.node = "collection_blocked" => Follows(ReopenCollection(ck))
  BY <1>1, <1>2, RetriesMove
<1>8. /\ ck.node = "settle" => Follows(RetrySettle(ck))
      /\ ck.node = "settle_blocked" => Follows(ReopenSettle(ck))
  BY <1>1, <1>2, RetriesMove
<1> QED
  BY <1>4, <1>5, <1>6, <1>7, <1>8

-----------------------------------------------------------------------------
(* The nodes that only read and checkpoint, and what people do.            *)

\* A step that at most ends or continues the graph run.
LEMMA StayingIsLawful ==
    ASSUME LoadInv, UNCHANGED <<ck, wk, outside>>, 
           run' = "active" => ck.node \notin InterruptNode \cup {"end"}
    PROVE  Lawful
<1>1. ck' = ck /\ wk' = wk /\ UNCHANGED <<row, conn, ext, objs, indexed>>
  BY DEF outside
<1>2. LoadInv'
  BY <1>1 DEF LoadInv, Secured, GivenUp, Agrees, Pinned, Tidy, WorkerAgrees, Holds, Succeeds, Alone
<1>3. ContractStep
  <2>1. Verdict(ck)' = Verdict(ck)
    BY <1>1 DEF Verdict
  <2> QED
    BY <1>1, <2>1, ContractStutters
<1> QED
  BY <1>1, <1>2, <1>3 DEF Lawful, KillStep, TeardownStep

\* Checkpointing an entry that follows.
LEMMA FollowingIsLawful ==
    ASSUME LoadInv, SpineInv, SafetyInv, Vacant, UNCHANGED outside,
           ck.node # "end", NEW c, Checkpoints(c), Follows(c)
    PROVE  Lawful
  BY CheckpointMove DEF Follows

\* finalize: the attempt has neither load nor a reservation, and a success has
\* its results.
LEMMA FinalizeLawful == ASSUME LoadInv, SpineInv, SafetyInv, Finalize PROVE Lawful
<1> DEFINE c == [ck EXCEPT !.node = "end", !.status = FinalStatus(ck), !.outcome = "none",
                           !.marks = @ \ {"settled"}]
           r == row[ck.attempt]
           x == ext[ck.attempt]
<1>1. Vacant /\ ck.node = "finalize" /\ Checkpoints(c) /\ UNCHANGED outside
  BY ActiveIsVacant DEF Finalize, Executes
<1>2. ck \in Checkpoint /\ Agrees(ck, r, x) /\ Secured(r, x) /\ ck.attempt \in Attempts
  BY OpenFacts
<1>3. /\ Steps(ck, c, {"end"}, ck.marks \ {"settled"}) /\ c.node = "end"
      /\ c.marks = ck.marks \ {"settled"} /\ c.status = FinalStatus(ck)
      /\ c.attempt = ck.attempt
  BY <1>2 DEF Steps, Checkpoint
<1> HIDE DEF c
<1>4. ~Restarts =>
        /\ r.status \notin ActiveStatus /\ x.phase \notin LiveRun
        /\ "cleanup" \notin ck.marks /\ Tidy(c, r, x)
  BY <1>1, <1>2, <1>3 DEF Agrees, Tidy, KillNode, AfterRun, BeforeRun
<1>5. Agrees(c, r, x)
  BY <1>2, <1>3, <1>4, MovedAgrees
<1>6. LoadInv'
  BY <1>1, <1>3, <1>5, CheckpointKeepsLoads
<1>7. ck' = c /\ UNCHANGED <<row, ext, objs, indexed>>
  BY <1>1 DEF Checkpoints, outside
<1>8. c.status = "succeeded" => indexed[ck.attempt] /\ objs[ck.attempt]
  BY <1>1, <1>2, <1>3, GraphFacts
  DEF Grounded, MaySucceed, SafetyInv, Solid, IndexedObjectsSurvive
<1>9. ASSUME ~Restarts PROVE ContractStep
  <2>1. ~HoldsLease(r)
    BY <1>4, <1>9 DEF HoldsLease
  <2> QED
    BY <1>1, <1>3, <1>4, <1>7, <1>8, <1>9, <2>1, ContractByFinish
<1>10. ~Restarts => KillStep /\ TeardownStep
  BY <1>4, <1>7 DEF KillStep, TeardownStep
<1> QED
  BY <1>6, <1>9, <1>10 DEF Lawful

\* The nodes that only read and checkpoint.
LEMMA NodeStepLawful == ASSUME LoadInv, SpineInv, SafetyInv, NodeStep PROVE Lawful
<1>0. ASSUME NEW c, Follows(c), Checkpoints(c), UNCHANGED outside, owner = Nobody,
             run = "active", ck.node # "end"
      PROVE  Lawful
  BY <1>0, ActiveIsVacant, FollowingIsLawful
<1>1. CASE Prepare
  BY <1>1, <1>0, GateUpdatesFollow DEF Prepare, Executes
<1>2. CASE Reserve
  BY <1>2, <1>0, GateUpdatesFollow DEF Reserve, Executes
<1>3. CASE StageAffinity
  BY <1>3, <1>0, LaunchUpdatesFollow, RetriesFollow DEF StageAffinity, Executes
<1>4. CASE InitialStatus
  BY <1>4, <1>0, LaunchUpdatesFollow DEF InitialStatus, Executes
<1>5. CASE Poll
  BY <1>5, <1>0, LaunchUpdatesFollow DEF Poll, Executes
<1>6. CASE PollTimeout
  BY <1>6, <1>0, LaunchUpdatesFollow DEF PollTimeout, Executes
<1>7. CASE StageStore
  BY <1>7, <1>0, LaunchUpdatesFollow, RetriesFollow DEF StageStore, Executes
<1>8. CASE OpenOutputGate
  BY <1>8, <1>0, OutputGateOpens, GateUpdatesFollow DEF Executes
<1>9. CASE Finalize
  BY <1>9, FinalizeLawful
<1> QED
  BY <1>1, <1>2, <1>3, <1>4, <1>5, <1>6, <1>7, <1>8, <1>9 DEF NodeStep

\* A rerun opens an attempt that nothing has touched; what the finished one used
\* is over.
LEMMA RerunLawful == ASSUME LoadInv, SpineInv, SafetyInv, Rerun PROVE Lawful
<1> DEFINE a == ck.attempt
           c == FreshEntry(a + 1)
<1>1. run = "none" /\ ParentStatus(ck) \in TerminalPhase /\ a < MaxAttempt
  BY DEF Rerun
<1>2. ck.node = "end"
  BY <1>1 DEF ParentStatus, TerminalPhase
<1>3. ck' = c /\ run' = RunAfter(c) /\ wk' = wk /\ UNCHANGED <<row, conn, ext, objs, indexed>>
      /\ UNCHANGED outside
  BY <1>1 DEF Rerun, PlanResolver, Checkpoints, outside
<1>4. a \in Attempts /\ a + 1 \in Attempts /\ a \in Nat
      /\ \A b \in Attempts : (b < a + 1 <=> b < a \/ b = a) /\ (b > a + 1 => b > a)
  BY <1>1, OpenFacts, EngineAssumption DEF Attempts
<1>5. /\ c.node = "prepare" /\ c.attempt = a + 1 /\ c.gen = 0 /\ c.marks = {}
  BY DEF FreshEntry
<1> HIDE DEF c
<1>6. \A i \in Workers : wk[i].pc = "idle"
  BY OperatorFindsNobody, NobodyInside DEF Operator
<1>7. ~Restarts =>
        /\ row[a + 1].status = "absent" /\ ext[a + 1].phase = "none"
        /\ row[a].status \notin ActiveStatus /\ ext[a].phase \notin LiveRun
        /\ row[a].handle => ext[a].torn
        /\ "cleanup" \notin ck.marks
  <2>1. a + 1 > a
    BY <1>4
  <2>2. Tidy(ck, row[a], ext[a]) \/ Restarts
    BY OpenFacts DEF Agrees
  <2>3. ~Restarts => row[a + 1].status = "absent" /\ ext[a + 1].phase = "none"
    BY <1>4, <2>1 DEF LoadInv, Alone, Secured
  <2> QED
    BY <1>2, <2>2, <2>3 DEF Tidy, AfterRun, KillNode
<1>8. LoadInv'
  <2>1. \A b \in Attempts : Secured(row[b], ext[b])'
    BY <1>3 DEF LoadInv, Secured, GivenUp
  <2>2. Agrees(ck, row[ck.attempt], ext[ck.attempt])'
    BY <1>3, <1>5, <1>7
    DEF Agrees, Pinned, Tidy, BeforeRun, AfterRun, KillNode, LiveRun, TerminalStatus
  <2>3. \A i \in Workers : WorkerAgrees(wk[i], ck, row[ck.attempt], ext[ck.attempt])'
    BY <1>3, <1>6 DEF WorkerAgrees, Holds
  <2>4. ASSUME ~Restarts, NEW b \in Attempts
        PROVE  /\ b > a + 1 => row[b].status = "absent"
               /\ b < a + 1 =>
                    row[b].status \notin ActiveStatus /\ (row[b].handle => ext[b].torn)
               /\ b # a + 1 => ext[b].phase \notin LiveRun
    BY <1>4, <1>7, <2>4 DEF LoadInv, Alone
  <2>5. ~Restarts => Alone'
    BY <1>3, <1>5, <2>4 DEF Alone
  <2>6. ck'.node \notin InterruptNode \cup {"end"}
    BY <1>3, <1>5 DEF InterruptNode
  <2> QED
    BY <2>1, <2>2, <2>3, <2>5, <2>6 DEF LoadInv
<1>9. ContractStep
  BY <1>2, <1>3, <1>4, <1>5, ContractByAgain
<1> QED
  BY <1>3, <1>7, <1>8, <1>9 DEF Lawful, KillStep, TeardownStep

\* A caller that starts a run on an unfinished attempt makes no promise about the
\* load that is there, but its fresh entry pins nothing.
LEMMA RestartLawful == ASSUME LoadInv, SpineInv, SafetyInv, Restart PROVE Lawful
<1> DEFINE c == FreshEntry(ck.attempt)
<1>1. Restarts /\ Vacant /\ UNCHANGED outside /\ Checkpoints(c)
  BY OperatorFindsNobody DEF Restart, PlanResolver, Operator
<1>2. c.attempt = ck.attempt /\ c.gen = 0
  BY DEF FreshEntry
<1> HIDE DEF c
<1>3. Agrees(c, row[ck.attempt], ext[ck.attempt])
  BY <1>1, <1>2 DEF Agrees, Pinned
<1> QED
  BY <1>1, <1>2, <1>3, CheckpointKeepsLoads DEF Lawful

\* What people do.
LEMMA OperatorLawful == ASSUME LoadInv, SpineInv, SafetyInv, Operator PROVE Lawful
<1>0. ASSUME NEW c, Follows(c), Checkpoints(c), UNCHANGED outside, Vacant,
             ck.node # "end"
      PROVE  Lawful
  BY <1>0, FollowingIsLawful
<1>1. CASE DecidePrompt
  BY <1>1, <1>0, OperatorFindsNobody, GateUpdatesFollow DEF DecidePrompt
<1>2. CASE DecideOutput
  BY <1>2, <1>0, OperatorFindsNobody, GateUpdatesFollow DEF DecideOutput
<1>3. CASE ResumeBlocked
  BY <1>3, <1>0, OperatorFindsNobody, RetriesFollow DEF ResumeBlocked
<1>4. CASE Continue
  BY <1>4, StayingIsLawful DEF Continue
<1> QED
  BY <1>1, <1>2, <1>3, <1>4, RerunLawful, RestartLawful DEF Operator

-----------------------------------------------------------------------------
(* What effects do to rows and runs.                                       *)

\* A write to an active row that leaves it active, and keeps what it pins.
LEMMA ActiveStaysActive ==
    ASSUME NEW r, NEW x, NEW r2, Secured(r, x), r.status \in ActiveStatus,
           r2.status \in ActiveStatus, r2.lease,
           r2.version = r.version \/ Unaltered(conn, r2.version),
           r2 = r \/ (r2.handle /\ r2.status # "provisioning")
    PROVE  /\ Secured(r2, x)
           /\ \A c : /\ Agrees(c, r, x)
                     /\ r2.version = r.version \/ (c.gen = r2.version /\ c.gen \in Nat)
                    => Agrees(c, r2, x)
<1>1. r.status # "absent" /\ r2.status # "absent"
  BY DEF ActiveStatus
<1>2. r.status \notin TerminalStatus
  BY DEF ActiveStatus, TerminalStatus
<1> QED
  BY <1>1, <1>2 DEF Secured, Unaltered, Agrees, Pinned, Tidy

\* A reservation of an absent row.
LEMMA InsertAgrees ==
    ASSUME NEW r, NEW x, NEW v, Secured(r, x), Unaltered(conn, v), v \in Nat
    PROVE  /\ Secured(InsertReservation(r, v), x)
           /\ \A c : /\ c.node \in {"provision", "provision_blocked"} /\ Agrees(c, r, x)
                     /\ c.gen = v
                    => Agrees(c, InsertReservation(r, v), x)
  BY DEF Secured, Unaltered, Agrees, Pinned, Tidy, InsertReservation, NoRow, ActiveStatus,
         BeforeRun, AfterRun, LiveRun, TerminalStatus

\* A call on the run of an existing row that does not start it.
LEMMA RunAgrees ==
    ASSUME NEW r, NEW x, NEW y, Secured(r, x), r.status # "absent",
           y.phase \in LiveRun => x.phase \in LiveRun, x.torn => y.torn
    PROVE  /\ Secured(r, y)
           /\ \A c : /\ Agrees(c, r, x)
                     /\ /\ ~Restarts /\ y.phase \in TerminalStatus
                        /\ c.node \in {"provision", "provision_blocked"}
                        => y.torn \/ r.handle \/ r.status \in TerminalStatus
                   => Agrees(c, r, y)
  BY DEF Secured, Agrees, Pinned, Tidy

\* An abort does not revive a run, nor undo its start; a compensation aborts.
LEMMA AbortsForward ==
    ASSUME NEW phase \in RunPhase, NEW p \in AbortedPhase(phase)
    PROVE  /\ p \in RunPhase
           /\ phase \in TerminalStatus => p \in TerminalStatus
           /\ phase \in LiveRun => p \in LiveRun \cup TerminalStatus
           /\ p \in LiveRun => phase \in LiveRun
           /\ p \in TerminalStatus /\ phase \notin TerminalStatus => p = "aborted"
  BY EngineAssumption DEF AbortedPhase, RunPhase, LiveRun, TerminalStatus

-----------------------------------------------------------------------------
(* The worker's steps.                                                     *)

\* What a worker inside a node knows of the open attempt.
LEMMA InsideOpen ==
    ASSUME LoadInv, SpineInv, SafetyInv, NEW i \in Workers, wk[i].pc \notin {"idle", "commit"}
    PROVE  /\ wk[i].ck = ck /\ ck \in Checkpoint /\ Staged(ck) /\ ck.attempt \in Attempts
           /\ ck.node # "end" /\ ck.gen \in Versions
           /\ row[ck.attempt] \in RowOf(Versions)
           /\ ext[ck.attempt] \in [phase : RunPhase, torn : BOOLEAN]
           /\ Secured(row[ck.attempt], ext[ck.attempt])
           /\ Agrees(ck, row[ck.attempt], ext[ck.attempt])
           /\ InPlace(wk[i]) /\ Holds(wk[i], row[ck.attempt], ext[ck.attempt])
<1>1. ck.node # "end"
  BY InsideAlone DEF LoadInv, Abandoned
<1>2. Holds(wk[i], row[ck.attempt], ext[ck.attempt])
  BY DEF LoadInv, WorkerAgrees
<1> QED
  BY <1>1, <1>2, InsideFacts, OpenFacts, GraphFacts

\* An entry that follows can be returned.
LEMMA FollowingAgrees ==
    ASSUME NEW c, Follows(c)
    PROVE  WorkerAgrees([pc |-> "commit", ck |-> c], ck, row[ck.attempt], ext[ck.attempt])
  BY DEF Follows, WorkerAgrees, Holds, Succeeds

\* The same after an effect, if the entry still agrees.
LEMMA FollowingStillAgrees ==
    ASSUME NEW c, NEW r, NEW x, Follows(c), Agrees(c, r, x)
    PROVE  WorkerAgrees([pc |-> "commit", ck |-> c], ck, r, x)
  BY DEF Follows, WorkerAgrees, Holds, Succeeds

\* A node that returns an entry that follows, without an effect.
LEMMA ReturnLawful ==
    ASSUME LoadInv, SpineInv, SafetyInv, NEW i \in Workers,
           wk[i].pc \notin {"idle", "commit"}, UNCHANGED outside, NEW c, Follows(c),
           Return(i, c)
    PROVE  Lawful
  BY ReturnMoves, FollowingAgrees, StillMove DEF outside

\* A node that raises, without an effect.
LEMMA RaiseLawful ==
    ASSUME LoadInv, SpineInv, SafetyInv, NEW i \in Workers, wk[i].pc # "idle",
           UNCHANGED outside, Raise(i)
    PROVE  Lawful
<1>1. Idle.pc = "idle"
  BY DEF Idle
<1> QED
  BY <1>1, RaiseMoves, IdleAgrees, StillMove DEF outside

\* A node is entered, without an effect.
LEMMA EnterLawful ==
    ASSUME LoadInv, SpineInv, SafetyInv, NEW i \in Workers, owner = Nobody, run = "active",
           UNCHANGED outside, NEW pc, NEW c, Enter(i, pc, c),
           WorkerAgrees([pc |-> pc, ck |-> c], ck, row[ck.attempt], ext[ck.attempt])
    PROVE  Lawful
  BY EnterMoves, StillMove DEF outside

\* A row is written, and the node goes on or returns.
LEMMA RecordMove ==
    ASSUME LoadInv, SpineInv, SafetyInv, NEW i \in Workers, NEW v, Moves(i, v),
           ck.node # "end", NEW w \in WriteOf(Versions),
           TransitionAllowed(row[ck.attempt], w),
           SetRow(ck.attempt, Upsert(row[ck.attempt], w)),
           Secured(Upsert(row[ck.attempt], w), ext[ck.attempt]),
           Agrees(ck, Upsert(row[ck.attempt], w), ext[ck.attempt]),
           WorkerAgrees(v, ck, Upsert(row[ck.attempt], w), ext[ck.attempt])
    PROVE  Lawful
<1>1. row[ck.attempt].status \in TerminalStatus =>
        Upsert(row[ck.attempt], w).status \notin ActiveStatus
  <2>1. row[ck.attempt].status \in TerminalStatus => Upsert(row[ck.attempt], w) = row[ck.attempt]
    BY OpenFacts, UpsertMatures
  <2> QED
    BY <2>1 DEF ActiveStatus, TerminalStatus
<1> QED
  BY <1>1, RowMove

\* The steps that end with record_engine_run(required=True).
LEMMA RecordOrRaiseLawful ==
    ASSUME LoadInv, SpineInv, SafetyInv, NEW i \in Workers, wk[i].pc \notin {"idle", "commit"},
           NEW w \in WriteOf(Versions), NEW c, RecordOrRaise(i, w, c),
           TransitionAllowed(row[ck.attempt], w) =>
             /\ Secured(Upsert(row[ck.attempt], w), ext[ck.attempt])
             /\ Agrees(ck, Upsert(row[ck.attempt], w), ext[ck.attempt])
             /\ Succeeds(c, ck, Upsert(row[ck.attempt], w), ext[ck.attempt])
    PROVE  Lawful
<1> DEFINE r == Upsert(row[ck.attempt], w)
<1>1. wk[i].ck = ck /\ ck.node # "end"
  BY InsideOpen
<1>2. \/ TransitionAllowed(row[ck.attempt], w) /\ SetRow(ck.attempt, r) /\ Return(i, c)
      \/ UNCHANGED outside /\ Raise(i)
      \/ TransitionAllowed(row[ck.attempt], w) /\ SetRow(ck.attempt, r) /\ Raise(i)
  BY <1>1 DEF RecordOrRaise, Recordable
<1>3. CASE TransitionAllowed(row[ck.attempt], w) /\ SetRow(ck.attempt, r) /\ Return(i, c)
  <2>1. WorkerAgrees([pc |-> "commit", ck |-> c], ck, r, ext[ck.attempt])
    BY <1>3 DEF WorkerAgrees, Holds
  <2> QED
    BY <1>1, <1>3, <2>1, ReturnMoves, RecordMove
<1>4. CASE UNCHANGED outside /\ Raise(i)
  BY <1>4, RaiseLawful
<1>5. CASE TransitionAllowed(row[ck.attempt], w) /\ SetRow(ck.attempt, r) /\ Raise(i)
  <2>1. WorkerAgrees(Idle, ck, r, ext[ck.attempt])
    BY IdleAgrees DEF Idle
  <2> QED
    BY <1>1, <1>5, <2>1, RaiseMoves, RecordMove
<1> QED
  BY <1>2, <1>3, <1>4, <1>5

\* A settlement leaves a row that is over.
LEMMA SettlementIsOver ==
    ASSUME NEW r \in RowOf(Versions), NEW w \in WriteOf(Versions),
           w.status \in TerminalStatus, TransitionAllowed(r, w)
    PROVE  Upsert(r, w).status \in TerminalStatus
<1>1. r.status \in TerminalStatus => Upsert(r, w) = r
  BY UpsertMatures
<1>2. r.status \notin TerminalStatus => Upsert(r, w).status = w.status
  BY DEF TransitionAllowed, Superseded, Upsert, ActiveStatus, TerminalStatus
<1> QED
  BY <1>1, <1>2

\* A row that is over, of a run that is not live or was given up, agrees with an entry that is
\* past its attempt's run.
LEMMA OverAgrees ==
    ASSUME NEW r, NEW x, NEW c, r.status \in TerminalStatus,
           x.phase \in LiveRun => GivenUp(r)
    PROVE  /\ Secured(r, x)
           /\ \A q : /\ Agrees(c, q, x)
                     /\ "index" \notin c.marks /\ c.node \notin BeforeRun \cup AfterRun
                     /\ ~Restarts /\ c.node \in {"provision", "provision_blocked"} => ~r.handle
                   => Agrees(c, r, x)
           /\ /\ c.node \in AfterRun
              /\ ~Restarts =>
                   /\ "cleanup" \notin c.marks /\ "index" \notin c.marks
                   /\ r.handle => x.torn
              => Agrees(c, r, x)
<1>1. r.status \notin ActiveStatus /\ r.status # "absent"
  BY DEF ActiveStatus, TerminalStatus
<1>2. Secured(r, x)
  BY <1>1 DEF Secured, TerminalStatus
<1>3. Pinned(c, r)
  BY <1>1 DEF Pinned
<1>4. ASSUME NEW q, Agrees(c, q, x), "index" \notin c.marks,
             c.node \notin BeforeRun \cup AfterRun,
             ~Restarts /\ c.node \in {"provision", "provision_blocked"} => ~r.handle
      PROVE  Agrees(c, r, x)
  BY <1>1, <1>3, <1>4 DEF Agrees, Tidy
<1>5. ASSUME c.node \in AfterRun,
             ~Restarts => /\ "cleanup" \notin c.marks /\ "index" \notin c.marks
                          /\ r.handle => x.torn
      PROVE  Agrees(c, r, x)
  BY <1>1, <1>3, <1>5 DEF GivenUp, Agrees, Tidy, AfterRun, BeforeRun, KillNode
<1> QED
  BY <1>2, <1>4, <1>5

\* The record_engine_run that settles the row and leaves the attempt's run behind.
LEMMA SettleAndLeave ==
    ASSUME LoadInv, SpineInv, SafetyInv, NEW i \in Workers, wk[i].pc \notin {"idle", "commit"},
           NEW w \in WriteOf(Versions), w.status \in TerminalStatus, NEW c, NEW nodes, NEW marks,
           Steps(ck, c, nodes, marks), nodes \subseteq {"open_output_gate", "finalize"},
           "index" \notin marks, ~Restarts => "cleanup" \notin marks,
           ck.node \notin BeforeRun, "index" \notin ck.marks,
           ext[ck.attempt].phase \in LiveRun /\ TransitionAllowed(row[ck.attempt], w)
             => GivenUp(Upsert(row[ck.attempt], w)),
           ~Restarts /\ "cleanup" \in ck.marks =>
             ext[ck.attempt].phase \in TerminalStatus /\ ext[ck.attempt].torn,
           ck.node \notin AfterRun,
           ~Restarts /\ Upsert(row[ck.attempt], w).handle =>
             ck.node \notin {"provision", "provision_blocked"} /\ ext[ck.attempt].torn,
           RecordOrRaise(i, w, c)
    PROVE  Lawful
<1> DEFINE r == Upsert(row[ck.attempt], w)
           x == ext[ck.attempt]
<1>1. row[ck.attempt] \in RowOf(Versions) /\ Agrees(ck, row[ck.attempt], x)
  BY OpenFacts
<1>2. c.attempt = ck.attempt /\ c.node \in AfterRun /\ c.node # "end" /\ c.marks = marks
  BY DEF Steps, AfterRun
<1>3. ASSUME TransitionAllowed(row[ck.attempt], w)
      PROVE  Secured(r, x) /\ Agrees(ck, r, x) /\ Succeeds(c, ck, r, x)
  <2>1. /\ r.status \in TerminalStatus
        /\ ~Restarts /\ r.handle =>
             ck.node \notin {"provision", "provision_blocked"} /\ x.torn
    BY <1>1, <1>3, SettlementIsOver
  <2>2. x.phase \in LiveRun => GivenUp(r)
    BY <1>3
  <2> HIDE DEF r, x
  <2>3. Secured(r, x) /\ Agrees(ck, r, x)
    BY <1>1, <2>1, <2>2, OverAgrees
  <2>4. Agrees(c, r, x)
    BY <1>2, <2>1, <2>2, OverAgrees
  <2> QED
    BY <1>2, <2>1, <2>3, <2>4 DEF Succeeds, x
<1> QED
  BY <1>3, RecordOrRaiseLawful

\* engine_provision is entered: a generation that is refused is no live run's.
LEMMA ProvisionResolveLawful ==
    ASSUME LoadInv, SpineInv, SafetyInv, NEW i \in Workers, ProvisionResolve(i)
    PROVE  Lawful
<1>1. /\ run = "active" /\ owner = Nobody /\ ck.node = "provision" /\ ck.gen # 0
      /\ UNCHANGED outside
      /\ \/ Enter(i, "provision.prepare", ck)
         \/ conn.enabled /\ ~Accepts(ck) /\ Enter(i, "provision.reject", ck)
         \/ Enter(i, "commit", RetryProvision(ck))
  BY DEF ProvisionResolve, Takes
<1>2. WorkerAgrees([pc |-> "provision.prepare", ck |-> ck], ck, row[ck.attempt], ext[ck.attempt])
  BY DEF WorkerAgrees, Holds
<1>3. ASSUME conn.enabled, ~Accepts(ck)
      PROVE  WorkerAgrees([pc |-> "provision.reject", ck |-> ck], ck, row[ck.attempt],
                          ext[ck.attempt])
  <2> DEFINE r == row[ck.attempt]
  <2>1. ck.gen # conn.version
    BY <1>3 DEF Accepts, AcceptsGeneration
  <2>2. ck.attempt \in Attempts /\ Agrees(ck, r, ext[ck.attempt])
    BY OpenFacts
  <2>3. r.status \in ActiveStatus => r.version < conn.version
    BY <1>1, <2>1, <2>2, Generations DEF Agrees, Pinned
  <2>4. ext[ck.attempt].phase \in LiveRun => Restarts
    BY <1>1, <2>2 DEF Agrees, Tidy, KillNode
  <2> QED
    BY <2>3, <2>4 DEF WorkerAgrees, Holds
<1>4. WorkerAgrees([pc |-> "commit", ck |-> RetryProvision(ck)], ck, row[ck.attempt],
                   ext[ck.attempt])
  BY <1>1, RetriesFollow, FollowingAgrees
<1> QED
  BY <1>1, <1>2, <1>3, <1>4, EnterLawful

\* prepare_engine_provision: a row that still asks for the call has no handle,
\* hence no live run.
LEMMA ProvisionPrepareLawful ==
    ASSUME LoadInv, SpineInv, SafetyInv, NEW i \in Workers, ProvisionPrepare(i)
    PROVE  Lawful
<1> DEFINE q == row[ck.attempt]
           r == InsertReservation(q, ck.gen)
           x == ext[ck.attempt]
           decision == IF Accepts(ck) THEN ProvisionDecision(r, ck.gen) ELSE "reject"
           d == RetryProvision(ck)
<1>1. wk[i].pc = "provision.prepare"
  BY DEF ProvisionPrepare, At
<1>2. /\ wk[i].ck = ck /\ ck \in Checkpoint /\ ck.node = "provision" /\ ck.node # "end"
      /\ Secured(q, x) /\ Agrees(ck, q, x)
  BY <1>1, InsideOpen DEF InPlace
<1>3. \/ decision = "call" /\ SetRow(ck.attempt, r) /\ Goto(i, "provision.call")
      \/ UNCHANGED outside /\ Return(i, Provisioned(ck))
      \/ UNCHANGED outside /\ Raise(i)
      \/ UNCHANGED outside /\ Return(i, d)
      \/ decision = "call" /\ SetRow(ck.attempt, r) /\ Return(i, d)
  BY <1>2 DEF ProvisionPrepare
<1>4. Follows(Provisioned(ck)) /\ Follows(d)
  BY <1>2, LaunchUpdatesFollow, RetriesFollow
<1>5. d.node \in {"provision", "provision_blocked"}
  BY <1>2, RetriesMove DEF Steps
<1>6. ASSUME decision = "call"
      PROVE  Secured(r, x) /\ Agrees(ck, r, x) /\ Agrees(d, r, x)
  <2>0. AcceptsGeneration(conn, ck.gen)
    BY <1>6 DEF Accepts
  <2>1. Agrees(d, q, x) /\ d.gen = ck.gen
    BY <1>2, <1>4, RetriesMove DEF Follows, Steps
  <2>2. Unaltered(conn, ck.gen) /\ ck.gen \in Nat
    BY <2>0, Generations DEF AcceptsGeneration, Unaltered
  <2> HIDE DEF d, x, q
  <2> QED
    BY <1>2, <1>5, <2>1, <2>2, InsertAgrees
<1>7. ASSUME decision = "call"
      PROVE  /\ r.status = "provisioning" /\ ~r.handle
             /\ q.status \in TerminalStatus => r.status \notin ActiveStatus
             /\ x.phase \notin LiveRun
  <2>1. r.status = "provisioning" /\ ~r.handle
    BY <1>7 DEF ProvisionDecision
  <2>2. q.status # "absent" => r = q
    BY DEF InsertReservation
  <2>3. q.status \notin TerminalStatus
    BY <2>1, <2>2 DEF TerminalStatus
  <2>4. x.phase \notin LiveRun
    BY <1>2, <2>1, <2>2 DEF Secured, GivenUp, ActiveStatus, LiveRun
  <2> QED
    BY <2>1, <2>3, <2>4
<1> HIDE DEF r, d
<1>8. CASE decision = "call" /\ SetRow(ck.attempt, r) /\ Goto(i, "provision.call")
  <2>1. WorkerAgrees([pc |-> "provision.call", ck |-> ck], ck, r, x)
    BY <1>7, <1>8 DEF WorkerAgrees, Holds
  <2> QED
    BY <1>1, <1>2, <1>6, <1>7, <1>8, <2>1, GotoMoves, RowMove
<1>9. CASE decision = "call" /\ SetRow(ck.attempt, r) /\ Return(i, d)
  <2>1. WorkerAgrees([pc |-> "commit", ck |-> d], ck, r, x)
    BY <1>4, <1>6, <1>9, FollowingStillAgrees
  <2> QED
    BY <1>1, <1>2, <1>6, <1>7, <1>9, <2>1, ReturnMoves, RowMove
<1> QED
  BY <1>1, <1>3, <1>4, <1>8, <1>9, ReturnLawful, RaiseLawful

\* adapter.provision: the key's run is created at most once, and not revived; what
\* may not be persisted is aborted.
LEMMA ProvisionCallLawful ==
    ASSUME LoadInv, SpineInv, SafetyInv, NEW i \in Workers, ProvisionCall(i)
    PROVE  Lawful
<1> DEFINE a == ck.attempt
           q == row[a]
           x == ext[a]
           created == IF x.phase = "none" THEN "ready" ELSE x.phase
           d == RetryProvision(ck)
           at(pc) == [pc |-> pc, ck |-> ck]
<1>1. wk[i].pc = "provision.call"
  BY DEF ProvisionCall, At
<1>2. /\ wk[i].ck = ck /\ ck \in Checkpoint /\ ck.node = "provision" /\ ck.node # "end"
      /\ x.phase \in RunPhase /\ x.torn \in BOOLEAN
      /\ Secured(q, x) /\ Agrees(ck, q, x) /\ q.status = "provisioning" /\ ~q.handle
      /\ q.status # "absent"
      /\ x.phase \notin LiveRun
  BY <1>1, InsideOpen DEF InPlace, Holds
<1>3. \/ SetRun(a, created, x.torn) /\ Goto(i, "provision.record")
      \/ UNCHANGED outside /\ Goto(i, "provision.reject")
      \/ Compensate(a, created) /\ Goto(i, "provision.reject")
      \/ UNCHANGED outside /\ Return(i, d)
      \/ SetRun(a, created, x.torn) /\ Return(i, d)
  BY <1>2 DEF ProvisionCall
<1>4. Follows(d) /\ Agrees(d, q, x) /\ d.node \in {"provision", "provision_blocked"}
  BY <1>2, RetriesFollow, RetriesMove DEF Follows, Steps
<1>5. /\ created \in RunPhase
      /\ x.phase \in LiveRun \cup TerminalStatus => created = x.phase
      /\ created \in LiveRun \cup TerminalStatus => x.phase = created
  BY <1>2 DEF RunPhase, LiveRun, TerminalStatus
<1>6. ~Restarts /\ x.phase \in TerminalStatus => x.torn
  BY <1>2 DEF Agrees, Tidy, TerminalStatus
<1> HIDE DEF d, created, x, q, a
<1>7. CASE UNCHANGED outside /\ Goto(i, "provision.reject")
  <2>1. WorkerAgrees(at("provision.reject"), ck, q, x)
    BY <1>2 DEF WorkerAgrees, Holds
  <2> QED
    BY <1>1, <1>7, <2>1, GotoMoves, StillMove DEF outside, x, q, a
<1>8. ASSUME SetRun(a, created, x.torn)
      PROVE  /\ Goto(i, "provision.record") => Lawful
             /\ Return(i, d) => Lawful
  <2> DEFINE y == [phase |-> created, torn |-> x.torn]
  <2>1. y.phase = created /\ y.torn = x.torn
    OBVIOUS
  <2> HIDE DEF y
  <2>2. Secured(q, y) /\ Agrees(ck, q, y) /\ Agrees(d, q, y)
    <3>1. y.phase \in LiveRun => x.phase \in LiveRun
      BY <1>5, <2>1
    <3>2. (~Restarts /\ y.phase \in TerminalStatus => y.torn) /\ (x.torn => y.torn)
      BY <1>5, <1>6, <2>1
    <3> QED
      BY <1>2, <1>4, <3>1, <3>2, RunAgrees
  <2>3. WorkerAgrees(at("provision.record"), ck, q, y)
    BY <1>2, <1>5, <2>1 DEF WorkerAgrees, Holds
  <2>4. WorkerAgrees([pc |-> "commit", ck |-> d], ck, q, y)
    BY <1>4, <2>2, FollowingStillAgrees
  <2>5. /\ x.phase \in TerminalStatus => created \in TerminalStatus
        /\ x.phase \in LiveRun => created \in LiveRun \cup TerminalStatus
    BY <1>5
  <2> QED
    BY <1>1, <1>2, <1>5, <1>8, <2>2, <2>3, <2>4, <2>5, GotoMoves, ReturnMoves, RunMove
    DEF y, x, q, a
<1>9. CASE Compensate(a, created) /\ Goto(i, "provision.reject")
  <2>1. PICK p \in AbortedPhase(created) \cap TerminalStatus : SetRun(a, p, TRUE)
    BY <1>9 DEF Compensate
  <2> DEFINE y == [phase |-> p, torn |-> TRUE]
  <2>2. y.phase = p /\ y.torn = TRUE /\ p \in RunPhase /\ p \notin LiveRun
    BY DEF LiveRun, TerminalStatus, RunPhase
  <2> HIDE DEF y
  <2>3. created \notin TerminalStatus => p = "aborted"
    BY <1>5, AbortsForward
  <2>4. Secured(q, y) /\ Agrees(ck, q, y)
    <3>1. (y.phase \in LiveRun => x.phase \in LiveRun) /\ y.torn
      BY <2>2
    <3> QED
      BY <1>2, <3>1, RunAgrees
  <2>5. WorkerAgrees(at("provision.reject"), ck, q, y)
    BY <1>2, <2>2 DEF WorkerAgrees, Holds
  <2>6. ~Restarts /\ ~x.torn => x.phase \notin TerminalStatus /\ p = "aborted"
    BY <1>5, <1>6, <2>3
  <2> QED
    BY <1>1, <1>2, <1>9, <2>1, <2>2, <2>4, <2>5, <2>6, GotoMoves, RunMove DEF y, x, q, a
<1> QED
  BY <1>1, <1>3, <1>4, <1>7, <1>8, <1>9, ReturnLawful

\* A definitive failure settles the row of a run that is not live, or gives it up.
LEMMA ProvisionRejectLawful ==
    ASSUME LoadInv, SpineInv, SafetyInv, NEW i \in Workers, ProvisionReject(i)
    PROVE  Lawful
<1> DEFINE w == Write("failed", FALSE, FALSE, 0, FALSE, "none")
           c == [ck EXCEPT !.node = "finalize", !.status = "failed"]
           q == row[ck.attempt]
           x == ext[ck.attempt]
<1>1. wk[i].pc = "provision.reject"
  BY DEF ProvisionReject, At
<1>2. /\ wk[i].ck = ck /\ ck \in Checkpoint /\ ck.node = "provision" /\ Staged(ck)
      /\ Agrees(ck, q, x) /\ Secured(q, x) /\ q \in RowOf(Versions)
      /\ x.phase \in LiveRun /\ q.status \in ActiveStatus =>
           Restarts /\ q.version < conn.version
  BY <1>1, InsideOpen DEF InPlace, Holds
<1>3. RecordOrRaise(i, w, c)
  BY <1>2 DEF ProvisionReject
<1>4. w \in WriteOf(Versions) /\ w.status \in TerminalStatus
  <2>1. w \in WriteOf(Versions)
    BY WriteNames, WriteType
  <2> QED
    BY <2>1 DEF Write, TerminalStatus
<1>5. Steps(ck, c, {"finalize"}, ck.marks)
  BY <1>2 DEF Steps, Checkpoint
<1>6. "index" \notin ck.marks
  BY <1>2 DEF Staged
<1>7. ~Restarts => "cleanup" \notin ck.marks /\ x.phase \notin LiveRun
  BY <1>2 DEF Agrees, Tidy, KillNode
<1>8. ck.node \notin BeforeRun \cup AfterRun
  BY <1>2 DEF BeforeRun, AfterRun
<1>9. ~Restarts => ~Upsert(row[ck.attempt], w).handle
  <2>1. ~Restarts /\ row[ck.attempt].handle => row[ck.attempt].status \in ActiveStatus
    BY <1>2 DEF Agrees, Tidy
  <2>2. row[ck.attempt].handle \in BOOLEAN
    BY OpenFacts DEF RowOf
  <2> QED
    BY <2>1, <2>2 DEF Upsert, Write, TransitionAllowed, Superseded, ActiveStatus, TerminalStatus
<1>11. ASSUME x.phase \in LiveRun, TransitionAllowed(q, w)
       PROVE  GivenUp(Upsert(q, w))
  <2>1. CASE q.status \in TerminalStatus
    <3>1. Upsert(q, w) = q
      BY <1>2, <1>4, <1>11, <2>1, UpsertMatures
    <3> QED
      BY <1>2, <1>11, <2>1, <3>1 DEF Secured, ActiveStatus, TerminalStatus
  <2>2. CASE q.status \in ActiveStatus
    <3>1. Upsert(q, w).status = "failed" /\ Upsert(q, w).version = q.version
      BY <1>11, <2>2
      DEF Upsert, Write, TransitionAllowed, Superseded, ActiveStatus, TerminalStatus
    <3> QED
      BY <1>2, <1>11, <2>2, <3>1 DEF GivenUp
  <2>3. q.status # "absent"
    BY <1>2, <1>11 DEF Secured, LiveRun
  <2> QED
    BY <1>2, <2>1, <2>2, <2>3 DEF RowOf
<1> HIDE DEF w, c
<1>10. {"finalize"} \subseteq {"open_output_gate", "finalize"}
  OBVIOUS
<1> QED
  BY <1>1, <1>2, <1>3, <1>4, <1>5, <1>6, <1>7, <1>8, <1>9, <1>10, <1>11, SettleAndLeave

\* READY with the handle: an active row stays what a live run needs.
LEMMA ProvisionRecordLawful ==
    ASSUME LoadInv, SpineInv, SafetyInv, NEW i \in Workers, ProvisionRecord(i)
    PROVE  Lawful
<1> DEFINE a == ck.attempt
           q == row[a]
           x == ext[a]
           w == Write("ready", TRUE, FALSE, 0, FALSE, "none")
           r == Upsert(q, w)
           d == RetryProvision(ck)
           e == Provisioned(ck)
<1>1. wk[i].pc = "provision.record"
  BY DEF ProvisionRecord, At
<1>2. /\ wk[i].ck = ck /\ ck \in Checkpoint /\ ck.node = "provision" /\ ck.node # "end"
      /\ q \in RowOf(Versions) /\ Secured(q, x) /\ Agrees(ck, q, x) /\ q.status # "absent"
  BY <1>1, InsideOpen DEF InPlace, Holds
<1>3. \/ TransitionAllowed(q, w) /\ SetRow(a, r) /\ Return(i, e)
      \/ UNCHANGED outside /\ Raise(i)
      \/ UNCHANGED outside /\ Return(i, d)
      \/ TransitionAllowed(q, w) /\ SetRow(a, r) /\ Return(i, d)
  BY <1>2 DEF ProvisionRecord, Recordable
<1>4. Follows(d) /\ Agrees(d, q, x) /\ Follows(e) /\ Agrees(e, q, x)
  BY <1>2, RetriesFollow, LaunchUpdatesFollow DEF Follows
<1>5. w \in WriteOf(Versions)
  BY WriteNames, WriteType
<1>6. ASSUME TransitionAllowed(q, w)
      PROVE  Secured(r, x) /\ \A c : Agrees(c, q, x) => Agrees(c, r, x)
  <2>1. q.status \in ActiveStatus
    BY <1>2, <1>6 DEF RowOf, TransitionAllowed, Write, TerminalStatus
  <2>2. q.lease
    BY <1>2, <2>1 DEF Secured
  <2>3. /\ r.status \in ActiveStatus /\ r.lease /\ r.version = q.version
        /\ r = q \/ (r.handle /\ r.status # "provisioning")
    BY <2>1, <2>2 DEF Upsert, Write, ActiveStatus, TerminalStatus
  <2> HIDE DEF r, q, x
  <2> QED
    BY <1>2, <2>1, <2>3, ActiveStaysActive
<1> HIDE DEF w, d, e
<1>7. ASSUME TransitionAllowed(q, w), SetRow(a, r), NEW c, Follows(c), Agrees(c, q, x),
             Return(i, c)
      PROVE  Lawful
  <2>1. WorkerAgrees([pc |-> "commit", ck |-> c], ck, r, x)
    BY <1>6, <1>7, FollowingStillAgrees
  <2> QED
    BY <1>1, <1>2, <1>5, <1>6, <1>7, <2>1, ReturnMoves, RecordMove
<1> QED
  BY <1>1, <1>3, <1>4, <1>7, ReturnLawful, RaiseLawful

\* prepare_engine_start: the call goes out for a handle under the caller's pin.
LEMMA StartPrepareLawful ==
    ASSUME LoadInv, SpineInv, SafetyInv, NEW i \in Workers, StartPrepare(i)
    PROVE  Lawful
<1> DEFINE r == row[ck.attempt]
           x == ext[ck.attempt]
           e == [ck EXCEPT !.node = "status"]
<1>1. /\ run = "active" /\ owner = Nobody /\ ck.node = "start" /\ UNCHANGED outside
      /\ \/ StartDecision(r, ck.gen) = "call" /\ Enter(i, "start.call", ck)
         \/ Enter(i, "commit", e)
         \/ run' = "none" /\ UNCHANGED <<ck, owner, wk>>
  BY DEF StartPrepare, Takes
<1>2. StartDecision(r, ck.gen) = "call" =>
        WorkerAgrees([pc |-> "start.call", ck |-> ck], ck, r, x)
  BY DEF StartDecision, SameGeneration, ActiveStatus, WorkerAgrees, Holds
<1>3. WorkerAgrees([pc |-> "commit", ck |-> e], ck, r, x)
  BY <1>1, LaunchUpdatesFollow, FollowingAgrees
<1> HIDE DEF e
<1> QED
  BY <1>1, <1>2, <1>3, EnterLawful, StayingIsLawful

\* adapter.start: load goes live under a reservation at the generation that the
\* provider call was made for.
LEMMA StartCallLawful ==
    ASSUME LoadInv, SpineInv, SafetyInv, NEW i \in Workers, StartCall(i)
    PROVE  Lawful
<1> DEFINE a == ck.attempt
           q == row[a]
           x == ext[a]
           started == IF x.phase = "ready" THEN "running" ELSE x.phase
           d == EnterCleanup(ck)
           at(pc) == [pc |-> pc, ck |-> ck]
<1>1. wk[i].pc = "start.call"
  BY DEF StartCall, At
<1>2. /\ wk[i].ck = ck /\ ck \in Checkpoint /\ ck.node = "start" /\ ck.node # "end"
      /\ x.phase \in RunPhase /\ x.torn \in BOOLEAN /\ Staged(ck)
      /\ Secured(q, x) /\ Agrees(ck, q, x)
      /\ q.status \in ActiveStatus /\ q.handle /\ q.version = ck.gen
  BY <1>1, InsideOpen DEF InPlace, Holds
<1> DEFINE startable == Accepts(ck) /\ x.phase \in {"ready"} \cup LiveRun
<1>3. \/ startable /\ SetRun(a, started, x.torn) /\ Goto(i, "start.record")
      \/ startable /\ Compensate(a, started) /\ Goto(i, "start.reject")
      \/ UNCHANGED outside /\ Return(i, d)
      \/ startable /\ SetRun(a, started, x.torn) /\ Return(i, d)
  BY <1>2 DEF StartCall
<1>4. Follows(d) /\ Steps(ck, d, {"cleanup"}, ck.marks \cup {"cleanup"})
  BY <1>2, LaunchUpdatesFollow, LaunchMoves
<1>5. ASSUME startable
      PROVE  /\ started \in LiveRun /\ started \in RunPhase /\ x.phase \notin TerminalStatus
             /\ started \notin TerminalStatus /\ AcceptsGeneration(conn, q.version)
  BY <1>2, <1>5 DEF RunPhase, LiveRun, TerminalStatus, Accepts
<1>6. q.status # "absent" /\ q.lease
  BY <1>2 DEF ActiveStatus, Secured
<1> HIDE DEF d, started, x, q, a
<1>7. ASSUME startable, SetRun(a, started, x.torn)
      PROVE  /\ Goto(i, "start.record") => Lawful
             /\ Return(i, d) => Lawful
  <2> DEFINE y == [phase |-> started, torn |-> x.torn]
  <2>1. y.phase = started /\ y.phase \in LiveRun /\ y.phase \notin TerminalStatus
    BY <1>5, <1>7
  <2> HIDE DEF y
  <2>2. Secured(q, y)
    BY <1>2, <1>5, <1>6, <1>7, <2>1 DEF Secured
  <2>3. Agrees(ck, q, y)
    BY <1>2, <2>1 DEF Agrees, Pinned, Tidy
  <2>4. Agrees(d, q, y)
    <3>1. d.node = "cleanup" /\ d.marks = ck.marks \cup {"cleanup"}
      BY <1>4 DEF Steps
    <3>2. Tidy(d, q, y)
      BY <1>2, <1>6, <2>1, <3>1 DEF Tidy, KillNode, BeforeRun, AfterRun
    <3> QED
      BY <1>4, <2>3, <3>2, MovedAgrees
  <2>5. WorkerAgrees(at("start.record"), ck, q, y)
    BY <1>2 DEF WorkerAgrees, Holds
  <2>6. WorkerAgrees([pc |-> "commit", ck |-> d], ck, q, y)
    BY <1>4, <2>4, FollowingStillAgrees
  <2> QED
    BY <1>1, <1>2, <1>5, <1>7, <2>2, <2>3, <2>5, <2>6, GotoMoves, ReturnMoves, RunMove
    DEF y, x, q, a
<1>8. CASE startable /\ Compensate(a, started) /\ Goto(i, "start.reject")
  <2>1. PICK p \in AbortedPhase(started) \cap TerminalStatus : SetRun(a, p, TRUE)
    BY <1>8 DEF Compensate
  <2> DEFINE y == [phase |-> p, torn |-> TRUE]
  <2>2. y.phase = p /\ y.torn = TRUE /\ p \in RunPhase /\ p \notin LiveRun
    BY DEF LiveRun, TerminalStatus, RunPhase
  <2> HIDE DEF y
  <2>3. p = "aborted"
    BY <1>5, <1>8, AbortsForward
  <2>4. Secured(q, y) /\ Agrees(ck, q, y)
    <3>1. (y.phase \in LiveRun => x.phase \in LiveRun) /\ y.torn
      BY <2>2
    <3> QED
      BY <1>2, <1>6, <3>1, RunAgrees
  <2>5. WorkerAgrees(at("start.reject"), ck, q, y)
    BY <2>2 DEF WorkerAgrees, Holds
  <2> QED
    BY <1>1, <1>2, <1>5, <1>8, <2>1, <2>2, <2>3, <2>4, <2>5, GotoMoves, RunMove
    DEF y, x, q, a
<1> QED
  BY <1>1, <1>3, <1>4, <1>7, <1>8, ReturnLawful

\* A start whose handle is unsafe settles the row of a run that was compensated.
LEMMA StartRejectLawful ==
    ASSUME LoadInv, SpineInv, SafetyInv, NEW i \in Workers, StartReject(i)
    PROVE  Lawful
<1> DEFINE w == Write("failed", TRUE, TRUE, ck.gen, FALSE, "none")
           c == [ck EXCEPT !.node = "finalize", !.status = "failed", !.marks = @ \ {"cleanup"}]
           x == ext[ck.attempt]
           marks == ck.marks \ {"cleanup"}
<1>1. wk[i].pc = "start.reject"
  BY DEF StartReject, At
<1>2. /\ wk[i].ck = ck /\ ck \in Checkpoint /\ ck.node = "start" /\ Staged(ck)
      /\ ck.gen \in Versions /\ Agrees(ck, row[ck.attempt], x)
      /\ x.phase \in TerminalStatus /\ x.torn
  BY <1>1, InsideOpen DEF InPlace, Holds
<1>3. RecordOrRaise(i, w, c)
  BY <1>2 DEF StartReject
<1>4. w \in WriteOf(Versions) /\ w.status \in TerminalStatus
  <2>1. w \in WriteOf(Versions)
    BY <1>2, WriteNames, WriteType
  <2> QED
    BY <2>1 DEF Write, TerminalStatus
<1>5. Steps(ck, c, {"finalize"}, marks)
  BY <1>2 DEF Steps, Checkpoint
<1>6. "index" \notin ck.marks /\ "index" \notin marks /\ "cleanup" \notin marks
  BY <1>2 DEF Staged
<1>7. ~Restarts => "cleanup" \notin ck.marks
  BY <1>2 DEF Agrees, Tidy, KillNode
<1>8. ck.node \notin BeforeRun \cup AfterRun \cup {"provision", "provision_blocked"}
      /\ x.phase \notin LiveRun
  BY <1>2 DEF BeforeRun, AfterRun, LiveRun, TerminalStatus
<1> HIDE DEF w, c, marks
<1>9. {"finalize"} \subseteq {"open_output_gate", "finalize"}
  OBVIOUS
<1> QED
  BY <1>1, <1>2, <1>3, <1>4, <1>5, <1>6, <1>7, <1>8, <1>9, SettleAndLeave

\* RUNNING, under the pin that the call was made for.
LEMMA StartRecordLawful ==
    ASSUME LoadInv, SpineInv, SafetyInv, NEW i \in Workers, StartRecord(i)
    PROVE  Lawful
<1> DEFINE q == row[ck.attempt]
           x == ext[ck.attempt]
           w == Write("running", TRUE, TRUE, ck.gen, FALSE, "none")
           r == Upsert(q, w)
           c == [ck EXCEPT !.node = "status"]
<1>1. wk[i].pc = "start.record"
  BY DEF StartRecord, At
<1>2. /\ wk[i].ck = ck /\ ck.node = "start" /\ ck.gen \in Versions
      /\ q \in RowOf(Versions) /\ Secured(q, x) /\ Agrees(ck, q, x)
      /\ q.status \in ActiveStatus /\ q.handle /\ q.version = ck.gen
  BY <1>1, InsideOpen DEF InPlace, Holds
<1>3. RecordOrRaise(i, w, c)
  BY <1>2 DEF StartRecord
<1>4. Follows(c)
  BY <1>2, LaunchUpdatesFollow
<1>5. w \in WriteOf(Versions)
  BY <1>2, WriteNames, WriteType
<1>6. /\ r.status \in ActiveStatus /\ r.lease /\ r.version = q.version
      /\ r = q \/ (r.handle /\ r.status # "provisioning")
  BY <1>2 DEF Upsert, Write, ActiveStatus, TerminalStatus, Secured
<1> HIDE DEF w, c, r, q, x
<1>7. Secured(r, x) /\ Agrees(ck, r, x) /\ Agrees(c, r, x)
  BY <1>2, <1>4, <1>6, ActiveStaysActive DEF Follows, q, x
<1>8. Succeeds(c, ck, r, x)
  BY <1>4, <1>7 DEF Follows, Succeeds
<1> QED
  BY <1>1, <1>3, <1>5, <1>7, <1>8, RecordOrRaiseLawful DEF r, q, x

\* recover_engine_completion: a committed kill is trusted, since its witness is true.
LEMMA CleanupRecoverLawful ==
    ASSUME LoadInv, SpineInv, SafetyInv, NEW i \in Workers, CleanupRecover(i)
    PROVE  Lawful
<1> DEFINE r == row[ck.attempt]
           x == ext[ck.attempt]
           decision == CompletionDecision(r, ck.gen, FALSE, "cleanup", TerminalStatus)
           e == Killed(ck)
<1>1. /\ run = "active" /\ owner = Nobody /\ ck.node = "cleanup" /\ UNCHANGED outside
      /\ \/ decision = "effect" /\ Enter(i, "cleanup.call", ck)
         \/ decision = "recover" /\ Enter(i, "commit", e)
         \/ run' = "none" /\ UNCHANGED <<ck, owner, wk>>
  BY DEF CleanupRecover, Takes
<1>2. ck \in Checkpoint /\ Staged(ck) /\ ck.attempt \in Attempts
  BY GraphFacts
<1>3. decision = "effect" => WorkerAgrees([pc |-> "cleanup.call", ck |-> ck], ck, r, x)
  BY DEF CompletionDecision, WorkerAgrees, Holds
<1>4. ASSUME decision = "recover"
      PROVE  WorkerAgrees([pc |-> "commit", ck |-> e], ck, r, x)
  <2>1. r.status \in TerminalStatus /\ r.kind = "cleanup"
    BY <1>4 DEF CompletionDecision
  <2>2. x.phase \in TerminalStatus /\ x.torn
    BY <1>2, <2>1 DEF SafetyInv, Solid, WitnessIsTruthful
  <2>3. x.phase \notin LiveRun
    BY <2>2 DEF LiveRun, TerminalStatus
  <2>4. Steps(ck, e, {"finalize"}, ck.marks \ {"cleanup"})
    BY <1>2, LaunchMoves
  <2> HIDE DEF r, x, e
  <2>5. /\ e.attempt = ck.attempt /\ e.node = "finalize" /\ e.node \in AfterRun
        /\ "cleanup" \notin e.marks /\ ("index" \in e.marks => "index" \in ck.marks)
    BY <2>4 DEF Steps, AfterRun
  <2>6. "index" \notin e.marks
    BY <1>1, <1>2, <2>5 DEF Staged
  <2>7. Agrees(e, r, x)
    BY <2>1, <2>2, <2>3, <2>5, <2>6, OverAgrees
  <2> QED
    BY <2>1, <2>2, <2>5, <2>7 DEF WorkerAgrees, Holds, Succeeds
<1> HIDE DEF e
<1> QED
  BY <1>1, <1>3, <1>4, EnterLawful, StayingIsLawful

\* abort, confirm, teardown: what is released on the way is released by a kill.
LEMMA CleanupCallLawful ==
    ASSUME LoadInv, SpineInv, SafetyInv, NEW i \in Workers, CleanupCall(i)
    PROVE  Lawful
<1> DEFINE a == ck.attempt
           q == row[a]
           x == ext[a]
           d == RetryCleanup(ck)
<1>1. wk[i].pc = "cleanup.call"
  BY DEF CleanupCall, At
<1>2. /\ wk[i].ck = ck /\ ck \in Checkpoint /\ ck.node = "cleanup" /\ ck.node # "end"
      /\ x.phase \in RunPhase /\ x.torn \in BOOLEAN
      /\ Secured(q, x) /\ Agrees(ck, q, x) /\ q.status # "absent"
  BY <1>1, InsideOpen DEF InPlace, Holds
<1>3. \/ \E p \in AbortedPhase(x.phase) :
           \/ SetRun(a, p, TRUE) /\ Goto(i, "cleanup.record")
           \/ SetRun(a, p, x.torn) /\ Return(i, d)
      \/ UNCHANGED outside /\ Return(i, d)
      \/ \E p \in AbortedPhase(x.phase), torn \in BOOLEAN :
           SetRun(a, p, (torn /\ p \in TerminalStatus) \/ x.torn) /\ Return(i, d)
  BY <1>2 DEF CleanupCall
<1>4. Follows(d) /\ Agrees(d, q, x) /\ d.node \in KillNode
  BY <1>2, RetriesFollow, RetriesMove DEF Follows, Steps
<1>5. ~Restarts => "cleanup" \in ck.marks
  BY <1>2 DEF Agrees, Tidy, KillNode
<1> HIDE DEF d, x, q, a
<1>6. ASSUME NEW p \in AbortedPhase(x.phase), NEW t, x.torn => t, SetRun(a, p, t)
      PROVE  /\ Goto(i, "cleanup.record") => Lawful
             /\ Return(i, d) => Lawful
  <2> DEFINE y == [phase |-> p, torn |-> t]
  <2>1. y.phase = p /\ (x.torn => y.torn)
    BY <1>6
  <2> HIDE DEF y
  <2>2. /\ p \in RunPhase
        /\ x.phase \in TerminalStatus => p \in TerminalStatus
        /\ x.phase \in LiveRun => p \in LiveRun \cup TerminalStatus
        /\ p \in LiveRun => x.phase \in LiveRun
    BY <1>2, AbortsForward
  <2>3. Secured(q, y) /\ Agrees(ck, q, y) /\ Agrees(d, q, y)
    <3>1. y.phase \in LiveRun => x.phase \in LiveRun
      BY <2>1, <2>2
    <3>2. /\ ck.node \notin {"provision", "provision_blocked"}
          /\ d.node \notin {"provision", "provision_blocked"}
      BY <1>2, <1>4 DEF KillNode
    <3> QED
      BY <1>2, <1>4, <2>1, <3>1, <3>2, RunAgrees
  <2>4. WorkerAgrees([pc |-> "cleanup.record", ck |-> ck], ck, q, y)
    BY <1>2 DEF WorkerAgrees, Holds
  <2>5. WorkerAgrees([pc |-> "commit", ck |-> d], ck, q, y)
    BY <1>4, <2>3, FollowingStillAgrees
  <2> QED
    BY <1>1, <1>2, <1>5, <1>6, <2>2, <2>3, <2>4, <2>5, GotoMoves, ReturnMoves, RunMove
    DEF y, x, q, a
<1> QED
  BY <1>1, <1>3, <1>4, <1>6, ReturnLawful

\* The kill is recorded of a run that is over and released.
LEMMA CleanupRecordLawful ==
    ASSUME LoadInv, SpineInv, SafetyInv, NEW i \in Workers, CleanupRecord(i)
    PROVE  Lawful
<1> DEFINE x == ext[ck.attempt]
           w == Write(x.phase, TRUE, TRUE, ck.gen, FALSE, "cleanup")
           c == Killed(ck)
           marks == ck.marks \ {"cleanup"}
<1>1. wk[i].pc = "cleanup.record"
  BY DEF CleanupRecord, At
<1>2. /\ wk[i].ck = ck /\ ck \in Checkpoint /\ ck.node = "cleanup" /\ Staged(ck)
      /\ ck.gen \in Versions
  BY <1>1, InsideOpen DEF InPlace
<1>3. x.phase \in TerminalStatus /\ x.torn
  BY <1>1, <1>2, InsideFacts DEF KillConfirmed, Ready
<1>4. RecordOrRaise(i, w, c)
  BY <1>2 DEF CleanupRecord
<1>5. w \in WriteOf(Versions) /\ w.status \in TerminalStatus
  <2>1. w \in WriteOf(Versions)
    BY <1>2, <1>3, WriteNames, WriteType
  <2> QED
    BY <1>3, <2>1 DEF Write
<1>6. Steps(ck, c, {"finalize"}, marks)
  BY <1>2, LaunchMoves
<1>7. "index" \notin ck.marks /\ "index" \notin marks /\ "cleanup" \notin marks
  BY <1>2 DEF Staged
<1>8. ck.node \notin BeforeRun \cup AfterRun \cup {"provision", "provision_blocked"}
      /\ x.phase \notin LiveRun
  BY <1>2, <1>3 DEF BeforeRun, AfterRun, LiveRun, TerminalStatus
<1> HIDE DEF w, c, marks
<1>9. {"finalize"} \subseteq {"open_output_gate", "finalize"}
  OBVIOUS
<1> QED
  BY <1>1, <1>3, <1>4, <1>5, <1>6, <1>7, <1>8, <1>9, SettleAndLeave

\* COLLECTING: a run that is over has a row, which stays active.
LEMMA CollectReserveLawful ==
    ASSUME LoadInv, SpineInv, SafetyInv, NEW i \in Workers, CollectReserve(i)
    PROVE  Lawful
<1> DEFINE a == ck.attempt
           q == row[a]
           x == ext[a]
           w == Write("collecting", TRUE, TRUE, ck.gen, TRUE, "none")
           r == Upsert(q, w)
           d == RetryCollect(ck)
<1>1. /\ run = "active" /\ owner = Nobody /\ ck.node = "collect" /\ ck.node # "end"
      /\ \/ /\ TransitionAllowed(q, w) /\ Accepts(ck) /\ SetRow(a, r)
            /\ Enter(i, "collect.call", ck)
         \/ UNCHANGED outside /\ Enter(i, "commit", d)
         \/ TransitionAllowed(q, w) /\ Accepts(ck) /\ SetRow(a, r) /\ Enter(i, "commit", d)
  BY DEF CollectReserve, Takes, Recordable, Write
<1>2. /\ ck \in Checkpoint /\ ck.gen \in Versions /\ q \in RowOf(Versions)
      /\ Secured(q, x) /\ Agrees(ck, q, x)
  BY OpenFacts DEF Checkpoint
<1>3. x.phase \in TerminalStatus
  BY <1>1, GraphFacts DEF Grounded
<1>4. Follows(d) /\ Agrees(d, q, x)
  BY <1>1, RetriesFollow DEF Follows
<1>5. w \in WriteOf(Versions)
  BY <1>2, WriteNames, WriteType
<1>6. ASSUME TransitionAllowed(q, w), Accepts(ck)
      PROVE  /\ r.status \in ActiveStatus /\ Secured(r, x)
             /\ Agrees(ck, r, x) /\ Agrees(d, r, x)
  <2>1. q.status \in ActiveStatus /\ q.lease
    BY <1>2, <1>3, <1>6
    DEF RowOf, TransitionAllowed, Write, TerminalStatus, ActiveStatus, Secured
  <2>2. r.status = "collecting"
    BY <1>2, <1>5, <1>6, UpsertCollecting DEF Write
  <2>3. /\ r.status \in ActiveStatus /\ r.lease
        /\ r = q \/ (r.handle /\ r.status # "provisioning")
        /\ r.version = q.version \/ r.version = ck.gen
    BY <2>1, <2>2 DEF Upsert, Write, ActiveStatus, TerminalStatus
  <2>4. Unaltered(conn, ck.gen) /\ ck.gen \in Nat
    BY <1>6, Generations DEF Accepts, AcceptsGeneration, Unaltered
  <2>5. d.gen = ck.gen
    BY <1>2, RetriesMove DEF Steps
  <2> HIDE DEF r, q, x, d
  <2> QED
    BY <1>2, <1>4, <2>1, <2>3, <2>4, <2>5, ActiveStaysActive
<1> HIDE DEF w, d
<1>7. ASSUME TransitionAllowed(q, w), Accepts(ck), SetRow(a, r), Enter(i, "collect.call", ck)
      PROVE  Lawful
  <2>1. WorkerAgrees([pc |-> "collect.call", ck |-> ck], ck, r, x)
    BY <1>6, <1>7 DEF WorkerAgrees, Holds
  <2> QED
    BY <1>1, <1>5, <1>6, <1>7, <2>1, EnterMoves, RecordMove
<1>8. ASSUME TransitionAllowed(q, w), Accepts(ck), SetRow(a, r), Enter(i, "commit", d)
      PROVE  Lawful
  <2>1. WorkerAgrees([pc |-> "commit", ck |-> d], ck, r, x)
    BY <1>4, <1>6, <1>8, FollowingStillAgrees
  <2> QED
    BY <1>1, <1>5, <1>6, <1>8, <2>1, EnterMoves, RecordMove
<1>9. WorkerAgrees([pc |-> "commit", ck |-> d], ck, q, x)
  BY <1>4, FollowingAgrees
<1> QED
  BY <1>1, <1>7, <1>8, <1>9, EnterLawful

\* The batch is put into the store before any index names it.
LEMMA CollectCallLawful ==
    ASSUME LoadInv, SpineInv, SafetyInv, NEW i \in Workers, CollectCall(i)
    PROVE  Lawful
<1> DEFINE q == row[ck.attempt]
           x == ext[ck.attempt]
           d == RetryCollect(ck)
<1>1. wk[i].pc = "collect.call"
  BY DEF CollectCall, At
<1>2. /\ wk[i].ck = ck /\ ck \in Checkpoint /\ ck.node = "collect"
      /\ Agrees(ck, q, x) /\ q.status \in ActiveStatus
  BY <1>1, InsideOpen DEF InPlace, Holds
<1>3. /\ UNCHANGED <<row, conn, ext, indexed>>
      /\ \E b : objs' = [objs EXCEPT ![ck.attempt] = b]
      /\ (\E o \in ProjectedPhase(ck.last) : Return(i, Collected(ck, o))) \/ Return(i, d)
  BY <1>2 DEF CollectCall, Collected
<1>4. \A a \in Attempts : (indexed'[a] /\ objs'[a]) = (indexed[a] /\ objs[a])
  <2>1. ~indexed[ck.attempt]
    BY <1>2, GraphFacts DEF Grounded
  <2>2. \A a \in Attempts : a # ck.attempt => objs'[a] = objs[a]
    BY <1>3 DEF SpineInv, OutsideOK
  <2> QED
    BY <1>3, <2>1, <2>2
<1>5. Follows(d)
  BY <1>2, RetriesFollow
<1>6. ASSUME NEW o PROVE Follows(Collected(ck, o))
  <2> DEFINE c == Collected(ck, o)
  <2>1. Steps(ck, c, {"index"}, ck.marks \cup {"index"})
    BY <1>2, LaunchMoves
  <2> HIDE DEF c
  <2>2. c.node = "index" /\ c.marks = ck.marks \cup {"index"}
    BY <2>1 DEF Steps
  <2>3. ~Restarts => Tidy(c, q, x)
    BY <1>2, <2>2 DEF Agrees, Tidy, BeforeRun, AfterRun, KillNode
  <2>4. Follows(c)
    BY <2>1, <2>3, MovedFollows
  <2> QED
    BY <2>4 DEF c
<1>7. ASSUME NEW c, Follows(c), Return(i, c) PROVE Lawful
  BY <1>1, <1>3, <1>4, <1>7, ReturnMoves, FollowingAgrees, StillMove
<1> QED
  BY <1>3, <1>5, <1>6, <1>7

\* The index of a batch that is in the store, under the attempt's reservation.
LEMMA IndexMove ==
    ASSUME LoadInv, SpineInv, SafetyInv, NEW i \in Workers, owner = Nobody, run = "active",
           ck.node = "index", NEW c, Enter(i, "commit", c), Follows(c) \/ c = Indexed(ck),
           UNCHANGED <<row, conn, ext, objs>>,
           indexed' = [indexed EXCEPT ![ck.attempt] = TRUE]
    PROVE  Lawful
<1> DEFINE a == ck.attempt
           q == row[a]
           x == ext[a]
<1>1. /\ ck \in Checkpoint /\ a \in Attempts /\ Secured(q, x) /\ Agrees(ck, q, x)
      /\ "index" \in ck.marks /\ objs[a] = TRUE /\ x.phase \in TerminalStatus
  BY OpenFacts, GraphFacts DEF Grounded
<1>2. Follows(c) => Agrees(c, q, x) /\ Succeeds(c, ck, q, x)
  BY DEF Follows, Succeeds
<1>3. c = Indexed(ck) => Agrees(c, q, x) /\ Succeeds(c, ck, q, x)
  <2>1. Steps(ck, Indexed(ck), {"settle"}, ck.marks \ {"index"})
    BY <1>1, LaunchMoves
  <2> SUFFICES ASSUME c = Indexed(ck) PROVE Agrees(c, q, x) /\ Succeeds(c, ck, q, x)
    OBVIOUS
  <2>2. c.attempt = ck.attempt /\ c.node = "settle" /\ c.marks = ck.marks \ {"index"}
    BY <2>1 DEF Steps
  <2>3. ~Restarts => Tidy(c, q, x)
    BY <1>1, <2>2 DEF Agrees, Tidy, BeforeRun, AfterRun, KillNode, LiveRun, TerminalStatus
  <2>4. Agrees(c, q, x)
    BY <1>1, <2>1, <2>3, MovedAgrees
  <2> QED
    BY <2>2, <2>4 DEF Succeeds
<1>4. WorkerAgrees([pc |-> "commit", ck |-> c], ck, q, x)
  BY <1>2, <1>3 DEF WorkerAgrees, Holds
<1>5. Moves(i, [pc |-> "commit", ck |-> c])
  BY EnterMoves
<1>6. LoadInv'
  BY <1>1, <1>4, <1>5, LoneMove
<1>7. ~Restarts => ContractStep
  <2>1. ~Restarts => HoldsLease(q)
    BY <1>1 DEF Agrees, Tidy, Secured, HoldsLease
  <2>2. ck' = ck
    BY <1>5 DEF Moves
  <2> QED
    BY <1>1, <2>1, <2>2, ContractByIndex
<1>8. KillStep /\ TeardownStep
  BY <1>5 DEF Moves, KillStep, TeardownStep
<1> QED
  BY <1>6, <1>7, <1>8 DEF Lawful

\* engine_collection_index.
LEMMA IndexLawful ==
    ASSUME LoadInv, SpineInv, SafetyInv, NEW i \in Workers, Index(i)
    PROVE  Lawful
<1> DEFINE d == RetryIndex(ck)
<1>1. /\ run = "active" /\ owner = Nobody /\ ck.node = "index"
      /\ UNCHANGED <<row, conn, ext, objs>>
      /\ \/ /\ indexed' = [indexed EXCEPT ![ck.attempt] = TRUE]
            /\ Enter(i, "commit", Indexed(ck)) \/ Enter(i, "commit", d)
         \/ indexed' = indexed /\ Enter(i, "commit", d)
  BY DEF Index, Takes, Indexed
<1>2. Follows(d)
  BY <1>1, RetriesFollow
<1>3. WorkerAgrees([pc |-> "commit", ck |-> d], ck, row[ck.attempt], ext[ck.attempt])
  BY <1>2, FollowingAgrees
<1> HIDE DEF d
<1>4. CASE indexed' = indexed /\ Enter(i, "commit", d)
  BY <1>1, <1>3, <1>4, EnterLawful DEF outside
<1>5. CASE /\ indexed' = [indexed EXCEPT ![ck.attempt] = TRUE]
           /\ Enter(i, "commit", Indexed(ck)) \/ Enter(i, "commit", d)
  BY <1>1, <1>2, <1>5, IndexMove
<1> QED
  BY <1>1, <1>4, <1>5

\* A committed settlement is recovered of a run that is over.
LEMMA SettleRecoverLawful ==
    ASSUME LoadInv, SpineInv, SafetyInv, NEW i \in Workers, SettleRecover(i)
    PROVE  Lawful
<1> DEFINE r == row[ck.attempt]
           x == ext[ck.attempt]
           decision == CompletionDecision(r, ck.gen, TRUE, "collection", {ck.outcome})
           e == Settled(ck)
<1>1. /\ run = "active" /\ owner = Nobody /\ ck.node = "settle" /\ UNCHANGED outside
      /\ \/ Enter(i, "settle.call", ck)
         \/ decision = "recover" /\ Enter(i, "commit", e)
         \/ run' = "none" /\ UNCHANGED <<ck, owner, wk>>
  BY DEF SettleRecover, Takes
<1>2. /\ ck \in Checkpoint /\ Staged(ck) /\ Agrees(ck, r, x)
      /\ x.phase \in TerminalStatus /\ ck.attempt \in Attempts
  BY <1>1, GraphFacts, OpenFacts DEF Grounded
<1>3. WorkerAgrees([pc |-> "settle.call", ck |-> ck], ck, r, x)
  BY DEF WorkerAgrees, Holds
<1>4. ASSUME decision = "recover"
      PROVE  WorkerAgrees([pc |-> "commit", ck |-> e], ck, r, x)
  <2>1. r.status \in TerminalStatus /\ x.torn
    BY <1>2, <1>4 DEF CompletionDecision, SafetyInv, Solid, WitnessIsTruthful
  <2>2. x.phase \notin LiveRun
    BY <1>2 DEF LiveRun, TerminalStatus
  <2>3. Steps(ck, e, {"open_output_gate", "finalize"}, ck.marks \cup {"settled"})
    BY <1>2, LaunchMoves
  <2>4. "index" \notin ck.marks /\ (~Restarts => "cleanup" \notin ck.marks)
    BY <1>1, <1>2 DEF Staged, Agrees, Tidy, KillNode
  <2> HIDE DEF r, x, e
  <2>5. /\ e.attempt = ck.attempt /\ e.node # "end" /\ e.node \in AfterRun
        /\ "index" \notin e.marks /\ (~Restarts => "cleanup" \notin e.marks)
    BY <2>3, <2>4 DEF Steps, AfterRun
  <2>6. Agrees(e, r, x)
    BY <2>1, <2>2, <2>5, OverAgrees
  <2> QED
    BY <2>4, <2>5, <2>6 DEF WorkerAgrees, Holds, Succeeds
<1> HIDE DEF e
<1> QED
  BY <1>1, <1>3, <1>4, EnterLawful, StayingIsLawful

\* teardown of a run whose results are indexed and in the store.
LEMMA SettleCallLawful ==
    ASSUME LoadInv, SpineInv, SafetyInv, NEW i \in Workers, SettleCall(i)
    PROVE  Lawful
<1> DEFINE a == ck.attempt
           q == row[a]
           x == ext[a]
           d == RetrySettle(ck)
           y == [phase |-> x.phase, torn |-> TRUE]
<1>1. wk[i].pc = "settle.call"
  BY DEF SettleCall, At
<1>2. /\ wk[i].ck = ck /\ ck \in Checkpoint /\ ck.node = "settle" /\ ck.node # "end"
      /\ x.phase \in RunPhase /\ Secured(q, x) /\ Agrees(ck, q, x) /\ a \in Attempts
  BY <1>1, InsideOpen DEF InPlace
<1>3. q.status # "absent" /\ indexed[a] /\ objs[a]
  BY <1>1, <1>2, InsideFacts, GraphFacts
  DEF Ready, Grounded, ActiveStatus, SafetyInv, Solid, IndexedObjectsSurvive
<1>4. \/ SetRun(a, x.phase, TRUE) /\ (Goto(i, "settle.record") \/ Return(i, d))
      \/ UNCHANGED outside /\ Return(i, d)
  BY <1>2 DEF SettleCall
<1>5. Follows(d) /\ Agrees(d, q, x)
  BY <1>2, RetriesFollow DEF Follows
<1>6. y.phase = x.phase /\ y.torn = TRUE
  OBVIOUS
<1> HIDE DEF d, y, x, q, a
<1>7. Secured(q, y) /\ Agrees(ck, q, y) /\ Agrees(d, q, y)
  BY <1>2, <1>3, <1>5, <1>6, RunAgrees
<1>8. WorkerAgrees([pc |-> "settle.record", ck |-> ck], ck, q, y)
  BY DEF WorkerAgrees, Holds
<1>9. WorkerAgrees([pc |-> "commit", ck |-> d], ck, q, y)
  BY <1>5, <1>7, FollowingStillAgrees
<1>10. CASE SetRun(a, x.phase, TRUE) /\ (Goto(i, "settle.record") \/ Return(i, d))
  BY <1>1, <1>2, <1>3, <1>7, <1>8, <1>9, <1>10, GotoMoves, ReturnMoves, RunMove
  DEF y, x, q, a
<1> QED
  BY <1>1, <1>4, <1>5, <1>10, ReturnLawful

\* The collection is recorded of a run that is over.
LEMMA SettleRecordLawful ==
    ASSUME LoadInv, SpineInv, SafetyInv, NEW i \in Workers, SettleRecord(i)
    PROVE  Lawful
<1> DEFINE x == ext[ck.attempt]
           w == Write(ck.outcome, TRUE, TRUE, ck.gen, TRUE, "collection")
           c == Settled(ck)
           marks == ck.marks \cup {"settled"}
           nodes == {"open_output_gate", "finalize"}
<1>1. wk[i].pc = "settle.record"
  BY DEF SettleRecord, At
<1>2. /\ wk[i].ck = ck /\ ck \in Checkpoint /\ ck.node = "settle" /\ Staged(ck)
      /\ ck.gen \in Versions /\ Agrees(ck, row[ck.attempt], x)
  BY <1>1, InsideOpen DEF InPlace
<1>3. x.phase \in TerminalStatus /\ x.torn /\ ck.outcome \in TerminalStatus
  BY <1>1, <1>2, InsideFacts, GraphFacts DEF Grounded, Staged, Ready
<1>4. RecordOrRaise(i, w, c)
  BY <1>2 DEF SettleRecord
<1>5. w \in WriteOf(Versions) /\ w.status \in TerminalStatus
  <2>1. w \in WriteOf(Versions)
    BY <1>2, <1>3, WriteNames, WriteType
  <2> QED
    BY <1>3, <2>1 DEF Write
<1>6. Steps(ck, c, nodes, marks)
  BY <1>2, LaunchMoves
<1>7. "index" \notin ck.marks /\ "index" \notin marks
  BY <1>2 DEF Staged
<1>8. ~Restarts => "cleanup" \notin ck.marks /\ "cleanup" \notin marks
  BY <1>2 DEF Agrees, Tidy, KillNode
<1>9. ck.node \notin BeforeRun \cup AfterRun \cup {"provision", "provision_blocked"}
      /\ x.phase \notin LiveRun
  BY <1>2, <1>3 DEF BeforeRun, AfterRun, LiveRun, TerminalStatus
<1>10. nodes \subseteq {"open_output_gate", "finalize"}
  OBVIOUS
<1> HIDE DEF w, c, marks, nodes
<1> QED
  BY <1>1, <1>3, <1>4, <1>5, <1>6, <1>7, <1>8, <1>9, <1>10, SettleAndLeave

\* The update of a cancelled run is dropped.
LEMMA DropLawful ==
    ASSUME LoadInv, SpineInv, SafetyInv, NEW i \in Workers, Commit(i), owner # i
    PROVE  Lawful
<1>1. wk[i].pc = "commit" /\ UNCHANGED <<ck, run, outside>> /\ wk' = [wk EXCEPT ![i] = Idle]
  BY DEF Commit, At
<1>2. Moves(i, Idle)
  BY <1>1, InsideAlone DEF Moves
<1>3. WorkerAgrees(Idle, ck, row[ck.attempt], ext[ck.attempt])
  BY IdleAgrees DEF Idle
<1> QED
  BY <1>1, <1>2, <1>3, StillMove DEF outside

\* The superstep commits.
LEMMA CommitLawful ==
    ASSUME LoadInv, SpineInv, SafetyInv, NEW i \in Workers, Commit(i), owner = i
    PROVE  Lawful
<1> DEFINE c == wk[i].ck
<1>1. wk[i].pc = "commit" /\ UNCHANGED <<row, conn, ext, objs, indexed>>
  BY DEF Commit, At, outside
<1>2. run = "active" /\ \A j \in Workers \ {i} : wk[j].pc = "idle"
  BY <1>1, InsideAlone, EngineAssumption DEF Abandoned
<1>3. ck' = c /\ run' = RunAfter(c) /\ wk' = [wk EXCEPT ![i] = Idle]
  BY <1>2 DEF Commit
<1>4. Succeeds(c, ck, row[ck.attempt], ext[ck.attempt])
  BY <1>1 DEF LoadInv, WorkerAgrees
<1>5. \A j \in Workers : wk'[j].pc = "idle"
  BY <1>2, <1>3 DEF SpineInv, WorkersOK, Idle
<1> HIDE DEF c
<1>6. c.attempt = ck.attempt /\ c.node # "end" /\ ck.node # "end"
  BY <1>2, <1>4 DEF Succeeds, LoadInv
<1>7. LoadInv'
  <2>1. \A a \in Attempts : Secured(row[a], ext[a])'
    BY <1>1 DEF LoadInv, Secured, GivenUp
  <2>2. Agrees(ck, row[ck.attempt], ext[ck.attempt])'
    BY <1>1, <1>3, <1>4, <1>6 DEF Succeeds, Agrees, Pinned, Tidy
  <2>3. \A j \in Workers : WorkerAgrees(wk[j], ck, row[ck.attempt], ext[ck.attempt])'
    BY <1>5 DEF WorkerAgrees, Holds
  <2>4. ~Restarts => Alone'
    BY <1>1, <1>3, <1>6 DEF LoadInv, Alone
  <2> QED
    BY <1>3, <1>6, <2>1, <2>2, <2>3, <2>4 DEF LoadInv, RunAfter
<1>8. ContractStep
  <2>1. Verdict(ck)' = Verdict(ck)
    BY <1>3, <1>6 DEF Verdict
  <2> QED
    BY <1>1, <1>3, <1>6, <2>1, ContractStutters
<1>9. ~Restarts => KillStep /\ TeardownStep
  BY <1>1, <1>3, <1>4 DEF Succeeds, KillStep, TeardownStep
<1> QED
  BY <1>7, <1>8, <1>9 DEF Lawful

\* A crash loses what a worker has not committed.
LEMMA CrashLawful ==
    ASSUME LoadInv, SpineInv, SafetyInv, NEW i \in Workers, Crash(i)
    PROVE  Lawful
<1>1. wk[i].pc # "idle" /\ ck' = ck /\ UNCHANGED outside /\ wk' = [wk EXCEPT ![i] = Idle]
  BY DEF Crash
<1>2. Moves(i, Idle)
  BY <1>1, InsideAlone, EngineAssumption DEF Moves, Crash, Abandoned
<1>3. WorkerAgrees(Idle, ck, row[ck.attempt], ext[ck.attempt])
  BY IdleAgrees DEF Idle
<1> QED
  BY <1>1, <1>2, <1>3, StillMove DEF outside

\* What still holds of an attempt when its run is stopped from outside the graph,
\* or ends: the run is not revived, and was started or named before.
LEMMA StoppedAgrees ==
    ASSUME NEW r, NEW x, NEW y, Secured(r, x), r.status # "absent",
           y.phase \in LiveRun => x.phase \in LiveRun,
           x.phase \in TerminalStatus => y.phase \in TerminalStatus,
           x.torn => y.torn, x.phase \in LiveRun \/ Named(r) \/ y.phase = x.phase
    PROVE  /\ Secured(r, y)
           /\ \A c : Agrees(c, r, x) => Agrees(c, r, y)
           /\ \A w, e : WorkerAgrees(w, e, r, x) => WorkerAgrees(w, e, r, y)
<1>1. Secured(r, y)
  BY DEF Secured
<1>2. ASSUME NEW c, Agrees(c, r, x) PROVE Agrees(c, r, y)
  <2>1. /\ ~Restarts /\ y.phase \in TerminalStatus
        /\ c.node \in {"provision", "provision_blocked"}
        => y.torn \/ r.handle \/ r.status \in TerminalStatus
    BY <1>2 DEF Agrees, Tidy, KillNode, Named
  <2> QED
    BY <1>2, <2>1, RunAgrees
<1>3. ASSUME NEW w, NEW e, WorkerAgrees(w, e, r, x) PROVE WorkerAgrees(w, e, r, y)
  <2>1. Holds(w, r, y)
    BY <1>3 DEF WorkerAgrees, Holds
  <2>2. w.pc = "commit" => Succeeds(w.ck, e, r, y)
    BY <1>2, <1>3 DEF WorkerAgrees, Succeeds
  <2> QED
    BY <2>1, <2>2 DEF WorkerAgrees
<1> QED
  BY <1>1, <1>2, <1>3

\* A call on a run, whatever attempt it belongs to, that does not come from the graph.
LEMMA OutsideCallKeepsLoads ==
    ASSUME LoadInv, SpineInv, NEW a \in Attempts, NEW p \in RunPhase, NEW t,
           SetRun(a, p, t), UNCHANGED <<ck, wk>>, run' = "active" => run = "active",
           row[a].status # "absent",
           p \in LiveRun => ext[a].phase \in LiveRun,
           ext[a].phase \in TerminalStatus => p \in TerminalStatus,
           ext[a].torn => t, ext[a].phase \in LiveRun \/ Named(row[a]) \/ p = ext[a].phase
    PROVE  LoadInv'
<1> DEFINE y == [phase |-> p, torn |-> t]
<1>1. y.phase = p /\ y.torn = t
  OBVIOUS
<1>2. /\ UNCHANGED <<row, conn, objs, indexed>>
      /\ \A b \in Attempts : ext'[b] = IF b = a THEN y ELSE ext[b]
  BY DEF SetRun, SpineInv, OutsideOK
<1> HIDE DEF y
<1>3. ck.attempt \in Attempts /\ Secured(row[a], ext[a])
  BY OpenFacts DEF LoadInv
<1>4. /\ Secured(row[a], y)
      /\ \A c : Agrees(c, row[a], ext[a]) => Agrees(c, row[a], y)
      /\ \A w, e : WorkerAgrees(w, e, row[a], ext[a]) => WorkerAgrees(w, e, row[a], y)
  BY <1>1, <1>3, StoppedAgrees
<1>5. ASSUME NEW b \in Attempts PROVE Secured(row[b], ext[b])'
  <2>1. Secured(row[b], ext'[b])
    BY <1>2, <1>4 DEF LoadInv
  <2> QED
    BY <1>2, <2>1 DEF Secured, GivenUp
<1>6. Agrees(ck, row[ck.attempt], ext[ck.attempt])'
  <2>1. Agrees(ck, row[ck.attempt], ext'[ck.attempt])
    BY <1>2, <1>3, <1>4 DEF LoadInv
  <2> QED
    BY <1>2, <2>1 DEF Agrees, Pinned, Tidy
<1>7. ASSUME NEW j \in Workers
      PROVE  WorkerAgrees(wk[j], ck, row[ck.attempt], ext[ck.attempt])'
  <2>1. WorkerAgrees(wk[j], ck, row[ck.attempt], ext'[ck.attempt])
    BY <1>2, <1>3, <1>4 DEF LoadInv
  <2> QED
    BY <1>2, <2>1 DEF WorkerAgrees, Holds, Succeeds, Agrees, Pinned, Tidy
<1>8. ~Restarts => Alone'
  BY <1>1, <1>2 DEF LoadInv, Alone
<1> QED
  BY <1>5, <1>6, <1>7, <1>8 DEF LoadInv

\* A run ends on the provider's side, whatever attempt it belongs to.
LEMMA ProviderEndsLawful ==
    ASSUME LoadInv, SpineInv, SafetyInv, NEW a \in Attempts, ProviderEnds(a)
    PROVE  Lawful
<1>1. PICK p \in TerminalStatus : SetRun(a, p, ext[a].torn)
  BY DEF ProviderEnds
<1>2. p \in RunPhase /\ p \notin LiveRun
  BY DEF RunPhase, LiveRun, TerminalStatus
<1>3. ext[a].phase \in LiveRun /\ ck' = ck /\ wk' = wk /\ run' = run
  BY DEF ProviderEnds, worker
<1>4. row[a].status # "absent"
  BY <1>3 DEF LoadInv, Secured, LiveRun
<1>5. LoadInv'
  BY <1>1, <1>2, <1>3, <1>4, OutsideCallKeepsLoads
<1>6. ContractStep
  BY <1>1, <1>2, <1>3, ContractByRun
<1>7. KillStep /\ TeardownStep
  BY <1>1, <1>3 DEF KillStep, TeardownStep, SetRun, SpineInv, OutsideOK
<1> QED
  BY <1>5, <1>6, <1>7 DEF Lawful

\* The administrator alters nothing that a live run needs: disabling is refused while
\* a row holds a reservation, and a PATCH only advances the generation.
LEMMA AdministratorLawful ==
    ASSUME LoadInv, SpineInv, SafetyInv, Administrator
    PROVE  Lawful
<1>1. ck' = ck /\ wk' = wk /\ run' = run /\ UNCHANGED <<row, ext, objs, indexed>>
  BY DEF Administrator, ToggleConnection, PatchConnection, worker
<1>2. conn'.version = conn.version + 1
  BY Generations
  DEF Administrator, ToggleConnection, PatchConnection, Toggled, Altered, Repeated,
      ConnectionOf
<1>3. ASSUME NEW a \in Attempts, row[a].status \in ActiveStatus
      PROVE  conn'.enabled /\ conn'.since = conn.since
  <2>1. row[a].lease /\ Unaltered(conn, row[a].version)
    BY <1>3 DEF LoadInv, Secured
  <2>2. conn.enabled /\ HoldsLease(row[a])
    BY <1>3, <2>1 DEF Unaltered, HoldsLease
  <2>3. PatchConnection
    BY <2>2 DEF Administrator, ToggleConnection
  <2> QED
    BY <2>2, <2>3, Generations DEF PatchConnection, Repeated, ConnectionOf
<1>4. \A a \in Attempts : Secured(row[a], ext[a])'
  <2>1. ASSUME NEW a \in Attempts PROVE Secured(row[a], ext[a])'
    <3>1. Secured(row[a], ext[a])
      BY DEF LoadInv
    <3>2. row[a].status \in ActiveStatus => Unaltered(conn', row[a].version)
      BY <1>2, <1>3, <3>1, Generations DEF Secured, Unaltered
    <3>3. GivenUp(row[a]) => GivenUp(row[a])'
      BY <1>1, <1>2, Generations DEF GivenUp
    <3> QED
      BY <1>1, <3>1, <3>2, <3>3 DEF Secured
  <2> QED
    BY <2>1
<1>5. ck.attempt \in Attempts /\ row[ck.attempt].version \in Nat
  BY OpenFacts, Generations
<1>7. Agrees(ck, row[ck.attempt], ext[ck.attempt])'
  <2>1. Agrees(ck, row[ck.attempt], ext[ck.attempt]) /\ ck.gen \in Nat
    BY Generations DEF LoadInv
  <2>2. Pinned(ck, row[ck.attempt])'
    BY <1>1, <1>2, <1>5, <2>1, Generations DEF Agrees, Pinned
  <2> QED
    BY <1>1, <2>1, <2>2 DEF Agrees, Tidy
<1>8. ASSUME NEW i \in Workers
      PROVE  WorkerAgrees(wk[i], ck, row[ck.attempt], ext[ck.attempt])'
  <2> DEFINE r == row[ck.attempt]
             x == ext[ck.attempt]
  <2>1. WorkerAgrees(wk[i], ck, r, x) /\ wk[i].ck.gen \in Nat
    BY Generations DEF LoadInv
  <2>2. Holds(wk[i], r, x)'
    BY <1>1, <1>2, <1>5, <2>1, Generations DEF WorkerAgrees, Holds
  <2>3. ASSUME wk[i].pc = "commit" PROVE Succeeds(wk[i].ck, ck, r, x)'
    <3>1. Agrees(wk[i].ck, r, x)
      BY <2>1, <2>3 DEF WorkerAgrees, Succeeds
    <3>2. Pinned(wk[i].ck, r)'
      BY <1>1, <1>2, <1>5, <2>1, <3>1, Generations DEF Agrees, Pinned
    <3>3. Agrees(wk[i].ck, r, x)'
      BY <1>1, <3>1, <3>2 DEF Agrees, Tidy
    <3> QED
      BY <1>1, <2>1, <2>3, <3>3 DEF WorkerAgrees, Succeeds
  <2> QED
    BY <1>1, <2>2, <2>3 DEF WorkerAgrees
<1>9. LoadInv'
  BY <1>1, <1>4, <1>7, <1>8 DEF LoadInv, Alone
<1>10. ContractStep
  <2>1. Verdict(ck)' = Verdict(ck)
    BY <1>1 DEF Verdict
  <2> QED
    BY <1>1, <2>1, ContractStutters
<1> QED
  BY <1>1, <1>9, <1>10 DEF Lawful, KillStep, TeardownStep

\* A thread that nobody has touched.
LEMMA InitIsLoad == ASSUME Untouched PROVE LoadInv
<1>1. /\ ck = FreshEntry(1) /\ wk = [i \in Workers |-> Idle]
      /\ row = [a \in Attempts |-> NoRow]
      /\ ext = [a \in Attempts |-> [phase |-> "none", torn |-> FALSE]]
  BY DEF Untouched
<1>2. /\ ck.attempt = 1 /\ ck.node = "prepare" /\ ck.gen = 0 /\ ck.marks = {}
      /\ 1 \in Attempts
  BY <1>1, EngineAssumption DEF FreshEntry, Attempts
<1>3. \A a \in Attempts :
        row[a].status = "absent" /\ ~row[a].handle /\ ext[a].phase = "none"
  BY <1>1 DEF NoRow
<1>4. \A a \in Attempts : Secured(row[a], ext[a])
  BY <1>3 DEF Secured, ActiveStatus, LiveRun
<1>5. Agrees(ck, row[ck.attempt], ext[ck.attempt])
  BY <1>2, <1>3
  DEF Agrees, Pinned, Tidy, BeforeRun, AfterRun, KillNode, LiveRun, TerminalStatus
<1>6. \A i \in Workers : WorkerAgrees(wk[i], ck, row[ck.attempt], ext[ck.attempt])
  BY <1>1, IdleAgrees DEF Idle
<1>7. Alone
  BY <1>3 DEF Alone, ActiveStatus, LiveRun
<1> QED
  BY <1>2, <1>4, <1>5, <1>6, <1>7 DEF LoadInv, InterruptNode

\* Every step of the spine keeps the invariant; without restarts it is a step of
\* the contract, holds on to a kill intent, and tears nothing down that is awaited.
LEMMA StepLawful ==
    ASSUME LoadInv, SpineInv, SafetyInv, [EngineNext]_engineVars
    PROVE  Lawful
<1>1. ASSUME NEW i \in Workers, WorkerStep(i) PROVE Lawful
  BY <1>1, ProvisionResolveLawful, ProvisionPrepareLawful, ProvisionCallLawful,
     ProvisionRejectLawful, ProvisionRecordLawful, StartPrepareLawful, StartCallLawful,
     StartRejectLawful, StartRecordLawful, CleanupRecoverLawful, CleanupCallLawful,
     CleanupRecordLawful, CollectReserveLawful, CollectCallLawful, IndexLawful,
     SettleRecoverLawful, SettleCallLawful, SettleRecordLawful, CommitLawful, DropLawful
  DEF WorkerStep
<1>2. ASSUME NEW i \in Workers, Crash(i) PROVE Lawful
  BY <1>2, CrashLawful
<1>3. CASE NodeStep
  BY <1>3, NodeStepLawful
<1>4. CASE Stop
  BY <1>4, StayingIsLawful DEF Stop
<1>5. CASE Operator
  BY <1>5, OperatorLawful
<1>6. CASE Administrator
  BY <1>6, AdministratorLawful
<1>7. ASSUME NEW a \in Attempts, ProviderEnds(a) PROVE Lawful
  BY <1>7, ProviderEndsLawful
<1>8. CASE UNCHANGED engineVars
  BY <1>8, StayingIsLawful DEF engineVars, outside, LoadInv
<1> QED
  BY <1>1, <1>2, <1>3, <1>4, <1>5, <1>6, <1>7, <1>8 DEF EngineNext

-----------------------------------------------------------------------------
(* What any step does to rows and runs.                                    *)

\* Ended rows stay as they are, named ones named.
RowsStay ==
    \A a \in Attempts :
        /\ row[a].status \in TerminalStatus => row'[a] = row[a]
        /\ Named(row[a]) => Named(row'[a])

\* The load of an attempt stays as it is, ends, or is started by a worker.
Starts(a) == ext[a].phase = "ready" /\ \E i \in Workers : StartCall(i) /\ wk[i].ck.attempt = a
LoadsStep ==
    \A a \in Attempts :
        \/ Load(ext'[a].phase) = Load(ext[a].phase)
        \/ Load(ext[a].phase) \in {"unused", "live"} /\ Load(ext'[a].phase) = "over"
        \/ Starts(a)

\* A transaction on a row: a terminal row takes no upsert and no reservation, and
\* a write of a row that is not over names the run.
LEMMA SetRowEffect ==
    ASSUME SpineInv, NEW a \in Attempts, NEW r, SetRow(a, r),
           \/ \E w : Named(w) /\ r = Upsert(row[a], w)
           \/ \E v : r = InsertReservation(row[a], v)
    PROVE  RowsStay /\ LoadsStep
<1>1. row' = [row EXCEPT ![a] = r] /\ ext' = ext
  BY DEF SetRow
<1>2. /\ row[a].status \in TerminalStatus => r = row[a]
      /\ Named(row[a]) => Named(r)
  <2>1. CASE \E v : r = InsertReservation(row[a], v)
    BY <2>1 DEF InsertReservation, TerminalStatus, Named
  <2>2. ASSUME NEW w, Named(w), r = Upsert(row[a], w)
        PROVE  /\ row[a].status \in TerminalStatus => r = row[a]
               /\ Named(row[a]) => Named(r)
    <3>1. row[a].status \in TerminalStatus => r = row[a]
      BY <2>2 DEF Upsert, TransitionAllowed, Superseded
    <3>2. r = row[a] \/ (r.status = w.status /\ r.handle = w.handle)
      BY <2>2 DEF Upsert
    <3> QED
      BY <2>2, <3>1, <3>2 DEF Named
  <2> QED
    BY <2>1, <2>2
<1>3. \A b \in Attempts : row'[b] = IF b = a THEN r ELSE row[b]
  BY <1>1 DEF SpineInv, OutsideOK
<1> QED
  BY <1>1, <1>2, <1>3 DEF RowsStay, LoadsStep

\* A provider call that starts nothing.
LEMMA SetRunEffect ==
    ASSUME SpineInv, NEW a \in Attempts, NEW p, NEW torn, SetRun(a, p, torn),
           Load(p) = Load(ext[a].phase) \/ p \in TerminalStatus
    PROVE  RowsStay /\ LoadsStep
<1>1. ext' = [ext EXCEPT ![a] = [phase |-> p, torn |-> torn]] /\ row' = row
  BY DEF SetRun
<1>2. \A b \in Attempts : ext'[b] = IF b = a THEN [phase |-> p, torn |-> torn] ELSE ext[b]
  BY <1>1 DEF SpineInv, OutsideOK
<1>3. Load(ext[a].phase) \in {"unused", "live", "over"} /\ (p \in TerminalStatus => Load(p) = "over")
  BY DEF Load, TerminalStatus, LiveRun
<1> QED
  BY <1>1, <1>2, <1>3 DEF RowsStay, LoadsStep

\* A step without effects on rows and runs.
LEMMA NoEffect == ASSUME UNCHANGED <<row, ext>> PROVE RowsStay /\ LoadsStep
  BY DEF RowsStay, LoadsStep

\* A recorded write.
LEMMA RecordEffect ==
    ASSUME SpineInv, NEW i \in Workers, NEW w, NEW c, Named(w), RecordOrRaise(i, w, c)
    PROVE  RowsStay /\ LoadsStep
<1> DEFINE a == wk[i].ck.attempt
<1>1. a \in Attempts
  BY WorkerCopy DEF Good, Checkpoint
<1>2. UNCHANGED outside \/ SetRow(a, Upsert(row[a], w))
  BY DEF RecordOrRaise
<1> HIDE DEF a
<1> QED
  BY <1>1, <1>2, SetRowEffect, NoEffect DEF outside

\* What a worker's step inside a node does.
LEMMA WorkerEffect ==
    ASSUME SpineInv, NEW i \in Workers, WorkerStep(i)
    PROVE  RowsStay /\ LoadsStep
<1> DEFINE a == wk[i].ck.attempt
           p == ext[a].phase
<1>1. a \in Attempts /\ ck.attempt \in Attempts
  BY WorkerCopy, GraphCopy DEF Good, Checkpoint
<1>2. CASE \/ ProvisionResolve(i) \/ StartPrepare(i) \/ CleanupRecover(i) \/ CollectCall(i)
           \/ Index(i) \/ SettleRecover(i) \/ Commit(i)
  BY <1>2, NoEffect
  DEF ProvisionResolve, StartPrepare, CleanupRecover, CollectCall, Index, SettleRecover,
      Commit, outside
<1>3. CASE \/ ProvisionReject(i) \/ StartReject(i) \/ StartRecord(i) \/ CleanupRecord(i)
           \/ SettleRecord(i)
  <2>1. /\ Named(Write("failed", FALSE, FALSE, 0, FALSE, "none"))
        /\ \A g : /\ Named(Write("failed", TRUE, TRUE, g, FALSE, "none"))
                 /\ Named(Write("running", TRUE, TRUE, g, FALSE, "none"))
                 /\ Named(Write(p, TRUE, TRUE, g, FALSE, "cleanup"))
                 /\ Named(Write(wk[i].ck.outcome, TRUE, TRUE, g, TRUE, "collection"))
    <3>1. p # "absent" /\ wk[i].ck.outcome # "absent"
      BY <1>1, WorkerCopy DEF SpineInv, OutsideOK, RunPhase, LiveRun, TerminalStatus, Good,
                              Checkpoint
    <3> QED
      BY <3>1 DEF Named, Write, TerminalStatus
  <2> HIDE DEF a, p
  <2> QED
    BY <1>3, <2>1, RecordEffect
    DEF a, p, ProvisionReject, StartReject, StartRecord, CleanupRecord, SettleRecord
<1>4. CASE ProvisionPrepare(i)
  <2>1. UNCHANGED outside \/ SetRow(a, InsertReservation(row[a], wk[i].ck.gen))
    BY <1>4 DEF ProvisionPrepare
  <2> QED
    BY <1>1, <2>1, SetRowEffect, NoEffect DEF outside
<1>5. CASE ProvisionRecord(i)
  <2> DEFINE w == Write("ready", TRUE, FALSE, 0, FALSE, "none")
  <2>1. UNCHANGED outside \/ SetRow(a, Upsert(row[a], w))
    BY <1>5 DEF ProvisionRecord
  <2>2. Named(w) /\ w.handle
    BY DEF Named, Write
  <2> HIDE DEF w
  <2> QED
    BY <1>1, <2>1, <2>2, SetRowEffect, NoEffect DEF outside
<1>6. CASE CollectReserve(i)
  <2> DEFINE w == Write("collecting", TRUE, TRUE, ck.gen, TRUE, "none")
  <2>1. UNCHANGED outside \/ SetRow(ck.attempt, Upsert(row[ck.attempt], w))
    BY <1>6 DEF CollectReserve
  <2>2. Named(w) /\ w.handle
    BY DEF Named, Write
  <2> HIDE DEF w
  <2> QED
    BY <1>1, <2>1, <2>2, SetRowEffect, NoEffect DEF outside
<1>7. CASE ProvisionCall(i)
  <2> DEFINE created == IF p = "none" THEN "ready" ELSE p
  <2>1. UNCHANGED outside \/ SetRun(a, created, ext[a].torn) \/ Compensate(a, created)
    BY <1>7 DEF ProvisionCall
  <2>2. Load(created) = Load(p)
    BY DEF Load, LiveRun, TerminalStatus
  <2> QED
    BY <1>1, <2>1, <2>2, SetRunEffect, NoEffect DEF outside, Compensate
<1>8. CASE StartCall(i)
  <2> DEFINE started == IF p = "ready" THEN "running" ELSE p
  <2>1. UNCHANGED outside \/ SetRun(a, started, ext[a].torn) \/ Compensate(a, started)
    BY <1>8 DEF StartCall
  <2>2. CASE p = "ready" /\ SetRun(a, started, ext[a].torn)
    <3>1. Starts(a) /\ row' = row
      BY <1>8, <2>2 DEF Starts, SetRun
    <3>2. \A b \in Attempts \ {a} : ext'[b] = ext[b]
      BY <2>2 DEF SetRun, SpineInv, OutsideOK
    <3> QED
      BY <3>1, <3>2 DEF RowsStay, LoadsStep
  <2>3. CASE p # "ready" /\ SetRun(a, started, ext[a].torn)
    BY <1>1, <2>3, SetRunEffect
  <2> QED
    BY <1>1, <2>1, <2>2, <2>3, SetRunEffect, NoEffect DEF outside, Compensate
<1>9. CASE CleanupCall(i)
  <2>1. \A q \in AbortedPhase(p) : Load(q) = Load(p) \/ q \in TerminalStatus
    BY DEF AbortedPhase, Load, LiveRun, TerminalStatus
  <2>2. UNCHANGED outside \/ \E q \in AbortedPhase(p) : \E torn : SetRun(a, q, torn)
    <3>1. CASE \E q \in AbortedPhase(p) :
                 IF q \in TerminalStatus THEN SetRun(a, q, TRUE) ELSE SetRun(a, q, ext[a].torn)
      BY <3>1
    <3>2. CASE \E q \in AbortedPhase(p), torn \in BOOLEAN :
                 SetRun(a, q, (torn /\ q \in TerminalStatus) \/ ext[a].torn)
      BY <3>2
    <3> QED
      BY <1>9, <3>1, <3>2 DEF CleanupCall
  <2> HIDE DEF a, p
  <2>3. ASSUME NEW q \in AbortedPhase(p), NEW torn, SetRun(a, q, torn)
        PROVE  RowsStay /\ LoadsStep
    BY <1>1, <2>1, <2>3, SetRunEffect DEF p
  <2> QED
    BY <2>2, <2>3, NoEffect DEF outside
<1>10. CASE SettleCall(i)
  <2>1. UNCHANGED outside \/ SetRun(a, p, TRUE)
    BY <1>10 DEF SettleCall
  <2> QED
    BY <1>1, <2>1, SetRunEffect, NoEffect DEF outside
<1> QED
  BY <1>2, <1>3, <1>4, <1>5, <1>6, <1>7, <1>8, <1>9, <1>10 DEF WorkerStep

\* What any step does.
LEMMA StepEffect ==
    ASSUME SpineInv, [EngineNext]_engineVars
    PROVE  RowsStay /\ LoadsStep
<1>1. ASSUME NEW i \in Workers, WorkerStep(i) PROVE RowsStay /\ LoadsStep
  BY <1>1, WorkerEffect
<1>2. ASSUME NEW i \in Workers, Crash(i) PROVE RowsStay /\ LoadsStep
  BY <1>2, NoEffect DEF Crash, outside
<1>3. CASE NodeStep
  BY <1>3, NoEffect
  DEF NodeStep, Prepare, Reserve, StageAffinity, InitialStatus, Poll, PollTimeout, StageStore,
      OpenOutputGate, Finalize, outside
<1>4. CASE Operator
  BY <1>4, NoEffect
  DEF Operator, DecidePrompt, DecideOutput, ResumeBlocked, Rerun, Restart, Continue, outside
<1>5. CASE Stop \/ Administrator
  BY <1>5, NoEffect DEF Stop, Administrator, ToggleConnection, PatchConnection, outside
<1>6. ASSUME NEW a \in Attempts, ProviderEnds(a) PROVE RowsStay /\ LoadsStep
  BY <1>6, SetRunEffect DEF ProviderEnds
<1>7. CASE UNCHANGED engineVars
  BY <1>7, NoEffect DEF engineVars
<1> QED
  BY <1>1, <1>2, <1>3, <1>4, <1>5, <1>6, <1>7 DEF EngineNext

-----------------------------------------------------------------------------
(* What the invariant and the initial states imply.                        *)

\* The attempts the graph is done with run no load.
LEMMA NoLoadAtTheEnd == ASSUME LoadInv, ~Restarts PROVE FinishedPhaseLeavesNoLoad
<1> SUFFICES ASSUME NEW a \in Attempts, Finished(a) PROVE ext[a].phase \notin LiveRun
  BY DEF FinishedPhaseLeavesNoLoad
<1>1. CASE a # ck.attempt
  BY <1>1 DEF LoadInv, Alone
<1>2. CASE a = ck.attempt
  <2>1. \A b \in Attempts : ~(b < b)
    BY EngineAssumption DEF Attempts
  <2>2. ck.node = "end"
    BY <1>2, <2>1 DEF Finished
  <2> QED
    BY <1>2, <2>2 DEF LoadInv, Agrees, Tidy, KillNode
<1> QED
  BY <1>1, <1>2

\* An untouched thread is an initial state of the contract.
LEMMA ContractInitially == ASSUME EngineInit PROVE Contract!ContractInit
<1>1. /\ ck.attempt = 1 /\ ck.node = "prepare"
      /\ \A a \in Attempts : /\ row[a].status = "absent" /\ ext[a].phase = "none"
                             /\ indexed[a] = FALSE
  BY DEF EngineInit, Untouched, FreshEntry, NoRow
<1>2. \A a \in Attempts : /\ HoldsLease(row[a]) = FALSE
                         /\ Load(ext[a].phase) = "unused"
  BY <1>1 DEF HoldsLease, ActiveStatus, Load, LiveRun, TerminalStatus
<1>3. Verdict(ck) = "open"
  BY <1>1 DEF Verdict
<1>4. [a \in Attempts |-> HoldsLease(row[a])] = [a \in Attempts |-> FALSE]
  BY <1>2
<1>5. [a \in Attempts |-> Load(ext[a].phase)] = [a \in Attempts |-> "unused"]
  BY <1>2
<1>6. [a \in Attempts |-> indexed[a] /\ objs[a]] = [a \in Attempts |-> FALSE]
  BY <1>1
<1> QED
  BY <1>1, <1>3, <1>4, <1>5, <1>6 DEF Contract!ContractInit

-----------------------------------------------------------------------------
(* The theorems.                                                           *)

\* The spine keeps the invariant of its load, whatever fails, restarts or is
\* administered meanwhile.
THEOREM LoadHolds == EngineSpec => [](LoadInv /\ SpineInv /\ SafetyInv)
<1>1. EngineInit => LoadInv
  BY InitIsLoad DEF EngineInit
<1>2. LoadInv /\ SpineInv /\ SafetyInv /\ [EngineNext]_engineVars => LoadInv'
  BY StepLawful DEF Lawful
<1> QED
  BY <1>1, <1>2, SpineIsSafe, PTL DEF EngineSpec

\* While load runs its row holds the connection, which is enabled and has the values
\* the row was reserved on, for every thread, whatever fails and whoever starts runs:
\* disable looks for durable references, and a PATCH can only repeat values.  A row
\* that a run started anew gave up, after such a PATCH, is the exception the property
\* states.
THEOREM LoadIsReachable == EngineSpec => []LoadStaysReachable
<1>1. LoadInv => LoadStaysReachable
  BY DEF LoadInv, Secured, GivenUp, LoadStaysReachable
<1> QED
  BY <1>1, LoadHolds, PTL

\* What the graph is done with runs no load: "kill before finalize".
THEOREM NoLoadIsLeft ==
    ASSUME ~Restarts PROVE EngineSpec => []FinishedPhaseLeavesNoLoad
<1>1. LoadInv => FinishedPhaseLeavesNoLoad
  BY NoLoadAtTheEnd
<1> QED
  BY <1>1, LoadHolds, PTL

\* A checkpointed kill is dropped only when the run is over, its resources are
\* released and the row says so, over every crash and retry.
THEOREM KillIntentIsHeld ==
    ASSUME ~Restarts PROVE EngineSpec => KillIntentHeldUntilConfirmed
<1>1. LoadInv /\ SpineInv /\ SafetyInv /\ [EngineNext]_engineVars
        => [KillStep]_engineVars
  BY StepLawful DEF Lawful
<1> QED
  BY <1>1, LoadHolds, PTL DEF EngineSpec, KillIntentHeldUntilConfirmed, KillStep

\* A teardown never destroys results that somebody still waits for.
THEOREM TeardownIsSafe ==
    ASSUME ~Restarts PROVE EngineSpec => TeardownNeverLosesResults
<1>1. LoadInv /\ SpineInv /\ SafetyInv /\ [EngineNext]_engineVars
        => [TeardownStep]_engineVars
  BY StepLawful DEF Lawful
<1> QED
  BY <1>1, LoadHolds, PTL DEF EngineSpec, TeardownNeverLosesResults, TeardownStep

\* The spine, with its crashes, retries and replays, implements the contract of
\* the execution phase.
THEOREM SpineImplementsContract ==
    ASSUME ~Restarts PROVE EngineSpec => ImplementsContract
<1>1. EngineInit => Contract!ContractInit
  BY ContractInitially
<1>2. LoadInv /\ SpineInv /\ SafetyInv /\ [EngineNext]_engineVars
        => [Contract!ContractNext]_(Contract!contractVars)
  BY StepLawful DEF Lawful, ContractStep
<1> QED
  BY <1>1, <1>2, LoadHolds, PTL DEF EngineSpec, ImplementsContract, Contract!ContractSpec

\* Live load has an owner: the attempt that is worked on, which still reserves the
\* connection that can stop it.
THEOREM LoadIsOwned ==
    ASSUME ~Restarts PROVE EngineSpec => []Contract!LiveLoadIsOwned
<1>1. LoadInv => Contract!LiveLoadIsOwned
  <2> SUFFICES ASSUME LoadInv, NEW a \in Attempts, Load(ext[a].phase) = "live"
               PROVE  Contract!Open(a) /\ HoldsLease(row[a])
    BY DEF Contract!LiveLoadIsOwned
  <2>1. ext[a].phase \in LiveRun
    BY DEF Load, LiveRun, TerminalStatus
  <2>2. a = ck.attempt
    BY <2>1 DEF LoadInv, Alone
  <2>3. Tidy(ck, row[a], ext[a]) /\ Secured(row[a], ext[a])
    BY <2>2 DEF LoadInv, Agrees
  <2> QED
    BY <2>1, <2>2, <2>3
    DEF Tidy, KillNode, Secured, GivenUp, HoldsLease, Contract!Open, Verdict
<1> QED
  BY <1>1, LoadHolds, PTL

\* A thread never runs two loads at a time.
THEOREM SingleLoad ==
    ASSUME ~Restarts PROVE EngineSpec => []Contract!OneLoadAtATime
<1>1. LoadInv => Contract!OneLoadAtATime
  <2>1. ASSUME LoadInv, NEW a \in Attempts, Load(ext[a].phase) = "live"
        PROVE  a = ck.attempt
    BY <2>1 DEF Load, LiveRun, TerminalStatus, LoadInv, Alone
  <2> QED
    BY <2>1 DEF Contract!OneLoadAtATime
<1> QED
  BY <1>1, LoadHolds, PTL

\* A phase reported as succeeded has its results, and leaves neither live load nor
\* a reservation on the thread.
THEOREM CleanSuccess ==
    ASSUME ~Restarts PROVE EngineSpec => []Contract!SuccessIsClean
<1>1. LoadInv /\ SpineInv /\ SafetyInv => Contract!SuccessIsClean
  <2> SUFFICES ASSUME LoadInv, SpineInv, SafetyInv, Verdict(ck) = "success"
               PROVE  /\ indexed[ck.attempt] /\ objs[ck.attempt]
                      /\ \A a \in Attempts : Load(ext[a].phase) # "live" /\ ~HoldsLease(row[a])
    BY OpenFacts DEF Contract!SuccessIsClean
  <2>1. ck.node = "end" /\ ck.status = "succeeded"
    BY DEF Verdict
  <2>2. indexed[ck.attempt] /\ objs[ck.attempt]
    BY <2>1, GraphFacts DEF Grounded, MaySucceed, SafetyInv, Solid, IndexedObjectsSurvive
  <2>3. \A a \in Attempts : ext[a].phase \notin LiveRun /\ row[a].status \notin ActiveStatus
    <3>1. Tidy(ck, row[ck.attempt], ext[ck.attempt]) /\ ck.attempt \in Attempts
      BY OpenFacts DEF Agrees
    <3>2. /\ ext[ck.attempt].phase \notin LiveRun
          /\ row[ck.attempt].status \notin ActiveStatus
      BY <2>1, <3>1 DEF Tidy, AfterRun, KillNode
    <3>3. ASSUME NEW a \in Attempts, a # ck.attempt
          PROVE  ext[a].phase \notin LiveRun /\ row[a].status \notin ActiveStatus
      <4>1. a < ck.attempt \/ a > ck.attempt
        BY <3>1, <3>3, EngineAssumption DEF Attempts
      <4> QED
        BY <3>3, <4>1 DEF LoadInv, Alone, ActiveStatus
    <3> QED
      BY <3>2, <3>3
  <2>4. ASSUME NEW a \in Attempts PROVE Load(ext[a].phase) # "live"
    BY <2>3 DEF Load
  <2> QED
    BY <2>2, <2>3, <2>4 DEF HoldsLease
<1> QED
  BY <1>1, LoadHolds, PTL

\* Load that ended never comes back, under its own attempt or by a replay.
THEOREM AtMostOnce ==
    ASSUME ~Restarts PROVE EngineSpec => Contract!LoadRunsAtMostOnce
<1> DEFINE load == [a \in Attempts |-> Load(ext[a].phase)]
           A == \A a \in Attempts : load[a] = "over" => load'[a] = "over"
<1>1. ContractStep => [A]_(Contract!contractVars)
  <2> SUFFICES ASSUME Contract!ContractNext, NEW a \in Attempts, load[a] = "over"
               PROVE  load'[a] = "over"
    BY DEF ContractStep
  <2> HIDE DEF load
  <2>1. ASSUME NEW b \in Attempts,
               Contract!Hold(b) \/ Contract!Keep(b) \/ Contract!Release(b)
        PROVE  load' = load
    BY <2>1 DEF Contract!Hold, Contract!Keep, Contract!Release, load
  <2>2. CASE Contract!Finish \/ Contract!Again
    BY <2>2 DEF Contract!Finish, Contract!Again, load
  <2>3. ASSUME NEW b \in Attempts, Contract!Begin(b)
        PROVE  load' = [load EXCEPT ![b] = "live"] /\ load[b] = "unused"
    BY <2>3 DEF Contract!Begin, load
  <2>4. ASSUME NEW b \in Attempts, Contract!Over(b)
        PROVE  load' = [load EXCEPT ![b] = "over"]
    BY <2>4 DEF Contract!Over, load
  <2>5. DOMAIN load = Attempts
    BY DEF load
  <2> QED
    BY <2>1, <2>2, <2>3, <2>4, <2>5 DEF Contract!ContractNext
<1>2. LoadInv /\ SpineInv /\ SafetyInv /\ [EngineNext]_engineVars
        => [A]_(Contract!contractVars)
  BY <1>1, StepLawful DEF Lawful
<1> QED
  BY <1>2, LoadHolds, PTL DEF EngineSpec, Contract!LoadRunsAtMostOnce
=============================================================================
