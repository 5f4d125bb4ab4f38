------------------------- MODULE EngineAbortProofs -------------------------
(***************************************************************************)
(* The kill switch of EngineAbort, racing the spine it stops, for any set  *)
(* of workers and any bounds.  The hypotheses stand for what the code does *)
(* not promise otherwise: nobody takes up a cancelled run again (Continues)*)
(* and no caller starts a run with input on an unfinished attempt          *)
(* (Restarts).                                                             *)
(***************************************************************************)
EXTENDS EngineAbort, EngineSpineProofs

-----------------------------------------------------------------------------
(* The inductive invariant.                                                *)

\* What the request still knows of what it read: the attempt it targets is not
\* one to come, was named when its run is called, is over once the stop is
\* confirmed, and is past when the service finalizes it.
AskInv ==
    /\ ab \in [pc : AbortStage, att : Attempts, mon : BOOLEAN, answer : AbortAnswer]
    /\ older \in BOOLEAN
    /\ ab.att <= ck.attempt
    /\ ab.pc # "idle" => ab.answer = "none"
    /\ ab.pc \in {"queue", "provider"} => Named(row[ab.att])
    /\ ab.pc \in {"recheck", "teardown", "project"} => ext[ab.att].phase \in TerminalStatus
    /\ ab.pc \in {"teardown", "project"} => ab.att < ck.attempt
    /\ ConfirmedMeansStopped

EngineInv == LoadInv /\ SpineInv /\ SafetyInv

AbortInv == EngineInv /\ AskInv

-----------------------------------------------------------------------------
(* The spine, seen by the request.                                         *)

\* Attempts are only added, a named row stays named, and a run that is over stays so.
Onward ==
    /\ ck'.attempt \in Attempts /\ ck.attempt <= ck'.attempt
    /\ \A a \in Attempts :
         /\ Named(row[a]) => Named(row'[a])
         /\ ext[a].phase \in TerminalStatus => ext'[a].phase \in TerminalStatus

\* The contract counts attempts up.
LEMMA ContractCountsUp ==
    ASSUME SpineInv, SpineInv', ContractStep PROVE ck.attempt <= ck'.attempt
<1>1. ck.attempt \in Nat
  BY EngineAssumption DEF SpineInv, GraphOK, Good, Checkpoint, Attempts
<1>2. ck'.attempt = ck.attempt \/ ck'.attempt = ck.attempt + 1
  <2>1. ASSUME NEW a \in Attempts,
               \/ Contract!Hold(a) \/ Contract!Begin(a) \/ Contract!Over(a)
               \/ Contract!Keep(a) \/ Contract!Release(a)
        PROVE  ck'.attempt = ck.attempt
    BY <2>1 DEF Contract!Hold, Contract!Begin, Contract!Over, Contract!Keep, Contract!Release
  <2>2. CASE Contract!Finish \/ Contract!Again
    BY <2>2 DEF Contract!Finish, Contract!Again
  <2>3. CASE UNCHANGED Contract!contractVars
    BY <2>3 DEF Contract!contractVars
  <2> QED
    BY <2>1, <2>2, <2>3 DEF ContractStep, Contract!ContractNext
<1> QED
  BY <1>1, <1>2

\* A step of the spine.
LEMMA SpineStep ==
    ASSUME EngineInv, ~Restarts, [EngineNext]_engineVars
    PROVE  EngineInv' /\ ContractStep /\ KillStep /\ TeardownStep /\ Onward
<1>1. EngineInv' /\ ContractStep /\ KillStep /\ TeardownStep
  BY StepKeeps, StepSafe, StepLawful DEF EngineInv, Lawful
<1>2. RowsStay /\ LoadsStep
  BY StepEffect DEF EngineInv
<1>3. ASSUME NEW a \in Attempts, ext[a].phase \in TerminalStatus
      PROVE  ext'[a].phase \in TerminalStatus
  <2>1. Load(ext[a].phase) = "over" /\ ~Starts(a)
    BY <1>3 DEF Load, LiveRun, TerminalStatus, Starts
  <2>2. Load(ext'[a].phase) = "over"
    BY <1>2, <2>1 DEF LoadsStep
  <2> QED
    BY <2>2 DEF Load
<1>4. ck'.attempt \in Attempts /\ ck.attempt <= ck'.attempt
  BY <1>1, ContractCountsUp DEF EngineInv, SpineInv, GraphOK, Good, Checkpoint
<1> QED
  BY <1>1, <1>2, <1>3, <1>4 DEF Onward, RowsStay

\* The request waits, or only what it was told of its monitor changes.
LEMMA RequestWaits ==
    ASSUME SpineInv, AskInv, Onward, NEW m \in BOOLEAN, ab' = [ab EXCEPT !.mon = m],
           older' \in BOOLEAN
    PROVE  AskInv'
<1>1. /\ ab' \in [pc : AbortStage, att : Attempts, mon : BOOLEAN, answer : AbortAnswer]
      /\ ab'.pc = ab.pc /\ ab'.att = ab.att /\ ab'.answer = ab.answer /\ ab.att \in Attempts
  BY DEF AskInv
<1>2. ab.att \in Nat /\ ck.attempt \in Nat /\ ck'.attempt \in Nat
  BY <1>1, EngineAssumption
  DEF Onward, Attempts, SpineInv, GraphOK, Good, Checkpoint
<1>3. ab.att <= ck'.attempt /\ (ab.att < ck.attempt => ab.att < ck'.attempt)
  BY <1>2 DEF AskInv, Onward
<1> QED
  BY <1>1, <1>3 DEF AskInv, Onward, ConfirmedMeansStopped

\* The spine moves while the request is anywhere.
LEMMA EngineStepKeeps ==
    ASSUME AbortInv, ~Restarts, EngineStep
    PROVE  AbortInv' /\ ContractStep /\ KillStep /\ TeardownStep
<1>1. EngineInv' /\ ContractStep /\ KillStep /\ TeardownStep /\ Onward
  BY SpineStep DEF EngineStep, AbortInv
<1>2. PICK m \in BOOLEAN : ab' = [ab EXCEPT !.mon = m]
  BY DEF EngineStep, AbortInv, AskInv
<1>3. older' \in BOOLEAN
  BY DEF EngineStep, AbortInv, AskInv
<1> QED
  BY <1>1, <1>2, <1>3, RequestWaits DEF AbortInv, EngineInv

-----------------------------------------------------------------------------
(* The request's steps.                                                    *)

\* The spine stands still.
LEMMA SpineStands ==
    ASSUME EngineInv, UNCHANGED engineVars
    PROVE  /\ EngineInv' /\ ContractStep /\ KillStep /\ TeardownStep
           /\ UNCHANGED <<ck, row, ext>>
<1>1. EngineInv'
  BY StepKeeps, StepSafe, StepLawful DEF EngineInv, Lawful
<1>2. UNCHANGED <<ck, run, owner, wk, row, conn, ext, objs, indexed, faults>>
  BY DEF engineVars
<1>3. ContractStep
  BY <1>2, ContractStutters DEF Verdict
<1> QED
  BY <1>1, <1>2, <1>3 DEF KillStep, TeardownStep

\* The request moves on, answers, or begins: what it asserts next.
LEMMA RequestMoves ==
    ASSUME AskInv, UNCHANGED <<ck, row, ext>>, older' \in BOOLEAN, ab.pc # "idle",
           NEW pc \in AbortStage, AbortGoto(pc),
           pc \in {"queue", "provider"} => Named(row[ab.att]),
           pc \in {"recheck", "teardown", "project"} => ext[ab.att].phase \in TerminalStatus,
           pc \in {"teardown", "project"} => ab.att < ck.attempt
    PROVE  AskInv'
<1>1. /\ ab' \in [pc : AbortStage, att : Attempts, mon : BOOLEAN, answer : AbortAnswer]
      /\ ab'.pc = pc /\ ab'.att = ab.att /\ ab'.answer = "none"
  BY DEF AskInv, AbortGoto
<1> QED
  BY <1>1 DEF AskInv, ConfirmedMeansStopped

\* An answer: "confirmed" only of a run that is over.
LEMMA RequestAnswers ==
    ASSUME AskInv, ck' = ck, older' \in BOOLEAN, NEW answer \in AbortAnswer, Answers(answer),
           answer = "confirmed" => ext'[ab.att].phase \in TerminalStatus
    PROVE  AskInv'
<1>1. /\ ab' \in [pc : AbortStage, att : Attempts, mon : BOOLEAN, answer : AbortAnswer]
      /\ ab'.pc = "idle" /\ ab'.att = ab.att /\ ab'.answer = answer
  BY DEF AskInv, Answers, NoAbort, AbortStage
<1> QED
  BY <1>1 DEF AskInv, ConfirmedMeansStopped

\* The steps that only read.
LEMMA ReadingKeeps ==
    ASSUME AbortInv,
           \/ BeginAbort \/ ReadState \/ ReadProjection \/ ReadQueue
           \/ CheckMonitor \/ ConfirmStop \/ Recheck
    PROVE  AbortInv' /\ ContractStep /\ KillStep /\ TeardownStep
<1>1. UNCHANGED engineVars /\ older' \in BOOLEAN
  BY DEF BeginAbort, ReadState, ReadProjection, ReadQueue, CheckMonitor, ConfirmStop, Recheck,
         EngineUnchanged, AbortInv, AskInv
<1>2. EngineInv' /\ ContractStep /\ KillStep /\ TeardownStep /\ UNCHANGED <<ck, row, ext>>
  BY <1>1, SpineStands DEF AbortInv
<1>3. AskInv /\ SpineInv
  BY DEF AbortInv, EngineInv
<1>4. CASE BeginAbort
  <2>1. /\ ab' \in [pc : AbortStage, att : Attempts, mon : BOOLEAN, answer : AbortAnswer]
        /\ ab'.pc = "state" /\ ab'.att = 1 /\ ab'.answer = "none"
    <3>1. PICK m \in BOOLEAN : ab' = [NoAbort EXCEPT !.pc = "state", !.mon = m]
      BY <1>4 DEF BeginAbort
    <3>2. 1 \in Attempts
      BY EngineAssumption DEF Attempts
    <3> QED
      BY <3>1, <3>2 DEF NoAbort, AbortStage, AbortAnswer
  <2>2. 1 <= ck.attempt
    BY <1>3 DEF SpineInv, GraphOK, Good, Checkpoint, Attempts
  <2> QED
    BY <1>1, <1>2, <2>1, <2>2 DEF AskInv, ConfirmedMeansStopped, AbortInv
<1>5. CASE ReadState
  <2>1. ck.attempt \in Attempts /\ ab.answer = "none"
    BY <1>3, <1>5 DEF SpineInv, GraphOK, Good, Checkpoint, ReadState, AbortAt, AskInv
  <2>2. /\ ab' \in [pc : AbortStage, att : Attempts, mon : BOOLEAN, answer : AbortAnswer]
        /\ ab'.pc = "projection" /\ ab'.att = ck.attempt /\ ab'.answer = "none"
    BY <1>3, <1>5, <2>1 DEF ReadState, AskInv, AbortStage
  <2>3. ck.attempt <= ck.attempt
    BY <2>1, EngineAssumption DEF Attempts
  <2> QED
    BY <1>1, <1>2, <2>2, <2>3 DEF AskInv, ConfirmedMeansStopped, AbortInv
<1>6. CASE ReadProjection
  <2>1. NamesExternalRun(row[ab.att]) => Named(row[ab.att])
    BY DEF NamesExternalRun, Named, ActiveStatus
  <2>2. ab.pc # "idle"
    BY <1>6 DEF ReadProjection, AbortAt
  <2>3. \/ NamesExternalRun(row[ab.att]) /\ AbortGoto("queue")
        \/ Answers("provisioning_pending")
        \/ AbortGoto("fallback")
    BY <1>6 DEF ReadProjection
  <2>4. /\ {"queue", "fallback"} \subseteq AbortStage 
        /\ "provisioning_pending" \in AbortAnswer
    BY DEF AbortStage, AbortAnswer
  <2> QED
    BY <1>1, <1>2, <1>3, <2>1, <2>2, <2>3, <2>4, RequestMoves, RequestAnswers DEF AbortInv
<1>7. CASE ReadQueue
  <2>1. /\ ab' \in [pc : AbortStage, att : Attempts, mon : BOOLEAN, answer : AbortAnswer]
        /\ ab'.pc = "provider" /\ ab'.att = ab.att /\ ab'.answer = ab.answer
        /\ ab.pc = "queue"
    BY <1>3, <1>7 DEF ReadQueue, AskInv, AbortStage, AbortAt
  <2> QED
    BY <1>1, <1>2, <1>3, <2>1 DEF AskInv, ConfirmedMeansStopped, AbortInv
<1>8. CASE CheckMonitor \/ ConfirmStop
  <2>1. \/ \E answer \in {"confirmed", "stopping", "confirmation_pending"} :
             /\ Answers(answer)
             /\ answer = "confirmed" => ext[ab.att].phase \in TerminalStatus
        \/ ext[ab.att].phase \in TerminalStatus /\ AbortGoto("recheck")
        \/ AbortGoto("confirm")
    BY <1>8 DEF CheckMonitor, ConfirmStop
  <2>2. ab.pc # "idle" /\ {"recheck", "confirm"} \subseteq AbortStage
        /\ {"confirmed", "stopping", "confirmation_pending"} \subseteq AbortAnswer
    BY <1>8 DEF CheckMonitor, ConfirmStop, AbortAt, AbortStage, AbortAnswer
  <2> QED
    BY <1>1, <1>2, <1>3, <2>1, <2>2, RequestMoves, RequestAnswers DEF AbortInv
<1>9. CASE Recheck
  <2>1. ab.pc = "recheck" /\ ext[ab.att].phase \in TerminalStatus
    BY <1>3, <1>9 DEF Recheck, AbortAt, AskInv
  <2>2. \/ Answers("graph_finalization_pending") \/ Answers("confirmed")
        \/ ck.attempt # ab.att /\ AbortGoto("teardown")
    BY <1>9 DEF Recheck
  <2>3. ck.attempt # ab.att => ab.att < ck.attempt
    BY <1>3, EngineAssumption
    DEF AskInv, Attempts, SpineInv, GraphOK, Good, Checkpoint
  <2>4. /\ "teardown" \in AbortStage
        /\ {"graph_finalization_pending", "confirmed"} \subseteq AbortAnswer
    BY DEF AbortStage, AbortAnswer
  <2> QED
    BY <1>1, <1>2, <1>3, <2>1, <2>2, <2>3, <2>4, RequestMoves, RequestAnswers DEF AbortInv
<1> QED
  BY <1>4, <1>5, <1>6, <1>7, <1>8, <1>9

\* A call on a run from outside the graph: it revives no run, and takes nothing back.
LEMMA OutsideCall ==
    ASSUME EngineInv, NEW a \in Attempts, NEW p \in RunPhase, NEW t \in BOOLEAN,
           SetRun(a, p, t), UNCHANGED <<ck, worker>>, Fault \/ Calm,
           row[a].status # "absent",
           p \in LiveRun => ext[a].phase \in LiveRun,
           ext[a].phase \in LiveRun => p \in LiveRun \cup TerminalStatus,
           ext[a].phase \in TerminalStatus => p \in TerminalStatus,
           ext[a].torn => t, Named(row[a]) \/ p = ext[a].phase
    PROVE  /\ EngineInv' /\ ContractStep /\ KillStep
           /\ (t => ext[a].torn \/ (a < ck.attempt /\ ~row[a].handle)) => TeardownStep
<1>1. UNCHANGED <<ck, wk, run, owner>>
  BY DEF worker
<1>2. UNCHANGED row /\ ext'[a].phase = p
  BY DEF SetRun, EngineInv, SpineInv, OutsideOK
<1>3. SpineInv'
  <2>1. OutsideOK' /\ OverStaysOver
    BY SetRunKeeps DEF EngineInv, SpineInv
  <2>2. WorkersOK'
    BY <1>1, <2>1, WorkersStay DEF EngineInv, SpineInv
  <2>3. FaultsOK'
    BY FaultsStay DEF EngineInv, SpineInv, Calm
  <2> QED
    BY <1>1, <2>1, <2>2, <2>3 DEF EngineInv, SpineInv, GraphOK, Good, Staged
<1>4. SafetyInv'
  <2>1. Quiet
    BY SetRunIsQuiet DEF EngineInv
  <2> QED
    BY <1>1, <1>2, <2>1, QuietStep DEF EngineInv
<1>5. LoadInv'
  BY <1>1, OutsideCallKeepsLoads DEF EngineInv
<1>6. ContractStep
  <2>1. Load(p) = Load(ext[a].phase) \/ p \in TerminalStatus
    BY DEF Load, LiveRun, TerminalStatus
  <2> QED
    BY <1>1, <2>1, ContractByRun DEF EngineInv
<1>7. (t => ext[a].torn \/ (a < ck.attempt /\ ~row[a].handle)) => TeardownStep
  BY DEF TeardownStep, SetRun, EngineInv, SpineInv, OutsideOK
<1> QED
  BY <1>1, <1>3, <1>4, <1>5, <1>6, <1>7 DEF EngineInv, KillStep

\* The outside stands still, but for a failure that is counted.
LEMMA OutsideStands ==
    ASSUME EngineInv, UNCHANGED <<ck, worker, outside>>, Fault \/ Calm
    PROVE  EngineInv' /\ ContractStep /\ KillStep /\ TeardownStep
<1>1. UNCHANGED <<ck, wk, run, owner, row, conn, ext, objs, indexed>>
  BY DEF worker, outside
<1>2. SpineInv'
  BY <1>1, RunChanges DEF EngineInv, SpineInv, GraphOK
<1>3. SafetyInv'
  BY <1>1, StayingIsQuiet, QuietStep DEF EngineInv
<1>4. LoadInv'
  BY <1>1
  DEF EngineInv, LoadInv, Secured, GivenUp, Agrees, Pinned, Tidy, WorkerAgrees, Holds, Succeeds, Alone
<1>5. ContractStep
  BY <1>1, ContractStutters DEF Verdict
<1> QED
  BY <1>1, <1>2, <1>3, <1>4, <1>5 DEF EngineInv, KillStep, TeardownStep

\* adapter.abort of a run that the row names.
LEMMA AbortProviderKeeps ==
    ASSUME AbortInv, AbortProvider
    PROVE  AbortInv' /\ ContractStep /\ KillStep /\ TeardownStep
<1> DEFINE a == ab.att
           p == ext[a].phase
<1>1. /\ AskInv /\ EngineInv /\ ab.pc = "provider" /\ a \in Attempts
      /\ UNCHANGED <<ck, worker>> /\ older' = older
  BY DEF AbortInv, AbortProvider, AbortAt, AskInv
<1>2. /\ Named(row[a]) /\ p \in RunPhase /\ ext[a].torn \in BOOLEAN
  BY <1>1 DEF AskInv, EngineInv, SpineInv, OutsideOK
<1>3. {"monitor"} \subseteq AbortStage /\ {"provider_failed"} \subseteq AbortAnswer
  BY DEF AbortStage, AbortAnswer
<1>4. ASSUME NEW q \in AbortedPhase(p), SetRun(a, q, ext[a].torn), Fault \/ Calm
      PROVE  EngineInv' /\ ContractStep /\ KillStep /\ TeardownStep /\ row' = row
  <2>1. /\ q \in RunPhase /\ (p \in TerminalStatus => q \in TerminalStatus)
        /\ p \in LiveRun => q \in LiveRun \cup TerminalStatus
        /\ q \in LiveRun => p \in LiveRun
    BY <1>2, AbortsForward
  <2>2. row[a].status # "absent"
    BY <1>2 DEF Named
  <2>3. PICK t \in BOOLEAN : t = ext[a].torn
    BY <1>2
  <2> HIDE DEF a
  <2> QED
    BY <1>1, <1>2, <1>4, <2>1, <2>2, <2>3, OutsideCall DEF SetRun
<1>5. ASSUME UNCHANGED outside, Fault \/ Calm
      PROVE  EngineInv' /\ ContractStep /\ KillStep /\ TeardownStep /\ row' = row
  BY <1>1, <1>5, OutsideStands DEF outside
<1>6. ASSUME NEW q \in AbortedPhase(p), SetRun(a, q, ext[a].torn), Fault \/ Calm,
             AbortGoto("monitor")
      PROVE  AbortInv' /\ ContractStep /\ KillStep /\ TeardownStep
  <2>1. /\ ab' \in [pc : AbortStage, att : Attempts, mon : BOOLEAN, answer : AbortAnswer]
        /\ ab'.pc = "monitor" /\ ab'.att = ab.att /\ ab'.answer = "none"
    BY <1>1, <1>3, <1>6 DEF AskInv, AbortGoto
  <2> QED
    BY <1>1, <1>4, <1>6, <2>1 DEF AbortInv, AskInv, ConfirmedMeansStopped
<1>7. ASSUME Answers("provider_failed") PROVE AskInv'
  BY <1>1, <1>3, <1>7, RequestAnswers DEF AskInv
<1>8. \/ \E q \in AbortedPhase(p) :
           /\ SetRun(a, q, ext[a].torn) /\ (Fault \/ Calm)
           /\ AbortGoto("monitor") \/ Answers("provider_failed")
      \/ UNCHANGED outside /\ (Fault \/ Calm) /\ Answers("provider_failed")
  BY DEF AbortProvider
<1> QED
  BY <1>4, <1>5, <1>6, <1>7, <1>8 DEF AbortInv

\* The service's own teardown and projection, of an attempt that the graph left
\* behind: its load is over, and its row settled.
LEMMA AbortFinalizeKeeps ==
    ASSUME AbortInv, ~Restarts, AbortTeardown \/ AbortProject
    PROVE  AbortInv' /\ ContractStep /\ KillStep /\ TeardownStep
<1> DEFINE a == ab.att
           p == ext[a].phase
<1>1. /\ AskInv /\ EngineInv /\ ab.pc \in {"teardown", "project"} /\ a \in Attempts
      /\ UNCHANGED <<ck, worker>> /\ older' = older
  BY DEF AbortInv, AbortTeardown, AbortProject, AbortAt, AskInv
<1>2. /\ p \in TerminalStatus /\ a < ck.attempt /\ row[a].status \notin ActiveStatus
      /\ row[a].handle => ext[a].torn
  BY <1>1 DEF AskInv, EngineInv, LoadInv, Alone
<1>3. /\ p \in RunPhase /\ p \notin LiveRun /\ p # "none" /\ row[a].status # "absent"
  BY <1>1, <1>2
  DEF EngineInv, SpineInv, OutsideOK, LoadInv, Secured, LiveRun, TerminalStatus
<1>4. ASSUME UNCHANGED outside, Fault \/ Calm
      PROVE  EngineInv' /\ ContractStep /\ KillStep /\ TeardownStep /\ UNCHANGED <<row, ext>>
  BY <1>1, <1>4, OutsideStands DEF outside
<1>5. CASE SetRun(a, p, TRUE) /\ Calm /\ AbortGoto("project")
  <2>1. EngineInv' /\ ContractStep /\ KillStep /\ TeardownStep
    BY <1>1, <1>2, <1>3, <1>5, OutsideCall
  <2>2. row' = row /\ ext'[a].phase = p
    BY <1>1, <1>5 DEF SetRun, EngineInv, SpineInv, OutsideOK
  <2>3. /\ ab' \in [pc : AbortStage, att : Attempts, mon : BOOLEAN, answer : AbortAnswer]
        /\ ab'.pc = "project" /\ ab'.att = ab.att /\ ab'.answer = "none"
    BY <1>1, <1>5 DEF AskInv, AbortGoto, AbortStage
  <2> QED
    BY <1>1, <1>2, <2>1, <2>2, <2>3 DEF AbortInv, AskInv, ConfirmedMeansStopped
<1>6. CASE UNCHANGED outside /\ (Fault \/ Calm) /\ Answers("projection_finalization_pending")
  <2>1. "projection_finalization_pending" \in AbortAnswer
    BY DEF AbortAnswer
  <2>2. AskInv'
    BY <1>1, <1>6, <2>1, RequestAnswers DEF AskInv
  <2> QED
    BY <1>4, <1>6, <2>2 DEF AbortInv
<1> QED
  BY <1>2, <1>5, <1>6 DEF AbortTeardown, AbortProject

\* The fallback cancels the run: a worker inside a node is left without it.
LEMMA CancelRunsKeeps ==
    ASSUME AbortInv, ~Continues, ~Restarts, CancelRuns
    PROVE  AbortInv' /\ ContractStep /\ KillStep /\ TeardownStep
<1>1. /\ AskInv /\ LoadInv /\ SpineInv /\ SafetyInv
      /\ run' = "none" /\ owner' = Nobody /\ older' = older
      /\ UNCHANGED <<ck, wk, row, conn, ext, objs, indexed, faults>>
  BY DEF AbortInv, EngineInv, CancelRuns, outside
<1>2. SpineInv'
  <2>1. OutsideOK' /\ OverStaysOver
    BY <1>1, OutsideStays DEF SpineInv, outside
  <2>2. WorkersOK'
    BY <1>1, <2>1, WorkersStay DEF SpineInv
  <2> QED
    BY <1>1, <2>1, <2>2 DEF SpineInv, GraphOK, Good, Staged, FaultsOK
<1>3. SafetyInv'
  <2>1. Solid' /\ GroundedAt(ck)'
    BY <1>1, StayingIsQuiet, GraphStaysGrounded DEF outside
  <2>2. Exclusive'
    <3> SUFFICES ASSUME NEW i \in Workers, wk[i].pc # "idle"
                 PROVE  /\ \A j \in Workers \ {i} : wk[j].pc = "idle"
                        /\ ck.node \notin InterruptNode \cup {"end"}
                        /\ wk[i].pc # "commit" => wk[i].ck = ck
      BY <1>1 DEF Exclusive, Abandoned
    <3> QED
      BY <1>1 DEF SafetyInv, Exclusive, Abandoned, LoadInv
  <2>3. \A i \in Workers : ReadyAt(wk[i])'
    BY <1>1 DEF SafetyInv, ReadyAt
  <2> QED
    BY <2>1, <2>2, <2>3 DEF SafetyInv
<1>4. LoadInv'
  BY <1>1
  DEF LoadInv, Secured, GivenUp, Agrees, Pinned, Tidy, WorkerAgrees, Holds, Succeeds, Alone
<1>5. ContractStep
  BY <1>1, ContractStutters DEF Verdict
<1>6. AskInv'
  <2>1. PICK answer \in {"cancelled", "no_active_run"} : Answers(answer)
    BY DEF CancelRuns
  <2>2. answer \in AbortAnswer
    BY DEF AbortAnswer
  <2> QED
    BY <1>1, <2>1, <2>2, RequestAnswers DEF AskInv
<1> QED
  BY <1>1, <1>2, <1>3, <1>4, <1>5, <1>6 DEF AbortInv, EngineInv, KillStep, TeardownStep

\* A thread nobody has asked to abort.
LEMMA InitIsAsked == ASSUME AbortInit PROVE AbortInv
<1>1. EngineInv
  BY InitIsGood, InitIsSafe, InitIsLoad DEF AbortInit, EngineInit, EngineInv
<1>2. ck.attempt = 1 /\ 1 \in Attempts
  BY EngineAssumption DEF AbortInit, EngineInit, Untouched, FreshEntry, Attempts
<1> QED
  BY <1>1, <1>2
  DEF AbortInit, AbortInv, AskInv, NoAbort, AbortStage, AbortAnswer, ConfirmedMeansStopped

\* Every step of the request and of the spine.
LEMMA AbortKeeps ==
    ASSUME AbortInv, ~Continues, ~Restarts, [AbortNext]_abortVars
    PROVE  AbortInv' /\ ContractStep /\ KillStep /\ TeardownStep
<1>1. CASE AbortStep
  BY <1>1, ReadingKeeps, AbortProviderKeeps, AbortFinalizeKeeps, CancelRunsKeeps DEF AbortStep
<1>2. CASE UNCHANGED abortVars
  <2>1. UNCHANGED engineVars /\ UNCHANGED <<ab, older>>
    BY <1>2 DEF abortVars, engineVars
  <2>2. /\ EngineInv' /\ ContractStep /\ KillStep /\ TeardownStep
        /\ UNCHANGED <<ck, row, ext>>
    BY <2>1, SpineStands DEF AbortInv
  <2> QED
    BY <2>1, <2>2 DEF AbortInv, AskInv, ConfirmedMeansStopped
<1> QED
  BY <1>1, <1>2, EngineStepKeeps DEF AbortNext

-----------------------------------------------------------------------------
(* The theorems.                                                           *)

\* Spine, rows, runs and request agree at every step of the race.
THEOREM AbortHolds == ASSUME ~Continues, ~Restarts PROVE AbortSpec => []AbortInv
<1>1. AbortInit => AbortInv
  BY InitIsAsked
<1>2. AbortInv /\ [AbortNext]_abortVars => AbortInv'
  BY AbortKeeps
<1> QED
  BY <1>1, <1>2, PTL DEF AbortSpec

\* The kill switch finds every load run: get_latest_abortable_for_thread returns an
\* active row that names it, whoever aborts, crashes or retries meanwhile.
THEOREM KillSwitchFindsLoad ==
    ASSUME ~Continues, ~Restarts, ~RunsAtStart PROVE AbortSpec => []LoadIsAbortable
<1>1. AbortInv => LoadIsAbortable
  BY DEF AbortInv, EngineInv, LoadInv, Secured, GivenUp, LoadIsAbortable, NamesExternalRun
<1> QED
  BY <1>1, AbortHolds, PTL

\* A confirmed abort is final: neither the run that is still executed nor a zombie
\* of a cancelled one brings the load back.
THEOREM ConfirmedIsFinal ==
    ASSUME ~Continues, ~Restarts PROVE AbortSpec => []ConfirmedMeansStopped
<1>1. AbortInv => ConfirmedMeansStopped
  BY DEF AbortInv, AskInv
<1> QED
  BY <1>1, AbortHolds, PTL

\* Kill before finalize, with a kill switch in the race.
THEOREM AbortLeavesNoLoad ==
    ASSUME ~Continues, ~Restarts PROVE AbortSpec => []FinishedPhaseLeavesNoLoad
<1>1. AbortInv => FinishedPhaseLeavesNoLoad
  BY NoLoadAtTheEnd DEF AbortInv, EngineInv
<1> QED
  BY <1>1, AbortHolds, PTL

\* An abort does not make the graph forget a kill it checkpointed.
THEOREM AbortHoldsKillIntent ==
    ASSUME ~Continues, ~Restarts PROVE AbortSpec => KillIntentHeldUntilConfirmed
<1>1. AbortInv /\ [AbortNext]_abortVars => [KillStep]_engineVars
  BY AbortKeeps
<1> QED
  BY <1>1, AbortHolds, PTL DEF AbortSpec, KillIntentHeldUntilConfirmed, KillStep

\* No abort releases the resources of a run whose results are still awaited: the
\* service tears down only what the graph has left behind, and released itself unless
\* its row was given up without the handle.
THEOREM AbortTeardownIsSafe ==
    ASSUME ~Continues, ~Restarts PROVE AbortSpec => TeardownNeverLosesResults
<1>1. AbortInv /\ [AbortNext]_abortVars => [TeardownStep]_engineVars
  BY AbortKeeps
<1> QED
  BY <1>1, AbortHolds, PTL DEF AbortSpec, TeardownNeverLosesResults, TeardownStep

\* Spine and kill switch together still implement the contract of the execution
\* phase: an abort only ends load.
THEOREM AbortImplementsContract ==
    ASSUME ~Continues, ~Restarts PROVE AbortSpec => ImplementsContract
<1>1. AbortInit => Contract!ContractInit
  BY ContractInitially DEF AbortInit
<1>2. AbortInv /\ [AbortNext]_abortVars => [Contract!ContractNext]_(Contract!contractVars)
  BY AbortKeeps DEF ContractStep
<1> QED
  BY <1>1, <1>2, AbortHolds, PTL DEF AbortSpec, ImplementsContract, Contract!ContractSpec
=============================================================================
