------------------------ MODULE AnalysisLedgerProofs ------------------------
(***************************************************************************)
(* Machine-checked proofs about AnalysisLedger, for any number of          *)
(* selections, tries, renderings and faults, with and without restarts.    *)
(***************************************************************************)
EXTENDS AnalysisLedger, FiniteSetTheorems, TLAPS

USE DEF Selections, Tries, Keys

(* The inductive invariant.                                                *)

\* A row past pending knows its job, an unconfirmed one has none.
RowShape(row) ==
    /\ row.status \in {"queued", "collecting", "succeeded"} => row.job # 0
    /\ row.uncertain => row.status = "failed" /\ row.job = 0

\* The checkpoint and the execution: which nodes may see failed rows.
Checkpointed ==
    /\ node \in Node /\ run \in {"active", "none"} /\ late \in BOOLEAN
    /\ ledger \in Ledger \cup {NoLedger}
    /\ node # "agent" => ledger \in Ledger
    /\ ledger \in Ledger => \A s \in Selections : RowShape(ledger[s])
    /\ exec \in Execution
    /\ exec.pc # "idle" => node = "step" /\ run = "active"
    /\ node = "step" => ~AnyFailed(ledger)
    /\ node = "agent" => ledger = NoLedger \/ (ledger \in Ledger /\ AllSucceeded(ledger))
    /\ node \in {"report", "gate"} => AllSucceeded(ledger)
    /\ node = "recovery" =>
           \/ AllSucceeded(ledger)
           \/ \E s \in Selections : \A r \in Selections : ledger[r].status = "failed" <=> r = s

Typed ==
    /\ receipt \in [Keys -> Receipt]
    /\ inflight \in SUBSET Keys
    /\ answer \in [Keys -> {"none", "created", "rejected"}]
    /\ jobOf \in [Keys -> Tries \cup {0}]
    /\ job \in [Keys -> {"none", "live", "done", "failed"}]
    /\ intent \in [Keys -> Intent]
    /\ object \in [Keys -> Contents \cup {0}]
    /\ reference \in [Keys -> Contents \cup {0}]
    /\ faults \in Nat

\* A try that may have created a job, and one whose job does not count any more.
Touched(s, t) ==
    IF s \in Native THEN receipt[<<s, t>>] # "none"
    ELSE <<s, t>> \in inflight \/ job[<<s, t>>] # "none"
Dead(s, t) ==
    IF s \in Native
    THEN /\ receipt[<<s, t>>] # "none"
         /\ receipt[<<s, t>>] = "received" => job[<<s, t>>] \notin {"live", "done"}
    ELSE job[<<s, t>>] = "failed"

\* What a row knows of its try, its job and its artifact.
RowFacts(s, row) ==
    /\ row.job \in {0, jobOf[<<s, row.try>>]}
    /\ row.refused => row.job # 0 /\ job[<<s, row.job>>] = "failed"
    /\ row.status = "succeeded" =>
           /\ row.job # 0 /\ job[<<s, row.job>>] = "done"
           /\ row.content \in Contents /\ reference[<<s, row.try>>] = row.content
    /\ s \in Native /\ row.job # 0 => receipt[<<s, row.try>>] # "none"
    /\ row.uncertain => s \in Native /\ receipt[<<s, row.try>>] = "claimed"
    /\ \A t \in Tries : t < row.try => Dead(s, t)

Rows == ledger \in Ledger => \A s \in Selections : RowFacts(s, ledger[s])

ServiceFacts(s, t) ==
    /\ jobOf[<<s, t>>] = 0 => job[<<s, t>>] = "none" /\ answer[<<s, t>>] # "created"
    /\ answer[<<s, t>>] = "none" => jobOf[<<s, t>>] = 0
    /\ job[<<s, t>>] # "none" => jobOf[<<s, t>>] = t
    /\ s \notin Native => jobOf[<<s, t>>] \in {0, t}
    /\ s \in Native =>
           /\ receipt[<<s, t>>] = "none" => <<s, t>> \notin inflight /\ answer[<<s, t>>] = "none"
           /\ <<s, t>> \in inflight => answer[<<s, t>>] = "none"
           /\ receipt[<<s, t>>] = "received" =>
                  <<s, t>> \notin inflight /\ answer[<<s, t>>] = "created"

ServicesAgree == \A s \in Selections, t \in Tries : ServiceFacts(s, t)

\* A try is taken only when the ones before are accounted for.
Ordered ==
    \A s \in Selections, t \in Tries, u \in Tries : t < u /\ Touched(s, u) => Dead(s, t)

UploadFacts(s, t) ==
    /\ intent[<<s, t>>].state # "none" =>
           /\ reference[<<s, t>>] = 0
           /\ intent[<<s, t>>].content \in Contents
           /\ object[<<s, t>>] \in {0, intent[<<s, t>>].content}
    /\ reference[<<s, t>>] # 0 => object[<<s, t>>] = reference[<<s, t>>]
    /\ intent[<<s, t>>].state = "none" /\ reference[<<s, t>>] = 0 => object[<<s, t>>] = 0

Uploads == \A s \in Selections, t \in Tries : UploadFacts(s, t)

\* What an execution has established at each of its points.
Submitting == {"post", "await", "record"}
Storing == {"store", "put", "finalize", "commit"}
SubmitFacts(s, t) ==
    /\ ledger[s].job = 0
    /\ s \in Native => /\ receipt[<<s, t>>] = "claimed"
                       /\ \A u \in Tries : t < u => ~Touched(s, u)
    /\ exec.pc = "post" => s \in Native /\ <<s, t>> \notin inflight /\ answer[<<s, t>>] = "none"
    /\ exec.pc = "record" => s \in Native /\ <<s, t>> \notin inflight /\ answer[<<s, t>>] = "created"
StoreFacts(s, t) ==
    /\ ledger[s].job # 0 /\ job[<<s, ledger[s].job>>] = "done"
    /\ exec.content \in Contents
    /\ exec.pc \in {"put", "finalize"} =>
           \/ intent[<<s, t>>].state # "none" /\ intent[<<s, t>>].content = exec.content
           \/ reference[<<s, t>>] = exec.content
    /\ exec.pc = "finalize" => object[<<s, t>>] = exec.content
    /\ exec.pc = "commit" => reference[<<s, t>>] = exec.content

Executing ==
    exec.pc # "idle" => \A s \in Selections : Current(s) =>
        /\ exec.pc \in Submitting => SubmitFacts(s, ledger[s].try)
        /\ exec.pc \in Storing => StoreFacts(s, ledger[s].try)

AnalysisInv ==
    Checkpointed /\ Typed /\ Rows /\ ServicesAgree /\ Ordered /\ Uploads /\ Executing

-----------------------------------------------------------------------------
(* What the updates of a row make of it, and the classes of steps.         *)

\* A ledger with rows is not the missing one.
LEMMA LedgerIsThere ==
    ASSUME NEW f \in Ledger PROVE f # NoLedger
  BY AnalysisAssumption DEF Ledger, NoLedger

\* Only one row is worked on.
LEMMA CurrentIsUnique ==
    ASSUME ledger \in Ledger, NEW s \in Selections, NEW r \in Selections,
           Current(s), Current(r)
    PROVE  r = s
  BY AnalysisAssumption DEF Current

\* The updates keep the type of a row.
LEMMA RowTypes ==
    ASSUME NEW q \in Row, NEW j \in Tries, NEW c \in Contents
    PROVE  /\ Started(q) \in Row /\ Submitted(q, j) \in Row /\ Polled(q) \in Row
           /\ Collecting(q) \in Row /\ Succeeded(q, c) \in Row /\ Failed(q) \in Row
           /\ Refused(q) \in Row /\ Uncertain(q) \in Row /\ Resumed(q) \in Row
  <1>1. Started(q) \in Row /\ Resumed(q) \in Row
    BY DEF Row, Status, Started, Resumed
  <1>2. Submitted(q, j) \in Row /\ Polled(q) \in Row /\ Collecting(q) \in Row
    BY DEF Row, Status, Submitted, Polled, Collecting
  <1>3. Succeeded(q, c) \in Row /\ Failed(q) \in Row /\ Refused(q) \in Row /\ Uncertain(q) \in Row
    BY DEF Row, Status, Succeeded, Failed, Refused, Uncertain
  <1>4. QED BY <1>1, <1>2, <1>3

\* So does the next try, within the bound.
LEMMA NextTryType ==
    ASSUME NEW q \in Row, q.try < MaxTries
    PROVE  NextTry(q) \in Row
  <1>1. q.try + 1 \in Tries
    BY AnalysisAssumption DEF Row
  <1>2. QED BY <1>1 DEF Row, NextTry

\* An execution that returns a well-formed row leaves a consistent checkpoint.
LEMMA CheckpointReturns ==
    ASSUME Checkpointed, NEW s \in Selections, NEW row \in Row, RowShape(row),
           node = "step", Reports([ledger EXCEPT ![s] = row]), late' \in BOOLEAN
    PROVE  Checkpointed' /\ ledger' \in Ledger /\ exec'.pc = "idle"
  <1>1. ledger \in Ledger /\ ledger' = [ledger EXCEPT ![s] = row] /\ ledger' \in Ledger
    BY DEF Checkpointed, Reports, Ledger
  <1>2. /\ ledger'[s] = row
        /\ \A r \in Selections : r # s => ledger'[r] = ledger[r]
    BY <1>1 DEF Ledger
  <1>3. exec' = Idle /\ exec' \in Execution /\ exec'.pc = "idle"
    BY DEF Reports, Idle, Execution
  <1>4. \A r \in Selections : RowShape(ledger'[r])
    BY <1>1, <1>2 DEF Checkpointed
  <1>5. \A r \in Selections : r # s => ledger'[r].status # "failed"
    BY <1>1, <1>2 DEF Checkpointed, AnyFailed
  <1>6. CASE AnyFailed(ledger')
    <2>1. node' = "recovery" /\ run' = "none"
      BY <1>6 DEF Reports, RouteAnalysis
    <2>2. \A r \in Selections : ledger'[r].status = "failed" <=> r = s
      BY <1>5, <1>6 DEF AnyFailed
    <2>3. QED
      BY <1>1, <1>3, <1>4, <2>1, <2>2 DEF Checkpointed, Node, Decision
  <1>7. CASE ~AnyFailed(ledger')
    <2>1. node' = (IF AllSucceeded(ledger') THEN "report" ELSE "step") /\ run' = "active"
      BY <1>7 DEF Reports, RouteAnalysis
    <2>2. QED
      BY <1>1, <1>3, <1>4, <1>7, <2>1 DEF Checkpointed, Node, Decision
  <1>8. QED BY <1>1, <1>3, <1>6, <1>7

\* What the rows know stays true when one of them changes.
LEMMA RowsReturn ==
    ASSUME Rows, ledger \in Ledger, NEW s \in Selections, NEW row \in Row,
           ledger' = [ledger EXCEPT ![s] = row], RowFacts(s, row)',
           \A r \in Selections, q \in Row : r # s /\ RowFacts(r, q) => RowFacts(r, q)'
    PROVE  Rows'
  <1>1. SUFFICES ASSUME NEW r \in Selections PROVE RowFacts(r, ledger[r])'
    BY DEF Rows
  <1>2. CASE r = s
    BY <1>2 DEF Ledger
  <1>3. CASE r # s
    <2>1. ledger'[r] = ledger[r] /\ ledger[r] \in Row
      BY <1>3 DEF Ledger
    <2>2. RowFacts(r, ledger[r])
      BY DEF Rows
    <2>3. QED BY <1>3, <2>1, <2>2
  <1>4. QED BY <1>2, <1>3

\* A step that leaves the database, the services and the outbox alone.
LEMMA OutsideKept ==
    ASSUME Typed, ServicesAgree, Ordered, Uploads, faults' \in Nat,
           UNCHANGED <<receipt, serviceVars, uploadVars>>
    PROVE  /\ Typed' /\ ServicesAgree' /\ Ordered' /\ Uploads'
           /\ \A r \in Selections, q \in Row : RowFacts(r, q) => RowFacts(r, q)'
  <1>1. Typed'
    BY DEF Typed, serviceVars, uploadVars
  <1>2. ServicesAgree'
    BY DEF ServicesAgree, ServiceFacts, serviceVars
  <1>3. Ordered'
    BY DEF Ordered, Touched, Dead, serviceVars
  <1>4. Uploads'
    BY DEF Uploads, UploadFacts, uploadVars
  <1>5. \A r \in Selections, q \in Row : RowFacts(r, q) => RowFacts(r, q)'
    BY DEF RowFacts, Dead, serviceVars, uploadVars
  <1>6. QED BY <1>1, <1>2, <1>3, <1>4, <1>5

\* What an execution of a row starts from.
LEMMA ExecutionFacts ==
    ASSUME AnalysisInv, NEW s \in Selections, NEW pc, Executes(s, pc)
    PROVE  /\ ledger \in Ledger /\ ledger[s] \in Row /\ node = "step" /\ run = "active"
           /\ ledger[s].status \in {"pending", "queued", "collecting"} /\ ~ledger[s].uncertain
           /\ RowShape(ledger[s]) /\ RowFacts(s, ledger[s])
           /\ Key(s) \in Keys /\ Current(s) /\ exec.pc = pc
  <1>1. ledger \in Ledger /\ node = "step" /\ run = "active" /\ Current(s) /\ exec.pc = pc
    BY DEF Executes, AnalysisInv, Checkpointed
  <1>2. ledger[s] \in Row
    BY <1>1 DEF Ledger
  <1>3. RowShape(ledger[s]) /\ RowFacts(s, ledger[s])
    BY <1>1 DEF AnalysisInv, Checkpointed, Rows
  <1>4. ledger[s].status \notin {"failed", "succeeded"}
    BY <1>1 DEF AnalysisInv, Checkpointed, AnyFailed, Current
  <1>5. ledger[s].status \in {"pending", "queued", "collecting"} /\ ~ledger[s].uncertain
    BY <1>2, <1>3, <1>4 DEF RowShape, Row, Status
  <1>6. Key(s) \in Keys
    BY <1>2 DEF Key, Row
  <1>7. QED BY <1>1, <1>2, <1>3, <1>5, <1>6

\* Class of steps: an execution returns a row and changes nothing else.
LEMMA Returned ==
    ASSUME AnalysisInv, NEW s \in Selections, NEW row \in Row, Executes(s, exec.pc),
           RowShape(row), RowFacts(s, row),
           Reports([ledger EXCEPT ![s] = row]), late' \in BOOLEAN, faults' \in Nat,
           UNCHANGED <<receipt, serviceVars, uploadVars>>
    PROVE  AnalysisInv'
  <1>1. ledger \in Ledger /\ node = "step"
    BY ExecutionFacts
  <1>2. Checkpointed' /\ exec'.pc = "idle"
    BY <1>1, CheckpointReturns DEF AnalysisInv
  <1>3. /\ Typed' /\ ServicesAgree' /\ Ordered' /\ Uploads'
        /\ \A r \in Selections, q \in Row : RowFacts(r, q) => RowFacts(r, q)'
    BY OutsideKept DEF AnalysisInv
  <1>4. Rows'
    BY <1>1, <1>3, RowsReturn DEF AnalysisInv, Reports
  <1>5. Executing'
    BY <1>2 DEF Executing
  <1>6. QED BY <1>2, <1>3, <1>4, <1>5 DEF AnalysisInv

\* A failed, a refused, a polled, a started, a collecting row: the knowledge of the
\* row is the same.
LEMMA SameKnowledge ==
    ASSUME NEW s \in Selections, NEW q \in Row, NEW row \in Row, RowShape(q), RowFacts(s, q),
           ~q.uncertain, row.try = q.try, row.job = q.job, row.status # "succeeded",
           row.status \in {"queued", "collecting"} => q.job # 0,
           ~row.uncertain, row.refused => q.refused
    PROVE  RowShape(row) /\ RowFacts(s, row)
  <1>1. RowShape(row)
    BY DEF RowShape
  <1>2. RowFacts(s, row)
    BY DEF RowFacts
  <1>3. QED BY <1>1, <1>2

-----------------------------------------------------------------------------
(* Steps that return a row.                                                *)

\* The deadline is written ahead.
LEMMA StartRowKeeps ==
    ASSUME AnalysisInv, NEW s \in Selections, StartRow(s) PROVE AnalysisInv'
  <1>1. /\ ledger \in Ledger /\ ledger[s] \in Row /\ ~ledger[s].uncertain
        /\ RowShape(ledger[s]) /\ RowFacts(s, ledger[s])
        /\ ledger[s].status \in {"pending", "queued", "collecting"}
    BY ExecutionFacts DEF StartRow
  <1> DEFINE row == Started(ledger[s])
  <1>2. /\ row \in Row /\ row.try = ledger[s].try /\ row.job = ledger[s].job
        /\ row.status = ledger[s].status /\ row.uncertain = ledger[s].uncertain
        /\ row.refused = ledger[s].refused
    BY <1>1 DEF Started, Row
  <1>3. Reports([ledger EXCEPT ![s] = row])
    BY <1>1 DEF StartRow
  <1> HIDE DEF row
  <1>4. RowShape(row) /\ RowFacts(s, row)
    BY <1>1, <1>2, SameKnowledge DEF RowShape
  <1>5. Executes(s, exec.pc) /\ late' \in BOOLEAN /\ faults' \in Nat
    BY DEF StartRow, Executes, AnalysisInv, Typed
  <1>6. QED BY <1>2, <1>3, <1>4, <1>5, Returned DEF StartRow

\* A row that fails keeps its knowledge.
LEMMA FailedKeeps ==
    ASSUME AnalysisInv, NEW s \in Selections, Executes(s, exec.pc), Returns(s, Failed(ledger[s])),
           faults' \in Nat, UNCHANGED <<receipt, serviceVars, uploadVars>>
    PROVE  AnalysisInv'
  <1>1. /\ ledger \in Ledger /\ ledger[s] \in Row /\ ~ledger[s].uncertain
        /\ RowShape(ledger[s]) /\ RowFacts(s, ledger[s])
    BY ExecutionFacts
  <1> DEFINE row == Failed(ledger[s])
  <1>2. /\ row \in Row /\ row.try = ledger[s].try /\ row.job = ledger[s].job
        /\ row.status = "failed" /\ row.uncertain = ledger[s].uncertain
        /\ row.refused = ledger[s].refused
    BY <1>1 DEF Failed, Row, Status
  <1>3. Reports([ledger EXCEPT ![s] = row]) /\ late' \in BOOLEAN
    BY DEF Returns, AnalysisInv, Checkpointed
  <1> HIDE DEF row
  <1>4. RowShape(row) /\ RowFacts(s, row)
    BY <1>1, <1>2, SameKnowledge
  <1>5. QED BY <1>2, <1>3, <1>4, Returned

\* Nor does a row change that is polled or stays collecting.
LEMMA CollectingKeeps ==
    ASSUME AnalysisInv, NEW s \in Selections, Executes(s, exec.pc), ledger[s].job # 0,
           Returns(s, Collecting(ledger[s])) \/ Returns(s, Polled(ledger[s])),
           faults' \in Nat, UNCHANGED <<receipt, serviceVars, uploadVars>>
    PROVE  AnalysisInv'
  <1>1. /\ ledger \in Ledger /\ ledger[s] \in Row /\ ~ledger[s].uncertain
        /\ RowShape(ledger[s]) /\ RowFacts(s, ledger[s])
    BY ExecutionFacts
  <1>2. SUFFICES ASSUME NEW row \in {Collecting(ledger[s]), Polled(ledger[s])}, Returns(s, row)
                 PROVE  AnalysisInv'
    OBVIOUS
  <1>3. /\ row \in Row /\ row.try = ledger[s].try /\ row.job = ledger[s].job
        /\ row.status \in {"queued", "collecting"} /\ row.uncertain = ledger[s].uncertain
        /\ row.refused = ledger[s].refused
    BY <1>1 DEF Collecting, Polled, Row, Status
  <1>4. Reports([ledger EXCEPT ![s] = row]) /\ late' \in BOOLEAN
    BY <1>2 DEF Returns, AnalysisInv, Checkpointed
  <1>5. RowShape(row) /\ RowFacts(s, row)
    BY <1>1, <1>3, SameKnowledge
  <1>6. QED BY <1>3, <1>4, <1>5, Returned

\* The failures of an execution before, while and after it submits.
LEMMA FailingKeeps ==
    ASSUME AnalysisInv, NEW s \in Selections,
           Expire(s) \/ GiveUp(s) \/ StageConflict(s)
    PROVE  AnalysisInv'
  <1>1. Executes(s, exec.pc) /\ faults' \in Nat
    BY DEF Expire, GiveUp, StageConflict, Works, Executes, AnalysisInv, Typed
  <1>2. QED BY <1>1, FailedKeeps DEF Expire, GiveUp, StageConflict

\* A connector's answer is lost.
LEMMA SubmitLostKeeps ==
    ASSUME AnalysisInv, NEW s \in Selections, SubmitLost(s) PROVE AnalysisInv'
  <1>1. Executes(s, exec.pc) /\ faults' \in Nat /\ late' \in BOOLEAN
    BY DEF SubmitLost, Executes, Returns, AnalysisInv, Typed, Checkpointed
  <1>2. CASE Returns(s, Failed(ledger[s]))
    BY <1>1, <1>2, FailedKeeps DEF SubmitLost
  <1>3. CASE Returns(s, ledger[s])
    <2>1. ledger[s] \in Row /\ RowShape(ledger[s]) /\ RowFacts(s, ledger[s])
      BY <1>1, ExecutionFacts
    <2>2. Reports([ledger EXCEPT ![s] = ledger[s]])
      BY <1>3 DEF Returns
    <2>3. QED BY <1>1, <2>1, <2>2, Returned DEF SubmitLost
  <1>4. QED BY <1>2, <1>3 DEF SubmitLost

\* The store or the outbox fails the execution.
LEMMA StoreFailsKeeps ==
    ASSUME AnalysisInv, NEW s \in Selections, StoreFails(s) PROVE AnalysisInv'
  <1>1. Executes(s, exec.pc) /\ exec.pc \in Storing /\ faults' \in Nat
    BY DEF StoreFails, Executes, Storing, AnalysisInv, Typed
  <1>2. Current(s) /\ exec.pc # "idle"
    BY <1>1 DEF Executes, Storing
  <1>3. ledger[s].job # 0
    BY <1>1, <1>2 DEF AnalysisInv, Executing, StoreFacts
  <1>4. QED BY <1>1, <1>3, FailedKeeps, CollectingKeeps DEF StoreFails

\* A job is polled, and found to have ended without a result.
LEMMA PollKeeps ==
    ASSUME AnalysisInv, NEW s \in Selections, Poll(s) PROVE AnalysisInv'
  <1>1. Executes(s, exec.pc) /\ faults' \in Nat
    BY DEF Poll, Works, Executes, AnalysisInv, Typed
  <1>2. QED BY <1>1, CollectingKeeps DEF Poll

LEMMA PollRefusedKeeps ==
    ASSUME AnalysisInv, NEW s \in Selections, PollRefused(s) PROVE AnalysisInv'
  <1>1. Executes(s, exec.pc) /\ faults' \in Nat /\ late' \in BOOLEAN
    BY DEF PollRefused, Works, Executes, Returns, AnalysisInv, Typed, Checkpointed
  <1>2. /\ ledger[s] \in Row /\ ~ledger[s].uncertain
        /\ RowShape(ledger[s]) /\ RowFacts(s, ledger[s])
    BY <1>1, ExecutionFacts
  <1> DEFINE row == Refused(ledger[s])
  <1>3. /\ row \in Row /\ row.try = ledger[s].try /\ row.job = ledger[s].job
        /\ row.status = "failed" /\ ~row.uncertain
    BY <1>2 DEF Refused, Row, Status
  <1>4. Reports([ledger EXCEPT ![s] = row])
    BY DEF PollRefused, Returns
  <1> HIDE DEF row
  <1>5. RowShape(row)
    BY <1>3 DEF RowShape
  <1>6. RowFacts(s, row)
    BY <1>2, <1>3 DEF RowFacts, PollRefused
  <1>7. QED BY <1>1, <1>3, <1>4, <1>5, <1>6, Returned DEF PollRefused

\* A result is committed that the outbox has published.
LEMMA KeepKeeps ==
    ASSUME AnalysisInv, NEW s \in Selections, Keep(s) PROVE AnalysisInv'
  <1>1. Executes(s, exec.pc) /\ faults' \in Nat /\ late' \in BOOLEAN
    BY DEF Keep, Executes, Returns, AnalysisInv, Typed, Checkpointed
  <1>2. /\ ledger[s] \in Row /\ ~ledger[s].uncertain /\ Current(s)
        /\ RowShape(ledger[s]) /\ RowFacts(s, ledger[s])
    BY <1>1, ExecutionFacts
  <1>3. exec.pc = "commit"
    BY DEF Keep, Executes
  <1>4. StoreFacts(s, ledger[s].try)
    BY <1>2, <1>3 DEF AnalysisInv, Executing, Storing
  <1> DEFINE row == Succeeded(ledger[s], exec.content)
  <1>5. /\ row \in Row /\ row.try = ledger[s].try /\ row.job = ledger[s].job
        /\ row.status = "succeeded" /\ ~row.uncertain /\ row.content = exec.content
        /\ row.refused = ledger[s].refused
    BY <1>2, <1>4 DEF Succeeded, Row, Status, StoreFacts
  <1>6. Reports([ledger EXCEPT ![s] = row])
    BY DEF Keep, Returns
  <1> HIDE DEF row
  <1>7. RowShape(row)
    BY <1>4, <1>5 DEF RowShape, StoreFacts
  <1>8. RowFacts(s, row)
    BY <1>2, <1>3, <1>4, <1>5 DEF RowFacts, StoreFacts
  <1>9. QED BY <1>1, <1>5, <1>6, <1>7, <1>8, Returned DEF Keep

\* What a submitted row knows.
LEMMA SubmittedRow ==
    ASSUME NEW s \in Selections, NEW q \in Row, NEW j \in Tries, RowShape(q), RowFacts(s, q),
           q.job = 0, ~q.uncertain, j = jobOf[<<s, q.try>>], q.status # "succeeded",
           s \in Native => receipt[<<s, q.try>>] # "none"
    PROVE  LET row == Submitted(q, j) IN
           row \in Row /\ row.try = q.try /\ row.job = j /\ RowShape(row) /\ RowFacts(s, row)
  <1> DEFINE row == Submitted(q, j)
  <1>1. /\ row \in Row /\ row.try = q.try /\ row.job = j /\ row.status = "queued"
        /\ row.uncertain = q.uncertain /\ row.refused = q.refused
    BY DEF Submitted, Row, Status
  <1> HIDE DEF row
  <1>2. j # 0
    BY AnalysisAssumption
  <1>3. RowShape(row)
    BY <1>1, <1>2 DEF RowShape
  <1>4. RowFacts(s, row)
    BY <1>1 DEF RowFacts
  <1>5. QED BY <1>1, <1>3, <1>4 DEF row

\* The job of a created try is known.
LEMMA CreatedHasJob ==
    ASSUME Typed, ServicesAgree, NEW s \in Selections, NEW t \in Tries, answer[<<s, t>>] = "created"
    PROVE  jobOf[<<s, t>>] \in Tries
  <1>1. <<s, t>> \in Keys /\ jobOf[<<s, t>>] \in Tries \cup {0}
    BY DEF Typed
  <1>2. ServiceFacts(s, t)
    BY DEF ServicesAgree
  <1>3. QED BY <1>1, <1>2 DEF ServiceFacts

\* A stored receipt answers the claim; so does the connector.
LEMMA ReceivedKeeps ==
    ASSUME AnalysisInv, NEW s \in Selections,
           ClaimReceived(s) \/ (Answered(s) /\ s \notin Native)
    PROVE  AnalysisInv'
  <1>1. Executes(s, exec.pc) /\ faults' \in Nat /\ late' \in BOOLEAN
    BY DEF ClaimReceived, Answered, Works, Executes, Returns, AnalysisInv, Typed, Checkpointed
  <1>2. /\ ledger[s] \in Row /\ ~ledger[s].uncertain /\ Current(s) /\ ledger[s].try \in Tries
        /\ RowShape(ledger[s]) /\ RowFacts(s, ledger[s]) /\ ledger[s].status # "succeeded"
    BY <1>1, ExecutionFacts DEF Row
  <1>3. /\ answer[Key(s)] = "created" /\ ledger[s].job = 0
        /\ s \in Native => receipt[Key(s)] # "none"
    <2>1. CASE ClaimReceived(s)
      BY <1>2, <2>1 DEF ClaimReceived, Key, AnalysisInv, ServicesAgree, ServiceFacts
    <2>2. CASE Answered(s) /\ s \notin Native
      BY <1>2, <2>2 DEF Answered, Executes, AnalysisInv, Executing, Submitting, SubmitFacts
    <2>3. QED BY <2>1, <2>2
  <1>4. jobOf[Key(s)] \in Tries
    BY <1>2, <1>3, CreatedHasJob DEF Key, AnalysisInv
  <1>5. LET row == Submitted(ledger[s], jobOf[Key(s)]) IN
        row \in Row /\ RowShape(row) /\ RowFacts(s, row)
    BY <1>2, <1>3, <1>4, SubmittedRow DEF Key
  <1>6. Reports([ledger EXCEPT ![s] = Submitted(ledger[s], jobOf[Key(s)])])
    BY DEF ClaimReceived, Answered, Returns
  <1>7. QED BY <1>1, <1>5, <1>6, Returned DEF ClaimReceived, Answered

\* A submission whose outcome is open stays claimed for ever.
LEMMA UncertainKeeps ==
    ASSUME AnalysisInv, NEW s \in Selections, ClaimUncertain(s) \/ PostUncertain(s)
    PROVE  AnalysisInv'
  <1>1. Executes(s, exec.pc) /\ faults' \in Nat /\ late' \in BOOLEAN
    BY DEF ClaimUncertain, PostUncertain, Works, Executes, Returns, AnalysisInv, Typed, Checkpointed
  <1>2. /\ ledger[s] \in Row /\ ~ledger[s].uncertain /\ Current(s) /\ ledger[s].try \in Tries
        /\ RowShape(ledger[s]) /\ RowFacts(s, ledger[s])
    BY <1>1, ExecutionFacts DEF Row
  <1>3. s \in Native /\ receipt[Key(s)] = "claimed" /\ ledger[s].job = 0
    <2>1. CASE ClaimUncertain(s)
      BY <2>1 DEF ClaimUncertain
    <2>2. CASE PostUncertain(s)
      <3>1. exec.pc \in {"post", "await"} /\ (exec.pc = "await" => s \in Native)
        BY <2>2 DEF PostUncertain, Executes
      <3>2. SubmitFacts(s, ledger[s].try)
        BY <1>2, <3>1 DEF AnalysisInv, Executing, Submitting
      <3>3. QED BY <3>1, <3>2 DEF SubmitFacts, Key
    <2>3. QED BY <2>1, <2>2
  <1> DEFINE row == Uncertain(ledger[s])
  <1>4. /\ row \in Row /\ row.try = ledger[s].try /\ row.job = ledger[s].job
        /\ row.status = "failed" /\ row.uncertain /\ row.refused = ledger[s].refused
    BY <1>2 DEF Uncertain, Row, Status
  <1>5. Reports([ledger EXCEPT ![s] = row])
    BY DEF ClaimUncertain, PostUncertain, Returns
  <1> HIDE DEF row
  <1>6. RowShape(row)
    BY <1>3, <1>4 DEF RowShape
  <1>7. RowFacts(s, row)
    BY <1>2, <1>3, <1>4 DEF RowFacts, Key
  <1>8. QED BY <1>1, <1>4, <1>5, <1>6, <1>7, Returned DEF ClaimUncertain, PostUncertain

\* Steps on the receipt of a row's own key: what everything else knows stays true.
LEMMA ReceiptKeeps ==
    ASSUME AnalysisInv, ledger \in Ledger, NEW s \in Native, NEW T \in Tries, ledger[s].try = T,
           NEW v \in {"claimed", "received"}, receipt' = [receipt EXCEPT ![<<s, T>>] = v],
           receipt[<<s, T>>] = "received" => v = "received",
           v = "received" => <<s, T>> \notin inflight /\ answer[<<s, T>>] = "created",
           \A u \in Tries : T < u => ~Touched(s, u),
           faults' \in Nat, UNCHANGED <<serviceVars, uploadVars>>
    PROVE  /\ Typed' /\ ServicesAgree' /\ Ordered' /\ Uploads'
           /\ \A r \in Selections, q \in Row : r # s /\ RowFacts(r, q) => RowFacts(r, q)'
           /\ \A q \in Row : q.try = T /\ ~q.uncertain /\ RowFacts(s, q) => RowFacts(s, q)'
  <1>0. s \in Selections /\ <<s, T>> \in Keys
    BY AnalysisAssumption
  <1>1. receipt \in [Keys -> Receipt]
    BY DEF AnalysisInv, Typed
  <1>2. /\ receipt'[<<s, T>>] = v
        /\ \A r \in Selections, t \in Tries : <<r, t>> # <<s, T>> => receipt'[<<r, t>>] = receipt[<<r, t>>]
    BY <1>0, <1>1
  <1>3. Typed'
    BY <1>1 DEF AnalysisInv, Typed, Receipt, serviceVars, uploadVars
  <1>4. ServicesAgree'
    <2>1. SUFFICES ASSUME NEW r \in Selections, NEW t \in Tries PROVE ServiceFacts(r, t)'
      BY DEF ServicesAgree
    <2>2. ServiceFacts(r, t)
      BY DEF AnalysisInv, ServicesAgree
    <2>3. CASE <<r, t>> = <<s, T>>
      BY <1>2, <2>2, <2>3 DEF ServiceFacts, serviceVars
    <2>4. CASE <<r, t>> # <<s, T>>
      BY <1>2, <2>2, <2>4 DEF ServiceFacts, serviceVars
    <2>5. QED BY <2>3, <2>4
  <1>5. \A r \in Selections, t \in Tries : <<r, t>> # <<s, T>> /\ Dead(r, t) => Dead(r, t)'
    BY <1>2 DEF Dead, serviceVars
  <1>6. \A t \in Tries : t < T => Dead(s, t)
    BY <1>0 DEF AnalysisInv, Rows, RowFacts
  <1>7. Ordered'
    <2>1. SUFFICES ASSUME NEW r \in Selections, NEW t \in Tries, NEW u \in Tries, t < u, Touched(r, u)'
                   PROVE  Dead(r, t)'
      BY DEF Ordered
    <2>2. CASE r = s /\ u = T
      BY <1>5, <1>6, <2>1, <2>2
    <2>3. CASE ~(r = s /\ u = T)
      <3>1. Touched(r, u)
        BY <1>2, <2>1, <2>3 DEF Touched, serviceVars
      <3>2. Dead(r, t)
        BY <2>1, <3>1 DEF AnalysisInv, Ordered
      <3>3. <<r, t>> # <<s, T>>
        BY <2>1, <3>1
      <3>4. QED BY <1>5, <3>2, <3>3
    <2>4. QED BY <2>2, <2>3
  <1>8. Uploads'
    BY DEF AnalysisInv, Uploads, UploadFacts, uploadVars
  <1>9. ASSUME NEW r \in Selections, NEW q \in Row, r # s, RowFacts(r, q)
        PROVE  RowFacts(r, q)'
    <2>1. q.try \in Tries
      BY DEF Row
    <2>2. \A t \in Tries : t < q.try => Dead(r, t)'
      BY <1>5, <1>9 DEF RowFacts
    <2>3. QED BY <1>2, <1>9, <2>1, <2>2 DEF RowFacts, serviceVars, uploadVars
  <1>10. ASSUME NEW q \in Row, q.try = T, ~q.uncertain, RowFacts(s, q)
         PROVE  RowFacts(s, q)'
    <2>1. \A t \in Tries : t < q.try => Dead(s, t)'
      BY <1>0, <1>5, <1>6, <1>10
    <2>2. QED BY <1>2, <1>10, <2>1 DEF RowFacts, serviceVars, uploadVars
  <1>11. QED BY <1>3, <1>4, <1>7, <1>8, <1>9, <1>10

\* Class of steps: an execution changes its receipt and returns its row.
LEMMA ReturnedWithReceipt ==
    ASSUME AnalysisInv, NEW s \in Native, NEW row \in Row, Executes(s, exec.pc),
           RowShape(row), RowFacts(s, row), row.try = ledger[s].try, ~row.uncertain,
           Reports([ledger EXCEPT ![s] = row]), late' \in BOOLEAN, faults' \in Nat,
           NEW v \in {"claimed", "received"}, receipt' = [receipt EXCEPT ![Key(s)] = v],
           receipt[Key(s)] = "received" => v = "received",
           v = "received" => Key(s) \notin inflight /\ answer[Key(s)] = "created",
           \A u \in Tries : ledger[s].try < u => ~Touched(s, u),
           UNCHANGED <<serviceVars, uploadVars>>
    PROVE  AnalysisInv'
  <1>0. s \in Selections
    BY AnalysisAssumption
  <1>1. ledger \in Ledger /\ node = "step" /\ ledger[s] \in Row /\ ledger[s].try \in Tries
    BY <1>0, ExecutionFacts DEF Row
  <1>2. Checkpointed' /\ exec'.pc = "idle"
    BY <1>0, <1>1, CheckpointReturns DEF AnalysisInv
  <1>3. /\ Typed' /\ ServicesAgree' /\ Ordered' /\ Uploads'
        /\ \A r \in Selections, q \in Row : r # s /\ RowFacts(r, q) => RowFacts(r, q)'
        /\ \A q \in Row : q.try = ledger[s].try /\ ~q.uncertain /\ RowFacts(s, q) => RowFacts(s, q)'
    BY <1>1, ReceiptKeeps DEF Key
  <1>4. RowFacts(s, row)'
    BY <1>3
  <1>5. Rows'
    BY <1>0, <1>1, <1>3, <1>4, RowsReturn DEF AnalysisInv, Reports
  <1>6. Executing'
    BY <1>2 DEF Executing
  <1>7. QED BY <1>2, <1>3, <1>5, <1>6 DEF AnalysisInv

\* Before a try is reserved no later one is.
LEMMA LaterUntouched ==
    ASSUME AnalysisInv, NEW s \in Native, NEW t \in Tries, receipt[<<s, t>>] = "none"
    PROVE  \A u \in Tries : t < u => ~Touched(s, u)
  BY AnalysisAssumption DEF AnalysisInv, Ordered, Dead

\* The database fails the claim.
LEMMA ClaimFailsKeeps ==
    ASSUME AnalysisInv, NEW s \in Selections, ClaimFails(s) PROVE AnalysisInv'
  <1>1. Executes(s, exec.pc) /\ faults' \in Nat /\ late' \in BOOLEAN /\ s \in Native
    BY DEF ClaimFails, Fault, Works, Executes, Returns, AnalysisInv, Typed, Checkpointed
  <1>2. CASE UNCHANGED receipt
    BY <1>1, <1>2, FailedKeeps DEF ClaimFails
  <1>3. CASE receipt[Key(s)] = "none" /\ receipt' = [receipt EXCEPT ![Key(s)] = "claimed"]
    <2>1. /\ ledger[s] \in Row /\ ~ledger[s].uncertain /\ ledger[s].try \in Tries
          /\ RowShape(ledger[s]) /\ RowFacts(s, ledger[s])
      BY <1>1, ExecutionFacts DEF Row
    <2> DEFINE row == Failed(ledger[s])
    <2>2. /\ row \in Row /\ row.try = ledger[s].try /\ row.job = ledger[s].job
          /\ row.status = "failed" /\ row.uncertain = ledger[s].uncertain
          /\ row.refused = ledger[s].refused
      BY <2>1 DEF Failed, Row, Status
    <2>3. Reports([ledger EXCEPT ![s] = row])
      BY DEF ClaimFails, Returns
    <2> HIDE DEF row
    <2>4. RowShape(row) /\ RowFacts(s, row)
      BY <2>1, <2>2, SameKnowledge
    <2>5. \A u \in Tries : ledger[s].try < u => ~Touched(s, u)
      BY <1>1, <1>3, <2>1, LaterUntouched DEF Key
    <2>6. QED BY <1>1, <1>3, <2>1, <2>2, <2>3, <2>4, <2>5, ReturnedWithReceipt DEF ClaimFails
  <1>4. QED BY <1>2, <1>3 DEF ClaimFails

\* The receipt of a created job, stored or not.
LEMMA RecordKeeps ==
    ASSUME AnalysisInv, NEW s \in Selections, Record(s) \/ RecordFails(s) PROVE AnalysisInv'
  <1>1. /\ Executes(s, exec.pc) /\ exec.pc = "record"
        /\ faults' \in Nat /\ late' \in BOOLEAN
    BY DEF Record, RecordFails, Fault, Executes, Returns, AnalysisInv, Typed, Checkpointed
  <1>2. /\ ledger[s] \in Row /\ ~ledger[s].uncertain /\ Current(s) /\ ledger[s].try \in Tries
        /\ RowShape(ledger[s]) /\ RowFacts(s, ledger[s]) /\ ledger[s].status # "succeeded"
    BY <1>1, ExecutionFacts DEF Row
  <1>3. SubmitFacts(s, ledger[s].try)
    BY <1>1, <1>2 DEF AnalysisInv, Executing, Submitting
  <1>4. /\ s \in Native /\ receipt[Key(s)] = "claimed" /\ ledger[s].job = 0
        /\ \A u \in Tries : ledger[s].try < u => ~Touched(s, u)
        /\ Key(s) \notin inflight /\ answer[Key(s)] = "created"
    BY <1>1, <1>3 DEF SubmitFacts, Key
  <1>5. jobOf[Key(s)] \in Tries
    BY <1>2, <1>4, CreatedHasJob DEF Key, AnalysisInv
  <1> DEFINE q == Submitted(ledger[s], jobOf[Key(s)])
  <1>6. /\ q \in Row /\ q.try = ledger[s].try /\ q.job # 0 /\ RowShape(q) /\ RowFacts(s, q)
    BY <1>2, <1>4, <1>5, SubmittedRow, AnalysisAssumption DEF Key
  <1>7. ~q.uncertain
    BY <1>2 DEF Submitted, Row
  <1>8. Failed(q).try = q.try /\ Failed(q) \in Row /\ RowShape(Failed(q)) /\ RowFacts(s, Failed(q))
        /\ ~Failed(q).uncertain
    <2> HIDE DEF q
    <2>1. Failed(q) \in Row /\ Failed(q).try = q.try /\ Failed(q).job = q.job /\ Failed(q).status = "failed"
          /\ Failed(q).uncertain = q.uncertain /\ Failed(q).refused = q.refused
      BY <1>6 DEF Failed, Row, Status
    <2>2. QED BY <1>6, <1>7, <2>1, SameKnowledge
  <1>9. CASE Record(s)
    <2>1. Reports([ledger EXCEPT ![s] = q])
      BY <1>9 DEF Record, Returns
    <2> HIDE DEF q
    <2>2. QED BY <1>1, <1>4, <1>6, <1>7, <1>9, <2>1, ReturnedWithReceipt DEF Record
  <1>10. CASE RecordFails(s)
    <2>1. Reports([ledger EXCEPT ![s] = Failed(q)])
      BY <1>10 DEF RecordFails, Returns
    <2> HIDE DEF q
    <2>2. CASE UNCHANGED receipt
      BY <1>1, <1>8, <1>10, <2>1, <2>2, Returned DEF RecordFails
    <2>3. CASE receipt' = [receipt EXCEPT ![Key(s)] = "received"]
      BY <1>1, <1>4, <1>6, <1>8, <1>10, <2>1, <2>3, ReturnedWithReceipt DEF RecordFails
    <2>4. QED BY <1>10, <2>2, <2>3 DEF RecordFails
  <1>11. QED BY <1>9, <1>10

-----------------------------------------------------------------------------
(* Steps within an execution: the checkpoint stays.                        *)

\* Class of steps: an execution goes on, and what it has established is as claimed.
LEMMA GoesOn ==
    ASSUME AnalysisInv, NEW s \in Selections, Executes(s, exec.pc), UNCHANGED checkpoint,
           exec' \in Execution,
           Typed', ServicesAgree', Ordered', Uploads',
           \A r \in Selections, q \in Row :
               (r # s \/ q = ledger[s]) /\ RowFacts(r, q) => RowFacts(r, q)',
           exec'.pc \in Submitting => SubmitFacts(s, ledger[s].try)',
           exec'.pc \in Storing => StoreFacts(s, ledger[s].try)'
    PROVE  AnalysisInv'
  <1>1. /\ ledger \in Ledger /\ node = "step" /\ run = "active" /\ Current(s)
        /\ \A r \in Selections : ledger[r] \in Row /\ RowFacts(r, ledger[r])
    <2>1. ledger \in Ledger /\ node = "step" /\ run = "active" /\ Current(s)
      BY ExecutionFacts
    <2>2. QED BY <2>1 DEF AnalysisInv, Rows, Ledger
  <1>2. Checkpointed'
    BY <1>1 DEF AnalysisInv, Checkpointed, checkpoint
  <1>3. Rows'
    <2>1. SUFFICES ASSUME NEW r \in Selections PROVE RowFacts(r, ledger[r])'
      BY DEF Rows
    <2>2. RowFacts(r, ledger[r]) /\ ledger'[r] = ledger[r] /\ ledger[r] \in Row
      BY <1>1 DEF checkpoint
    <2>3. r # s \/ ledger[r] = ledger[s]
      OBVIOUS
    <2>4. QED BY <2>2, <2>3
  <1>4. Executing'
    <2>1. SUFFICES ASSUME NEW r \in Selections, Current(r)'
                   PROVE  /\ exec'.pc \in Submitting => SubmitFacts(r, ledger[r].try)'
                          /\ exec'.pc \in Storing => StoreFacts(r, ledger[r].try)'
      BY DEF Executing, Submitting, Storing
    <2>2. Current(r)
      BY <2>1 DEF Current, checkpoint
    <2>3. r = s
      BY <1>1, <2>2, CurrentIsUnique
    <2>4. QED BY <2>3 DEF checkpoint
  <1>5. QED BY <1>2, <1>3, <1>4 DEF AnalysisInv

\* The claim of a fresh key.
LEMMA ClaimKeeps ==
    ASSUME AnalysisInv, NEW s \in Selections, Claim(s) PROVE AnalysisInv'
  <1>1. Executes(s, exec.pc) /\ faults' \in Nat /\ s \in Native /\ ledger[s].job = 0
    BY DEF Claim, Works, Executes, AnalysisInv, Typed
  <1>2. /\ ledger \in Ledger /\ ledger[s] \in Row /\ ~ledger[s].uncertain /\ ledger[s].try \in Tries
        /\ Key(s) \in Keys
    BY <1>1, ExecutionFacts DEF Row
  <1> DEFINE T == ledger[s].try
  <1>3. receipt[<<s, T>>] = "none" /\ receipt' = [receipt EXCEPT ![<<s, T>>] = "claimed"]
    BY DEF Claim, Key
  <1>4. \A u \in Tries : T < u => ~Touched(s, u)
    BY <1>1, <1>2, <1>3, LaterUntouched
  <1> HIDE DEF T
  <1>5. /\ Typed' /\ ServicesAgree' /\ Ordered' /\ Uploads'
        /\ \A r \in Selections, q \in Row : r # s /\ RowFacts(r, q) => RowFacts(r, q)'
        /\ \A q \in Row : q.try = T /\ ~q.uncertain /\ RowFacts(s, q) => RowFacts(s, q)'
    BY <1>1, <1>2, <1>3, <1>4, ReceiptKeeps DEF T, Claim
  <1>6. exec' = [exec EXCEPT !.pc = "post"] /\ exec' \in Execution /\ exec'.pc = "post" /\ UNCHANGED checkpoint
    BY DEF Claim, Goto, AnalysisInv, Checkpointed, Execution
  <1>7. SubmitFacts(s, T)'
    <2>1. ledger' = ledger /\ ledger'[s].job = 0
      BY <1>1, <1>6 DEF checkpoint
    <2>2. receipt'[<<s, T>>] = "claimed" /\ \A u \in Tries : u # T => receipt'[<<s, u>>] = receipt[<<s, u>>]
      BY <1>2, <1>3 DEF AnalysisInv, Typed, T, Key
    <2>3. \A u \in Tries : T < u => ~Touched(s, u)'
      BY <1>1, <1>2, <1>4, <2>2 DEF Touched, T
    <2>4. <<s, T>> \notin inflight' /\ answer'[<<s, T>>] = "none"
      BY <1>1, <1>2, <1>3 DEF AnalysisInv, ServicesAgree, ServiceFacts, Claim, serviceVars, T
    <2>5. T' = T
      BY <2>1 DEF T
    <2>6. QED BY <1>1, <1>6, <2>1, <2>2, <2>3, <2>4, <2>5 DEF SubmitFacts
  <1>8. T' = T
    BY <1>6 DEF T, checkpoint
  <1>9. QED
    BY <1>1, <1>2, <1>5, <1>6, <1>7, <1>8, GoesOn DEF T, Storing

\* The POST of a claimed key, or of a connector's.
LEMMA PostKeeps ==
    ASSUME AnalysisInv, NEW s \in Selections, Post(s) PROVE AnalysisInv'
  <1>1. Executes(s, exec.pc) /\ faults' \in Nat
    BY DEF Post, Works, Executes, AnalysisInv, Typed
  <1>2. /\ ledger \in Ledger /\ ledger[s] \in Row /\ ledger[s].try \in Tries /\ Current(s)
        /\ Key(s) \in Keys /\ RowFacts(s, ledger[s])
    BY <1>1, ExecutionFacts DEF Row
  <1> DEFINE T == ledger[s].try
  <1>3. /\ ledger[s].job = 0
        /\ s \in Native => /\ receipt[<<s, T>>] = "claimed" /\ answer[<<s, T>>] = "none"
                           /\ \A u \in Tries : T < u => ~Touched(s, u)
    <2>1. CASE Executes(s, "post")
      <3>1. exec.pc = "post" /\ SubmitFacts(s, T)
        BY <1>2, <2>1 DEF AnalysisInv, Executing, Executes, Submitting
      <3>2. QED BY <3>1 DEF SubmitFacts
    <2>2. CASE s \notin Native /\ ledger[s].job = 0
      BY <2>2
    <2>3. QED BY <2>1, <2>2 DEF Post
  <1>4. inflight' = inflight \cup {<<s, T>>} /\ UNCHANGED <<receipt, answer, jobOf, job, uploadVars>>
    BY DEF Post, Key
  <1>5. exec' = [exec EXCEPT !.pc = "await"] /\ exec' \in Execution /\ exec'.pc = "await" /\ UNCHANGED checkpoint
    BY DEF Post, Goto, AnalysisInv, Checkpointed, Execution
  <1>6. T' = T /\ T \in Tries
    BY <1>2, <1>5 DEF T, checkpoint
  <1>7. \A t \in Tries : t < T => Dead(s, t)
    BY <1>2 DEF RowFacts
  <1> HIDE DEF T
  <1>8. Typed'
    BY <1>1, <1>4, <1>6 DEF AnalysisInv, Typed, uploadVars
  <1>9. ServicesAgree'
    <2>1. SUFFICES ASSUME NEW r \in Selections, NEW t \in Tries PROVE ServiceFacts(r, t)'
      BY DEF ServicesAgree
    <2>2. ServiceFacts(r, t)
      BY DEF AnalysisInv, ServicesAgree
    <2>3. CASE <<r, t>> = <<s, T>>
      BY <1>3, <1>4, <2>2, <2>3 DEF ServiceFacts
    <2>4. CASE <<r, t>> # <<s, T>>
      BY <1>4, <2>2, <2>4 DEF ServiceFacts
    <2>5. QED BY <2>3, <2>4
  <1>10. Ordered'
    <2>1. SUFFICES ASSUME NEW r \in Selections, NEW t \in Tries, NEW u \in Tries, t < u, Touched(r, u)'
                   PROVE  Dead(r, t)
      BY <1>4 DEF Ordered, Dead
    <2>2. CASE Touched(r, u)
      BY <2>1, <2>2 DEF AnalysisInv, Ordered
    <2>3. CASE r = s /\ u = T
      BY <1>7, <2>1, <2>3
    <2>4. QED BY <1>4, <2>1, <2>2, <2>3 DEF Touched
  <1>11. Uploads'
    BY <1>4 DEF AnalysisInv, Uploads, UploadFacts, uploadVars
  <1>12. \A r \in Selections, q \in Row : RowFacts(r, q) => RowFacts(r, q)'
    BY <1>4 DEF RowFacts, Dead, uploadVars
  <1>13. SubmitFacts(s, T)'
    BY <1>3, <1>4, <1>5, <1>6 DEF SubmitFacts, checkpoint, Touched
  <1>14. QED
    BY <1>1, <1>5, <1>6, <1>8, <1>9, <1>10, <1>11, <1>12, <1>13, GoesOn DEF T, Storing

\* Class of steps: an execution goes on and nothing outside changes.
LEMMA OnlyExecution ==
    ASSUME AnalysisInv, NEW s \in Selections, Executes(s, exec.pc), UNCHANGED checkpoint,
           exec' \in Execution, UNCHANGED <<receipt, serviceVars, uploadVars, faults>>,
           exec'.pc \in Submitting => SubmitFacts(s, ledger[s].try)',
           exec'.pc \in Storing => StoreFacts(s, ledger[s].try)'
    PROVE  AnalysisInv'
  <1>1. /\ Typed' /\ ServicesAgree' /\ Ordered' /\ Uploads'
        /\ \A r \in Selections, q \in Row : RowFacts(r, q) => RowFacts(r, q)'
    BY OutsideKept DEF AnalysisInv, Typed
  <1>2. QED BY <1>1, GoesOn

\* The native service has answered.
LEMMA AnsweredKeeps ==
    ASSUME AnalysisInv, NEW s \in Selections, Answered(s), s \in Native PROVE AnalysisInv'
  <1>1. Executes(s, exec.pc) /\ Current(s) /\ exec.pc = "await"
    BY DEF Answered, Executes
  <1>2. SubmitFacts(s, ledger[s].try)
    BY <1>1 DEF AnalysisInv, Executing, Submitting
  <1>3. exec' = [exec EXCEPT !.pc = "record"] /\ exec' \in Execution /\ exec'.pc = "record" /\ UNCHANGED checkpoint
    BY DEF Answered, Goto, AnalysisInv, Checkpointed, Execution
  <1>4. SubmitFacts(s, ledger[s].try)'
    BY <1>2, <1>3 DEF SubmitFacts, Touched, Answered, Key, checkpoint, serviceVars
  <1>5. QED BY <1>1, <1>3, <1>4, OnlyExecution DEF Answered, Storing

\* A finished job's result is read.
LEMMA CollectKeeps ==
    ASSUME AnalysisInv, NEW s \in Selections, Collect(s) PROVE AnalysisInv'
  <1>1. Executes(s, exec.pc) /\ ledger[s].job # 0 /\ job[<<s, ledger[s].job>>] = "done" /\ faults' \in Nat
    BY DEF Collect, Works, Executes, AnalysisInv, Typed
  <1>2. CASE Returns(s, Collecting(ledger[s]))
    BY <1>1, <1>2, CollectingKeeps DEF Collect
  <1>3. ASSUME NEW c \in Contents, exec' = [pc |-> "store", content |-> c], UNCHANGED checkpoint
        PROVE  AnalysisInv'
    <2>1. exec' \in Execution /\ exec'.pc = "store" /\ exec'.content \in Contents
      BY <1>3 DEF Execution
    <2>2. StoreFacts(s, ledger[s].try)'
      BY <1>1, <1>3, <2>1 DEF StoreFacts, Collect, checkpoint, serviceVars
    <2>3. QED BY <1>1, <1>3, <2>1, <2>2, OnlyExecution DEF Collect, Submitting
  <1>4. QED BY <1>2, <1>3 DEF Collect

\* The artifact is already published.
LEMMA StageFinishedKeeps ==
    ASSUME AnalysisInv, NEW s \in Selections, StageFinished(s) PROVE AnalysisInv'
  <1>1. Executes(s, exec.pc) /\ Current(s) /\ exec.pc = "store" /\ reference[Key(s)] = exec.content
    BY DEF StageFinished, Executes
  <1>2. StoreFacts(s, ledger[s].try)
    BY <1>1 DEF AnalysisInv, Executing, Storing
  <1>3. /\ exec' = [exec EXCEPT !.pc = "commit"] /\ exec' \in Execution /\ exec'.pc = "commit"
        /\ exec'.content = exec.content /\ UNCHANGED checkpoint
    BY DEF StageFinished, Goto, AnalysisInv, Checkpointed, Execution
  <1>4. StoreFacts(s, ledger[s].try)'
    BY <1>1, <1>2, <1>3 DEF StoreFacts, StageFinished, Key, checkpoint, serviceVars, uploadVars
  <1>5. QED BY <1>1, <1>3, <1>4, OnlyExecution DEF StageFinished, Submitting

-----------------------------------------------------------------------------
(* The artifact outbox, written by the execution and by the reconciler.    *)

\* Class of steps: the upload of one key changes, and never a published reference.
LEMMA UploadKeeps ==
    ASSUME AnalysisInv, NEW s \in Selections, NEW T \in Tries,
           NEW i \in Intent, NEW o \in Contents \cup {0}, NEW f \in Contents \cup {0},
           intent' = [intent EXCEPT ![<<s, T>>] = i],
           object' = [object EXCEPT ![<<s, T>>] = o],
           reference' = [reference EXCEPT ![<<s, T>>] = f],
           reference[<<s, T>>] # 0 => f = reference[<<s, T>>],
           i.state # "none" => f = 0 /\ i.content \in Contents /\ o \in {0, i.content},
           f # 0 => o = f,
           i.state = "none" /\ f = 0 => o = 0,
           UNCHANGED <<receipt, serviceVars, faults>>
    PROVE  /\ Typed' /\ ServicesAgree' /\ Ordered' /\ Uploads'
           /\ \A r \in Selections, q \in Row : RowFacts(r, q) => RowFacts(r, q)'
  <1>1. <<s, T>> \in Keys
    OBVIOUS
  <1>2. /\ intent \in [Keys -> Intent] /\ object \in [Keys -> Contents \cup {0}]
        /\ reference \in [Keys -> Contents \cup {0}]
    BY DEF AnalysisInv, Typed
  <1>3. /\ intent'[<<s, T>>] = i /\ object'[<<s, T>>] = o /\ reference'[<<s, T>>] = f
        /\ \A r \in Selections, t \in Tries : <<r, t>> # <<s, T>> =>
               /\ intent'[<<r, t>>] = intent[<<r, t>>] /\ object'[<<r, t>>] = object[<<r, t>>]
               /\ reference'[<<r, t>>] = reference[<<r, t>>]
    BY <1>1, <1>2
  <1>4. Typed'
    BY <1>2 DEF AnalysisInv, Typed, serviceVars
  <1>5. ServicesAgree'
    BY DEF AnalysisInv, ServicesAgree, ServiceFacts, serviceVars
  <1>6. Ordered'
    BY DEF AnalysisInv, Ordered, Touched, Dead, serviceVars
  <1>7. Uploads'
    <2>1. SUFFICES ASSUME NEW r \in Selections, NEW t \in Tries PROVE UploadFacts(r, t)'
      BY DEF Uploads
    <2>2. UploadFacts(r, t)
      BY DEF AnalysisInv, Uploads
    <2>3. CASE <<r, t>> = <<s, T>>
      BY <1>3, <2>3 DEF UploadFacts
    <2>4. CASE <<r, t>> # <<s, T>>
      BY <1>3, <2>2, <2>4 DEF UploadFacts
    <2>5. QED BY <2>3, <2>4
  <1>8. ASSUME NEW r \in Selections, NEW q \in Row, RowFacts(r, q)
        PROVE  RowFacts(r, q)'
    <2>1. q.try \in Tries
      BY DEF Row
    <2>2. reference[<<r, q.try>>] # 0 => reference'[<<r, q.try>>] = reference[<<r, q.try>>]
      BY <1>3, <2>1
    <2>3. \A t \in Tries : Dead(r, t) => Dead(r, t)'
      BY DEF Dead, serviceVars
    <2>4. QED BY <1>8, <2>2, <2>3, AnalysisAssumption DEF RowFacts, serviceVars
  <1>9. QED BY <1>4, <1>5, <1>6, <1>7, <1>8

\* What an execution knows of the row it stores.
LEMMA StorageFacts ==
    ASSUME AnalysisInv, NEW s \in Selections, NEW pc \in Storing, Executes(s, pc)
    PROVE  /\ Executes(s, exec.pc) /\ exec.pc = pc /\ ledger[s].try \in Tries
           /\ StoreFacts(s, ledger[s].try) /\ UploadFacts(s, ledger[s].try)
           /\ intent[Key(s)] \in Intent /\ object[Key(s)] \in Contents \cup {0}
           /\ reference[Key(s)] \in Contents \cup {0}
  <1>1. exec.pc = pc /\ Executes(s, exec.pc) /\ Current(s)
    BY DEF Executes
  <1>2. ledger[s] \in Row /\ ledger[s].try \in Tries
    BY ExecutionFacts DEF Row
  <1>3. StoreFacts(s, ledger[s].try)
    BY <1>1 DEF AnalysisInv, Executing, Storing
  <1>4. QED BY <1>1, <1>2, <1>3 DEF AnalysisInv, Uploads, Typed, Key

\* The artifact is reserved.
LEMMA StageKeeps ==
    ASSUME AnalysisInv, NEW s \in Selections, Stage(s) PROVE AnalysisInv'
  <1> DEFINE T == ledger[s].try
  <1>1. /\ Executes(s, exec.pc) /\ exec.pc = "store" /\ T \in Tries /\ StoreFacts(s, T) /\ UploadFacts(s, T)
        /\ object[<<s, T>>] \in Contents \cup {0}
    BY StorageFacts DEF Stage, Storing, Key
  <1>2. /\ exec' = [exec EXCEPT !.pc = "put"] /\ exec' \in Execution /\ exec'.pc = "put"
        /\ exec'.content = exec.content /\ UNCHANGED checkpoint
    BY DEF Stage, Goto, AnalysisInv, Checkpointed, Execution
  <1> DEFINE i == [state |-> "claimed", content |-> exec.content]
  <1>3. /\ reference[<<s, T>>] = 0 /\ intent[<<s, T>>].state = "none"
        /\ intent' = [intent EXCEPT ![<<s, T>>] = i]
        /\ UNCHANGED <<receipt, serviceVars, object, reference, faults>>
    BY DEF Stage, Key
  <1>4. i \in Intent /\ i.state # "none" /\ i.content = exec.content /\ exec.content \in Contents
    BY <1>1 DEF Intent, StoreFacts
  <1>5. T' = T
    BY <1>2 DEF checkpoint
  <1>6. /\ object' = [object EXCEPT ![<<s, T>>] = object[<<s, T>>]]
        /\ reference' = [reference EXCEPT ![<<s, T>>] = 0]
    BY <1>1, <1>3 DEF AnalysisInv, Typed
  <1>7. object[<<s, T>>] = 0
    BY <1>1, <1>3 DEF UploadFacts
  <1> HIDE DEF T, i
  <1>8. /\ Typed' /\ ServicesAgree' /\ Ordered' /\ Uploads'
        /\ \A r \in Selections, q \in Row : RowFacts(r, q) => RowFacts(r, q)'
    BY <1>1, <1>3, <1>4, <1>6, <1>7, UploadKeeps
  <1>9. StoreFacts(s, T)'
    <2>1. intent'[<<s, T>>] = i
      BY <1>1, <1>3 DEF AnalysisInv, Typed
    <2>2. QED BY <1>1, <1>2, <1>3, <1>4, <1>5, <2>1 DEF StoreFacts, checkpoint, serviceVars
  <1>10. QED BY <1>1, <1>2, <1>5, <1>8, <1>9, GoesOn DEF T, Submitting

\* The object is put.
LEMMA PutKeeps ==
    ASSUME AnalysisInv, NEW s \in Selections, Put(s) PROVE AnalysisInv'
  <1> DEFINE T == ledger[s].try
  <1>1. /\ Executes(s, exec.pc) /\ exec.pc = "put" /\ T \in Tries /\ StoreFacts(s, T) /\ UploadFacts(s, T)
        /\ intent[<<s, T>>] \in Intent /\ reference[<<s, T>>] \in Contents \cup {0}
    BY StorageFacts DEF Put, Storing, Key
  <1>2. /\ exec' = [exec EXCEPT !.pc = "finalize"] /\ exec' \in Execution /\ exec'.pc = "finalize"
        /\ exec'.content = exec.content /\ UNCHANGED checkpoint
    BY DEF Put, Goto, AnalysisInv, Checkpointed, Execution
  <1>3. /\ object' = [object EXCEPT ![<<s, T>>] = exec.content]
        /\ UNCHANGED <<receipt, serviceVars, intent, reference, faults>>
    BY DEF Put, Key
  <1>4. /\ intent' = [intent EXCEPT ![<<s, T>>] = intent[<<s, T>>]]
        /\ reference' = [reference EXCEPT ![<<s, T>>] = reference[<<s, T>>]]
    BY <1>1, <1>3 DEF AnalysisInv, Typed
  <1>5. T' = T
    BY <1>2 DEF checkpoint
  <1>6. /\ exec.content \in Contents
        /\ \/ intent[<<s, T>>].state # "none" /\ intent[<<s, T>>].content = exec.content
           \/ reference[<<s, T>>] = exec.content
    BY <1>1 DEF StoreFacts
  <1> HIDE DEF T
  <1>7. /\ Typed' /\ ServicesAgree' /\ Ordered' /\ Uploads'
        /\ \A r \in Selections, q \in Row : RowFacts(r, q) => RowFacts(r, q)'
    <2>1. /\ intent[<<s, T>>].state # "none" =>
                 reference[<<s, T>>] = 0 /\ intent[<<s, T>>].content = exec.content
          /\ reference[<<s, T>>] # 0 => exec.content = reference[<<s, T>>]
          /\ ~(intent[<<s, T>>].state = "none" /\ reference[<<s, T>>] = 0)
      BY <1>1, <1>6, AnalysisAssumption DEF UploadFacts
    <2> DEFINE i == intent[<<s, T>>]
               f == reference[<<s, T>>]
    <2>2. /\ i \in Intent /\ f \in Contents \cup {0}
          /\ intent' = [intent EXCEPT ![<<s, T>>] = i] /\ reference' = [reference EXCEPT ![<<s, T>>] = f]
          /\ reference[<<s, T>>] # 0 => f = reference[<<s, T>>]
          /\ i.state # "none" => f = 0 /\ i.content \in Contents /\ exec.content \in {0, i.content}
          /\ f # 0 => exec.content = f
          /\ i.state = "none" /\ f = 0 => exec.content = 0
      BY <1>1, <1>4, <1>6, <2>1
    <2> DEFINE c == exec.content
    <2>3. /\ c \in Contents \cup {0} /\ object' = [object EXCEPT ![<<s, T>>] = c]
          /\ i.state # "none" => f = 0 /\ i.content \in Contents /\ c \in {0, i.content}
          /\ f # 0 => c = f
          /\ i.state = "none" /\ f = 0 => c = 0
          /\ T \in Tries /\ UNCHANGED <<receipt, serviceVars, faults>>
      BY <1>1, <1>3, <1>6, <2>2
    <2> HIDE DEF i, f, c
    <2>4. QED BY <2>2, <2>3, UploadKeeps
  <1>8. StoreFacts(s, T)'
    <2>1. object'[<<s, T>>] = exec.content
      BY <1>1, <1>3 DEF AnalysisInv, Typed
    <2>2. QED BY <1>1, <1>2, <1>3, <1>5, <1>6, <2>1 DEF StoreFacts, checkpoint, serviceVars
  <1>9. QED BY <1>1, <1>2, <1>5, <1>7, <1>8, GoesOn DEF T, Submitting

\* The artifact is published.
LEMMA FinalizeKeeps ==
    ASSUME AnalysisInv, NEW s \in Selections, Finalize(s) PROVE AnalysisInv'
  <1> DEFINE T == ledger[s].try
  <1>1. /\ Executes(s, exec.pc) /\ exec.pc = "finalize" /\ T \in Tries
        /\ StoreFacts(s, T) /\ UploadFacts(s, T)
    BY StorageFacts DEF Finalize, Storing, Key
  <1>2. /\ exec' = [exec EXCEPT !.pc = "commit"] /\ exec' \in Execution /\ exec'.pc = "commit"
        /\ exec'.content = exec.content /\ UNCHANGED checkpoint
    BY DEF Finalize, Goto, AnalysisInv, Checkpointed, Execution
  <1>3. /\ reference' = [reference EXCEPT ![<<s, T>>] = exec.content]
        /\ intent' = [intent EXCEPT ![<<s, T>>] = NoIntent]
        /\ UNCHANGED <<receipt, serviceVars, object, faults>>
    BY DEF Finalize, Publish, Key
  <1>4. object' = [object EXCEPT ![<<s, T>>] = exec.content]
    BY <1>1, <1>3 DEF AnalysisInv, Typed, StoreFacts
  <1>5. T' = T
    BY <1>2 DEF checkpoint
  <1>6. exec.content \in Contents /\ (reference[<<s, T>>] # 0 => reference[<<s, T>>] = exec.content)
    BY <1>1 DEF StoreFacts, UploadFacts
  <1>7. NoIntent \in Intent /\ NoIntent.state = "none"
    BY DEF NoIntent, Intent
  <1>8. exec.content # 0
    BY <1>6, AnalysisAssumption
  <1> HIDE DEF T
  <1>9. /\ Typed' /\ ServicesAgree' /\ Ordered' /\ Uploads'
        /\ \A r \in Selections, q \in Row : RowFacts(r, q) => RowFacts(r, q)'
    BY <1>1, <1>3, <1>4, <1>6, <1>7, <1>8, UploadKeeps
  <1>10. StoreFacts(s, T)'
    <2>1. reference'[<<s, T>>] = exec.content
      BY <1>1, <1>3 DEF AnalysisInv, Typed
    <2>2. QED BY <1>1, <1>2, <1>3, <1>5, <1>6, <2>1 DEF StoreFacts, checkpoint, serviceVars
  <1>11. QED BY <1>1, <1>2, <1>5, <1>9, <1>10, GoesOn DEF T, Submitting

-----------------------------------------------------------------------------
(* Steps of the services and of the reconciler: no execution takes them.   *)

\* Class of steps: the thread and its execution stay, and so does what they know.
LEMMA ThreadStays ==
    ASSUME AnalysisInv, UNCHANGED <<checkpoint, exec>>,
           Typed', ServicesAgree', Ordered', Uploads',
           \A r \in Selections, q \in Row : RowFacts(r, q) => RowFacts(r, q)',
           \A s \in Selections : ledger \in Ledger /\ Current(s) =>
               /\ exec.pc \in Submitting /\ SubmitFacts(s, ledger[s].try) => SubmitFacts(s, ledger[s].try)'
               /\ exec.pc \in Storing /\ StoreFacts(s, ledger[s].try) => StoreFacts(s, ledger[s].try)'
    PROVE  AnalysisInv'
  <1>1. Checkpointed'
    BY DEF AnalysisInv, Checkpointed, checkpoint
  <1>2. Rows'
    <2>1. SUFFICES ASSUME ledger \in Ledger, NEW r \in Selections PROVE RowFacts(r, ledger[r])'
      BY DEF Rows, checkpoint
    <2>2. RowFacts(r, ledger[r]) /\ ledger'[r] = ledger[r] /\ ledger[r] \in Row
      BY <2>1 DEF AnalysisInv, Rows, Ledger, checkpoint
    <2>3. QED BY <2>2
  <1>3. Executing'
    <2>1. SUFFICES ASSUME exec.pc # "idle", NEW r \in Selections, Current(r)
                   PROVE  /\ exec.pc \in Submitting => SubmitFacts(r, ledger[r].try)'
                          /\ exec.pc \in Storing => StoreFacts(r, ledger[r].try)'
      BY DEF Executing, Current, checkpoint
    <2>2. ledger \in Ledger
      BY <2>1 DEF AnalysisInv, Checkpointed
    <2>3. QED BY <2>1, <2>2 DEF AnalysisInv, Executing
  <1>4. QED BY <1>1, <1>2, <1>3 DEF AnalysisInv

\* The outcome of a POST, once and for all.
LEMMA ArriveKeeps ==
    ASSUME AnalysisInv, NEW k \in Keys, Arrive(k) PROVE AnalysisInv'
  <1>1. PICK a \in Selections, b \in Tries : k = <<a, b>>
    OBVIOUS
  <1>2. /\ <<a, b>> \in inflight /\ inflight' = inflight \ {<<a, b>>}
        /\ UNCHANGED <<checkpoint, exec, receipt, uploadVars, faults>>
    BY <1>1 DEF Arrive
  <1>3. ServiceFacts(a, b)
    BY DEF AnalysisInv, ServicesAgree
  <1>4. /\ jobOf \in [Keys -> Tries \cup {0}] /\ job \in [Keys -> {"none", "live", "done", "failed"}]
        /\ answer \in [Keys -> {"none", "created", "rejected"}]
    BY DEF AnalysisInv, Typed
  <1>5. \A r \in Selections, t \in Tries : <<r, t>> # <<a, b>> =>
            /\ answer'[<<r, t>>] = answer[<<r, t>>] /\ jobOf'[<<r, t>>] = jobOf[<<r, t>>]
            /\ job'[<<r, t>>] = job[<<r, t>>]
    BY <1>1, <1>4 DEF Arrive
  <1>6. \/ /\ jobOf[<<a, b>>] = 0 /\ jobOf' = jobOf /\ job' = job
           /\ answer'[<<a, b>>] = "rejected"
        \/ /\ jobOf[<<a, b>>] = 0 /\ jobOf'[<<a, b>>] = b /\ job'[<<a, b>>] = "live"
           /\ answer'[<<a, b>>] = "created"
        \/ /\ a \in Native /\ job' = job /\ jobOf'[<<a, b>>] \in Tries
           /\ answer'[<<a, b>>] = "created"
        \/ /\ a \notin Native /\ jobOf[<<a, b>>] \in Tries /\ job' = job
           /\ jobOf'[<<a, b>>] = jobOf[<<a, b>>] /\ answer'[<<a, b>>] = "created"
    BY <1>1, <1>4, AnalysisAssumption DEF Arrive
  <1>7. Typed'
    <2>1. inflight' \in SUBSET Keys
      BY <1>2 DEF AnalysisInv, Typed
    <2>2. answer' \in [Keys -> {"none", "created", "rejected"}] /\ jobOf' \in [Keys -> Tries \cup {0}]
          /\ job' \in [Keys -> {"none", "live", "done", "failed"}]
      <3>1. CASE UNCHANGED <<jobOf, job>> /\ answer' = [answer EXCEPT ![k] = "rejected"]
        BY <1>4, <3>1
      <3>2. CASE /\ answer' = [answer EXCEPT ![k] = "created"]
                 /\ \E t \in Tries : jobOf' = [jobOf EXCEPT ![k] = t]
                 /\ job' = job \/ job' = [job EXCEPT ![k] = "live"]
        BY <1>4, <3>2
      <3>3. k[2] \in Tries
        BY <1>1
      <3>4. QED BY <3>1, <3>2, <3>3 DEF Arrive
    <2>3. QED BY <1>2, <2>1, <2>2 DEF AnalysisInv, Typed, uploadVars
  <1>8. a \in Native => jobOf[<<a, b>>] = 0 /\ receipt[<<a, b>>] = "claimed"
    BY <1>2, <1>3 DEF ServiceFacts, AnalysisInv, Typed, Receipt
  <1>9. \A r \in Selections, t \in Tries :
            /\ jobOf[<<r, t>>] # 0 => jobOf'[<<r, t>>] = jobOf[<<r, t>>]
            /\ job[<<r, t>>] # "none" => job'[<<r, t>>] = job[<<r, t>>]
    BY <1>3, <1>5, <1>6, <1>8 DEF ServiceFacts
  <1>10. 0 \notin Tries
    BY AnalysisAssumption
  <1>11. ServicesAgree'
    <2>1. SUFFICES ASSUME NEW r \in Selections, NEW t \in Tries PROVE ServiceFacts(r, t)'
      BY DEF ServicesAgree
    <2>2. ServiceFacts(r, t)
      BY DEF AnalysisInv, ServicesAgree
    <2>3. CASE <<r, t>> = <<a, b>>
      <3>1. r = a /\ t = b
        BY <2>3
      <3>2. <<a, b>> \notin inflight' /\ receipt' = receipt
        BY <1>2
      <3>3. ServiceFacts(a, b)'
        BY <1>3, <1>6, <1>8, <1>10, <3>2 DEF ServiceFacts
      <3>4. QED BY <3>1, <3>3
    <2>4. CASE <<r, t>> # <<a, b>>
      BY <1>2, <1>5, <2>2, <2>4 DEF ServiceFacts
    <2>5. QED BY <2>3, <2>4
  <1>12. \A r \in Selections, t \in Tries : Dead(r, t) => Dead(r, t)'
    BY <1>2, <1>5, <1>8, <1>9 DEF Dead
  <1>13. Ordered'
    <2>1. \A r \in Selections, t \in Tries : Touched(r, t)' => Touched(r, t)
      BY <1>2, <1>5, <1>9 DEF Touched
    <2>2. QED BY <1>12, <2>1 DEF AnalysisInv, Ordered
  <1>14. Uploads'
    BY <1>2 DEF AnalysisInv, Uploads, UploadFacts, uploadVars
  <1>15. ASSUME NEW r \in Selections, NEW q \in Row, RowFacts(r, q) PROVE RowFacts(r, q)'
    <2>1. q.try \in Tries /\ q.job \in Tries \cup {0}
      BY DEF Row
    <2>2. q.job # 0 => q.job \in Tries /\ jobOf[<<r, q.try>>] = q.job
      BY <1>15, <2>1 DEF RowFacts
    <2>3. \A t \in Tries : t < q.try => Dead(r, t)'
      BY <1>12, <1>15 DEF RowFacts
    <2>4. q.status = "succeeded" => q.job # 0
      BY <1>15 DEF RowFacts
    <2>5. QED
      BY <1>2, <1>9, <1>15, <2>1, <2>2, <2>3, <2>4 DEF RowFacts, uploadVars
  <1>16. ASSUME NEW s \in Selections, ledger \in Ledger
         PROVE  /\ exec.pc \in Submitting /\ SubmitFacts(s, ledger[s].try) => SubmitFacts(s, ledger[s].try)'
                /\ exec.pc \in Storing /\ StoreFacts(s, ledger[s].try) => StoreFacts(s, ledger[s].try)'
    <2>1. ledger' = ledger /\ exec' = exec /\ receipt' = receipt
          /\ intent' = intent /\ object' = object /\ reference' = reference
      BY <1>2 DEF checkpoint, uploadVars
    <2>2. ledger[s].try \in Tries /\ ledger[s].job \in Tries \cup {0}
      BY <1>16 DEF Ledger, Row
    <2>3. StoreFacts(s, ledger[s].try) => StoreFacts(s, ledger[s].try)'
      BY <1>9, <2>1, <2>2 DEF StoreFacts
    <2>4. SubmitFacts(s, ledger[s].try) => SubmitFacts(s, ledger[s].try)'
      BY <1>2, <1>5, <2>1, <2>2 DEF SubmitFacts, Touched
    <2>5. QED BY <2>3, <2>4
  <1>17. QED
    BY <1>2, <1>7, <1>11, <1>13, <1>14, <1>15, <1>16, ThreadStays

\* A job ends.
LEMMA JobEndsKeeps ==
    ASSUME AnalysisInv, NEW k \in Keys, JobEnds(k) PROVE AnalysisInv'
  <1>1. PICK a \in Selections, b \in Tries : k = <<a, b>>
    OBVIOUS
  <1>2. PICK e \in {"done", "failed"} : job' = [job EXCEPT ![<<a, b>>] = e]
    BY <1>1 DEF JobEnds
  <1>3. /\ job[<<a, b>>] = "live"
        /\ UNCHANGED <<checkpoint, exec, receipt, inflight, answer, jobOf, uploadVars, faults>>
    BY <1>1 DEF JobEnds
  <1>4. job \in [Keys -> {"none", "live", "done", "failed"}] /\ <<a, b>> \in Keys
    BY DEF AnalysisInv, Typed
  <1>5. /\ job'[<<a, b>>] = e
        /\ \A r \in Selections, t \in Tries : <<r, t>> # <<a, b>> => job'[<<r, t>>] = job[<<r, t>>]
    BY <1>2, <1>4
  <1>6. Typed'
    BY <1>2, <1>3, <1>4 DEF AnalysisInv, Typed, uploadVars
  <1>7. \A r \in Selections, t \in Tries :
            /\ job[<<r, t>>] \notin {"live"} => job'[<<r, t>>] = job[<<r, t>>]
            /\ job[<<r, t>>] = "live" => job'[<<r, t>>] \in {"live", "done", "failed"}
    BY <1>3, <1>5
  <1>8. ServicesAgree'
    <2>1. SUFFICES ASSUME NEW r \in Selections, NEW t \in Tries PROVE ServiceFacts(r, t)'
      BY DEF ServicesAgree
    <2>2. ServiceFacts(r, t)
      BY DEF AnalysisInv, ServicesAgree
    <2>3. job[<<r, t>>] = "none" => job'[<<r, t>>] = "none"
      BY <1>7
    <2>4. job'[<<r, t>>] # "none" => job[<<r, t>>] # "none"
      BY <1>7
    <2>5. QED BY <1>3, <2>2, <2>3, <2>4 DEF ServiceFacts
  <1>9. \A r \in Selections, t \in Tries : Dead(r, t) => Dead(r, t)'
    BY <1>3, <1>7 DEF Dead
  <1>10. \A r \in Selections, t \in Tries : Touched(r, t)' => Touched(r, t)
    BY <1>3, <1>7 DEF Touched
  <1>11. Ordered'
    BY <1>9, <1>10 DEF AnalysisInv, Ordered
  <1>12. Uploads'
    BY <1>3 DEF AnalysisInv, Uploads, UploadFacts, uploadVars
  <1>13. 0 \notin Tries
    BY AnalysisAssumption
  <1>14. ASSUME NEW r \in Selections, NEW q \in Row, RowFacts(r, q) PROVE RowFacts(r, q)'
    <2>1. \A t \in Tries : t < q.try => Dead(r, t)'
      BY <1>9, <1>14 DEF RowFacts
    <2>2. q.job # 0 => q.job \in Tries
      BY DEF Row
    <2>3. q.job # 0 /\ job[<<r, q.job>>] \in {"done", "failed"} => job'[<<r, q.job>>] = job[<<r, q.job>>]
      BY <1>7, <2>2
    <2>4. QED
      BY <1>3, <1>14, <2>1, <2>3 DEF RowFacts, uploadVars
  <1>15. ASSUME NEW s \in Selections, ledger \in Ledger
         PROVE  /\ exec.pc \in Submitting /\ SubmitFacts(s, ledger[s].try) => SubmitFacts(s, ledger[s].try)'
                /\ exec.pc \in Storing /\ StoreFacts(s, ledger[s].try) => StoreFacts(s, ledger[s].try)'
    <2>1. ledger' = ledger /\ exec' = exec /\ receipt' = receipt /\ inflight' = inflight /\ answer' = answer
          /\ intent' = intent /\ object' = object /\ reference' = reference
      BY <1>3 DEF checkpoint, uploadVars
    <2>2. ledger[s].job # 0 /\ job[<<s, ledger[s].job>>] = "done" => job'[<<s, ledger[s].job>>] = "done"
      BY <1>7, <1>15 DEF Ledger, Row
    <2>3. StoreFacts(s, ledger[s].try) => StoreFacts(s, ledger[s].try)'
      BY <2>1, <2>2 DEF StoreFacts
    <2>4. SubmitFacts(s, ledger[s].try) => SubmitFacts(s, ledger[s].try)'
      BY <2>1 DEF SubmitFacts, Touched
    <2>5. QED BY <2>3, <2>4
  <1>16. QED
    BY <1>3, <1>6, <1>8, <1>11, <1>12, <1>14, <1>15, ThreadStays

\* An upload lapses, is put again and published by the reconciler.
LEMMA ReconcilerKeeps ==
    ASSUME AnalysisInv, NEW k \in Keys, ClaimLapses(k) \/ ReplayPut(k) \/ ReplayFinish(k)
    PROVE  AnalysisInv'
  <1>1. PICK a \in Selections, b \in Tries : k = <<a, b>>
    OBVIOUS
  <1>2. /\ intent \in [Keys -> Intent] /\ object \in [Keys -> Contents \cup {0}]
        /\ reference \in [Keys -> Contents \cup {0}] /\ UploadFacts(a, b) /\ k \in Keys
    BY DEF AnalysisInv, Typed, Uploads
  <1>3. /\ intent[k].state # "none" /\ intent[k].content \in Contents /\ reference[k] = 0
        /\ object[k] \in {0, intent[k].content} /\ intent[k] \in Intent
        /\ object[k] \in Contents \cup {0}
    BY <1>1, <1>2 DEF UploadFacts, ClaimLapses, ReplayPut, ReplayFinish
  <1>4. UNCHANGED <<checkpoint, exec, receipt, serviceVars, faults>>
    BY DEF ClaimLapses, ReplayPut, ReplayFinish
  <1> DEFINE c == intent[k].content
  <1>5. PICK i \in Intent, o \in Contents \cup {0}, f \in Contents \cup {0} :
            /\ intent' = [intent EXCEPT ![k] = i]
            /\ object' = [object EXCEPT ![k] = o]
            /\ reference' = [reference EXCEPT ![k] = f]
            /\ i.state # "none" => f = 0 /\ i.content = c /\ o \in {0, c}
            /\ f # 0 => o = f
            /\ i.state = "none" => f = c
            /\ o \in {object[k], c}
    <2>1. CASE ClaimLapses(k)
      <3>1. /\ [intent[k] EXCEPT !.state = "stale"] \in Intent
            /\ [intent[k] EXCEPT !.state = "stale"].state = "stale"
            /\ [intent[k] EXCEPT !.state = "stale"].content = c
        BY <1>3 DEF Intent
      <3>2. /\ intent' = [intent EXCEPT ![k] = [intent[k] EXCEPT !.state = "stale"]]
            /\ object' = [object EXCEPT ![k] = object[k]]
            /\ reference' = [reference EXCEPT ![k] = 0]
        BY <1>2, <1>3, <2>1 DEF ClaimLapses
      <3>3. QED BY <1>3, <3>1, <3>2
    <2>2. CASE ReplayPut(k)
      <3>1. /\ intent' = [intent EXCEPT ![k] = intent[k]]
            /\ object' = [object EXCEPT ![k] = c]
            /\ reference' = [reference EXCEPT ![k] = 0]
        BY <1>2, <1>3, <2>2 DEF ReplayPut
      <3>2. QED BY <1>3, <3>1
    <2>3. CASE ReplayFinish(k)
      <3>1. /\ intent' = [intent EXCEPT ![k] = NoIntent]
            /\ object' = [object EXCEPT ![k] = c]
            /\ reference' = [reference EXCEPT ![k] = c]
        BY <1>2, <1>3, <2>3 DEF ReplayFinish, Publish
      <3>2. NoIntent \in Intent /\ NoIntent.state = "none"
        BY DEF NoIntent, Intent
      <3>3. QED BY <1>3, <3>1, <3>2
    <2>4. QED BY <2>1, <2>2, <2>3
  <1>6. c \in Contents /\ c # 0
    BY <1>3, AnalysisAssumption
  <1>7. /\ Typed' /\ ServicesAgree' /\ Ordered' /\ Uploads'
        /\ \A r \in Selections, q \in Row : RowFacts(r, q) => RowFacts(r, q)'
    <2>1. /\ reference[<<a, b>>] # 0 => f = reference[<<a, b>>]
          /\ i.state # "none" => f = 0 /\ i.content \in Contents /\ o \in {0, i.content}
          /\ i.state = "none" /\ f = 0 => o = 0
          /\ intent' = [intent EXCEPT ![<<a, b>>] = i]
          /\ object' = [object EXCEPT ![<<a, b>>] = o]
          /\ reference' = [reference EXCEPT ![<<a, b>>] = f]
          /\ f # 0 => o = f
          /\ UNCHANGED <<receipt, serviceVars, faults>>
      BY <1>1, <1>3, <1>4, <1>5, <1>6
    <2> HIDE DEF c
    <2>2. QED BY <2>1, UploadKeeps
  <1>8. ASSUME NEW s \in Selections, ledger \in Ledger
        PROVE  /\ exec.pc \in Submitting /\ SubmitFacts(s, ledger[s].try) => SubmitFacts(s, ledger[s].try)'
               /\ exec.pc \in Storing /\ StoreFacts(s, ledger[s].try) => StoreFacts(s, ledger[s].try)'
    <2>1. /\ ledger' = ledger /\ exec' = exec /\ receipt' = receipt /\ inflight' = inflight
          /\ answer' = answer /\ job' = job
      BY <1>4 DEF checkpoint, serviceVars
    <2> DEFINE T == ledger[s].try
    <2>2. T \in Tries
      BY <1>8 DEF Ledger, Row
    <2>3. SubmitFacts(s, T) => SubmitFacts(s, ledger[s].try)'
      BY <2>1 DEF SubmitFacts, Touched
    <2>4. ASSUME StoreFacts(s, T) PROVE StoreFacts(s, ledger[s].try)'
      <3>1. CASE <<s, T>> # k
        <4>1. /\ intent'[<<s, T>>] = intent[<<s, T>>] /\ object'[<<s, T>>] = object[<<s, T>>]
              /\ reference'[<<s, T>>] = reference[<<s, T>>]
          BY <1>2, <1>5, <2>2, <3>1
        <4>2. QED BY <2>1, <2>4, <4>1 DEF StoreFacts
      <3>2. CASE <<s, T>> = k
        <4>1. intent'[<<s, T>>] = i /\ object'[<<s, T>>] = o /\ reference'[<<s, T>>] = f
          BY <1>2, <1>5, <3>2
        <4>2. exec.pc # "commit" /\ (exec.pc \in {"put", "finalize"} => exec.content = c)
              /\ (exec.pc = "finalize" => object[k] = c)
          BY <1>3, <1>6, <2>4, <3>2, AnalysisAssumption DEF StoreFacts
        <4>3. exec.pc \in {"put", "finalize"} =>
                  \/ i.state # "none" /\ i.content = exec.content
                  \/ f = exec.content
          BY <1>5, <4>2
        <4>4. exec.pc = "finalize" => o = exec.content
          BY <1>5, <4>2
        <4>5. QED BY <2>1, <2>4, <4>1, <4>2, <4>3, <4>4 DEF StoreFacts
      <3>3. QED BY <3>1, <3>2
    <2>5. QED BY <2>3, <2>4
  <1>9. QED
    BY <1>4, <1>7, <1>8, ThreadStays

-----------------------------------------------------------------------------
(* Steps of the report, the operator and the runs of the thread.           *)

\* Class of steps: no execution is under way, and the rows are decided anew.
LEMMA Decided ==
    ASSUME AnalysisInv, Checkpointed', exec'.pc = "idle", faults' \in Nat,
           ledger' \in Ledger => \A s \in Selections : RowFacts(s, ledger'[s]),
           UNCHANGED <<receipt, serviceVars, uploadVars>>
    PROVE  AnalysisInv'
  <1>1. /\ Typed' /\ ServicesAgree' /\ Ordered' /\ Uploads'
        /\ \A r \in Selections, q \in Row : RowFacts(r, q) => RowFacts(r, q)'
    BY OutsideKept DEF AnalysisInv
  <1>2. Rows'
    <2>1. SUFFICES ASSUME ledger' \in Ledger, NEW r \in Selections PROVE RowFacts(r, ledger[r])'
      BY DEF Rows
    <2>2. ledger'[r] \in Row /\ RowFacts(r, ledger'[r])
      BY <2>1 DEF Ledger
    <2>3. QED BY <1>1, <2>2
  <1>3. Executing'
    BY DEF Executing
  <1>4. QED BY <1>1, <1>2, <1>3 DEF AnalysisInv

\* Class of steps: only the node and the run move.
LEMMA Moved ==
    ASSUME AnalysisInv, exec.pc = "idle", UNCHANGED <<ledger, late>>, exec' = exec \/ exec' = Idle,
           faults' \in Nat, UNCHANGED <<receipt, serviceVars, uploadVars>>,
           run' \in {"active", "none"}, node' \in Node,
           node' # "agent" => ledger \in Ledger,
           node' = "step" => ~AnyFailed(ledger),
           node' \in {"agent", "report", "gate"} =>
               AllSucceeded(ledger) \/ (node' = "agent" /\ ledger = NoLedger),
           node' = "recovery" =>
               \/ AllSucceeded(ledger)
               \/ \E s \in Selections : \A r \in Selections : ledger[r].status = "failed" <=> r = s
    PROVE  AnalysisInv'
  <1>1. exec' \in Execution /\ exec'.pc = "idle"
    BY DEF Idle, Execution, AnalysisInv, Checkpointed
  <1>2. Checkpointed'
    <2>1. ledger' = ledger /\ late' = late
      OBVIOUS
    <2>2. node' = "agent" => ledger = NoLedger \/ (ledger \in Ledger /\ AllSucceeded(ledger))
      BY DEF AnalysisInv, Checkpointed
    <2>3. node' \in {"report", "gate"} => AllSucceeded(ledger)
      OBVIOUS
    <2>4. (node # "agent" => ledger \in Ledger)' /\ (ledger \in Ledger => \A s \in Selections : RowShape(ledger[s]))'
      BY <2>1 DEF AnalysisInv, Checkpointed
    <2>5. /\ (node = "step" => ~AnyFailed(ledger))'
          /\ (node = "recovery" =>
               \/ AllSucceeded(ledger)
               \/ \E s \in Selections : \A r \in Selections : ledger[r].status = "failed" <=> r = s)'
      BY <2>1 DEF AnyFailed, AllSucceeded
    <2>6. /\ (node = "agent" => ledger = NoLedger \/ (ledger \in Ledger /\ AllSucceeded(ledger)))'
          /\ (node \in {"report", "gate"} => AllSucceeded(ledger))'
      BY <2>1, <2>2, <2>3 DEF AllSucceeded
    <2>7. (late \in BOOLEAN /\ ledger \in Ledger \cup {NoLedger} /\ run \in {"active", "none"} /\ node \in Node)'
      BY <2>1 DEF AnalysisInv, Checkpointed
    <2>8. (exec \in Execution /\ (exec.pc # "idle" => node = "step" /\ run = "active"))'
      BY <1>1
    <2>9. QED BY <2>4, <2>5, <2>6, <2>7, <2>8 DEF Checkpointed
  <1>3. ledger' \in Ledger => \A s \in Selections : RowFacts(s, ledger'[s])
    BY DEF AnalysisInv, Rows
  <1>4. QED BY <1>1, <1>2, <1>3, Decided

\* Where no execution is.
LEMMA NoExecution ==
    ASSUME AnalysisInv, node # "step" \/ run = "none"
    PROVE  exec.pc = "idle" /\ faults \in Nat /\ (node # "agent" => ledger \in Ledger)
  BY DEF AnalysisInv, Checkpointed, Typed

\* The ledger is made, or kept.
LEMMA PrepareKeeps ==
    ASSUME AnalysisInv, PrepareAnalysis PROVE AnalysisInv'
  <1>1. exec.pc = "idle" /\ faults' \in Nat /\ node = "agent"
    BY NoExecution DEF PrepareAnalysis
  <1>2. CASE ledger = NoLedger
    <2> DEFINE rows == [s \in Selections |-> NewRow]
    <2>1. /\ ledger' = rows /\ node' = RouteAnalysis(rows) /\ exec' = Idle
          /\ run' = IF AnyFailed(rows) THEN "none" ELSE "active"
          /\ late' = late
      BY <1>2 DEF PrepareAnalysis, Reports
    <2>2. NewRow \in Row /\ NewRow.status = "pending" /\ NewRow.try = 1 /\ NewRow.job = 0
          /\ ~NewRow.uncertain /\ ~NewRow.refused
      BY AnalysisAssumption DEF NewRow, Row, Status
    <2>3. rows \in Ledger /\ ~AnyFailed(rows) /\ ~AllSucceeded(rows)
      <3>1. 1 \in Selections
        BY AnalysisAssumption
      <3>2. QED BY <2>2, <3>1 DEF Ledger, AnyFailed, AllSucceeded
    <2>4. \A s \in Selections : RowShape(rows[s]) /\ RowFacts(s, rows[s])
      BY <2>2 DEF RowShape, RowFacts
    <2>5. node' = "step" /\ run' = "active"
      BY <2>1, <2>3 DEF RouteAnalysis
    <2>6. exec' \in Execution /\ exec'.pc = "idle"
      BY <2>1 DEF Idle, Execution
    <2> HIDE DEF rows
    <2>7. Checkpointed'
      BY <2>1, <2>3, <2>4, <2>5, <2>6 DEF Checkpointed, Node, AnalysisInv, AnyFailed
    <2>8. QED
      BY <1>1, <2>1, <2>4, <2>6, <2>7, Decided DEF PrepareAnalysis
  <1>3. CASE ledger # NoLedger
    <2>1. ledger \in Ledger /\ AllSucceeded(ledger) /\ ledger' = ledger /\ late' = late
      BY <1>1, <1>3 DEF PrepareAnalysis, Reports, AnalysisInv, Checkpointed
    <2>2. ~AnyFailed(ledger)
      BY <2>1 DEF AllSucceeded, AnyFailed
    <2>3. node' = "report" /\ run' = "active" /\ exec' = Idle
      BY <1>3, <2>1, <2>2 DEF PrepareAnalysis, Reports, RouteAnalysis
    <2>4. QED BY <1>1, <2>1, <2>2, <2>3, Moved DEF PrepareAnalysis, Node
  <1>4. QED BY <1>2, <1>3

\* The report is made, or not.
LEMMA ReportKeeps ==
    ASSUME AnalysisInv, Report PROVE AnalysisInv'
  <1>1. exec.pc = "idle" /\ faults' \in Nat /\ ledger \in Ledger /\ AllSucceeded(ledger)
    BY NoExecution DEF Report, Moves, AnalysisInv, Checkpointed
  <1>2. node' \in {"gate", "recovery"} /\ run' = "none"
    BY DEF Report, Moves, Decision
  <1>3. QED BY <1>1, <1>2, Moved DEF Report, Moves, Node, Decision

\* A failed row is retried: a try is given up only when it is dead.
LEMMA RetryRowKeeps ==
    ASSUME AnalysisInv, NEW s \in Selections, RetryRow(s) PROVE AnalysisInv'
  <1>1. exec.pc = "idle" /\ exec' = exec /\ faults' \in Nat /\ ledger \in Ledger /\ ledger[s] \in Row
    BY NoExecution DEF RetryRow, Moves, Ledger
  <1>2. /\ \A r \in Selections : ledger[r].status = "failed" <=> r = s
        /\ RowFacts(s, ledger[s]) /\ ledger[s].status = "failed"
    BY <1>1 DEF RetryRow, FirstFailed, AnalysisInv, Checkpointed, AllSucceeded, Rows
  <1> DEFINE q == ledger[s]
             T == ledger[s].try
  <1>3. PICK row \in Row :
            /\ ledger' = [ledger EXCEPT ![s] = row]
            /\ row.status = "pending" /\ ~row.uncertain /\ ~row.refused
            /\ \/ row.try = q.try /\ row.job = q.job
               \/ /\ row.try = q.try + 1 /\ row.job = 0
                  /\ q.refused \/ q.uncertain
    <2>1. CASE q.refused \/ q.uncertain
      <3>1. NextTry(q) \in Row
        BY <1>1, <2>1, NextTryType DEF RetryRow
      <3>2. Resumed(NextTry(q)) \in Row
        BY <3>1, <1>1 DEF Row, Resumed, Status
      <3>3. /\ Resumed(NextTry(q)).status = "pending" /\ ~Resumed(NextTry(q)).uncertain
            /\ ~Resumed(NextTry(q)).refused
            /\ Resumed(NextTry(q)).try = q.try + 1 /\ Resumed(NextTry(q)).job = 0
        BY <1>1 DEF Row, NextTry, Resumed
      <3>4. ledger' = [ledger EXCEPT ![s] = Resumed(NextTry(q))]
        BY <2>1 DEF RetryRow
      <3>5. QED BY <2>1, <3>2, <3>3, <3>4
    <2>2. CASE ~(q.refused \/ q.uncertain)
      <3>1. /\ Resumed(q) \in Row /\ Resumed(q).status = "pending" /\ Resumed(q).uncertain = q.uncertain
            /\ Resumed(q).refused = q.refused /\ Resumed(q).try = q.try /\ Resumed(q).job = q.job
        BY <1>1 DEF Row, Resumed, Status
      <3>2. ledger' = [ledger EXCEPT ![s] = Resumed(q)]
        BY <2>2 DEF RetryRow
      <3>3. QED BY <2>2, <3>1, <3>2
    <2>3. QED BY <2>1, <2>2
  <1>4. /\ ledger' \in Ledger /\ ledger'[s] = row
        /\ \A r \in Selections : r # s => ledger'[r] = ledger[r]
    BY <1>1, <1>3 DEF Ledger
  <1>5. RowShape(row)
    BY <1>3 DEF RowShape
  <1>6. T \in Tries /\ q.job \in Tries \cup {0}
    BY <1>1 DEF Row
  <1>7. q.refused \/ q.uncertain => Dead(s, T)
    <2>1. CASE q.uncertain
      BY <1>2, <2>1 DEF RowFacts, Dead
    <2>2. CASE q.refused
      <3>1. /\ q.job # 0 /\ job[<<s, q.job>>] = "failed" /\ q.job = jobOf[<<s, T>>]
            /\ s \in Native => receipt[<<s, T>>] # "none"
        BY <1>2, <2>2 DEF RowFacts
      <3>2. ServiceFacts(s, T)
        BY <1>6 DEF AnalysisInv, ServicesAgree
      <3>3. CASE s \notin Native
        BY <3>1, <3>2, <3>3 DEF ServiceFacts, Dead
      <3>4. CASE s \in Native
        BY <3>1, <3>2, <3>4 DEF ServiceFacts, Dead
      <3>5. QED BY <3>3, <3>4
    <2>3. QED BY <2>1, <2>2
  <1>8. RowFacts(s, row)
    <2>1. CASE row.try = q.try /\ row.job = q.job
      BY <1>2, <1>3, <2>1 DEF RowFacts
    <2>2. CASE row.try = q.try + 1 /\ row.job = 0 /\ (q.refused \/ q.uncertain)
      <3>1. \A t \in Tries : t < row.try => t < T \/ t = T
        BY <1>6, <2>2
      <3>2. \A t \in Tries : t < row.try => Dead(s, t)
        BY <1>2, <1>7, <2>2, <3>1 DEF RowFacts
      <3>3. QED BY <1>3, <2>2, <3>2 DEF RowFacts
    <2>3. QED BY <1>3, <2>1, <2>2
  <1>9. \A r \in Selections : RowShape(ledger'[r]) /\ RowFacts(r, ledger'[r])
    BY <1>1, <1>4, <1>5, <1>8 DEF AnalysisInv, Checkpointed, Rows
  <1>10. Checkpointed'
    <2>1. node' = "step" /\ run' = "active" /\ late' = late
      BY DEF RetryRow, Moves, Decision
    <2>2. \A r \in Selections : ledger'[r].status # "failed"
      BY <1>2, <1>3, <1>4
    <2>3. QED
      BY <1>1, <1>4, <1>9, <2>1, <2>2 DEF Checkpointed, AnalysisInv, Node, AnyFailed
  <1>11. QED
    BY <1>1, <1>9, <1>10, Decided DEF RetryRow, Moves

\* The other decisions, and the runs of the thread.
LEMMA DecisionKeeps ==
    ASSUME AnalysisInv, RetryReport \/ AssignHuman \/ Finish \/ Revise PROVE AnalysisInv'
  <1>1. node \in Decision
    BY DEF RetryReport, AssignHuman, Finish, Revise, Decision
  <1>2. exec.pc = "idle" /\ faults' \in Nat /\ ledger \in Ledger /\ UNCHANGED <<ledger, late, exec>>
        /\ UNCHANGED <<receipt, serviceVars, uploadVars>>
    BY <1>1, NoExecution DEF RetryReport, AssignHuman, Finish, Revise, Moves, Decision
  <1>3. run' \in {"active", "none"} /\ node' \in {"report", "human", "end", "agent"}
    BY DEF RetryReport, AssignHuman, Finish, Revise, Moves
  <1>4. node' \in {"report", "agent"} => AllSucceeded(ledger)
    BY DEF RetryReport, AssignHuman, Finish, Revise, Moves, AnalysisInv, Checkpointed, AnyFailed
  <1>5. QED BY <1>2, <1>3, <1>4, Moved DEF Node, Decision

\* A run is lost, continued or restarted.
LEMMA RunKeeps ==
    ASSUME AnalysisInv, Crash \/ Continue \/ Restart PROVE AnalysisInv'
  <1>1. CASE Crash
    <2>1. /\ UNCHANGED <<node, ledger, late, receipt, serviceVars, uploadVars>>
          /\ run' = "none" /\ exec' = Idle /\ exec' \in Execution /\ exec'.pc = "idle" /\ faults' \in Nat
      BY <1>1 DEF Crash, Fault, Idle, Execution, AnalysisInv, Typed
    <2>2. Checkpointed'
      BY <2>1 DEF AnalysisInv, Checkpointed, AnyFailed, AllSucceeded
    <2>3. QED BY <2>1, <2>2, Decided DEF AnalysisInv, Rows
  <1>2. CASE Continue
    <2>1. exec.pc = "idle" /\ faults' \in Nat
      BY <1>2, NoExecution DEF Continue
    <2>2. Checkpointed'
      BY <1>2 DEF Continue, AnalysisInv, Checkpointed, AnyFailed, AllSucceeded
    <2>3. QED BY <1>2, <2>1, <2>2, Decided DEF Continue, AnalysisInv, Rows
  <1>3. CASE Restart
    <2>1. /\ exec.pc = "idle" /\ exec' = exec /\ faults' \in Nat
          /\ node' = "agent" /\ run' = "active" /\ ledger' = NoLedger /\ late' = FALSE
      BY <1>3, NoExecution DEF Restart
    <2>2. ledger' \notin Ledger
      BY <2>1, LedgerIsThere
    <2>3. Checkpointed'
      BY <2>1, <2>2 DEF AnalysisInv, Checkpointed, Node
    <2>4. QED BY <1>3, <2>1, <2>2, <2>3, Decided DEF Restart
  <1>4. QED BY <1>1, <1>2, <1>3

\* Time passes: only the deadline is over.
LEMMA DeadlineKeeps ==
    ASSUME AnalysisInv, DeadlinePasses PROVE AnalysisInv'
  <1>1. late' = TRUE /\ UNCHANGED <<node, ledger, run, exec, receipt, serviceVars, uploadVars, faults>>
    BY DEF DeadlinePasses
  <1>2. /\ Typed' /\ ServicesAgree' /\ Ordered' /\ Uploads'
        /\ \A r \in Selections, q \in Row : RowFacts(r, q) => RowFacts(r, q)'
    BY <1>1, OutsideKept DEF AnalysisInv, Typed
  <1>3. Checkpointed'
    BY <1>1 DEF AnalysisInv, Checkpointed, AnyFailed, AllSucceeded
  <1>4. Rows'
    BY <1>1, <1>2 DEF AnalysisInv, Rows, Ledger
  <1>5. Executing'
    BY <1>1 DEF AnalysisInv, Executing, Current, SubmitFacts, StoreFacts, Touched, serviceVars, uploadVars
  <1>6. QED BY <1>2, <1>3, <1>4, <1>5 DEF AnalysisInv

-----------------------------------------------------------------------------
(* The invariant and what follows from it.                                 *)

\* Where the thread starts.
LEMMA InitHolds == Init => AnalysisInv
<1> SUFFICES ASSUME Init PROVE AnalysisInv
  OBVIOUS
<1>1. ledger = NoLedger /\ ledger \notin Ledger /\ exec.pc = "idle" /\ exec \in Execution
  BY LedgerIsThere DEF Init, Idle, Execution
<1>2. Checkpointed
  BY <1>1 DEF Init, Checkpointed, Node
<1>3. Typed
  BY DEF Init, Typed, Receipt, Intent, NoIntent
<1>4. ServicesAgree
  BY DEF Init, ServicesAgree, ServiceFacts
<1>5. Ordered
  BY DEF Init, Ordered, Touched
<1>6. Uploads
  BY DEF Init, Uploads, UploadFacts, NoIntent
<1>7. QED
  BY <1>1, <1>2, <1>3, <1>4, <1>5, <1>6 DEF AnalysisInv, Rows, Executing

\* Every step keeps the invariant.
LEMMA StepKeeps == AnalysisInv /\ [Next]_vars => AnalysisInv'
<1> SUFFICES ASSUME AnalysisInv, [Next]_vars PROVE AnalysisInv'
  OBVIOUS
<1>1. ASSUME NEW s \in Selections, Advances(s) PROVE AnalysisInv'
  <2>1. CASE StartRow(s) \/ Expire(s) \/ Claim(s) \/ ClaimReceived(s) \/ ClaimUncertain(s) \/ Post(s)
    BY <2>1, StartRowKeeps, FailingKeeps, ClaimKeeps, ReceivedKeeps, UncertainKeeps, PostKeeps
  <2>2. CASE Answered(s) \/ Record(s)
    BY <2>2, ReceivedKeeps, AnsweredKeeps, RecordKeeps
  <2>3. CASE Poll(s) \/ PollRefused(s) \/ Collect(s)
    BY <2>3, PollKeeps, PollRefusedKeeps, CollectKeeps
  <2>4. CASE StageFinished(s) \/ StageConflict(s) \/ Stage(s) \/ Put(s) \/ Finalize(s) \/ Keep(s)
    BY <2>4, StageFinishedKeeps, FailingKeeps, StageKeeps, PutKeeps, FinalizeKeeps, KeepKeeps
  <2>5. QED BY <1>1, <2>1, <2>2, <2>3, <2>4 DEF Advances
<1>2. ASSUME NEW s \in Selections, Stumbles(s) PROVE AnalysisInv'
  BY <1>2, FailingKeeps, ClaimFailsKeeps, UncertainKeeps, SubmitLostKeeps, RecordKeeps, StoreFailsKeeps
     DEF Stumbles
<1>3. ASSUME NEW k \in Keys, Services(k) PROVE AnalysisInv'
  BY <1>3, ArriveKeeps, JobEndsKeeps, ReconcilerKeeps DEF Services
<1>4. CASE Decides
  BY <1>4, RetryRowKeeps, DecisionKeeps DEF Decides
<1>5. CASE PrepareAnalysis \/ Report \/ DeadlinePasses \/ Crash \/ Continue \/ Restart
  BY <1>5, PrepareKeeps, ReportKeeps, DeadlineKeeps, RunKeeps
<1>6. CASE UNCHANGED vars
  <2>1. UNCHANGED <<node, ledger, late, run, exec, receipt, inflight, answer, jobOf, job,
                    intent, object, reference, faults>>
    BY <1>6 DEF vars, checkpoint, serviceVars, uploadVars
  <2>2. /\ Typed' /\ ServicesAgree' /\ Ordered' /\ Uploads'
        /\ \A r \in Selections, q \in Row : RowFacts(r, q) => RowFacts(r, q)'
    BY <2>1, OutsideKept DEF AnalysisInv, Typed, serviceVars, uploadVars
  <2>3. \A s \in Selections, t \in Tries :
            /\ SubmitFacts(s, t) => SubmitFacts(s, t)'
            /\ StoreFacts(s, t) => StoreFacts(s, t)'
    BY <2>1 DEF SubmitFacts, StoreFacts, Touched
  <2>4. \A s \in Selections : ledger \in Ledger => ledger[s].try \in Tries
    BY DEF Ledger, Row
  <2>5. \A s \in Selections : ledger \in Ledger =>
            /\ SubmitFacts(s, ledger[s].try) => SubmitFacts(s, ledger[s].try)'
            /\ StoreFacts(s, ledger[s].try) => StoreFacts(s, ledger[s].try)'
    BY <2>1, <2>3, <2>4
  <2>6. QED BY <2>1, <2>2, <2>5, ThreadStays DEF checkpoint
<1>7. QED
  BY <1>1, <1>2, <1>3, <1>4, <1>5, <1>6 DEF Next

\* The inductive invariant, in every reachable state.
LEMMA InvHolds == Spec => []AnalysisInv
  BY InitHolds, StepKeeps, PTL DEF Spec

\* Types; a row past pending knows its job and an unconfirmed one knows none.
THEOREM AnalysisTypeCorrect == Spec => []AnalysisTypeOK
<1>1. AnalysisInv => AnalysisTypeOK
  <2> SUFFICES ASSUME AnalysisInv PROVE AnalysisTypeOK
    OBVIOUS
  <2>1. node # "agent" => ledger # NoLedger
    BY LedgerIsThere DEF AnalysisInv, Checkpointed
  <2>2. ledger # NoLedger => \A s \in Selections : RowShape(ledger[s])
    BY DEF AnalysisInv, Checkpointed
  <2>3. QED
    BY <2>1, <2>2 DEF AnalysisInv, Checkpointed, Typed, RowShape, AnalysisTypeOK
<1>2. QED
  BY <1>1, InvHolds, PTL

\* The report is assembled from, and approved with, published results of finished
\* jobs only: report_agent and the gate read what every row recorded.
THEOREM ReportGrounded == Spec => []ReportIsGrounded
<1>1. AnalysisInv => ReportIsGrounded
  <2> SUFFICES ASSUME AnalysisInv, node \in {"report", "gate"}, NEW s \in Selections
               PROVE  /\ ledger[s].status = "succeeded"
                      /\ job[<<s, ledger[s].job>>] = "done"
                      /\ ledger[s].content \in Contents
                      /\ reference[Key(s)] = ledger[s].content
                      /\ object[Key(s)] = ledger[s].content
    BY DEF ReportIsGrounded
  <2>1. ledger \in Ledger /\ ledger[s] \in Row /\ ledger[s].status = "succeeded" /\ RowFacts(s, ledger[s])
    BY DEF AnalysisInv, Checkpointed, AllSucceeded, Rows, Ledger
  <2>2. ledger[s].try \in Tries /\ UploadFacts(s, ledger[s].try)
    BY <2>1 DEF AnalysisInv, Uploads, Row
  <2>3. ledger[s].content # 0
    BY <2>1, AnalysisAssumption DEF RowFacts
  <2>4. QED
    BY <2>1, <2>2, <2>3 DEF RowFacts, UploadFacts, Key
<1>2. QED
  BY <1>1, InvHolds, PTL

\* No analysis is paid for twice unless the operator accepted the doubt: the tries of
\* a selection before one that may have a job count no more.
THEOREM JobsAccountedFor == Spec => []JobsAccounted
<1>1. AnalysisInv => JobsAccounted
  <2> SUFFICES ASSUME AnalysisInv, NEW s \in Selections PROVE Cardinality(Counted(s)) <= 1
    BY DEF JobsAccounted
  <2>1. \A t \in Tries : t \in Counted(s) => Touched(s, t) /\ ~Dead(s, t)
    BY DEF Counted, Touched, Dead
  <2>2. \A t \in Counted(s), u \in Counted(s) : t = u
    <3>1. SUFFICES ASSUME NEW t \in Counted(s), NEW u \in Counted(s), t < u PROVE FALSE
      BY DEF Counted
    <3>2. t \in Tries /\ u \in Tries
      BY DEF Counted
    <3>3. QED BY <2>1, <3>1, <3>2 DEF AnalysisInv, Ordered
  <2>3. CASE Counted(s) = {}
    BY <2>3, FS_EmptySet
  <2>4. CASE Counted(s) # {}
    <3>1. PICK t : Counted(s) = {t}
      BY <2>2, <2>4
    <3>2. Cardinality({t}) = 1
      BY FS_Singleton
    <3>3. QED BY <3>1, <3>2
  <2>5. QED BY <2>3, <2>4
<1>2. QED
  BY <1>1, InvHolds, PTL

-----------------------------------------------------------------------------
(* The contract of a native submission.                                    *)

\* The contract sees only the effect and the outcome of native keys.
LEMMA Unseen ==
    ASSUME \A c \in NativeKeys : Effect(c)' = Effect(c) /\ Outcome(c)' = Outcome(c)
    PROVE  [Contract!Next]_(Contract!vars)
  BY DEF Contract!vars

\* One of them is sent.
LEMMA ContractSend ==
    ASSUME NEW k \in NativeKeys, Effect(k) = "none", Outcome(k) = "open",
           \A c \in NativeKeys : Effect(c)' = (IF c = k THEN "sent" ELSE Effect(c)) /\ Outcome(c)' = Outcome(c)
    PROVE  [Contract!Next]_(Contract!vars)
  <1>1. /\ [c \in NativeKeys |-> Effect(c)]' = [[c \in NativeKeys |-> Effect(c)] EXCEPT ![k] = "sent"]
        /\ UNCHANGED [c \in NativeKeys |-> Outcome(c)]
    OBVIOUS
  <1>2. Contract!Send(k)
    BY <1>1 DEF Contract!Send
  <1>3. QED BY <1>2 DEF Contract!Next

\* The service took it, or rejected it.
LEMMA ContractArrive ==
    ASSUME NEW k \in NativeKeys, NEW a \in {"created", "rejected"}, Effect(k) = "sent", Outcome(k) = "open",
           \A c \in NativeKeys : Effect(c)' = (IF c = k THEN a ELSE Effect(c)) /\ Outcome(c)' = Outcome(c)
    PROVE  [Contract!Next]_(Contract!vars)
  <1>1. /\ [c \in NativeKeys |-> Effect(c)]' = [[c \in NativeKeys |-> Effect(c)] EXCEPT ![k] = a]
        /\ UNCHANGED [c \in NativeKeys |-> Outcome(c)]
    OBVIOUS
  <1>2. Contract!Arrive(k)
    BY <1>1 DEF Contract!Arrive
  <1>3. QED BY <1>2 DEF Contract!Next

\* Its receipt is stored.
LEMMA ContractComplete ==
    ASSUME NEW k \in NativeKeys, Effect(k) = "created", Outcome(k) = "open",
           \A c \in NativeKeys : Outcome(c)' = (IF c = k THEN "completed" ELSE Outcome(c)) /\ Effect(c)' = Effect(c)
    PROVE  [Contract!Next]_(Contract!vars)
  <1>1. /\ [c \in NativeKeys |-> Outcome(c)]' = [[c \in NativeKeys |-> Outcome(c)] EXCEPT ![k] = "completed"]
        /\ UNCHANGED [c \in NativeKeys |-> Effect(c)]
    OBVIOUS
  <1>2. Contract!Complete(k)
    BY <1>1 DEF Contract!Complete
  <1>3. QED BY <1>2 DEF Contract!Next

\* A step that keeps requests, answers and the receipts that were stored.
LEMMA UnseenStep ==
    ASSUME UNCHANGED <<inflight, answer>>,
           \A c \in NativeKeys : (receipt'[c] = "received") <=> (receipt[c] = "received")
    PROVE  [Contract!Next]_(Contract!vars)
  BY Unseen DEF Effect, Outcome

\* The POST of a native key sends it.
LEMMA PostSends ==
    ASSUME AnalysisInv, NEW s \in Selections, Post(s) PROVE [Contract!Next]_(Contract!vars)
  <1>1. Executes(s, exec.pc) /\ ledger \in Ledger /\ ledger[s].try \in Tries /\ Current(s)
    BY ExecutionFacts DEF Post, Works, Executes, Row
  <1>2. inflight' = inflight \cup {Key(s)} /\ answer' = answer /\ receipt' = receipt
    BY DEF Post
  <1>3. CASE s \in Native
    <2>1. exec.pc = "post"
      BY <1>3 DEF Post, Executes
    <2>2. SubmitFacts(s, ledger[s].try)
      BY <1>1, <2>1 DEF AnalysisInv, Executing, Submitting
    <2>3. Key(s) \in NativeKeys /\ Effect(Key(s)) = "none" /\ Outcome(Key(s)) = "open"
      BY <1>1, <1>3, <2>1, <2>2 DEF NativeKeys, Key, SubmitFacts, Effect, Outcome
    <2>4. \A c \in NativeKeys :
              Effect(c)' = (IF c = Key(s) THEN "sent" ELSE Effect(c)) /\ Outcome(c)' = Outcome(c)
      BY <1>2 DEF Effect, Outcome
    <2> DEFINE k == Key(s)
    <2> HIDE DEF k
    <2>5. QED BY <2>3, <2>4, ContractSend DEF k
  <1>4. CASE s \notin Native
    <2>1. \A c \in NativeKeys : c # Key(s)
      BY <1>4 DEF NativeKeys, Key
    <2>2. QED BY <1>2, <2>1, Unseen DEF Effect, Outcome
  <1>5. QED BY <1>3, <1>4

\* A service's answer.
LEMMA ArriveArrives ==
    ASSUME AnalysisInv, NEW k \in Keys, Arrive(k) PROVE [Contract!Next]_(Contract!vars)
  <1>1. PICK a \in Selections, b \in Tries : k = <<a, b>>
    OBVIOUS
  <1>2. k \in inflight /\ inflight' = inflight \ {k} /\ receipt' = receipt
    BY DEF Arrive
  <1>3. PICK e \in {"created", "rejected"} : answer' = [answer EXCEPT ![k] = e]
    BY DEF Arrive
  <1>4. answer \in [Keys -> {"none", "created", "rejected"}]
    BY DEF AnalysisInv, Typed
  <1>5. \A c \in Keys : Effect(c)' = (IF c = k THEN e ELSE Effect(c)) /\ Outcome(c)' = Outcome(c)
    BY <1>2, <1>3, <1>4 DEF Effect, Outcome
  <1>6. \A c \in NativeKeys : c \in Keys
    BY AnalysisAssumption DEF NativeKeys
  <1>7. CASE a \in Native
    <2>1. ServiceFacts(a, b)
      BY DEF AnalysisInv, ServicesAgree
    <2>2. k \in NativeKeys /\ Effect(k) = "sent" /\ Outcome(k) = "open"
      BY <1>1, <1>2, <1>7, <2>1 DEF NativeKeys, ServiceFacts, Effect, Outcome
    <2>3. QED BY <1>5, <1>6, <2>2, ContractArrive
  <1>8. CASE a \notin Native
    <2>1. \A c \in NativeKeys : c # k
      BY <1>1, <1>8 DEF NativeKeys
    <2>2. QED BY <1>5, <1>6, <2>1, Unseen
  <1>9. QED BY <1>7, <1>8

\* A stored receipt completes it.
LEMMA RecordCompletes ==
    ASSUME AnalysisInv, NEW s \in Selections, Executes(s, "record"),
           receipt' = [receipt EXCEPT ![Key(s)] = "received"], UNCHANGED serviceVars
    PROVE  [Contract!Next]_(Contract!vars)
  <1>1. Executes(s, exec.pc) /\ ledger[s].try \in Tries /\ Current(s) /\ exec.pc = "record"
    BY ExecutionFacts DEF Executes, Row
  <1>2. SubmitFacts(s, ledger[s].try)
    BY <1>1 DEF AnalysisInv, Executing, Submitting
  <1>3. s \in Native /\ Key(s) \in NativeKeys /\ Effect(Key(s)) = "created" /\ Outcome(Key(s)) = "open"
    BY <1>1, <1>2 DEF NativeKeys, Key, SubmitFacts, Effect, Outcome
  <1>4. \A c \in NativeKeys : c \in Keys
    BY AnalysisAssumption DEF NativeKeys
  <1>5. \A c \in NativeKeys :
            Outcome(c)' = (IF c = Key(s) THEN "completed" ELSE Outcome(c)) /\ Effect(c)' = Effect(c)
    BY <1>4 DEF Effect, Outcome, serviceVars, AnalysisInv, Typed
  <1> DEFINE k == Key(s)
  <1> HIDE DEF k
  <1>6. QED BY <1>3, <1>5, ContractComplete DEF k

\* A claim is no receipt.
LEMMA ClaimUnseen ==
    ASSUME AnalysisInv, NEW s \in Selections, Executes(s, exec.pc), receipt[Key(s)] = "none",
           receipt' = [receipt EXCEPT ![Key(s)] = "claimed"], UNCHANGED <<inflight, answer>>
    PROVE  [Contract!Next]_(Contract!vars)
  <1>1. \A c \in NativeKeys : c \in Keys
    BY AnalysisAssumption DEF NativeKeys
  <1>2. \A c \in NativeKeys : (receipt'[c] = "received") <=> (receipt[c] = "received")
    BY <1>1 DEF AnalysisInv, Typed
  <1>3. QED BY <1>2, UnseenStep

\* Every step sends, settles or completes one key, or leaves the contract's view.
LEMMA ContractStep == AnalysisInv /\ [Next]_vars => [Contract!Next]_(Contract!vars)
<1> SUFFICES ASSUME AnalysisInv, [Next]_vars PROVE [Contract!Next]_(Contract!vars)
  OBVIOUS
<1>1. CASE UNCHANGED <<receipt, inflight, answer>>
  BY <1>1, UnseenStep
<1>2. ASSUME NEW s \in Selections, Advances(s) PROVE [Contract!Next]_(Contract!vars)
  <2>1. CASE Claim(s)
    <3>1. Executes(s, exec.pc) /\ UNCHANGED <<inflight, answer>>
      BY <2>1 DEF Claim, Works, Executes, serviceVars
    <3>2. QED BY <2>1, <3>1, ClaimUnseen DEF Claim
  <2>2. CASE Post(s)
    BY <2>2, PostSends
  <2>3. CASE Record(s)
    BY <2>3, RecordCompletes DEF Record
  <2>4. CASE ~(Claim(s) \/ Post(s) \/ Record(s))
    <3>1. UNCHANGED receipt /\ UNCHANGED serviceVars
      BY <1>2, <2>4 DEF Advances, StartRow, Expire, ClaimReceived, ClaimUncertain, Answered, Poll,
            PollRefused, Collect, StageFinished, StageConflict, Stage, Put, Finalize, Keep
    <3>2. QED BY <1>1, <3>1 DEF serviceVars
  <2>5. QED BY <2>1, <2>2, <2>3, <2>4
<1>3. ASSUME NEW s \in Selections, Stumbles(s) PROVE [Contract!Next]_(Contract!vars)
  <2>1. CASE RecordFails(s)
    <3>1. UNCHANGED serviceVars
      BY <2>1 DEF RecordFails
    <3>2. QED BY <1>1, <2>1, <3>1, RecordCompletes DEF RecordFails, serviceVars
  <2>2. CASE ClaimFails(s)
    <3>1. Executes(s, exec.pc) /\ UNCHANGED <<inflight, answer>>
      BY <2>2 DEF ClaimFails, Works, Executes, serviceVars
    <3>2. QED BY <1>1, <2>2, <3>1, ClaimUnseen DEF ClaimFails
  <2>3. CASE ~(RecordFails(s) \/ ClaimFails(s))
    <3>1. UNCHANGED receipt /\ UNCHANGED serviceVars
      BY <1>3, <2>3 DEF Stumbles, GiveUp, PostUncertain, SubmitLost, StoreFails
    <3>2. QED BY <1>1, <3>1 DEF serviceVars
  <2>4. QED BY <2>1, <2>2, <2>3
<1>4. ASSUME NEW k \in Keys, Services(k) PROVE [Contract!Next]_(Contract!vars)
  <2>1. CASE Arrive(k)
    BY <2>1, ArriveArrives
  <2>2. CASE ~Arrive(k)
    <3>1. UNCHANGED receipt /\ UNCHANGED <<inflight, answer>>
      BY <1>4, <2>2 DEF Services, JobEnds, ClaimLapses, ReplayPut, ReplayFinish, serviceVars
    <3>2. QED BY <1>1, <3>1
  <2>3. QED BY <2>1, <2>2
<1>5. CASE Decides \/ PrepareAnalysis \/ Report \/ DeadlinePasses \/ Crash \/ Continue \/ Restart
  <2>1. UNCHANGED receipt /\ UNCHANGED serviceVars
    BY <1>5 DEF Decides, RetryRow, RetryReport, AssignHuman, Finish, Revise, PrepareAnalysis, Report,
         DeadlinePasses, Crash, Continue, Restart, Moves
  <2>2. QED BY <1>1, <2>1 DEF serviceVars
<1>6. CASE UNCHANGED vars
  BY <1>1, <1>6 DEF vars, serviceVars
<1>7. QED
  BY <1>2, <1>3, <1>4, <1>5, <1>6 DEF Next

\* The reservation keeps its promise: a native analysis is submitted at most once per
\* key, and a receipt is stored only of a job that was created.
THEOREM SubmissionsImplementContract == Spec => NativeSubmitsOnce
<1>1. Init => Contract!Init
  BY AnalysisAssumption DEF Init, Contract!Init, Effect, Outcome, NativeKeys
<1>2. QED
  BY <1>1, InvHolds, ContractStep, PTL DEF Spec, NativeSubmitsOnce, Contract!Spec
=============================================================================
