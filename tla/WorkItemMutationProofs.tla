----------------------- MODULE WorkItemMutationProofs -----------------------
(***************************************************************************)
(* Machine-checked proofs about WorkItemMutation, for any callers,         *)
(* reconcilers and keys and any number of faults.                          *)
(***************************************************************************)
EXTENDS WorkItemMutation, TLAPS

USE DEF Workers, Keys

\* An execution has a row: keys are not retired under it.
ExecHasRow ==
    \A w \in Workers : exec[w].pc # "idle" =>
        exec[w].key \in Keys /\ mutation[exec[w].key].status # "absent"

\* A row that is not there has no tombstone beside it and records nothing; a
\* retired key has no row.
RowsAndTombstones ==
    \A k \in Keys :
        /\ mutation[k].status = "absent" => ~mutation[k].attempted
        /\ tombstone[k] # "none" => mutation[k].status = "absent"

\* A POST is counted once and leaves its record.
PostedOnce ==
    \A k \in Keys :
        /\ posted[k] \in {0, 1}
        /\ posted[k] = 1 => mutation[k].attempted \/ tombstone[k] # "none"

\* Who stands before the POST has recorded it, and stands there alone.
PosterAlone ==
    \A w \in Workers : exec[w].pc = "post" =>
        /\ mutation[exec[w].key].attempted
        /\ posted[exec[w].key] = 0
        /\ \A v \in Workers : exec[v].pc = "post" /\ exec[v].key = exec[w].key => v = w

\* As long as a claim holds, what the execution read of the attempt is true.
OwnerKnows ==
    \A w \in Workers : \A k \in Keys : exec[w].key = k /\ Owns(w, k) =>
        /\ exec[w].pc \in {"find", "fields", "stepFields", "marker"} =>
               (exec[w].attempted <=> mutation[k].attempted)
        /\ exec[w].pc = "mark" => ~mutation[k].attempted

\* What the tracker did follows a POST.
TrackerFollows ==
    \A k \in Keys :
        /\ posted[k] = 0 => k \notin inflight /\ answer[k] = "none"
        /\ posted[k] = 1 => k \in inflight \/ answer[k] # "none"
        /\ answer[k] # "none" => k \notin inflight
        /\ k \in visible => answer[k] = "created"

\* The invariant of AtMostOnePost.
PostInv ==
    /\ MutationTypeOK /\ ExecHasRow /\ RowsAndTombstones /\ PostedOnce /\ PosterAlone
    /\ OwnerKnows /\ TrackerFollows

\* A kept row is pinned to a generation of an enabled connection, since which the
\* connection has had the same values.
ReservationHolds ==
    \A k \in Keys : mutation[k].status # "absent" =>
        Unaltered(connection, mutation[k].version)

\* What an enrichment has recorded as done is done, and an execution that holds
\* the claim has passed every step before the one it is at.
StepsApplied ==
    /\ \A k \in Keys :
           /\ mutation[k].fields = "completed" => k \in wrote
           /\ mutation[k].comment = "completed" => answer[k] = "created"
    /\ \A k \in Enriches : mutation[k].status = "completed" =>
           mutation[k].fields # "pending" /\ mutation[k].comment # "pending"
    /\ \A w \in Workers :
           /\ exec[w].pc = "find" => exec[w].key \notin Enriches
           /\ exec[w].pc = "stepFields" => exec[w].key \in wrote
           /\ exec[w].pc = "stepComment" => answer[exec[w].key] = "created"
           /\ exec[w].pc = "await" => posted[exec[w].key] = 1
    /\ \A w \in Workers : \A k \in Enriches : exec[w].key = k /\ Owns(w, k) =>
           /\ exec[w].pc \in {"marker", "mark", "post", "await", "stepComment", "read", "complete"} =>
                  mutation[k].fields # "pending"
           /\ exec[w].pc \in {"read", "complete"} => mutation[k].comment # "pending"

\* A create is settled only when the fate of its POST is known.
CreatesSettleKnown ==
    /\ \A k \in Creates : k \in inflight => mutation[k].status \in Live
    /\ \A w \in Workers : exec[w].key \in Creates =>
           /\ exec[w].pc \in {"claim", "find", "mark", "post", "await", "complete", "fail", "release"}
           /\ exec[w].pc = "post" => mutation[exec[w].key].status \in Live
           /\ exec[w].pc = "await" => posted[exec[w].key] = 1
           /\ exec[w].pc = "complete" => answer[exec[w].key] = "created"
           /\ exec[w].pc = "fail" /\ Owns(w, exec[w].key) =>
                  answer[exec[w].key] = "rejected" \/ ~mutation[exec[w].key].attempted

-----------------------------------------------------------------------------
\* What the updates of a row keep and change.
Keeps(s, r) ==
    /\ s \in Row
    /\ s.attempted = r.attempted /\ s.fields = r.fields
    /\ s.comment = r.comment /\ s.version = r.version

\* A claim keeps what the row records and names its owner.
LEMMA ClaimedRow ==
    ASSUME NEW r \in Row, NEW w \in Workers
    PROVE  Keeps(Claimed(r, w), r) /\ Claimed(r, w).status = "running" /\ Claimed(r, w).owner = w
  BY DEF Claimed, Keeps, Live, Terminal, Row

\* A row put back is pending and keeps what it records.
LEMMA RequeuedRow ==
    ASSUME NEW r \in Row PROVE Keeps(Requeued(r), r) /\ Requeued(r).status = "pending"
  BY DEF Requeued, Keeps, Live, Terminal, Row

\* A settled row keeps what it records.
LEMMA SettledRow ==
    ASSUME NEW r \in Row, NEW s \in Terminal
    PROVE  Keeps(Settled(r, s), r) /\ Settled(r, s).status = s
  BY DEF Settled, Keeps, Live, Terminal, Row

\* A lease, extended or over, changes neither the status nor the owner.
LEMMA LeasedRow ==
    ASSUME NEW r \in Row
    PROVE  /\ Keeps(Renewed(r), r) /\ Renewed(r).status = r.status /\ Renewed(r).owner = r.owner
           /\ Keeps(Lapsed(r), r) /\ Lapsed(r).status = r.status /\ Lapsed(r).owner = r.owner
  BY DEF Renewed, Lapsed, Keeps, Live, Terminal, Row

\* Nor does the end of a backoff.
LEMMA DueRow ==
    ASSUME NEW r \in Row
    PROVE  Keeps(Due(r), r) /\ Due(r).status = r.status /\ Due(r).owner = r.owner
  BY DEF Due, Keeps, Live, Terminal, Row

\* The attempt record changes nothing else.
LEMMA AttemptedRow ==
    ASSUME NEW r \in Row
    PROVE  /\ Attempted(r) \in Row /\ Attempted(r).attempted
           /\ Attempted(r).status = r.status /\ Attempted(r).owner = r.owner
           /\ Attempted(r).fields = r.fields /\ Attempted(r).comment = r.comment
           /\ Attempted(r).version = r.version
  BY DEF Attempted, Live, Terminal, Row

\* A new row is pending, unattempted and pinned to the present generation.
LEMMA InsertedRow ==
    ASSUME connection \in ConnectionOf(Nat), NEW k \in Keys, NEW steps \in Steps(k)
    PROVE  /\ Inserted(steps) \in Row
           /\ Inserted(steps).status = "pending" /\ ~Inserted(steps).attempted
           /\ Inserted(steps).version = connection.version
           /\ Inserted(steps).fields # "completed" /\ Inserted(steps).comment # "completed"
           /\ k \in Creates => Inserted(steps).fields = "skipped" /\ Inserted(steps).comment = "skipped"
  BY DEF Inserted, Steps, Live, Terminal, Row, StepStatus, ConnectionOf

\* Every step keeps the types.
LEMMA TypeStep ==
    ASSUME MutationTypeOK, ExecHasRow, [Next]_vars PROVE MutationTypeOK'
<1> USE MutationAssumption DEF MutationTypeOK, ExecHasRow, Live, Terminal, StepStatus,
             Owns, Execution, Operating, Idle, NoRow, rowVars, trackerVars, Keeps, Row
<1>1. ASSUME NEW w \in Workers, AnswerSettled(w) PROVE MutationTypeOK'
  BY <1>1 DEF AnswerSettled, Tell, Leave
<1>2. ASSUME NEW w \in Workers, Refuse(w) PROVE MutationTypeOK'
  BY <1>2 DEF Refuse, Leave
<1>3. ASSUME NEW w \in Workers, Claim(w) PROVE MutationTypeOK'
  BY <1>3, ClaimedRow DEF Claim, SetRow, Ready, FirstStep
<1>4. ASSUME NEW w \in Workers, Find(w) PROVE MutationTypeOK'
  BY <1>4 DEF Find, Look, Goto
<1>5. ASSUME NEW w \in Workers, Marker(w) PROVE MutationTypeOK'
  BY <1>5 DEF Marker, Look, Goto
<1>6. ASSUME NEW w \in Workers, Reject(w) PROVE MutationTypeOK'
  BY <1>6 DEF Reject, Goto
<1>7. ASSUME NEW w \in Workers, Fields(w) PROVE MutationTypeOK'
  BY <1>7 DEF Fields, Goto
<1>8. ASSUME NEW w \in Workers, StepFields(w) PROVE MutationTypeOK'
  BY <1>8 DEF StepFields, SetRow, Goto, Owns
<1>9. ASSUME NEW w \in Workers, StepComment(w) PROVE MutationTypeOK'
  BY <1>9 DEF StepComment, SetRow, Goto, Owns
<1>10. ASSUME NEW w \in Workers, Mark(w) PROVE MutationTypeOK'
  BY <1>10, AttemptedRow DEF Mark, SetRow, Goto, Owns
<1>11. ASSUME NEW w \in Workers, Post(w) PROVE MutationTypeOK'
  BY <1>11 DEF Post, Goto
<1>12. ASSUME NEW w \in Workers, Answered(w) PROVE MutationTypeOK'
  BY <1>12 DEF Answered, Goto
<1>13. ASSUME NEW w \in Workers, ReadItem(w) PROVE MutationTypeOK'
  BY <1>13 DEF ReadItem, Goto
<1>14. ASSUME NEW w \in Workers, Complete(w) PROVE MutationTypeOK'
  BY <1>14, SettledRow DEF Complete, SetRow, Tell, Leave, Owns
<1>15. ASSUME NEW w \in Workers, CompleteAgain(w) PROVE MutationTypeOK'
  BY <1>15 DEF CompleteAgain, Tell, Leave
<1>16. ASSUME NEW w \in Workers, CompleteLost(w) PROVE MutationTypeOK'
  BY <1>16 DEF CompleteLost, Goto, Owns
<1>17. ASSUME NEW w \in Workers, Fail(w) PROVE MutationTypeOK'
  BY <1>17, SettledRow DEF Fail, SetRow, Tell, Leave, Owns
<1>18. ASSUME NEW w \in Workers, FailAgain(w) PROVE MutationTypeOK'
  BY <1>18 DEF FailAgain, Tell, Leave
<1>19. ASSUME NEW w \in Workers, FailLost(w) PROVE MutationTypeOK'
  BY <1>19 DEF FailLost, Leave, Owns
<1>20. ASSUME NEW w \in Workers, Release(w) PROVE MutationTypeOK'
  BY <1>20, RequeuedRow DEF Release, Leave, SetRow, Owns
<1>21. ASSUME NEW w \in Workers, Interrupt(w) PROVE MutationTypeOK'
  BY <1>21 DEF Interrupt, Goto, Owns
<1>22. ASSUME NEW w \in Workers, Crash(w) PROVE MutationTypeOK'
  BY <1>22 DEF Crash, Leave
<1>23. ASSUME NEW w \in Workers, Renew(w) PROVE MutationTypeOK'
  BY <1>23, LeasedRow DEF Renew, SetRow, Owns
<1>24. ASSUME NEW w \in Workers, NEW k \in Keys, ReserveNew(w, k) PROVE MutationTypeOK'
  BY <1>24, InsertedRow DEF ReserveNew, SetRow, Enter
<1>26. ASSUME NEW w \in Workers, NEW k \in Keys, ReplaySettled(w, k) PROVE MutationTypeOK'
  BY <1>26 DEF ReplaySettled, Tell
<1>27. ASSUME NEW w \in Workers, NEW k \in Keys, Continue(w, k) PROVE MutationTypeOK'
  BY <1>27 DEF Continue, Enter
<1>28. ASSUME NEW w \in Workers, NEW k \in Keys, Reconcile(w, k) PROVE MutationTypeOK'
  BY <1>28 DEF Reconcile, Enter, Ready
<1>29. ASSUME NEW w \in Workers, NEW k \in Keys, Defer(w, k) PROVE MutationTypeOK'
  BY <1>29, RequeuedRow DEF Defer, SetRow, Ready
<1>30. ASSUME NEW k \in Keys, Arrive(k) PROVE MutationTypeOK'
  BY <1>30 DEF Arrive
<1>31. ASSUME NEW k \in Keys, Index(k) PROVE MutationTypeOK'
  BY <1>31 DEF Index
<1>32. ASSUME NEW k \in Keys, Expire(k) PROVE MutationTypeOK'
  BY <1>32, LeasedRow DEF Expire, SetRow
<1>33. ASSUME NEW k \in Keys, Pause(k) PROVE MutationTypeOK'
  <2>1. Lapsed(mutation[k]) \in Row
    BY LeasedRow
  <2> QED
    BY <1>33, <2>1 DEF Pause, SetRow
<1>34. ASSUME NEW k \in Keys, BackoffElapses(k) PROVE MutationTypeOK'
  BY <1>34, DueRow DEF BackoffElapses, SetRow
<1>35. ASSUME NEW k \in Keys, Retire(k) PROVE MutationTypeOK'
  BY <1>35 DEF Retire, SetRow
<1>36. CASE ToggleConnection
  BY <1>36 DEF ToggleConnection, Toggled, Altered, ConnectionOf
<1>37. CASE PatchConnection
  BY <1>37 DEF PatchConnection, Repeated, Altered, ConnectionOf
<1>38. CASE UNCHANGED vars
  BY <1>38 DEF vars
<1> QED
  BY <1>1, <1>2, <1>3, <1>4, <1>5, <1>6, <1>7, <1>8, <1>9, <1>10, <1>11, <1>12,
     <1>13, <1>14, <1>15, <1>16, <1>17, <1>18, <1>19, <1>20, <1>21, <1>22, <1>23, <1>24,
     <1>26, <1>27, <1>28, <1>29, <1>30, <1>31, <1>32, <1>33, <1>34, <1>35, <1>36,
     <1>37, <1>38 DEF Next, Step, Request, TrackerOrTime

\* Every step keeps a row under every execution.
LEMMA RowStep ==
    ASSUME MutationTypeOK, ExecHasRow, [Next]_vars PROVE ExecHasRow'
<1> USE MutationAssumption DEF MutationTypeOK, ExecHasRow, Live, Terminal, StepStatus,
             Owns, Execution, Operating, Idle, NoRow, rowVars, trackerVars, Keeps, Row
<1>1. ASSUME NEW w \in Workers, AnswerSettled(w) PROVE ExecHasRow'
  BY <1>1 DEF AnswerSettled, Tell, Leave
<1>2. ASSUME NEW w \in Workers, Refuse(w) PROVE ExecHasRow'
  BY <1>2 DEF Refuse, Leave
<1>3. ASSUME NEW w \in Workers, Claim(w) PROVE ExecHasRow'
  BY <1>3, ClaimedRow DEF Claim, SetRow, Ready, FirstStep
<1>4. ASSUME NEW w \in Workers, Find(w) PROVE ExecHasRow'
  BY <1>4 DEF Find, Look, Goto
<1>5. ASSUME NEW w \in Workers, Marker(w) PROVE ExecHasRow'
  BY <1>5 DEF Marker, Look, Goto
<1>6. ASSUME NEW w \in Workers, Reject(w) PROVE ExecHasRow'
  BY <1>6 DEF Reject, Goto
<1>7. ASSUME NEW w \in Workers, Fields(w) PROVE ExecHasRow'
  BY <1>7 DEF Fields, Goto
<1>8. ASSUME NEW w \in Workers, StepFields(w) PROVE ExecHasRow'
  BY <1>8 DEF StepFields, SetRow, Goto, Owns
<1>9. ASSUME NEW w \in Workers, StepComment(w) PROVE ExecHasRow'
  BY <1>9 DEF StepComment, SetRow, Goto, Owns
<1>10. ASSUME NEW w \in Workers, Mark(w) PROVE ExecHasRow'
  BY <1>10, AttemptedRow DEF Mark, SetRow, Goto, Owns
<1>11. ASSUME NEW w \in Workers, Post(w) PROVE ExecHasRow'
  BY <1>11 DEF Post, Goto
<1>12. ASSUME NEW w \in Workers, Answered(w) PROVE ExecHasRow'
  BY <1>12 DEF Answered, Goto
<1>13. ASSUME NEW w \in Workers, ReadItem(w) PROVE ExecHasRow'
  BY <1>13 DEF ReadItem, Goto
<1>14. ASSUME NEW w \in Workers, Complete(w) PROVE ExecHasRow'
  BY <1>14, SettledRow DEF Complete, SetRow, Tell, Leave, Owns
<1>15. ASSUME NEW w \in Workers, CompleteAgain(w) PROVE ExecHasRow'
  BY <1>15 DEF CompleteAgain, Tell, Leave
<1>16. ASSUME NEW w \in Workers, CompleteLost(w) PROVE ExecHasRow'
  BY <1>16 DEF CompleteLost, Goto, Owns
<1>17. ASSUME NEW w \in Workers, Fail(w) PROVE ExecHasRow'
  BY <1>17, SettledRow DEF Fail, SetRow, Tell, Leave, Owns
<1>18. ASSUME NEW w \in Workers, FailAgain(w) PROVE ExecHasRow'
  BY <1>18 DEF FailAgain, Tell, Leave
<1>19. ASSUME NEW w \in Workers, FailLost(w) PROVE ExecHasRow'
  BY <1>19 DEF FailLost, Leave, Owns
<1>20. ASSUME NEW w \in Workers, Release(w) PROVE ExecHasRow'
  BY <1>20, RequeuedRow DEF Release, Leave, SetRow, Owns
<1>21. ASSUME NEW w \in Workers, Interrupt(w) PROVE ExecHasRow'
  BY <1>21 DEF Interrupt, Goto, Owns
<1>22. ASSUME NEW w \in Workers, Crash(w) PROVE ExecHasRow'
  BY <1>22 DEF Crash, Leave
<1>23. ASSUME NEW w \in Workers, Renew(w) PROVE ExecHasRow'
  BY <1>23, LeasedRow DEF Renew, SetRow, Owns
<1>24. ASSUME NEW w \in Workers, NEW k \in Keys, ReserveNew(w, k) PROVE ExecHasRow'
  BY <1>24, InsertedRow DEF ReserveNew, SetRow, Enter
<1>26. ASSUME NEW w \in Workers, NEW k \in Keys, ReplaySettled(w, k) PROVE ExecHasRow'
  BY <1>26 DEF ReplaySettled, Tell
<1>27. ASSUME NEW w \in Workers, NEW k \in Keys, Continue(w, k) PROVE ExecHasRow'
  BY <1>27 DEF Continue, Enter
<1>28. ASSUME NEW w \in Workers, NEW k \in Keys, Reconcile(w, k) PROVE ExecHasRow'
  BY <1>28 DEF Reconcile, Enter, Ready
<1>29. ASSUME NEW w \in Workers, NEW k \in Keys, Defer(w, k) PROVE ExecHasRow'
  BY <1>29, RequeuedRow DEF Defer, SetRow, Ready
<1>30. ASSUME NEW k \in Keys, Arrive(k) PROVE ExecHasRow'
  BY <1>30 DEF Arrive
<1>31. ASSUME NEW k \in Keys, Index(k) PROVE ExecHasRow'
  BY <1>31 DEF Index
<1>32. ASSUME NEW k \in Keys, Expire(k) PROVE ExecHasRow'
  BY <1>32, LeasedRow DEF Expire, SetRow
<1>33. ASSUME NEW k \in Keys, Pause(k) PROVE ExecHasRow'
  BY <1>33, LeasedRow DEF Pause, SetRow
<1>34. ASSUME NEW k \in Keys, BackoffElapses(k) PROVE ExecHasRow'
  BY <1>34, DueRow DEF BackoffElapses, SetRow
<1>35. ASSUME NEW k \in Keys, Retire(k) PROVE ExecHasRow'
  BY <1>35 DEF Retire, SetRow
<1>36. CASE ToggleConnection
  BY <1>36 DEF ToggleConnection, Toggled, Altered, ConnectionOf
<1>37. CASE PatchConnection
  BY <1>37 DEF PatchConnection, Repeated, Altered, ConnectionOf
<1>38. CASE UNCHANGED vars
  BY <1>38 DEF vars
<1> QED
  BY <1>1, <1>2, <1>3, <1>4, <1>5, <1>6, <1>7, <1>8, <1>9, <1>10, <1>11, <1>12,
     <1>13, <1>14, <1>15, <1>16, <1>17, <1>18, <1>19, <1>20, <1>21, <1>22, <1>23, <1>24,
     <1>26, <1>27, <1>28, <1>29, <1>30, <1>31, <1>32, <1>33, <1>34, <1>35, <1>36,
     <1>37, <1>38 DEF Next, Step, Request, TrackerOrTime

\* Every step keeps rows and tombstones apart.
LEMMA TombstoneStep ==
    ASSUME PostInv, [Next]_vars PROVE RowsAndTombstones'
<1> USE MutationAssumption DEF MutationTypeOK, ExecHasRow, Live, Terminal, StepStatus,
             Owns, Execution, Operating, Idle, NoRow, rowVars, trackerVars, Keeps, Row, PostInv, RowsAndTombstones
<1>1. ASSUME NEW w \in Workers, AnswerSettled(w) PROVE RowsAndTombstones'
  BY <1>1 DEF AnswerSettled, Tell, Leave
<1>2. ASSUME NEW w \in Workers, Refuse(w) PROVE RowsAndTombstones'
  BY <1>2 DEF Refuse, Leave
<1>3. ASSUME NEW w \in Workers, Claim(w) PROVE RowsAndTombstones'
  BY <1>3, ClaimedRow DEF Claim, SetRow, Ready, FirstStep
<1>4. ASSUME NEW w \in Workers, Find(w) PROVE RowsAndTombstones'
  BY <1>4 DEF Find, Look, Goto
<1>5. ASSUME NEW w \in Workers, Marker(w) PROVE RowsAndTombstones'
  BY <1>5 DEF Marker, Look, Goto
<1>6. ASSUME NEW w \in Workers, Reject(w) PROVE RowsAndTombstones'
  BY <1>6 DEF Reject, Goto
<1>7. ASSUME NEW w \in Workers, Fields(w) PROVE RowsAndTombstones'
  BY <1>7 DEF Fields, Goto
<1>8. ASSUME NEW w \in Workers, StepFields(w) PROVE RowsAndTombstones'
  BY <1>8 DEF StepFields, SetRow, Goto, Owns
<1>9. ASSUME NEW w \in Workers, StepComment(w) PROVE RowsAndTombstones'
  BY <1>9 DEF StepComment, SetRow, Goto, Owns
<1>10. ASSUME NEW w \in Workers, Mark(w) PROVE RowsAndTombstones'
  BY <1>10, AttemptedRow DEF Mark, SetRow, Goto, Owns
<1>11. ASSUME NEW w \in Workers, Post(w) PROVE RowsAndTombstones'
  BY <1>11 DEF Post, Goto
<1>12. ASSUME NEW w \in Workers, Answered(w) PROVE RowsAndTombstones'
  BY <1>12 DEF Answered, Goto
<1>13. ASSUME NEW w \in Workers, ReadItem(w) PROVE RowsAndTombstones'
  BY <1>13 DEF ReadItem, Goto
<1>14. ASSUME NEW w \in Workers, Complete(w) PROVE RowsAndTombstones'
  BY <1>14, SettledRow DEF Complete, SetRow, Tell, Leave, Owns
<1>15. ASSUME NEW w \in Workers, CompleteAgain(w) PROVE RowsAndTombstones'
  BY <1>15 DEF CompleteAgain, Tell, Leave
<1>16. ASSUME NEW w \in Workers, CompleteLost(w) PROVE RowsAndTombstones'
  BY <1>16 DEF CompleteLost, Goto, Owns
<1>17. ASSUME NEW w \in Workers, Fail(w) PROVE RowsAndTombstones'
  BY <1>17, SettledRow DEF Fail, SetRow, Tell, Leave, Owns
<1>18. ASSUME NEW w \in Workers, FailAgain(w) PROVE RowsAndTombstones'
  BY <1>18 DEF FailAgain, Tell, Leave
<1>19. ASSUME NEW w \in Workers, FailLost(w) PROVE RowsAndTombstones'
  BY <1>19 DEF FailLost, Leave, Owns
<1>20. ASSUME NEW w \in Workers, Release(w) PROVE RowsAndTombstones'
  BY <1>20, RequeuedRow DEF Release, Leave, SetRow, Owns
<1>21. ASSUME NEW w \in Workers, Interrupt(w) PROVE RowsAndTombstones'
  BY <1>21 DEF Interrupt, Goto, Owns
<1>22. ASSUME NEW w \in Workers, Crash(w) PROVE RowsAndTombstones'
  BY <1>22 DEF Crash, Leave
<1>23. ASSUME NEW w \in Workers, Renew(w) PROVE RowsAndTombstones'
  BY <1>23, LeasedRow DEF Renew, SetRow, Owns
<1>24. ASSUME NEW w \in Workers, NEW k \in Keys, ReserveNew(w, k) PROVE RowsAndTombstones'
  BY <1>24, InsertedRow DEF ReserveNew, SetRow, Enter
<1>26. ASSUME NEW w \in Workers, NEW k \in Keys, ReplaySettled(w, k) PROVE RowsAndTombstones'
  BY <1>26 DEF ReplaySettled, Tell
<1>27. ASSUME NEW w \in Workers, NEW k \in Keys, Continue(w, k) PROVE RowsAndTombstones'
  BY <1>27 DEF Continue, Enter
<1>28. ASSUME NEW w \in Workers, NEW k \in Keys, Reconcile(w, k) PROVE RowsAndTombstones'
  BY <1>28 DEF Reconcile, Enter, Ready
<1>29. ASSUME NEW w \in Workers, NEW k \in Keys, Defer(w, k) PROVE RowsAndTombstones'
  BY <1>29, RequeuedRow DEF Defer, SetRow, Ready
<1>30. ASSUME NEW k \in Keys, Arrive(k) PROVE RowsAndTombstones'
  BY <1>30 DEF Arrive
<1>31. ASSUME NEW k \in Keys, Index(k) PROVE RowsAndTombstones'
  BY <1>31 DEF Index
<1>32. ASSUME NEW k \in Keys, Expire(k) PROVE RowsAndTombstones'
  BY <1>32, LeasedRow DEF Expire, SetRow
<1>33. ASSUME NEW k \in Keys, Pause(k) PROVE RowsAndTombstones'
  BY <1>33, LeasedRow DEF Pause, SetRow
<1>34. ASSUME NEW k \in Keys, BackoffElapses(k) PROVE RowsAndTombstones'
  BY <1>34, DueRow DEF BackoffElapses, SetRow
<1>35. ASSUME NEW k \in Keys, Retire(k) PROVE RowsAndTombstones'
  BY <1>35 DEF Retire, SetRow
<1>36. CASE ToggleConnection
  BY <1>36 DEF ToggleConnection, Toggled, Altered, ConnectionOf
<1>37. CASE PatchConnection
  BY <1>37 DEF PatchConnection, Repeated, Altered, ConnectionOf
<1>38. CASE UNCHANGED vars
  BY <1>38 DEF vars
<1> QED
  BY <1>1, <1>2, <1>3, <1>4, <1>5, <1>6, <1>7, <1>8, <1>9, <1>10, <1>11, <1>12,
     <1>13, <1>14, <1>15, <1>16, <1>17, <1>18, <1>19, <1>20, <1>21, <1>22, <1>23, <1>24,
     <1>26, <1>27, <1>28, <1>29, <1>30, <1>31, <1>32, <1>33, <1>34, <1>35, <1>36,
     <1>37, <1>38 DEF Next, Step, Request, TrackerOrTime

\* Every step keeps the tracker behind its POSTs.
LEMMA TrackerStep ==
    ASSUME PostInv, [Next]_vars PROVE TrackerFollows'
<1> USE MutationAssumption DEF MutationTypeOK, ExecHasRow, Live, Terminal, StepStatus,
             Owns, Execution, Operating, Idle, NoRow, rowVars, trackerVars, Keeps, Row, PostInv, TrackerFollows, PosterAlone
<1>1. ASSUME NEW w \in Workers, AnswerSettled(w) PROVE TrackerFollows'
  BY <1>1 DEF AnswerSettled, Tell, Leave
<1>2. ASSUME NEW w \in Workers, Refuse(w) PROVE TrackerFollows'
  BY <1>2 DEF Refuse, Leave
<1>3. ASSUME NEW w \in Workers, Claim(w) PROVE TrackerFollows'
  BY <1>3, ClaimedRow DEF Claim, SetRow, Ready, FirstStep
<1>4. ASSUME NEW w \in Workers, Find(w) PROVE TrackerFollows'
  BY <1>4 DEF Find, Look, Goto
<1>5. ASSUME NEW w \in Workers, Marker(w) PROVE TrackerFollows'
  BY <1>5 DEF Marker, Look, Goto
<1>6. ASSUME NEW w \in Workers, Reject(w) PROVE TrackerFollows'
  BY <1>6 DEF Reject, Goto
<1>7. ASSUME NEW w \in Workers, Fields(w) PROVE TrackerFollows'
  BY <1>7 DEF Fields, Goto
<1>8. ASSUME NEW w \in Workers, StepFields(w) PROVE TrackerFollows'
  BY <1>8 DEF StepFields, SetRow, Goto, Owns
<1>9. ASSUME NEW w \in Workers, StepComment(w) PROVE TrackerFollows'
  BY <1>9 DEF StepComment, SetRow, Goto, Owns
<1>10. ASSUME NEW w \in Workers, Mark(w) PROVE TrackerFollows'
  BY <1>10, AttemptedRow DEF Mark, SetRow, Goto, Owns
<1>11. ASSUME NEW w \in Workers, Post(w) PROVE TrackerFollows'
  BY <1>11 DEF Post, Goto
<1>12. ASSUME NEW w \in Workers, Answered(w) PROVE TrackerFollows'
  BY <1>12 DEF Answered, Goto
<1>13. ASSUME NEW w \in Workers, ReadItem(w) PROVE TrackerFollows'
  BY <1>13 DEF ReadItem, Goto
<1>14. ASSUME NEW w \in Workers, Complete(w) PROVE TrackerFollows'
  BY <1>14, SettledRow DEF Complete, SetRow, Tell, Leave, Owns
<1>15. ASSUME NEW w \in Workers, CompleteAgain(w) PROVE TrackerFollows'
  BY <1>15 DEF CompleteAgain, Tell, Leave
<1>16. ASSUME NEW w \in Workers, CompleteLost(w) PROVE TrackerFollows'
  BY <1>16 DEF CompleteLost, Goto, Owns
<1>17. ASSUME NEW w \in Workers, Fail(w) PROVE TrackerFollows'
  BY <1>17, SettledRow DEF Fail, SetRow, Tell, Leave, Owns
<1>18. ASSUME NEW w \in Workers, FailAgain(w) PROVE TrackerFollows'
  BY <1>18 DEF FailAgain, Tell, Leave
<1>19. ASSUME NEW w \in Workers, FailLost(w) PROVE TrackerFollows'
  BY <1>19 DEF FailLost, Leave, Owns
<1>20. ASSUME NEW w \in Workers, Release(w) PROVE TrackerFollows'
  BY <1>20, RequeuedRow DEF Release, Leave, SetRow, Owns
<1>21. ASSUME NEW w \in Workers, Interrupt(w) PROVE TrackerFollows'
  BY <1>21 DEF Interrupt, Goto, Owns
<1>22. ASSUME NEW w \in Workers, Crash(w) PROVE TrackerFollows'
  BY <1>22 DEF Crash, Leave
<1>23. ASSUME NEW w \in Workers, Renew(w) PROVE TrackerFollows'
  BY <1>23, LeasedRow DEF Renew, SetRow, Owns
<1>24. ASSUME NEW w \in Workers, NEW k \in Keys, ReserveNew(w, k) PROVE TrackerFollows'
  BY <1>24, InsertedRow DEF ReserveNew, SetRow, Enter
<1>26. ASSUME NEW w \in Workers, NEW k \in Keys, ReplaySettled(w, k) PROVE TrackerFollows'
  BY <1>26 DEF ReplaySettled, Tell
<1>27. ASSUME NEW w \in Workers, NEW k \in Keys, Continue(w, k) PROVE TrackerFollows'
  BY <1>27 DEF Continue, Enter
<1>28. ASSUME NEW w \in Workers, NEW k \in Keys, Reconcile(w, k) PROVE TrackerFollows'
  BY <1>28 DEF Reconcile, Enter, Ready
<1>29. ASSUME NEW w \in Workers, NEW k \in Keys, Defer(w, k) PROVE TrackerFollows'
  BY <1>29, RequeuedRow DEF Defer, SetRow, Ready
<1>30. ASSUME NEW k \in Keys, Arrive(k) PROVE TrackerFollows'
  BY <1>30 DEF Arrive
<1>31. ASSUME NEW k \in Keys, Index(k) PROVE TrackerFollows'
  BY <1>31 DEF Index
<1>32. ASSUME NEW k \in Keys, Expire(k) PROVE TrackerFollows'
  BY <1>32, LeasedRow DEF Expire, SetRow
<1>33. ASSUME NEW k \in Keys, Pause(k) PROVE TrackerFollows'
  BY <1>33, LeasedRow DEF Pause, SetRow
<1>34. ASSUME NEW k \in Keys, BackoffElapses(k) PROVE TrackerFollows'
  BY <1>34, DueRow DEF BackoffElapses, SetRow
<1>35. ASSUME NEW k \in Keys, Retire(k) PROVE TrackerFollows'
  BY <1>35 DEF Retire, SetRow
<1>36. CASE ToggleConnection
  BY <1>36 DEF ToggleConnection, Toggled, Altered, ConnectionOf
<1>37. CASE PatchConnection
  BY <1>37 DEF PatchConnection, Repeated, Altered, ConnectionOf
<1>38. CASE UNCHANGED vars
  BY <1>38 DEF vars
<1> QED
  BY <1>1, <1>2, <1>3, <1>4, <1>5, <1>6, <1>7, <1>8, <1>9, <1>10, <1>11, <1>12,
     <1>13, <1>14, <1>15, <1>16, <1>17, <1>18, <1>19, <1>20, <1>21, <1>22, <1>23, <1>24,
     <1>26, <1>27, <1>28, <1>29, <1>30, <1>31, <1>32, <1>33, <1>34, <1>35, <1>36,
     <1>37, <1>38 DEF Next, Step, Request, TrackerOrTime

\* Every step counts a POST at most once.
LEMMA PostedStep ==
    ASSUME PostInv, [Next]_vars PROVE PostedOnce'
<1> USE MutationAssumption DEF MutationTypeOK, ExecHasRow, Live, Terminal, StepStatus,
             Owns, Execution, Operating, Idle, NoRow, rowVars, trackerVars, Keeps, Row, PostInv, RowsAndTombstones, PostedOnce, PosterAlone
<1>1. ASSUME NEW w \in Workers, AnswerSettled(w) PROVE PostedOnce'
  BY <1>1 DEF AnswerSettled, Tell, Leave
<1>2. ASSUME NEW w \in Workers, Refuse(w) PROVE PostedOnce'
  BY <1>2 DEF Refuse, Leave
<1>3. ASSUME NEW w \in Workers, Claim(w) PROVE PostedOnce'
  BY <1>3, ClaimedRow DEF Claim, SetRow, Ready, FirstStep
<1>4. ASSUME NEW w \in Workers, Find(w) PROVE PostedOnce'
  BY <1>4 DEF Find, Look, Goto
<1>5. ASSUME NEW w \in Workers, Marker(w) PROVE PostedOnce'
  BY <1>5 DEF Marker, Look, Goto
<1>6. ASSUME NEW w \in Workers, Reject(w) PROVE PostedOnce'
  BY <1>6 DEF Reject, Goto
<1>7. ASSUME NEW w \in Workers, Fields(w) PROVE PostedOnce'
  BY <1>7 DEF Fields, Goto
<1>8. ASSUME NEW w \in Workers, StepFields(w) PROVE PostedOnce'
  BY <1>8 DEF StepFields, SetRow, Goto, Owns
<1>9. ASSUME NEW w \in Workers, StepComment(w) PROVE PostedOnce'
  BY <1>9 DEF StepComment, SetRow, Goto, Owns
<1>10. ASSUME NEW w \in Workers, Mark(w) PROVE PostedOnce'
  BY <1>10, AttemptedRow DEF Mark, SetRow, Goto, Owns
<1>11. ASSUME NEW w \in Workers, Post(w) PROVE PostedOnce'
  BY <1>11 DEF Post, Goto
<1>12. ASSUME NEW w \in Workers, Answered(w) PROVE PostedOnce'
  BY <1>12 DEF Answered, Goto
<1>13. ASSUME NEW w \in Workers, ReadItem(w) PROVE PostedOnce'
  BY <1>13 DEF ReadItem, Goto
<1>14. ASSUME NEW w \in Workers, Complete(w) PROVE PostedOnce'
  BY <1>14, SettledRow DEF Complete, SetRow, Tell, Leave, Owns
<1>15. ASSUME NEW w \in Workers, CompleteAgain(w) PROVE PostedOnce'
  BY <1>15 DEF CompleteAgain, Tell, Leave
<1>16. ASSUME NEW w \in Workers, CompleteLost(w) PROVE PostedOnce'
  BY <1>16 DEF CompleteLost, Goto, Owns
<1>17. ASSUME NEW w \in Workers, Fail(w) PROVE PostedOnce'
  BY <1>17, SettledRow DEF Fail, SetRow, Tell, Leave, Owns
<1>18. ASSUME NEW w \in Workers, FailAgain(w) PROVE PostedOnce'
  BY <1>18 DEF FailAgain, Tell, Leave
<1>19. ASSUME NEW w \in Workers, FailLost(w) PROVE PostedOnce'
  BY <1>19 DEF FailLost, Leave, Owns
<1>20. ASSUME NEW w \in Workers, Release(w) PROVE PostedOnce'
  BY <1>20, RequeuedRow DEF Release, Leave, SetRow, Owns
<1>21. ASSUME NEW w \in Workers, Interrupt(w) PROVE PostedOnce'
  BY <1>21 DEF Interrupt, Goto, Owns
<1>22. ASSUME NEW w \in Workers, Crash(w) PROVE PostedOnce'
  BY <1>22 DEF Crash, Leave
<1>23. ASSUME NEW w \in Workers, Renew(w) PROVE PostedOnce'
  BY <1>23, LeasedRow DEF Renew, SetRow, Owns
<1>24. ASSUME NEW w \in Workers, NEW k \in Keys, ReserveNew(w, k) PROVE PostedOnce'
  BY <1>24, InsertedRow DEF ReserveNew, SetRow, Enter
<1>26. ASSUME NEW w \in Workers, NEW k \in Keys, ReplaySettled(w, k) PROVE PostedOnce'
  BY <1>26 DEF ReplaySettled, Tell
<1>27. ASSUME NEW w \in Workers, NEW k \in Keys, Continue(w, k) PROVE PostedOnce'
  BY <1>27 DEF Continue, Enter
<1>28. ASSUME NEW w \in Workers, NEW k \in Keys, Reconcile(w, k) PROVE PostedOnce'
  BY <1>28 DEF Reconcile, Enter, Ready
<1>29. ASSUME NEW w \in Workers, NEW k \in Keys, Defer(w, k) PROVE PostedOnce'
  BY <1>29, RequeuedRow DEF Defer, SetRow, Ready
<1>30. ASSUME NEW k \in Keys, Arrive(k) PROVE PostedOnce'
  BY <1>30 DEF Arrive
<1>31. ASSUME NEW k \in Keys, Index(k) PROVE PostedOnce'
  BY <1>31 DEF Index
<1>32. ASSUME NEW k \in Keys, Expire(k) PROVE PostedOnce'
  BY <1>32, LeasedRow DEF Expire, SetRow
<1>33. ASSUME NEW k \in Keys, Pause(k) PROVE PostedOnce'
  BY <1>33, LeasedRow DEF Pause, SetRow
<1>34. ASSUME NEW k \in Keys, BackoffElapses(k) PROVE PostedOnce'
  BY <1>34, DueRow DEF BackoffElapses, SetRow
<1>35. ASSUME NEW k \in Keys, Retire(k) PROVE PostedOnce'
  BY <1>35 DEF Retire, SetRow
<1>36. CASE ToggleConnection
  BY <1>36 DEF ToggleConnection, Toggled, Altered, ConnectionOf
<1>37. CASE PatchConnection
  BY <1>37 DEF PatchConnection, Repeated, Altered, ConnectionOf
<1>38. CASE UNCHANGED vars
  BY <1>38 DEF vars
<1> QED
  BY <1>1, <1>2, <1>3, <1>4, <1>5, <1>6, <1>7, <1>8, <1>9, <1>10, <1>11, <1>12,
     <1>13, <1>14, <1>15, <1>16, <1>17, <1>18, <1>19, <1>20, <1>21, <1>22, <1>23, <1>24,
     <1>26, <1>27, <1>28, <1>29, <1>30, <1>31, <1>32, <1>33, <1>34, <1>35, <1>36,
     <1>37, <1>38 DEF Next, Step, Request, TrackerOrTime

\* Every step leaves at most one execution before the POST.
LEMMA PosterStep ==
    ASSUME PostInv, [Next]_vars PROVE PosterAlone'
<1> USE MutationAssumption DEF MutationTypeOK, ExecHasRow, Live, Terminal, StepStatus,
             Owns, Execution, Operating, Idle, NoRow, rowVars, trackerVars, Keeps, Row, PostInv, RowsAndTombstones, PostedOnce, PosterAlone, OwnerKnows
<1>1. ASSUME NEW w \in Workers, AnswerSettled(w) PROVE PosterAlone'
  BY <1>1 DEF AnswerSettled, Tell, Leave
<1>2. ASSUME NEW w \in Workers, Refuse(w) PROVE PosterAlone'
  BY <1>2 DEF Refuse, Leave
<1>3. ASSUME NEW w \in Workers, Claim(w) PROVE PosterAlone'
  BY <1>3, ClaimedRow DEF Claim, SetRow, Ready, FirstStep
<1>4. ASSUME NEW w \in Workers, Find(w) PROVE PosterAlone'
  BY <1>4 DEF Find, Look, Goto
<1>5. ASSUME NEW w \in Workers, Marker(w) PROVE PosterAlone'
  BY <1>5 DEF Marker, Look, Goto
<1>6. ASSUME NEW w \in Workers, Reject(w) PROVE PosterAlone'
  BY <1>6 DEF Reject, Goto
<1>7. ASSUME NEW w \in Workers, Fields(w) PROVE PosterAlone'
  BY <1>7 DEF Fields, Goto
<1>8. ASSUME NEW w \in Workers, StepFields(w) PROVE PosterAlone'
  BY <1>8 DEF StepFields, SetRow, Goto, Owns
<1>9. ASSUME NEW w \in Workers, StepComment(w) PROVE PosterAlone'
  BY <1>9 DEF StepComment, SetRow, Goto, Owns
<1>10. ASSUME NEW w \in Workers, Mark(w) PROVE PosterAlone'
  BY <1>10, AttemptedRow DEF Mark, SetRow, Goto, Owns
<1>11. ASSUME NEW w \in Workers, Post(w) PROVE PosterAlone'
  BY <1>11 DEF Post, Goto
<1>12. ASSUME NEW w \in Workers, Answered(w) PROVE PosterAlone'
  BY <1>12 DEF Answered, Goto
<1>13. ASSUME NEW w \in Workers, ReadItem(w) PROVE PosterAlone'
  BY <1>13 DEF ReadItem, Goto
<1>14. ASSUME NEW w \in Workers, Complete(w) PROVE PosterAlone'
  BY <1>14, SettledRow DEF Complete, SetRow, Tell, Leave, Owns
<1>15. ASSUME NEW w \in Workers, CompleteAgain(w) PROVE PosterAlone'
  BY <1>15 DEF CompleteAgain, Tell, Leave
<1>16. ASSUME NEW w \in Workers, CompleteLost(w) PROVE PosterAlone'
  BY <1>16 DEF CompleteLost, Goto, Owns
<1>17. ASSUME NEW w \in Workers, Fail(w) PROVE PosterAlone'
  BY <1>17, SettledRow DEF Fail, SetRow, Tell, Leave, Owns
<1>18. ASSUME NEW w \in Workers, FailAgain(w) PROVE PosterAlone'
  BY <1>18 DEF FailAgain, Tell, Leave
<1>19. ASSUME NEW w \in Workers, FailLost(w) PROVE PosterAlone'
  BY <1>19 DEF FailLost, Leave, Owns
<1>20. ASSUME NEW w \in Workers, Release(w) PROVE PosterAlone'
  BY <1>20, RequeuedRow DEF Release, Leave, SetRow, Owns
<1>21. ASSUME NEW w \in Workers, Interrupt(w) PROVE PosterAlone'
  BY <1>21 DEF Interrupt, Goto, Owns
<1>22. ASSUME NEW w \in Workers, Crash(w) PROVE PosterAlone'
  BY <1>22 DEF Crash, Leave
<1>23. ASSUME NEW w \in Workers, Renew(w) PROVE PosterAlone'
  BY <1>23, LeasedRow DEF Renew, SetRow, Owns
<1>24. ASSUME NEW w \in Workers, NEW k \in Keys, ReserveNew(w, k) PROVE PosterAlone'
  BY <1>24, InsertedRow DEF ReserveNew, SetRow, Enter
<1>26. ASSUME NEW w \in Workers, NEW k \in Keys, ReplaySettled(w, k) PROVE PosterAlone'
  BY <1>26 DEF ReplaySettled, Tell
<1>27. ASSUME NEW w \in Workers, NEW k \in Keys, Continue(w, k) PROVE PosterAlone'
  BY <1>27 DEF Continue, Enter
<1>28. ASSUME NEW w \in Workers, NEW k \in Keys, Reconcile(w, k) PROVE PosterAlone'
  BY <1>28 DEF Reconcile, Enter, Ready
<1>29. ASSUME NEW w \in Workers, NEW k \in Keys, Defer(w, k) PROVE PosterAlone'
  BY <1>29, RequeuedRow DEF Defer, SetRow, Ready
<1>30. ASSUME NEW k \in Keys, Arrive(k) PROVE PosterAlone'
  BY <1>30 DEF Arrive
<1>31. ASSUME NEW k \in Keys, Index(k) PROVE PosterAlone'
  BY <1>31 DEF Index
<1>32. ASSUME NEW k \in Keys, Expire(k) PROVE PosterAlone'
  BY <1>32, LeasedRow DEF Expire, SetRow
<1>33. ASSUME NEW k \in Keys, Pause(k) PROVE PosterAlone'
  BY <1>33, LeasedRow DEF Pause, SetRow
<1>34. ASSUME NEW k \in Keys, BackoffElapses(k) PROVE PosterAlone'
  BY <1>34, DueRow DEF BackoffElapses, SetRow
<1>35. ASSUME NEW k \in Keys, Retire(k) PROVE PosterAlone'
  BY <1>35 DEF Retire, SetRow
<1>36. CASE ToggleConnection
  BY <1>36 DEF ToggleConnection, Toggled, Altered, ConnectionOf
<1>37. CASE PatchConnection
  BY <1>37 DEF PatchConnection, Repeated, Altered, ConnectionOf
<1>38. CASE UNCHANGED vars
  BY <1>38 DEF vars
<1> QED
  BY <1>1, <1>2, <1>3, <1>4, <1>5, <1>6, <1>7, <1>8, <1>9, <1>10, <1>11, <1>12,
     <1>13, <1>14, <1>15, <1>16, <1>17, <1>18, <1>19, <1>20, <1>21, <1>22, <1>23, <1>24,
     <1>26, <1>27, <1>28, <1>29, <1>30, <1>31, <1>32, <1>33, <1>34, <1>35, <1>36,
     <1>37, <1>38 DEF Next, Step, Request, TrackerOrTime

\* Every step keeps what an owner knows of the attempt.
LEMMA OwnerStep ==
    ASSUME PostInv, [Next]_vars PROVE OwnerKnows'
<1> USE MutationAssumption DEF MutationTypeOK, ExecHasRow, Live, Terminal, StepStatus,
             Owns, Execution, Operating, Idle, NoRow, rowVars, trackerVars, Keeps, Row, PostInv, OwnerKnows
<1>1. ASSUME NEW w \in Workers, AnswerSettled(w) PROVE OwnerKnows'
  BY <1>1 DEF AnswerSettled, Tell, Leave
<1>2. ASSUME NEW w \in Workers, Refuse(w) PROVE OwnerKnows'
  BY <1>2 DEF Refuse, Leave
<1>3. ASSUME NEW w \in Workers, Claim(w) PROVE OwnerKnows'
  BY <1>3, ClaimedRow DEF Claim, SetRow, Ready, FirstStep
<1>4. ASSUME NEW w \in Workers, Find(w) PROVE OwnerKnows'
  BY <1>4 DEF Find, Look, Goto
<1>5. ASSUME NEW w \in Workers, Marker(w) PROVE OwnerKnows'
  BY <1>5 DEF Marker, Look, Goto
<1>6. ASSUME NEW w \in Workers, Reject(w) PROVE OwnerKnows'
  BY <1>6 DEF Reject, Goto
<1>7. ASSUME NEW w \in Workers, Fields(w) PROVE OwnerKnows'
  BY <1>7 DEF Fields, Goto
<1>8. ASSUME NEW w \in Workers, StepFields(w) PROVE OwnerKnows'
  BY <1>8 DEF StepFields, SetRow, Goto, Owns
<1>9. ASSUME NEW w \in Workers, StepComment(w) PROVE OwnerKnows'
  BY <1>9 DEF StepComment, SetRow, Goto, Owns
<1>10. ASSUME NEW w \in Workers, Mark(w) PROVE OwnerKnows'
  BY <1>10, AttemptedRow DEF Mark, SetRow, Goto, Owns
<1>11. ASSUME NEW w \in Workers, Post(w) PROVE OwnerKnows'
  BY <1>11 DEF Post, Goto
<1>12. ASSUME NEW w \in Workers, Answered(w) PROVE OwnerKnows'
  BY <1>12 DEF Answered, Goto
<1>13. ASSUME NEW w \in Workers, ReadItem(w) PROVE OwnerKnows'
  BY <1>13 DEF ReadItem, Goto
<1>14. ASSUME NEW w \in Workers, Complete(w) PROVE OwnerKnows'
  BY <1>14, SettledRow DEF Complete, SetRow, Tell, Leave, Owns
<1>15. ASSUME NEW w \in Workers, CompleteAgain(w) PROVE OwnerKnows'
  BY <1>15 DEF CompleteAgain, Tell, Leave
<1>16. ASSUME NEW w \in Workers, CompleteLost(w) PROVE OwnerKnows'
  BY <1>16 DEF CompleteLost, Goto, Owns
<1>17. ASSUME NEW w \in Workers, Fail(w) PROVE OwnerKnows'
  BY <1>17, SettledRow DEF Fail, SetRow, Tell, Leave, Owns
<1>18. ASSUME NEW w \in Workers, FailAgain(w) PROVE OwnerKnows'
  BY <1>18 DEF FailAgain, Tell, Leave
<1>19. ASSUME NEW w \in Workers, FailLost(w) PROVE OwnerKnows'
  BY <1>19 DEF FailLost, Leave, Owns
<1>20. ASSUME NEW w \in Workers, Release(w) PROVE OwnerKnows'
  BY <1>20, RequeuedRow DEF Release, Leave, SetRow, Owns
<1>21. ASSUME NEW w \in Workers, Interrupt(w) PROVE OwnerKnows'
  BY <1>21 DEF Interrupt, Goto, Owns
<1>22. ASSUME NEW w \in Workers, Crash(w) PROVE OwnerKnows'
  BY <1>22 DEF Crash, Leave
<1>23. ASSUME NEW w \in Workers, Renew(w) PROVE OwnerKnows'
  BY <1>23, LeasedRow DEF Renew, SetRow, Owns
<1>24. ASSUME NEW w \in Workers, NEW k \in Keys, ReserveNew(w, k) PROVE OwnerKnows'
  BY <1>24, InsertedRow DEF ReserveNew, SetRow, Enter
<1>26. ASSUME NEW w \in Workers, NEW k \in Keys, ReplaySettled(w, k) PROVE OwnerKnows'
  BY <1>26 DEF ReplaySettled, Tell
<1>27. ASSUME NEW w \in Workers, NEW k \in Keys, Continue(w, k) PROVE OwnerKnows'
  BY <1>27 DEF Continue, Enter
<1>28. ASSUME NEW w \in Workers, NEW k \in Keys, Reconcile(w, k) PROVE OwnerKnows'
  BY <1>28 DEF Reconcile, Enter, Ready
<1>29. ASSUME NEW w \in Workers, NEW k \in Keys, Defer(w, k) PROVE OwnerKnows'
  <2>1. Keeps(Requeued(mutation[k]), mutation[k]) /\ Requeued(mutation[k]).status = "pending"
    BY RequeuedRow
  <2>2. /\ mutation' = [mutation EXCEPT ![k] = Requeued(mutation[k])]
        /\ UNCHANGED <<tombstone, exec, posted, inflight, answer, visible, wrote, told>>
    BY <1>29 DEF Defer, SetRow
  <2> QED BY <2>1, <2>2
<1>30. ASSUME NEW k \in Keys, Arrive(k) PROVE OwnerKnows'
  BY <1>30 DEF Arrive
<1>31. ASSUME NEW k \in Keys, Index(k) PROVE OwnerKnows'
  BY <1>31 DEF Index
<1>32. ASSUME NEW k \in Keys, Expire(k) PROVE OwnerKnows'
  BY <1>32, LeasedRow DEF Expire, SetRow
<1>33. ASSUME NEW k \in Keys, Pause(k) PROVE OwnerKnows'
  BY <1>33, LeasedRow DEF Pause, SetRow
<1>34. ASSUME NEW k \in Keys, BackoffElapses(k) PROVE OwnerKnows'
  BY <1>34, DueRow DEF BackoffElapses, SetRow
<1>35. ASSUME NEW k \in Keys, Retire(k) PROVE OwnerKnows'
  BY <1>35 DEF Retire, SetRow
<1>36. CASE ToggleConnection
  BY <1>36 DEF ToggleConnection, Toggled, Altered, ConnectionOf
<1>37. CASE PatchConnection
  BY <1>37 DEF PatchConnection, Repeated, Altered, ConnectionOf
<1>38. CASE UNCHANGED vars
  BY <1>38 DEF vars
<1> QED
  BY <1>1, <1>2, <1>3, <1>4, <1>5, <1>6, <1>7, <1>8, <1>9, <1>10, <1>11, <1>12,
     <1>13, <1>14, <1>15, <1>16, <1>17, <1>18, <1>19, <1>20, <1>21, <1>22, <1>23, <1>24,
     <1>26, <1>27, <1>28, <1>29, <1>30, <1>31, <1>32, <1>33, <1>34, <1>35, <1>36,
     <1>37, <1>38 DEF Next, Step, Request, TrackerOrTime

\* Every step keeps what callers were told.
LEMMA ToldStep ==
    ASSUME PostInv, ToldOutcomeIsFinal, [Next]_vars PROVE ToldOutcomeIsFinal'
<1> USE MutationAssumption DEF MutationTypeOK, ExecHasRow, Live, Terminal, StepStatus,
             Owns, Execution, Operating, Idle, NoRow, rowVars, trackerVars, Keeps, Row, PostInv, RowsAndTombstones, ToldOutcomeIsFinal
<1>1. ASSUME NEW w \in Workers, AnswerSettled(w) PROVE ToldOutcomeIsFinal'
  BY <1>1 DEF AnswerSettled, Tell, Leave
<1>2. ASSUME NEW w \in Workers, Refuse(w) PROVE ToldOutcomeIsFinal'
  BY <1>2 DEF Refuse, Leave
<1>3. ASSUME NEW w \in Workers, Claim(w) PROVE ToldOutcomeIsFinal'
  BY <1>3, ClaimedRow DEF Claim, SetRow, Ready, FirstStep
<1>4. ASSUME NEW w \in Workers, Find(w) PROVE ToldOutcomeIsFinal'
  BY <1>4 DEF Find, Look, Goto
<1>5. ASSUME NEW w \in Workers, Marker(w) PROVE ToldOutcomeIsFinal'
  BY <1>5 DEF Marker, Look, Goto
<1>6. ASSUME NEW w \in Workers, Reject(w) PROVE ToldOutcomeIsFinal'
  BY <1>6 DEF Reject, Goto
<1>7. ASSUME NEW w \in Workers, Fields(w) PROVE ToldOutcomeIsFinal'
  BY <1>7 DEF Fields, Goto
<1>8. ASSUME NEW w \in Workers, StepFields(w) PROVE ToldOutcomeIsFinal'
  BY <1>8 DEF StepFields, SetRow, Goto, Owns
<1>9. ASSUME NEW w \in Workers, StepComment(w) PROVE ToldOutcomeIsFinal'
  BY <1>9 DEF StepComment, SetRow, Goto, Owns
<1>10. ASSUME NEW w \in Workers, Mark(w) PROVE ToldOutcomeIsFinal'
  BY <1>10, AttemptedRow DEF Mark, SetRow, Goto, Owns
<1>11. ASSUME NEW w \in Workers, Post(w) PROVE ToldOutcomeIsFinal'
  BY <1>11 DEF Post, Goto
<1>12. ASSUME NEW w \in Workers, Answered(w) PROVE ToldOutcomeIsFinal'
  BY <1>12 DEF Answered, Goto
<1>13. ASSUME NEW w \in Workers, ReadItem(w) PROVE ToldOutcomeIsFinal'
  BY <1>13 DEF ReadItem, Goto
<1>14. ASSUME NEW w \in Workers, Complete(w) PROVE ToldOutcomeIsFinal'
  BY <1>14, SettledRow DEF Complete, SetRow, Tell, Leave, Owns
<1>15. ASSUME NEW w \in Workers, CompleteAgain(w) PROVE ToldOutcomeIsFinal'
  BY <1>15 DEF CompleteAgain, Tell, Leave
<1>16. ASSUME NEW w \in Workers, CompleteLost(w) PROVE ToldOutcomeIsFinal'
  BY <1>16 DEF CompleteLost, Goto, Owns
<1>17. ASSUME NEW w \in Workers, Fail(w) PROVE ToldOutcomeIsFinal'
  BY <1>17, SettledRow DEF Fail, SetRow, Tell, Leave, Owns
<1>18. ASSUME NEW w \in Workers, FailAgain(w) PROVE ToldOutcomeIsFinal'
  BY <1>18 DEF FailAgain, Tell, Leave
<1>19. ASSUME NEW w \in Workers, FailLost(w) PROVE ToldOutcomeIsFinal'
  BY <1>19 DEF FailLost, Leave, Owns
<1>20. ASSUME NEW w \in Workers, Release(w) PROVE ToldOutcomeIsFinal'
  BY <1>20, RequeuedRow DEF Release, Leave, SetRow, Owns
<1>21. ASSUME NEW w \in Workers, Interrupt(w) PROVE ToldOutcomeIsFinal'
  BY <1>21 DEF Interrupt, Goto, Owns
<1>22. ASSUME NEW w \in Workers, Crash(w) PROVE ToldOutcomeIsFinal'
  BY <1>22 DEF Crash, Leave
<1>23. ASSUME NEW w \in Workers, Renew(w) PROVE ToldOutcomeIsFinal'
  BY <1>23, LeasedRow DEF Renew, SetRow, Owns
<1>24. ASSUME NEW w \in Workers, NEW k \in Keys, ReserveNew(w, k) PROVE ToldOutcomeIsFinal'
  BY <1>24, InsertedRow DEF ReserveNew, SetRow, Enter
<1>26. ASSUME NEW w \in Workers, NEW k \in Keys, ReplaySettled(w, k) PROVE ToldOutcomeIsFinal'
  BY <1>26 DEF ReplaySettled, Tell
<1>27. ASSUME NEW w \in Workers, NEW k \in Keys, Continue(w, k) PROVE ToldOutcomeIsFinal'
  BY <1>27 DEF Continue, Enter
<1>28. ASSUME NEW w \in Workers, NEW k \in Keys, Reconcile(w, k) PROVE ToldOutcomeIsFinal'
  BY <1>28 DEF Reconcile, Enter, Ready
<1>29. ASSUME NEW w \in Workers, NEW k \in Keys, Defer(w, k) PROVE ToldOutcomeIsFinal'
  BY <1>29, RequeuedRow DEF Defer, SetRow, Ready
<1>30. ASSUME NEW k \in Keys, Arrive(k) PROVE ToldOutcomeIsFinal'
  BY <1>30 DEF Arrive
<1>31. ASSUME NEW k \in Keys, Index(k) PROVE ToldOutcomeIsFinal'
  BY <1>31 DEF Index
<1>32. ASSUME NEW k \in Keys, Expire(k) PROVE ToldOutcomeIsFinal'
  BY <1>32, LeasedRow DEF Expire, SetRow
<1>33. ASSUME NEW k \in Keys, Pause(k) PROVE ToldOutcomeIsFinal'
  BY <1>33, LeasedRow DEF Pause, SetRow
<1>34. ASSUME NEW k \in Keys, BackoffElapses(k) PROVE ToldOutcomeIsFinal'
  BY <1>34, DueRow DEF BackoffElapses, SetRow
<1>35. ASSUME NEW k \in Keys, Retire(k) PROVE ToldOutcomeIsFinal'
  BY <1>35 DEF Retire, SetRow
<1>36. CASE ToggleConnection
  BY <1>36 DEF ToggleConnection, Toggled, Altered, ConnectionOf
<1>37. CASE PatchConnection
  BY <1>37 DEF PatchConnection, Repeated, Altered, ConnectionOf
<1>38. CASE UNCHANGED vars
  BY <1>38 DEF vars
<1> QED
  BY <1>1, <1>2, <1>3, <1>4, <1>5, <1>6, <1>7, <1>8, <1>9, <1>10, <1>11, <1>12,
     <1>13, <1>14, <1>15, <1>16, <1>17, <1>18, <1>19, <1>20, <1>21, <1>22, <1>23, <1>24,
     <1>26, <1>27, <1>28, <1>29, <1>30, <1>31, <1>32, <1>33, <1>34, <1>35, <1>36,
     <1>37, <1>38 DEF Next, Step, Request, TrackerOrTime

\* Every step keeps the connection under its rows.
LEMMA ReservationStep ==
    ASSUME PostInv, ReservationHolds, [Next]_vars PROVE ReservationHolds'
<1> USE MutationAssumption DEF MutationTypeOK, ExecHasRow, Live, Terminal, StepStatus,
             Owns, Execution, Operating, Idle, NoRow, rowVars, trackerVars, ConnectionOf, Keeps, Row, PostInv, ReservationHolds, Unaltered,
             ReferencedByMutations
<1>1. ASSUME NEW w \in Workers, AnswerSettled(w) PROVE ReservationHolds'
  BY <1>1 DEF AnswerSettled, Tell, Leave
<1>2. ASSUME NEW w \in Workers, Refuse(w) PROVE ReservationHolds'
  BY <1>2 DEF Refuse, Leave
<1>3. ASSUME NEW w \in Workers, Claim(w) PROVE ReservationHolds'
  BY <1>3, ClaimedRow DEF Claim, SetRow, Ready, FirstStep
<1>4. ASSUME NEW w \in Workers, Find(w) PROVE ReservationHolds'
  BY <1>4 DEF Find, Look, Goto
<1>5. ASSUME NEW w \in Workers, Marker(w) PROVE ReservationHolds'
  BY <1>5 DEF Marker, Look, Goto
<1>6. ASSUME NEW w \in Workers, Reject(w) PROVE ReservationHolds'
  BY <1>6 DEF Reject, Goto
<1>7. ASSUME NEW w \in Workers, Fields(w) PROVE ReservationHolds'
  BY <1>7 DEF Fields, Goto
<1>8. ASSUME NEW w \in Workers, StepFields(w) PROVE ReservationHolds'
  BY <1>8 DEF StepFields, SetRow, Goto, Owns
<1>9. ASSUME NEW w \in Workers, StepComment(w) PROVE ReservationHolds'
  BY <1>9 DEF StepComment, SetRow, Goto, Owns
<1>10. ASSUME NEW w \in Workers, Mark(w) PROVE ReservationHolds'
  BY <1>10, AttemptedRow DEF Mark, SetRow, Goto, Owns
<1>11. ASSUME NEW w \in Workers, Post(w) PROVE ReservationHolds'
  BY <1>11 DEF Post, Goto
<1>12. ASSUME NEW w \in Workers, Answered(w) PROVE ReservationHolds'
  BY <1>12 DEF Answered, Goto
<1>13. ASSUME NEW w \in Workers, ReadItem(w) PROVE ReservationHolds'
  BY <1>13 DEF ReadItem, Goto
<1>14. ASSUME NEW w \in Workers, Complete(w) PROVE ReservationHolds'
  BY <1>14, SettledRow DEF Complete, SetRow, Tell, Leave, Owns
<1>15. ASSUME NEW w \in Workers, CompleteAgain(w) PROVE ReservationHolds'
  BY <1>15 DEF CompleteAgain, Tell, Leave
<1>16. ASSUME NEW w \in Workers, CompleteLost(w) PROVE ReservationHolds'
  BY <1>16 DEF CompleteLost, Goto, Owns
<1>17. ASSUME NEW w \in Workers, Fail(w) PROVE ReservationHolds'
  BY <1>17, SettledRow DEF Fail, SetRow, Tell, Leave, Owns
<1>18. ASSUME NEW w \in Workers, FailAgain(w) PROVE ReservationHolds'
  BY <1>18 DEF FailAgain, Tell, Leave
<1>19. ASSUME NEW w \in Workers, FailLost(w) PROVE ReservationHolds'
  BY <1>19 DEF FailLost, Leave, Owns
<1>20. ASSUME NEW w \in Workers, Release(w) PROVE ReservationHolds'
  BY <1>20, RequeuedRow DEF Release, Leave, SetRow, Owns
<1>21. ASSUME NEW w \in Workers, Interrupt(w) PROVE ReservationHolds'
  BY <1>21 DEF Interrupt, Goto, Owns
<1>22. ASSUME NEW w \in Workers, Crash(w) PROVE ReservationHolds'
  BY <1>22 DEF Crash, Leave
<1>23. ASSUME NEW w \in Workers, Renew(w) PROVE ReservationHolds'
  BY <1>23, LeasedRow DEF Renew, SetRow, Owns
<1>24. ASSUME NEW w \in Workers, NEW k \in Keys, ReserveNew(w, k) PROVE ReservationHolds'
  BY <1>24, InsertedRow DEF ReserveNew, SetRow, Enter
<1>26. ASSUME NEW w \in Workers, NEW k \in Keys, ReplaySettled(w, k) PROVE ReservationHolds'
  BY <1>26 DEF ReplaySettled, Tell
<1>27. ASSUME NEW w \in Workers, NEW k \in Keys, Continue(w, k) PROVE ReservationHolds'
  BY <1>27 DEF Continue, Enter
<1>28. ASSUME NEW w \in Workers, NEW k \in Keys, Reconcile(w, k) PROVE ReservationHolds'
  BY <1>28 DEF Reconcile, Enter, Ready
<1>29. ASSUME NEW w \in Workers, NEW k \in Keys, Defer(w, k) PROVE ReservationHolds'
  BY <1>29, RequeuedRow DEF Defer, SetRow, Ready
<1>30. ASSUME NEW k \in Keys, Arrive(k) PROVE ReservationHolds'
  BY <1>30 DEF Arrive
<1>31. ASSUME NEW k \in Keys, Index(k) PROVE ReservationHolds'
  BY <1>31 DEF Index
<1>32. ASSUME NEW k \in Keys, Expire(k) PROVE ReservationHolds'
  BY <1>32, LeasedRow DEF Expire, SetRow
<1>33. ASSUME NEW k \in Keys, Pause(k) PROVE ReservationHolds'
  BY <1>33, LeasedRow DEF Pause, SetRow
<1>34. ASSUME NEW k \in Keys, BackoffElapses(k) PROVE ReservationHolds'
  BY <1>34, DueRow DEF BackoffElapses, SetRow
<1>35. ASSUME NEW k \in Keys, Retire(k) PROVE ReservationHolds'
  BY <1>35 DEF Retire, SetRow
<1>36. CASE ToggleConnection
  BY <1>36 DEF ToggleConnection, Toggled, Altered, ConnectionOf
<1>37. CASE PatchConnection
  BY <1>37 DEF PatchConnection, Repeated, Altered, ConnectionOf
<1>38. CASE UNCHANGED vars
  BY <1>38 DEF vars
<1> QED
  BY <1>1, <1>2, <1>3, <1>4, <1>5, <1>6, <1>7, <1>8, <1>9, <1>10, <1>11, <1>12,
     <1>13, <1>14, <1>15, <1>16, <1>17, <1>18, <1>19, <1>20, <1>21, <1>22, <1>23, <1>24,
     <1>26, <1>27, <1>28, <1>29, <1>30, <1>31, <1>32, <1>33, <1>34, <1>35, <1>36,
     <1>37, <1>38 DEF Next, Step, Request, TrackerOrTime

\* Every step keeps recorded steps applied.
LEMMA AppliedStep ==
    ASSUME PostInv, StepsApplied, [Next]_vars PROVE StepsApplied'
<1> USE MutationAssumption DEF MutationTypeOK, ExecHasRow, Live, Terminal, StepStatus,
             Owns, Execution, Operating, Idle, NoRow, rowVars, trackerVars, Keeps, Row, PostInv, PosterAlone, TrackerFollows, StepsApplied
<1>1. ASSUME NEW w \in Workers, AnswerSettled(w) PROVE StepsApplied'
  BY <1>1 DEF AnswerSettled, Tell, Leave
<1>2. ASSUME NEW w \in Workers, Refuse(w) PROVE StepsApplied'
  BY <1>2 DEF Refuse, Leave
<1>3. ASSUME NEW w \in Workers, Claim(w) PROVE StepsApplied'
  BY <1>3, ClaimedRow DEF Claim, SetRow, Ready, FirstStep
<1>4. ASSUME NEW w \in Workers, Find(w) PROVE StepsApplied'
  BY <1>4 DEF Find, Look, Goto
<1>5. ASSUME NEW w \in Workers, Marker(w) PROVE StepsApplied'
  BY <1>5 DEF Marker, Look, Goto
<1>6. ASSUME NEW w \in Workers, Reject(w) PROVE StepsApplied'
  BY <1>6 DEF Reject, Goto
<1>7. ASSUME NEW w \in Workers, Fields(w) PROVE StepsApplied'
  BY <1>7 DEF Fields, Goto
<1>8. ASSUME NEW w \in Workers, StepFields(w) PROVE StepsApplied'
  BY <1>8 DEF StepFields, SetRow, Goto, Owns
<1>9. ASSUME NEW w \in Workers, StepComment(w) PROVE StepsApplied'
  <2> DEFINE k == exec[w].key
             recorded == [mutation[k] EXCEPT !.comment = "completed"]
  <2>1. /\ exec[w].pc = "stepComment" /\ k \in Keys /\ answer[k] = "created"
        /\ UNCHANGED <<wrote, answer, posted>>
    BY <1>9 DEF StepComment
  <2>2. \E place \in {"read", "release"} :
          /\ exec' = [exec EXCEPT ![w].pc = place]
          /\ place = "read" => Owns(w, k) /\ mutation' = [mutation EXCEPT ![k] = recorded]
          /\ place = "release" => mutation' = mutation
    BY <1>9 DEF StepComment, SetRow, Goto
  <2>3. /\ recorded.comment = "completed" /\ recorded.fields = mutation[k].fields
        /\ recorded.status = mutation[k].status /\ recorded.owner = mutation[k].owner
    BY <2>1
  <2>4. CASE mutation' = mutation /\ exec' = [exec EXCEPT ![w].pc = "release"]
    BY <2>1, <2>4
  <2>5. CASE /\ Owns(w, k) /\ mutation' = [mutation EXCEPT ![k] = recorded]
             /\ exec' = [exec EXCEPT ![w].pc = "read"]
    <3> HIDE DEF recorded
    <3> QED BY <2>1, <2>3, <2>5
  <2> QED BY <2>2, <2>4, <2>5
<1>10. ASSUME NEW w \in Workers, Mark(w) PROVE StepsApplied'
  BY <1>10, AttemptedRow DEF Mark, SetRow, Goto, Owns
<1>11. ASSUME NEW w \in Workers, Post(w) PROVE StepsApplied'
  BY <1>11 DEF Post, Goto
<1>12. ASSUME NEW w \in Workers, Answered(w) PROVE StepsApplied'
  BY <1>12 DEF Answered, Goto
<1>13. ASSUME NEW w \in Workers, ReadItem(w) PROVE StepsApplied'
  BY <1>13 DEF ReadItem, Goto
<1>14. ASSUME NEW w \in Workers, Complete(w) PROVE StepsApplied'
  BY <1>14, SettledRow DEF Complete, SetRow, Tell, Leave, Owns
<1>15. ASSUME NEW w \in Workers, CompleteAgain(w) PROVE StepsApplied'
  BY <1>15 DEF CompleteAgain, Tell, Leave
<1>16. ASSUME NEW w \in Workers, CompleteLost(w) PROVE StepsApplied'
  BY <1>16 DEF CompleteLost, Goto, Owns
<1>17. ASSUME NEW w \in Workers, Fail(w) PROVE StepsApplied'
  BY <1>17, SettledRow DEF Fail, SetRow, Tell, Leave, Owns
<1>18. ASSUME NEW w \in Workers, FailAgain(w) PROVE StepsApplied'
  BY <1>18 DEF FailAgain, Tell, Leave
<1>19. ASSUME NEW w \in Workers, FailLost(w) PROVE StepsApplied'
  BY <1>19 DEF FailLost, Leave, Owns
<1>20. ASSUME NEW w \in Workers, Release(w) PROVE StepsApplied'
  <2>1. CASE ~Owns(w, exec[w].key)
    BY <1>20, <2>1 DEF Release, Leave
  <2>2. CASE Owns(w, exec[w].key)
    <3>1. /\ Keeps(Requeued(mutation[exec[w].key]), mutation[exec[w].key])
          /\ Requeued(mutation[exec[w].key]).status = "pending"
      BY <1>20, <2>2, RequeuedRow DEF Release
    <3> QED BY <1>20, <2>2, <3>1 DEF Release, Leave, SetRow
  <2> QED BY <2>1, <2>2
<1>21. ASSUME NEW w \in Workers, Interrupt(w) PROVE StepsApplied'
  BY <1>21 DEF Interrupt, Goto, Owns
<1>22. ASSUME NEW w \in Workers, Crash(w) PROVE StepsApplied'
  BY <1>22 DEF Crash, Leave
<1>23. ASSUME NEW w \in Workers, Renew(w) PROVE StepsApplied'
  BY <1>23, LeasedRow DEF Renew, SetRow, Owns
<1>24. ASSUME NEW w \in Workers, NEW k \in Keys, ReserveNew(w, k) PROVE StepsApplied'
  BY <1>24, InsertedRow DEF ReserveNew, SetRow, Enter
<1>26. ASSUME NEW w \in Workers, NEW k \in Keys, ReplaySettled(w, k) PROVE StepsApplied'
  BY <1>26 DEF ReplaySettled, Tell
<1>27. ASSUME NEW w \in Workers, NEW k \in Keys, Continue(w, k) PROVE StepsApplied'
  BY <1>27 DEF Continue, Enter
<1>28. ASSUME NEW w \in Workers, NEW k \in Keys, Reconcile(w, k) PROVE StepsApplied'
  BY <1>28 DEF Reconcile, Enter, Ready
<1>29. ASSUME NEW w \in Workers, NEW k \in Keys, Defer(w, k) PROVE StepsApplied'
  BY <1>29, RequeuedRow DEF Defer, SetRow, Ready
<1>30. ASSUME NEW k \in Keys, Arrive(k) PROVE StepsApplied'
  BY <1>30 DEF Arrive
<1>31. ASSUME NEW k \in Keys, Index(k) PROVE StepsApplied'
  BY <1>31 DEF Index
<1>32. ASSUME NEW k \in Keys, Expire(k) PROVE StepsApplied'
  BY <1>32, LeasedRow DEF Expire, SetRow
<1>33. ASSUME NEW k \in Keys, Pause(k) PROVE StepsApplied'
  BY <1>33, LeasedRow DEF Pause, SetRow
<1>34. ASSUME NEW k \in Keys, BackoffElapses(k) PROVE StepsApplied'
  BY <1>34, DueRow DEF BackoffElapses, SetRow
<1>35. ASSUME NEW k \in Keys, Retire(k) PROVE StepsApplied'
  BY <1>35 DEF Retire, SetRow
<1>36. CASE ToggleConnection
  BY <1>36 DEF ToggleConnection, Toggled, Altered, ConnectionOf
<1>37. CASE PatchConnection
  BY <1>37 DEF PatchConnection, Repeated, Altered, ConnectionOf
<1>38. CASE UNCHANGED vars
  BY <1>38 DEF vars
<1> QED
  BY <1>1, <1>2, <1>3, <1>4, <1>5, <1>6, <1>7, <1>8, <1>9, <1>10, <1>11, <1>12,
     <1>13, <1>14, <1>15, <1>16, <1>17, <1>18, <1>19, <1>20, <1>21, <1>22, <1>23, <1>24,
     <1>26, <1>27, <1>28, <1>29, <1>30, <1>31, <1>32, <1>33, <1>34, <1>35, <1>36,
     <1>37, <1>38 DEF Next, Step, Request, TrackerOrTime

\* Every step keeps creates settled by what is known.
LEMMA SettleStep ==
    ASSUME PostInv, CreatesSettleKnown, [Next]_vars PROVE CreatesSettleKnown'
<1> USE MutationAssumption DEF MutationTypeOK, ExecHasRow, Live, Terminal, StepStatus,
             Owns, Execution, Operating, Idle, NoRow, rowVars, trackerVars, Keeps, Row, PostInv, PostedOnce, PosterAlone, OwnerKnows, TrackerFollows, RowsAndTombstones,
             CreatesSettleKnown
<1>1. ASSUME NEW w \in Workers, AnswerSettled(w) PROVE CreatesSettleKnown'
  BY <1>1 DEF AnswerSettled, Tell, Leave
<1>2. ASSUME NEW w \in Workers, Refuse(w) PROVE CreatesSettleKnown'
  BY <1>2 DEF Refuse, Leave
<1>3. ASSUME NEW w \in Workers, Claim(w) PROVE CreatesSettleKnown'
  BY <1>3, ClaimedRow DEF Claim, SetRow, Ready, FirstStep
<1>4. ASSUME NEW w \in Workers, Find(w) PROVE CreatesSettleKnown'
  BY <1>4 DEF Find, Look, Goto
<1>5. ASSUME NEW w \in Workers, Marker(w) PROVE CreatesSettleKnown'
  BY <1>5 DEF Marker, Look, Goto
<1>6. ASSUME NEW w \in Workers, Reject(w) PROVE CreatesSettleKnown'
  BY <1>6 DEF Reject, Goto
<1>7. ASSUME NEW w \in Workers, Fields(w) PROVE CreatesSettleKnown'
  BY <1>7 DEF Fields, Goto
<1>8. ASSUME NEW w \in Workers, StepFields(w) PROVE CreatesSettleKnown'
  BY <1>8 DEF StepFields, SetRow, Goto, Owns
<1>9. ASSUME NEW w \in Workers, StepComment(w) PROVE CreatesSettleKnown'
  <2>1. exec[w].key \notin Creates
    BY <1>9 DEF StepComment
  <2>2. \A k \in Creates : mutation'[k] = mutation[k]
    BY <1>9, <2>1 DEF StepComment, SetRow
  <2> QED
    BY <1>9, <2>1, <2>2 DEF StepComment, Goto
<1>10. ASSUME NEW w \in Workers, Mark(w) PROVE CreatesSettleKnown'
  BY <1>10, AttemptedRow DEF Mark, SetRow, Goto, Owns
<1>11. ASSUME NEW w \in Workers, Post(w) PROVE CreatesSettleKnown'
  BY <1>11 DEF Post, Goto
<1>12. ASSUME NEW w \in Workers, Answered(w) PROVE CreatesSettleKnown'
  BY <1>12 DEF Answered, Goto
<1>13. ASSUME NEW w \in Workers, ReadItem(w) PROVE CreatesSettleKnown'
  BY <1>13 DEF ReadItem, Goto
<1>14. ASSUME NEW w \in Workers, Complete(w) PROVE CreatesSettleKnown'
  BY <1>14, SettledRow DEF Complete, SetRow, Tell, Leave, Owns
<1>15. ASSUME NEW w \in Workers, CompleteAgain(w) PROVE CreatesSettleKnown'
  BY <1>15 DEF CompleteAgain, Tell, Leave
<1>16. ASSUME NEW w \in Workers, CompleteLost(w) PROVE CreatesSettleKnown'
  BY <1>16 DEF CompleteLost, Goto, Owns
<1>17. ASSUME NEW w \in Workers, Fail(w) PROVE CreatesSettleKnown'
  BY <1>17, SettledRow DEF Fail, SetRow, Tell, Leave, Owns
<1>18. ASSUME NEW w \in Workers, FailAgain(w) PROVE CreatesSettleKnown'
  BY <1>18 DEF FailAgain, Tell, Leave
<1>19. ASSUME NEW w \in Workers, FailLost(w) PROVE CreatesSettleKnown'
  BY <1>19 DEF FailLost, Leave, Owns
<1>20. ASSUME NEW w \in Workers, Release(w) PROVE CreatesSettleKnown'
  BY <1>20, RequeuedRow DEF Release, Leave, SetRow, Owns
<1>21. ASSUME NEW w \in Workers, Interrupt(w) PROVE CreatesSettleKnown'
  BY <1>21 DEF Interrupt, Goto, Owns
<1>22. ASSUME NEW w \in Workers, Crash(w) PROVE CreatesSettleKnown'
  BY <1>22 DEF Crash, Leave
<1>23. ASSUME NEW w \in Workers, Renew(w) PROVE CreatesSettleKnown'
  BY <1>23, LeasedRow DEF Renew, SetRow, Owns
<1>24. ASSUME NEW w \in Workers, NEW k \in Keys, ReserveNew(w, k) PROVE CreatesSettleKnown'
  BY <1>24, InsertedRow DEF ReserveNew, SetRow, Enter
<1>26. ASSUME NEW w \in Workers, NEW k \in Keys, ReplaySettled(w, k) PROVE CreatesSettleKnown'
  BY <1>26 DEF ReplaySettled, Tell
<1>27. ASSUME NEW w \in Workers, NEW k \in Keys, Continue(w, k) PROVE CreatesSettleKnown'
  BY <1>27 DEF Continue, Enter
<1>28. ASSUME NEW w \in Workers, NEW k \in Keys, Reconcile(w, k) PROVE CreatesSettleKnown'
  BY <1>28 DEF Reconcile, Enter, Ready
<1>29. ASSUME NEW w \in Workers, NEW k \in Keys, Defer(w, k) PROVE CreatesSettleKnown'
  BY <1>29, RequeuedRow DEF Defer, SetRow, Ready
<1>30. ASSUME NEW k \in Keys, Arrive(k) PROVE CreatesSettleKnown'
  BY <1>30 DEF Arrive
<1>31. ASSUME NEW k \in Keys, Index(k) PROVE CreatesSettleKnown'
  BY <1>31 DEF Index
<1>32. ASSUME NEW k \in Keys, Expire(k) PROVE CreatesSettleKnown'
  BY <1>32, LeasedRow DEF Expire, SetRow
<1>33. ASSUME NEW k \in Keys, Pause(k) PROVE CreatesSettleKnown'
  BY <1>33, LeasedRow DEF Pause, SetRow
<1>34. ASSUME NEW k \in Keys, BackoffElapses(k) PROVE CreatesSettleKnown'
  BY <1>34, DueRow DEF BackoffElapses, SetRow
<1>35. ASSUME NEW k \in Keys, Retire(k) PROVE CreatesSettleKnown'
  BY <1>35 DEF Retire, SetRow
<1>36. CASE ToggleConnection
  BY <1>36 DEF ToggleConnection, Toggled, Altered, ConnectionOf
<1>37. CASE PatchConnection
  BY <1>37 DEF PatchConnection, Repeated, Altered, ConnectionOf
<1>38. CASE UNCHANGED vars
  BY <1>38 DEF vars
<1> QED
  BY <1>1, <1>2, <1>3, <1>4, <1>5, <1>6, <1>7, <1>8, <1>9, <1>10, <1>11, <1>12,
     <1>13, <1>14, <1>15, <1>16, <1>17, <1>18, <1>19, <1>20, <1>21, <1>22, <1>23, <1>24,
     <1>26, <1>27, <1>28, <1>29, <1>30, <1>31, <1>32, <1>33, <1>34, <1>35, <1>36,
     <1>37, <1>38 DEF Next, Step, Request, TrackerOrTime

-----------------------------------------------------------------------------
\* The initial states.
LEMMA Initially ==
    Init => PostInv /\ ToldOutcomeIsFinal /\ ReservationHolds /\ StepsApplied /\ CreatesSettleKnown
<1> SUFFICES ASSUME Init
             PROVE  PostInv /\ ToldOutcomeIsFinal /\ ReservationHolds /\ StepsApplied /\ CreatesSettleKnown
  OBVIOUS
<1> USE MutationAssumption DEF Init, NoRow, Idle, Terminal, Live
<1>1. MutationTypeOK
  BY DEF MutationTypeOK, Row, StepStatus, Execution, ConnectionOf, NewConnection
<1>2. ExecHasRow /\ RowsAndTombstones /\ PostedOnce /\ PosterAlone /\ OwnerKnows /\ TrackerFollows
  BY DEF ExecHasRow, RowsAndTombstones, PostedOnce, PosterAlone, OwnerKnows, TrackerFollows, Owns
<1>3. ToldOutcomeIsFinal /\ ReservationHolds
  BY DEF ToldOutcomeIsFinal, ReservationHolds
<1>4. StepsApplied /\ CreatesSettleKnown
  BY DEF StepsApplied, CreatesSettleKnown, Owns
<1> QED
  BY <1>1, <1>2, <1>3, <1>4 DEF PostInv

\* The types, the fence and what they rest on hold throughout.
LEMMA PostInvariant == Spec => []PostInv
<1>1. Init => PostInv
  BY Initially
<1>2. PostInv /\ [Next]_vars => PostInv'
  <2> SUFFICES ASSUME PostInv, [Next]_vars PROVE PostInv'
    OBVIOUS
  <2>1. MutationTypeOK' /\ ExecHasRow'
    BY TypeStep, RowStep DEF PostInv
  <2>2. RowsAndTombstones' /\ PostedOnce' /\ PosterAlone' /\ OwnerKnows' /\ TrackerFollows'
    BY TombstoneStep, PostedStep, PosterStep, OwnerStep, TrackerStep
  <2> QED
    BY <2>1, <2>2 DEF PostInv
<1> QED
  BY <1>1, <1>2, PTL DEF Spec

\* Type correctness of the outbox, for any callers, reconcilers and keys.
THEOREM MutationTypeCorrect == Spec => []MutationTypeOK
<1>1. PostInv => MutationTypeOK
  BY DEF PostInv
<1> QED
  BY <1>1, PostInvariant, PTL

\* The durable attempt record lets at most one POST of a key through, whatever
\* leases are lost and whoever crashes.
THEOREM OnePostPerKey == Spec => []AtMostOnePost
<1>1. PostInv => AtMostOnePost
  BY DEF PostInv, PostedOnce, AtMostOnePost
<1> QED
  BY <1>1, PostInvariant, PTL

\* A caller is never told an outcome that another execution, a late one or the
\* retirement of the row turns into a different one.
THEOREM ToldIsFinal == Spec => []ToldOutcomeIsFinal
<1>1. Init => ToldOutcomeIsFinal
  BY Initially
<1>2. PostInv /\ ToldOutcomeIsFinal /\ [Next]_vars => ToldOutcomeIsFinal'
  BY ToldStep
<1> QED
  BY <1>1, <1>2, PostInvariant, PTL DEF Spec

\* Completed enrichments were applied in full.
THEOREM CompletedIsApplied == Spec => []CompletedMeansApplied
<1>1. Init => StepsApplied
  BY Initially
<1>2. PostInv /\ StepsApplied /\ [Next]_vars => StepsApplied'
  BY AppliedStep
<1>3. PostInv /\ StepsApplied => CompletedMeansApplied
  BY DEF PostInv, MutationTypeOK, Row, StepStatus, StepsApplied, CompletedMeansApplied
<1> QED
  BY <1>1, <1>2, <1>3, PostInvariant, PTL DEF Spec

\* Every write to the tracker is made under a kept row and with the configuration
\* that it reserved, whatever an administrator disables or PATCHes meanwhile.
THEOREM WritesAreReserved == Spec => WritesUnderReservation
<1>1. Init => ReservationHolds
  BY Initially
<1>2. PostInv /\ ReservationHolds /\ [Next]_vars => ReservationHolds'
  BY ReservationStep
<1>3. PostInv /\ ReservationHolds /\ [Next]_vars =>
         [\A w \in Workers : Writes(w) =>
            /\ mutation[exec[w].key].status # "absent"
            /\ Unaltered(connection, mutation[exec[w].key].version)]_vars
  BY DEF PostInv, ExecHasRow, ReservationHolds, Writes
<1> QED
  BY <1>1, <1>2, <1>3, PostInvariant, PTL DEF Spec, WritesUnderReservation

\* The contract sees of the outbox only the effect and the outcome of creates.
LEMMA Unseen ==
    ASSUME \A c \in Creates : Effect(c)' = Effect(c) /\ Outcome(c)' = Outcome(c)
    PROVE  UNCHANGED Contract!vars
  BY DEF Contract!vars

\* A step of the contract changes one effect or one outcome.
LEMMA SeenEffect ==
    ASSUME NEW k \in Creates, NEW e,
           \A c \in Creates : Effect(c)' = (IF c = k THEN e ELSE Effect(c)) /\ Outcome(c)' = Outcome(c)
    PROVE  /\ [c \in Creates |-> Effect(c)]' = [[c \in Creates |-> Effect(c)] EXCEPT ![k] = e]
           /\ UNCHANGED [c \in Creates |-> Outcome(c)]
  OBVIOUS

\* The same for an outcome.
LEMMA SeenOutcome ==
    ASSUME NEW k \in Creates, NEW o,
           \A c \in Creates : Outcome(c)' = (IF c = k THEN o ELSE Outcome(c)) /\ Effect(c)' = Effect(c)
    PROVE  /\ [c \in Creates |-> Outcome(c)]' = [[c \in Creates |-> Outcome(c)] EXCEPT ![k] = o]
           /\ UNCHANGED [c \in Creates |-> Effect(c)]
  OBVIOUS

\* The four steps of the contract, told by what changes in the view.
LEMMA ContractSend ==
    ASSUME NEW k \in Creates, Effect(k) = "none", Outcome(k) = "open",
           \A c \in Creates : Effect(c)' = (IF c = k THEN "sent" ELSE Effect(c)) /\ Outcome(c)' = Outcome(c)
    PROVE  Contract!Next
<1>1. Contract!Send(k)
  BY SeenEffect DEF Contract!Send
<1> QED
  BY <1>1 DEF Contract!Next

\* The tracker took the write.
LEMMA ContractArrive ==
    ASSUME NEW k \in Creates, NEW a \in {"created", "rejected"}, Effect(k) = "sent", Outcome(k) = "open",
           \A c \in Creates : Effect(c)' = (IF c = k THEN a ELSE Effect(c)) /\ Outcome(c)' = Outcome(c)
    PROVE  Contract!Next
<1>1. /\ [c \in Creates |-> Effect(c)]' = [[c \in Creates |-> Effect(c)] EXCEPT ![k] = a]
      /\ UNCHANGED [c \in Creates |-> Outcome(c)]
  BY SeenEffect
<1>2. Contract!Arrive(k)
  BY <1>1 DEF Contract!Arrive
<1> QED
  BY <1>2 DEF Contract!Next

\* The write that landed is completed.
LEMMA ContractComplete ==
    ASSUME NEW k \in Creates, Effect(k) = "created", Outcome(k) = "open",
           \A c \in Creates : Outcome(c)' = (IF c = k THEN "completed" ELSE Outcome(c)) /\ Effect(c)' = Effect(c)
    PROVE  Contract!Next
<1>1. Contract!Complete(k)
  BY SeenOutcome DEF Contract!Complete
<1> QED
  BY <1>1 DEF Contract!Next

\* The write that did not land is failed.
LEMMA ContractFail ==
    ASSUME NEW k \in Creates, Effect(k) \in {"none", "rejected"}, Outcome(k) = "open",
           \A c \in Creates : Outcome(c)' = (IF c = k THEN "failed" ELSE Outcome(c)) /\ Effect(c)' = Effect(c)
    PROVE  Contract!Next
<1>1. Contract!Fail(k)
  BY SeenOutcome DEF Contract!Fail
<1> QED
  BY <1>1 DEF Contract!Next

\* Every step of the outbox is a step of the contract or leaves its view alone.
LEMMA ContractStep ==
    ASSUME PostInv, CreatesSettleKnown, [Next]_vars PROVE [Contract!Next]_(Contract!vars)
<1> USE MutationAssumption DEF MutationTypeOK, ExecHasRow, Live, Terminal, StepStatus,
             Owns, Execution, Operating, Idle, NoRow, rowVars, trackerVars, Keeps, Row, PostInv, PostedOnce, PosterAlone, OwnerKnows, TrackerFollows, RowsAndTombstones,
             CreatesSettleKnown, Contract!vars, Effect, Outcome
<1>1. ASSUME NEW w \in Workers, AnswerSettled(w) PROVE [Contract!Next]_(Contract!vars)
  BY <1>1 DEF AnswerSettled, Tell, Leave
<1>2. ASSUME NEW w \in Workers, Refuse(w) PROVE [Contract!Next]_(Contract!vars)
  BY <1>2 DEF Refuse, Leave
<1>3. ASSUME NEW w \in Workers, Claim(w) PROVE [Contract!Next]_(Contract!vars)
  BY <1>3, ClaimedRow DEF Claim, SetRow, Ready, FirstStep
<1>4. ASSUME NEW w \in Workers, Find(w) PROVE [Contract!Next]_(Contract!vars)
  BY <1>4 DEF Find, Look, Goto
<1>5. ASSUME NEW w \in Workers, Marker(w) PROVE [Contract!Next]_(Contract!vars)
  BY <1>5 DEF Marker, Look, Goto
<1>6. ASSUME NEW w \in Workers, Reject(w) PROVE [Contract!Next]_(Contract!vars)
  BY <1>6 DEF Reject, Goto
<1>7. ASSUME NEW w \in Workers, Fields(w) PROVE [Contract!Next]_(Contract!vars)
  BY <1>7 DEF Fields, Goto
<1>8. ASSUME NEW w \in Workers, StepFields(w) PROVE [Contract!Next]_(Contract!vars)
  <2>1. \A c \in Creates : Effect(c)' = Effect(c) /\ Outcome(c)' = Outcome(c)
    BY <1>8 DEF StepFields, SetRow, Goto, Owns, Effect, Outcome
  <2> QED
    BY <2>1, Unseen
<1>9. ASSUME NEW w \in Workers, StepComment(w) PROVE [Contract!Next]_(Contract!vars)
  <2>1. \A c \in Creates : Effect(c)' = Effect(c) /\ Outcome(c)' = Outcome(c)
    BY <1>9 DEF StepComment, SetRow, Goto, Owns, Effect, Outcome
  <2> QED
    BY <2>1, Unseen
<1>10. ASSUME NEW w \in Workers, Mark(w) PROVE [Contract!Next]_(Contract!vars)
  <2>1. \A c \in Creates : Effect(c)' = Effect(c) /\ Outcome(c)' = Outcome(c)
    BY <1>10, AttemptedRow DEF Mark, SetRow, Goto, Owns, Effect, Outcome
  <2> QED
    BY <2>1, Unseen
<1>11. ASSUME NEW w \in Workers, Post(w) PROVE [Contract!Next]_(Contract!vars)
  <2> DEFINE k == exec[w].key
  <2>1. CASE k \notin Creates
    <3>1. \A c \in Creates : Effect(c)' = Effect(c) /\ Outcome(c)' = Outcome(c)
      BY <1>11, <2>1 DEF Post, Goto, Effect, Outcome
    <3> QED
      BY <3>1, Unseen
  <2>2. ASSUME k \in Creates PROVE Contract!Next
    <3>1. Effect(k) = "none" /\ Outcome(k) = "open"
      BY <1>11, <2>2 DEF Post, Goto, Effect, Outcome
    <3>2. \A c \in Creates : Effect(c)' = (IF c = k THEN "sent" ELSE Effect(c)) /\ Outcome(c)' = Outcome(c)
      BY <1>11, <2>2 DEF Post, Goto, Effect, Outcome
    <3> HIDE DEF k
    <3> QED
      BY <2>2, <3>1, <3>2, ContractSend
  <2> QED
    BY <2>1, <2>2
<1>12. ASSUME NEW w \in Workers, Answered(w) PROVE [Contract!Next]_(Contract!vars)
  BY <1>12 DEF Answered, Goto
<1>13. ASSUME NEW w \in Workers, ReadItem(w) PROVE [Contract!Next]_(Contract!vars)
  BY <1>13 DEF ReadItem, Goto
<1>14. ASSUME NEW w \in Workers, Complete(w) PROVE [Contract!Next]_(Contract!vars)
  <2> DEFINE k == exec[w].key
  <2>1. CASE k \notin Creates
    <3>1. \A c \in Creates : Effect(c)' = Effect(c) /\ Outcome(c)' = Outcome(c)
      BY <1>14, <2>1, SettledRow DEF Complete, SetRow, Tell, Leave, Owns, Effect, Outcome
    <3> QED
      BY <3>1, Unseen
  <2>2. ASSUME k \in Creates PROVE Contract!Next
    <3>1. Effect(k) = "created" /\ Outcome(k) = "open"
      BY <1>14, <2>2 DEF Complete, SetRow, Tell, Leave, Owns, Effect, Outcome
    <3>2. \A c \in Creates : Outcome(c)' = (IF c = k THEN "completed" ELSE Outcome(c)) /\ Effect(c)' = Effect(c)
      BY <1>14, <2>2, SettledRow DEF Complete, SetRow, Tell, Leave, Owns, Effect, Outcome
    <3> HIDE DEF k
    <3> QED
      BY <2>2, <3>1, <3>2, ContractComplete
  <2> QED
    BY <2>1, <2>2
<1>15. ASSUME NEW w \in Workers, CompleteAgain(w) PROVE [Contract!Next]_(Contract!vars)
  BY <1>15 DEF CompleteAgain, Tell, Leave
<1>16. ASSUME NEW w \in Workers, CompleteLost(w) PROVE [Contract!Next]_(Contract!vars)
  BY <1>16 DEF CompleteLost, Goto, Owns
<1>17. ASSUME NEW w \in Workers, Fail(w) PROVE [Contract!Next]_(Contract!vars)
  <2> DEFINE k == exec[w].key
  <2>1. CASE k \notin Creates
    <3>1. \A c \in Creates : Effect(c)' = Effect(c) /\ Outcome(c)' = Outcome(c)
      BY <1>17, <2>1, SettledRow DEF Fail, SetRow, Tell, Leave, Owns, Effect, Outcome
    <3> QED
      BY <3>1, Unseen
  <2>2. ASSUME k \in Creates PROVE Contract!Next
    <3>1. Effect(k) \in {"none", "rejected"} /\ Outcome(k) = "open"
      BY <1>17, <2>2 DEF Fail, SetRow, Tell, Leave, Owns, Effect, Outcome
    <3>2. \A c \in Creates : Outcome(c)' = (IF c = k THEN "failed" ELSE Outcome(c)) /\ Effect(c)' = Effect(c)
      BY <1>17, <2>2, SettledRow DEF Fail, SetRow, Tell, Leave, Owns, Effect, Outcome
    <3> HIDE DEF k
    <3> QED
      BY <2>2, <3>1, <3>2, ContractFail
  <2> QED
    BY <2>1, <2>2
<1>18. ASSUME NEW w \in Workers, FailAgain(w) PROVE [Contract!Next]_(Contract!vars)
  BY <1>18 DEF FailAgain, Tell, Leave
<1>19. ASSUME NEW w \in Workers, FailLost(w) PROVE [Contract!Next]_(Contract!vars)
  BY <1>19 DEF FailLost, Leave, Owns
<1>20. ASSUME NEW w \in Workers, Release(w) PROVE [Contract!Next]_(Contract!vars)
  <2>1. \A c \in Creates : Effect(c)' = Effect(c) /\ Outcome(c)' = Outcome(c)
    BY <1>20, RequeuedRow DEF Release, Leave, SetRow, Owns, Effect, Outcome
  <2> QED
    BY <2>1, Unseen
<1>21. ASSUME NEW w \in Workers, Interrupt(w) PROVE [Contract!Next]_(Contract!vars)
  BY <1>21 DEF Interrupt, Goto, Owns
<1>22. ASSUME NEW w \in Workers, Crash(w) PROVE [Contract!Next]_(Contract!vars)
  BY <1>22 DEF Crash, Leave
<1>23. ASSUME NEW w \in Workers, Renew(w) PROVE [Contract!Next]_(Contract!vars)
  <2>1. \A c \in Creates : Effect(c)' = Effect(c) /\ Outcome(c)' = Outcome(c)
    BY <1>23, LeasedRow DEF Renew, SetRow, Owns, Effect, Outcome
  <2> QED
    BY <2>1, Unseen
<1>24. ASSUME NEW w \in Workers, NEW k \in Keys, ReserveNew(w, k) PROVE [Contract!Next]_(Contract!vars)
  BY <1>24, InsertedRow DEF ReserveNew, SetRow, Enter
<1>26. ASSUME NEW w \in Workers, NEW k \in Keys, ReplaySettled(w, k) PROVE [Contract!Next]_(Contract!vars)
  BY <1>26 DEF ReplaySettled, Tell
<1>27. ASSUME NEW w \in Workers, NEW k \in Keys, Continue(w, k) PROVE [Contract!Next]_(Contract!vars)
  BY <1>27 DEF Continue, Enter
<1>28. ASSUME NEW w \in Workers, NEW k \in Keys, Reconcile(w, k) PROVE [Contract!Next]_(Contract!vars)
  BY <1>28 DEF Reconcile, Enter, Ready
<1>29. ASSUME NEW w \in Workers, NEW k \in Keys, Defer(w, k) PROVE [Contract!Next]_(Contract!vars)
  BY <1>29, RequeuedRow DEF Defer, SetRow, Ready
<1>30. ASSUME NEW k \in Keys, Arrive(k) PROVE [Contract!Next]_(Contract!vars)
  <2>1. CASE k \notin Creates
    <3>1. \A c \in Creates : Effect(c)' = Effect(c) /\ Outcome(c)' = Outcome(c)
      BY <1>30, <2>1 DEF Arrive, Effect, Outcome
    <3> QED
      BY <3>1, Unseen
  <2>2. ASSUME k \in Creates PROVE Contract!Next
    <3>1. Effect(k) = "sent" /\ Outcome(k) = "open"
      BY <1>30, <2>2 DEF Arrive, Effect, Outcome
    <3>2. PICK a \in {"created", "rejected"} : answer' = [answer EXCEPT ![k] = a]
      BY <1>30 DEF Arrive
    <3>3. \A c \in Creates : Effect(c)' = (IF c = k THEN a ELSE Effect(c)) /\ Outcome(c)' = Outcome(c)
      BY <1>30, <2>2, <3>2 DEF Arrive, Effect, Outcome
    <3> QED
      BY <2>2, <3>1, <3>3, ContractArrive
  <2> QED
    BY <2>1, <2>2
<1>31. ASSUME NEW k \in Keys, Index(k) PROVE [Contract!Next]_(Contract!vars)
  BY <1>31 DEF Index
<1>32. ASSUME NEW k \in Keys, Expire(k) PROVE [Contract!Next]_(Contract!vars)
  BY <1>32, LeasedRow DEF Expire, SetRow
<1>33. ASSUME NEW k \in Keys, Pause(k) PROVE [Contract!Next]_(Contract!vars)
  BY <1>33, LeasedRow DEF Pause, SetRow
<1>34. ASSUME NEW k \in Keys, BackoffElapses(k) PROVE [Contract!Next]_(Contract!vars)
  BY <1>34, DueRow DEF BackoffElapses, SetRow
<1>35. ASSUME NEW k \in Keys, Retire(k) PROVE [Contract!Next]_(Contract!vars)
  BY <1>35 DEF Retire, SetRow
<1>36. CASE ToggleConnection
  BY <1>36 DEF ToggleConnection, Toggled, Altered, ConnectionOf
<1>37. CASE PatchConnection
  BY <1>37 DEF PatchConnection, Repeated, Altered, ConnectionOf
<1>38. CASE UNCHANGED vars
  BY <1>38 DEF vars
<1> QED
  BY <1>1, <1>2, <1>3, <1>4, <1>5, <1>6, <1>7, <1>8, <1>9, <1>10, <1>11, <1>12,
     <1>13, <1>14, <1>15, <1>16, <1>17, <1>18, <1>19, <1>20, <1>21, <1>22, <1>23, <1>24,
     <1>26, <1>27, <1>28, <1>29, <1>30, <1>31, <1>32, <1>33, <1>34, <1>35, <1>36,
     <1>37, <1>38 DEF Next, Step, Request, TrackerOrTime

\* The outbox implements the contract: one write per create, settled once, and by
\* what became of the write.
THEOREM OutboxImplementsContract == Spec => ImplementsDispatchOnce
<1>1. Init => Contract!Init
  BY DEF Init, Contract!Init, Effect, Outcome, NoRow, Terminal
<1>2. Init => CreatesSettleKnown
  BY Initially
<1>3. PostInv /\ CreatesSettleKnown /\ [Next]_vars => CreatesSettleKnown'
  BY SettleStep
<1>4. PostInv /\ CreatesSettleKnown /\ [Next]_vars => [Contract!Next]_(Contract!vars)
  BY ContractStep
<1> QED
  BY <1>1, <1>2, <1>3, <1>4, PostInvariant, PTL DEF Spec, ImplementsDispatchOnce, Contract!Spec
=============================================================================
