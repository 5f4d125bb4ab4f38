--------------------- MODULE EngineRunProjectionProofs ---------------------
(***************************************************************************)
(* Machine-checked proofs about EngineRunProjection, for any set of        *)
(* callers and any bound on connection generations.                        *)
(***************************************************************************)
EXTENDS EngineRunProjection, TLAPS

USE DEF ActiveStatus, TerminalStatus, CompletionKind, Versions

-----------------------------------------------------------------------------
(* The row operators, for any set of generations.                          *)

\* What a caller may send.
WriteOf(V) ==
    [status : ActiveStatus \cup TerminalStatus, handle : BOOLEAN, pin : BOOLEAN,
     version : V, store : BOOLEAN, kind : CompletionKind]

\* The upsert returns a row of the table's type for every write of the type.
LEMMA UpsertType ==
    ASSUME NEW V, NEW r \in RowOf(V), NEW w \in WriteOf(V)
    PROVE  Upsert(r, w) \in RowOf(V)
  BY DEF RowOf, WriteOf, Upsert

\* A write built from columns of the right types has the type.
LEMMA WriteType ==
    ASSUME NEW V,
           NEW s \in ActiveStatus \cup TerminalStatus, NEW h \in BOOLEAN,
           NEW p \in BOOLEAN, NEW g \in V, NEW a \in BOOLEAN,
           NEW k \in CompletionKind
    PROVE  Write(s, h, p, g, a, k) \in WriteOf(V)
  BY DEF Write, WriteOf

-----------------------------------------------------------------------------
\* Every write the spine sends has the type.
LEMMA SpineWritesType ==
    ASSUME NEW v \in Versions, NEW w \in SpineWrites(v)
    PROVE  w \in WriteOf(Versions)
<1>1. 0 \in Versions
  BY ProjectionAssumption
<1>2. ASSUME NEW s \in ActiveStatus \cup TerminalStatus, NEW h \in BOOLEAN,
             NEW p \in BOOLEAN, NEW g \in Versions, NEW a \in BOOLEAN,
             NEW k \in CompletionKind
      PROVE  Write(s, h, p, g, a, k) \in WriteOf(Versions)
  BY WriteType
<1>3. CASE \E s \in TerminalStatus : w = Write(s, TRUE, TRUE, v, FALSE, "cleanup")
  BY <1>2, <1>3
<1>4. CASE \E s \in TerminalStatus : w = Write(s, TRUE, TRUE, v, TRUE, "collection")
  BY <1>2, <1>4
<1>5. CASE w \in { Write("ready",      TRUE,  FALSE, 0, FALSE, "none"),
                   Write("failed",     FALSE, FALSE, 0, FALSE, "none"),
                   Write("running",    TRUE,  TRUE,  v, FALSE, "none"),
                   Write("failed",     TRUE,  TRUE,  v, FALSE, "none"),
                   Write("collecting", TRUE,  TRUE,  v, TRUE,  "none") }
  BY <1>1, <1>2, <1>5
<1> QED
  BY <1>3, <1>4, <1>5 DEF SpineWrites

\* Type correctness of the projection.
THEOREM TypeCorrect == Spec => []TypeOK
<1>1. Init => TypeOK
  BY ProjectionAssumption DEF Init, TypeOK, NoRow, RowOf, ConnectionOf, NewConnection
<1>2. TypeOK /\ [Next]_vars => TypeOK'
  <2> SUFFICES ASSUME TypeOK, [Next]_vars PROVE TypeOK'
    OBVIOUS
  <2> USE ProjectionAssumption DEF TypeOK
  <2>1. ASSUME NEW c \in Callers, StageAffinity(c) PROVE TypeOK'
    BY <2>1 DEF StageAffinity, ConnectionOf
  <2>2. ASSUME NEW c \in Callers, PrepareProvision(c) PROVE TypeOK'
    BY <2>2 DEF PrepareProvision, InsertReservation, RowOf, NoRow
  <2>3. ASSUME NEW c \in Callers, Record(c) PROVE TypeOK'
    <3>1. PICK w \in SpineWrites(pinned[c]) :
             /\ row' = Upsert(row, w)
             /\ acked' = IF w.status \in TerminalStatus
                         THEN [acked EXCEPT ![c] = w.status] ELSE acked
      BY <2>3 DEF Record
    <3>2. w \in WriteOf(Versions)
      BY <3>1, SpineWritesType
    <3>3. row' \in RowOf(Versions)
      BY <3>1, <3>2, UpsertType
    <3> QED
      BY <2>3, <3>1, <3>3 DEF Record
  <2>4. ASSUME NEW c \in Callers, RecoverCompletion(c) PROVE TypeOK'
    <3>1. row.status \in TerminalStatus
      BY <2>4 DEF RecoverCompletion, CompletionDecision
    <3> QED
      BY <2>4, <3>1 DEF RecoverCompletion
  <2>5. ASSUME NEW c \in Callers, MarkAborted(c) PROVE TypeOK'
    BY <2>5 DEF MarkAborted, MarkTerminal, RowOf
  <2>6. CASE PatchConnection
    BY <2>6 DEF PatchConnection, Repeated, ConnectionOf
  <2>7. CASE EnableConnection
    BY <2>7 DEF EnableConnection, Toggled, Altered, ConnectionOf
  <2>8. CASE DisableConnection
    BY <2>8 DEF DisableConnection, Toggled, Altered, ConnectionOf
  <2>9. CASE UNCHANGED vars
    BY <2>9 DEF vars
  <2> QED
    BY <2>1, <2>2, <2>3, <2>4, <2>5, <2>6, <2>7, <2>8, <2>9 DEF Next
<1> QED
  BY <1>1, <1>2, PTL DEF Spec

-----------------------------------------------------------------------------
\* What one accepted write does, whatever the row: a terminal row is kept, a
\* terminal write leaves its status behind, and a live row that stays live keeps
\* its rank, its lease and its store, and its generation unless the write pins.
LEMMA UpsertEffect ==
    ASSUME NEW r \in RowOf(Versions), NEW w \in WriteOf(Versions), TransitionAllowed(r, w)
    PROVE  /\ r.status \in TerminalStatus => Upsert(r, w) = r
           /\ w.status \in TerminalStatus => Upsert(r, w).status = w.status
           /\ r.status \in ActiveStatus /\ Upsert(r, w).status \in ActiveStatus
              => /\ Order[Upsert(r, w).status] >= Order[r.status]
                 /\ r.lease => Upsert(r, w).lease
                 /\ r.store => Upsert(r, w).store
                 /\ \/ Upsert(r, w).version = r.version
                    \/ w.pin /\ Upsert(r, w).version = w.version
<1>1. r.status \in TerminalStatus => Upsert(r, w) = r
  BY DEF RowOf, WriteOf, TransitionAllowed, Superseded, Upsert
<1>2. w.status \in TerminalStatus => Upsert(r, w).status = w.status
  BY DEF RowOf, WriteOf, TransitionAllowed, Superseded, Upsert
<1>3. ASSUME r.status \in ActiveStatus, Upsert(r, w).status \in ActiveStatus
      PROVE  /\ Order[Upsert(r, w).status] >= Order[r.status]
             /\ r.lease => Upsert(r, w).lease
             /\ r.store => Upsert(r, w).store
             /\ \/ Upsert(r, w).version = r.version
                \/ w.pin /\ Upsert(r, w).version = w.version
  <2>1. CASE Superseded(r, w)
    BY <1>3, <2>1 DEF Upsert, Order
  <2>2. CASE ~Superseded(r, w)
    <3>1. w.status \in ActiveStatus
      BY <1>3, <2>2 DEF Upsert, WriteOf
    <3> QED
      BY <1>3, <2>2, <3>1 DEF RowOf, WriteOf, TransitionAllowed, Superseded, Upsert, Order
  <2> QED
    BY <2>1, <2>2
<1> QED
  BY <1>1, <1>2, <1>3

\* A Record step is one such write, and the row existed before it.
LEMMA RecordWrite ==
    ASSUME TypeOK, NEW c \in Callers, Record(c)
    PROVE  \E w \in WriteOf(Versions) :
              /\ w.pin => AcceptsGeneration(conn, w.version)
              /\ TransitionAllowed(row, w)
              /\ row' = Upsert(row, w)
              /\ acked' = IF w.status \in TerminalStatus
                          THEN [acked EXCEPT ![c] = w.status] ELSE acked
<1>1. pinned[c] \in Versions
  BY DEF TypeOK
<1> QED
  BY <1>1, SpineWritesType DEF Record

\* No transaction changes a terminal row.
LEMMA TerminalStep ==
    ASSUME TypeOK, [Next]_vars, row.status \in TerminalStatus
    PROVE  row' = row
<1>1. ASSUME NEW c \in Callers, PrepareProvision(c) PROVE row' = row
  BY <1>1 DEF PrepareProvision, InsertReservation
<1>2. ASSUME NEW c \in Callers, Record(c) PROVE row' = row
  BY <1>2, RecordWrite, UpsertEffect DEF TypeOK
<1>3. ASSUME NEW c \in Callers, MarkAborted(c) PROVE row' = row
  BY <1>3 DEF MarkAborted
<1> QED
  BY <1>1, <1>2, <1>3
  DEF Next, vars, StageAffinity, RecoverCompletion, PatchConnection,
      EnableConnection, DisableConnection

\* The first terminal writer owns the row for ever.
THEOREM TerminalImmutable == Spec => TerminalRowImmutable
<1>1. TypeOK /\ [Next]_vars => [row.status \in TerminalStatus => row' = row]_vars
  BY TerminalStep
<1> QED
  BY <1>1, TypeCorrect, PTL DEF Spec, TerminalRowImmutable

-----------------------------------------------------------------------------
\* An outcome once acknowledged, to anyone, is the row's outcome for ever.
THEOREM AckedFinal == Spec => []AckedOutcomeIsFinal
<1>1. Init => AckedOutcomeIsFinal
  BY DEF Init, AckedOutcomeIsFinal
<1>2. TypeOK /\ AckedOutcomeIsFinal /\ [Next]_vars => AckedOutcomeIsFinal'
  <2> SUFFICES ASSUME TypeOK, AckedOutcomeIsFinal, [Next]_vars,
                      NEW d \in Callers, acked'[d] # "none"
               PROVE  row'.status = acked'[d]
    BY DEF AckedOutcomeIsFinal
  <2>1. CASE acked'[d] = acked[d]
    BY <2>1, TerminalStep DEF TypeOK, AckedOutcomeIsFinal
  <2>2. CASE acked'[d] # acked[d]
    <3>1. ASSUME NEW c \in Callers, Record(c) PROVE row'.status = acked'[d]
      BY <2>2, <3>1, RecordWrite, UpsertEffect DEF TypeOK
    <3>2. ASSUME NEW c \in Callers, RecoverCompletion(c) PROVE row'.status = acked'[d]
      BY <2>2, <3>2 DEF TypeOK, RecoverCompletion
    <3>3. ASSUME NEW c \in Callers, MarkAborted(c) PROVE row'.status = acked'[d]
      BY <2>2, <3>3 DEF TypeOK, RowOf, MarkAborted, MarkTerminal
    <3> QED
      BY <2>2, <3>1, <3>2, <3>3
      DEF Next, vars, StageAffinity, PrepareProvision, PatchConnection,
          EnableConnection, DisableConnection
  <2> QED
    BY <2>1, <2>2
<1> QED
  BY <1>1, <1>2, TypeCorrect, PTL DEF Spec

-----------------------------------------------------------------------------
\* A live row always holds its connection, and finds it enabled and with the values
\* it was reserved on: neither the guarded disable, nor any PATCH, nor a stale
\* worker's write separates the two.
THEOREM LeaseFence == Spec => []LeaseFencesConnection
<1>1. Init => LeaseFencesConnection
  BY DEF Init, NoRow, LeaseFencesConnection
<1>2. TypeOK /\ LeaseFencesConnection /\ [Next]_vars => LeaseFencesConnection'
  <2> SUFFICES ASSUME TypeOK, LeaseFencesConnection, [Next]_vars,
                      row'.status \in ActiveStatus
               PROVE  HoldsLease(row') /\ Unaltered(conn', row'.version)
    BY DEF LeaseFencesConnection, HoldsLease, Unaltered
  <2> DEFINE Goal == HoldsLease(row') /\ Unaltered(conn', row'.version)
  <2>0. /\ conn.version \in Nat /\ conn.since \in Nat /\ conn.since <= conn.version
        /\ row.version \in Nat
    BY DEF TypeOK, ConnectionOf, RowOf, Versions
  <2>1. ASSUME NEW c \in Callers, PrepareProvision(c) PROVE Goal
    <3>1. CASE row.status = "absent"
      BY <2>0, <2>1, <3>1 DEF PrepareProvision, InsertReservation, NoRow, HoldsLease,
                              AcceptsGeneration, Unaltered
    <3>2. CASE row.status # "absent"
      BY <2>1, <3>2 DEF PrepareProvision, InsertReservation, LeaseFencesConnection, HoldsLease
    <3> QED
      BY <3>1, <3>2
  <2>2. ASSUME NEW c \in Callers, Record(c) PROVE Goal
    <3>1. PICK w \in WriteOf(Versions) :
             /\ w.pin => AcceptsGeneration(conn, w.version)
             /\ TransitionAllowed(row, w)
             /\ row' = Upsert(row, w)
      BY <2>2, RecordWrite
    <3>2. row.status \in ActiveStatus
      BY <2>2, TerminalStep DEF Record, TypeOK, RowOf
    <3>3. HoldsLease(row) /\ Unaltered(conn, row.version)
      BY <3>2 DEF LeaseFencesConnection
    <3>4. /\ row'.lease
          /\ row'.version = row.version \/ (w.pin /\ row'.version = w.version)
      BY <3>1, <3>2, <3>3, UpsertEffect DEF TypeOK, HoldsLease
    <3> QED
      BY <2>0, <2>2, <3>1, <3>3, <3>4 DEF Record, HoldsLease, AcceptsGeneration, Unaltered
  <2>3. ASSUME NEW c \in Callers, MarkAborted(c) PROVE Goal
    BY <2>3 DEF MarkAborted, MarkTerminal, TypeOK, RowOf
  <2>4. CASE PatchConnection
    BY <2>0, <2>4 DEF PatchConnection, Repeated, LeaseFencesConnection, HoldsLease,
                      Unaltered, TypeOK, ConnectionOf
  <2>5. CASE EnableConnection
    BY <2>5 DEF EnableConnection, LeaseFencesConnection, Unaltered
  <2>6. CASE DisableConnection
    BY <2>6 DEF DisableConnection, LeaseFencesConnection
  <2>7. CASE \/ UNCHANGED vars
             \/ \E c \in Callers : StageAffinity(c) \/ RecoverCompletion(c)
    BY <2>7 DEF vars, StageAffinity, RecoverCompletion, LeaseFencesConnection,
                HoldsLease, Unaltered
  <2> QED
    BY <2>1, <2>2, <2>3, <2>4, <2>5, <2>6, <2>7 DEF Next
<1> QED
  BY <1>1, <1>2, TypeCorrect, PTL DEF Spec

\* Nor does a stale worker ever move a live row back, or to a generation at which the
\* connection had other values.
THEOREM NeverRegresses == Spec => LifecycleNeverRegresses
<1> DEFINE Forward ==
      row.status \in ActiveStatus /\ row'.status \in ActiveStatus
      => /\ Order[row'.status] >= Order[row.status]
         /\ row.store => row'.store
         /\ row'.lease
         /\ row.version <= row'.version /\ Unaltered(conn, row'.version)
<1>1. TypeOK /\ LeaseFencesConnection /\ LeaseFencesConnection' /\ [Next]_vars
      => [Forward]_vars
  <2> SUFFICES ASSUME TypeOK, LeaseFencesConnection, LeaseFencesConnection', Next,
                      row.status \in ActiveStatus, row'.status \in ActiveStatus
               PROVE  /\ Order[row'.status] >= Order[row.status]
                      /\ row.store => row'.store
                      /\ row'.lease
                      /\ row.version <= row'.version /\ Unaltered(conn, row'.version)
    OBVIOUS
  <2>0. /\ row.lease /\ row'.lease
        /\ Unaltered(conn, row.version)
        /\ conn.version \in Nat /\ conn.since \in Nat /\ row.version \in Nat
    BY DEF LeaseFencesConnection, HoldsLease, TypeOK, ConnectionOf, RowOf, Versions
  <2>1. Order[row.status] \in Nat
    BY DEF Order
  <2>2. ASSUME NEW c \in Callers, PrepareProvision(c) PROVE row' = row
    BY <2>2 DEF PrepareProvision, InsertReservation
  <2>3. ASSUME NEW c \in Callers, Record(c)
        PROVE  /\ Order[row'.status] >= Order[row.status]
               /\ row.store => row'.store
               /\ row'.version = row.version \/ row'.version = conn.version
    <3>1. PICK w \in WriteOf(Versions) :
             /\ w.pin => AcceptsGeneration(conn, w.version)
             /\ TransitionAllowed(row, w)
             /\ row' = Upsert(row, w)
      BY <2>3, RecordWrite
    <3>2. row \in RowOf(Versions)
      BY DEF TypeOK
    <3>3. Upsert(row, w).status \in ActiveStatus
      BY <3>1
    <3>4. /\ Order[Upsert(row, w).status] >= Order[row.status]
          /\ row.store => Upsert(row, w).store
          /\ \/ Upsert(row, w).version = row.version
             \/ w.pin /\ Upsert(row, w).version = w.version
      BY <3>1, <3>2, <3>3, UpsertEffect
    <3> QED
      BY <3>1, <3>4, Zenon DEF AcceptsGeneration
  <2>4. ASSUME NEW c \in Callers, MarkAborted(c) PROVE FALSE
    BY <2>4 DEF MarkAborted, MarkTerminal, TypeOK, RowOf
  <2>5. CASE row' = row
    BY <2>0, <2>1, <2>5 DEF Unaltered
  <2>6. CASE \E c \in Callers : Record(c)
    BY <2>0, <2>3, <2>6 DEF Unaltered
  <2> QED
    BY <2>2, <2>4, <2>5, <2>6
    DEF Next, StageAffinity, RecoverCompletion, PatchConnection,
        EnableConnection, DisableConnection
<1> QED
  BY <1>1, TypeCorrect, LeaseFence, PTL DEF Spec, LifecycleNeverRegresses
=============================================================================
