------------------------ MODULE EngineRunProjection ------------------------
(***************************************************************************)
(* The durable engine-run projection as the rest of the system uses it:    *)
(* one (thread, attempt) row, the execution connection it pins, and any    *)
(* number of callers (graph workers that crash and re-execute, workers     *)
(* whose run was cancelled, the abort facade) that call the functions of   *)
(* services/engine_runs.py in every order.  One action is one committed    *)
(* database transaction.                                                   *)
(***************************************************************************)
EXTENDS EngineRunRow, ConnectionRow

CONSTANTS Callers,           \* processes that call the projection
          MaxVersion         \* bound on connection generations

ASSUME ProjectionAssumption == MaxVersion \in Nat \ {0}

VARIABLES row,      \* the projection row
          conn,     \* the execution connection's row
          pinned,   \* pinned[c]: the generation c staged; 0 before it did
          acked     \* acked[c]: the terminal status c was told is durable

vars == <<row, conn, pinned, acked>>

Versions == 0 .. MaxVersion

TypeOK ==
    /\ row \in RowOf(Versions)
    /\ conn \in ConnectionOf(Versions \ {0})
    /\ pinned \in [Callers -> Versions]
    /\ acked \in [Callers -> {"none"} \cup TerminalStatus]

Init ==
    /\ row = NoRow
    /\ conn = NewConnection
    /\ pinned = [c \in Callers |-> 0]
    /\ acked = [c \in Callers |-> "none"]

\* The writes the execution spine sends, for a caller pinned to generation v:
\* READY and a definitive FAILED do not name the connection, the others do.
SpineWrites(v) ==
    { Write("ready",      TRUE,  FALSE, 0, FALSE, "none"),
      Write("failed",     FALSE, FALSE, 0, FALSE, "none"),
      Write("running",    TRUE,  TRUE,  v, FALSE, "none"),
      Write("failed",     TRUE,  TRUE,  v, FALSE, "none"),
      Write("collecting", TRUE,  TRUE,  v, TRUE,  "none") }
    \cup { Write(s, TRUE, TRUE, v, FALSE, "cleanup")   : s \in TerminalStatus }
    \cup { Write(s, TRUE, TRUE, v, TRUE, "collection") : s \in TerminalStatus }

\* The affinity superstep of engine_provision: resolve the connection, keep its
\* generation.  It touches no row.
StageAffinity(c) ==
    /\ pinned[c] = 0
    /\ conn.enabled
    /\ pinned' = [pinned EXCEPT ![c] = conn.version]
    /\ UNCHANGED <<row, conn, acked>>

\* prepare_engine_provision: under the connection lock, insert if absent and
\* decide.  Only a caller that is not rejected commits the insert.
PrepareProvision(c) ==
    /\ pinned[c] # 0
    /\ AcceptsGeneration(conn, pinned[c])
    /\ LET reserved == InsertReservation(row, pinned[c])
       IN  /\ ProvisionDecision(reserved, pinned[c]) # "reject"
           /\ row' = reserved
    /\ UNCHANGED <<conn, pinned, acked>>

\* record_engine_run(required=True) by a caller past its reservation.  A write
\* the WHERE clause refuses changes no row and is not acknowledged.
Record(c) ==
    /\ pinned[c] # 0 /\ row.status # "absent"
    /\ \E w \in SpineWrites(pinned[c]) :
         /\ w.pin => AcceptsGeneration(conn, w.version)
         /\ TransitionAllowed(row, w)
         /\ row' = Upsert(row, w)
         /\ acked' = IF w.status \in TerminalStatus
                     THEN [acked EXCEPT ![c] = w.status] ELSE acked
    /\ UNCHANGED <<conn, pinned>>

\* recover_engine_completion answering a lost acknowledgement with the status
\* its witness proves, without asking the connection anything.
RecoverCompletion(c) ==
    /\ pinned[c] # 0
    /\ \E kind \in {"cleanup", "collection"}, expected \in SUBSET TerminalStatus :
         /\ CompletionDecision(row, pinned[c], kind = "collection", kind, expected)
              = "recover"
         /\ acked' = [acked EXCEPT ![c] = row.status]
    /\ UNCHANGED <<row, conn, pinned>>

\* mark_aborted: the abort facade's compare-and-set, which names no generation.
MarkAborted(c) ==
    /\ row.status \in ActiveStatus
    /\ row' = MarkTerminal(row, "aborted")
    /\ acked' = [acked EXCEPT ![c] = "aborted"]
    /\ UNCHANGED <<conn, pinned>>

\* PATCH of the connection that carries a runtime field, under any row: the value
\* must be the stored one (_protect_runtime_identity), the generation advances.
PatchConnection ==
    /\ conn.version < MaxVersion
    /\ conn' = Repeated(conn)
    /\ UNCHANGED <<row, pinned, acked>>

\* POST enable; POST disable, which durable_reference_reason refuses while a
\* nonterminal row references the connection.
EnableConnection ==
    /\ ~conn.enabled /\ conn.version < MaxVersion
    /\ conn' = Toggled(conn)
    /\ UNCHANGED <<row, pinned, acked>>

\* Variant first: disable without the durable reference check.
UncheckedDisableConnection ==
    /\ conn.enabled /\ conn.version < MaxVersion
    /\ conn' = Toggled(conn)
    /\ UNCHANGED <<row, pinned, acked>>

DisableConnection ==
    /\ conn.enabled /\ conn.version < MaxVersion
    /\ ~HoldsLease(row)
    /\ conn' = Toggled(conn)
    /\ UNCHANGED <<row, pinned, acked>>

Next ==
    \/ \E c \in Callers :
         \/ StageAffinity(c)
         \/ PrepareProvision(c)
         \/ Record(c)
         \/ RecoverCompletion(c)
         \/ MarkAborted(c)
    \/ PatchConnection
    \/ EnableConnection
    \/ DisableConnection

Spec == Init /\ [][Next]_vars

-----------------------------------------------------------------------------
\* While a nonterminal row exists it references its connection, and no
\* administrator disables that connection or changes its values: only PATCHes that
\* repeat values separate its generation from the one the row was reserved on
\* (durable_reference_reason against the reservation's row lock).  Such a PATCH is
\* accepted and does strand the run, whose pinned generation is then refused.
LeaseFencesConnection ==
    row.status \in ActiveStatus => HoldsLease(row) /\ Unaltered(conn, row.version)

\* Whoever was told an outcome is durable can rely on it: two callers are never
\* told different outcomes, and a later writer never replaces the one told.
AckedOutcomeIsFinal ==
    \A c \in Callers : acked[c] # "none" => row.status = acked[c]

\* The first terminal writer owns the whole row: handle, generation, store and
\* witness are never replaced, whoever replays or arrives late.
TerminalRowImmutable ==
    [][row.status \in TerminalStatus => row' = row]_vars

\* A stale worker never moves a live row back, nor unpins its artifact store or its
\* connection, nor pins it to an older generation or to one of other values.
LifecycleNeverRegresses ==
    [][ /\ row.status \in ActiveStatus
        /\ row'.status \in ActiveStatus
        => /\ Order[row'.status] >= Order[row.status]
           /\ row.store => row'.store
           /\ row'.lease
           /\ row.version <= row'.version /\ Unaltered(conn, row'.version) ]_vars
=============================================================================
