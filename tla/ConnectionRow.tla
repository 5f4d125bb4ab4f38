---------------------------- MODULE ConnectionRow ----------------------------
(***************************************************************************)
(* The row of one connection, of an execution engine or a work tracker:    *)
(* its enabled flag, its runtime generation (runtime_version), and its     *)
(* configuration, by the generation since which flag and values have been  *)
(* what they are.  Every adapter is resolved for one generation; a         *)
(* reservation made on another one is rejected.                            *)
(***************************************************************************)
EXTENDS Naturals

ConnectionOf(Versions) ==
    {c \in [enabled : BOOLEAN, version : Versions, since : Versions] : c.since <= c.version}

NewConnection == [enabled |-> TRUE, version |-> 1, since |-> 1]

\* Database reservations and adapter resolution accept a pinned generation only
\* while the row is enabled and still at that generation.
AcceptsGeneration(conn, version) == conn.enabled /\ conn.version = version

\* The row is enabled and has the values it had at a generation: if it is at a later
\* one, then by PATCHes that repeated values.
Unaltered(conn, version) ==
    conn.enabled /\ conn.since <= version /\ version <= conn.version

\* ConnectionsRepository.update of a PATCH that carries a runtime field with the
\* value it has: nothing changes, and yet the generation advances.  (A PATCH that
\* carries none leaves all of this alone.)
Repeated(conn) == [conn EXCEPT !.version = @ + 1]

\* ConnectionsRepository.update of a PATCH that changes a runtime field, and
\* set_enabled: availability is part of the generation.
Altered(conn, enabled) ==
    [enabled |-> enabled, version |-> conn.version + 1, since |-> conn.version + 1]

Toggled(conn) == Altered(conn, ~conn.enabled)
=============================================================================
