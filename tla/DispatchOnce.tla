---------------------------- MODULE DispatchOnce ----------------------------
(***************************************************************************)
(* What the outbox promises for a write that is not idempotent: it is sent *)
(* at most once in the whole life of its key, it is settled at most once,  *)
(* "completed" is said only of a write that landed and "failed" only of    *)
(* one that did not and never will.                                        *)
(***************************************************************************)
CONSTANT Keys

VARIABLES
    effect,   \* none, sent, created or rejected
    outcome   \* open, completed or failed

vars == <<effect, outcome>>

Init ==
    /\ effect = [k \in Keys |-> "none"]
    /\ outcome = [k \in Keys |-> "open"]

Send(k) ==
    /\ outcome[k] = "open" /\ effect[k] = "none"
    /\ effect' = [effect EXCEPT ![k] = "sent"]
    /\ UNCHANGED outcome

Arrive(k) ==
    /\ outcome[k] = "open" /\ effect[k] = "sent"
    /\ \E a \in {"created", "rejected"} : effect' = [effect EXCEPT ![k] = a]
    /\ UNCHANGED outcome

Complete(k) ==
    /\ outcome[k] = "open" /\ effect[k] = "created"
    /\ outcome' = [outcome EXCEPT ![k] = "completed"]
    /\ UNCHANGED effect

Fail(k) ==
    /\ outcome[k] = "open" /\ effect[k] \in {"none", "rejected"}
    /\ outcome' = [outcome EXCEPT ![k] = "failed"]
    /\ UNCHANGED effect

Next == \E k \in Keys : Send(k) \/ Arrive(k) \/ Complete(k) \/ Fail(k)

Spec == Init /\ [][Next]_vars
=============================================================================
