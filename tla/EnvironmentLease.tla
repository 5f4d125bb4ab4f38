-------------------------- MODULE EnvironmentLease --------------------------
(***************************************************************************)
(* What a cycle dispatch promises about the environment it reserves: load  *)
(* is started at most once, only while the environment is owned, and the   *)
(* ownership is given up only when no load runs and none will -- unless it *)
(* is forfeited, which withdraws the promise.                              *)
(***************************************************************************)
VARIABLES owned,   \* "no" before the reservation, "yes", "given_up", "forfeited"
          load     \* "unused", "live", "over"

leaseVars == <<owned, load>>

LeaseInit == owned = "no" /\ load = "unused"

\* The launch intent is inserted with the environment it owns.
Own == owned = "no" /\ owned' = "yes" /\ UNCHANGED load

\* Load starts once, under the ownership or what was forfeited of it.
Begin ==
    /\ owned \in {"yes", "forfeited"}
    /\ load = "unused" /\ load' = "live" /\ UNCHANGED owned

\* A run is over: it ended, was killed, or was killed before it ever started.
Finish == load \in {"unused", "live"} /\ load' = "over" /\ UNCHANGED owned

\* Another cycle may use the environment from here on.
GiveUp == owned = "yes" /\ load # "live" /\ owned' = "given_up" /\ UNCHANGED load

\* The ownership is taken away over a load that runs or may yet be started.
Forfeit == owned = "yes" /\ owned' = "forfeited" /\ UNCHANGED load

LeaseNext == Own \/ Begin \/ Finish \/ GiveUp \/ Forfeit

LeaseSpec == LeaseInit /\ [][LeaseNext]_leaseVars
=============================================================================
