------------------------- MODULE ExecutionContract -------------------------
(***************************************************************************)
(* What the execution phase promises of one thread, without nodes, workers,*)
(* checkpoints or failures: attempts are worked on one after another; an   *)
(* attempt runs load at most once, only while it reserves the execution    *)
(* connection; the reservation is kept until the load is over; and an      *)
(* attempt is finished only without load and without a reservation, as a   *)
(* success only if its results were kept.                                  *)
(***************************************************************************)
EXTENDS Naturals

CONSTANT Attempt          \* the attempts, numbered from 1

VARIABLES current,        \* the attempt being worked on
          verdict,        \* of the current attempt: "open", "success", "other"
          held,           \* held[a]: does a reserve the connection?
          load,           \* load[a]: "unused", "live" or "over"
          kept            \* kept[a]: are a's results stored and indexed?

contractVars == <<current, verdict, held, load, kept>>

ContractInit ==
    /\ current = 1 /\ verdict = "open"
    /\ held = [a \in Attempt |-> FALSE]
    /\ load = [a \in Attempt |-> "unused"]
    /\ kept = [a \in Attempt |-> FALSE]

Open(a) == a = current /\ verdict = "open"

Hold(a) ==
    /\ Open(a) /\ load[a] = "unused"
    /\ held' = [held EXCEPT ![a] = TRUE]
    /\ UNCHANGED <<current, verdict, load, kept>>

Begin(a) ==
    /\ Open(a) /\ held[a] /\ load[a] = "unused"
    /\ load' = [load EXCEPT ![a] = "live"]
    /\ UNCHANGED <<current, verdict, held, kept>>

\* Load ends, or a run that was never started is discarded.
Over(a) ==
    /\ load[a] # "over"
    /\ load' = [load EXCEPT ![a] = "over"]
    /\ UNCHANGED <<current, verdict, held, kept>>

Keep(a) ==
    /\ Open(a) /\ held[a] /\ load[a] = "over"
    /\ kept' = [kept EXCEPT ![a] = TRUE]
    /\ UNCHANGED <<current, verdict, held, load>>

Release(a) ==
    /\ Open(a) /\ load[a] # "live"
    /\ held' = [held EXCEPT ![a] = FALSE]
    /\ UNCHANGED <<current, verdict, load, kept>>

Finish ==
    /\ verdict = "open" /\ ~held[current] /\ load[current] # "live"
    /\ verdict' \in {"other"} \cup (IF kept[current] THEN {"success"} ELSE {})
    /\ UNCHANGED <<current, held, load, kept>>

Again ==
    /\ verdict # "open" /\ current + 1 \in Attempt
    /\ current' = current + 1 /\ verdict' = "open"
    /\ UNCHANGED <<held, load, kept>>

ContractNext ==
    \/ \E a \in Attempt : Hold(a) \/ Begin(a) \/ Over(a) \/ Keep(a) \/ Release(a)
    \/ Finish \/ Again

ContractSpec == ContractInit /\ [][ContractNext]_contractVars

-----------------------------------------------------------------------------
ContractTypeOK ==
    /\ current \in Attempt
    /\ verdict \in {"open", "success", "other"}
    /\ held \in [Attempt -> BOOLEAN]
    /\ load \in [Attempt -> {"unused", "live", "over"}]
    /\ kept \in [Attempt -> BOOLEAN]

\* Live load always has an owner: the attempt being worked on, which still
\* reserves the connection that can stop the load.
LiveLoadIsOwned == \A a \in Attempt : load[a] = "live" => Open(a) /\ held[a]

\* A thread never runs two loads at a time.
OneLoadAtATime == \A a, b \in Attempt : load[a] = "live" /\ load[b] = "live" => a = b

\* What is reported as a success has its results, and nothing left behind: no
\* live load and no reservation of any attempt.
SuccessIsClean ==
    verdict = "success" =>
        /\ kept[current]
        /\ \A a \in Attempt : load[a] # "live" /\ ~held[a]

\* Load that ended never comes back, under the same attempt or by a replay.
LoadRunsAtMostOnce ==
    [][\A a \in Attempt : load[a] = "over" => load'[a] = "over"]_contractVars
=============================================================================
