--------------------------- MODULE StreamAdmission ---------------------------
(***************************************************************************)
(* The shared limit on long-lived responses.  A request takes a lease in   *)
(* Redis before its response starts, a task renews it while the response   *)
(* runs, and a clean-up gives it back.  Requests are cancelled at any time *)
(* by clients that disconnect; a command that was sent may be executed,    *)
(* answered, lost, or executed after its sender stopped waiting for it.    *)
(*                                                                         *)
(* The lease of a request has an id of its own, and all scripts write its  *)
(* keys together, so a request names its lease.                            *)
(***************************************************************************)
EXTENDS Naturals, FiniteSets

CONSTANTS
    Streams,    \* requests for a long-lived response, on any replica
    Keys,       \* the global key, sources, credentials
    KeysOf,     \* the keys a request counts against
    Limit,      \* of each key
    MaxFaults   \* bound on crashes, stalls, lost answers and losses of the store

ASSUME AdmissionAssumption ==
    /\ KeysOf \in [Streams -> SUBSET Keys]
    /\ Limit \in [Keys -> Nat \ {0}] /\ MaxFaults \in Nat

VARIABLES
    store,   \* leases in Redis that have not expired
    wire,    \* commands sent and not executed
    at,      \* where the middleware is with a request
    reply,   \* to the command it waits for
    outage,  \* requests whose process died, whose release failed, or whose
             \* acquisition was abandoned before it was executed
    faults

vars == <<store, wire, at, reply, outage, faults>>

Places == {"new", "acquiring", "settling", "compensating", "serving", "renewing",
           "stopping", "releasing", "over"}

AdmissionTypeOK ==
    /\ store \subseteq Streams /\ outage \subseteq Streams
    /\ wire \subseteq {"acquire", "renew", "release"} \X Streams
    /\ at \in [Streams -> Places]
    /\ reply \in [Streams -> {"none", "yes", "no", "error"}]
    /\ faults \in 0 .. MaxFaults

AdmissionInit ==
    /\ store = {} /\ wire = {} /\ outage = {} /\ faults = 0
    /\ at = [s \in Streams |-> "new"] /\ reply = [s \in Streams |-> "none"]

Calm == UNCHANGED faults
Fault == faults < MaxFaults /\ faults' = faults + 1

Goes(s, place) == at' = [at EXCEPT ![s] = place] /\ reply' = [reply EXCEPT ![s] = "none"]
Sends(kind, s) == wire' = wire \cup {<<kind, s>>}

\* The command whose answer is waited for.
Awaits(s, kind) ==
    /\ reply[s] = "none"
    /\ \/ kind = "acquire" /\ at[s] \in {"acquiring", "settling"}
       \/ kind = "renew" /\ at[s] = "renewing"
       \/ kind = "release" /\ at[s] \in {"compensating", "releasing"}

-----------------------------------------------------------------------------
(* Redis: every script is atomic.                                          *)

\* The result of a command goes to who waits for it, or is lost on the way.
Answers(s, kind, result) ==
    /\ wire' = wire \ {<<kind, s>>}
    /\ IF Awaits(s, kind)
       THEN \/ reply' = [reply EXCEPT ![s] = result] /\ Calm
            \/ reply' = [reply EXCEPT ![s] = "error"] /\ Fault
       ELSE UNCHANGED reply /\ Calm
    /\ UNCHANGED <<at, outage>>

\* _STREAM_ACQUIRE_SCRIPT: none of its keys is full.
Admits(s) == \A k \in KeysOf[s] : Cardinality({t \in store : k \in KeysOf[t]}) < Limit[k]

RunAcquire(s) ==
    /\ <<"acquire", s>> \in wire
    /\ store' = IF Admits(s) THEN store \cup {s} ELSE store
    /\ Answers(s, "acquire", IF Admits(s) THEN "yes" ELSE "no")

\* Variant: a renewal writes its lease without looking for it.
RunBlindRenew(s) ==
    /\ <<"renew", s>> \in wire
    /\ store' = store \cup {s}
    /\ Answers(s, "renew", "yes")

\* _STREAM_RENEW_SCRIPT never brings a lease back.
RunRenew(s) ==
    /\ <<"renew", s>> \in wire /\ UNCHANGED store
    /\ Answers(s, "renew", IF s \in store THEN "yes" ELSE "no")

RunRelease(s) ==
    /\ <<"release", s>> \in wire
    /\ store' = store \ {s}
    /\ Answers(s, "release", "yes")

\* A lease that is no longer renewed expires.
Expire(s) ==
    /\ s \in store /\ at[s] \notin {"acquiring", "serving", "renewing"}
    /\ store' = store \ {s}
    /\ UNCHANGED <<wire, at, reply, outage, faults>>

\* A lease that should be renewed expires: its process stalls.  Redis restarts empty.
Lapse ==
    /\ \E lost \in {{s} : s \in store} \cup {store} : lost # {} /\ store' = store \ lost
    /\ Fault
    /\ UNCHANGED <<wire, at, reply, outage>>

\* The connection breaks or its timeout passes: the command is executed late or never.
BreakConnection(s, kind) ==
    /\ <<kind, s>> \in wire /\ Awaits(s, kind) /\ Fault
    /\ reply' = [reply EXCEPT ![s] = "error"]
    /\ \E late \in BOOLEAN :
         /\ wire' = IF late THEN wire ELSE wire \ {<<kind, s>>}
         /\ outage' = IF kind = "release" \/ (kind = "acquire" /\ late)
                      THEN outage \cup {s} ELSE outage
    /\ UNCHANGED <<store, at>>

-----------------------------------------------------------------------------
(* A request.                                                              *)

\* Admission is tried once the body is complete and the request authenticated.
Acquire(s) ==
    /\ at[s] = "new"
    /\ Goes(s, "acquiring") /\ Sends("acquire", s)
    /\ UNCHANGED <<store, outage, faults>>

\* Variant: a cancelled request does not wait for the command it has sent.
CancelUnshielded(s) ==
    /\ at[s] = "acquiring"
    /\ Goes(s, "compensating") /\ Sends("release", s)
    /\ UNCHANGED <<store, outage, faults>>

\* The request is cancelled: the command goes on, and its answer is waited for.
\* Cancelling again while it is waited for, or while a lease is released, is
\* remembered and changes nothing here.
Cancel(s) ==
    /\ at[s] = "acquiring"
    /\ at' = [at EXCEPT ![s] = "settling"]
    /\ UNCHANGED <<store, wire, reply, outage, faults>>

\* Granted: the response starts, with a task that renews the lease.
Admit(s) ==
    /\ at[s] = "acquiring" /\ reply[s] = "yes"
    /\ Goes(s, "serving")
    /\ UNCHANGED <<store, wire, outage, faults>>

\* Denied: 429.
Reject(s) ==
    /\ at[s] = "acquiring" /\ reply[s] = "no"
    /\ Goes(s, "over")
    /\ UNCHANGED <<store, wire, outage, faults>>

\* compensate_ambiguous_acquire, whatever the answer to a cancelled request was, and
\* without an answer.
Compensate(s) ==
    /\ \/ at[s] = "settling" /\ reply[s] # "none"
       \/ at[s] = "acquiring" /\ reply[s] = "error"
    /\ Goes(s, "compensating") /\ Sends("release", s)
    /\ UNCHANGED <<store, outage, faults>>

Renew(s) ==
    /\ at[s] = "serving"
    /\ Goes(s, "renewing") /\ Sends("renew", s)
    /\ UNCHANGED <<store, outage, faults>>

\* Variant: a renewal that finds no lease is tried again.
KeepsServing(s) ==
    /\ at[s] = "renewing" /\ reply[s] # "none"
    /\ Goes(s, IF reply[s] = "error" THEN "stopping" ELSE "serving")
    /\ UNCHANGED <<store, wire, outage, faults>>

\* A renewal that found no lease, or got no answer, cancels the response.
Renewed(s) ==
    /\ at[s] = "renewing" /\ reply[s] # "none"
    /\ Goes(s, IF reply[s] = "yes" THEN "serving" ELSE "stopping")
    /\ UNCHANGED <<store, wire, outage, faults>>

\* The response is complete or its client has gone: the clean-up stops the renewal,
\* whose command may be on its way, and then releases the lease.
EndResponse(s) ==
    /\ at[s] \in {"serving", "renewing"}
    /\ Goes(s, "releasing") /\ Sends("release", s)
    /\ UNCHANGED <<store, outage, faults>>

\* The cancelled response ends, and is cleaned up.
StopResponse(s) ==
    /\ at[s] = "stopping"
    /\ Goes(s, "releasing") /\ Sends("release", s)
    /\ UNCHANGED <<store, outage, faults>>

\* The release is tried once.
Released(s) ==
    /\ at[s] \in {"compensating", "releasing"} /\ reply[s] # "none"
    /\ Goes(s, "over")
    /\ UNCHANGED <<store, wire, outage, faults>>

\* The replica of the request dies.
Crash(s) ==
    /\ at[s] \notin {"new", "over"} /\ Fault
    /\ Goes(s, "over") /\ outage' = outage \cup {s}
    /\ UNCHANGED <<store, wire>>

-----------------------------------------------------------------------------

\* What goes on by itself once a request is made; a response ends when it likes.
Proceeds(s) ==
    \/ Admit(s) \/ Reject(s) \/ Compensate(s) \/ Renew(s) \/ Renewed(s)
    \/ StopResponse(s) \/ Released(s)

RunCommand(s) == RunAcquire(s) \/ RunRenew(s) \/ RunRelease(s)

AdmissionNext ==
    \/ \E s \in Streams :
         \/ Acquire(s) \/ Cancel(s) \/ Proceeds(s) \/ EndResponse(s) \/ Crash(s)
         \/ RunCommand(s) \/ Expire(s)
         \/ \E kind \in {"acquire", "renew", "release"} : BreakConnection(s, kind)
    \/ Lapse

AdmissionSpec == AdmissionInit /\ [][AdmissionNext]_vars

\* Redis answers or a timeout passes; the tasks of a request run; a cancelled response
\* ends; time passes.
Fairness ==
    \A s \in Streams :
        WF_vars(Proceeds(s)) /\ WF_vars(RunCommand(s)) /\ WF_vars(Expire(s))

FairAdmissionSpec == AdmissionSpec /\ Fairness

-----------------------------------------------------------------------------
(* Properties.                                                             *)

Running(s) == at[s] \in {"serving", "renewing", "stopping"}

\* However leases lapse and renewals cross releases and admissions of others, the
\* leases of a key are never more than its limit; and a response that runs without
\* a lease is the work of a fault.
SlotsWithinLimit ==
    /\ \A k \in Keys : Cardinality({s \in store : k \in KeysOf[s]}) <= Limit[k]
    /\ faults = 0 => \A s \in Streams : Running(s) => s \in store

\* "Establish command ordering ... before exact-id compensation" (acquire_stream): a
\* request that is over, cancelled at whatever moment or left without an answer,
\* holds no lease, except by an outage: its process died, its release failed, or its
\* acquisition was executed after the connection had been given up.
OnlyOutagesLeakSlots ==
    \A s \in Streams : at[s] = "over" /\ s \in store => s \in outage

\* A response whose lease was lost does not go on without one, and "a crashed pod
\* cannot leak capacity indefinitely" (settings.py).
LeasesAndResponsesAgree ==
    \A s \in Streams :
        /\ Running(s) /\ s \notin store ~> ~Running(s)
        /\ at[s] = "over" ~> s \notin store
=============================================================================
