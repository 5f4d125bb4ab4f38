----------------------- MODULE StreamAdmissionProofs -----------------------
(***************************************************************************)
(* The shared limit on long-lived responses, for any requests, keys, limits*)
(* and any number of faults: the slots of a key never exceed its limit, and*)
(* only an outage leaves a lease behind.                                   *)
(***************************************************************************)
EXTENDS StreamAdmission, FiniteSetTheorems, TLAPS

-----------------------------------------------------------------------------
(* The inductive invariant.                                                *)

\* The leases that count against a key.
Counted(k) == {s \in store : k \in KeysOf[s]}

WithinLimit == \A k \in Keys : Cardinality(Counted(k)) <= Limit[k]

\* A request that no outage hit: its acquisition is on the wire only while it waits
\* for the answer, and finds no lease; its release is on the wire until it was
\* answered, and then the lease is gone; once it is over it holds none.
Orderly(s) ==
    /\ at[s] \in {"new", "over"} => s \notin store
    /\ <<"acquire", s>> \in wire =>
         at[s] \in {"acquiring", "settling"} /\ reply[s] = "none" /\ s \notin store
    /\ at[s] = "acquiring" /\ reply[s] = "no" => s \notin store
    /\ at[s] \in {"compensating", "releasing"} =>
         IF reply[s] = "none" THEN <<"release", s>> \in wire ELSE s \notin store
    /\ <<"release", s>> \in wire =>
         at[s] \in {"compensating", "releasing"} /\ reply[s] = "none"

\* Before the first fault a response holds its lease, from the answer that granted it
\* to its release.
Leased(s) ==
    /\ at[s] = "acquiring" /\ reply[s] = "yes" => s \in store
    /\ at[s] \in {"serving", "renewing"} => s \in store
    /\ at[s] # "stopping" /\ reply[s] # "error"
    /\ at[s] = "renewing" => reply[s] # "no"

AdmissionInv ==
    /\ AdmissionTypeOK
    /\ IsFiniteSet(store) /\ WithinLimit
    /\ \A s \in Streams \ outage : Orderly(s)
    /\ faults = 0 => outage = {} /\ \A s \in Streams : Leased(s)

-----------------------------------------------------------------------------
(* The leases of a key.                                                    *)

\* Leases that go away leave the others within the limits.
LEMMA FewerLeases ==
    ASSUME AdmissionInv, store' \subseteq store PROVE IsFiniteSet(store') /\ WithinLimit'
<1>1. IsFiniteSet(store')
  BY FS_Subset DEF AdmissionInv
<1>2. ASSUME NEW k \in Keys PROVE Cardinality(Counted(k)') <= Limit[k]
  <2> DEFINE S == Counted(k)
             T == Counted(k)'
  <2>1. T \in SUBSET S /\ S \in SUBSET store
    BY DEF Counted
  <2>2. IsFiniteSet(S) /\ IsFiniteSet(T)
    BY <2>1, FS_Subset DEF AdmissionInv
  <2>3. Cardinality(T) <= Cardinality(S) /\ Cardinality(S) \in Nat /\ Cardinality(T) \in Nat
    BY <2>1, <2>2, FS_Subset, FS_CardinalityType
  <2>4. Cardinality(S) <= Limit[k] /\ Limit[k] \in Nat
    BY AdmissionAssumption DEF AdmissionInv, WithinLimit
  <2> HIDE DEF S, T
  <2>5. Cardinality(T) <= Limit[k]
    BY <2>3, <2>4
  <2> QED
    BY <2>5 DEF T
<1> QED
  BY <1>1, <1>2 DEF WithinLimit

\* A lease is added where none of its keys is full.
LEMMA AdmittedLease ==
    ASSUME AdmissionInv, NEW s \in Streams, Admits(s), store' = store \cup {s}
    PROVE  IsFiniteSet(store') /\ WithinLimit'
<1>1. IsFiniteSet(store')
  BY FS_AddElement DEF AdmissionInv
<1>2. ASSUME NEW k \in Keys PROVE Cardinality(Counted(k)') <= Limit[k]
  <2> DEFINE S == Counted(k)
             T == Counted(k)'
  <2>1. S \in SUBSET store /\ T = (IF k \in KeysOf[s] THEN S \cup {s} ELSE S)
    BY DEF Counted
  <2>2. IsFiniteSet(S)
    BY <2>1, FS_Subset DEF AdmissionInv
  <2>3. Cardinality(S) \in Nat /\ Cardinality(S) <= Limit[k] /\ Limit[k] \in Nat
    BY <2>2, FS_CardinalityType, AdmissionAssumption DEF AdmissionInv, WithinLimit
  <2>4. CASE k \in KeysOf[s]
    <3>1. Cardinality(S) < Limit[k]
      BY <2>4 DEF Admits, Counted
    <3>2. Cardinality(S \cup {s}) <= Cardinality(S) + 1
      BY <2>2, <2>3, FS_AddElement
    <3>3. Cardinality(S \cup {s}) \in Nat
      BY <2>2, FS_AddElement, FS_CardinalityType
    <3>4. T = S \cup {s}
      BY <2>1, <2>4
    <3> HIDE DEF S, T
    <3>5. Cardinality(T) <= Limit[k]
      BY <2>3, <3>1, <3>2, <3>3, <3>4
    <3> QED
      BY <3>5 DEF T
  <2>5. CASE k \notin KeysOf[s]
    <3>1. T = S
      BY <2>1, <2>5
    <3> QED
      BY <2>3, <3>1
  <2> QED
    BY <2>4, <2>5
<1> QED
  BY <1>1, <1>2 DEF WithinLimit

-----------------------------------------------------------------------------
(* A step is of one request, and leaves the others alone.                  *)

OnlyOf(s) ==
    \A t \in Streams \ {s} :
        /\ at'[t] = at[t] /\ reply'[t] = reply[t]
        /\ t \in store' <=> t \in store
        /\ t \in outage' <=> t \in outage
        /\ \A kind : <<kind, t>> \in wire' <=> <<kind, t>> \in wire

\* What the step has to keep for its own request.
LEMMA StepOfOne ==
    ASSUME AdmissionInv, NEW s \in Streams, AdmissionTypeOK', OnlyOf(s),
           IsFiniteSet(store') /\ WithinLimit',
           s \notin outage' => Orderly(s)',
           faults' = 0 => faults = 0 /\ s \notin outage' /\ Leased(s)'
    PROVE  AdmissionInv'
<1>1. ASSUME NEW t \in Streams \ outage' PROVE Orderly(t)'
  <2>1. CASE t = s
    BY <1>1, <2>1
  <2>2. CASE t # s
    <3>1. Orderly(t)
      BY <2>2 DEF OnlyOf, AdmissionInv
    <3> QED
      BY <2>2, <3>1 DEF OnlyOf, Orderly
  <2> QED
    BY <2>1, <2>2
<1>2. ASSUME faults' = 0 PROVE outage' = {} /\ \A t \in Streams : Leased(t)'
  <2>1. outage = {} /\ \A t \in Streams : Leased(t)
    BY <1>2 DEF AdmissionInv
  <2>2. outage' = {}
    BY <1>2, <2>1 DEF OnlyOf, AdmissionTypeOK
  <2>3. ASSUME NEW t \in Streams \ {s} PROVE Leased(t)'
    BY <2>1 DEF OnlyOf, Leased
  <2> QED
    BY <1>2, <2>2, <2>3
<1> QED
  BY <1>1, <1>2 DEF AdmissionInv

\* What is known of a request before its step.
LEMMA RequestFacts ==
    ASSUME AdmissionInv, NEW s \in Streams
    PROVE  /\ AdmissionTypeOK /\ at[s] \in Places
           /\ reply[s] \in {"none", "yes", "no", "error"} /\ faults \in Nat
           /\ s \notin outage => Orderly(s)
           /\ faults = 0 => s \notin outage /\ Leased(s)
  BY AdmissionAssumption DEF AdmissionInv, AdmissionTypeOK

\* A place and an answer are set for the request of the step only.
LEMMA GoesTo ==
    ASSUME AdmissionTypeOK, NEW s \in Streams, NEW place \in Places, Goes(s, place)
    PROVE  /\ at' \in [Streams -> Places] /\ at'[s] = place
           /\ reply' \in [Streams -> {"none", "yes", "no", "error"}] /\ reply'[s] = "none"
           /\ \A t \in Streams \ {s} : at'[t] = at[t] /\ reply'[t] = reply[t]
  BY DEF AdmissionTypeOK, Goes

\* A command is added to the wire.
LEMMA SendsTo ==
    ASSUME AdmissionTypeOK, NEW s \in Streams, NEW kind \in {"acquire", "renew", "release"},
           Sends(kind, s)
    PROVE  /\ wire' \subseteq {"acquire", "renew", "release"} \X Streams
           /\ \A k : <<k, s>> \in wire' <=> k = kind \/ <<k, s>> \in wire
           /\ \A t \in Streams \ {s} : \A k : <<k, t>> \in wire' <=> <<k, t>> \in wire
  BY DEF AdmissionTypeOK, Sends

-----------------------------------------------------------------------------
(* The request.                                                            *)

\* The steps of a request that send a command: an acquisition when there is no lease,
\* a renewal, or a release.
LEMMA SendingKeeps ==
    ASSUME AdmissionInv, NEW s \in Streams,
           Acquire(s) \/ Compensate(s) \/ Renew(s) \/ EndResponse(s) \/ StopResponse(s)
    PROVE  AdmissionInv'
<1>0. UNCHANGED <<store, outage, faults>>
  BY DEF Acquire, Compensate, Renew, EndResponse, StopResponse
<1>1. IsFiniteSet(store') /\ WithinLimit'
  BY <1>0, FewerLeases
<1>2. ASSUME NEW place \in Places, NEW kind \in {"acquire", "renew", "release"},
             Goes(s, place), Sends(kind, s),
             s \notin outage => Orderly(s)', faults = 0 => Leased(s)'
      PROVE  AdmissionInv'
  <2>1. AdmissionTypeOK' /\ OnlyOf(s)
    BY <1>0, <1>2, RequestFacts, GoesTo, SendsTo DEF AdmissionTypeOK, OnlyOf
  <2> QED
    BY <1>0, <1>1, <1>2, <2>1, RequestFacts, StepOfOne
<1> USE RequestFacts, GoesTo, SendsTo, <1>0 DEF Orderly, Leased
<1>3. CASE Acquire(s)
  <2> Goes(s, "acquiring") /\ Sends("acquire", s) /\ at[s] = "new" /\ "acquiring" \in Places
    BY <1>3 DEF Acquire, Places
  <2>1. s \notin outage => Orderly(s)'
    OBVIOUS
  <2>2. faults = 0 => Leased(s)'
    OBVIOUS
  <2> QED
    BY <1>2, <2>1, <2>2
<1>4. CASE Renew(s)
  <2> Goes(s, "renewing") /\ Sends("renew", s) /\ at[s] = "serving" /\ "renewing" \in Places
    BY <1>4 DEF Renew, Places
  <2>1. s \notin outage => Orderly(s)'
    OBVIOUS
  <2>2. faults = 0 => Leased(s)'
    OBVIOUS
  <2> QED
    BY <1>2, <2>1, <2>2
<1>5. CASE Compensate(s) \/ EndResponse(s) \/ StopResponse(s)
  <2> PICK place \in {"compensating", "releasing"} : Goes(s, place) /\ Sends("release", s)
    BY <1>5 DEF Compensate, EndResponse, StopResponse
  <2>1. at[s] \in {"serving", "renewing", "stopping"} \/ reply[s] # "none"
    BY <1>5 DEF Compensate, EndResponse, StopResponse
  <2>2. place \in Places
    BY DEF Places
  <2>3. s \notin outage => Orderly(s)'
    BY <2>1, <2>2
  <2>4. faults = 0 => Leased(s)'
    BY <2>2
  <2> QED
    BY <1>2, <2>2, <2>3, <2>4
<1> QED
  BY <1>3, <1>4, <1>5

\* The steps of a request that only take an answer.
LEMMA AnsweredKeeps ==
    ASSUME AdmissionInv, NEW s \in Streams,
           Admit(s) \/ Reject(s) \/ Renewed(s) \/ Released(s)
    PROVE  AdmissionInv'
<1>0. UNCHANGED <<store, wire, outage, faults>>
  BY DEF Admit, Reject, Renewed, Released
<1>1. IsFiniteSet(store') /\ WithinLimit'
  BY <1>0, FewerLeases
<1>2. ASSUME NEW place \in Places, Goes(s, place),
             s \notin outage => Orderly(s)', faults = 0 => Leased(s)'
      PROVE  AdmissionInv'
  <2>1. AdmissionTypeOK' /\ OnlyOf(s)
    BY <1>0, <1>2, RequestFacts, GoesTo DEF AdmissionTypeOK, OnlyOf
  <2> QED
    BY <1>0, <1>1, <1>2, <2>1, RequestFacts, StepOfOne
<1>3. PICK place \in Places :
        /\ Goes(s, place)
        /\ \/ at[s] = "acquiring" /\ reply[s] = "yes" /\ place = "serving"
           \/ at[s] = "acquiring" /\ reply[s] = "no" /\ place = "over"
           \/ at[s] = "renewing" /\ reply[s] = "yes" /\ place = "serving"
           \/ at[s] = "renewing" /\ reply[s] \in {"no", "error"} /\ place = "stopping"
           \/ at[s] \in {"compensating", "releasing"} /\ reply[s] # "none" /\ place = "over"
  BY RequestFacts DEF Admit, Reject, Renewed, Released, Places
<1>4. s \notin outage => Orderly(s)'
  BY <1>0, <1>3, RequestFacts, GoesTo DEF Orderly
<1>5. faults = 0 => Leased(s)'
  BY <1>0, <1>3, RequestFacts, GoesTo DEF Leased
<1> QED
  BY <1>2, <1>3, <1>4, <1>5

\* Cancelling waits for the answer.
LEMMA CancelKeeps ==
    ASSUME AdmissionInv, NEW s \in Streams, Cancel(s) PROVE AdmissionInv'
<1>0. /\ UNCHANGED <<store, wire, reply, outage, faults>> /\ at[s] = "acquiring"
      /\ at' = [at EXCEPT ![s] = "settling"]
  BY DEF Cancel
<1>1. IsFiniteSet(store') /\ WithinLimit'
  BY <1>0, FewerLeases
<1>2. AdmissionTypeOK' /\ OnlyOf(s) /\ at'[s] = "settling"
  BY <1>0, RequestFacts DEF AdmissionTypeOK, OnlyOf, Places
<1>3. s \notin outage => Orderly(s)'
  BY <1>0, <1>2, RequestFacts DEF Orderly
<1>4. faults = 0 => Leased(s)'
  BY <1>0, <1>2, RequestFacts DEF Leased
<1> QED
  BY <1>0, <1>1, <1>2, <1>3, <1>4, RequestFacts, StepOfOne

\* A fault leaves nothing to show but that the request of the step is orderly or was
\* hit by an outage.
LEMMA FaultOfOne ==
    ASSUME AdmissionInv, NEW s \in Streams, AdmissionTypeOK', OnlyOf(s), Fault,
           store' \subseteq store, s \notin outage' => Orderly(s)'
    PROVE  AdmissionInv'
<1>1. faults' # 0
  BY RequestFacts DEF Fault
<1> QED
  BY <1>1, FewerLeases, StepOfOne

\* The replica of the request dies.
LEMMA CrashKeeps ==
    ASSUME AdmissionInv, NEW s \in Streams, Crash(s) PROVE AdmissionInv'
<1>0. Goes(s, "over") /\ outage' = outage \cup {s} /\ UNCHANGED <<store, wire>> /\ Fault
  BY DEF Crash
<1>1. AdmissionTypeOK' /\ OnlyOf(s)
  BY <1>0, RequestFacts, GoesTo, AdmissionAssumption DEF AdmissionTypeOK, OnlyOf, Places, Fault
<1> QED
  BY <1>0, <1>1, FaultOfOne

-----------------------------------------------------------------------------
(* Redis.                                                                  *)

\* The answer to an executed command reaches who waits for it, or is lost by a fault.
LEMMA AnswersOne ==
    ASSUME AdmissionInv, NEW s \in Streams, NEW kind \in {"acquire", "renew", "release"},
           NEW result \in {"yes", "no"}, Answers(s, kind, result)
    PROVE  /\ wire' = wire \ {<<kind, s>>} /\ UNCHANGED <<at, outage>>
           /\ reply' \in [Streams -> {"none", "yes", "no", "error"}]
           /\ \A t \in Streams \ {s} : reply'[t] = reply[t]
           /\ faults' \in 0 .. MaxFaults
           /\ \/ Awaits(s, kind) /\ reply'[s] = result /\ faults' = faults
              \/ Awaits(s, kind) /\ reply'[s] = "error" /\ faults' # 0
              \/ ~Awaits(s, kind) /\ reply'[s] = reply[s] /\ faults' = faults
<1>1. wire' = wire \ {<<kind, s>>} /\ UNCHANGED <<at, outage>>
  BY DEF Answers
<1>2. AdmissionTypeOK /\ MaxFaults \in Nat
  BY AdmissionAssumption DEF AdmissionInv
<1>3. CASE ~Awaits(s, kind)
  BY <1>1, <1>2, <1>3 DEF Answers, Calm, AdmissionTypeOK
<1>4. CASE Awaits(s, kind) /\ reply' = [reply EXCEPT ![s] = result] /\ Calm
  BY <1>1, <1>2, <1>4 DEF Calm, AdmissionTypeOK
<1>5. CASE Awaits(s, kind) /\ reply' = [reply EXCEPT ![s] = "error"] /\ Fault
  BY <1>1, <1>2, <1>5 DEF Fault, AdmissionTypeOK
<1> QED
  BY <1>3, <1>4, <1>5 DEF Answers

\* A command of one request was executed: what is left to show.
LEMMA ExecutedKeeps ==
    ASSUME AdmissionInv, NEW s \in Streams, NEW kind \in {"acquire", "renew", "release"},
           NEW result \in {"yes", "no"}, Answers(s, kind, result),
           store' \subseteq Streams, \A t \in Streams \ {s} : t \in store' <=> t \in store,
           IsFiniteSet(store') /\ WithinLimit',
           s \notin outage => Orderly(s)', faults' = 0 => Leased(s)'
    PROVE  AdmissionInv'
<1>1. AdmissionTypeOK' /\ OnlyOf(s)
  <2>1. AdmissionTypeOK'
    BY AnswersOne, RequestFacts DEF AdmissionTypeOK
  <2>2. \A t \in Streams \ {s} : \A k : <<k, t>> \in wire' <=> <<k, t>> \in wire
    BY AnswersOne
  <2> QED
    BY <2>1, <2>2, AnswersOne DEF OnlyOf
<1>2. faults' = 0 => faults = 0
  BY AnswersOne
<1> QED
  BY <1>1, <1>2, AnswersOne, RequestFacts, StepOfOne

\* An acquisition that is executed is waited for, or an outage hit its request.
LEMMA RunAcquireKeeps ==
    ASSUME AdmissionInv, NEW s \in Streams, RunAcquire(s) PROVE AdmissionInv'
<1> DEFINE result == IF Admits(s) THEN "yes" ELSE "no"
<1>1. /\ <<"acquire", s>> \in wire /\ Answers(s, "acquire", result)
      /\ store' = IF Admits(s) THEN store \cup {s} ELSE store
  BY DEF RunAcquire
<1>2. IsFiniteSet(store') /\ WithinLimit'
  BY <1>1, FewerLeases, AdmittedLease
<1>3. result \in {"yes", "no"} /\ (result = "yes" <=> Admits(s))
  OBVIOUS
<1> HIDE DEF result
<1>4. store' \subseteq Streams /\ \A t \in Streams \ {s} : t \in store' <=> t \in store
  BY <1>1, RequestFacts DEF AdmissionTypeOK
<1>5. ASSUME s \notin outage
      PROVE  /\ at[s] \in {"acquiring", "settling"} /\ reply[s] = "none" /\ s \notin store
             /\ <<"release", s>> \notin wire /\ Awaits(s, "acquire")
  BY <1>1, <1>5, RequestFacts DEF Orderly, Awaits
<1>6. <<"acquire", s>> \notin wire' /\ at' = at /\ (<<"release", s>> \in wire' => <<"release", s>> \in wire)
  BY <1>1, <1>3, AnswersOne
<1>7. s \notin outage => Orderly(s)'
  BY <1>1, <1>3, <1>5, <1>6, AnswersOne DEF Orderly
<1>8. faults' = 0 => Leased(s)'
  BY <1>1, <1>3, <1>5, <1>6, AnswersOne, RequestFacts DEF Leased
<1> QED
  BY <1>1, <1>2, <1>3, <1>4, <1>7, <1>8, ExecutedKeeps

\* A renewal changes no lease; before the first fault it finds the one it renews.
LEMMA RunRenewKeeps ==
    ASSUME AdmissionInv, NEW s \in Streams, RunRenew(s) PROVE AdmissionInv'
<1> DEFINE result == IF s \in store THEN "yes" ELSE "no"
<1>1. store' = store /\ Answers(s, "renew", result)
  BY DEF RunRenew
<1>2. IsFiniteSet(store') /\ WithinLimit'
  BY <1>1, FewerLeases
<1>3. result \in {"yes", "no"} /\ (result = "yes" <=> s \in store)
  OBVIOUS
<1> HIDE DEF result
<1>4. /\ at' = at
      /\ <<"acquire", s>> \in wire' <=> <<"acquire", s>> \in wire
      /\ <<"release", s>> \in wire' <=> <<"release", s>> \in wire
  BY <1>1, <1>3, AnswersOne
<1>5. reply'[s] = reply[s] \/ at[s] = "renewing"
  BY <1>1, <1>3, AnswersOne DEF Awaits
<1>6. s \notin outage => Orderly(s)'
  BY <1>1, <1>4, <1>5, RequestFacts DEF Orderly
<1>7. faults' = 0 => Leased(s)'
  BY <1>1, <1>3, <1>4, <1>5, AnswersOne, RequestFacts DEF Leased
<1> QED
  BY <1>1, <1>2, <1>3, <1>6, <1>7, RequestFacts, ExecutedKeeps DEF AdmissionTypeOK

\* A release that is executed is waited for, or an outage hit its request.
LEMMA RunReleaseKeeps ==
    ASSUME AdmissionInv, NEW s \in Streams, RunRelease(s) PROVE AdmissionInv'
<1>1. /\ <<"release", s>> \in wire /\ store' = store \ {s}
      /\ Answers(s, "release", "yes")
  BY DEF RunRelease
<1>2. IsFiniteSet(store') /\ WithinLimit'
  BY <1>1, FewerLeases
<1>3. ASSUME s \notin outage
      PROVE  /\ at[s] \in {"compensating", "releasing"} /\ Awaits(s, "release")
             /\ <<"acquire", s>> \notin wire
  BY <1>1, <1>3, RequestFacts DEF Orderly, Awaits
<1>4. at' = at /\ <<"release", s>> \notin wire' /\ (<<"acquire", s>> \in wire' => <<"acquire", s>> \in wire)
  BY <1>1, AnswersOne
<1>5. s \notin outage => Orderly(s)'
  BY <1>1, <1>3, <1>4, AnswersOne DEF Orderly
<1>6. faults' = 0 => Leased(s)'
  BY <1>1, <1>3, <1>4, AnswersOne, RequestFacts DEF Leased
<1> QED
  BY <1>1, <1>2, <1>5, <1>6, RequestFacts, ExecutedKeeps DEF AdmissionTypeOK

\* A lease that nobody renews expires.
LEMMA ExpireKeeps ==
    ASSUME AdmissionInv, NEW s \in Streams, Expire(s) PROVE AdmissionInv'
<1>0. /\ store' = store \ {s} /\ at[s] \notin {"acquiring", "serving", "renewing"}
      /\ UNCHANGED <<wire, at, reply, outage, faults>>
  BY DEF Expire
<1>1. AdmissionTypeOK' /\ OnlyOf(s)
  BY <1>0, RequestFacts DEF AdmissionTypeOK, OnlyOf
<1>2. s \notin outage => Orderly(s)'
  BY <1>0, RequestFacts DEF Orderly
<1>3. faults = 0 => Leased(s)'
  BY <1>0, RequestFacts DEF Leased
<1> QED
  BY <1>0, <1>1, <1>2, <1>3, FewerLeases, RequestFacts, StepOfOne

\* The store loses leases: a fault, after which only order is left to show.
LEMMA LapseKeeps == ASSUME AdmissionInv, Lapse PROVE AdmissionInv'
<1>0. store' \subseteq store /\ Fault /\ UNCHANGED <<wire, at, reply, outage>>
  BY DEF Lapse
<1>1. AdmissionTypeOK' /\ faults' # 0
  BY <1>0, AdmissionAssumption DEF AdmissionInv, AdmissionTypeOK, Fault
<1>2. \A s \in Streams \ outage' : Orderly(s)'
  BY <1>0 DEF AdmissionInv, Orderly
<1> QED
  BY <1>0, <1>1, <1>2, FewerLeases DEF AdmissionInv

\* The connection breaks: the command was lost, or is executed after nobody waits for
\* it any more, which is an outage unless it is a renewal.
LEMMA BreakConnectionKeeps ==
    ASSUME AdmissionInv, NEW s \in Streams, NEW kind \in {"acquire", "renew", "release"},
           BreakConnection(s, kind)
    PROVE  AdmissionInv'
<1>0. /\ <<kind, s>> \in wire /\ Awaits(s, kind) /\ Fault /\ UNCHANGED <<store, at>>
      /\ reply' = [reply EXCEPT ![s] = "error"]
  BY DEF BreakConnection
<1>1. PICK late \in BOOLEAN :
        /\ wire' = IF late THEN wire ELSE wire \ {<<kind, s>>}
        /\ outage' = IF kind = "release" \/ (kind = "acquire" /\ late)
                     THEN outage \cup {s} ELSE outage
  BY DEF BreakConnection
<1>2. AdmissionTypeOK' /\ OnlyOf(s) /\ reply'[s] = "error"
  <2>1. reply' \in [Streams -> {"none", "yes", "no", "error"}] /\ reply'[s] = "error"
        /\ \A t \in Streams \ {s} : reply'[t] = reply[t]
    BY <1>0, RequestFacts DEF AdmissionTypeOK
  <2>2. faults' \in 0 .. MaxFaults
    BY <1>0, RequestFacts, AdmissionAssumption DEF AdmissionTypeOK, Fault
  <2> QED
    BY <1>0, <1>1, <2>1, <2>2, RequestFacts DEF AdmissionTypeOK, OnlyOf
<1>3. ASSUME s \notin outage' PROVE Orderly(s)'
  <2>1. Orderly(s) /\ kind # "release" /\ (kind = "acquire" => ~late)
    BY <1>1, <1>3, RequestFacts
  <2>2. <<"acquire", s>> \notin wire' \/ kind = "renew"
    BY <1>1, <2>1
  <2>3. \A k : <<k, s>> \in wire' => <<k, s>> \in wire
    BY <1>1
  <2>4. at[s] \in {"acquiring", "settling"} \/ (kind = "renew" /\ at[s] = "renewing")
    BY <1>0, <2>1 DEF Awaits
  <2>5. kind = "renew" => at[s] = "renewing"
    BY <1>0 DEF Awaits
  <2> QED
    BY <1>0, <1>2, <2>1, <2>2, <2>3, <2>4, <2>5 DEF Orderly
<1> QED
  BY <1>0, <1>2, <1>3, FaultOfOne

-----------------------------------------------------------------------------
\* Nothing was requested yet.
LEMMA AdmissionInitially == AdmissionInit => AdmissionInv
<1> SUFFICES ASSUME AdmissionInit PROVE AdmissionInv
  OBVIOUS
<1>1. AdmissionTypeOK
  BY AdmissionAssumption DEF AdmissionInit, AdmissionTypeOK, Places
<1>2. IsFiniteSet(store)
  BY FS_EmptySet DEF AdmissionInit
<1>3. WithinLimit
  <2> SUFFICES ASSUME NEW k \in Keys PROVE Cardinality(Counted(k)) <= Limit[k]
    BY DEF WithinLimit
  <2>1. Counted(k) = {}
    BY DEF AdmissionInit, Counted
  <2>2. Limit[k] \in Nat
    BY AdmissionAssumption
  <2> QED
    BY <2>1, <2>2, FS_EmptySet
<1>4. (\A s \in Streams : Orderly(s) /\ Leased(s)) /\ outage = {}
  BY DEF AdmissionInit, Orderly, Leased
<1> QED
  BY <1>1, <1>2, <1>3, <1>4 DEF AdmissionInv

\* Every step keeps the invariant.
LEMMA AdmissionKeeps == AdmissionInv /\ [AdmissionNext]_vars => AdmissionInv'
<1> SUFFICES ASSUME AdmissionInv, [AdmissionNext]_vars PROVE AdmissionInv'
  OBVIOUS
<1>1. ASSUME NEW s \in Streams, Acquire(s) \/ Cancel(s) \/ Proceeds(s) \/ EndResponse(s)
                                \/ Crash(s)
      PROVE  AdmissionInv'
  BY <1>1, SendingKeeps, AnsweredKeeps, CancelKeeps, CrashKeeps DEF Proceeds
<1>2. ASSUME NEW s \in Streams, RunCommand(s) \/ Expire(s) PROVE AdmissionInv'
  BY <1>2, RunAcquireKeeps, RunRenewKeeps, RunReleaseKeeps, ExpireKeeps DEF RunCommand
<1>3. ASSUME NEW s \in Streams, NEW kind \in {"acquire", "renew", "release"},
             BreakConnection(s, kind)
      PROVE  AdmissionInv'
  BY <1>3, BreakConnectionKeeps
<1>4. CASE Lapse
  BY <1>4, LapseKeeps
<1>5. CASE UNCHANGED vars
  BY <1>5 DEF vars, AdmissionInv, AdmissionTypeOK, WithinLimit, Counted, Orderly, Leased
<1> QED
  BY <1>1, <1>2, <1>3, <1>4, <1>5 DEF AdmissionNext

\* What is on the wire, and where a request is, explain the leases in the store.
THEOREM AdmissionIsOrderly == AdmissionSpec => []AdmissionInv
  BY AdmissionInitially, AdmissionKeeps, PTL DEF AdmissionSpec

\* For any number of requests, keys and faults: no key ever has more leases than its
\* limit, and before the first fault every running response holds one.
THEOREM LimitHolds == AdmissionSpec => []SlotsWithinLimit
<1>1. AdmissionInv => SlotsWithinLimit
  BY DEF AdmissionInv, WithinLimit, Counted, SlotsWithinLimit, Running, Leased
<1> QED
  BY <1>1, AdmissionIsOrderly, PTL

\* A request that is over holds a lease only if its process died, its release failed,
\* or its abandoned acquisition was executed late.
THEOREM LeaksAreOutages == AdmissionSpec => []OnlyOutagesLeakSlots
<1>1. AdmissionInv => OnlyOutagesLeakSlots
  BY DEF AdmissionInv, OnlyOutagesLeakSlots, Orderly
<1> QED
  BY <1>1, AdmissionIsOrderly, PTL
=============================================================================
