------------------------- MODULE Resilience_proofs -------------------------
(***************************************************************************)
(* Proofs about the components of resilience-engine, for every value of    *)
(* their constants: the circuit breakers, the bulkhead, the heals, the     *)
(* chaos tests, the healer's restarts, the loop of the resource manager,   *)
(* and MCResilience, which composes them.                                  *)
(*                                                                         *)
(* Each part begins with the invariant that makes its property inductive:  *)
(* IInv of the breakers, where the probes of a half-open one went; SlotsInv*)
(* of the bulkhead, that no caller waits twice; those of the others are    *)
(* named where they are stated.                                            *)
(***************************************************************************)
EXTENDS MCResilience, SequenceTheorems, FiniteSetTheorems,
        WellFoundedInduction, TLAPS

inFlight(b) == {c \in Calls : call[c] = b}

\* Every spent probe is still in flight or was counted a success.
ProbesAccounted ==
    \A b \in Breakers : state[b] = "half-open" =>
        halfOpenCalls[b] <= probes[b] + Cardinality(inFlight(b))

\* A success counted in half-open left the breaker below its threshold.
StillProbing ==
    \A b \in Breakers : state[b] = "half-open" =>
        /\ probes[b] <= successes[b]
        /\ probes[b] > 0 => successes[b] < successThreshold

IInv ==
    /\ TypeOK
    /\ TimerIffOpen
    /\ ClosedBelowThreshold
    /\ ProbesAccounted
    /\ StillProbing

LEMMA InitIInv == Init => IInv
<1> SUFFICES ASSUME Init PROVE IInv
  OBVIOUS
<1>1. TypeOK
  BY ThresholdAssumption DEF Init, TypeOK, Modes
<1>2. TimerIffOpen /\ ClosedBelowThreshold /\ ProbesAccounted /\ StillProbing
  BY ThresholdAssumption
     DEF Init, TimerIffOpen, ClosedBelowThreshold, ProbesAccounted, StillProbing
<1> QED
  BY <1>1, <1>2 DEF IInv

-----------------------------------------------------------------------------
(***************************************************************************)
(* Type correctness, action by action.                                     *)
(***************************************************************************)
LEMMA TransitionTyped ==
    ASSUME TypeOK, NEW b \in Breakers,
           NEW to \in {"closed", "open", "half-open"}, transitionTo(b, to)
    PROVE  /\ state' \in [Breakers -> {"closed", "open", "half-open"}]
           /\ halfOpenCalls' \in [Breakers -> 0..halfOpenMaxCalls]
           /\ timer' \in [Breakers -> BOOLEAN]
           /\ probes' \in [Breakers -> Nat]
           /\ mode' \in Modes
<1>1. timerAfter(b, to) \in BOOLEAN
  BY DEF timerAfter
<1>2. modeAfter(to) \in Modes
  BY DEF modeAfter, Modes, TypeOK
<1>3. 0 \in 0..halfOpenMaxCalls
  BY ThresholdAssumption
<1> QED
  BY <1>1, <1>2, <1>3 DEF transitionTo, TypeOK

LEMMA AdmitTyped ==
    ASSUME TypeOK, NEW b \in Breakers, NEW c \in Calls, Admit(c, b)
    PROVE  TypeOK'
<1>1. halfOpenCalls' \in [Breakers -> 0..halfOpenMaxCalls]
  <2>1. CASE state[b] = "half-open"
    <3>1. halfOpenCalls[b] + 1 \in 0..halfOpenMaxCalls
      BY <2>1, ThresholdAssumption DEF Admit, refuses, TypeOK
    <3> QED
      BY <2>1, <3>1 DEF Admit, TypeOK
  <2>2. CASE state[b] # "half-open"
    BY <2>2 DEF Admit, TypeOK
  <2> QED
    BY <2>1, <2>2
<1> QED
  BY <1>1 DEF Admit, TypeOK

LEMMA SettleTyped ==
    ASSUME TypeOK, NEW b \in Breakers, NEW c \in Calls, Succeed(c, b) \/ Fail(c, b)
    PROVE  TypeOK'
<1>1. /\ call' \in [Calls -> Breakers \cup {"idle", "rejected", "settled"}]
      /\ failures' \in [Breakers -> Nat]
      /\ successes' \in [Breakers -> Nat]
  BY DEF Succeed, Fail, settle, TypeOK
<1>2. CASE transitionTo(b, "closed") \/ transitionTo(b, "open")
  BY <1>1, <1>2, TransitionTyped DEF TypeOK
<1>3. CASE /\ probes' \in {probes, [probes EXCEPT ![b] = @ + 1]}
           /\ UNCHANGED <<state, halfOpenCalls, timer, mode>>
  BY <1>1, <1>3 DEF TypeOK
<1> QED
  BY <1>2, <1>3 DEF Succeed, Fail

LEMMA CooldownTyped ==
    ASSUME TypeOK, NEW b \in Breakers, Cooldown(b)
    PROVE  TypeOK'
<1>1. CASE transitionTo(b, "half-open")
  BY <1>1, TransitionTyped DEF Cooldown, TypeOK
<1>2. CASE /\ timer' = [timer EXCEPT ![b] = FALSE]
           /\ UNCHANGED <<state, halfOpenCalls, probes, mode>>
  BY <1>2 DEF Cooldown, TypeOK
<1> QED
  BY <1>1, <1>2 DEF Cooldown

LEMMA NextTyped == TypeOK /\ [Next]_vars => TypeOK'
<1> SUFFICES ASSUME TypeOK, [Next]_vars PROVE TypeOK'
  OBVIOUS
<1>1. CASE UNCHANGED vars
  BY <1>1 DEF vars, breakerVars, TypeOK
<1>2. ASSUME NEW b \in Breakers, NEW c \in Calls, Reject(c, b) PROVE TypeOK'
  BY <1>2 DEF Reject, breakerVars, TypeOK
<1>3. ASSUME NEW b \in Breakers, NEW c \in Calls, Admit(c, b) PROVE TypeOK'
  BY <1>3, AdmitTyped
<1>4. ASSUME NEW b \in Breakers, NEW c \in Calls, Succeed(c, b) \/ Fail(c, b)
      PROVE  TypeOK'
  BY <1>4, SettleTyped
<1>5. ASSUME NEW b \in Breakers, Cooldown(b) PROVE TypeOK'
  BY <1>5, CooldownTyped
<1>6. ASSUME NEW b \in Breakers, Reset(b) PROVE TypeOK'
  BY <1>6, ThresholdAssumption DEF Reset, TypeOK
<1>7. ASSUME NEW m \in TripModes, AutoDegrade(m) PROVE TypeOK'
  BY <1>7 DEF AutoDegrade, breakerVars, TripModes, Modes, TypeOK
<1> QED
  BY <1>1, <1>2, <1>3, <1>4, <1>5, <1>6, <1>7 DEF Next

-----------------------------------------------------------------------------
(***************************************************************************)
(* The timer and the failure count of a closed breaker.                    *)
(***************************************************************************)
LEMMA TimerStep == TypeOK /\ TimerIffOpen /\ [Next]_vars => TimerIffOpen'
<1> SUFFICES ASSUME TypeOK, TimerIffOpen, [Next]_vars PROVE TimerIffOpen'
  OBVIOUS
<1> USE DEF TimerIffOpen
<1>1. ASSUME UNCHANGED <<state, timer>> PROVE TimerIffOpen'
  BY <1>1
<1>2. ASSUME NEW b \in Breakers, NEW to \in {"closed", "open", "half-open"},
             transitionTo(b, to)
      PROVE  TimerIffOpen'
  BY <1>2 DEF transitionTo, timerAfter, TypeOK
<1>3. ASSUME NEW b \in Breakers, NEW c \in Calls, Succeed(c, b) \/ Fail(c, b)
      PROVE  TimerIffOpen'
  BY <1>1, <1>2, <1>3 DEF Succeed, Fail
<1>4. ASSUME NEW b \in Breakers, Cooldown(b) PROVE TimerIffOpen'
  BY <1>2, <1>4 DEF Cooldown
<1>5. ASSUME NEW b \in Breakers, Reset(b) PROVE TimerIffOpen'
  BY <1>5 DEF Reset, TypeOK
<1>6. ASSUME NEW b \in Breakers, NEW c \in Calls, Reject(c, b) \/ Admit(c, b)
      PROVE  TimerIffOpen'
  BY <1>1, <1>6 DEF Reject, Admit, breakerVars
<1>7. ASSUME NEW m \in TripModes, AutoDegrade(m) PROVE TimerIffOpen'
  BY <1>1, <1>7 DEF AutoDegrade, breakerVars
<1>8. CASE UNCHANGED vars
  BY <1>1, <1>8 DEF vars, breakerVars
<1> QED
  BY <1>3, <1>4, <1>5, <1>6, <1>7, <1>8 DEF Next

LEMMA ClosedStep ==
    TypeOK /\ ClosedBelowThreshold /\ [Next]_vars => ClosedBelowThreshold'
<1> SUFFICES ASSUME TypeOK, ClosedBelowThreshold, [Next]_vars
             PROVE  ClosedBelowThreshold'
  OBVIOUS
<1> USE ThresholdAssumption DEF ClosedBelowThreshold
<1>1. ASSUME UNCHANGED <<state, failures>> PROVE ClosedBelowThreshold'
  BY <1>1
<1>2. ASSUME NEW b \in Breakers, NEW c \in Calls, Succeed(c, b)
      PROVE  ClosedBelowThreshold'
  BY <1>2 DEF Succeed, transitionTo, TypeOK
<1>3. ASSUME NEW b \in Breakers, NEW c \in Calls, Fail(c, b)
      PROVE  ClosedBelowThreshold'
  BY <1>3 DEF Fail, opens, transitionTo, TypeOK
<1>4. ASSUME NEW b \in Breakers, Cooldown(b) PROVE ClosedBelowThreshold'
  BY <1>4 DEF Cooldown, transitionTo, TypeOK
<1>5. ASSUME NEW b \in Breakers, Reset(b) PROVE ClosedBelowThreshold'
  BY <1>5 DEF Reset, TypeOK
<1>6. ASSUME NEW b \in Breakers, NEW c \in Calls, Reject(c, b) \/ Admit(c, b)
      PROVE  ClosedBelowThreshold'
  BY <1>1, <1>6 DEF Reject, Admit, breakerVars
<1>7. ASSUME NEW m \in TripModes, AutoDegrade(m) PROVE ClosedBelowThreshold'
  BY <1>1, <1>7 DEF AutoDegrade, breakerVars
<1>8. CASE UNCHANGED vars
  BY <1>1, <1>8 DEF vars, breakerVars
<1> QED
  BY <1>2, <1>3, <1>4, <1>5, <1>6, <1>7, <1>8 DEF Next

-----------------------------------------------------------------------------
(***************************************************************************)
(* What a step does to the number of calls in flight at a breaker.         *)
(***************************************************************************)
LEMMA InFlightFinite ==
    ASSUME NEW b
    PROVE  IsFiniteSet(inFlight(b)) /\ Cardinality(inFlight(b)) \in Nat
<1>1. inFlight(b) \subseteq Calls
  BY DEF inFlight
<1>2. IsFiniteSet(inFlight(b))
  BY <1>1, CallsAssumption, FS_Subset
<1> QED
  BY <1>2, FS_CardinalityType

LEMMA AdmitInFlight ==
    ASSUME TypeOK, NEW b \in Breakers, NEW c \in Calls, Admit(c, b),
           NEW a \in Breakers
    PROVE  Cardinality(inFlight(a))' =
               Cardinality(inFlight(a)) + (IF a = b THEN 1 ELSE 0)
<1>1. b # "idle" /\ a # "idle"
  BY BreakersAssumption
<1>2. CASE a = b
  <2>1. inFlight(a)' = inFlight(a) \cup {c} /\ c \notin inFlight(a)
    BY <1>1, <1>2 DEF Admit, inFlight, TypeOK
  <2> QED
    BY <1>2, <2>1, InFlightFinite, FS_AddElement
<1>3. CASE a # b
  <2>1. inFlight(a)' = inFlight(a)
    BY <1>1, <1>3 DEF Admit, inFlight, TypeOK
  <2> QED
    BY <1>3, <2>1, InFlightFinite
<1> QED
  BY <1>2, <1>3

LEMMA SettleInFlight ==
    ASSUME TypeOK, NEW b \in Breakers, NEW c \in Calls, settle(c, b),
           NEW a \in Breakers
    PROVE  Cardinality(inFlight(a))' =
               Cardinality(inFlight(a)) - (IF a = b THEN 1 ELSE 0)
<1>1. a # "settled"
  BY BreakersAssumption
<1>2. CASE a = b
  <2>1. inFlight(a)' = inFlight(a) \ {c} /\ c \in inFlight(a)
    BY <1>1, <1>2 DEF settle, inFlight, TypeOK
  <2> QED
    BY <1>2, <2>1, InFlightFinite, FS_RemoveElement
<1>3. CASE a # b
  <2>1. inFlight(a)' = inFlight(a)
    BY <1>1, <1>3 DEF settle, inFlight, TypeOK
  <2> QED
    BY <1>3, <2>1, InFlightFinite
<1> QED
  BY <1>2, <1>3

-----------------------------------------------------------------------------
(***************************************************************************)
(* Spent probes stay accounted for.  A breaker that enters half-open or    *)
(* leaves it has none; one that stays in it trades a call in flight for a  *)
(* success.                                                                *)
(***************************************************************************)
LEMMA TransitionProbes ==
    ASSUME IInv, TypeOK', NEW b \in Breakers,
           NEW to \in {"closed", "open", "half-open"}, transitionTo(b, to),
           \A a \in Breakers \ {b} : /\ inFlight(a)' = inFlight(a)
                                     /\ successes'[a] = successes[a],
           successes'[b] \in Nat
    PROVE  ProbesAccounted' /\ StillProbing'
<1>1. state'[b] = to /\ halfOpenCalls'[b] = 0 /\ probes'[b] = 0
  BY DEF transitionTo, IInv, TypeOK
<1>2. \A a \in Breakers \ {b} : /\ state'[a] = state[a]
                                /\ halfOpenCalls'[a] = halfOpenCalls[a]
                                /\ probes'[a] = probes[a]
  BY DEF transitionTo, IInv, TypeOK
<1>3. Cardinality(inFlight(b))' \in Nat
  BY InFlightFinite, inFlight(b)' \subseteq Calls, CallsAssumption, FS_Subset,
     FS_CardinalityType DEF inFlight
<1>4. ProbesAccounted'
  BY <1>1, <1>2, <1>3 DEF IInv, ProbesAccounted
<1>5. StillProbing'
  BY <1>1, <1>2 DEF IInv, StillProbing
<1> QED
  BY <1>4, <1>5

LEMMA AdmitProbes ==
    ASSUME IInv, NEW b \in Breakers, NEW c \in Calls, Admit(c, b)
    PROVE  ProbesAccounted' /\ StillProbing'
<1>1. TypeOK /\ state' = state /\ probes' = probes /\ successes' = successes
  BY DEF IInv, Admit
<1>2. StillProbing'
  BY <1>1 DEF IInv, StillProbing
<1>3. ASSUME NEW a \in Breakers, state[a] = "half-open"
      PROVE  halfOpenCalls'[a] <= probes[a] + Cardinality(inFlight(a))'
  <2> DEFINE one == IF a = b THEN 1 ELSE 0
  <2>1. halfOpenCalls'[a] = halfOpenCalls[a] + one
    BY <1>1, <1>3 DEF Admit, TypeOK
  <2>2. Cardinality(inFlight(a))' = Cardinality(inFlight(a)) + one
    BY <1>1, AdmitInFlight
  <2>3. halfOpenCalls[a] <= probes[a] + Cardinality(inFlight(a))
    BY <1>3 DEF IInv, ProbesAccounted
  <2>4. /\ halfOpenCalls[a] \in Nat /\ probes[a] \in Nat /\ one \in Nat
        /\ Cardinality(inFlight(a)) \in Nat
    BY <1>1, ThresholdAssumption, InFlightFinite DEF TypeOK
  <2> QED
    BY <2>1, <2>2, <2>3, <2>4
<1>4. ProbesAccounted'
  BY <1>1, <1>3 DEF ProbesAccounted
<1> QED
  BY <1>2, <1>4

LEMMA SettleElsewhere ==
    ASSUME NEW b, NEW c \in Calls, settle(c, b), NEW a, a # b, a # "settled", TypeOK
    PROVE  inFlight(a)' = inFlight(a)
BY DEF settle, inFlight, TypeOK

LEMMA SucceedProbes ==
    ASSUME IInv, TypeOK', NEW b \in Breakers, NEW c \in Calls, Succeed(c, b)
    PROVE  ProbesAccounted' /\ StillProbing'
<1>1. TypeOK /\ settle(c, b) /\ successes' = [successes EXCEPT ![b] = @ + 1]
  BY DEF IInv, Succeed
<1>2. \A a \in Breakers \ {b} : /\ inFlight(a)' = inFlight(a)
                                /\ successes'[a] = successes[a]
  BY <1>1, SettleElsewhere, BreakersAssumption DEF TypeOK
<1>3. CASE closes(b)
  BY <1>1, <1>2, <1>3, TransitionProbes DEF Succeed, TypeOK
<1>4. CASE ~closes(b)
  <2>1. /\ state' = state /\ halfOpenCalls' = halfOpenCalls
        /\ probes' = IF state[b] = "half-open"
                     THEN [probes EXCEPT ![b] = @ + 1] ELSE probes
    BY <1>4 DEF Succeed
  <2>2. StillProbing'
    BY <1>1, <1>4, <2>1, ThresholdAssumption
       DEF IInv, StillProbing, closes, TypeOK
  <2>3. ASSUME NEW a \in Breakers, state[a] = "half-open"
        PROVE  halfOpenCalls[a] <= probes'[a] + Cardinality(inFlight(a))'
    <3> DEFINE one == IF a = b THEN 1 ELSE 0
    <3>1. probes'[a] = probes[a] + one
      BY <1>1, <2>1, <2>3 DEF TypeOK
    <3>2. Cardinality(inFlight(a))' = Cardinality(inFlight(a)) - one
      BY <1>1, SettleInFlight
    <3>3. halfOpenCalls[a] <= probes[a] + Cardinality(inFlight(a))
      BY <2>3 DEF IInv, ProbesAccounted
    <3>4. /\ halfOpenCalls[a] \in Nat /\ probes[a] \in Nat /\ one \in Nat
          /\ Cardinality(inFlight(a)) \in Nat
      BY <1>1, ThresholdAssumption, InFlightFinite DEF TypeOK
    <3> QED
      BY <3>1, <3>2, <3>3, <3>4
  <2>4. ProbesAccounted'
    BY <2>1, <2>3 DEF ProbesAccounted
  <2> QED
    BY <2>2, <2>4
<1> QED
  BY <1>3, <1>4

LEMMA FailProbes ==
    ASSUME IInv, TypeOK', NEW b \in Breakers, NEW c \in Calls, Fail(c, b)
    PROVE  ProbesAccounted' /\ StillProbing'
<1>1. TypeOK /\ settle(c, b) /\ successes' = [successes EXCEPT ![b] = 0]
  BY DEF IInv, Fail
<1>2. \A a \in Breakers \ {b} : /\ inFlight(a)' = inFlight(a)
                                /\ successes'[a] = successes[a]
  BY <1>1, SettleElsewhere, BreakersAssumption DEF TypeOK
<1>3. CASE opens(b)
  BY <1>1, <1>2, <1>3, TransitionProbes DEF Fail, TypeOK
<1>4. CASE ~opens(b)
  <2>1. UNCHANGED <<state, halfOpenCalls, probes>> /\ state[b] # "half-open"
    BY <1>4 DEF Fail, opens
  <2> QED
    BY <1>2, <2>1 DEF IInv, ProbesAccounted, StillProbing
<1> QED
  BY <1>3, <1>4

LEMMA ResetProbes ==
    ASSUME IInv, NEW b \in Breakers, Reset(b)
    PROVE  ProbesAccounted' /\ StillProbing'
BY DEF IInv, TypeOK, Reset, inFlight, ProbesAccounted, StillProbing

LEMMA QuietProbes ==
    ASSUME IInv, UNCHANGED <<state, halfOpenCalls, probes, successes>>,
           \A b \in Breakers : inFlight(b)' = inFlight(b)
    PROVE  ProbesAccounted' /\ StillProbing'
BY DEF IInv, ProbesAccounted, StillProbing

LEMMA CooldownProbes ==
    ASSUME IInv, TypeOK', NEW b \in Breakers, Cooldown(b)
    PROVE  ProbesAccounted' /\ StillProbing'
<1>1. \A a \in Breakers : inFlight(a)' = inFlight(a) /\ successes'[a] = successes[a]
  BY DEF Cooldown, inFlight
<1>2. state[b] = "open" /\ transitionTo(b, "half-open")
  BY DEF IInv, TimerIffOpen, Cooldown
<1> QED
  BY <1>1, <1>2, TransitionProbes DEF TypeOK

LEMMA RejectProbes ==
    ASSUME IInv, NEW b \in Breakers, NEW c \in Calls, Reject(c, b)
    PROVE  ProbesAccounted' /\ StillProbing'
<1>1. \A a \in Breakers : inFlight(a)' = inFlight(a)
  BY BreakersAssumption DEF Reject, inFlight, IInv, TypeOK
<1> QED
  BY <1>1, QuietProbes DEF Reject, breakerVars

LEMMA ProbesStep == IInv /\ TypeOK' /\ [Next]_vars => ProbesAccounted' /\ StillProbing'
<1> SUFFICES ASSUME IInv, TypeOK', [Next]_vars
             PROVE  ProbesAccounted' /\ StillProbing'
  OBVIOUS
<1>1. CASE call' = call /\ UNCHANGED breakerVars
  BY <1>1, QuietProbes DEF inFlight, breakerVars
<1>2. CASE UNCHANGED vars
  BY <1>1, <1>2 DEF vars
<1>3. ASSUME NEW m \in TripModes, AutoDegrade(m)
      PROVE  ProbesAccounted' /\ StillProbing'
  BY <1>1, <1>3 DEF AutoDegrade
<1> QED
  BY <1>2, <1>3, RejectProbes, AdmitProbes, SucceedProbes, FailProbes,
     CooldownProbes, ResetProbes DEF Next

LEMMA IInvInductive == IInv /\ [Next]_vars => IInv'
<1> SUFFICES ASSUME IInv, [Next]_vars PROVE IInv'
  OBVIOUS
<1>1. TypeOK'
  BY NextTyped DEF IInv
<1> QED
  BY <1>1, TimerStep, ClosedStep, ProbesStep DEF IInv

(***************************************************************************)
(* With no call in flight the spent probes were all successes, and         *)
(* halfOpenMaxCalls of them would have closed the breaker.                 *)
(***************************************************************************)
LEMMA IInvNeverStuck == IInv => NeverStuckHalfOpen
<1> SUFFICES ASSUME IInv, halfOpenMaxCalls >= successThreshold,
                    NEW b \in Breakers, state[b] = "half-open",
                    halfOpenCalls[b] = halfOpenMaxCalls,
                    \A c \in Calls : call[c] # b
             PROVE  FALSE
  BY DEF NeverStuckHalfOpen
<1>1. Cardinality(inFlight(b)) = 0
  BY inFlight(b) = {}, FS_EmptySet DEF inFlight
<1>2. probes[b] \in Nat /\ successes[b] \in Nat
  BY DEF IInv, TypeOK
<1>3. probes[b] >= successThreshold
  BY <1>1, <1>2, ThresholdAssumption DEF IInv, ProbesAccounted
<1> QED
  BY <1>2, <1>3, ThresholdAssumption DEF IInv, StillProbing

-----------------------------------------------------------------------------
(***************************************************************************)
(* Every reachable state is typed: in particular no half-open period       *)
(* admits more than halfOpenMaxCalls probes.                               *)
(***************************************************************************)
THEOREM BreakersTyped == Spec => []TypeOK
<1>1. IInv => TypeOK
  BY DEF IInv
<1> QED
  BY <1>1, InitIInv, IInvInductive, PTL DEF Spec

(***************************************************************************)
(* The cooldown timer is armed exactly while a breaker is open.            *)
(***************************************************************************)
THEOREM BreakersTimer == Spec => []TimerIffOpen
<1>1. IInv => TimerIffOpen
  BY DEF IInv
<1> QED
  BY <1>1, InitIInv, IInvInductive, PTL DEF Spec

(***************************************************************************)
(* A closed breaker has counted fewer failures than its threshold.         *)
(***************************************************************************)
THEOREM BreakersClosed == Spec => []ClosedBelowThreshold
<1>1. IInv => ClosedBelowThreshold
  BY DEF IInv
<1> QED
  BY <1>1, InitIInv, IInvInductive, PTL DEF Spec

(***************************************************************************)
(* A half-open breaker whose probes are spent is waiting for one of them.  *)
(***************************************************************************)
THEOREM BreakersNotStuck == Spec => []NeverStuckHalfOpen
BY InitIInv, IInvInductive, IInvNeverStuck, PTL DEF Spec

-----------------------------------------------------------------------------
\* One breaker has the manager to itself.
LEMMA TrippedStep == TypeOK /\ TrippedIsDegraded /\ [Next]_vars => TrippedIsDegraded'
<1> SUFFICES ASSUME TypeOK, \A a, b \in Breakers : a = b,
                    \A b \in Breakers : state[b] # "closed" => mode # "normal",
                    [Next]_vars
             PROVE  \A b \in Breakers : state'[b] # "closed" => mode' # "normal"
  BY DEF TrippedIsDegraded
<1>1. ASSUME UNCHANGED <<state, mode>>
      PROVE  \A b \in Breakers : state'[b] # "closed" => mode' # "normal"
  BY <1>1
<1>2. ASSUME NEW b \in Breakers, NEW to \in {"closed", "open", "half-open"},
             transitionTo(b, to), to = "half-open" => state[b] = "open"
      PROVE  \A a \in Breakers : state'[a] # "closed" => mode' # "normal"
  <2>1. state'[b] = to
    BY <1>2 DEF transitionTo, TypeOK
  <2>2. to # "closed" => mode' # "normal"
    BY <1>2 DEF transitionTo, modeAfter
  <2> QED
    BY <2>1, <2>2
<1>3. ASSUME NEW b \in Breakers, NEW c \in Calls, Succeed(c, b) \/ Fail(c, b)
      PROVE  \A a \in Breakers : state'[a] # "closed" => mode' # "normal"
  BY <1>1, <1>2, <1>3 DEF Succeed, Fail
<1>4. ASSUME NEW b \in Breakers, Cooldown(b)
      PROVE  \A a \in Breakers : state'[a] # "closed" => mode' # "normal"
  BY <1>1, <1>2, <1>4 DEF Cooldown
<1>5. ASSUME NEW b \in Breakers, Reset(b)
      PROVE  \A a \in Breakers : state'[a] # "closed" => mode' # "normal"
  BY <1>5 DEF Reset, TypeOK
<1>6. ASSUME NEW b \in Breakers, NEW c \in Calls, Reject(c, b) \/ Admit(c, b)
      PROVE  \A a \in Breakers : state'[a] # "closed" => mode' # "normal"
  BY <1>1, <1>6 DEF Reject, Admit, breakerVars
<1>7. ASSUME NEW m \in TripModes, AutoDegrade(m)
      PROVE  \A a \in Breakers : state'[a] # "closed" => mode' # "normal"
  BY <1>7 DEF AutoDegrade, TripModes
<1>8. CASE UNCHANGED vars
  BY <1>1, <1>8 DEF vars, breakerVars
<1> QED
  BY <1>3, <1>4, <1>5, <1>6, <1>7, <1>8 DEF Next

(***************************************************************************)
(* While the only breaker of a manager is not closed, the mode is not      *)
(* normal.                                                                 *)
(***************************************************************************)
THEOREM BreakersDegrade == Spec => []TrippedIsDegraded
<1>1. Init => TrippedIsDegraded
  BY DEF Init, TrippedIsDegraded
<1>2. Init => TypeOK
  BY InitIInv DEF IInv
<1> QED
  BY <1>1, <1>2, NextTyped, TrippedStep, PTL DEF Spec

-----------------------------------------------------------------------------
(***************************************************************************)
(* Bulkhead: what an orderly queue is.  Every item is the place of one     *)
(* caller, who waits at it; where is the pc of the callers.                *)
(***************************************************************************)
typedQueue(items) == items \in Seq(Item)

orderly(items, where) ==
    /\ \A i \in 1..Len(items) : /\ items[i].caller \in Callers
                                /\ where[items[i].caller] = "waiting"
    /\ \A i, j \in 1..Len(items) :
          items[i].caller = items[j].caller => i = j

LEMMA Suffix ==
    ASSUME NEW items \in Seq(Item), NEW n \in 0..Len(items), NEW where,
           NEW rest, rest = SubSeq(items, n + 1, Len(items))
    PROVE  /\ rest \in Seq(Item)
           /\ Len(rest) <= Len(items)
           /\ orderly(items, where) => orderly(rest, where)
<1>1. /\ Len(items) \in Nat /\ n \in Nat /\ n + 1 \in Int
      /\ \A i \in (n + 1)..Len(items) : items[i] \in Item
  BY LenProperties, ElementOfSeq
<1>2. /\ rest \in Seq(Item)
      /\ Len(rest) = IF n + 1 <= Len(items) THEN Len(items) - (n + 1) + 1 ELSE 0
      /\ \A i \in 1..(Len(items) - (n + 1) + 1) : rest[i] = items[n + 1 + i - 1]
  BY <1>1, SubSeqProperties
<1>3. Len(rest) = Len(items) - n
  BY <1>1, <1>2
<1>4. \A i \in 1..Len(rest) : rest[i] = items[n + i] /\ n + i \in 1..Len(items)
  BY <1>1, <1>2, <1>3
<1>5. ASSUME orderly(items, where) PROVE orderly(rest, where)
  BY <1>1, <1>3, <1>4, <1>5 DEF orderly
<1> QED
  BY <1>1, <1>2, <1>3, <1>5

LEMMA UnexpiredOrderly ==
    ASSUME NEW items \in Seq(Item), NEW where, NEW rest, rest = unexpired(items)
    PROVE  /\ rest \in Seq(Item)
           /\ Len(rest) <= Len(items)
           /\ orderly(items, where) => orderly(rest, where)
<1>1. PICK gone : gone = {i \in DOMAIN items : items[i].expired}
  OBVIOUS
<1>2. DOMAIN items = 1..Len(items) /\ Len(items) \in Nat
  BY LenProperties
<1>3. Cardinality(gone) \in 0..Len(items)
  <2>1. gone \subseteq 1..Len(items)
    BY <1>1, <1>2, Zenon
  <2>2. PICK last \in Nat : last = Len(items)
    BY <1>2
  <2>3. IsFiniteSet(1..last) /\ Cardinality(1..last) = last
    BY FS_Interval
  <2>4. IsFiniteSet(gone) /\ Cardinality(gone) <= Cardinality(1..last)
    BY <2>1, <2>2, <2>3, FS_Subset
  <2>5. Cardinality(gone) \in Nat
    BY <2>4, FS_CardinalityType
  <2> QED
    BY <2>2, <2>3, <2>4, <2>5
<1>4. rest = SubSeq(items, Cardinality(gone) + 1, Len(items))
  BY <1>1, Zenon DEF unexpired
<1> QED
  BY <1>3, <1>4, Suffix

LEMMA ShiftedOrderly ==
    ASSUME NEW items \in Seq(Item), items # <<>>, NEW where,
           orderly(items, where)
    PROVE  /\ Tail(items) \in Seq(Item) /\ Len(Tail(items)) = Len(items) - 1
           /\ Head(items).caller \in Callers
           /\ where[Head(items).caller] = "waiting"
           /\ orderly(Tail(items), where)
           /\ \A i \in 1..Len(Tail(items)) :
                 Tail(items)[i].caller # Head(items).caller
<1>1. Len(items) \in Nat /\ Len(items) > 0 /\ 1 \in 1..Len(items)
      /\ Head(items) = items[1]
  BY LenProperties, EmptySeq
<1>2. PICK rest : rest = Tail(items)
  OBVIOUS
<1>3. /\ rest \in Seq(Item) /\ Len(rest) = Len(items) - 1
      /\ \A i \in 1..Len(rest) : rest[i] = items[i + 1]
  BY <1>2, HeadTailProperties
<1>4. \A i \in 1..Len(rest) : i + 1 \in 1..Len(items) /\ i + 1 # 1
  BY <1>1, <1>3
<1>5. orderly(rest, where)
  <2>1. ASSUME NEW i \in 1..Len(rest)
        PROVE  rest[i].caller \in Callers /\ where[rest[i].caller] = "waiting"
    <3>1. i + 1 \in 1..Len(items) /\ rest[i] = items[i + 1]
      BY <1>3, <1>4
    <3> QED
      BY <3>1 DEF orderly
  <2>2. ASSUME NEW i \in 1..Len(rest), NEW j \in 1..Len(rest),
               rest[i].caller = rest[j].caller
        PROVE  i = j
    <3>1. /\ i + 1 \in 1..Len(items) /\ j + 1 \in 1..Len(items)
          /\ items[i + 1].caller = items[j + 1].caller
      BY <1>3, <1>4, <2>2
    <3>2. i + 1 = j + 1
      BY <3>1 DEF orderly
    <3> QED
      BY <3>2
  <2> QED
    BY <2>1, <2>2 DEF orderly
<1>6. \A i \in 1..Len(rest) : rest[i].caller # items[1].caller
  BY <1>1, <1>3, <1>4 DEF orderly
<1> QED
  BY <1>1, <1>2, <1>3, <1>5, <1>6 DEF orderly

LEMMA JoinedItems ==
    ASSUME NEW items \in Seq(Item), NEW c \in Callers,
           NEW more, more = Append(items, [caller |-> c, expired |-> FALSE])
    PROVE  /\ more \in Seq(Item) /\ Len(more) = Len(items) + 1
           /\ \A i \in 1..Len(items) : more[i] = items[i]
           /\ more[Len(items) + 1].caller = c
<1>1. PICK item : item = [caller |-> c, expired |-> FALSE]
  OBVIOUS
<1>2. item \in Item /\ item.caller = c
  BY <1>1 DEF Item
<1> QED
  BY <1>1, <1>2, AppendProperties

LEMMA JoinedOrderly ==
    ASSUME NEW items \in Seq(Item), NEW where, NEW c \in Callers,
           orderly(items, where), where[c] # "waiting",
           NEW more, Len(more) = Len(items) + 1,
           \A i \in 1..Len(items) : more[i] = items[i],
           more[Len(items) + 1].caller = c,
           NEW after, after[c] = "waiting",
           \A d \in Callers \ {c} : after[d] = where[d]
    PROVE  orderly(more, after)
<1>1. \A i \in 1..Len(more) : i \in 1..Len(items) \/ i = Len(items) + 1
  BY LenProperties
<1>2. \A i \in 1..Len(items) : items[i].caller # c
  BY DEF orderly
<1> QED
  BY <1>1, <1>2 DEF orderly

(***************************************************************************)
(* Bulkhead: the slots.                                                    *)
(***************************************************************************)
runningIn(where) == {c \in Callers : where[c] = "running"}

typedPc(where) ==
    where \in [Callers -> {"idle", "waiting", "resumed", "rejected",
                           "running", "backoff", "done", "failed"}]

SlotsInv ==
    /\ typedPc(pc)
    /\ attempt \in [Callers -> 0..maxRetries]
    /\ behind \in [Callers -> SUBSET Callers]
    /\ queue \in Seq(Item)
    /\ Len(queue) <= QueueLimit
    /\ orderly(queue, pc)
    /\ active = Cardinality(runningIn(pc))

LEMMA SlotsCounted ==
    ASSUME NEW where
    PROVE  /\ IsFiniteSet(runningIn(where))
           /\ Cardinality(runningIn(where)) \in Nat
           /\ Cardinality(runningIn(where)) <= Cardinality(Callers)
<1>1. runningIn(where) \subseteq Callers
  BY DEF runningIn
<1> QED
  BY <1>1, CallersAssumption, FS_Subset, FS_CardinalityType

LEMMA SlotTaken ==
    ASSUME NEW where, NEW c \in Callers, where[c] # "running",
           NEW after, after[c] = "running",
           \A d \in Callers \ {c} : after[d] = where[d]
    PROVE  Cardinality(runningIn(after)) = Cardinality(runningIn(where)) + 1
<1>1. runningIn(after) = runningIn(where) \cup {c} /\ c \notin runningIn(where)
  BY DEF runningIn
<1> QED
  BY <1>1, SlotsCounted, FS_AddElement

LEMMA SlotFreed ==
    ASSUME NEW where, NEW c \in Callers, where[c] = "running",
           NEW after, after[c] # "running",
           \A d \in Callers \ {c} : after[d] = "running" <=> where[d] = "running"
    PROVE  Cardinality(runningIn(after)) = Cardinality(runningIn(where)) - 1
<1>1. runningIn(after) = runningIn(where) \ {c} /\ c \in runningIn(where)
  BY DEF runningIn
<1> QED
  BY <1>1, SlotsCounted, FS_RemoveElement

LEMMA SlotsKept ==
    ASSUME NEW where, NEW after,
           \A d \in Callers : after[d] = "running" <=> where[d] = "running"
    PROVE  Cardinality(runningIn(after)) = Cardinality(runningIn(where))
<1>1. runningIn(after) = runningIn(where)
  BY DEF runningIn
<1> QED
  BY <1>1

LEMMA ThrowsSlots ==
    ASSUME NEW c \in Callers, NEW where, typedPc(where),
           attempt \in [Callers -> 0..maxRetries], throws(c, where)
    PROVE  /\ typedPc(pc') /\ attempt' \in [Callers -> 0..maxRetries]
           /\ pc'[c] \in {"failed", "backoff"}
           /\ \A d \in Callers \ {c} : pc'[d] = where[d]
<1>1. CASE attempt[c] >= maxRetries
  BY <1>1 DEF throws, typedPc
<1>2. CASE ~(attempt[c] >= maxRetries)
  <2>1. attempt[c] \in 0..maxRetries /\ maxRetries \in Nat
    BY BulkheadAssumption
  <2>2. attempt[c] + 1 \in 0..maxRetries
    BY <1>2, <2>1
  <2> QED
    BY <1>2, <2>2 DEF throws, typedPc
<1> QED
  BY <1>1, <1>2

LEMMA AnswersSlots ==
    ASSUME NEW c \in Callers, NEW where, typedPc(where), NEW ok,
           attempt \in [Callers -> 0..maxRetries], answers(c, ok, where)
    PROVE  /\ typedPc(pc') /\ attempt' \in [Callers -> 0..maxRetries]
           /\ pc'[c] \in {"done", "failed", "backoff"}
           /\ \A d \in Callers \ {c} : pc'[d] = where[d]
<1>1. CASE ok
  BY <1>1 DEF answers, typedPc
<1>2. CASE ~ok
  <2>1. throws(c, where)
    BY <1>2 DEF answers
  <2> QED
    BY <2>1, ThrowsSlots
<1> QED
  BY <1>1, <1>2

LEMMA StillOrderly ==
    ASSUME NEW items, NEW where, orderly(items, where), NEW after,
           \A i \in 1..Len(items) : after[items[i].caller] = where[items[i].caller]
    PROVE  orderly(items, after)
  BY DEF orderly

LEMMA EnterSlots ==
    ASSUME SlotsInv, NEW c \in Callers, pc[c] \in {"idle", "backoff"}, Enter(c)
    PROVE  SlotsInv'
<1>1. /\ typedPc(pc) /\ attempt \in [Callers -> 0..maxRetries]
      /\ behind \in [Callers -> SUBSET Callers] /\ queue \in Seq(Item)
      /\ Len(queue) <= QueueLimit /\ orderly(queue, pc)
      /\ active = Cardinality(runningIn(pc))
  BY DEF SlotsInv
<1>2. PICK rest : rest = kept
  OBVIOUS
<1>3. /\ rest \in Seq(Item) /\ Len(rest) <= Len(queue) /\ orderly(rest, pc)
  BY <1>1, <1>2, UnexpiredOrderly DEF kept
<1>4. Len(queue) \in Nat /\ Len(rest) \in Nat /\ QueueLimit \in Nat
  BY <1>1, <1>3, LenProperties, BulkheadAssumption
<1>5. \A i \in 1..Len(rest) : rest[i].caller \in Callers \ {c}
  BY <1>3 DEF orderly
<1>6. \A i \in 1..Len(queue) : queue[i].caller \in Callers \ {c}
  BY <1>1 DEF orderly
<1>7. CASE active < maxConcurrent
  <2>1. /\ active' = active + 1 /\ pc' = [pc EXCEPT ![c] = "running"]
        /\ behind' = [behind EXCEPT ![c] = At("resumed")]
        /\ queue' = queue /\ attempt' = attempt
    BY <1>7 DEF Enter
  <2>2. /\ typedPc(pc') /\ pc'[c] = "running"
        /\ \A d \in Callers \ {c} : pc'[d] = pc[d]
    BY <1>1, <2>1 DEF typedPc
  <2>3. behind' \in [Callers -> SUBSET Callers]
    BY <1>1, <2>1 DEF At
  <2>4. active' = Cardinality(runningIn(pc'))
    BY <1>1, <2>1, <2>2, SlotTaken
  <2>5. orderly(queue, pc')
    BY <1>1, <1>6, <2>2, StillOrderly
  <2> QED
    BY <1>1, <2>1, <2>2, <2>3, <2>4, <2>5 DEF SlotsInv, orderly
<1>8. CASE ~(active < maxConcurrent) /\ full(rest)
  <2>1. queue' = rest /\ throws(c, pc) /\ active' = active /\ behind' = behind
    BY <1>2, <1>8 DEF Enter
  <2>2. /\ typedPc(pc') /\ attempt' \in [Callers -> 0..maxRetries]
        /\ pc'[c] \in {"failed", "backoff"}
        /\ \A d \in Callers \ {c} : pc'[d] = pc[d]
    BY <1>1, <2>1, ThrowsSlots
  <2>3. active' = Cardinality(runningIn(pc'))
    BY <1>1, <2>1, <2>2, SlotsKept
  <2>4. orderly(rest, pc')
    BY <1>3, <1>5, <2>2, StillOrderly
  <2> QED
    BY <1>1, <1>3, <1>4, <2>1, <2>2, <2>3, <2>4 DEF SlotsInv, orderly
<1>9. CASE ~(active < maxConcurrent) /\ ~full(rest)
  <2>1. /\ queue' = Append(rest, [caller |-> c, expired |-> FALSE])
        /\ pc' = [pc EXCEPT ![c] = "waiting"]
        /\ active' = active /\ attempt' = attempt /\ behind' = behind
    BY <1>2, <1>9, Zenon DEF Enter
  <2>2. /\ pc' = [pc EXCEPT ![c] = "waiting"]
        /\ active' = active /\ attempt' = attempt /\ behind' = behind
    BY <2>1, Zenon
  <2>3. /\ typedPc(pc') /\ pc'[c] = "waiting"
        /\ \A d \in Callers \ {c} : pc'[d] = pc[d]
    BY <1>1, <2>2 DEF typedPc
  <2>4. active' = Cardinality(runningIn(pc'))
    BY <1>1, <2>2, <2>3, SlotsKept
  <2>5. /\ queue' \in Seq(Item) /\ Len(queue') = Len(rest) + 1
        /\ \A i \in 1..Len(rest) : queue'[i] = rest[i]
        /\ queue'[Len(rest) + 1].caller = c
    BY <1>3, <2>1, JoinedItems
  <2>6. orderly(queue', pc')
    BY <1>3, <2>3, <2>5, JoinedOrderly
  <2>7. Len(queue') <= QueueLimit
    BY <1>4, <1>9, <2>5 DEF full
  <2> QED
    BY <1>1, <2>2, <2>3, <2>4, <2>5, <2>6, <2>7 DEF SlotsInv
<1> QED
  BY <1>7, <1>8, <1>9

LEMMA ResumeSlots ==
    ASSUME SlotsInv, NEW c \in Callers, Resume(c)
    PROVE  SlotsInv'
<1>1. /\ typedPc(pc) /\ attempt \in [Callers -> 0..maxRetries]
      /\ behind \in [Callers -> SUBSET Callers] /\ queue \in Seq(Item)
      /\ Len(queue) <= QueueLimit /\ orderly(queue, pc)
      /\ active = Cardinality(runningIn(pc))
  BY DEF SlotsInv
<1>2. /\ pc[c] = "resumed" /\ active' = active + 1
      /\ pc' = [pc EXCEPT ![c] = "running"]
      /\ behind' = [d \in Callers |-> behind[d] \ {c}]
      /\ queue' = queue /\ attempt' = attempt
  BY DEF Resume, takesSlot
<1>3. /\ typedPc(pc') /\ pc'[c] = "running"
      /\ \A d \in Callers \ {c} : pc'[d] = pc[d]
  BY <1>1, <1>2 DEF typedPc
<1>4. behind' \in [Callers -> SUBSET Callers]
  BY <1>1, <1>2
<1>5. active' = Cardinality(runningIn(pc'))
  BY <1>1, <1>2, <1>3, SlotTaken
<1>6. \A i \in 1..Len(queue) : queue[i].caller \in Callers \ {c}
  BY <1>1, <1>2 DEF orderly
<1>7. orderly(queue, pc')
  BY <1>1, <1>3, <1>6, StillOrderly
<1> QED
  BY <1>1, <1>2, <1>3, <1>4, <1>5, <1>7 DEF SlotsInv, orderly

LEMMA ExpelSlots ==
    ASSUME SlotsInv, NEW c \in Callers, Expel(c)
    PROVE  SlotsInv'
<1>1. /\ typedPc(pc) /\ attempt \in [Callers -> 0..maxRetries]
      /\ behind \in [Callers -> SUBSET Callers] /\ queue \in Seq(Item)
      /\ Len(queue) <= QueueLimit /\ orderly(queue, pc)
      /\ active = Cardinality(runningIn(pc))
  BY DEF SlotsInv
<1>2. /\ pc[c] = "rejected" /\ throws(c, pc)
      /\ active' = active /\ queue' = queue /\ behind' = behind
  BY DEF Expel
<1>3. /\ typedPc(pc') /\ attempt' \in [Callers -> 0..maxRetries]
      /\ pc'[c] \in {"failed", "backoff"}
      /\ \A d \in Callers \ {c} : pc'[d] = pc[d]
  BY <1>1, <1>2, ThrowsSlots
<1>4. active' = Cardinality(runningIn(pc'))
  BY <1>1, <1>2, <1>3, SlotsKept
<1>5. \A i \in 1..Len(queue) : queue[i].caller \in Callers \ {c}
  BY <1>1, <1>2 DEF orderly
<1>6. orderly(queue, pc')
  <2>1. \A i \in 1..Len(queue) : pc'[queue[i].caller] = pc[queue[i].caller]
    BY <1>3, <1>5
  <2> QED
    BY <1>1, <2>1 DEF orderly
<1> QED
  BY <1>1, <1>2, <1>3, <1>4, <1>6 DEF SlotsInv, orderly

LEMMA SettleSlots ==
    ASSUME SlotsInv, NEW c \in Callers, NEW ok \in BOOLEAN, Settle(c, ok)
    PROVE  SlotsInv'
<1>1. /\ typedPc(pc) /\ attempt \in [Callers -> 0..maxRetries]
      /\ behind \in [Callers -> SUBSET Callers] /\ queue \in Seq(Item)
      /\ Len(queue) <= QueueLimit /\ orderly(queue, pc)
      /\ active = Cardinality(runningIn(pc))
  BY DEF SlotsInv
<1>2. pc[c] = "running"
  BY DEF Settle
<1>3. \A i \in 1..Len(queue) : queue[i].caller \in Callers \ {c}
  BY <1>1, <1>2 DEF orderly
<1>4. CASE ~wakes(ok)
  <2>1. /\ active' = active - 1 /\ answers(c, ok, pc)
        /\ queue' = queue /\ behind' = behind
    BY <1>4 DEF Settle
  <2>2. /\ typedPc(pc') /\ attempt' \in [Callers -> 0..maxRetries]
        /\ pc'[c] \in {"done", "failed", "backoff"}
        /\ \A d \in Callers \ {c} : pc'[d] = pc[d]
    BY <1>1, <2>1, AnswersSlots
  <2>3. active' = Cardinality(runningIn(pc'))
    BY <1>1, <1>2, <2>1, <2>2, SlotFreed
  <2>4. orderly(queue, pc')
    <3>1. \A i \in 1..Len(queue) : pc'[queue[i].caller] = pc[queue[i].caller]
      BY <1>3, <2>2
    <3> QED
      BY <1>1, <3>1 DEF orderly
  <2> QED
    BY <1>1, <2>1, <2>2, <2>3, <2>4 DEF SlotsInv, orderly
<1>5. CASE wakes(ok)
  <2>1. PICK next, woken : /\ next = Head(queue).caller
                           /\ woken = [pc EXCEPT ![next] = "resumed"]
    OBVIOUS
  <2>2. /\ active' = active - 1 /\ queue' = Tail(queue) /\ behind' = behind
        /\ answers(c, ok, woken) /\ queue # <<>>
    BY <1>5, <2>1 DEF Settle, shifted, wakes
  <2>3. /\ Tail(queue) \in Seq(Item) /\ Len(Tail(queue)) = Len(queue) - 1
        /\ next \in Callers /\ pc[next] = "waiting"
        /\ orderly(Tail(queue), pc)
        /\ \A i \in 1..Len(Tail(queue)) : Tail(queue)[i].caller # next
    BY <1>1, <2>1, <2>2, ShiftedOrderly
  <2>4. /\ typedPc(woken) /\ woken[next] = "resumed" /\ next # c
        /\ \A d \in Callers \ {next} : woken[d] = pc[d]
    BY <1>1, <1>2, <2>1, <2>3 DEF typedPc
  <2>5. /\ typedPc(pc') /\ attempt' \in [Callers -> 0..maxRetries]
        /\ pc'[c] \in {"done", "failed", "backoff"}
        /\ \A d \in Callers \ {c} : pc'[d] = woken[d]
    BY <1>1, <2>2, <2>4, AnswersSlots
  <2>6. active' = Cardinality(runningIn(pc'))
    <3>1. \A d \in Callers \ {c} : pc'[d] = "running" <=> pc[d] = "running"
      BY <2>3, <2>4, <2>5
    <3> QED
      BY <1>1, <1>2, <2>2, <2>5, <3>1, SlotFreed
  <2>7. orderly(queue', pc')
    <3>1. \A i \in 1..Len(Tail(queue)) :
             Tail(queue)[i].caller \in Callers \ {c, next}
      BY <1>2, <2>3 DEF orderly
    <3>2. \A i \in 1..Len(Tail(queue)) :
             pc'[Tail(queue)[i].caller] = pc[Tail(queue)[i].caller]
      BY <2>4, <2>5, <3>1
    <3>3. orderly(Tail(queue), pc')
      BY <2>3, <3>2 DEF orderly
    <3> QED
      BY <2>2, <3>3
  <2>8. Len(queue') <= QueueLimit
    BY <1>1, <2>2, <2>3, LenProperties, BulkheadAssumption
  <2> QED
    BY <1>1, <2>2, <2>3, <2>5, <2>6, <2>7, <2>8 DEF SlotsInv
<1> QED
  BY <1>4, <1>5

LEMMA RerunSlots ==
    ASSUME SlotsInv, NEW c \in Callers, NEW ok \in BOOLEAN,
           SettleAndRerun(c, ok)
    PROVE  SlotsInv'
<1>1. /\ typedPc(pc) /\ attempt \in [Callers -> 0..maxRetries]
      /\ behind \in [Callers -> SUBSET Callers] /\ queue \in Seq(Item)
      /\ Len(queue) <= QueueLimit /\ orderly(queue, pc)
      /\ active = Cardinality(runningIn(pc))
  BY DEF SlotsInv
<1>2. pc[c] = "running" /\ queue # <<>>
  BY DEF SettleAndRerun, wakes
<1>3. PICK next, told, rest, left :
          /\ next = Head(queue).caller
          /\ told = [pc EXCEPT ![next] = "rejected"]
          /\ rest = Tail(queue) /\ left = unexpired(rest)
  OBVIOUS
<1>4. /\ rest \in Seq(Item) /\ Len(rest) = Len(queue) - 1
      /\ next \in Callers /\ pc[next] = "waiting" /\ orderly(rest, pc)
      /\ \A i \in 1..Len(rest) : rest[i].caller # next
  BY <1>1, <1>2, <1>3, ShiftedOrderly
<1>5. /\ typedPc(told) /\ told[next] = "rejected" /\ next # c
      /\ \A d \in Callers \ {next} : told[d] = pc[d]
  BY <1>1, <1>2, <1>3, <1>4 DEF typedPc
<1>6. orderly(rest, told)
  <2>1. \A i \in 1..Len(rest) : told[rest[i].caller] = pc[rest[i].caller]
    BY <1>4, <1>5 DEF orderly
  <2> QED
    BY <1>4, <2>1 DEF orderly
<1>7. left \in Seq(Item) /\ Len(left) <= Len(rest) /\ orderly(left, told)
  BY <1>3, <1>4, <1>6, UnexpiredOrderly
<1>8. /\ Len(queue) \in Nat /\ Len(rest) \in Nat /\ Len(left) \in Nat
      /\ QueueLimit \in Nat
  BY <1>1, <1>4, <1>7, LenProperties, BulkheadAssumption
<1>9. told[c] = "running"
  BY <1>2, <1>5
<1>10. CASE active - 1 < maxConcurrent
  <2>1. /\ queue' = rest /\ pc' = told
        /\ behind' = [behind EXCEPT ![c] = At("resumed")]
        /\ active' = active /\ attempt' = attempt
    BY <1>3, <1>10 DEF SettleAndRerun, shifted
  <2>2. behind' \in [Callers -> SUBSET Callers]
    BY <1>1, <2>1 DEF At
  <2>3. active' = Cardinality(runningIn(pc'))
    <3>1. \A d \in Callers : pc'[d] = "running" <=> pc[d] = "running"
      BY <1>4, <1>5, <2>1
    <3> QED
      BY <1>1, <2>1, <3>1, SlotsKept
  <2> QED
    BY <1>1, <1>4, <1>5, <1>6, <1>8, <2>1, <2>2, <2>3 DEF SlotsInv
<1>11. CASE ~(active - 1 < maxConcurrent) /\ full(left)
  <2>1. /\ queue' = left /\ throws(c, told)
        /\ active' = active - 1 /\ behind' = behind
    BY <1>3, <1>11 DEF SettleAndRerun, shifted
  <2>2. /\ typedPc(pc') /\ attempt' \in [Callers -> 0..maxRetries]
        /\ pc'[c] \in {"failed", "backoff"}
        /\ \A d \in Callers \ {c} : pc'[d] = told[d]
    BY <1>1, <1>5, <2>1, ThrowsSlots
  <2>3. active' = Cardinality(runningIn(pc'))
    <3>1. \A d \in Callers \ {c} : pc'[d] = "running" <=> pc[d] = "running"
      BY <1>4, <1>5, <2>2
    <3> QED
      BY <1>1, <1>2, <2>1, <2>2, <3>1, SlotFreed
  <2>4. orderly(left, pc')
    <3>1. \A i \in 1..Len(left) : pc'[left[i].caller] = told[left[i].caller]
      BY <1>7, <1>9, <2>2 DEF orderly
    <3> QED
      BY <1>7, <3>1 DEF orderly
  <2> QED
    BY <1>1, <1>4, <1>7, <1>8, <2>1, <2>2, <2>3, <2>4 DEF SlotsInv
<1>12. CASE ~(active - 1 < maxConcurrent) /\ ~full(left)
  <2>1. /\ queue' = Append(left, [caller |-> c, expired |-> FALSE])
        /\ pc' = [told EXCEPT ![c] = "waiting"]
        /\ active' = active - 1 /\ attempt' = attempt /\ behind' = behind
    BY <1>3, <1>12, Zenon DEF SettleAndRerun, shifted
  <2>2. /\ pc' = [told EXCEPT ![c] = "waiting"]
        /\ active' = active - 1 /\ attempt' = attempt /\ behind' = behind
    BY <2>1, Zenon
  <2>3. /\ typedPc(pc') /\ pc'[c] = "waiting"
        /\ \A d \in Callers \ {c} : pc'[d] = told[d]
    BY <1>5, <2>2 DEF typedPc
  <2>4. active' = Cardinality(runningIn(pc'))
    <3>1. \A d \in Callers \ {c} : pc'[d] = "running" <=> pc[d] = "running"
      BY <1>4, <1>5, <2>3
    <3> QED
      BY <1>1, <1>2, <2>2, <2>3, <3>1, SlotFreed
  <2>5. /\ queue' \in Seq(Item) /\ Len(queue') = Len(left) + 1
        /\ \A i \in 1..Len(left) : queue'[i] = left[i]
        /\ queue'[Len(left) + 1].caller = c
    BY <1>7, <2>1, JoinedItems
  <2>6. orderly(queue', pc')
    BY <1>7, <1>9, <2>3, <2>5, JoinedOrderly
  <2>7. Len(queue') <= QueueLimit
    BY <1>8, <1>12, <2>5 DEF full
  <2> QED
    BY <1>1, <2>2, <2>3, <2>4, <2>5, <2>6, <2>7 DEF SlotsInv
<1> QED
  BY <1>10, <1>11, <1>12

LEMMA ExpireSlots == SlotsInv /\ Expire => SlotsInv'
<1> SUFFICES ASSUME SlotsInv, Expire PROVE SlotsInv'
  OBVIOUS
<1>1. PICK i \in DOMAIN queue : queue' = [queue EXCEPT ![i].expired = TRUE]
  BY Zenon DEF Expire
<1>2. pc' = pc /\ active' = active /\ attempt' = attempt /\ behind' = behind
  BY DEF Expire
<1>3. queue \in Seq(Item) /\ Len(queue) <= QueueLimit /\ orderly(queue, pc)
  BY DEF SlotsInv
<1>4. DOMAIN queue = 1..Len(queue) /\ queue[i] \in Item
  BY <1>3, LenProperties, ElementOfSeq
<1>5. PICK item : item = [queue[i] EXCEPT !.expired = TRUE]
  OBVIOUS
<1>6. item \in Item /\ item.caller = queue[i].caller
  BY <1>4, <1>5 DEF Item
<1>7. queue' = [queue EXCEPT ![i] = item]
  BY <1>1, <1>5, Zenon
<1>8. /\ queue' \in Seq(Item) /\ Len(queue') = Len(queue)
      /\ \A j \in 1..Len(queue) : queue'[j] = IF j = i THEN item ELSE queue[j]
  BY <1>3, <1>4, <1>6, <1>7, ExceptSeq
<1>9. \A j \in 1..Len(queue) : queue'[j].caller = queue[j].caller
  BY <1>6, <1>8
<1>10. orderly(queue', pc')
  BY <1>2, <1>3, <1>8, <1>9 DEF orderly
<1> QED
  BY <1>2, <1>8, <1>10 DEF SlotsInv, runningIn, typedPc

LEMMA SlotsStep == SlotsInv /\ [BulkheadNext]_bulkheadVars => SlotsInv'
<1> SUFFICES ASSUME SlotsInv, [BulkheadNext]_bulkheadVars PROVE SlotsInv'
  OBVIOUS
<1>1. ASSUME NEW c \in Callers, Call(c) PROVE SlotsInv'
  BY <1>1, EnterSlots DEF Call
<1>2. ASSUME NEW c \in Callers, Retry(c) PROVE SlotsInv'
  BY <1>2, EnterSlots DEF Retry
<1>3. CASE UNCHANGED bulkheadVars
  BY <1>3 DEF bulkheadVars, SlotsInv, orderly, typedPc, runningIn
<1> QED
  BY <1>1, <1>2, <1>3, ResumeSlots, ExpelSlots, SettleSlots, RerunSlots,
     ExpireSlots DEF BulkheadNext, Step

LEMMA SlotsInit == BulkheadInit => SlotsInv
<1> SUFFICES ASSUME BulkheadInit PROVE SlotsInv
  OBVIOUS
<1>1. runningIn(pc) = {} /\ Cardinality({}) = 0
  BY FS_EmptySet DEF BulkheadInit, runningIn
<1>2. queue \in Seq(Item) /\ Len(queue) = 0 /\ queue = <<>>
  BY DEF BulkheadInit
<1>3. typedPc(pc) /\ behind \in [Callers -> SUBSET Callers]
  BY DEF BulkheadInit, typedPc
<1>4. attempt \in [Callers -> 0..maxRetries]
  BY BulkheadAssumption DEF BulkheadInit
<1>5. active = Cardinality(runningIn(pc))
  BY <1>1 DEF BulkheadInit
<1>6. Len(queue) <= QueueLimit /\ orderly(queue, pc)
  BY <1>2, BulkheadAssumption DEF orderly
<1> QED
  BY <1>2, <1>3, <1>4, <1>5, <1>6 DEF SlotsInv

LEMMA SlotsInvImplies == SlotsInv => SlotsConserved /\ BulkheadTypeOK
<1> SUFFICES ASSUME SlotsInv PROVE SlotsConserved /\ BulkheadTypeOK
  OBVIOUS
<1>1. active = Cardinality(runningIn(pc))
  BY DEF SlotsInv
<1>2. runningIn(pc) = At("running")
  BY DEF runningIn, At
<1>3. active \in 0..Cardinality(Callers)
  BY <1>1, SlotsCounted, CallersAssumption, FS_CardinalityType
<1> QED
  BY <1>1, <1>2, <1>3 DEF SlotsInv, SlotsConserved, BulkheadTypeOK, typedPc

(***************************************************************************)
(* The bulkhead's counter is the number of runs that hold a slot, whatever *)
(* settles, throws, expires or is run again, for any number of callers,    *)
(* any limits and any number of retries.                                   *)
(***************************************************************************)
THEOREM SlotsNeverLeak == BulkheadSpec => []SlotsConserved
  BY SlotsInit, SlotsStep, SlotsInvImplies, PTL DEF BulkheadSpec

-----------------------------------------------------------------------------
(***************************************************************************)
(* SelfHealEngine.  HealsSpaced needs to know that the heal a cycle awaits *)
(* was due, and still is unless another heal of the action overlapped it.  *)
(***************************************************************************)
Healing == {"heal", "undo", "undoAgain"}

CycleStates == [at : {"rest", "probing", "heal", "undo", "undoAgain"},
                now : 0..MaxHealTime, i : 0..Len(healActions)]

inHeal(where) == {c \in Cycles : where[c].at \in Healing}

typedCycles(where) ==
    /\ where \in [Cycles -> CycleStates]
    /\ \A c \in Cycles : where[c].at \in Healing => where[c].i \in 1..Len(healActions)

typedTimes(times) == times \in [HealActions -> 0..MaxHealTime]

\* What the cycles in where heal now was due, or has been overtaken.
healsDue(where, times, late) ==
    \A c \in Cycles : where[c].at = "heal" =>
        \/ healActions[where[c].i] \in late
        \/ where[c].now >= times[healActions[where[c].i]] + healCooldown

\* Two heals of one action at a time have been noticed.
overlapsSeen(where, late) ==
    \A c, d \in Cycles :
        /\ c # d
        /\ where[c].at = "heal"
        /\ where[d].at = "heal"
        /\ healActions[where[c].i] = healActions[where[d].i]
        => healActions[where[c].i] \in late

HealInv ==
    /\ typedCycles(cycle)
    /\ typedTimes(lastHealTimes)
    /\ clock \in 0..MaxHealTime
    /\ overtaken \subseteq HealActions
    /\ activeHeals = Cardinality(inHeal(cycle))
    /\ activeHeals <= maxConcurrentHeals
    /\ healsDue(cycle, lastHealTimes, overtaken)
    /\ overlapsSeen(cycle, overtaken)

LEMMA LeastExists ==
    ASSUME NEW T \in SUBSET Nat, T # {}
    PROVE  \E m \in T : \A k \in T : m <= k
<1> DEFINE R == {ss \in Nat \X Nat : ss[1] < ss[2]}
<1>1. IsWellFoundedOn(R, Nat)
  BY NatLessThanWellFounded DEF OpToRel
<1>2. \E m \in T : \A k \in T : ~ (<<k, m>> \in R)
  <2> HIDE DEF R
  <2> QED
    BY <1>1, WFMin
<1>3. PICK m \in T : \A k \in T : ~ (<<k, m>> \in R)
  BY <1>2
<1>4. ASSUME NEW k \in T PROVE m <= k
  <2>1. <<k, m>> \notin R /\ <<k, m>> \in Nat \X Nat
    BY <1>3
  <2>2. ~(<<k, m>>[1] < <<k, m>>[2])
    BY <2>1
  <2> QED
    BY <2>1, <2>2
<1> QED
  BY <1>3, <1>4

LEMMA InHealFinite ==
    ASSUME NEW where
    PROVE  IsFiniteSet(inHeal(where)) /\ Cardinality(inHeal(where)) \in Nat
<1>1. inHeal(where) \subseteq Cycles /\ IsFiniteSet(Cycles)
  BY HealAssumption DEF inHeal
<1> QED
  BY <1>1, FS_Subset, FS_CardinalityType

LEMMA HealBegins ==
    ASSUME NEW where, NEW after, NEW c \in Cycles,
           where[c].at \notin Healing, after[c].at \in Healing,
           \A d \in Cycles \ {c} : after[d] = where[d]
    PROVE  Cardinality(inHeal(after)) = Cardinality(inHeal(where)) + 1
<1>1. inHeal(after) = inHeal(where) \cup {c} /\ c \notin inHeal(where)
  BY DEF inHeal
<1> QED
  BY <1>1, InHealFinite, FS_AddElement

LEMMA HealEnds ==
    ASSUME NEW where, NEW after, NEW c \in Cycles,
           where[c].at \in Healing, after[c].at \notin Healing,
           \A d \in Cycles \ {c} : after[d] = where[d]
    PROVE  Cardinality(inHeal(after)) = Cardinality(inHeal(where)) - 1
<1>1. inHeal(after) = inHeal(where) \ {c} /\ c \in inHeal(where)
  BY DEF inHeal
<1> QED
  BY <1>1, InHealFinite, FS_RemoveElement

LEMMA HealGoesOn ==
    ASSUME NEW where, NEW after,
           \A d \in Cycles : after[d].at \in Healing <=> where[d].at \in Healing
    PROVE  Cardinality(inHeal(after)) = Cardinality(inHeal(where))
<1>1. inHeal(after) = inHeal(where)
  BY DEF inHeal
<1> QED
  BY <1>1

(***************************************************************************)
(* The loop of applyHealActions: it ends, or it begins a heal that is due. *)
(***************************************************************************)
LEMMA ProceedHeals ==
    ASSUME typedCycles(cycle), NEW c \in Cycles, NEW now \in 0..MaxHealTime,
           NEW i \in Nat, i > 0, NEW heals \in Nat, heals <= maxConcurrentHeals,
           NEW times, NEW wanted, overtaken \subseteq HealActions,
           proceed(c, now, i, heals, times, wanted)
    PROVE  /\ typedCycles(cycle') /\ overtaken' \subseteq HealActions
           /\ overtaken \subseteq overtaken'
           /\ \A d \in Cycles \ {c} : cycle'[d] = cycle[d]
           /\ activeHeals' <= maxConcurrentHeals
           /\ \/ cycle'[c].at = "rest" /\ activeHeals' = heals
              \/ /\ cycle'[c].at = "heal" /\ activeHeals' = heals + 1
                 /\ cycle'[c].now >= times[healActions[cycle'[c].i]] + healCooldown
                 /\ \A d \in Cycles \ {c} :
                       /\ cycle[d].at = "heal"
                       /\ healActions[cycle[d].i] = healActions[cycle'[c].i]
                       => healActions[cycle[d].i] \in overtaken'
<1>1. PICK hits : hits = dueFrom(i, now, times, wanted)
  OBVIOUS
<1>2. CASE heals >= maxConcurrentHeals \/ hits = {}
  <2>1. /\ cycle' = [cycle EXCEPT ![c] = AtRest] /\ activeHeals' = heals
        /\ overtaken' = overtaken
    BY <1>1, <1>2 DEF proceed
  <2>2. AtRest \in CycleStates /\ AtRest.at = "rest"
    BY HealAssumption DEF AtRest, CycleStates
  <2> QED
    BY <2>1, <2>2 DEF typedCycles, Healing
<1>3. CASE ~(heals >= maxConcurrentHeals \/ hits = {})
  <2>1. PICK j : j = firstOf(hits)
    OBVIOUS
  <2>2. j \in hits
    <3>1. hits \in SUBSET Nat
      BY <1>1, HealAssumption DEF dueFrom
    <3>2. \E k \in hits : \A h \in hits : k <= h
      BY <1>3, <3>1, LeastExists
    <3> QED
      BY <2>1, <3>2 DEF firstOf
  <2>3. /\ j \in 1..Len(healActions) /\ now >= times[healActions[j]] + healCooldown
        /\ healActions[j] \in HealActions
    BY <1>1, <2>2, HealAssumption DEF dueFrom, due, HealActions
  <2>4. PICK next : next = [at |-> "heal", now |-> now, i |-> j]
    OBVIOUS
  <2>5. next \in CycleStates /\ next.at = "heal" /\ next.i = j /\ next.now = now
    BY <2>3, <2>4, HealAssumption DEF CycleStates
  <2>6. /\ cycle' = [cycle EXCEPT ![c] = next] /\ activeHeals' = heals + 1
        /\ overtaken' = overtaken \cup overlapped(c, j)
    BY <1>1, <1>3, <2>1, <2>4 DEF proceed
  <2>7. typedCycles(cycle') /\ cycle'[c] = next
        /\ \A d \in Cycles \ {c} : cycle'[d] = cycle[d]
    BY <2>3, <2>5, <2>6 DEF typedCycles
  <2>8. activeHeals' <= maxConcurrentHeals
    BY <1>3, <2>6, HealAssumption
  <2>9. \A d \in Cycles \ {c} : cycle[d].at = "heal" /\ healActions[cycle[d].i] = healActions[j]
                                => healActions[cycle[d].i] \in overtaken'
    BY <2>6 DEF overlapped
  <2>10. overtaken' \subseteq HealActions /\ overtaken \subseteq overtaken'
    BY <2>3, <2>6 DEF overlapped
  <2> QED
    BY <2>3, <2>5, <2>6, <2>7, <2>8, <2>9, <2>10
<1> QED
  BY <1>2, <1>3

LEMMA ProceedInv ==
    ASSUME HealInv, NEW c \in Cycles, NEW now \in 0..MaxHealTime,
           NEW i \in Nat, i > 0, NEW heals \in Nat,
           \/ cycle[c].at \in Healing /\ heals = activeHeals - 1
           \/ cycle[c].at \notin Healing /\ heals = activeHeals,
           NEW times, typedTimes(times), NEW wanted,
           \A d \in Cycles \ {c} : cycle[d].at = "heal" =>
               \/ healActions[cycle[d].i] \in overtaken
               \/ cycle[d].now >= times[healActions[cycle[d].i]] + healCooldown,
           lastHealTimes' = times, clock' = clock,
           proceed(c, now, i, heals, times, wanted)
    PROVE  HealInv'
<1>1. /\ typedCycles(cycle) /\ overtaken \subseteq HealActions
      /\ activeHeals = Cardinality(inHeal(cycle))
      /\ activeHeals <= maxConcurrentHeals /\ clock \in 0..MaxHealTime
      /\ overlapsSeen(cycle, overtaken)
  BY DEF HealInv
<1>2. heals <= maxConcurrentHeals
  BY <1>1, InHealFinite, HealAssumption
<1>3. /\ typedCycles(cycle') /\ overtaken' \subseteq HealActions
      /\ overtaken \subseteq overtaken'
      /\ \A d \in Cycles \ {c} : cycle'[d] = cycle[d]
      /\ activeHeals' <= maxConcurrentHeals
      /\ \/ cycle'[c].at = "rest" /\ activeHeals' = heals
         \/ /\ cycle'[c].at = "heal" /\ activeHeals' = heals + 1
            /\ cycle'[c].now >= times[healActions[cycle'[c].i]] + healCooldown
            /\ \A d \in Cycles \ {c} :
                  /\ cycle[d].at = "heal"
                  /\ healActions[cycle[d].i] = healActions[cycle'[c].i]
                  => healActions[cycle[d].i] \in overtaken'
  BY <1>1, <1>2, ProceedHeals
<1>4. activeHeals' = Cardinality(inHeal(cycle'))
  <2>1. CASE cycle[c].at \in Healing /\ cycle'[c].at = "rest"
    <3>1. cycle'[c].at \notin Healing
      BY <2>1 DEF Healing
    <3> QED
      BY <1>1, <1>3, <2>1, <3>1, HealEnds
  <2>2. CASE cycle[c].at \in Healing /\ cycle'[c].at = "heal"
    <3>1. cycle'[c].at \in Healing
      BY <2>2 DEF Healing
    <3>2. \A d \in Cycles : cycle'[d].at \in Healing <=> cycle[d].at \in Healing
      BY <1>3, <2>2, <3>1
    <3> QED
      BY <1>1, <1>3, <2>2, <3>2, HealGoesOn, InHealFinite
  <2>3. CASE cycle[c].at \notin Healing /\ cycle'[c].at = "rest"
    <3>1. cycle'[c].at \notin Healing
      BY <2>3 DEF Healing
    <3>2. \A d \in Cycles : cycle'[d].at \in Healing <=> cycle[d].at \in Healing
      BY <1>3, <2>3, <3>1
    <3> QED
      BY <1>1, <1>3, <2>3, <3>2, HealGoesOn
  <2>4. CASE cycle[c].at \notin Healing /\ cycle'[c].at = "heal"
    <3>1. cycle'[c].at \in Healing
      BY <2>4 DEF Healing
    <3> QED
      BY <1>1, <1>3, <2>4, <3>1, HealBegins
  <2> QED
    BY <1>3, <2>1, <2>2, <2>3, <2>4
<1>5. healsDue(cycle', times, overtaken')
  BY <1>3 DEF healsDue
<1>6. overlapsSeen(cycle', overtaken')
  <2> SUFFICES ASSUME NEW d \in Cycles, NEW e \in Cycles, d # e,
                      cycle'[d].at = "heal", cycle'[e].at = "heal",
                      healActions[cycle'[d].i] = healActions[cycle'[e].i]
               PROVE  healActions[cycle'[d].i] \in overtaken'
    BY DEF overlapsSeen
  <2>1. CASE d # c /\ e # c
    BY <1>1, <1>3, <2>1 DEF overlapsSeen
  <2>2. CASE d = c
    BY <1>3, <2>2
  <2>3. CASE e = c
    BY <1>3, <2>3
  <2> QED
    BY <2>1, <2>2, <2>3
<1> QED
  BY <1>1, <1>3, <1>4, <1>5, <1>6 DEF HealInv

LEMMA MoveOnInv ==
    ASSUME HealInv, NEW c \in Cycles, cycle[c].at \in Healing,
           NEW times, typedTimes(times),
           \A d \in Cycles \ {c} : cycle[d].at = "heal" =>
               \/ healActions[cycle[d].i] \in overtaken
               \/ cycle[d].now >= times[healActions[cycle[d].i]] + healCooldown,
           clock' = clock, moveOn(c, times)
    PROVE  HealInv'
<1>1. PICK wanted \in SUBSET HealActions :
         proceed(c, cycle[c].now, cycle[c].i + 1, freed, times, wanted)
  BY DEF moveOn
<1>2. PICK now, i, heals : now = cycle[c].now /\ i = cycle[c].i + 1 /\ heals = freed
  OBVIOUS
<1>3. now \in 0..MaxHealTime /\ i \in Nat /\ i > 0
  BY <1>2, HealAssumption DEF HealInv, typedCycles, CycleStates
<1>4. heals \in Nat /\ heals = activeHeals - 1
  <2>1. c \in inHeal(cycle)
    BY DEF inHeal
  <2>2. Cardinality(inHeal(cycle)) # 0
    BY <2>1, InHealFinite, FS_EmptySet
  <2> QED
    BY <1>2, <2>2, InHealFinite DEF HealInv, freed
<1>5. lastHealTimes' = times
  BY DEF moveOn
<1>6. proceed(c, now, i, heals, times, wanted)
  BY <1>1, <1>2
<1> QED
  BY <1>3, <1>4, <1>5, <1>6, ProceedInv

LEMMA WaitInv ==
    ASSUME HealInv, NEW c \in Cycles, cycle[c].at \in {"heal", "undo"},
           NEW where \in {"undo", "undoAgain"}, waitAt(c, where),
           typedTimes(lastHealTimes'), clock' = clock,
           \A d \in Cycles \ {c} : cycle[d].at = "heal" =>
               \/ healActions[cycle[d].i] \in overtaken
               \/ cycle[d].now >= lastHealTimes'[healActions[cycle[d].i]] + healCooldown
    PROVE  HealInv'
<1>1. /\ typedCycles(cycle) /\ overtaken \subseteq HealActions
      /\ activeHeals = Cardinality(inHeal(cycle))
      /\ activeHeals <= maxConcurrentHeals /\ clock \in 0..MaxHealTime
      /\ overlapsSeen(cycle, overtaken)
  BY DEF HealInv
<1>2. /\ cycle' = [cycle EXCEPT ![c].at = where]
      /\ activeHeals' = activeHeals /\ overtaken' = overtaken
  BY DEF waitAt
<1>3. cycle'[c].at = where /\ cycle'[c].i = cycle[c].i /\ cycle'[c].now = cycle[c].now
      /\ \A d \in Cycles \ {c} : cycle'[d] = cycle[d]
  BY <1>1, <1>2 DEF typedCycles, CycleStates
<1>4. typedCycles(cycle')
  BY <1>1, <1>2, <1>3 DEF typedCycles, CycleStates, Healing
<1>5. \A d \in Cycles : cycle'[d].at \in Healing <=> cycle[d].at \in Healing
  BY <1>3 DEF Healing
<1>6. activeHeals' = Cardinality(inHeal(cycle'))
  BY <1>1, <1>2, <1>5, HealGoesOn
<1>7. cycle'[c].at # "heal"
  BY <1>3
<1>8. healsDue(cycle', lastHealTimes', overtaken') /\ overlapsSeen(cycle', overtaken')
  BY <1>1, <1>2, <1>3, <1>7 DEF healsDue, overlapsSeen
<1> QED
  BY <1>1, <1>2, <1>4, <1>6, <1>8 DEF HealInv

\* What a return of heal() leaves of the other cycles' heals.
LEMMA ReturnLeavesDue ==
    ASSUME HealInv, NEW c \in Cycles, cycle[c].at = "heal", NEW times,
           times = [lastHealTimes EXCEPT ![healActions[cycle[c].i]] = cycle[c].now]
    PROVE  /\ typedTimes(times)
           /\ \A d \in Cycles \ {c} : cycle[d].at = "heal" =>
                 \/ healActions[cycle[d].i] \in overtaken
                 \/ cycle[d].now >= times[healActions[cycle[d].i]] + healCooldown
<1>1. typedCycles(cycle) /\ typedTimes(lastHealTimes)
  BY DEF HealInv
<1>2. \A d \in Cycles : cycle[d].at = "heal" =>
          healActions[cycle[d].i] \in HealActions /\ cycle[d].now \in 0..MaxHealTime
  BY <1>1, HealAssumption DEF typedCycles, CycleStates, HealActions, Healing
<1>3. typedTimes(times)
  BY <1>1, <1>2 DEF typedTimes
<1>4. ASSUME NEW d \in Cycles \ {c}, cycle[d].at = "heal",
             healActions[cycle[d].i] \notin overtaken
      PROVE  cycle[d].now >= times[healActions[cycle[d].i]] + healCooldown
  <2>1. healActions[cycle[d].i] # healActions[cycle[c].i]
    BY <1>4 DEF HealInv, overlapsSeen
  <2>2. times[healActions[cycle[d].i]] = lastHealTimes[healActions[cycle[d].i]]
    BY <1>1, <1>2, <1>4, <2>1 DEF typedTimes
  <2> QED
    BY <1>4, <2>2 DEF HealInv, healsDue
<1> QED
  BY <1>3, <1>4

LEMMA HealStepInv ==
    ASSUME HealInv, NEW c \in Cycles, HealStep(c)
    PROVE  HealInv'
<1>1. /\ typedCycles(cycle) /\ typedTimes(lastHealTimes)
      /\ \A d \in Cycles \ {c} : cycle[d].at = "heal" =>
            \/ healActions[cycle[d].i] \in overtaken
            \/ cycle[d].now >= lastHealTimes[healActions[cycle[d].i]] + healCooldown
      /\ activeHeals = Cardinality(inHeal(cycle)) /\ clock \in 0..MaxHealTime
  BY DEF HealInv, healsDue
<1>2. CASE ProbesHealthy(c)
  <2>1. /\ cycle[c].at = "probing" /\ cycle' = [cycle EXCEPT ![c] = AtRest]
        /\ lastHealTimes' = lastHealTimes /\ activeHeals' = activeHeals
        /\ clock' = clock /\ overtaken' = overtaken
    BY <1>2 DEF ProbesHealthy
  <2>2. AtRest \in CycleStates /\ AtRest.at = "rest"
    BY HealAssumption DEF AtRest, CycleStates
  <2>3. /\ typedCycles(cycle') /\ cycle'[c] = AtRest
        /\ \A d \in Cycles \ {c} : cycle'[d] = cycle[d]
    BY <1>1, <2>1, <2>2 DEF typedCycles, Healing
  <2>4. \A d \in Cycles : cycle'[d].at \in Healing <=> cycle[d].at \in Healing
    BY <2>1, <2>2, <2>3 DEF Healing
  <2>5. activeHeals' = Cardinality(inHeal(cycle'))
    BY <1>1, <2>1, <2>4, HealGoesOn
  <2>6. \A d \in Cycles : cycle'[d].at = "heal" => cycle'[d] = cycle[d]
    BY <2>2, <2>3
  <2>7. healsDue(cycle', lastHealTimes', overtaken') /\ overlapsSeen(cycle', overtaken')
    BY <2>1, <2>6 DEF HealInv, healsDue, overlapsSeen
  <2> QED
    BY <2>1, <2>3, <2>5, <2>7 DEF HealInv
<1>3. CASE ProbesUnhealthy(c)
  <2>1. PICK wanted \in SUBSET HealActions :
           proceed(c, clock, 1, activeHeals, lastHealTimes, wanted)
    BY <1>3 DEF ProbesUnhealthy
  <2>2. cycle[c].at \notin Healing /\ lastHealTimes' = lastHealTimes /\ clock' = clock
    BY <1>3 DEF ProbesUnhealthy, Healing
  <2>3. activeHeals \in Nat
    BY <1>1, InHealFinite
  <2> QED
    BY <1>1, <2>1, <2>2, <2>3, ProceedInv
<1>4. CASE HealReturns(c)
  <2>1. PICK times : times = [lastHealTimes EXCEPT ![healActions[cycle[c].i]] = cycle[c].now]
    OBVIOUS
  <2>2. /\ cycle[c].at = "heal" /\ clock' = clock
        /\ \/ moveOn(c, times)
           \/ lastHealTimes' = times /\ waitAt(c, "undo")
    BY <1>4, <2>1 DEF HealReturns
  <2>3. /\ typedTimes(times)
        /\ \A d \in Cycles \ {c} : cycle[d].at = "heal" =>
              \/ healActions[cycle[d].i] \in overtaken
              \/ cycle[d].now >= times[healActions[cycle[d].i]] + healCooldown
    BY <2>1, <2>2, ReturnLeavesDue
  <2>4. CASE moveOn(c, times)
    <3>1. cycle[c].at \in Healing
      BY <2>2 DEF Healing
    <3> QED
      BY <2>2, <2>3, <2>4, <3>1, MoveOnInv
  <2>5. CASE lastHealTimes' = times /\ waitAt(c, "undo")
    BY <2>2, <2>3, <2>5, WaitInv
  <2> QED
    BY <2>2, <2>4, <2>5
<1>5. ASSUME cycle[c].at \in Healing, moveOn(c, lastHealTimes), clock' = clock
      PROVE  HealInv'
  BY <1>1, <1>5, MoveOnInv
<1>6. CASE UndoReturns(c)
  BY <1>5, <1>6 DEF UndoReturns, Healing
<1>7. CASE SecondUndoEnds(c)
  BY <1>5, <1>7 DEF SecondUndoEnds, Healing
<1>8. CASE Throws(c)
  <2>1. CASE waitAt(c, "undoAgain") /\ lastHealTimes' = lastHealTimes
    BY <1>1, <1>8, <2>1, WaitInv DEF Throws
  <2>2. CASE moveOn(c, lastHealTimes)
    BY <1>5, <1>8, <2>2 DEF Throws, Healing
  <2> QED
    BY <1>8, <2>1, <2>2 DEF Throws
<1> QED
  BY <1>2, <1>3, <1>4, <1>6, <1>7, <1>8 DEF HealStep

LEMMA HealOtherInv ==
    ASSUME HealInv, lastHealTimes' = lastHealTimes, overtaken' = overtaken,
           activeHeals' = activeHeals, clock' \in 0..MaxHealTime,
           typedCycles(cycle'),
           \A d \in Cycles :
               \/ cycle'[d] = cycle[d]
               \/ cycle[d].at \notin Healing /\ cycle'[d].at \notin Healing
    PROVE  HealInv'
<1>1. \A d \in Cycles : cycle'[d].at \in Healing <=> cycle[d].at \in Healing
  OBVIOUS
<1>2. activeHeals' = Cardinality(inHeal(cycle'))
  BY <1>1, HealGoesOn DEF HealInv
<1>3. \A d \in Cycles : cycle'[d].at = "heal" => cycle'[d] = cycle[d]
  BY DEF Healing
<1>4. healsDue(cycle', lastHealTimes', overtaken') /\ overlapsSeen(cycle', overtaken')
  BY <1>3 DEF HealInv, healsDue, overlapsSeen
<1> QED
  BY <1>2, <1>4 DEF HealInv

LEMMA HealNextInv == HealInv /\ [HealNext]_healVars => HealInv'
<1> SUFFICES ASSUME HealInv, [HealNext]_healVars PROVE HealInv'
  OBVIOUS
<1>1. typedCycles(cycle) /\ clock \in 0..MaxHealTime
  BY DEF HealInv
<1>2. ASSUME NEW c \in Cycles, cycle[c] = AtRest,
             cycle' = [cycle EXCEPT ![c].at = "probing"],
             UNCHANGED <<lastHealTimes, activeHeals, clock, overtaken>>
      PROVE  HealInv'
  <2>1. /\ cycle'[c].at = "probing" /\ cycle[c].at = "rest"
        /\ \A d \in Cycles \ {c} : cycle'[d] = cycle[d]
    BY <1>1, <1>2 DEF typedCycles, CycleStates, AtRest
  <2>2. typedCycles(cycle')
    BY <1>1, <1>2, <2>1 DEF typedCycles, CycleStates, Healing
  <2>3. \A d \in Cycles :
            \/ cycle'[d] = cycle[d]
            \/ cycle[d].at \notin Healing /\ cycle'[d].at \notin Healing
    BY <2>1 DEF Healing
  <2>4. /\ lastHealTimes' = lastHealTimes /\ overtaken' = overtaken
        /\ activeHeals' = activeHeals /\ clock' \in 0..MaxHealTime
    BY <1>1, <1>2
  <2> QED
    BY <2>2, <2>3, <2>4, HealOtherInv
<1>3. CASE StartHealing
  BY <1>2, <1>3 DEF StartHealing
<1>4. ASSUME NEW c \in Cycles, Probe(c) PROVE HealInv'
  BY <1>2, <1>4 DEF Probe
<1>5. ASSUME UNCHANGED <<cycle, lastHealTimes, activeHeals, overtaken>>,
             clock' \in 0..MaxHealTime
      PROVE  HealInv'
  <2>1. typedCycles(cycle') /\ \A d \in Cycles : cycle'[d] = cycle[d]
    BY <1>1, <1>5
  <2> QED
    BY <1>5, <2>1, HealOtherInv
<1>6. CASE StopHealing
  BY <1>1, <1>5, <1>6 DEF StopHealing
<1>7. CASE HealTick
  <2>1. clock' \in 0..MaxHealTime
    BY <1>1, <1>7, HealAssumption DEF HealTick
  <2> QED
    BY <1>5, <1>7, <2>1 DEF HealTick
<1>8. CASE UNCHANGED healVars
  BY <1>1, <1>5, <1>8 DEF healVars
<1> QED
  BY <1>3, <1>4, <1>6, <1>7, <1>8, HealStepInv DEF HealNext

LEMMA HealInvInit == HealInit => HealInv
<1> SUFFICES ASSUME HealInit PROVE HealInv
  OBVIOUS
<1>1. cycle = [c \in Cycles |-> AtRest] /\ AtRest.at = "rest"
  BY DEF HealInit, AtRest
<1>2. AtRest \in CycleStates
  BY HealAssumption DEF AtRest, CycleStates
<1>3. typedCycles(cycle)
  BY <1>1, <1>2 DEF typedCycles, Healing
<1>4. inHeal(cycle) = {}
  BY <1>1 DEF inHeal, Healing
<1>5. activeHeals = Cardinality(inHeal(cycle))
  BY <1>4, FS_EmptySet DEF HealInit
<1>6. typedTimes(lastHealTimes) /\ clock \in 0..MaxHealTime
  BY HealAssumption DEF HealInit, typedTimes
<1>7. healsDue(cycle, lastHealTimes, overtaken) /\ overlapsSeen(cycle, overtaken)
  BY <1>1 DEF healsDue, overlapsSeen
<1> QED
  BY <1>3, <1>5, <1>6, <1>7, HealAssumption DEF HealInv, HealInit

LEMMA HealInvImplies == HealInv => HealsCounted
<1> SUFFICES ASSUME HealInv PROVE HealsCounted
  OBVIOUS
<1>1. {c \in Cycles : healingOf(c) # {}} = inHeal(cycle)
  BY DEF healingOf, inHeal, Healing
<1> QED
  BY <1>1 DEF HealInv, HealsCounted

LEMMA HealTypes == HealInv /\ healing \in BOOLEAN => HealTypeOK
<1> SUFFICES ASSUME HealInv, healing \in BOOLEAN PROVE HealTypeOK
  OBVIOUS
<1>1. activeHeals \in 0..maxConcurrentHeals
  BY InHealFinite, HealAssumption DEF HealInv
<1> QED
  BY <1>1 DEF HealInv, HealTypeOK, typedCycles, typedTimes, CycleStates

(***************************************************************************)
(* Never more heals in flight than maxConcurrentHeals, and each one        *)
(* counted until its last undo has ended, for any number of overlapping    *)
(* cycles and any list of actions.                                         *)
(***************************************************************************)
THEOREM HealsStayCounted == HealInit /\ [][HealNext]_healVars => []HealsCounted
  BY HealInvInit, HealNextInv, HealInvImplies, PTL

LEMMA SpacedStep ==
    HealInv /\ [HealNext]_healVars =>
        \A a \in HealActions \ overtaken :
            lastHealTimes'[a] # lastHealTimes[a]
            => lastHealTimes'[a] >= lastHealTimes[a] + healCooldown
<1> SUFFICES ASSUME HealInv, [HealNext]_healVars,
                    NEW a \in HealActions, a \notin overtaken,
                    lastHealTimes'[a] # lastHealTimes[a]
             PROVE  lastHealTimes'[a] >= lastHealTimes[a] + healCooldown
  OBVIOUS
<1>1. PICK c \in Cycles : HealReturns(c)
  BY DEF HealNext, HealStep, healVars, StartHealing, StopHealing, HealTick, Probe,
     ProbesHealthy, ProbesUnhealthy, UndoReturns, Throws, SecondUndoEnds, moveOn
<1>2. PICK b : b = healActions[cycle[c].i]
  OBVIOUS
<1>3. cycle[c].at = "heal" /\ lastHealTimes' = [lastHealTimes EXCEPT ![b] = cycle[c].now]
  BY <1>1, <1>2 DEF HealReturns, moveOn
<1>4. typedTimes(lastHealTimes)
  BY DEF HealInv
<1>5. a = b /\ lastHealTimes'[a] = cycle[c].now
  BY <1>3, <1>4 DEF typedTimes
<1> QED
  BY <1>2, <1>3, <1>5 DEF HealInv, healsDue

(***************************************************************************)
(* The times recorded for an action are a cooldown apart, unless two heals *)
(* of it have overlapped.                                                  *)
(***************************************************************************)
THEOREM HealsStaySpaced == HealInit /\ [][HealNext]_healVars => HealsSpaced
<1>1. HealInit /\ [][HealNext]_healVars => []HealInv
  BY HealInvInit, HealNextInv, PTL
<1>2. HealInv /\ [HealNext]_healVars =>
        [\A a \in HealActions \ overtaken :
            lastHealTimes'[a] # lastHealTimes[a]
            => lastHealTimes'[a] >= lastHealTimes[a] + healCooldown]_healVars
  BY SpacedStep
<1> QED
  BY <1>1, <1>2, PTL DEF HealsSpaced

-----------------------------------------------------------------------------
(***************************************************************************)
(* ChaosTestEngine.  FaultsUndone needs to know what an interceptor saved: *)
(* wrappers it found in place belong to targets faulted by two actions.    *)
(***************************************************************************)
Busy == [at : {"fault", "measured", "next"}, exp : Experiments,
         left : Seq(Experiments)]

underFault(where) == {r \in ChaosRunners : where[r].at \in {"fault", "measured"}}

\* The wrappers around f: experiments that replace it.
wrapped(f, stack) ==
    /\ stack \in Seq(Experiments)
    /\ \A i \in 1..Len(stack) : f \in wraps(stack[i])

\* Every wrapper in the stack is in effect, or its target has been mixed.
inEffect(stack, faults, targets) ==
    \A i \in 1..Len(stack) : faults[stack[i]] # NoFault \/ stack[i].target \in targets

allMixed(stack, targets) == \A i \in 1..Len(stack) : stack[i].target \in targets

savesMixed(e, fault, targets) ==
    fault # NoFault =>
        \A f \in restores(e) : wrapped(f, fault.saved[f]) /\ allMixed(fault.saved[f], targets)

ChaosInv ==
    /\ runner \in [ChaosRunners -> {Idle} \cup Busy]
    /\ DOMAIN interceptor = Experiments
    /\ DOMAIN layers = Patchable
    /\ mixed \subseteq {e.target : e \in Experiments}
    /\ \A f \in Patchable : wrapped(f, layers[f]) /\ inEffect(layers[f], interceptor, mixed)
    /\ \A e \in Experiments : savesMixed(e, interceptor[e], mixed)
    /\ \A e \in Experiments : interceptor[e] # NoFault =>
          \E r \in ChaosRunners : runner[r].at = "fault" /\ runner[r].exp = e
    /\ activeExperiments = Cardinality(underFault(runner))

\* A function is replaced by the faults of one target.
LEMMA OneTarget ==
    ASSUME NEW d \in Experiments, NEW e \in Experiments, NEW f,
           f \in wraps(d), f \in restores(e)
    PROVE  d.target = e.target /\ f \in Patchable
<1>1. d.target \in FaultTargets /\ e.target \in FaultTargets
  BY ChaosAssumption
<1> QED
  BY <1>1 DEF FaultTargets, wraps, restores, httpFault, eventBusFault, databaseFault,
     cacheFault, filesystemFault, Patchable

LEMMA WrapsRestored ==
    ASSUME NEW e \in Experiments
    PROVE  wraps(e) \subseteq restores(e) /\ restores(e) \subseteq Patchable
<1>1. e.target \in FaultTargets
  BY ChaosAssumption
<1> QED
  BY <1>1 DEF FaultTargets, wraps, restores, httpFault, eventBusFault, databaseFault,
     cacheFault, filesystemFault, Patchable

LEMMA UnderFaultFinite ==
    ASSUME NEW where
    PROVE  /\ IsFiniteSet(underFault(where)) /\ Cardinality(underFault(where)) \in Nat
           /\ Cardinality(underFault(where)) <= Cardinality(ChaosRunners)
<1>1. underFault(where) \subseteq ChaosRunners /\ IsFiniteSet(ChaosRunners)
  BY ChaosAssumption DEF underFault
<1> QED
  BY <1>1, FS_Subset, FS_CardinalityType

LEMMA FaultAdds ==
    ASSUME NEW where, NEW after, NEW r \in ChaosRunners,
           where[r].at \notin {"fault", "measured"}, after[r].at \in {"fault", "measured"},
           \A q \in ChaosRunners \ {r} : after[q] = where[q]
    PROVE  Cardinality(underFault(after)) = Cardinality(underFault(where)) + 1
<1>1. underFault(after) = underFault(where) \cup {r} /\ r \notin underFault(where)
  BY DEF underFault
<1> QED
  BY <1>1, UnderFaultFinite, FS_AddElement

LEMMA FaultRemoves ==
    ASSUME NEW where, NEW after, NEW r \in ChaosRunners,
           where[r].at \in {"fault", "measured"}, after[r].at \notin {"fault", "measured"},
           \A q \in ChaosRunners \ {r} : after[q] = where[q]
    PROVE  Cardinality(underFault(after)) = Cardinality(underFault(where)) - 1
<1>1. underFault(after) = underFault(where) \ {r} /\ r \in underFault(where)
  BY DEF underFault
<1>2. PICK S : S = underFault(where)
  OBVIOUS
<1>3. IsFiniteSet(S)
  BY <1>2, UnderFaultFinite
<1>4. Cardinality(S \ {r}) = Cardinality(S) - 1
  BY <1>1, <1>2, <1>3, FS_RemoveElement
<1> QED
  BY <1>1, <1>2, <1>4

LEMMA FaultStays ==
    ASSUME NEW where, NEW after,
           \A q \in ChaosRunners : after[q].at \in {"fault", "measured"}
                                     <=> where[q].at \in {"fault", "measured"}
    PROVE  Cardinality(underFault(after)) = Cardinality(underFault(where))
<1>1. underFault(after) = underFault(where)
  BY DEF underFault
<1> QED
  BY <1>1

\* injectFault when the key has no interceptor: what it saves, and what it wraps.
LEMMA InjectFault ==
    ASSUME ChaosInv, NEW e \in Experiments, injectFault(e), NEW targets,
           targets = mixed \cup mixes(e)
    PROVE  /\ DOMAIN interceptor' = Experiments /\ DOMAIN layers' = Patchable
           /\ \A f \in Patchable :
                 wrapped(f, layers'[f]) /\ inEffect(layers'[f], interceptor', targets)
           /\ \A d \in Experiments : savesMixed(d, interceptor'[d], targets)
           /\ \A d \in Experiments : interceptor'[d] # NoFault =>
                 d = e \/ interceptor[d] # NoFault
           /\ targets \subseteq {d.target : d \in Experiments}
<1>1. /\ DOMAIN interceptor = Experiments /\ DOMAIN layers = Patchable
      /\ mixed \subseteq {d.target : d \in Experiments}
      /\ \A f \in Patchable : wrapped(f, layers[f]) /\ inEffect(layers[f], interceptor, mixed)
      /\ \A d \in Experiments : savesMixed(d, interceptor[d], mixed)
  BY DEF ChaosInv
<1>2. targets \subseteq {d.target : d \in Experiments} /\ mixed \subseteq targets
  BY <1>1 DEF mixes
<1>3. \A d \in Experiments : savesMixed(d, interceptor[d], targets)
  BY <1>1, <1>2 DEF savesMixed, allMixed
<1>4. \A f \in Patchable : inEffect(layers[f], interceptor, targets)
  BY <1>1, <1>2 DEF inEffect
<1>5. CASE interceptor[e] # NoFault
  <2>1. interceptor' = interceptor /\ layers' = layers
    BY <1>5 DEF injectFault
  <2> QED
    BY <1>1, <1>2, <1>3, <1>4, <2>1
<1>6. CASE interceptor[e] = NoFault
  <2>1. PICK saved : saved = [f \in restores(e) |-> layers[f]]
    OBVIOUS
  <2>2. PICK fault : fault = [at |-> "set", saved |-> saved]
    OBVIOUS
  <2>3. fault # NoFault /\ fault.saved = saved
    BY <2>2 DEF NoFault
  <2>4. /\ interceptor' = [interceptor EXCEPT ![e] = fault]
        /\ layers' = [f \in Patchable |->
                         IF f \in wraps(e) THEN Append(layers[f], e) ELSE layers[f]]
    BY <1>6, <2>1, <2>2 DEF injectFault
  <2>5. /\ DOMAIN interceptor' = Experiments /\ interceptor'[e] = fault
        /\ \A d \in Experiments \ {e} : interceptor'[d] = interceptor[d]
        /\ \A d \in Experiments : interceptor[d] # NoFault => interceptor'[d] # NoFault
    BY <1>1, <1>6, <2>3, <2>4
  <2>6. ASSUME NEW f \in Patchable
        PROVE  wrapped(f, layers'[f]) /\ inEffect(layers'[f], interceptor', targets)
    <3>1. PICK stack : stack = layers[f]
      OBVIOUS
    <3>2. /\ stack \in Seq(Experiments) /\ wrapped(f, stack)
          /\ \A i \in 1..Len(stack) : stack[i] \in Experiments
      BY <1>1, <3>1, ElementOfSeq DEF wrapped
    <3>3. inEffect(stack, interceptor', targets)
      BY <1>4, <2>5, <3>1, <3>2 DEF inEffect
    <3>4. CASE f \notin wraps(e)
      BY <2>4, <3>1, <3>2, <3>3, <3>4
    <3>5. CASE f \in wraps(e)
      <4>1. PICK more : more = Append(stack, e)
        OBVIOUS
      <4>2. /\ more \in Seq(Experiments) /\ Len(more) = Len(stack) + 1
            /\ Len(stack) \in Nat
            /\ \A i \in 1..Len(stack) : more[i] = stack[i]
            /\ more[Len(stack) + 1] = e
        BY <3>2, <4>1, AppendProperties, LenProperties
      <4>3. \A i \in 1..Len(more) : i \in 1..Len(stack) \/ i = Len(stack) + 1
        BY <4>2
      <4>4. wrapped(f, more)
        BY <3>2, <3>5, <4>2, <4>3 DEF wrapped
      <4>5. inEffect(more, interceptor', targets)
        BY <2>3, <2>5, <3>3, <4>2, <4>3 DEF inEffect
      <4> QED
        BY <2>4, <3>1, <3>5, <4>1, <4>4, <4>5
    <3> QED
      BY <3>4, <3>5
  <2>7. savesMixed(e, fault, targets)
    <3> SUFFICES ASSUME NEW f \in restores(e)
                 PROVE  wrapped(f, saved[f]) /\ allMixed(saved[f], targets)
      BY <2>3 DEF savesMixed
    <3>1. f \in Patchable
      BY WrapsRestored
    <3>2. PICK stack : stack = layers[f]
      OBVIOUS
    <3>3. saved[f] = stack /\ wrapped(f, stack) /\ inEffect(stack, interceptor, targets)
      BY <1>1, <1>4, <2>1, <3>1, <3>2
    <3>4. ASSUME NEW i \in 1..Len(stack) PROVE stack[i].target \in targets
      <4>1. PICK d \in Experiments : d = stack[i]
        BY <3>3, ElementOfSeq DEF wrapped
      <4>2. f \in wraps(d)
        BY <3>3, <4>1 DEF wrapped
      <4>3. d.target = e.target
        BY <4>2, OneTarget
      <4>4. CASE interceptor[d] # NoFault
        <5>1. d # e
          BY <1>6, <4>4
        <5>2. e.target \in mixes(e)
          BY <4>3, <4>4, <5>1 DEF mixes
        <5> QED
          BY <4>1, <4>3, <5>2
      <4>5. CASE interceptor[d] = NoFault
        BY <3>3, <4>1, <4>5 DEF inEffect
      <4> QED
        BY <4>4, <4>5
    <3> QED
      BY <3>3, <3>4 DEF allMixed
  <2>8. \A d \in Experiments : savesMixed(d, interceptor'[d], targets)
    BY <1>3, <2>5, <2>7
  <2>9. DOMAIN layers' = Patchable
    BY <2>4
  <2> QED
    BY <1>2, <2>5, <2>6, <2>8, <2>9
<1> QED
  BY <1>5, <1>6

\* removeFault: what it puts back belongs to mixed targets.
LEMMA RemoveFault ==
    ASSUME ChaosInv, NEW e \in Experiments, removeFault(e)
    PROVE  /\ DOMAIN interceptor' = Experiments /\ DOMAIN layers' = Patchable
           /\ \A f \in Patchable :
                 wrapped(f, layers'[f]) /\ inEffect(layers'[f], interceptor', mixed)
           /\ \A d \in Experiments : savesMixed(d, interceptor'[d], mixed)
           /\ \A d \in Experiments : interceptor'[d] # NoFault =>
                 d # e /\ interceptor[d] # NoFault
<1>1. /\ DOMAIN interceptor = Experiments /\ DOMAIN layers = Patchable
      /\ \A f \in Patchable : wrapped(f, layers[f]) /\ inEffect(layers[f], interceptor, mixed)
      /\ \A d \in Experiments : savesMixed(d, interceptor[d], mixed)
  BY DEF ChaosInv
<1>2. CASE interceptor[e] = NoFault
  <2>1. interceptor' = interceptor /\ layers' = layers
    BY <1>2 DEF removeFault
  <2> QED
    BY <1>1, <1>2, <2>1
<1>3. CASE interceptor[e] # NoFault
  <2>1. PICK fault : fault = interceptor[e]
    OBVIOUS
  <2>2. /\ interceptor' = [interceptor EXCEPT ![e] = NoFault]
        /\ layers' = [f \in Patchable |->
                         IF f \in restores(e) THEN fault.saved[f] ELSE layers[f]]
    BY <1>3, <2>1 DEF removeFault, deleted
  <2>3. /\ DOMAIN interceptor' = Experiments /\ interceptor'[e] = NoFault
        /\ \A d \in Experiments \ {e} : interceptor'[d] = interceptor[d]
    BY <1>1, <2>2
  <2>4. ASSUME NEW f \in Patchable
        PROVE  wrapped(f, layers'[f]) /\ inEffect(layers'[f], interceptor', mixed)
    <3>1. CASE f \in restores(e)
      <4>1. PICK stack : stack = fault.saved[f]
        OBVIOUS
      <4>2. wrapped(f, stack) /\ allMixed(stack, mixed)
        BY <1>1, <1>3, <2>1, <3>1, <4>1 DEF savesMixed
      <4>3. inEffect(stack, interceptor', mixed)
        BY <4>2 DEF allMixed, inEffect
      <4> QED
        BY <2>2, <3>1, <4>1, <4>2, <4>3
    <3>2. CASE f \notin restores(e)
      <4>1. PICK stack : stack = layers[f]
        OBVIOUS
      <4>2. wrapped(f, stack) /\ inEffect(stack, interceptor, mixed)
        BY <1>1, <4>1
      <4>3. \A i \in 1..Len(stack) : stack[i] \in Experiments \ {e}
        <5>1. f \notin wraps(e)
          BY <3>2, WrapsRestored
        <5> QED
          BY <4>2, <5>1, ElementOfSeq DEF wrapped
      <4>4. inEffect(stack, interceptor', mixed)
        BY <2>3, <4>2, <4>3 DEF inEffect
      <4> QED
        BY <2>2, <3>2, <4>1, <4>2, <4>4
    <3> QED
      BY <3>1, <3>2
  <2>5. \A d \in Experiments : savesMixed(d, interceptor'[d], mixed)
    BY <1>1, <2>3 DEF savesMixed
  <2> QED
    BY <2>2, <2>3, <2>4, <2>5
<1> QED
  BY <1>2, <1>3

LEMMA BeginFaults ==
    ASSUME ChaosInv, NEW r \in ChaosRunners, runner[r].at \in {"idle", "next"},
           NEW e \in Experiments, NEW left \in Seq(Experiments), Begin(r, e, left)
    PROVE  ChaosInv'
<1>1. PICK next : next = [at |-> "fault", exp |-> e, left |-> left]
  OBVIOUS
<1>2. next \in Busy /\ next.at = "fault" /\ next.exp = e
  BY <1>1 DEF Busy
<1>3. /\ activeExperiments' = activeExperiments + 1 /\ injectFault(e)
      /\ mixed' = mixed \cup mixes(e)
      /\ runner' = [runner EXCEPT ![r] = next]
  BY <1>1 DEF Begin
<1>4. runner \in [ChaosRunners -> {Idle} \cup Busy]
      /\ activeExperiments = Cardinality(underFault(runner))
  BY DEF ChaosInv
<1>5. /\ runner' \in [ChaosRunners -> {Idle} \cup Busy] /\ runner'[r] = next
      /\ \A q \in ChaosRunners \ {r} : runner'[q] = runner[q]
  BY <1>2, <1>3, <1>4
<1>6. activeExperiments' = Cardinality(underFault(runner'))
  BY <1>2, <1>3, <1>4, <1>5, FaultAdds
<1>7. PICK targets : targets = mixed \cup mixes(e)
  OBVIOUS
<1>8. /\ DOMAIN interceptor' = Experiments /\ DOMAIN layers' = Patchable
      /\ \A f \in Patchable :
            wrapped(f, layers'[f]) /\ inEffect(layers'[f], interceptor', targets)
      /\ \A d \in Experiments : savesMixed(d, interceptor'[d], targets)
      /\ \A d \in Experiments : interceptor'[d] # NoFault =>
            d = e \/ interceptor[d] # NoFault
      /\ targets \subseteq {d.target : d \in Experiments}
  BY <1>3, <1>7, InjectFault
<1>9. ASSUME NEW d \in Experiments, interceptor'[d] # NoFault
      PROVE  \E q \in ChaosRunners : runner'[q].at = "fault" /\ runner'[q].exp = d
  <2>1. CASE d = e
    BY <1>2, <1>5, <2>1
  <2>2. CASE interceptor[d] # NoFault
    <3>1. PICK q \in ChaosRunners : runner[q].at = "fault" /\ runner[q].exp = d
      BY <2>2 DEF ChaosInv
    <3>2. q # r
      BY <3>1
    <3> QED
      BY <1>5, <3>1, <3>2
  <2> QED
    BY <1>8, <1>9, <2>1, <2>2
<1>10. mixed' = targets
  BY <1>3, <1>7
<1> QED
  BY <1>5, <1>6, <1>8, <1>9, <1>10 DEF ChaosInv

LEMMA EndFaultInv ==
    ASSUME ChaosInv, NEW r \in ChaosRunners, EndFault(r)
    PROVE  ChaosInv'
<1>1. /\ runner \in [ChaosRunners -> {Idle} \cup Busy]
      /\ activeExperiments = Cardinality(underFault(runner))
      /\ mixed \subseteq {e.target : e \in Experiments}
  BY DEF ChaosInv
<1>2. /\ runner[r].at = "fault" /\ removeFault(runner[r].exp)
      /\ runner' = [runner EXCEPT ![r].at = "measured"]
      /\ activeExperiments' = activeExperiments /\ mixed' = mixed
  BY DEF EndFault
<1>3. runner[r] \in Busy
  BY <1>1, <1>2 DEF Idle
<1>4. PICK e \in Experiments : e = runner[r].exp
  BY <1>3 DEF Busy
<1>5. /\ runner' \in [ChaosRunners -> {Idle} \cup Busy] /\ runner'[r].at = "measured"
      /\ \A q \in ChaosRunners \ {r} : runner'[q] = runner[q]
  BY <1>1, <1>2, <1>3 DEF Busy
<1>6. activeExperiments' = Cardinality(underFault(runner'))
  <2>1. \A q \in ChaosRunners : runner'[q].at \in {"fault", "measured"}
                                  <=> runner[q].at \in {"fault", "measured"}
    BY <1>2, <1>5
  <2> QED
    BY <1>1, <1>2, <2>1, FaultStays
<1>7. /\ DOMAIN interceptor' = Experiments /\ DOMAIN layers' = Patchable
      /\ \A f \in Patchable :
            wrapped(f, layers'[f]) /\ inEffect(layers'[f], interceptor', mixed)
      /\ \A d \in Experiments : savesMixed(d, interceptor'[d], mixed)
      /\ \A d \in Experiments : interceptor'[d] # NoFault =>
            d # e /\ interceptor[d] # NoFault
  BY <1>2, <1>4, RemoveFault
<1>8. ASSUME NEW d \in Experiments, interceptor'[d] # NoFault
      PROVE  \E q \in ChaosRunners : runner'[q].at = "fault" /\ runner'[q].exp = d
  <2>1. d # e /\ interceptor[d] # NoFault
    BY <1>7, <1>8
  <2>2. PICK q \in ChaosRunners : runner[q].at = "fault" /\ runner[q].exp = d
    BY <2>1 DEF ChaosInv
  <2>3. q # r
    BY <1>4, <2>1, <2>2
  <2> QED
    BY <1>5, <2>2, <2>3
<1> QED
  BY <1>1, <1>2, <1>5, <1>6, <1>7, <1>8 DEF ChaosInv

LEMMA RunnerMoves ==
    ASSUME ChaosInv, NEW r \in ChaosRunners, runner[r].at # "fault",
           UNCHANGED <<interceptor, layers, mixed>>,
           runner' \in [ChaosRunners -> {Idle} \cup Busy],
           \A q \in ChaosRunners \ {r} : runner'[q] = runner[q],
           activeExperiments' = Cardinality(underFault(runner'))
    PROVE  ChaosInv'
<1>1. ASSUME NEW e \in Experiments, interceptor'[e] # NoFault
      PROVE  \E q \in ChaosRunners : runner'[q].at = "fault" /\ runner'[q].exp = e
  <2>1. PICK q \in ChaosRunners : runner[q].at = "fault" /\ runner[q].exp = e
    BY <1>1 DEF ChaosInv
  <2> QED
    BY <2>1
<1> QED
  BY <1>1 DEF ChaosInv

LEMMA ChaosStep == ChaosInv /\ [ChaosNext]_chaosVars => ChaosInv'
<1> SUFFICES ASSUME ChaosInv, [ChaosNext]_chaosVars PROVE ChaosInv'
  OBVIOUS
<1>1. runner \in [ChaosRunners -> {Idle} \cup Busy] /\ Idle.at = "idle"
      /\ activeExperiments = Cardinality(underFault(runner))
  BY DEF ChaosInv, Idle
<1>2. ASSUME NEW r \in ChaosRunners, RunExperiment(r) PROVE ChaosInv'
  <2>1. PICK e \in Experiments : Begin(r, e, <<>>)
    BY <1>2 DEF RunExperiment
  <2>2. runner[r].at \in {"idle", "next"}
    BY <1>1, <1>2 DEF RunExperiment
  <2>3. <<>> \in Seq(Experiments)
    OBVIOUS
  <2> QED
    BY <2>1, <2>2, <2>3, BeginFaults
<1>3. ASSUME NEW r \in ChaosRunners, RunAll(r) PROVE ChaosInv'
  <2>1. Begin(r, Head(registered), Tail(registered)) /\ registered # <<>>
        /\ runner[r].at \in {"idle", "next"}
    BY <1>1, <1>3 DEF RunAll
  <2>2. Head(registered) \in Experiments /\ Tail(registered) \in Seq(Experiments)
    BY <2>1, ChaosAssumption, HeadTailProperties
  <2> QED
    BY <2>1, <2>2, BeginFaults
<1>4. ASSUME NEW r \in ChaosRunners, RunNext(r) PROVE ChaosInv'
  <2>1. Begin(r, Head(runner[r].left), Tail(runner[r].left))
        /\ runner[r].left # <<>> /\ runner[r].at = "next"
    BY <1>4 DEF RunNext
  <2>2. runner[r].left \in Seq(Experiments)
    BY <1>1, <2>1 DEF Busy
  <2>3. Head(runner[r].left) \in Experiments /\ Tail(runner[r].left) \in Seq(Experiments)
    BY <2>1, <2>2, HeadTailProperties
  <2> QED
    BY <2>1, <2>3, BeginFaults
<1>5. ASSUME NEW r \in ChaosRunners, EndExperiment(r) PROVE ChaosInv'
  <2>1. /\ runner[r].at = "measured" /\ activeExperiments' = activeExperiments - 1
        /\ runner' = [runner EXCEPT ![r].at = "next"]
        /\ UNCHANGED <<interceptor, layers, mixed>>
    BY <1>5 DEF EndExperiment
  <2>2. runner[r] \in Busy
    BY <1>1, <2>1
  <2>3. /\ runner' \in [ChaosRunners -> {Idle} \cup Busy] /\ runner'[r].at = "next"
        /\ \A q \in ChaosRunners \ {r} : runner'[q] = runner[q]
    BY <1>1, <2>1, <2>2 DEF Busy
  <2>4. activeExperiments' = Cardinality(underFault(runner'))
    BY <1>1, <2>1, <2>3, FaultRemoves
  <2> QED
    BY <2>1, <2>3, <2>4, RunnerMoves
<1>6. ASSUME NEW r \in ChaosRunners, Return(r) PROVE ChaosInv'
  <2>1. /\ runner[r].at = "next" /\ activeExperiments' = activeExperiments
        /\ runner' = [runner EXCEPT ![r] = Idle]
        /\ UNCHANGED <<interceptor, layers, mixed>>
    BY <1>6 DEF Return
  <2>2. /\ runner' \in [ChaosRunners -> {Idle} \cup Busy] /\ runner'[r] = Idle
        /\ \A q \in ChaosRunners \ {r} : runner'[q] = runner[q]
    BY <1>1, <2>1
  <2>3. \A q \in ChaosRunners : runner'[q].at \in {"fault", "measured"}
                                  <=> runner[q].at \in {"fault", "measured"}
    BY <1>1, <2>1, <2>2
  <2>4. activeExperiments' = Cardinality(underFault(runner'))
    BY <1>1, <2>1, <2>3, FaultStays
  <2> QED
    BY <2>1, <2>2, <2>4, RunnerMoves
<1>7. CASE UNCHANGED chaosVars
  BY <1>7 DEF chaosVars, ChaosInv, underFault
<1> QED
  BY <1>2, <1>3, <1>4, <1>5, <1>6, <1>7, EndFaultInv DEF ChaosNext

LEMMA ChaosInvInit == ChaosInit => ChaosInv
<1> SUFFICES ASSUME ChaosInit PROVE ChaosInv
  OBVIOUS
<1>1. \A f \in Patchable : wrapped(f, layers[f]) /\ inEffect(layers[f], interceptor, mixed)
  BY DEF ChaosInit, wrapped, inEffect
<1>2. underFault(runner) = {}
  BY DEF ChaosInit, underFault, Idle
<1>3. activeExperiments = Cardinality(underFault(runner))
  BY <1>2, FS_EmptySet DEF ChaosInit
<1>4. \A e \in Experiments : interceptor[e] = NoFault
  BY DEF ChaosInit
<1>5. \A e \in Experiments : savesMixed(e, interceptor[e], mixed)
  BY <1>4 DEF savesMixed
<1>6. /\ runner \in [ChaosRunners -> {Idle} \cup Busy] /\ mixed = {}
      /\ DOMAIN interceptor = Experiments /\ DOMAIN layers = Patchable
  BY DEF ChaosInit
<1> QED
  BY <1>1, <1>3, <1>4, <1>5, <1>6 DEF ChaosInv

LEMMA ChaosInvImplies == ChaosInv => FaultsUndone /\ ChaosTypeOK
<1> SUFFICES ASSUME ChaosInv PROVE FaultsUndone /\ ChaosTypeOK
  OBVIOUS
<1>1. {r \in ChaosRunners : runner[r].at \in {"fault", "measured"}} = underFault(runner)
  BY DEF underFault
<1>2. ASSUME NEW f \in Patchable, NEW i \in DOMAIN layers[f]
      PROVE  interceptor[layers[f][i]] # NoFault \/ layers[f][i].target \in mixed
  <2>1. wrapped(f, layers[f]) /\ inEffect(layers[f], interceptor, mixed)
    BY DEF ChaosInv
  <2>2. layers[f] \in Seq(Experiments)
    BY <2>1 DEF wrapped
  <2>3. i \in 1..Len(layers[f])
    BY <2>2, LenProperties
  <2> QED
    BY <2>1, <2>3 DEF inEffect
<1>3. FaultsUndone
  BY <1>1, <1>2 DEF ChaosInv, FaultsUndone
<1>4. activeExperiments \in 0..Cardinality(ChaosRunners)
  BY UnderFaultFinite, ChaosAssumption, FS_CardinalityType DEF ChaosInv
<1>5. ChaosTypeOK
  BY <1>4 DEF ChaosInv, ChaosTypeOK, wrapped, Busy
<1> QED
  BY <1>3, <1>5

(***************************************************************************)
(* When the experiments are over every function is the original again,     *)
(* unless a target was faulted by two actions at once: for any set of      *)
(* experiments and any number of them that overlap.                        *)
(***************************************************************************)
THEOREM FaultsAreUndone == ChaosInit /\ [][ChaosNext]_chaosVars => []FaultsUndone
  BY ChaosInvInit, ChaosStep, ChaosInvImplies, PTL

-----------------------------------------------------------------------------
(***************************************************************************)
(* SelfHealer.  The inductive invariant counts the restarts of every       *)
(* window, whatever moment it begins at.                                   *)
(***************************************************************************)
Restarted == [timestamp : 0..MaxHealerTime, target : Targets]

window(rows, t, since) ==
    {j \in DOMAIN rows : /\ rows[j].target = t
                         /\ rows[j].timestamp >= since
                         /\ rows[j].timestamp < since + Minute}

HealerInv ==
    /\ restarts \in Seq(Restarted)
    /\ healerClock \in 1..MaxHealerTime
    /\ \A t \in Targets : \A since \in Nat :
          Cardinality(window(restarts, t, since)) <= maxRestartsPerMinute

LEMMA RowsFinite ==
    ASSUME NEW rows \in Seq(Restarted), NEW S \in SUBSET DOMAIN rows
    PROVE  IsFiniteSet(S) /\ Cardinality(S) \in Nat
<1>1. DOMAIN rows = 1..Len(rows) /\ Len(rows) \in Nat
  BY LenProperties
<1>2. PICK last \in Nat : last = Len(rows)
  BY <1>1
<1>3. IsFiniteSet(1..last)
  BY FS_Interval
<1>4. IsFiniteSet(S)
  BY <1>1, <1>2, <1>3, FS_Subset
<1> QED
  BY <1>4, FS_CardinalityType

LEMMA RestartInv ==
    ASSUME HealerInv, NEW k \in Targets, ~limited(k),
           NEW row, row = [timestamp |-> healerClock, target |-> k],
           restarts' = Append(restarts, row), healerClock' = healerClock
    PROVE  HealerInv'
<1>1. PICK n \in Nat : n = Len(restarts)
  BY LenProperties DEF HealerInv
<1>2. restarts \in Seq(Restarted) /\ healerClock \in 1..MaxHealerTime
  BY DEF HealerInv
<1>3. row \in Restarted /\ row.target = k /\ row.timestamp = healerClock
  BY <1>2, HealerAssumption DEF Restarted
<1>4. /\ restarts' \in Seq(Restarted) /\ DOMAIN restarts = 1..n
      /\ DOMAIN restarts' = 1..(n + 1) /\ restarts'[n + 1] = row
      /\ \A i \in 1..n : restarts'[i] = restarts[i] /\ restarts[i] \in Restarted
  BY <1>1, <1>2, <1>3, AppendProperties, LenProperties, ElementOfSeq
<1>5. ASSUME NEW t \in Targets, NEW since \in Nat
      PROVE  Cardinality(window(restarts', t, since)) <= maxRestartsPerMinute
  <2>1. Cardinality(window(restarts, t, since)) <= maxRestartsPerMinute
    BY DEF HealerInv
  <2>2. CASE t # k \/ ~(healerClock >= since /\ healerClock < since + Minute)
    <3>1. window(restarts', t, since) = window(restarts, t, since)
      BY <1>3, <1>4, <2>2 DEF window
    <3> QED
      BY <2>1, <3>1
  <2>3. CASE t = k /\ healerClock >= since /\ healerClock < since + Minute
    <3>1. window(restarts', t, since) \subseteq recentRestarts(k) \cup {n + 1}
      <4> SUFFICES ASSUME NEW i \in window(restarts', t, since), i # n + 1
                   PROVE  i \in recentRestarts(k)
        OBVIOUS
      <4>1. i \in 1..n /\ restarts'[i] = restarts[i] /\ restarts[i] \in Restarted
        BY <1>1, <1>4 DEF window
      <4>2. restarts[i].target = k /\ restarts[i].timestamp >= since
        BY <2>3, <4>1 DEF window
      <4>3. restarts[i].timestamp + Minute > healerClock
        BY <1>2, <2>3, <4>1, <4>2, HealerAssumption DEF Restarted
      <4> QED
        BY <1>4, <4>1, <4>2, <4>3 DEF recentRestarts
    <3>2. PICK recent : recent = recentRestarts(k)
      OBVIOUS
    <3>3. recent \in SUBSET DOMAIN restarts
      BY <3>2 DEF recentRestarts
    <3>4. /\ IsFiniteSet(recent) /\ Cardinality(recent) \in Nat
          /\ Cardinality(recent) < maxRestartsPerMinute
      BY <1>2, <3>2, <3>3, RowsFinite, HealerAssumption DEF limited
    <3>5. /\ IsFiniteSet(recent \cup {n + 1})
          /\ Cardinality(recent \cup {n + 1}) <= Cardinality(recent) + 1
      <4>1. n + 1 \notin recent
        BY <1>4, <3>3
      <4>2. /\ IsFiniteSet(recent \cup {n + 1})
            /\ Cardinality(recent \cup {n + 1}) = Cardinality(recent) + 1
        BY <3>4, <4>1, FS_AddElement
      <4> QED
        BY <3>4, <4>2
    <3>6. Cardinality(window(restarts', t, since)) <= Cardinality(recent \cup {n + 1})
      BY <3>1, <3>2, <3>5, FS_Subset
    <3>7. /\ Cardinality(window(restarts', t, since)) \in Nat
          /\ Cardinality(recent \cup {n + 1}) \in Nat
      BY <3>1, <3>2, <3>5, FS_Subset, FS_CardinalityType
    <3> QED
      BY <3>4, <3>5, <3>6, <3>7, HealerAssumption
  <2> QED
    BY <2>2, <2>3
<1> QED
  BY <1>2, <1>4, <1>5 DEF HealerInv

LEMMA HealerStep == HealerInv /\ [HealerNext]_healerVars => HealerInv'
<1> SUFFICES ASSUME HealerInv, [HealerNext]_healerVars PROVE HealerInv'
  OBVIOUS
<1>1. ASSUME restarts' = restarts, healerClock' \in 1..MaxHealerTime PROVE HealerInv'
  BY <1>1 DEF HealerInv
<1>2. CASE HealerTick
  <2>1. healerClock' \in 1..MaxHealerTime
    BY <1>2, HealerAssumption DEF HealerTick, HealerInv
  <2> QED
    BY <1>1, <1>2, <2>1 DEF HealerTick
<1>3. ASSUME NEW h \in HealClients, Executed(h) PROVE HealerInv'
  BY <1>1, <1>3 DEF Executed, HealerInv
<1>4. ASSUME NEW h \in HealClients, NEW t \in Targets, NEW action \in allowedActions,
             Execute(h, action, t)
      PROVE  HealerInv'
  BY <1>1, <1>4 DEF Execute, HealerInv
<1>5. ASSUME NEW h \in HealClients, NEW t \in Targets, Restart(h, t) PROVE HealerInv'
  <2>1. CASE limited(t)
    BY <1>1, <1>5, <2>1 DEF Restart, HealerInv
  <2>2. CASE ~limited(t)
    BY <1>5, <2>2, RestartInv DEF Restart
  <2> QED
    BY <2>1, <2>2
<1>6. CASE UNCHANGED healerVars
  BY <1>1, <1>6 DEF healerVars, HealerInv
<1> QED
  BY <1>2, <1>3, <1>4, <1>5, <1>6 DEF HealerNext

LEMMA HealerInvInit == HealerInit => HealerInv
<1> SUFFICES ASSUME HealerInit PROVE HealerInv
  OBVIOUS
<1>1. restarts = <<>> /\ healerClock = 1
  BY DEF HealerInit
<1>2. \A t \in Targets : \A since \in Nat : window(restarts, t, since) = {}
  BY <1>1 DEF window
<1> QED
  BY <1>1, <1>2, FS_EmptySet, HealerAssumption DEF HealerInv

LEMMA HealerInvImplies == HealerInv => RestartsLimited
<1> SUFFICES ASSUME HealerInv, NEW t \in Targets, NEW i \in DOMAIN restarts
             PROVE  Cardinality(window(restarts, t, restarts[i].timestamp))
                      <= maxRestartsPerMinute
  BY DEF RestartsLimited, window
<1>1. restarts[i] \in Restarted
  BY LenProperties, ElementOfSeq DEF HealerInv
<1>2. restarts[i].timestamp \in Nat
  BY <1>1, HealerAssumption DEF Restarted
<1> QED
  BY <1>2 DEF HealerInv

(***************************************************************************)
(* No minute sees more restarts of a target than the limit, whichever      *)
(* callers of executeAction overlap.                                       *)
(***************************************************************************)
THEOREM RestartsStayLimited == HealerInit /\ [][HealerNext]_healerVars => []RestartsLimited
  BY HealerInvInit, HealerStep, HealerInvImplies, PTL

-----------------------------------------------------------------------------
(***************************************************************************)
(* ResourceManager.  A loop that is alive is the only one, and remembered  *)
(* while it waits, unless start() came before the last cycle had ended.    *)
(***************************************************************************)
LoopStates == [at : {"off", "timer", "budgetTrip", "budgetHeal", "leakHeal",
                     "leakTrip", "end"},
               first : BOOLEAN, usage : Usage, leak : Leak]

alive(where) == {l \in Loops : where[l] # Off}

typedLoops(where) == where \in [Loops -> LoopStates]

failedStart == headless = TRUE
overlappedStart == doubled = TRUE
runs == managing = TRUE

LoopInv ==
    /\ typedLoops(loop)
    /\ intervalId \in Loops \cup {NoLoop}
    /\ runs /\ ~failedStart => \E l \in Loops : loop[l] # Off
    /\ ~overlappedStart =>
          /\ \A l, k \in Loops : loop[l] # Off /\ loop[k] # Off => l = k
          /\ \A l \in Loops : loop[l].at = "timer" => intervalId = l /\ runs

LEMMA OffIsOff == Off \in LoopStates /\ Off.at = "off" /\ \A x : x.at # "off" => x # Off
  BY DEF Off, LoopStates, Usage, Leak

LEMMA WaitsAtTimer ==
    [Off EXCEPT !.at = "timer"] \in LoopStates
    /\ [Off EXCEPT !.at = "timer"].at = "timer"
  BY DEF Off, LoopStates, Usage, Leak

LEMMA GoesTo ==
    ASSUME typedLoops(loop), NEW l \in Loops,
           NEW where \in {"budgetHeal", "leakHeal", "leakTrip", "end"}, goesTo(l, where)
    PROVE  /\ typedLoops(loop') /\ loop'[l].at = where
           /\ \A k \in Loops \ {l} : loop'[k] = loop[k]
<1>1. loop' = [loop EXCEPT ![l].at = where]
  BY DEF goesTo
<1>2. loop[l] \in LoopStates
  BY DEF typedLoops
<1>3. PICK next : next = [loop[l] EXCEPT !.at = where]
  OBVIOUS
<1>4. next \in LoopStates /\ next.at = where
  BY <1>2, <1>3 DEF LoopStates
<1>5. loop' = [loop EXCEPT ![l] = next]
  BY <1>1, <1>3
<1> QED
  BY <1>4, <1>5 DEF typedLoops

LEMMA BeginsCycle ==
    ASSUME typedLoops(loop), NEW l \in Loops, NEW isFirst \in BOOLEAN,
           beginCycle(l, isFirst)
    PROVE  /\ typedLoops(loop') /\ loop'[l].at \in {"budgetTrip", "leakHeal", "end"}
           /\ \A k \in Loops \ {l} : loop'[k] = loop[k]
           /\ managedMode' = "degraded" \/ managedMode' = managedMode
<1>0. PICK usage \in Usage, leak \in Leak :
         /\ loop' = [loop EXCEPT ![l] =
                [at |-> IF usage # "ok" THEN "budgetTrip"
                        ELSE IF leak # "none" THEN "leakHeal" ELSE "end",
                 first |-> isFirst, usage |-> usage, leak |-> leak]]
         /\ managedMode' = IF usage # "ok" THEN "degraded" ELSE managedMode
  BY Zenon DEF beginCycle
<1>1. PICK next :
         /\ next = [at |-> IF usage # "ok" THEN "budgetTrip"
                           ELSE IF leak # "none" THEN "leakHeal" ELSE "end",
                    first |-> isFirst, usage |-> usage, leak |-> leak]
         /\ loop' = [loop EXCEPT ![l] = next]
         /\ managedMode' = IF usage # "ok" THEN "degraded" ELSE managedMode
  BY <1>0
<1>2. next.at \in {"budgetTrip", "leakHeal", "end"}
  BY <1>1
<1>3. next \in LoopStates
  BY <1>1 DEF LoopStates
<1>4. loop' = [loop EXCEPT ![l] = next]
  BY <1>1
<1>5. managedMode' = "degraded" \/ managedMode' = managedMode
  BY <1>1
<1> QED
  BY <1>2, <1>3, <1>4, <1>5 DEF typedLoops

\* A loop goes to a place that is not off.
LEMMA LoopGoesOn ==
    ASSUME LoopInv, NEW l \in Loops, loop[l].at # "off",
           typedLoops(loop'), loop'[l].at # "off",
           \A k \in Loops \ {l} : loop'[k] = loop[k],
           runs' = runs, failedStart' = failedStart, overlappedStart' = overlappedStart,
           \/ loop'[l].at # "timer" /\ intervalId' = intervalId
           \/ loop'[l].at = "timer" /\ runs /\ intervalId' = l
    PROVE  LoopInv'
  BY OffIsOff DEF LoopInv

\* A loop ends.
LEMMA LoopEnds ==
    ASSUME LoopInv, NEW l \in Loops, loop[l].at \notin {"off", "timer"},
           loop' = [loop EXCEPT ![l] = Off],
           runs' = runs, overlappedStart' = overlappedStart, intervalId' = intervalId,
           \/ ~runs
           \/ failedStart' <=> runs /\ \A k \in Loops \ {l} : loop[k] = Off
    PROVE  LoopInv'
<1>1. /\ typedLoops(loop') /\ loop'[l] = Off
      /\ \A k \in Loops \ {l} : loop'[k] = loop[k]
  BY OffIsOff DEF LoopInv, typedLoops
<1> QED
  BY <1>1, OffIsOff DEF LoopInv

LEMMA LoopStep == LoopInv /\ [ManagerNext]_managerVars => LoopInv'
<1> SUFFICES ASSUME LoopInv, [ManagerNext]_managerVars PROVE LoopInv'
  OBVIOUS
<1>1. typedLoops(loop) /\ intervalId \in Loops \cup {NoLoop}
  BY DEF LoopInv
<1>2. CASE StartManager
  <2>1. PICK l \in Loops : loop[l] = Off /\ beginCycle(l, TRUE)
    BY <1>2, Zenon DEF StartManager
  <2>2. /\ typedLoops(loop') /\ loop'[l].at \in {"budgetTrip", "leakHeal", "end"}
        /\ \A k \in Loops \ {l} : loop'[k] = loop[k]
    BY <1>1, <2>1, BeginsCycle
  <2>3. /\ intervalId' = intervalId
        /\ ~overlappedStart' => \A k \in Loops : loop[k] = Off
    BY <1>2, Zenon DEF StartManager, overlappedStart
  <2> QED
    BY <1>1, <2>2, <2>3, OffIsOff DEF LoopInv
<1>3. CASE StopManager
  <2>1. /\ ~runs' /\ intervalId' = NoLoop /\ (overlappedStart' <=> overlappedStart)
        /\ loop' = [l \in Loops |->
                      IF l = intervalId /\ loop[l].at = "timer" THEN Off ELSE loop[l]]
    BY <1>3 DEF StopManager, runs, overlappedStart
  <2>2. typedLoops(loop')
    BY <1>1, <2>1, OffIsOff DEF typedLoops
  <2> QED
    BY <2>1, <2>2, OffIsOff DEF LoopInv
<1>4. ASSUME NEW l \in Loops, TimerFires(l) PROVE LoopInv'
  <2>1. /\ loop[l].at = "timer" /\ beginCycle(l, FALSE) /\ intervalId' = intervalId
        /\ runs' = runs /\ failedStart' = failedStart /\ overlappedStart' = overlappedStart
    BY <1>4 DEF TimerFires, runs, failedStart, overlappedStart
  <2>2. /\ typedLoops(loop') /\ loop'[l].at \in {"budgetTrip", "leakHeal", "end"}
        /\ \A k \in Loops \ {l} : loop'[k] = loop[k]
    BY <1>1, <2>1, BeginsCycle
  <2> QED
    BY <2>1, <2>2, LoopGoesOn
<1>5. ASSUME NEW l \in Loops,
             NEW where \in {"budgetHeal", "leakHeal", "leakTrip", "end"}, goesTo(l, where),
             loop[l].at # "off",
             UNCHANGED <<managing, intervalId, managedMode, headless, doubled>>
      PROVE  LoopInv'
  <2>1. /\ typedLoops(loop') /\ loop'[l].at = where
        /\ \A k \in Loops \ {l} : loop'[k] = loop[k]
    BY <1>1, <1>5, GoesTo
  <2>2. runs' = runs /\ failedStart' = failedStart /\ overlappedStart' = overlappedStart
        /\ intervalId' = intervalId
    BY <1>5 DEF runs, failedStart, overlappedStart
  <2> QED
    BY <1>5, <2>1, <2>2, LoopGoesOn
<1>6. ASSUME NEW l \in Loops, Tripped(l) PROVE LoopInv'
  BY <1>5, <1>6 DEF Tripped
<1>7. ASSUME NEW l \in Loops, Healed(l) PROVE LoopInv'
  BY <1>5, <1>7 DEF Healed
<1>8. ASSUME NEW l \in Loops, loop[l].at # "off", runs,
             loop' = [loop EXCEPT ![l] = [Off EXCEPT !.at = "timer"]], intervalId' = l,
             UNCHANGED <<managing, headless, doubled>>
      PROVE  LoopInv'
  <2>1. PICK next : next = [Off EXCEPT !.at = "timer"]
    OBVIOUS
  <2>2. next \in LoopStates /\ next.at = "timer"
    BY <2>1, WaitsAtTimer
  <2>3. loop' = [loop EXCEPT ![l] = next]
    BY <1>8, <2>1
  <2>4. /\ typedLoops(loop') /\ loop'[l].at = "timer"
        /\ \A k \in Loops \ {l} : loop'[k] = loop[k]
    BY <1>1, <2>2, <2>3 DEF typedLoops
  <2>5. runs' = runs /\ failedStart' = failedStart /\ overlappedStart' = overlappedStart
    BY <1>8 DEF runs, failedStart, overlappedStart
  <2> QED
    BY <1>8, <2>4, <2>5, LoopGoesOn
<1>9. ASSUME NEW l \in Loops, loop[l].at \notin {"off", "timer"}, ~runs,
             loop' = [loop EXCEPT ![l] = Off],
             UNCHANGED <<managing, intervalId, doubled>>
      PROVE  LoopInv'
  <2>1. runs' = runs /\ overlappedStart' = overlappedStart /\ intervalId' = intervalId
    BY <1>9 DEF runs, overlappedStart
  <2> QED
    BY <1>9, <2>1, LoopEnds
<1>10. ASSUME NEW l \in Loops, TripFails(l) PROVE LoopInv'
  <2>1. loop[l].at \in {"budgetTrip", "leakTrip"}
    BY <1>10 DEF TripFails
  <2>2. CASE loop[l].first
    <3>1. /\ loop' = [loop EXCEPT ![l] = Off] /\ intervalId' = intervalId
          /\ runs' = runs /\ overlappedStart' = overlappedStart
          /\ failedStart' <=> runs /\ \A k \in Loops \ {l} : loop[k] = Off
      BY <1>10, <2>2 DEF TripFails, runs, overlappedStart, failedStart
    <3> QED
      BY <2>1, <3>1, LoopEnds
  <2>3. CASE ~loop[l].first /\ managing
    BY <1>8, <1>10, <2>1, <2>3 DEF TripFails, runs
  <2>4. CASE ~loop[l].first /\ ~managing
    BY <1>9, <1>10, <2>1, <2>4 DEF TripFails, runs
  <2> QED
    BY <2>2, <2>3, <2>4
<1>11. ASSUME NEW l \in Loops, EndCycle(l) PROVE LoopInv'
  <2>1. CASE managing
    BY <1>8, <1>11, <2>1 DEF EndCycle, schedules, runs
  <2>2. CASE ~managing
    BY <1>9, <1>11, <2>2 DEF EndCycle, schedules, runs
  <2> QED
    BY <2>1, <2>2
<1>12. CASE UNCHANGED managerVars
  BY <1>12 DEF managerVars, LoopInv, typedLoops, runs, failedStart, overlappedStart
<1> QED
  BY <1>2, <1>3, <1>4, <1>6, <1>7, <1>10, <1>11, <1>12 DEF ManagerNext, LoopRuns

LEMMA LoopInit == ManagerInit => LoopInv
<1> SUFFICES ASSUME ManagerInit PROVE LoopInv
  OBVIOUS
<1>1. loop = [l \in Loops |-> Off] /\ intervalId = NoLoop
  BY DEF ManagerInit
<1>2. ~runs
  BY DEF ManagerInit, runs
<1>3. typedLoops(loop)
  BY <1>1, OffIsOff DEF typedLoops
<1> QED
  BY <1>1, <1>2, <1>3, OffIsOff DEF LoopInv

LEMMA LoopInvImplies == LoopInv => RunningHasOneLoop
<1> SUFFICES ASSUME LoopInv PROVE RunningHasOneLoop
  OBVIOUS
<1>1. PICK living : living = {l \in Loops : loop[l] # Off}
  OBVIOUS
<1>2. ASSUME runs, ~failedStart PROVE living # {}
  BY <1>1, <1>2 DEF LoopInv
<1>3. ASSUME ~overlappedStart PROVE Cardinality(living) <= 1
  <2>1. \A l, k \in living : l = k
    BY <1>1, <1>3 DEF LoopInv
  <2>2. CASE living = {}
    BY <2>2, FS_EmptySet
  <2>3. CASE living # {}
    <3>1. PICK l \in living : living = {l}
      BY <2>1, <2>3
    <3>2. Cardinality({l}) = 1
      BY FS_Singleton
    <3> QED
      BY <3>1, <3>2
  <2> QED
    BY <2>2, <2>3
<1>4. ASSUME ~overlappedStart, NEW l \in living, loop[l].at = "timer"
      PROVE  intervalId = l /\ runs
  BY <1>1, <1>4 DEF LoopInv
<1>5. managing /\ ~headless => living # {}
  BY <1>2 DEF runs, failedStart
<1>6. ~doubled => Cardinality(living) <= 1
  BY <1>3 DEF overlappedStart
<1>7. ~doubled => \A l \in living : loop[l].at = "timer" => intervalId = l /\ managing
  BY <1>4 DEF overlappedStart, runs
<1> QED
  BY <1>1, <1>5, <1>6, <1>7, Zenon DEF RunningHasOneLoop

(***************************************************************************)
(* A running manager has one loop, and stop() leaves none at a timer,      *)
(* unless start() failed or came while a cycle was still in flight.        *)
(***************************************************************************)
THEOREM OneLoopRuns == ManagerInit /\ [][ManagerNext]_managerVars => []RunningHasOneLoop
  BY LoopInit, LoopStep, LoopInvImplies, PTL

-----------------------------------------------------------------------------
(***************************************************************************)
(* What the invariants above do not say of the types.                      *)
(***************************************************************************)
LEMMA HealingFlag == healing \in BOOLEAN /\ [HealNext]_healVars => healing' \in BOOLEAN
  BY DEF HealNext, healVars, StartHealing, StopHealing, HealTick, Probe, HealStep,
     ProbesHealthy, ProbesUnhealthy, HealReturns, UndoReturns, Throws, SecondUndoEnds

ManagerFlags ==
    /\ managing \in BOOLEAN /\ headless \in BOOLEAN /\ doubled \in BOOLEAN
    /\ managedMode \in {"normal", "degraded", "emergency"}

LEMMA ManagerFlagsStep ==
    ManagerFlags /\ LoopInv /\ [ManagerNext]_managerVars => ManagerFlags'
<1> SUFFICES ASSUME ManagerFlags, LoopInv, [ManagerNext]_managerVars PROVE ManagerFlags'
  OBVIOUS
<1>1. CASE StartManager
  <2>1. PICK l \in Loops : beginCycle(l, TRUE)
    BY <1>1, Zenon DEF StartManager
  <2>2. managedMode' = "degraded" \/ managedMode' = managedMode
    BY <2>1, BeginsCycle DEF LoopInv
  <2>3. managing' = TRUE /\ headless' = FALSE /\ doubled' \in BOOLEAN
    BY <1>1, Zenon DEF StartManager
  <2> QED
    BY <2>2, <2>3 DEF ManagerFlags
<1>2. CASE StopManager
  BY <1>2 DEF StopManager, ManagerFlags
<1>3. ASSUME NEW l \in Loops, TimerFires(l) PROVE ManagerFlags'
  <2>1. managedMode' = "degraded" \/ managedMode' = managedMode
    BY <1>3, BeginsCycle DEF LoopInv, TimerFires
  <2> QED
    BY <1>3, <2>1 DEF TimerFires, ManagerFlags
<1>4. ASSUME NEW l \in Loops, Tripped(l) \/ Healed(l) PROVE ManagerFlags'
  BY <1>4 DEF Tripped, Healed, ManagerFlags
<1>5. ASSUME NEW l \in Loops, TripFails(l) PROVE ManagerFlags'
  <2>1. headless' \in BOOLEAN
    BY <1>5, Zenon DEF TripFails, ManagerFlags
  <2> QED
    BY <1>5, <2>1 DEF TripFails, ManagerFlags
<1>6. ASSUME NEW l \in Loops, EndCycle(l) PROVE ManagerFlags'
  <2>1. managedMode' \in {"emergency", "degraded", managedMode}
    BY <1>6 DEF EndCycle
  <2> QED
    BY <1>6, <2>1 DEF EndCycle, ManagerFlags
<1>7. CASE UNCHANGED managerVars
  BY <1>7 DEF managerVars, ManagerFlags
<1> QED
  BY <1>1, <1>2, <1>3, <1>4, <1>5, <1>6, <1>7 DEF ManagerNext, LoopRuns

ExecutingTyped ==
    /\ actionCooldowns \in [allowedActions \X Targets -> 0..MaxHealerTime]
    /\ \A h \in HealClients :
          \/ executing[h] = Resting
          \/ /\ executing[h].key \in allowedActions \X Targets
             /\ executing[h].ok \in BOOLEAN

LEMMA AwaitsTyped ==
    ASSUME ExecutingTyped, DOMAIN executing = HealClients, NEW h \in HealClients,
           NEW key \in allowedActions \X Targets, NEW ok \in BOOLEAN, awaits(h, key, ok),
           actionCooldowns' = actionCooldowns
    PROVE  ExecutingTyped' /\ DOMAIN executing' = HealClients
<1>1. PICK next : next = [at |-> "await", key |-> key, ok |-> ok]
  OBVIOUS
<1>2. next.key = key /\ next.ok = ok
  BY <1>1
<1>3. executing' = [executing EXCEPT ![h] = next]
  BY <1>1 DEF awaits
<1>4. /\ DOMAIN executing' = HealClients /\ executing'[h] = next
      /\ \A k \in HealClients \ {h} : executing'[k] = executing[k]
  BY <1>3
<1> QED
  BY <1>2, <1>4 DEF ExecutingTyped

LEMMA ExecutingStep ==
    ASSUME ExecutingTyped, DOMAIN executing = HealClients, HealerInv,
           [HealerNext]_healerVars
    PROVE  ExecutingTyped' /\ DOMAIN executing' = HealClients
<1>1. CASE HealerTick
  BY <1>1 DEF HealerTick, ExecutingTyped
<1>2. ASSUME NEW h \in HealClients, Executed(h)
      PROVE  ExecutingTyped' /\ DOMAIN executing' = HealClients
  <2>1. executing' = [executing EXCEPT ![h] = Resting]
    BY <1>2 DEF Executed
  <2>2. healerClock \in 0..MaxHealerTime
    BY HealerAssumption DEF HealerInv
  <2>3. actionCooldowns' \in [allowedActions \X Targets -> 0..MaxHealerTime]
    BY <1>2, <2>2 DEF Executed, ExecutingTyped
  <2> QED
    BY <2>1, <2>3 DEF ExecutingTyped
<1>3. ASSUME NEW h \in HealClients, NEW t \in Targets, Restart(h, t)
      PROVE  ExecutingTyped' /\ DOMAIN executing' = HealClients
  <2>1. /\ actionCooldowns' = actionCooldowns /\ <<"restart", t>> \in allowedActions \X Targets
        /\ \E ok \in BOOLEAN : awaits(h, <<"restart", t>>, ok)
    BY <1>3 DEF Restart
  <2> QED
    BY <2>1, AwaitsTyped
<1>4. ASSUME NEW h \in HealClients, NEW t \in Targets, NEW action \in allowedActions,
             Execute(h, action, t)
      PROVE  ExecutingTyped' /\ DOMAIN executing' = HealClients
  <2>1. /\ actionCooldowns' = actionCooldowns /\ <<action, t>> \in allowedActions \X Targets
        /\ \E ok \in BOOLEAN : awaits(h, <<action, t>>, ok)
    BY <1>4 DEF Execute
  <2> QED
    BY <2>1, AwaitsTyped
<1>5. CASE UNCHANGED healerVars
  BY <1>5 DEF healerVars, ExecutingTyped
<1> QED
  BY <1>1, <1>2, <1>3, <1>4, <1>5 DEF HealerNext

-----------------------------------------------------------------------------
(***************************************************************************)
(* The components together: each takes its own steps.                      *)
(***************************************************************************)
ResilienceInv ==
    /\ IInv
    /\ SlotsInv
    /\ HealInv /\ healing \in BOOLEAN
    /\ ChaosInv
    /\ HealerInv /\ ExecutingTyped /\ DOMAIN executing = HealClients
    /\ LoopInv /\ ManagerFlags

LEMMA EachTakesItsSteps ==
    [OneAtATime]_mcVars =>
        /\ [Next]_vars /\ [BulkheadNext]_bulkheadVars /\ [HealNext]_healVars
        /\ [ChaosNext]_chaosVars /\ [HealerNext]_healerVars /\ [ManagerNext]_managerVars
  BY DEF OneAtATime, mcVars

LEMMA ResilienceInit == AllInit => ResilienceInv
<1> SUFFICES ASSUME AllInit PROVE ResilienceInv
  OBVIOUS
<1>1. Init /\ BulkheadInit /\ HealInit /\ ChaosInit /\ HealerInit /\ ManagerInit
  BY DEF AllInit
<1>2. healing \in BOOLEAN /\ ManagerFlags
  BY <1>1 DEF HealInit, ManagerInit, ManagerFlags
<1>3. ExecutingTyped /\ DOMAIN executing = HealClients
  BY <1>1, HealerAssumption DEF HealerInit, ExecutingTyped
<1> QED
  BY <1>1, <1>2, <1>3, InitIInv, SlotsInit, HealInvInit, ChaosInvInit, HealerInvInit,
     LoopInit DEF ResilienceInv

LEMMA ResilienceStep == ResilienceInv /\ [OneAtATime]_mcVars => ResilienceInv'
<1> SUFFICES ASSUME ResilienceInv, [OneAtATime]_mcVars PROVE ResilienceInv'
  OBVIOUS
<1>1. /\ [Next]_vars /\ [BulkheadNext]_bulkheadVars /\ [HealNext]_healVars
      /\ [ChaosNext]_chaosVars /\ [HealerNext]_healerVars /\ [ManagerNext]_managerVars
  BY EachTakesItsSteps
<1>2. /\ IInv /\ SlotsInv /\ HealInv /\ healing \in BOOLEAN /\ ChaosInv /\ HealerInv
      /\ ExecutingTyped /\ DOMAIN executing = HealClients /\ LoopInv /\ ManagerFlags
  BY DEF ResilienceInv
<1>3. IInv' /\ SlotsInv' /\ HealInv' /\ ChaosInv' /\ HealerInv' /\ LoopInv'
  BY <1>1, <1>2, IInvInductive, SlotsStep, HealNextInv, ChaosStep, HealerStep, LoopStep
<1>4. healing' \in BOOLEAN /\ ManagerFlags'
  BY <1>1, <1>2, HealingFlag, ManagerFlagsStep
<1>5. ExecutingTyped' /\ DOMAIN executing' = HealClients
  BY <1>1, <1>2, ExecutingStep
<1> QED
  BY <1>3, <1>4, <1>5 DEF ResilienceInv

LEMMA ResilienceTypes == ResilienceInv => AllTypesOK
<1> SUFFICES ASSUME ResilienceInv PROVE AllTypesOK
  OBVIOUS
<1>1. TypeOK /\ BulkheadTypeOK /\ HealTypeOK /\ ChaosTypeOK
  BY SlotsInvImplies, HealTypes, ChaosInvImplies DEF ResilienceInv, IInv
<1>2. HealerTypeOK
  BY DEF ResilienceInv, HealerInv, ExecutingTyped, HealerTypeOK, Restarted
<1>3. ManagerTypeOK
  BY DEF ResilienceInv, LoopInv, typedLoops, LoopStates, ManagerFlags, ManagerTypeOK
<1> QED
  BY <1>1, <1>2, <1>3 DEF AllTypesOK

(***************************************************************************)
(* The components of resilience-engine and resource-manager keep to their  *)
(* types.                                                                  *)
(***************************************************************************)
THEOREM ResilienceTyped == MCSpec => []AllTypesOK
  BY ResilienceInit, ResilienceStep, ResilienceTypes, PTL DEF MCSpec

(***************************************************************************)
(* What is counted keeps to its count over everything that overlaps, for   *)
(* every number of callers, cycles, experiments and loops, and any limits. *)
(***************************************************************************)
THEOREM LimitsStayCounted == MCSpec => []LimitsCounted
<1>1. ResilienceInv => LimitsCounted
  BY SlotsInvImplies, HealInvImplies, ChaosInvImplies, HealerInvImplies, LoopInvImplies
     DEF ResilienceInv, LimitsCounted
<1> QED
  BY <1>1, ResilienceInit, ResilienceStep, PTL DEF MCSpec
=============================================================================
