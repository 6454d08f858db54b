--------------------------- MODULE CircuitBreaker ---------------------------
(***************************************************************************)
(* packages/resilience-engine/src/circuit-breaker.ts: circuit breakers     *)
(* that share one DegradationManager, as createCircuitBreaker wires them,  *)
(* and the auto-degradation subscriber that writes the same mode.          *)
(*                                                                         *)
(* A call suspends at its await while other calls, the cooldown timer,     *)
(* reset() and the subscriber run, so a result may reach a breaker that    *)
(* has changed state since it admitted the call.  Timestamps, response     *)
(* times and the metric totals are left out.                               *)
(***************************************************************************)
EXTENDS Naturals, FiniteSets

CONSTANTS
    Breakers,
    Calls,               \* the calls clients make, each one once
    failureThreshold,
    successThreshold,
    halfOpenMaxCalls

ASSUME ThresholdAssumption ==
    /\ failureThreshold \in Nat \ {0}
    /\ successThreshold \in Nat \ {0}
    /\ halfOpenMaxCalls \in Nat

\* call[c] names the breaker that admitted c, so a breaker is none of these.
ASSUME BreakersAssumption == Breakers \cap {"idle", "rejected", "settled"} = {}

ASSUME CallsAssumption == IsFiniteSet(Calls)

VARIABLES
    state, failures, successes, halfOpenCalls,
    timer,               \* halfOpenTimer is armed
    probes,              \* history: successes counted since half-open began
    call,                \* where each call is
    mode                 \* currentMode of the DegradationManager

breakerVars == <<state, failures, successes, halfOpenCalls, timer, probes>>
vars == <<breakerVars, call, mode>>

Modes == {"normal", "degraded", "limited", "emergency", "offline"}

\* The modes BREAKER_TO_DEGRADATION maps a tripped event to.
TripModes == {"degraded", "limited", "emergency"}

\* A call in flight is named by the breaker that admitted it.
TypeOK ==
    /\ state \in [Breakers -> {"closed", "open", "half-open"}]
    /\ failures \in [Breakers -> Nat]
    /\ successes \in [Breakers -> Nat]
    /\ halfOpenCalls \in [Breakers -> 0..halfOpenMaxCalls]
    /\ timer \in [Breakers -> BOOLEAN]
    /\ probes \in [Breakers -> Nat]
    /\ call \in [Calls -> Breakers \cup {"idle", "rejected", "settled"}]
    /\ mode \in Modes

Init ==
    /\ state = [b \in Breakers |-> "closed"]
    /\ failures = [b \in Breakers |-> 0]
    /\ successes = [b \in Breakers |-> 0]
    /\ halfOpenCalls = [b \in Breakers |-> 0]
    /\ timer = [b \in Breakers |-> FALSE]
    /\ probes = [b \in Breakers |-> 0]
    /\ call = [c \in Calls |-> "idle"]
    /\ mode = "normal"

-----------------------------------------------------------------------------
\* Mutant: half-open lets every call through.
refuses_OpenOnly(b) == state[b] = "open"

\* call() up to its await: refused, or admitted and counted as a probe.
refuses(b) ==
    \/ state[b] = "open"
    \/ state[b] = "half-open" /\ halfOpenCalls[b] >= halfOpenMaxCalls

Reject(c, b) ==
    /\ call[c] = "idle"
    /\ refuses(b)
    /\ call' = [call EXCEPT ![c] = "rejected"]
    /\ UNCHANGED <<breakerVars, mode>>

Admit(c, b) ==
    /\ call[c] = "idle"
    /\ ~refuses(b)
    /\ call' = [call EXCEPT ![c] = b]
    /\ halfOpenCalls' = IF state[b] = "half-open"
                        THEN [halfOpenCalls EXCEPT ![b] = @ + 1]
                        ELSE halfOpenCalls
    /\ UNCHANGED <<state, failures, successes, timer, probes, mode>>

timerAfter(b, to) == to = "open"

\* Mutant: half-open already lifts the degradation.
modeAfter_LiftsEarly(to) == IF to = "open" THEN "degraded" ELSE "normal"

\* The callback createCircuitBreaker registers with the manager.
modeAfter(to) ==
    CASE to = "open"                          -> "degraded"
      [] to = "closed" /\ mode = "degraded"   -> "normal"
      [] OTHER                                -> mode

\* transitionTo another state: the callbacks run last.
transitionTo(b, to) ==
    /\ state' = [state EXCEPT ![b] = to]
    /\ halfOpenCalls' = [halfOpenCalls EXCEPT ![b] = 0]
    /\ timer' = [timer EXCEPT ![b] = timerAfter(b, to)]
    /\ probes' = [probes EXCEPT ![b] = 0]
    /\ mode' = modeAfter(to)

\* Mutant: the threshold has to be passed, not reached.
closes_PastThreshold(b) ==
    state[b] = "half-open" /\ successes[b] + 1 > successThreshold

\* executeWithTimeout: a call in flight settles once, by its function or by
\* its timeout; what comes later is dropped.
settle(c, b) ==
    /\ call[c] = b
    /\ call' = [call EXCEPT ![c] = "settled"]

\* onSuccess: successes counts in every state, closes in half-open only.
closes(b) == state[b] = "half-open" /\ successes[b] + 1 >= successThreshold

Succeed(c, b) ==
    /\ settle(c, b)
    /\ successes' = [successes EXCEPT ![b] = @ + 1]
    /\ failures' = [failures EXCEPT ![b] = 0]
    /\ IF closes(b)
       THEN transitionTo(b, "closed")
       ELSE /\ probes' = IF state[b] = "half-open"
                         THEN [probes EXCEPT ![b] = @ + 1] ELSE probes
            /\ UNCHANGED <<state, halfOpenCalls, timer, mode>>

\* onFailure, for an error of the call and for its timeout.
opens(b) ==
    \/ state[b] = "half-open"
    \/ state[b] = "closed" /\ failures[b] + 1 >= failureThreshold

Fail(c, b) ==
    /\ settle(c, b)
    /\ failures' = [failures EXCEPT ![b] = @ + 1]
    /\ successes' = [successes EXCEPT ![b] = 0]
    /\ IF opens(b)
       THEN transitionTo(b, "open")
       ELSE UNCHANGED <<state, halfOpenCalls, timer, probes, mode>>

\* The callback of halfOpenTimer.
Cooldown(b) ==
    /\ timer[b]
    /\ IF state[b] = "open"
       THEN transitionTo(b, "half-open")
       ELSE /\ timer' = [timer EXCEPT ![b] = FALSE]
            /\ UNCHANGED <<state, halfOpenCalls, probes, mode>>
    /\ UNCHANGED <<failures, successes, call>>

\* reset(): the state is assigned, so no callback hears of it.
Reset(b) ==
    /\ state' = [state EXCEPT ![b] = "closed"]
    /\ failures' = [failures EXCEPT ![b] = 0]
    /\ successes' = [successes EXCEPT ![b] = 0]
    /\ halfOpenCalls' = [halfOpenCalls EXCEPT ![b] = 0]
    /\ timer' = [timer EXCEPT ![b] = FALSE]
    /\ probes' = [probes EXCEPT ![b] = 0]
    /\ UNCHANGED <<call, mode>>

\* The breaker.tripped subscriber of auto-degradation.ts: the deepest mode of
\* the event's results, whatever the mode is now.
AutoDegrade(deepest) ==
    /\ mode' = deepest
    /\ UNCHANGED <<breakerVars, call>>

Next ==
    \/ \E b \in Breakers :
          \/ \E c \in Calls : Reject(c, b) \/ Admit(c, b)
                              \/ Succeed(c, b) \/ Fail(c, b)
          \/ Cooldown(b)
          \/ Reset(b)
    \/ \E m \in TripModes : AutoDegrade(m)

\* setTimeout fires; nothing makes clients call or calls settle.
Fairness == \A b \in Breakers : WF_vars(Cooldown(b))

Spec == Init /\ [][Next]_vars /\ Fairness

-----------------------------------------------------------------------------
(***************************************************************************)
(* The cooldown timer is armed exactly while the breaker is open, through  *)
(* late results, resets and reopenings: an open breaker always has a way   *)
(* out and no stale timer reopens a later period (clearHalfOpenTimer).     *)
(***************************************************************************)
TimerIffOpen == \A b \in Breakers : timer[b] <=> state[b] = "open"

(***************************************************************************)
(* A closed breaker has counted fewer consecutive failures than the        *)
(* threshold, results of calls admitted in an earlier period included.     *)
(***************************************************************************)
ClosedBelowThreshold ==
    \A b \in Breakers : state[b] = "closed" => failures[b] < failureThreshold

(***************************************************************************)
(* A half-open breaker that has spent its probes still has one in flight:  *)
(* otherwise it would refuse every call and wait for a result for ever.    *)
(* It takes a configuration that admits successThreshold probes, which the *)
(* constructor does not ask for (halfOpenCalls is never decremented).      *)
(***************************************************************************)
NeverStuckHalfOpen ==
    halfOpenMaxCalls >= successThreshold =>
        \A b \in Breakers :
            (state[b] = "half-open" /\ halfOpenCalls[b] = halfOpenMaxCalls)
            => \E c \in Calls : call[c] = b

(***************************************************************************)
(* While the only breaker of a manager is open or probing, the system does *)
(* not run in normal mode (callback of createCircuitBreaker).  With two    *)
(* breakers the first to close ends the degradation the other one asked    *)
(* for.                                                                    *)
(***************************************************************************)
TrippedIsDegraded ==
    (\A a, b \in Breakers : a = b) =>
        \A b \in Breakers : state[b] # "closed" => mode # "normal"

(***************************************************************************)
(* An open breaker is eventually half-open or closed.                      *)
(***************************************************************************)
OpenEnds == \A b \in Breakers : state[b] = "open" ~> state[b] # "open"
=============================================================================
