---------------------------- MODULE MCResilience ----------------------------
(***************************************************************************)
(* A bounded instance of the components of resilience-engine and           *)
(* resource-manager.  They share no state that is modelled, so each is     *)
(* explored while the others are as constructed.                           *)
(***************************************************************************)
EXTENDS CircuitBreaker, Bulkhead, SelfHeal, ResourceManager

CONSTANTS h1, h2

MChealActions == <<h1, h2>>

MCExperiments ==
    {[target |-> "http", action |-> "latency"],
     [target |-> "http", action |-> "error"],
     [target |-> "cache", action |-> "error"]}

MCregistered ==
    <<[target |-> "http", action |-> "latency"],
      [target |-> "cache", action |-> "error"]>>

mcVars == <<vars, bulkheadVars, healVars, chaosVars, healerVars, managerVars>>

AllInit ==
    /\ Init
    /\ BulkheadInit
    /\ HealInit
    /\ ChaosInit
    /\ HealerInit
    /\ ManagerInit

OneAtATime ==
    \/ /\ BulkheadInit /\ HealInit /\ ChaosInit /\ HealerInit /\ ManagerInit
       /\ Next
       /\ UNCHANGED <<bulkheadVars, healVars, chaosVars, healerVars, managerVars>>
    \/ /\ Init /\ HealInit /\ ChaosInit /\ HealerInit /\ ManagerInit
       /\ BulkheadNext
       /\ UNCHANGED <<vars, healVars, chaosVars, healerVars, managerVars>>
    \/ /\ Init /\ BulkheadInit /\ ChaosInit /\ HealerInit /\ ManagerInit
       /\ HealNext
       /\ UNCHANGED <<vars, bulkheadVars, chaosVars, healerVars, managerVars>>
    \/ /\ Init /\ BulkheadInit /\ HealInit /\ HealerInit /\ ManagerInit
       /\ ChaosNext
       /\ UNCHANGED <<vars, bulkheadVars, healVars, healerVars, managerVars>>
    \/ /\ Init /\ BulkheadInit /\ HealInit /\ ChaosInit /\ ManagerInit
       /\ HealerNext
       /\ UNCHANGED <<vars, bulkheadVars, healVars, chaosVars, managerVars>>
    \/ /\ Init /\ BulkheadInit /\ HealInit /\ ChaosInit /\ HealerInit
       /\ ManagerNext
       /\ UNCHANGED <<vars, bulkheadVars, healVars, chaosVars, healerVars>>

MCSpec ==
    /\ AllInit
    /\ [][OneAtATime]_mcVars
    /\ Fairness /\ BulkheadFairness /\ ManagerFairness

(***************************************************************************)
(* The state of every component has its type.                              *)
(***************************************************************************)
AllTypesOK ==
    /\ TypeOK
    /\ BulkheadTypeOK
    /\ HealTypeOK
    /\ ChaosTypeOK
    /\ HealerTypeOK
    /\ ManagerTypeOK

(***************************************************************************)
(* What is counted keeps to its count over everything that overlaps: slots *)
(* held (Bulkhead), heals in flight (SelfHealEngine), restarts in a minute *)
(* (SelfHealer), faults injected and not undone (ChaosTestEngine), and the *)
(* one loop of a running manager (ResourceManager).                        *)
(***************************************************************************)
LimitsCounted ==
    SlotsConserved /\ HealsCounted /\ RestartsLimited /\ FaultsUndone /\ RunningHasOneLoop

(***************************************************************************)
(* Nothing waits for ever: an open breaker is tried again, every call of   *)
(* the bulkhead ends and a stopped manager's loops end.                    *)
(***************************************************************************)
NothingHangs == OpenEnds /\ EveryCallEnds /\ StopEndsLoops
=============================================================================
