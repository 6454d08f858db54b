-------------------------- MODULE AgentCoordinator --------------------------
(***************************************************************************)
(* packages/src: the coordinator that assigns tasks to agents, its matcher *)
(* (scores in hundredths) and its load balancer.  Agents are capability    *)
(* objects the caller owns: an object keeps its load and history while it  *)
(* is not registered, and may be registered again.                         *)
(***************************************************************************)
EXTENDS Integers, Sequences, FiniteSets, SequencesExt

CONSTANTS
    Agents,
    skill,            \* agent -> percentage of the required skills it has
    maxLoad,
    historyWindow,    \* outcomes the matcher looks back at
    MaxOutstanding    \* bound on the tasks assigned to one agent at a time

ASSUME AgentsAssumption == IsFiniteSet(Agents)
ASSUME SkillAssumption == skill \in [Agents -> 0..100]
ASSUME LoadAssumption == maxLoad \in Nat \ {0} /\ historyWindow \in Nat

Strategy == {"round-robin", "least-loaded", "weighted-random"}

VARIABLES
    loadBalanceStrategy,
    agents,           \* ids in the order of the Map
    currentLoad,      \* agent -> currentLoad of its object
    recentHistory,    \* agent -> its last outcomes
    roundRobinIndex,  \* set of candidates -> index
    outstanding,      \* history: agent -> tasks assigned to it and not reported
    miscounted        \* history: agents that came or went while tasks were out

coordinatorVars == <<loadBalanceStrategy, agents, currentLoad, recentHistory,
                     roundRobinIndex, outstanding, miscounted>>

CoordinatorTypeOK ==
    /\ loadBalanceStrategy \in Strategy
    /\ agents \in Seq(Agents) /\ IsInjective(agents)
    /\ currentLoad \in [Agents -> 0..maxLoad]
    /\ recentHistory \in [Agents -> Seq(BOOLEAN)]
    /\ \A a \in Agents : Len(recentHistory[a]) <= historyWindow
    /\ roundRobinIndex \in [SUBSET Agents -> Nat]
    /\ \A c \in SUBSET Agents : roundRobinIndex[c] <= Cardinality(c)
    /\ outstanding \in [Agents -> Nat]
    /\ miscounted \in SUBSET Agents

CoordinatorInit ==
    /\ loadBalanceStrategy \in Strategy
    /\ agents = <<>>
    /\ currentLoad = [a \in Agents |-> 0]
    /\ recentHistory = [a \in Agents |-> <<>>]
    /\ roundRobinIndex = [c \in SUBSET Agents |-> 0]
    /\ outstanding = [a \in Agents |-> 0]
    /\ miscounted = {}

-----------------------------------------------------------------------------
registered(a) == \E i \in DOMAIN agents : agents[i] = a

\* Tasks are out while the agent comes or goes: its load no longer tells.
comesOrGoes(a) == IF outstanding[a] > 0 THEN miscounted \cup {a} ELSE miscounted

\* Map.set keeps the place of a key it has.  A fresh object starts from zero.
registerAgent(a, fresh) ==
    /\ agents' = IF registered(a) THEN agents ELSE Append(agents, a)
    /\ currentLoad' = IF fresh THEN [currentLoad EXCEPT ![a] = 0] ELSE currentLoad
    /\ recentHistory' = IF fresh THEN [recentHistory EXCEPT ![a] = <<>>]
                        ELSE recentHistory
    /\ miscounted' = IF fresh THEN comesOrGoes(a) ELSE miscounted
    /\ UNCHANGED <<loadBalanceStrategy, roundRobinIndex, outstanding>>

position(a) == CHOOSE i \in DOMAIN agents : agents[i] = a

unregisterAgent(a) ==
    /\ registered(a)
    /\ agents' = RemoveAt(agents, position(a))
    /\ miscounted' = comesOrGoes(a)
    /\ UNCHANGED <<loadBalanceStrategy, currentLoad, recentHistory,
                   roundRobinIndex, outstanding>>

successes(a) == Len(SelectSeq(recentHistory[a], LAMBDA s : s))

\* 0.15 of the success rate, 0.5 without a history, over 200 * |history|.
historyScore(a) ==
    IF recentHistory[a] = <<>> THEN <<15, 2>>
    ELSE <<15 * successes(a), Len(recentHistory[a])>>

\* Math.round of the weighted sum, in hundredths.
scoreAgent(a) ==
    LET h == historyScore(a)
        d == 100 * maxLoad * h[2]
        n == 60 * skill[a] * maxLoad * h[2]
             + 2500 * (maxLoad - currentLoad[a]) * h[2]
             + 100 * maxLoad * h[1]
    IN (2 * n + d) \div (2 * d)

available == {a \in Agents : registered(a) /\ currentLoad[a] < maxLoad}

\* match() puts the best score first; sort() is stable.
before(a, b) ==
    \/ scoreAgent(a) > scoreAgent(b)
    \/ scoreAgent(a) = scoreAgent(b) /\ position(a) < position(b)

place(a, candidates) == Cardinality({b \in candidates : before(b, a)})

lessLoaded(a, b) ==
    currentLoad[a] < currentLoad[b] \/ (currentLoad[a] = currentLoad[b] /\ before(a, b))

\* The agents a strategy may answer, with the index it leaves.
selectByStrategy(candidates, index) ==
    LET n == Cardinality(candidates)
        turned == [index EXCEPT ![candidates] = (@ + 1) % n]
        next == {a \in candidates : place(a, candidates) = index[candidates] % n}
        leastLoaded == {a \in candidates :
                           \A b \in candidates \ {a} : lessLoaded(a, b)}
    IN IF n = 1 \/ loadBalanceStrategy = "weighted-random"
       THEN candidates \X {index}
       ELSE IF loadBalanceStrategy = "least-loaded" THEN leastLoaded \X {index}
       ELSE next \X {turned}

suitable == {a \in available : scoreAgent(a) > 30}

\* Choosing a fallback turns the index of the agents it chooses among.
fallbackIndexes(primary, index) ==
    LET others == available \ {primary} IN
    IF others = {} THEN {index}
    ELSE {chosen[2] : chosen \in selectByStrategy(others, index)}

\* Mutant: the fallback agent is charged as well.
charged_All(primary) == available

charged(primary) == {primary}

\* Without an available and suitable agent the call fails and changes nothing.
assignTask ==
    /\ suitable # {}
    /\ \E chosen \in selectByStrategy(suitable, roundRobinIndex) :
          LET primary == chosen[1] IN
          /\ outstanding[primary] < MaxOutstanding
          /\ currentLoad' = [a \in Agents |-> IF a \in charged(primary)
                                              THEN currentLoad[a] + 1
                                              ELSE currentLoad[a]]
          /\ roundRobinIndex' \in fallbackIndexes(primary, chosen[2])
          /\ outstanding' = [outstanding EXCEPT ![primary] = @ + 1]
    /\ UNCHANGED <<loadBalanceStrategy, agents, recentHistory, miscounted>>

lastOutcomes(outcomes) ==
    SubSeq(outcomes, Len(outcomes) - historyWindow + 1, Len(outcomes))

\* A report for an agent that is not registered is dropped.
completeTask(a, success) ==
    /\ outstanding[a] > 0
    /\ outstanding' = [outstanding EXCEPT ![a] = @ - 1]
    /\ IF registered(a)
       THEN /\ currentLoad' = [currentLoad EXCEPT ![a] = IF @ > 0 THEN @ - 1 ELSE 0]
            /\ recentHistory' =
                  [recentHistory EXCEPT ![a] =
                      IF Len(@) < historyWindow THEN Append(@, success)
                      ELSE lastOutcomes(Append(@, success))]
       ELSE UNCHANGED <<currentLoad, recentHistory>>
    /\ UNCHANGED <<loadBalanceStrategy, agents, roundRobinIndex, miscounted>>

CoordinatorNext ==
    \/ \E a \in Agents :
          \/ \E fresh \in BOOLEAN : registerAgent(a, fresh)
          \/ unregisterAgent(a)
          \/ \E success \in BOOLEAN : completeTask(a, success)
    \/ assignTask

CoordinatorSpec == CoordinatorInit /\ [][CoordinatorNext]_coordinatorVars

-----------------------------------------------------------------------------
(***************************************************************************)
(* An agent's load is the tasks assigned to it and not reported, unless it *)
(* was unregistered or replaced by a fresh object while some were out.     *)
(***************************************************************************)
LoadsAreTasks ==
    \A a \in Agents \ miscounted : currentLoad[a] = outstanding[a]
=============================================================================
