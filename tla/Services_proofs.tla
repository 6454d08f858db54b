-------------------------- MODULE Services_proofs ---------------------------
(***************************************************************************)
(* Proofs about the in-process services, each by itself, for any number of *)
(* keys, agents, plugins and calls: the loads of the agents, what the      *)
(* levels of a cache hold, what its bounded layers evict and count, the    *)
(* code a plugin runs and the handlers of a hook, the chains of a context, *)
(* and the frames of the strict JSON scanner.                              *)
(***************************************************************************)
EXTENDS MCServices, SequenceTheorems, FiniteSetTheorems,
        WellFoundedInduction, TLAPS

(***************************************************************************)
(* A sequence with one more element, and one without its i-th.             *)
(***************************************************************************)
LEMMA OneMore ==
    ASSUME NEW S, NEW seq \in Seq(S), NEW x \in S
    PROVE  /\ Append(seq, x) \in Seq(S)
           /\ Len(Append(seq, x)) = Len(seq) + 1
           /\ Len(seq) \in Nat
           /\ DOMAIN seq = 1..Len(seq) /\ DOMAIN Append(seq, x) = 1..(Len(seq) + 1)
           /\ \A i \in 1..Len(seq) : Append(seq, x)[i] = seq[i]
           /\ Append(seq, x)[Len(seq) + 1] = x
  BY AppendProperties, LenProperties

LEMMA OneLess ==
    ASSUME NEW S, NEW seq \in Seq(S), NEW i \in 1..Len(seq)
    PROVE  /\ RemoveAt(seq, i) \in Seq(S)
           /\ Len(RemoveAt(seq, i)) = Len(seq) - 1
           /\ DOMAIN RemoveAt(seq, i) = 1..(Len(seq) - 1)
           /\ \A j \in 1..(Len(seq) - 1) :
                 RemoveAt(seq, i)[j] = IF j < i THEN seq[j] ELSE seq[j + 1]
  <1>1. PICK n \in Nat : n = Len(seq)
    BY LenProperties
  <1>2. PICK shorter : shorter = RemoveAt(seq, i)
    OBVIOUS
  <1>3. i \in 1..n
    BY <1>1
  <1> DEFINE front == SubSeq(seq, 1, i - 1)
             back == SubSeq(seq, i + 1, n)
  <1>4. DOMAIN seq = 1..n
    BY <1>1, LenProperties
  <1>5. /\ front \in Seq(S) /\ Len(front) = i - 1
        /\ \A j \in 1..(i - 1) : front[j] = seq[j]
    <2>1. \A j \in 1..(i - 1) : seq[j] \in S
      BY <1>1, <1>4, <1>3, ElementOfSeq
    <2>2. 1 \in Int /\ i - 1 \in Int /\ i - 1 - 1 + 1 = i - 1
      BY <1>1, <1>3
    <2>3. /\ front \in Seq(S)
          /\ Len(front) = IF 1 <= i - 1 THEN i - 1 - 1 + 1 ELSE 0
          /\ \A j \in 1..(i - 1 - 1 + 1) : front[j] = seq[1 + j - 1]
      BY <2>1, <2>2, SubSeqProperties
    <2> QED
      BY <1>1, <1>3, <2>3
  <1>6. /\ back \in Seq(S) /\ Len(back) = n - i
        /\ \A j \in 1..(n - i) : back[j] = seq[i + j]
    <2>1. \A j \in (i + 1)..n : seq[j] \in S
      BY <1>1, <1>4, <1>3, ElementOfSeq
    <2>2. i + 1 \in Int /\ n \in Int
      BY <1>1, <1>3
    <2>3. /\ back \in Seq(S)
          /\ Len(back) = IF i + 1 <= n THEN n - (i + 1) + 1 ELSE 0
          /\ \A j \in 1..(n - (i + 1) + 1) : back[j] = seq[i + 1 + j - 1]
      BY <2>1, <2>2, SubSeqProperties
    <2> QED
      BY <1>1, <1>3, <2>3
  <1>7. shorter = front \o back
    BY <1>1, <1>2 DEF RemoveAt
  <1> HIDE DEF front, back
  <1>8. /\ front \o back \in Seq(S) /\ Len(front \o back) = n - 1
        /\ \A j \in 1..(n - 1) : (front \o back)[j] =
              IF j <= i - 1 THEN front[j] ELSE back[j - (i - 1)]
    <2>1. /\ front \o back \in Seq(S) /\ Len(front \o back) = Len(front) + Len(back)
          /\ \A j \in 1..(Len(front) + Len(back)) : (front \o back)[j] =
                IF j <= Len(front) THEN front[j] ELSE back[j - Len(front)]
      BY <1>5, <1>6, ConcatProperties
    <2>2. Len(front) + Len(back) = n - 1
      BY <1>1, <1>5, <1>6, <1>3
    <2> QED
      BY <1>5, <2>1, <2>2
  <1>9. ASSUME NEW j \in 1..(n - 1)
        PROVE  shorter[j] = IF j < i THEN seq[j] ELSE seq[j + 1]
    <2>1. CASE j < i
      <3>1. j \in 1..(i - 1) /\ j <= i - 1
        BY <1>3, <2>1
      <3> QED
        BY <1>5, <1>7, <1>8, <2>1, <3>1
    <2>2. CASE ~(j < i)
      <3>1. j - (i - 1) \in 1..(n - i) /\ ~(j <= i - 1) /\ i + (j - (i - 1)) = j + 1
        BY <1>3, <2>2
      <3> QED
        BY <1>6, <1>7, <1>8, <2>2, <3>1
    <2> QED
      BY <2>1, <2>2
  <1> QED
    BY <1>1, <1>4, <1>7, <1>8, <1>9, <1>2, LenProperties

(***************************************************************************)
(* The elements of such sequences, when no element occurs in them twice.   *)
(***************************************************************************)
LEMMA AddedToInjective ==
    ASSUME NEW S, NEW seq \in Seq(S), IsInjective(seq), NEW x \in S, x \notin ToSet(seq)
    PROVE  /\ Append(seq, x) \in Seq(S) /\ IsInjective(Append(seq, x))
           /\ ToSet(Append(seq, x)) = ToSet(seq) \cup {x}
  <1>1. PICK n \in Nat, longer \in Seq(S) : n = Len(seq) /\ longer = Append(seq, x)
    BY OneMore
  <1>2. /\ longer \in Seq(S) /\ DOMAIN seq = 1..n /\ DOMAIN longer = 1..(n + 1)
        /\ \A i \in 1..n : longer[i] = seq[i]
        /\ longer[n + 1] = x
    BY <1>1, OneMore
  <1>3. \A i \in 1..n : longer[i] # x
    BY <1>2 DEF ToSet
  <1>4. IsInjective(longer)
    <2> SUFFICES ASSUME NEW i \in 1..(n + 1), NEW j \in 1..(n + 1), longer[i] = longer[j]
                 PROVE  i = j
      BY <1>2 DEF IsInjective
    <2>1. (i \in 1..n \/ i = n + 1) /\ (j \in 1..n \/ j = n + 1)
      OBVIOUS
    <2> QED
      BY <1>2, <1>3, <2>1 DEF IsInjective
  <1>5. ToSet(longer) = ToSet(seq) \cup {x}
    <2>1. 1..(n + 1) = (1..n) \cup {n + 1}
      OBVIOUS
    <2> QED
      BY <1>2, <2>1 DEF ToSet
  <1> QED
    BY <1>1, <1>2, <1>4, <1>5

LEMMA RemovedFromInjective ==
    ASSUME NEW S, NEW seq \in Seq(S), IsInjective(seq), NEW i \in DOMAIN seq,
           NEW shorter, shorter = RemoveAt(seq, i)
    PROVE  /\ shorter \in Seq(S) /\ IsInjective(shorter)
           /\ ToSet(shorter) = ToSet(seq) \ {seq[i]}
  <1>1. PICK n \in Nat : n = Len(seq) /\ DOMAIN seq = 1..n
    BY LenProperties
  <1>2. /\ shorter \in Seq(S) /\ DOMAIN shorter = 1..(n - 1)
        /\ \A j \in 1..(n - 1) : shorter[j] = IF j < i THEN seq[j] ELSE seq[j + 1]
    <2>1. i \in 1..Len(seq) /\ n = Len(seq)
      BY <1>1
    <2> QED
      BY <2>1, OneLess
  <1>3. \A j, k \in 1..n : seq[j] = seq[k] => j = k
    BY <1>1 DEF IsInjective
  <1>4. IsInjective(shorter)
    <2> SUFFICES ASSUME NEW j \in 1..(n - 1), NEW k \in 1..(n - 1), shorter[j] = shorter[k]
                 PROVE  j = k
      BY <1>2 DEF IsInjective
    <2> DEFINE was(l) == IF l < i THEN l ELSE l + 1
    <2>1. was(j) \in 1..n /\ was(k) \in 1..n
      BY <1>1
    <2>2. seq[was(j)] = seq[was(k)]
      BY <1>2
    <2>3. was(j) = was(k)
      BY <1>3, <2>1, <2>2
    <2> QED
      BY <1>1, <2>3
  <1>5. ToSet(shorter) \subseteq ToSet(seq) \ {seq[i]}
    <2> SUFFICES ASSUME NEW j \in 1..(n - 1)
                 PROVE  \E k \in 1..n : shorter[j] = seq[k] /\ k # i
      <3>1. \A k \in 1..n : seq[k] \in ToSet(seq) /\ (seq[k] = seq[i] => k = i)
        BY <1>1, <1>3 DEF ToSet
      <3>2. ToSet(shorter) = {shorter[j] : j \in 1..(n - 1)}
        BY <1>2 DEF ToSet
      <3> QED
        BY <3>1, <3>2
    <2>1. CASE j < i
      BY <1>1, <1>2, <2>1
    <2>2. CASE ~(j < i)
      <3>1. j + 1 \in 1..n /\ j + 1 # i
        BY <1>1, <2>2
      <3> QED
        BY <1>2, <2>2, <3>1
    <2> QED
      BY <2>1, <2>2
  <1>6. ToSet(seq) \ {seq[i]} \subseteq ToSet(shorter)
    <2> SUFFICES ASSUME NEW x \in ToSet(seq) \ {seq[i]} PROVE x \in ToSet(shorter)
      OBVIOUS
    <2>3. PICK k \in 1..n : x = seq[k] /\ k # i
      BY <1>1 DEF ToSet
    <2> SUFFICES \E j \in 1..(n - 1) : shorter[j] = seq[k]
      BY <1>2, <2>3 DEF ToSet
    <2>1. CASE k < i
      <3>1. k \in 1..(n - 1)
        BY <1>1, <2>1, <2>3
      <3> QED
        BY <1>2, <2>1, <3>1
    <2>2. CASE ~(k < i)
      <3>1. k - 1 \in 1..(n - 1) /\ ~(k - 1 < i) /\ (k - 1) + 1 = k
        BY <1>1, <2>2, <2>3
      <3> QED
        BY <1>2, <3>1
    <2> QED
      BY <2>1, <2>2
  <1> QED
    BY <1>2, <1>4, <1>5, <1>6

-----------------------------------------------------------------------------
(***************************************************************************)
(* The agent coordinator.  That a load is the tasks that are out rests on  *)
(* the agents with tasks out being registered, or counted as having come   *)
(* or gone with them.                                                      *)
(***************************************************************************)
CoordinatorInv ==
    /\ CoordinatorTypeOK
    /\ LoadsAreTasks
    /\ \A a \in Agents \ miscounted : outstanding[a] > 0 => registered(a)

\* The agents assignTask() may answer are registered and have room.
LEMMA ChosenIsAvailable ==
    ASSUME NEW chosen, NEW candidates, NEW indexes, chosen \in selectByStrategy(candidates, indexes)
    PROVE  chosen[1] \in candidates
  BY DEF selectByStrategy

LEMMA SuitableIsFree ==
    ASSUME NEW a \in suitable
    PROVE  a \in Agents /\ registered(a) /\ currentLoad[a] < maxLoad
  BY DEF suitable, available

LEMMA CoordinatorStarts == CoordinatorInit => CoordinatorInv
  <1> SUFFICES ASSUME CoordinatorInit PROVE CoordinatorInv
    OBVIOUS
  <1>1. <<>> \in Seq(Agents) /\ <<>> \in Seq(BOOLEAN) /\ Len(<<>>) = 0 /\ DOMAIN <<>> = {}
    BY EmptySeq
  <1>2. IsInjective(agents)
    BY <1>1 DEF CoordinatorInit, IsInjective
  <1>3. \A c \in SUBSET Agents : Cardinality(c) \in Nat
    BY AgentsAssumption, FS_Subset, FS_CardinalityType
  <1>4. CoordinatorTypeOK
    BY <1>1, <1>2, <1>3, LoadAssumption DEF CoordinatorInit, CoordinatorTypeOK
  <1> QED
    BY <1>4 DEF CoordinatorInit, CoordinatorInv, LoadsAreTasks

LEMMA RegisterKeepsLoads ==
    ASSUME CoordinatorInv, NEW a \in Agents, NEW fresh \in BOOLEAN, registerAgent(a, fresh)
    PROVE  CoordinatorInv'
  <1>1. /\ agents' \in Seq(Agents) /\ IsInjective(agents')
        /\ ToSet(agents') = ToSet(agents) \cup {a}
    <2>1. agents \in Seq(Agents) /\ IsInjective(agents)
      BY DEF CoordinatorInv, CoordinatorTypeOK
    <2>2. CASE registered(a)
      BY <2>1, <2>2 DEF registerAgent, registered, ToSet
    <2>3. CASE ~registered(a)
      <3>1. a \notin ToSet(agents) /\ agents' = Append(agents, a)
        BY <2>3 DEF registerAgent, registered, ToSet
      <3> QED
        BY <2>1, <3>1, AddedToInjective
    <2> QED
      BY <2>2, <2>3
  <1>2. /\ currentLoad' = currentLoad \/ currentLoad' = [currentLoad EXCEPT ![a] = 0]
        /\ recentHistory' = recentHistory
           \/ recentHistory' = [recentHistory EXCEPT ![a] = <<>>]
        /\ miscounted \subseteq miscounted' /\ miscounted' \subseteq miscounted \cup {a}
        /\ currentLoad' # currentLoad => a \in miscounted' \/ ~(outstanding[a] > 0)
        /\ UNCHANGED <<loadBalanceStrategy, roundRobinIndex, outstanding>>
    BY DEF registerAgent, comesOrGoes
  <1>3. <<>> \in Seq(BOOLEAN) /\ Len(<<>>) = 0
    BY EmptySeq
  <1>4. /\ recentHistory' \in [Agents -> Seq(BOOLEAN)]
        /\ \A b \in Agents : Len(recentHistory'[b]) <= historyWindow
    <2>1. /\ recentHistory \in [Agents -> Seq(BOOLEAN)]
          /\ \A b \in Agents : Len(recentHistory[b]) <= historyWindow
      BY DEF CoordinatorInv, CoordinatorTypeOK
    <2>2. CASE recentHistory' = recentHistory
      BY <2>1, <2>2
    <2>3. CASE recentHistory' = [recentHistory EXCEPT ![a] = <<>>]
      <3>1. recentHistory' \in [Agents -> Seq(BOOLEAN)]
        BY <1>3, <2>1, <2>3
      <3>2. ASSUME NEW b \in Agents PROVE Len(recentHistory'[b]) <= historyWindow
        <4>1. recentHistory'[b] = IF b = a THEN <<>> ELSE recentHistory[b]
          BY <2>1, <2>3
        <4> QED
          BY <1>3, <2>1, <4>1, LoadAssumption
      <3> QED
        BY <3>1, <3>2
    <2> QED
      BY <1>2, <2>2, <2>3
  <1>5. CoordinatorTypeOK'
    <2>1. currentLoad' \in [Agents -> 0..maxLoad]
      <3>1. currentLoad \in [Agents -> 0..maxLoad] /\ 0 \in 0..maxLoad
        BY LoadAssumption DEF CoordinatorInv, CoordinatorTypeOK
      <3>2. [currentLoad EXCEPT ![a] = 0] \in [Agents -> 0..maxLoad]
        BY <3>1
      <3> QED
        BY <1>2, <3>1, <3>2
    <2>2. miscounted' \in SUBSET Agents
      BY <1>2 DEF CoordinatorInv, CoordinatorTypeOK
    <2> QED
      BY <1>1, <1>2, <1>4, <2>1, <2>2 DEF CoordinatorInv, CoordinatorTypeOK
  <1>6. LoadsAreTasks'
    <2> SUFFICES ASSUME NEW b \in Agents \ miscounted' PROVE currentLoad'[b] = outstanding'[b]
      BY DEF LoadsAreTasks
    <2>1. currentLoad[b] = outstanding[b] /\ outstanding[b] \in Nat
      BY <1>2 DEF CoordinatorInv, CoordinatorTypeOK, LoadsAreTasks
    <2> QED
      BY <1>2, <2>1 DEF CoordinatorInv, CoordinatorTypeOK
  <1>7. \A b \in Agents \ miscounted' : outstanding'[b] > 0 => registered(b)'
    <2>1. outstanding' = outstanding /\ miscounted \subseteq miscounted'
      BY <1>2
    <2>2. \A b : registered(b) <=> b \in ToSet(agents)
      BY DEF registered, ToSet
    <2>3. \A b : registered(b)' <=> b \in ToSet(agents')
      BY DEF registered, ToSet
    <2>4. \A b \in Agents \ miscounted : outstanding[b] > 0 => registered(b)
      BY DEF CoordinatorInv
    <2> QED
      BY <1>1, <2>1, <2>2, <2>3, <2>4
  <1> QED
    BY <1>5, <1>6, <1>7 DEF CoordinatorInv

LEMMA UnregisterKeepsLoads ==
    ASSUME CoordinatorInv, NEW a \in Agents, unregisterAgent(a)
    PROVE  CoordinatorInv'
  <1>1. /\ agents' \in Seq(Agents) /\ IsInjective(agents')
        /\ ToSet(agents') = ToSet(agents) \ {a}
    <2>1. agents \in Seq(Agents) /\ IsInjective(agents)
      BY DEF CoordinatorInv, CoordinatorTypeOK
    <2>2. position(a) \in DOMAIN agents /\ agents[position(a)] = a
      BY DEF unregisterAgent, registered, position
    <2>3. agents' = RemoveAt(agents, position(a))
      BY DEF unregisterAgent
    <2> QED
      BY <2>1, <2>2, <2>3, RemovedFromInjective
  <1>2. /\ miscounted \subseteq miscounted' /\ miscounted' \subseteq miscounted \cup {a}
        /\ a \in miscounted' \/ ~(outstanding[a] > 0)
        /\ UNCHANGED <<loadBalanceStrategy, currentLoad, recentHistory, roundRobinIndex,
                       outstanding>>
    BY DEF unregisterAgent, comesOrGoes
  <1>3. CoordinatorTypeOK'
    BY <1>1, <1>2 DEF CoordinatorInv, CoordinatorTypeOK
  <1>4. LoadsAreTasks'
    BY <1>2 DEF CoordinatorInv, LoadsAreTasks
  <1>5. \A b \in Agents \ miscounted' : outstanding'[b] > 0 => registered(b)'
    BY <1>1, <1>2 DEF CoordinatorInv, registered, ToSet
  <1> QED
    BY <1>3, <1>4, <1>5 DEF CoordinatorInv

\* Choosing turns the indexes of lists, each within its length.
IndexesFit(indexes) ==
    /\ indexes \in [SUBSET Agents -> Nat]
    /\ \A c \in SUBSET Agents : indexes[c] <= Cardinality(c)

LEMMA ChoosingKeepsIndexes ==
    ASSUME NEW candidates \in SUBSET Agents, candidates # {},
           NEW indexes, IndexesFit(indexes), NEW chosen \in selectByStrategy(candidates, indexes)
    PROVE  IndexesFit(chosen[2])
  <1>1. PICK n \in Nat : n = Cardinality(candidates)
    BY AgentsAssumption, FS_Subset, FS_CardinalityType
  <1>2. n # 0
    BY <1>1, AgentsAssumption, FS_Subset, FS_EmptySet
  <1>3. \/ chosen[2] = indexes
        \/ chosen[2] = [indexes EXCEPT ![candidates] = (@ + 1) % n]
    BY <1>1 DEF selectByStrategy
  <1>4. indexes[candidates] \in Nat
    BY DEF IndexesFit
  <1>5. (indexes[candidates] + 1) % n \in 0..(n - 1)
    BY <1>1, <1>2, <1>4
  <1>6. CASE chosen[2] = indexes
    BY <1>6
  <1>7. CASE chosen[2] = [indexes EXCEPT ![candidates] = (@ + 1) % n]
    <2>1. chosen[2] \in [SUBSET Agents -> Nat]
      BY <1>4, <1>5, <1>7 DEF IndexesFit
    <2>2. ASSUME NEW c \in SUBSET Agents PROVE chosen[2][c] <= Cardinality(c)
      <3>1. chosen[2][c] = IF c = candidates THEN (indexes[candidates] + 1) % n ELSE indexes[c]
        BY <1>7 DEF IndexesFit
      <3> QED
        BY <1>1, <1>5, <3>1 DEF IndexesFit
    <2> QED
      BY <2>1, <2>2 DEF IndexesFit
  <1> QED
    BY <1>3, <1>6, <1>7

LEMMA AssignKeepsLoads ==
    ASSUME CoordinatorInv, assignTask
    PROVE  CoordinatorInv'
  <1>1. PICK chosen \in selectByStrategy(suitable, roundRobinIndex) :
             /\ currentLoad' = [a \in Agents |-> IF a \in charged(chosen[1])
                                                 THEN currentLoad[a] + 1
                                                 ELSE currentLoad[a]]
             /\ roundRobinIndex' \in fallbackIndexes(chosen[1], chosen[2])
             /\ outstanding' = [outstanding EXCEPT ![chosen[1]] = @ + 1]
    BY DEF assignTask
  <1>2. PICK primary : primary = chosen[1]
    OBVIOUS
  <1>3. primary \in Agents /\ registered(primary) /\ currentLoad[primary] < maxLoad
    BY <1>2, ChosenIsAvailable, SuitableIsFree
  <1>4. /\ currentLoad \in [Agents -> 0..maxLoad]
        /\ outstanding \in [Agents -> Nat]
        /\ maxLoad \in Nat
    BY LoadAssumption DEF CoordinatorInv, CoordinatorTypeOK
  <1>5. /\ UNCHANGED <<loadBalanceStrategy, agents, recentHistory, miscounted>>
        /\ suitable # {}
    BY DEF assignTask
  <1>6. \A a \in Agents : currentLoad'[a] = IF a = primary THEN currentLoad[a] + 1
                                            ELSE currentLoad[a]
    BY <1>1, <1>2 DEF charged
  <1>7. \A a \in Agents : outstanding'[a] = IF a = primary THEN outstanding[a] + 1
                                            ELSE outstanding[a]
    BY <1>1, <1>2, <1>4
  <1>8. currentLoad' \in [Agents -> 0..maxLoad]
    <2>1. ASSUME NEW a \in Agents PROVE currentLoad'[a] \in 0..maxLoad
      BY <1>3, <1>4, <1>6
    <2>2. currentLoad' = [a \in Agents |-> currentLoad'[a]]
      BY <1>1
    <2> QED
      BY <2>1, <2>2
  <1>9. outstanding' \in [Agents -> Nat]
    BY <1>1, <1>2, <1>3, <1>4
  <1>10. IndexesFit(roundRobinIndex')
    <2>1. IndexesFit(roundRobinIndex)
      BY DEF CoordinatorInv, CoordinatorTypeOK, IndexesFit
    <2>2. suitable \in SUBSET Agents /\ available \ {primary} \in SUBSET Agents
      BY DEF suitable, available
    <2>3. IndexesFit(chosen[2])
      BY <1>5, <2>1, <2>2, ChoosingKeepsIndexes
    <2>4. CASE available \ {primary} = {}
      BY <1>1, <1>2, <2>3, <2>4 DEF fallbackIndexes
    <2>5. CASE available \ {primary} # {}
      <3>1. PICK other \in selectByStrategy(available \ {primary}, chosen[2]) :
                 roundRobinIndex' = other[2]
        BY <1>1, <1>2, <2>5 DEF fallbackIndexes
      <3>2. IndexesFit(other[2])
        BY <2>2, <2>3, <2>5, ChoosingKeepsIndexes
      <3> QED
        BY <3>1, <3>2
    <2> QED
      BY <2>4, <2>5
  <1>11. CoordinatorTypeOK'
    BY <1>5, <1>8, <1>9, <1>10 DEF CoordinatorInv, CoordinatorTypeOK, IndexesFit
  <1>12. LoadsAreTasks'
    BY <1>5, <1>6, <1>7 DEF CoordinatorInv, LoadsAreTasks
  <1>13. \A a \in Agents \ miscounted' : outstanding'[a] > 0 => registered(a)'
    <2>1. \A a \in Agents : registered(a)' <=> registered(a)
      BY <1>5 DEF registered
    <2> QED
      BY <1>3, <1>5, <1>7, <2>1 DEF CoordinatorInv
  <1> QED
    BY <1>11, <1>12, <1>13 DEF CoordinatorInv

\* The last outcomes of a history that is one longer than the matcher keeps.
LEMMA LastOutcomes ==
    ASSUME NEW outcomes \in Seq(BOOLEAN), Len(outcomes) = historyWindow + 1
    PROVE  /\ lastOutcomes(outcomes) \in Seq(BOOLEAN)
           /\ Len(lastOutcomes(outcomes)) = historyWindow
  <1>1. PICK n \in Nat : n = historyWindow
    BY LoadAssumption
  <1>2. lastOutcomes(outcomes) = SubSeq(outcomes, 2, n + 1)
    BY <1>1 DEF lastOutcomes
  <1>3. \A i \in 2..(n + 1) : outcomes[i] \in BOOLEAN
    BY <1>1, ElementOfSeq
  <1>4. /\ SubSeq(outcomes, 2, n + 1) \in Seq(BOOLEAN)
        /\ Len(SubSeq(outcomes, 2, n + 1)) = IF 2 <= n + 1 THEN n + 1 - 2 + 1 ELSE 0
    BY <1>1, <1>3, SubSeqProperties
  <1> QED
    BY <1>1, <1>2, <1>4

LEMMA ReportKeepsLoads ==
    ASSUME CoordinatorInv, NEW a \in Agents, NEW success \in BOOLEAN, completeTask(a, success)
    PROVE  CoordinatorInv'
  <1>1. /\ currentLoad \in [Agents -> 0..maxLoad]
        /\ outstanding \in [Agents -> Nat]
        /\ maxLoad \in Nat /\ historyWindow \in Nat
    BY LoadAssumption DEF CoordinatorInv, CoordinatorTypeOK
  <1>2. /\ outstanding[a] > 0
        /\ outstanding' = [outstanding EXCEPT ![a] = @ - 1]
        /\ UNCHANGED <<loadBalanceStrategy, agents, roundRobinIndex, miscounted>>
    BY DEF completeTask
  <1>3. outstanding' \in [Agents -> Nat]
    BY <1>1, <1>2
  <1>4. \A b \in Agents : registered(b)' <=> registered(b)
    BY <1>2 DEF registered
  <1>5. /\ currentLoad' \in [Agents -> 0..maxLoad]
        /\ \A b \in Agents : currentLoad'[b] = IF b = a /\ registered(a) /\ currentLoad[b] > 0
                                               THEN currentLoad[b] - 1 ELSE currentLoad[b]
    <2>1. CASE registered(a)
      <3>1. currentLoad' = [currentLoad EXCEPT ![a] = IF @ > 0 THEN @ - 1 ELSE 0]
        BY <2>1 DEF completeTask
      <3>2. currentLoad[a] \in 0..maxLoad
        BY <1>1
      <3>3. (IF currentLoad[a] > 0 THEN currentLoad[a] - 1 ELSE 0) \in 0..maxLoad
        BY <1>1, <3>2
      <3> QED
        BY <1>1, <2>1, <3>1, <3>2, <3>3
    <2>2. CASE ~registered(a)
      BY <1>1, <2>2 DEF completeTask
    <2> QED
      BY <2>1, <2>2
  <1>6. /\ recentHistory' \in [Agents -> Seq(BOOLEAN)]
        /\ \A b \in Agents : Len(recentHistory'[b]) <= historyWindow
    <2>1. /\ recentHistory \in [Agents -> Seq(BOOLEAN)]
          /\ \A b \in Agents : Len(recentHistory[b]) <= historyWindow
      BY DEF CoordinatorInv, CoordinatorTypeOK
    <2>2. CASE ~registered(a)
      BY <2>1, <2>2 DEF completeTask
    <2>3. CASE registered(a)
      <3>1. PICK outcomes \in Seq(BOOLEAN) : outcomes = recentHistory[a]
        BY <2>1
      <3>2. PICK next : next = IF Len(outcomes) < historyWindow THEN Append(outcomes, success)
                               ELSE lastOutcomes(Append(outcomes, success))
        OBVIOUS
      <3>3. recentHistory' = [recentHistory EXCEPT ![a] = next]
        BY <2>3, <3>1, <3>2 DEF completeTask
      <3>4. next \in Seq(BOOLEAN) /\ Len(next) <= historyWindow
        <4>1. Append(outcomes, success) \in Seq(BOOLEAN)
              /\ Len(Append(outcomes, success)) = Len(outcomes) + 1
              /\ Len(outcomes) \in Nat
          BY OneMore
        <4>2. Len(outcomes) <= historyWindow
          BY <2>1, <3>1
        <4>3. CASE Len(outcomes) < historyWindow
          BY <1>1, <3>2, <4>1, <4>3
        <4>4. CASE ~(Len(outcomes) < historyWindow)
          <5>1. Len(Append(outcomes, success)) = historyWindow + 1
            BY <1>1, <4>1, <4>2, <4>4
          <5>2. /\ lastOutcomes(Append(outcomes, success)) \in Seq(BOOLEAN)
                /\ Len(lastOutcomes(Append(outcomes, success))) = historyWindow
            BY <4>1, <5>1, LastOutcomes
          <5> QED
            BY <1>1, <3>2, <4>4, <5>2
        <4> QED
          BY <4>3, <4>4
      <3>5. recentHistory' \in [Agents -> Seq(BOOLEAN)]
        BY <2>1, <3>3, <3>4
      <3>6. ASSUME NEW b \in Agents PROVE Len(recentHistory'[b]) <= historyWindow
        <4>1. recentHistory'[b] = IF b = a THEN next ELSE recentHistory[b]
          BY <2>1, <3>3
        <4> QED
          BY <2>1, <3>4, <4>1
      <3> QED
        BY <3>5, <3>6
    <2> QED
      BY <2>2, <2>3
  <1>7. CoordinatorTypeOK'
    BY <1>2, <1>3, <1>5, <1>6 DEF CoordinatorInv, CoordinatorTypeOK
  <1>8. LoadsAreTasks'
    <2> SUFFICES ASSUME NEW b \in Agents \ miscounted PROVE currentLoad'[b] = outstanding'[b]
      BY <1>2 DEF LoadsAreTasks
    <2>1. /\ currentLoad[b] = outstanding[b] /\ outstanding[b] \in Nat
          /\ outstanding[b] > 0 => registered(b)
      BY <1>1 DEF CoordinatorInv, LoadsAreTasks
    <2>2. outstanding'[b] = IF b = a THEN outstanding[b] - 1 ELSE outstanding[b]
      BY <1>1, <1>2
    <2>3. CASE b = a
      BY <1>2, <1>5, <2>1, <2>2, <2>3
    <2>4. CASE b # a
      BY <1>5, <2>1, <2>2, <2>4
    <2> QED
      BY <2>3, <2>4
  <1>9. \A b \in Agents \ miscounted' : outstanding'[b] > 0 => registered(b)'
    BY <1>1, <1>2, <1>4 DEF CoordinatorInv
  <1> QED
    BY <1>7, <1>8, <1>9 DEF CoordinatorInv

(***************************************************************************)
(* An agent's load is the tasks assigned to it and not reported, however   *)
(* assignments, reports, registrations and fallbacks interleave, unless it *)
(* came or went with tasks out; it stays within its limit, and a list's    *)
(* round-robin index within its length.                                    *)
(***************************************************************************)
THEOREM LoadsStayTasks == CoordinatorSpec => [](CoordinatorTypeOK /\ LoadsAreTasks)
  <1>1. CoordinatorInv /\ [CoordinatorNext]_coordinatorVars => CoordinatorInv'
    <2> SUFFICES ASSUME CoordinatorInv, [CoordinatorNext]_coordinatorVars
                 PROVE  CoordinatorInv'
      OBVIOUS
    <2>1. ASSUME NEW a \in Agents, NEW fresh \in BOOLEAN, registerAgent(a, fresh)
          PROVE  CoordinatorInv'
      BY <2>1, RegisterKeepsLoads
    <2>2. ASSUME NEW a \in Agents, unregisterAgent(a) PROVE CoordinatorInv'
      BY <2>2, UnregisterKeepsLoads
    <2>3. ASSUME NEW a \in Agents, NEW success \in BOOLEAN, completeTask(a, success)
          PROVE  CoordinatorInv'
      BY <2>3, ReportKeepsLoads
    <2>4. CASE assignTask
      BY <2>4, AssignKeepsLoads
    <2>5. CASE UNCHANGED coordinatorVars
      <3>1. CoordinatorTypeOK'
        BY <2>5 DEF CoordinatorInv, CoordinatorTypeOK, coordinatorVars
      <3> QED
        BY <2>5, <3>1 DEF CoordinatorInv, LoadsAreTasks, registered, coordinatorVars
    <2> QED
      BY <2>1, <2>2, <2>3, <2>4, <2>5 DEF CoordinatorNext
  <1>2. CoordinatorInv => CoordinatorTypeOK /\ LoadsAreTasks
    BY DEF CoordinatorInv
  <1> QED
    BY <1>1, <1>2, CoordinatorStarts, PTL DEF CoordinatorSpec

-----------------------------------------------------------------------------
(***************************************************************************)
(* The multi-level cache: that what is live is what was last written is    *)
(* kept by every step, whatever the getters await.                         *)
(***************************************************************************)
LevelsInv == LevelsTypeOK /\ LevelsHoldLatest

\* freshAt(), level by level and key by key.
LEMMA FreshAt ==
    ASSUME LevelsTypeOK, NEW levels, NEW k \in Keys
    PROVE  /\ freshAt(levels, k) \in [Level -> SUBSET Keys]
           /\ \A l \in Level, x \in Keys :
                 x \in freshAt(levels, k)[l] <=>
                    x \in expired[l] /\ ~(l \in levels /\ x = k)
  BY DEF freshAt, LevelsTypeOK

\* What put() and freshAt() together keep: a written value everywhere, or a
\* copy of a live one above it.
LEMMA PutKeepsLevels ==
    ASSUME LevelsInv, NEW levels, NEW k \in Keys, NEW v \in Values \cup {NONE},
           store' = put(store, levels, k, v), expired' = freshAt(levels, k),
           fetching' \in [Getters -> Keys \cup {NONE}],
           \/ levels = Level /\ written' = [written EXCEPT ![k] = v]
           \/ v = written[k] /\ written' = written
    PROVE  LevelsInv'
  <1>1. /\ store \in [Level -> [Keys -> Values \cup {NONE}]]
        /\ written \in [Keys -> Values \cup {NONE}]
        /\ \A l \in Level, x \in Keys : x \in expired[l] => store[l][x] # NONE
    BY DEF LevelsInv, LevelsTypeOK
  <1>2. /\ store' \in [Level -> [Keys -> Values \cup {NONE}]]
        /\ \A l \in Level, x \in Keys :
              store'[l][x] = IF l \in levels /\ x = k THEN v ELSE store[l][x]
    <2>1. /\ put(store, levels, k, v) \in [Level -> [Keys -> Values \cup {NONE}]]
          /\ \A l \in Level, x \in Keys :
                put(store, levels, k, v)[l][x] =
                   IF l \in levels /\ x = k THEN v ELSE store[l][x]
      BY <1>1 DEF put
    <2> QED
      BY <2>1
  <1>3. /\ expired' \in [Level -> SUBSET Keys]
        /\ \A l \in Level, x \in Keys :
              x \in expired'[l] <=> x \in expired[l] /\ ~(l \in levels /\ x = k)
    BY FreshAt DEF LevelsInv
  <1>4. /\ written' \in [Keys -> Values \cup {NONE}]
        /\ \A x \in Keys : written'[x] = IF x = k THEN v ELSE written[x]
    BY <1>1
  <1>5. LevelsTypeOK'
    <2>1. \A l \in Level : \A x \in expired'[l] : store'[l][x] # NONE
      BY <1>1, <1>2, <1>3
    <2> QED
      BY <1>2, <1>3, <1>4, <2>1 DEF LevelsTypeOK
  <1>6. LevelsHoldLatest'
    <2> SUFFICES ASSUME NEW l \in Level, NEW x \in Keys,
                        store'[l][x] # NONE, x \notin expired'[l]
                 PROVE  store'[l][x] = written'[x]
      BY DEF LevelsHoldLatest, live
    <2>1. CASE l \in levels /\ x = k
      BY <1>2, <1>4, <2>1
    <2>2. CASE ~(l \in levels /\ x = k)
      <3>1. store[l][x] # NONE /\ x \notin expired[l]
        BY <1>2, <1>3, <2>2
      <3>2. store[l][x] = written[x]
        BY <3>1 DEF LevelsInv, LevelsHoldLatest, live
      <3>3. written'[x] = written[x]
        BY <1>4, <2>2, <3>2
      <3> QED
        BY <1>2, <2>2, <3>2, <3>3
    <2> QED
      BY <2>1, <2>2
  <1> QED
    BY <1>5, <1>6 DEF LevelsInv

LEMMA GetKeepsLevels ==
    ASSUME LevelsInv, NEW g \in Getters, NEW k \in Keys, getFromLevel(g, k)
    PROVE  LevelsInv'
  <1>1. UNCHANGED <<fetching, written>>
    BY DEF getFromLevel
  <1>2. fetching' \in [Getters -> Keys \cup {NONE}]
    BY <1>1 DEF LevelsInv, LevelsTypeOK
  <1>3. \A l \in Level : live(l, k) => /\ store[l][k] = written[k]
                                       /\ store[l][k] \in Values \cup {NONE}
    BY DEF LevelsInv, LevelsTypeOK, LevelsHoldLatest
  <1>4. CASE UNCHANGED <<store, expired>>
    BY <1>1, <1>4 DEF LevelsInv, LevelsTypeOK, LevelsHoldLatest, live
  <1>5. CASE /\ hitL2(k) /\ store' = put(store, {"l1"}, k, store["l2"][k])
             /\ expired' = freshAt({"l1"}, k)
    <2>1. store["l2"][k] = written[k] /\ store["l2"][k] \in Values \cup {NONE}
      BY <1>3, <1>5 DEF hitL2, Level
    <2> QED
      BY <1>1, <1>2, <1>5, <2>1, PutKeepsLevels
  <1>6. CASE /\ hitL3(k) /\ store' = put(store, {"l1", "l2"}, k, store["l3"][k])
             /\ expired' = freshAt({"l1", "l2"}, k)
    <2>1. store["l3"][k] = written[k] /\ store["l3"][k] \in Values \cup {NONE}
      BY <1>3, <1>6 DEF hitL3, Level
    <2> QED
      BY <1>1, <1>2, <1>6, <2>1, PutKeepsLevels
  <1> QED
    BY <1>4, <1>5, <1>6 DEF getFromLevel

LEMMA MissKeepsLevels ==
    ASSUME LevelsInv, NEW g \in Getters, NEW k \in Keys, getFromNone(g, k)
    PROVE  LevelsInv'
  <1>1. /\ store' = withoutExpired(Level, k) /\ expired' = freshAt(Level, k)
        /\ fetching' = fetching \/ fetching' = [fetching EXCEPT ![g] = k]
        /\ written' = written
    BY DEF getFromNone
  <1>2. /\ store \in [Level -> [Keys -> Values \cup {NONE}]]
        /\ fetching \in [Getters -> Keys \cup {NONE}]
        /\ \A l \in Level, x \in Keys : x \in expired[l] => store[l][x] # NONE
    BY DEF LevelsInv, LevelsTypeOK
  <1>3. fetching' \in [Getters -> Keys \cup {NONE}]
    <2>1. [fetching EXCEPT ![g] = k] \in [Getters -> Keys \cup {NONE}]
      BY <1>2
    <2> QED
      BY <1>1, <1>2, <2>1
  <1>4. /\ store' \in [Level -> [Keys -> Values \cup {NONE}]]
        /\ \A l \in Level, x \in Keys :
              store'[l][x] = IF x = k /\ k \in expired[l] THEN NONE ELSE store[l][x]
    BY <1>1, <1>2 DEF withoutExpired
  <1>5. /\ expired' \in [Level -> SUBSET Keys]
        /\ \A l \in Level, x \in Keys : x \in expired'[l] <=> x \in expired[l] /\ x # k
    <2>1. /\ freshAt(Level, k) \in [Level -> SUBSET Keys]
          /\ \A l \in Level, x \in Keys :
                x \in freshAt(Level, k)[l] <=> x \in expired[l] /\ ~(l \in Level /\ x = k)
      BY FreshAt DEF LevelsInv
    <2> QED
      BY <1>1, <2>1
  <1>6. LevelsTypeOK'
    <2>1. \A l \in Level : \A x \in expired'[l] : store'[l][x] # NONE
      BY <1>2, <1>4, <1>5
    <2> QED
      BY <1>1, <1>3, <1>4, <1>5, <2>1 DEF LevelsInv, LevelsTypeOK
  <1>7. LevelsHoldLatest'
    <2> SUFFICES ASSUME NEW l \in Level, NEW x \in Keys,
                        store'[l][x] # NONE, x \notin expired'[l]
                 PROVE  store'[l][x] = written'[x]
      BY DEF LevelsHoldLatest, live
    <2>1. store'[l][x] = store[l][x] /\ x \notin expired[l]
      BY <1>4, <1>5
    <2> QED
      BY <1>1, <2>1 DEF LevelsInv, LevelsHoldLatest, live
  <1> QED
    BY <1>6, <1>7 DEF LevelsInv

LEMMA WriteKeepsLevels ==
    ASSUME LevelsInv, NEW k \in Keys, NEW v \in Values, write(k, v),
           fetching' \in [Getters -> Keys \cup {NONE}]
    PROVE  LevelsInv'
  <1>1. written' = [written EXCEPT ![k] = v] /\ v # NONE
    BY NoneAssumption DEF write
  <1>2. /\ store \in [Level -> [Keys -> Values \cup {NONE}]]
        /\ written \in [Keys -> Values \cup {NONE}]
        /\ \A l \in Level, x \in Keys : x \in expired[l] => store[l][x] # NONE
    BY DEF LevelsInv, LevelsTypeOK
  <1>3. CASE store' = put(store, Level, k, v) /\ expired' = freshAt(Level, k)
    BY <1>1, <1>3, PutKeepsLevels
  <1>4. CASE /\ store' = [put(store, Level, k, v) EXCEPT !["l1"] = [EmptyLevel EXCEPT ![k] = v]]
             /\ expired' = [freshAt(Level, k) EXCEPT !["l1"] = {}]
    <2>1. PICK filled \in [Level -> [Keys -> Values \cup {NONE}]] :
               /\ filled = put(store, Level, k, v)
               /\ \A l \in Level, x \in Keys :
                     filled[l][x] = IF l \in Level /\ x = k THEN v ELSE store[l][x]
      <3>1. /\ put(store, Level, k, v) \in [Level -> [Keys -> Values \cup {NONE}]]
            /\ \A l \in Level, x \in Keys :
                  put(store, Level, k, v)[l][x] =
                     IF l \in Level /\ x = k THEN v ELSE store[l][x]
        BY <1>2 DEF put
      <3> QED
        BY <3>1
    <2>2. PICK fresh \in [Level -> SUBSET Keys] :
               /\ fresh = freshAt(Level, k)
               /\ \A l \in Level, x \in Keys :
                     x \in fresh[l] <=> x \in expired[l] /\ ~(l \in Level /\ x = k)
      BY FreshAt DEF LevelsInv
    <2>3. PICK first \in [Keys -> Values \cup {NONE}] :
               /\ first = [EmptyLevel EXCEPT ![k] = v]
               /\ \A x \in Keys : first[x] = IF x = k THEN v ELSE NONE
      <3>1. EmptyLevel \in [Keys -> Values \cup {NONE}] /\ \A x \in Keys : EmptyLevel[x] = NONE
        BY DEF EmptyLevel
      <3>2. [EmptyLevel EXCEPT ![k] = v] \in [Keys -> Values \cup {NONE}]
        BY <3>1
      <3> QED
        BY <3>1, <3>2
    <2>4. store' = [filled EXCEPT !["l1"] = first] /\ expired' = [fresh EXCEPT !["l1"] = {}]
      BY <1>4, <2>1, <2>2, <2>3
    <2>5. /\ store' \in [Level -> [Keys -> Values \cup {NONE}]]
          /\ \A l \in Level : store'[l] = IF l = "l1" THEN first ELSE filled[l]
      BY <2>4 DEF Level
    <2>6. /\ expired' \in [Level -> SUBSET Keys]
          /\ \A l \in Level : expired'[l] = IF l = "l1" THEN {} ELSE fresh[l]
      BY <2>4 DEF Level
    <2>7. LevelsTypeOK'
      <3>1. \A l \in Level : \A x \in expired'[l] : store'[l][x] # NONE
        BY <1>2, <2>1, <2>2, <2>5, <2>6
      <3>2. written' \in [Keys -> Values \cup {NONE}]
        BY <1>1, <1>2
      <3> QED
        BY <2>5, <2>6, <3>1, <3>2 DEF LevelsTypeOK
    <2>8. LevelsHoldLatest'
      <3> SUFFICES ASSUME NEW l \in Level, NEW x \in Keys,
                          store'[l][x] # NONE, x \notin expired'[l]
                   PROVE  store'[l][x] = written'[x]
        BY DEF LevelsHoldLatest, live
      <3>1. written'[x] = IF x = k THEN v ELSE written[x]
        BY <1>1, <1>2
      <3>2. CASE x = k
        BY <2>1, <2>3, <2>5, <3>1, <3>2
      <3>3. CASE x # k
        <4>1. l # "l1"
          BY <2>3, <2>5, <3>3
        <4>2. store'[l][x] = store[l][x] /\ x \notin expired[l]
          BY <2>1, <2>2, <2>5, <2>6, <3>3, <4>1
        <4>3. store[l][x] = written[x]
          BY <4>2 DEF LevelsInv, LevelsHoldLatest, live
        <4> QED
          BY <3>1, <3>3, <4>2, <4>3
      <3> QED
        BY <3>2, <3>3
    <2> QED
      BY <2>7, <2>8 DEF LevelsInv
  <1> QED
    BY <1>3, <1>4 DEF write

\* fetching is empty at a getter that no longer waits.
LEMMA FetchEnds ==
    ASSUME LevelsTypeOK, NEW g \in Getters, fetching' = [fetching EXCEPT ![g] = NONE]
    PROVE  fetching' \in [Getters -> Keys \cup {NONE}]
  BY DEF LevelsTypeOK

LEMMA LevelsStepsKeepLatest ==
    LevelsInv /\ [LevelsNext]_levelsVars => LevelsInv'
  <1> SUFFICES ASSUME LevelsInv, [LevelsNext]_levelsVars PROVE LevelsInv'
    OBVIOUS
  <1>1. LevelsTypeOK
    BY DEF LevelsInv
  <1>2. ASSUME NEW k \in Keys, NEW g \in Getters, getFromLevel(g, k) \/ getFromNone(g, k)
        PROVE  LevelsInv'
    BY <1>2, GetKeepsLevels, MissKeepsLevels
  <1>3. ASSUME NEW k \in Keys, NEW v \in Values, setLevels(k, v) PROVE LevelsInv'
    <2>1. write(k, v) /\ fetching' \in [Getters -> Keys \cup {NONE}]
      BY <1>1, <1>3 DEF setLevels, LevelsTypeOK
    <2> QED
      BY <2>1, WriteKeepsLevels
  <1>4. ASSUME NEW k \in Keys, deleteLevels(k) PROVE LevelsInv'
    <2>1. fetching' \in [Getters -> Keys \cup {NONE}]
      BY <1>1, <1>4 DEF deleteLevels, LevelsTypeOK
    <2> QED
      BY <1>4, <2>1, PutKeepsLevels DEF deleteLevels, deletedLevels
  <1>5. ASSUME NEW k \in Keys, NEW l \in Level, Expire(l, k) PROVE LevelsInv'
    <2>1. /\ expired \in [Level -> SUBSET Keys] /\ store[l][k] # NONE
          /\ expired' = [expired EXCEPT ![l] = @ \cup {k}]
          /\ UNCHANGED <<store, fetching, written>>
      BY <1>1, <1>5 DEF Expire, live, LevelsTypeOK
    <2>2. /\ expired' \in [Level -> SUBSET Keys]
          /\ \A m \in Level, x \in Keys :
                x \in expired'[m] <=> x \in expired[m] \/ (m = l /\ x = k)
      BY <2>1
    <2>3. LevelsTypeOK'
      BY <1>1, <2>1, <2>2 DEF LevelsTypeOK
    <2>4. LevelsHoldLatest'
      BY <2>1, <2>2 DEF LevelsInv, LevelsHoldLatest, live
    <2> QED
      BY <2>3, <2>4 DEF LevelsInv
  <1>6. ASSUME NEW g \in Getters, fetchFails(g) PROVE LevelsInv'
    <2>1. UNCHANGED <<store, expired, written>> /\ fetching' \in [Getters -> Keys \cup {NONE}]
      BY <1>1, <1>6, FetchEnds DEF fetchFails
    <2> QED
      BY <2>1 DEF LevelsInv, LevelsTypeOK, LevelsHoldLatest, live
  <1>7. ASSUME NEW g \in Getters, NEW v \in Values, fetched(g, v) PROVE LevelsInv'
    <2>1. fetching[g] \in Keys /\ write(fetching[g], v)
      BY <1>1, <1>7 DEF fetched, LevelsTypeOK
    <2>2. fetching' \in [Getters -> Keys \cup {NONE}]
      BY <1>1, <1>7, FetchEnds DEF fetched
    <2> QED
      BY <2>1, <2>2, WriteKeepsLevels
  <1>8. CASE clearLevels
    BY <1>1, <1>8 DEF clearLevels, EmptyLevel, LevelsInv, LevelsTypeOK, LevelsHoldLatest, live
  <1>9. CASE UNCHANGED levelsVars
    BY <1>9 DEF LevelsInv, LevelsTypeOK, LevelsHoldLatest, live, levelsVars
  <1> QED
    BY <1>2, <1>3, <1>4, <1>5, <1>6, <1>7, <1>8, <1>9 DEF LevelsNext

(***************************************************************************)
(* Whatever is live at any level is the last value written to its key, for *)
(* any number of keys, values and calls of get() awaiting their fetchers:  *)
(* promotions, expiry, overflow and late fetchers bring back no older one. *)
(***************************************************************************)
THEOREM LevelsStayLatest == LevelsSpec => [](LevelsTypeOK /\ LevelsHoldLatest)
  <1>1. LevelsInit => LevelsInv
    BY DEF LevelsInit, EmptyLevel, LevelsInv, LevelsTypeOK, LevelsHoldLatest, live
  <1>2. LevelsInv => LevelsTypeOK /\ LevelsHoldLatest
    BY DEF LevelsInv
  <1> QED
    BY <1>1, <1>2, LevelsStepsKeepLatest, PTL DEF LevelsSpec

-----------------------------------------------------------------------------
(***************************************************************************)
(* The plugin loader.  Between edits and events the loaded code is the     *)
(* file's, whatever loads are still under way: a load under way that read  *)
(* the file before an edit ends while the watcher's event or the debounce  *)
(* timer is still pending, or is counted as missed.                        *)
(***************************************************************************)
LoaderInv ==
    /\ LoaderTypeOK
    /\ format = "cjs" /\ ~missed /\ ~changed /\ ~debounce /\ loaded # NOTHING
          => loaded = source
    /\ format = "esm" =>
          /\ loaded # NOTHING => loaded = imported
          /\ \A w \in LoadCalls : loading[w] \in {NOTHING, IMPORTING, imported}

LEMMA LoaderStepsKeepInv == LoaderInv /\ [LoaderNext]_loaderVars => LoaderInv'
  <1> SUFFICES ASSUME LoaderInv, [LoaderNext]_loaderVars PROVE LoaderInv'
    OBVIOUS
  <1> USE DEF LoaderInv, LoaderTypeOK
  <1>1. NOTHING \notin Version /\ IMPORTING \notin Version
    BY MaxVersionAssumption, NothingAssumption DEF Version
  <1>2. ASSUME NEW w \in LoadCalls, load(w) PROVE LoaderInv'
    BY <1>1, <1>2 DEF load, beginLoad, idle
  <1>3. ASSUME NEW w \in LoadCalls, Import(w) PROVE LoaderInv'
    BY <1>1, <1>3 DEF Import, moduleOf
  <1>4. ASSUME NEW w \in LoadCalls, ImportTimesOut(w) PROVE LoaderInv'
    BY <1>1, <1>4 DEF ImportTimesOut, moduleOf
  <1>5. ASSUME NEW w \in LoadCalls, EndLoad(w) PROVE LoaderInv'
    BY <1>1, <1>5 DEF EndLoad
  <1>6. ASSUME NEW w \in LoadCalls, handleChange(w) PROVE LoaderInv'
    BY <1>1, <1>6 DEF handleChange, reloaded, beginLoad, idle
  <1>7. CASE unload
    BY <1>7 DEF unload
  <1>8. CASE watch
    BY <1>8 DEF watch
  <1>9. CASE unwatch
    BY <1>9 DEF unwatch
  <1>10. CASE WatchEvent
    BY <1>10 DEF WatchEvent
  <1>11. CASE Edit
    <2>1. source' \in Version
      BY <1>11, MaxVersionAssumption DEF Edit, Version
    <2>2. UNCHANGED <<format, imported, loaded, loading, watching, debounce>>
      BY <1>11 DEF Edit
    <2>3. broken' \in BOOLEAN /\ changed' \in BOOLEAN /\ missed' \in BOOLEAN
      BY <1>11 DEF Edit
    <2>4. changed' \/ missed'
      BY <1>11 DEF Edit
    <2> QED
      BY <2>1, <2>2, <2>3, <2>4
  <1>12. CASE UNCHANGED loaderVars
    BY <1>12 DEF loaderVars
  <1> QED
    BY <1>2, <1>3, <1>4, <1>5, <1>6, <1>7, <1>8, <1>9, <1>10, <1>11, <1>12 DEF LoaderNext

(***************************************************************************)
(* Once edits, events and loads have settled, a watched CommonJS plugin    *)
(* runs the code of its file and an ES module the version imported first,  *)
(* for any number of overlapping loads and of edits.                       *)
(***************************************************************************)
THEOREM LoadedStaysCurrent == LoaderSpec => [](LoaderTypeOK /\ LoadedIsCurrent)
  <1>1. LoaderInit => LoaderInv
    <2> SUFFICES ASSUME LoaderInit PROVE LoaderInv
      OBVIOUS
    <2>1. \A w \in LoadCalls : loading[w] = NOTHING
      BY DEF LoaderInit
    <2>2. loading \in [LoadCalls -> Version \cup {IMPORTING, NOTHING}]
      BY DEF LoaderInit
    <2>3. source \in Version
      BY MaxVersionAssumption DEF LoaderInit, Version
    <2>4. LoaderTypeOK
      BY <2>2, <2>3 DEF LoaderInit, LoaderTypeOK
    <2> QED
      BY <2>1, <2>4 DEF LoaderInit, LoaderInv
  <1>2. LoaderInv => LoaderTypeOK /\ LoadedIsCurrent
    BY DEF LoaderInv, LoaderTypeOK, LoadedIsCurrent, settled
  <1> QED
    BY <1>1, <1>2, LoaderStepsKeepInv, PTL DEF LoaderSpec

-----------------------------------------------------------------------------
(***************************************************************************)
(* The plugin manager and registry.  A firing whose handlers were removed  *)
(* only at or behind its index stays within the array.                     *)
(***************************************************************************)
PluginInv ==
    /\ PluginTypeOK
    /\ HandlersCalledOnce
    /\ RegistryOnDisk
    /\ firing > 0 /\ ~shifted => firing <= Len(hookHandlers) + 1

\* What a step of the manager leaves of the registry, and the other way round.
LEMMA RegistryAlone ==
    ASSUME PluginInv, UNCHANGED managerState,
           instance' \in {"none", "enabled", "disabled"},
           onDisk' \in SUBSET {"manifest", "code"}, halfDone' \in BOOLEAN,
           RegistryOnDisk'
    PROVE  PluginInv'
  BY DEF PluginInv, PluginTypeOK, HandlersCalledOnce, managerState

LEMMA ManagerAlone ==
    ASSUME PluginInv, UNCHANGED registryState,
           activatedPlugins' \in SUBSET Plugins, hookHandlers' \in Seq(Plugins),
           firing' \in Nat, called' \in Seq(Plugins), shifted' \in BOOLEAN,
           HandlersCalledOnce',
           firing' > 0 /\ ~shifted' => firing' <= Len(hookHandlers') + 1
    PROVE  PluginInv'
  BY DEF PluginInv, PluginTypeOK, RegistryOnDisk, registryState

\* The first n elements of a sequence.
LEMMA FirstElements ==
    ASSUME NEW S, NEW seq \in Seq(S), NEW n \in Nat, n <= Len(seq)
    PROVE  /\ SubSeq(seq, 1, n) \in Seq(S)
           /\ Len(SubSeq(seq, 1, n)) = n
           /\ DOMAIN SubSeq(seq, 1, n) = 1..n
           /\ \A i \in 1..n : SubSeq(seq, 1, n)[i] = seq[i]
  <1>1. PICK m \in Nat : m = Len(seq)
    BY LenProperties
  <1>2. \A i \in 1..n : seq[i] \in S
    BY <1>1, ElementOfSeq
  <1>3. /\ SubSeq(seq, 1, n) \in Seq(S)
        /\ Len(SubSeq(seq, 1, n)) = IF 1 <= n THEN n - 1 + 1 ELSE 0
        /\ \A i \in 1..(n - 1 + 1) : SubSeq(seq, 1, n)[i] = seq[1 + i - 1]
    BY <1>2, SubSeqProperties
  <1>4. \A i \in 1..n : SubSeq(seq, 1, n)[i] = seq[i]
    BY <1>3
  <1>5. Len(SubSeq(seq, 1, n)) = n
    BY <1>3
  <1> QED
    BY <1>3, <1>4, <1>5, LenProperties

\* Two sequences with the same first n elements have the same front.
LEMMA SameFront ==
    ASSUME NEW S, NEW seq \in Seq(S), NEW other \in Seq(S), NEW n \in Nat,
           n <= Len(seq), n <= Len(other), \A i \in 1..n : other[i] = seq[i]
    PROVE  SubSeq(other, 1, n) = SubSeq(seq, 1, n)
  <1>1. /\ SubSeq(seq, 1, n) \in Seq(S) /\ Len(SubSeq(seq, 1, n)) = n
        /\ \A i \in 1..n : SubSeq(seq, 1, n)[i] = seq[i]
    BY FirstElements
  <1>2. /\ SubSeq(other, 1, n) \in Seq(S) /\ Len(SubSeq(other, 1, n)) = n
        /\ \A i \in 1..n : SubSeq(other, 1, n)[i] = other[i]
    BY FirstElements
  <1> QED
    BY <1>1, <1>2, SeqEqual

\* A front that is one longer.
LEMMA LongerFront ==
    ASSUME NEW S, NEW seq \in Seq(S), NEW n \in Nat, n < Len(seq)
    PROVE  Append(SubSeq(seq, 1, n), seq[n + 1]) = SubSeq(seq, 1, n + 1)
  <1>1. PICK m \in Nat : m = Len(seq) /\ DOMAIN seq = 1..m
    BY LenProperties
  <1>2. PICK front : front = SubSeq(seq, 1, n)
    OBVIOUS
  <1>3. /\ front \in Seq(S) /\ Len(front) = n
        /\ \A i \in 1..n : front[i] = seq[i]
    BY <1>1, <1>2, FirstElements
  <1>4. seq[n + 1] \in S
    BY <1>1, ElementOfSeq
  <1>5. /\ Append(front, seq[n + 1]) \in Seq(S) /\ Len(Append(front, seq[n + 1])) = n + 1
        /\ \A i \in 1..n : Append(front, seq[n + 1])[i] = seq[i]
        /\ Append(front, seq[n + 1])[n + 1] = seq[n + 1]
    BY <1>3, <1>4, OneMore
  <1>6. n + 1 \in Nat /\ n + 1 <= Len(seq)
    BY <1>1
  <1>7. /\ SubSeq(seq, 1, n + 1) \in Seq(S) /\ Len(SubSeq(seq, 1, n + 1)) = n + 1
        /\ \A i \in 1..(n + 1) : SubSeq(seq, 1, n + 1)[i] = seq[i]
    BY <1>6, FirstElements
  <1>8. \A i \in 1..(n + 1) : Append(front, seq[n + 1])[i] = SubSeq(seq, 1, n + 1)[i]
    <2>1. \A i \in 1..(n + 1) : i \in 1..n \/ i = n + 1
      OBVIOUS
    <2> QED
      BY <1>5, <1>7, <2>1
  <1> QED
    BY <1>2, <1>5, <1>7, <1>8, SeqEqual

\* The empty front.
LEMMA NoFront ==
    ASSUME NEW S, NEW seq \in Seq(S)
    PROVE  SubSeq(seq, 1, 0) = <<>>
  <1>1. 0 \in Nat /\ 0 <= Len(seq)
    BY LenProperties
  <1>2. SubSeq(seq, 1, 0) \in Seq(S) /\ Len(SubSeq(seq, 1, 0)) = 0
    BY <1>1, FirstElements
  <1> QED
    BY <1>2, EmptySeq

LEMMA RegisterKeepsHandlers ==
    ASSUME PluginInv, NEW p \in Plugins, register(p)
    PROVE  PluginInv'
  <1>1. /\ hookHandlers \in Seq(Plugins) /\ IsInjective(hookHandlers)
        /\ ToSet(hookHandlers) = activatedPlugins /\ activatedPlugins \in SUBSET Plugins
        /\ firing \in Nat
    BY DEF PluginInv, PluginTypeOK, HandlersCalledOnce
  <1>2. /\ p \notin activatedPlugins /\ activatedPlugins' = activatedPlugins \cup {p}
        /\ hookHandlers' = Append(hookHandlers, p)
        /\ UNCHANGED <<firing, called, shifted, registryState>>
    BY DEF register
  <1>3. /\ hookHandlers' \in Seq(Plugins) /\ IsInjective(hookHandlers')
        /\ ToSet(hookHandlers') = activatedPlugins'
    BY <1>1, <1>2, AddedToInjective
  <1>4. /\ Len(hookHandlers) \in Nat /\ Len(hookHandlers') = Len(hookHandlers) + 1
        /\ \A i \in 1..Len(hookHandlers) : hookHandlers'[i] = hookHandlers[i]
    BY <1>1, <1>2, OneMore
  <1>5. ASSUME firing > 0, ~shifted
        PROVE  /\ called = SubSeq(hookHandlers', 1, firing - 1)
               /\ firing <= Len(hookHandlers') + 1
    <2>1. called = SubSeq(hookHandlers, 1, firing - 1) /\ firing <= Len(hookHandlers) + 1
      BY <1>5 DEF PluginInv, HandlersCalledOnce
    <2>2. /\ firing - 1 \in Nat /\ firing - 1 <= Len(hookHandlers)
          /\ firing - 1 <= Len(hookHandlers')
          /\ \A i \in 1..(firing - 1) : i \in 1..Len(hookHandlers)
      BY <1>1, <1>4, <1>5, <2>1
    <2>3. \A i \in 1..(firing - 1) : hookHandlers'[i] = hookHandlers[i]
      BY <1>4, <2>2
    <2>4. SubSeq(hookHandlers', 1, firing - 1) = SubSeq(hookHandlers, 1, firing - 1)
      BY <1>1, <1>3, <2>2, <2>3, SameFront
    <2> QED
      BY <1>1, <1>4, <2>1, <2>4
  <1>6. HandlersCalledOnce'
    BY <1>2, <1>3, <1>5 DEF HandlersCalledOnce
  <1>7. called \in Seq(Plugins) /\ shifted \in BOOLEAN
    BY DEF PluginInv, PluginTypeOK
  <1> QED
    BY <1>1, <1>2, <1>3, <1>5, <1>6, <1>7, ManagerAlone

LEMMA UnregisterKeepsHandlers ==
    ASSUME PluginInv, NEW p \in Plugins, unregister(p)
    PROVE  PluginInv'
  <1>1. /\ hookHandlers \in Seq(Plugins) /\ IsInjective(hookHandlers)
        /\ ToSet(hookHandlers) = activatedPlugins /\ activatedPlugins \in SUBSET Plugins
        /\ firing \in Nat
    BY DEF PluginInv, PluginTypeOK, HandlersCalledOnce
  <1>2. PICK n \in Nat : n = Len(hookHandlers) /\ DOMAIN hookHandlers = 1..n
    BY <1>1, LenProperties
  <1>3. PICK k \in 1..n : k = handlerOf(p) /\ hookHandlers[k] = p
    <2>1. PICK i \in 1..n : hookHandlers[i] = p
      BY <1>1, <1>2 DEF unregister, ToSet
    <2>2. \A j \in 1..(i - 1) : hookHandlers[j] # p
      <3>1. ASSUME NEW j \in 1..(i - 1) PROVE hookHandlers[j] # p
        <4>1. j \in 1..n /\ j # i
          BY <1>2, <2>1
        <4> QED
          BY <1>1, <1>2, <2>1, <4>1 DEF IsInjective
      <3> QED
        BY <3>1
    <2> QED
      BY <1>2, <2>1, <2>2 DEF handlerOf
  <1>4. /\ activatedPlugins' = activatedPlugins \ {p}
        /\ hookHandlers' = RemoveAt(hookHandlers, k)
        /\ UNCHANGED <<firing, called, registryState>>
    BY <1>3 DEF unregister, spliced
  <1>5. shifted' \in BOOLEAN
    BY DEF unregister
  <1>6. firing > 0 /\ ~shifted' => ~shifted /\ k >= firing
    <2>1. shifted' <=> shifted \/ (firing > 0 /\ k < firing)
      BY <1>3 DEF unregister, PluginInv, PluginTypeOK
    <2>2. ~(k < firing) => k >= firing
      BY <1>1, <1>2
    <2> QED
      BY <2>1, <2>2
  <1>7. /\ hookHandlers' \in Seq(Plugins) /\ IsInjective(hookHandlers')
        /\ ToSet(hookHandlers') = activatedPlugins'
    BY <1>1, <1>2, <1>3, <1>4, RemovedFromInjective
  <1>8. /\ Len(hookHandlers') = n - 1
        /\ \A j \in 1..(n - 1) : j < k => hookHandlers'[j] = hookHandlers[j]
    <2>1. k \in 1..Len(hookHandlers)
      BY <1>2
    <2> QED
      BY <1>1, <1>2, <1>4, <2>1, OneLess
  <1>9. ASSUME firing > 0, ~shifted'
        PROVE  /\ called = SubSeq(hookHandlers', 1, firing - 1)
               /\ firing <= Len(hookHandlers') + 1
    <2>1. called = SubSeq(hookHandlers, 1, firing - 1) /\ k >= firing
      BY <1>6, <1>9 DEF PluginInv, HandlersCalledOnce
    <2>2. /\ firing - 1 \in Nat /\ firing - 1 <= Len(hookHandlers)
          /\ firing - 1 <= Len(hookHandlers')
          /\ \A i \in 1..(firing - 1) : i \in 1..(n - 1) /\ i < k
      BY <1>1, <1>2, <1>8, <1>9, <2>1
    <2>3. \A i \in 1..(firing - 1) : hookHandlers'[i] = hookHandlers[i]
      BY <1>8, <2>2
    <2>4. SubSeq(hookHandlers', 1, firing - 1) = SubSeq(hookHandlers, 1, firing - 1)
      BY <1>1, <1>7, <2>2, <2>3, SameFront
    <2> QED
      BY <1>1, <1>2, <1>8, <2>1, <2>4
  <1>10. HandlersCalledOnce'
    BY <1>4, <1>7, <1>9 DEF HandlersCalledOnce
  <1>11. called \in Seq(Plugins) /\ activatedPlugins' \in SUBSET Plugins
    BY <1>1, <1>4 DEF PluginInv, PluginTypeOK
  <1> QED
    BY <1>1, <1>4, <1>5, <1>7, <1>9, <1>10, <1>11, ManagerAlone

LEMMA FiringKeepsHandlers ==
    ASSUME PluginInv, executeHook
    PROVE  PluginInv'
  <1>1. /\ hookHandlers \in Seq(Plugins) /\ called \in Seq(Plugins)
        /\ ToSet(hookHandlers) = activatedPlugins /\ IsInjective(hookHandlers)
        /\ activatedPlugins \in SUBSET Plugins
        /\ firing \in Nat
    BY DEF PluginInv, PluginTypeOK, HandlersCalledOnce
  <1>2. PICK n \in Nat : n = Len(hookHandlers) /\ DOMAIN hookHandlers = 1..n
    BY <1>1, LenProperties
  <1>3. /\ firing \in 1..n /\ firing' = firing + 1
        /\ UNCHANGED <<activatedPlugins, hookHandlers, shifted, registryState>>
    BY <1>2 DEF executeHook
  <1>4. hookHandlers[firing] \in activatedPlugins
    BY <1>1, <1>2, <1>3 DEF ToSet
  <1>5. called' = Append(called, hookHandlers[firing])
    BY <1>4 DEF executeHook
  <1>6. called' \in Seq(Plugins)
    BY <1>1, <1>4, <1>5, OneMore
  <1>7. ASSUME ~shifted PROVE called' = SubSeq(hookHandlers, 1, firing' - 1)
    <2>1. PICK m \in Nat : m = firing - 1
      BY <1>3
    <2>2. called = SubSeq(hookHandlers, 1, m)
      BY <1>3, <1>7, <2>1 DEF PluginInv, HandlersCalledOnce
    <2>3. m < Len(hookHandlers) /\ m + 1 = firing /\ firing' - 1 = m + 1
      BY <1>2, <1>3, <2>1
    <2>4. Append(SubSeq(hookHandlers, 1, m), hookHandlers[m + 1])
             = SubSeq(hookHandlers, 1, m + 1)
      BY <1>1, <2>3, LongerFront
    <2> QED
      BY <1>5, <2>2, <2>3, <2>4
  <1>8. HandlersCalledOnce'
    BY <1>1, <1>3, <1>7 DEF HandlersCalledOnce
  <1>9. firing' \in Nat /\ firing' <= Len(hookHandlers') + 1 /\ shifted \in BOOLEAN
    BY <1>1, <1>2, <1>3 DEF PluginInv, PluginTypeOK
  <1> QED
    BY <1>1, <1>3, <1>6, <1>8, <1>9, ManagerAlone

LEMMA PluginStepsKeepInv == PluginInv /\ [PluginNext]_pluginVars => PluginInv'
  <1> SUFFICES ASSUME PluginInv, [PluginNext]_pluginVars PROVE PluginInv'
    OBVIOUS
  <1>1. ASSUME NEW p \in Plugins, register(p) \/ unregister(p) PROVE PluginInv'
    BY <1>1, RegisterKeepsHandlers, UnregisterKeepsHandlers
  <1>2. CASE fireHook
    <2>1. /\ firing' = 1 /\ called' = <<>> /\ ~shifted'
          /\ UNCHANGED <<activatedPlugins, hookHandlers, registryState>>
      BY <1>2 DEF fireHook
    <2>2. /\ hookHandlers \in Seq(Plugins) /\ activatedPlugins \in SUBSET Plugins
          /\ ToSet(hookHandlers) = activatedPlugins /\ IsInjective(hookHandlers)
      BY DEF PluginInv, PluginTypeOK, HandlersCalledOnce
    <2>3. Len(hookHandlers) \in Nat /\ <<>> \in Seq(Plugins)
      BY <2>2, LenProperties, EmptySeq
    <2>4. SubSeq(hookHandlers, 1, firing' - 1) = <<>>
      BY <2>1, <2>2, NoFront
    <2>5. HandlersCalledOnce'
      BY <2>1, <2>2, <2>4 DEF HandlersCalledOnce
    <2>6. shifted' \in BOOLEAN
      BY <1>2 DEF fireHook
    <2>7. firing' \in Nat /\ firing' <= Len(hookHandlers') + 1
      BY <2>1, <2>3
    <2> QED
      BY <2>1, <2>2, <2>3, <2>5, <2>6, <2>7, ManagerAlone
  <1>3. CASE executeHook
    BY <1>3, FiringKeepsHandlers
  <1>4. CASE firedAll
    <2>1. /\ firing' = 0 /\ called' = <<>>
          /\ UNCHANGED <<activatedPlugins, hookHandlers, registryState>>
      BY <1>4 DEF firedAll
    <2>2. /\ hookHandlers \in Seq(Plugins) /\ activatedPlugins \in SUBSET Plugins
          /\ ToSet(hookHandlers) = activatedPlugins /\ IsInjective(hookHandlers)
      BY DEF PluginInv, PluginTypeOK, HandlersCalledOnce
    <2>3. <<>> \in Seq(Plugins)
      BY EmptySeq
    <2>4. HandlersCalledOnce'
      BY <2>1, <2>2 DEF HandlersCalledOnce
    <2>5. shifted' \in BOOLEAN
      BY <1>4 DEF firedAll
    <2> QED
      BY <2>1, <2>2, <2>3, <2>4, <2>5, ManagerAlone
  <1>5. CASE install
    <2>1. onDisk \in SUBSET {"manifest", "code"} /\ halfDone \in BOOLEAN
          /\ instance \in {"none", "enabled", "disabled"}
      BY DEF PluginInv, PluginTypeOK
    <2>2. CASE instance' = "enabled" /\ onDisk' = {"manifest", "code"} /\ UNCHANGED halfDone
      BY <1>5, <2>1, <2>2, RegistryAlone DEF install, RegistryOnDisk
    <2>3. CASE /\ UNCHANGED instance /\ halfDone' = TRUE
               /\ onDisk' \in {onDisk, onDisk \cup {"manifest"}}
      BY <1>5, <2>1, <2>3, RegistryAlone DEF install, RegistryOnDisk
    <2> QED
      BY <1>5, <2>2, <2>3 DEF install
  <1>6. CASE uninstall
    <2>1. /\ onDisk \in SUBSET {"manifest", "code"} /\ halfDone \in BOOLEAN
          /\ instance' = "none" /\ UNCHANGED managerState
      BY <1>6 DEF PluginInv, PluginTypeOK, uninstall
    <2>2. CASE onDisk' = filesLeft /\ UNCHANGED halfDone
      BY <2>1, <2>2, RegistryAlone DEF filesLeft, RegistryOnDisk
    <2>3. CASE onDisk' \in SUBSET onDisk /\ halfDone' = TRUE
      BY <2>1, <2>3, RegistryAlone DEF RegistryOnDisk
    <2> QED
      BY <1>6, <2>2, <2>3 DEF uninstall
  <1>7. CASE enable \/ disable
    <2>1. /\ instance # "none" /\ instance' \in {"enabled", "disabled"}
          /\ UNCHANGED <<managerState, onDisk, halfDone>>
      BY <1>7 DEF enable, disable
    <2>2. /\ onDisk \in SUBSET {"manifest", "code"} /\ halfDone \in BOOLEAN
      BY DEF PluginInv, PluginTypeOK
    <2>3. RegistryOnDisk'
      BY <2>1 DEF PluginInv, RegistryOnDisk
    <2> QED
      BY <2>1, <2>2, <2>3, RegistryAlone
  <1>8. CASE loadInstalled
    <2>1. <<>> \in Seq(Plugins) /\ DOMAIN <<>> = {}
      BY EmptySeq
    <2>2. ToSet(<<>>) = {} /\ IsInjective(<<>>)
      BY <2>1 DEF ToSet, IsInjective
    <2>3. HandlersCalledOnce'
      BY <1>8, <2>2 DEF loadInstalled, HandlersCalledOnce
    <2>4. PluginTypeOK'
      BY <1>8, <2>1 DEF loadInstalled, PluginInv, PluginTypeOK
    <2>5. RegistryOnDisk'
      BY <1>8 DEF loadInstalled, PluginInv, RegistryOnDisk
    <2> QED
      BY <1>8, <2>3, <2>4, <2>5 DEF loadInstalled, PluginInv
  <1>9. CASE UNCHANGED pluginVars
    BY <1>9 DEF PluginInv, PluginTypeOK, HandlersCalledOnce, RegistryOnDisk, pluginVars
  <1> QED
    BY <1>1, <1>2, <1>3, <1>4, <1>5, <1>6, <1>7, <1>8, <1>9 DEF PluginNext

(***************************************************************************)
(* A firing calls each handler before its index once and in order, however *)
(* handlers come and go at or behind it, and the registry lists what is on *)
(* disk until a step of an install or an uninstall fails; with the loader, *)
(* PluginsConsistent.                                                      *)
(***************************************************************************)
THEOREM PluginsStayConsistent ==
    LoaderSpec /\ PluginSpec => [](PluginTypeOK /\ PluginsConsistent)
  <1>1. PluginInit => PluginInv
    <2> SUFFICES ASSUME PluginInit PROVE PluginInv
      OBVIOUS
    <2>1. <<>> \in Seq(Plugins) /\ DOMAIN <<>> = {}
      BY EmptySeq
    <2>2. ToSet(<<>>) = {} /\ IsInjective(<<>>)
      BY <2>1 DEF ToSet, IsInjective
    <2>3. PluginTypeOK
      BY <2>1 DEF PluginInit, PluginTypeOK
    <2> QED
      BY <2>2, <2>3 DEF PluginInit, PluginInv, HandlersCalledOnce, RegistryOnDisk
  <1>2. PluginInv => PluginTypeOK /\ HandlersCalledOnce /\ RegistryOnDisk
    BY DEF PluginInv
  <1>3. LoadedIsCurrent /\ HandlersCalledOnce /\ RegistryOnDisk => PluginsConsistent
    BY DEF PluginsConsistent
  <1> QED
    BY <1>1, <1>2, <1>3, LoadedStaysCurrent, PluginStepsKeepInv, PTL DEF PluginSpec

-----------------------------------------------------------------------------
(***************************************************************************)
(* The bounded layers of the cache.  A lookup, an eviction, a deletion and *)
(* a restore take keys out of a list or add them at its end, in the map as *)
(* in the history of uses: the lists stay without repetition and hold the  *)
(* same keys.                                                              *)
(***************************************************************************)
LEMMA LeastExists ==
    ASSUME NEW T \in SUBSET Nat, T # {}
    PROVE  \E m \in T : \A k \in T : m <= k
  <1> DEFINE R == {ss \in Nat \X Nat : ss[1] < ss[2]}
  <1>1. IsWellFoundedOn(R, Nat)
    BY NatLessThanWellFounded DEF OpToRel
  <1>2. \E m \in T : \A k \in T : ~ (<<k, m>> \in R)
    <2> HIDE DEF R
    <2> QED
      BY <1>1, WFMin
  <1>3. PICK m \in T : \A k \in T : ~ (<<k, m>> \in R)
    BY <1>2
  <1>4. ASSUME NEW k \in T PROVE m <= k
    <2>1. <<k, m>> \notin R /\ <<k, m>> \in Nat \X Nat
      BY <1>3
    <2>2. ~(<<k, m>>[1] < <<k, m>>[2])
      BY <2>1
    <2> QED
      BY <2>1, <2>2
  <1> QED
    BY <1>3, <1>4

\* The n-th of a finite set of places, in their order.
LEMMA NthIs ==
    ASSUME NEW places \in SUBSET Nat, IsFiniteSet(places)
    PROVE  /\ \A i \in 1..Cardinality(places) : nth(places, i) \in places
           /\ \A i, j \in 1..Cardinality(places) :
                 i < j => nth(places, i) < nth(places, j)
           /\ \A n \in places : \E i \in 1..Cardinality(places) : nth(places, i) = n
  <1> DEFINE lower(n) == {m \in places : m < n}
             rank == [n \in places |-> Cardinality(lower(n))]
  <1>1. PICK count \in Nat : count = Cardinality(places)
    BY FS_CardinalityType
  <1>2. ASSUME NEW n \in places
        PROVE  IsFiniteSet(lower(n)) /\ rank[n] \in 0..(count - 1)
    <2>1. lower(n) \in SUBSET (places \ {n})
      OBVIOUS
    <2>2. IsFiniteSet(places \ {n}) /\ Cardinality(places \ {n}) = count - 1
      BY <1>1, FS_RemoveElement
    <2>3. IsFiniteSet(lower(n)) /\ Cardinality(lower(n)) <= count - 1
      BY <2>1, <2>2, FS_Subset
    <2>4. Cardinality(lower(n)) \in Nat
      BY <2>3, FS_CardinalityType
    <2> QED
      BY <1>1, <2>3, <2>4
  <1>3. ASSUME NEW n \in places, NEW m \in places, n < m
        PROVE  rank[n] < rank[m]
    <2>1. lower(n) \in SUBSET lower(m) /\ n \in lower(m) /\ n \notin lower(n)
      <3>1. n \in Nat /\ m \in Nat
        OBVIOUS
      <3>2. \A k \in places : k < n => k < m
        BY <1>3, <3>1
      <3>3. lower(n) \subseteq lower(m)
        BY <3>2
      <3>4. n \in lower(m)
        BY <1>3
      <3>5. ~(n < n)
        BY <3>1
      <3> QED
        BY <3>3, <3>4, <3>5
    <2>2. /\ IsFiniteSet(lower(m)) /\ Cardinality(lower(n)) <= Cardinality(lower(m))
          /\ Cardinality(lower(n)) = Cardinality(lower(m)) => lower(n) = lower(m)
      BY <1>2, <2>1, FS_Subset
    <2>3. Cardinality(lower(n)) # Cardinality(lower(m))
      BY <2>1, <2>2
    <2>4. Cardinality(lower(n)) \in Nat /\ Cardinality(lower(m)) \in Nat
      BY <1>2, FS_CardinalityType
    <2>5. Cardinality(lower(n)) < Cardinality(lower(m))
      BY <2>2, <2>3, <2>4
    <2> QED
      BY <2>5
  <1>4. rank \in [places -> 0..(count - 1)]
    BY <1>2
  <1> HIDE DEF rank
  <1>5. \A n, m \in places : rank[n] = rank[m] => n = m
    <2> SUFFICES ASSUME NEW n \in places, NEW m \in places, rank[n] = rank[m]
                 PROVE  n = m
      OBVIOUS
    <2>1. rank[n] \in Nat /\ rank[m] \in Nat /\ n \in Nat /\ m \in Nat
      BY <1>1, <1>4
    <2>2. n < m \/ m < n \/ n = m
      BY <2>1
    <2> QED
      BY <1>3, <2>1, <2>2
  <1>6. rank \in Injection(places, 0..(count - 1))
    BY <1>4, <1>5 DEF Injection, IsInjective
  <1>7. IsFiniteSet(0..(count - 1)) /\ Cardinality(0..(count - 1)) = count
    <2>1. PICK last \in Int : last = count - 1
      BY <1>1
    <2>2. /\ IsFiniteSet(0..last)
          /\ Cardinality(0..last) = IF 0 > last THEN 0 ELSE last - 0 + 1
      BY <2>1, FS_Interval
    <2>3. (IF 0 > last THEN 0 ELSE last - 0 + 1) = count
      BY <1>1, <2>1
    <2> QED
      BY <2>1, <2>2, <2>3
  <1>8. rank \in Surjection(places, 0..(count - 1))
    BY <1>1, <1>6, <1>7, FS_Injection
  <1>9. \A n \in places : rank[n] = Cardinality({m \in places : m < n})
    BY DEF rank
  <1>10. ASSUME NEW i \in 1..count
         PROVE  nth(places, i) \in places /\ rank[nth(places, i)] = i - 1
    <2>1. i - 1 \in 0..(count - 1)
      BY <1>1
    <2>2. \E n \in places : rank[n] = i - 1
      BY <1>8, <2>1 DEF Surjection
    <2>3. \E n \in places : Cardinality({m \in places : m < n}) = i - 1
      BY <1>9, <2>2
    <2>4. nth(places, i) \in places /\ Cardinality({m \in places : m < nth(places, i)}) = i - 1
      BY <2>3 DEF nth
    <2> QED
      BY <1>9, <2>4
  <1>11. ASSUME NEW n \in places PROVE \E i \in 1..count : nth(places, i) = n
    <2>1. rank[n] \in 0..(count - 1)
      BY <1>4
    <2>2. PICK i \in 1..count : i = rank[n] + 1
      BY <1>1, <2>1
    <2>3. nth(places, i) \in places /\ rank[nth(places, i)] = rank[n]
      BY <1>1, <1>10, <2>1, <2>2
    <2> QED
      BY <1>5, <2>3
  <1>12. ASSUME NEW i \in 1..count, NEW j \in 1..count, i < j
         PROVE  nth(places, i) < nth(places, j)
    <2>1. PICK n \in places, m \in places : n = nth(places, i) /\ m = nth(places, j)
      BY <1>10
    <2>2. rank[n] = i - 1 /\ rank[m] = j - 1 /\ n \in Nat /\ m \in Nat
      BY <1>10, <2>1
    <2>3. n < m \/ m < n \/ n = m
      BY <2>2
    <2>4. ~(m < n) /\ n # m
      BY <1>1, <1>3, <1>12, <2>2
    <2> QED
      BY <2>1, <2>3, <2>4
  <1> QED
    BY <1>1, <1>10, <1>11, <1>12


(***************************************************************************)
(* A list without repetition and what is left of it when some keys go: the *)
(* others, in their order.                                                 *)
(***************************************************************************)
LEMMA InjectiveLen ==
    ASSUME NEW S, NEW seq \in Seq(S), IsInjective(seq)
    PROVE  IsFiniteSet(ToSet(seq)) /\ Cardinality(ToSet(seq)) = Len(seq)
  <1>1. PICK n \in Nat : n = Len(seq) /\ DOMAIN seq = 1..n
    BY LenProperties
  <1>2. IsFiniteSet(1..n) /\ Cardinality(1..n) = n
    <2>1. 1 \in Int /\ n \in Int /\ (n = 0 \/ ~(1 > n)) /\ (1 > n <=> n = 0) /\ n - 1 + 1 = n
      OBVIOUS
    <2>2. IsFiniteSet(1..n) /\ Cardinality(1..n) = IF 1 > n THEN 0 ELSE n - 1 + 1
      BY <2>1, FS_Interval
    <2> QED
      BY <2>1, <2>2
  <1>3. seq \in [1..n -> ToSet(seq)]
    <2>1. seq = [i \in 1..n |-> seq[i]]
      BY <1>1, SeqDef
    <2> QED
      BY <1>1, <2>1 DEF ToSet
  <1>4. seq \in Surjection(1..n, ToSet(seq))
    BY <1>1, <1>3 DEF Surjection, ToSet
  <1>5. seq \in Injection(1..n, ToSet(seq))
    <2>1. \A i, j \in 1..n : seq[i] = seq[j] => i = j
      BY <1>1 DEF IsInjective
    <2> QED
      BY <1>3, <2>1 DEF Injection, IsInjective
  <1> QED
    BY <1>1, <1>2, <1>4, <1>5, FS_Surjection

\* The elements at the ends of two places, in their order, in another list.
InOrder(list, other) ==
    \A i, j \in DOMAIN list : i < j =>
        \E k, l \in DOMAIN other : k < l /\ list[i] = other[k] /\ list[j] = other[l]

LEMMA WithoutIs ==
    ASSUME NEW S, NEW keys \in Seq(S), IsInjective(keys), NEW gone
    PROVE  /\ without(keys, gone) \in Seq(S) /\ IsInjective(without(keys, gone))
           /\ ToSet(without(keys, gone)) = ToSet(keys) \ gone
           /\ InOrder(without(keys, gone), keys)
  <1>1. PICK n \in Nat : n = Len(keys) /\ DOMAIN keys = 1..n
    BY LenProperties
  <1> DEFINE stay == {i \in DOMAIN keys : keys[i] \notin gone}
  <1>2. stay \in SUBSET Nat /\ IsFiniteSet(stay)
    <2>1. IsFiniteSet(1..n)
      <3>1. 1 \in Int /\ n \in Int
        OBVIOUS
      <3> QED
        BY <3>1, FS_Interval
    <2>2. stay \subseteq 1..n
      BY <1>1
    <2> QED
      BY <2>1, <2>2, FS_Subset
  <1>3. PICK count \in Nat : count = Cardinality(stay)
    BY <1>2, FS_CardinalityType
  <1>4. PICK left : left = without(keys, gone)
    OBVIOUS
  <1>5. left = [i \in 1..count |-> keys[nth(stay, i)]]
    BY <1>3, <1>4 DEF without
  <1> HIDE DEF stay
  <1>6. /\ \A i \in 1..count : nth(stay, i) \in stay
        /\ \A i, j \in 1..count : i < j => nth(stay, i) < nth(stay, j)
        /\ \A i \in stay : \E j \in 1..count : nth(stay, j) = i
    BY <1>2, <1>3, NthIs
  <1>7. stay = {i \in 1..n : keys[i] \notin gone}
    BY <1>1 DEF stay
  <1>8. \A i \in 1..n : keys[i] \in S
    BY <1>1, ElementOfSeq
  <1>9. left \in [1..count -> S]
    BY <1>5, <1>6, <1>7, <1>8
  <1>10. left \in Seq(S) /\ DOMAIN left = 1..count
    BY <1>9, SeqDef
  <1>11. \A i, j \in 1..n : keys[i] = keys[j] => i = j
    BY <1>1 DEF IsInjective
  <1>12. IsInjective(left)
    <2> SUFFICES ASSUME NEW i \in 1..count, NEW j \in 1..count, left[i] = left[j]
                 PROVE  i = j
      BY <1>10 DEF IsInjective
    <2>1. nth(stay, i) \in 1..n /\ nth(stay, j) \in 1..n
      BY <1>6, <1>7
    <2>2. nth(stay, i) = nth(stay, j)
      BY <1>5, <1>11, <2>1
    <2>3. i < j \/ j < i \/ i = j
      OBVIOUS
    <2>4. ~(i < j) /\ ~(j < i)
      BY <1>1, <1>6, <2>1, <2>2
    <2> QED
      BY <2>3, <2>4
  <1>13. ToSet(left) = ToSet(keys) \ gone
    <2>1. ASSUME NEW x \in ToSet(left) PROVE x \in ToSet(keys) \ gone
      <3>1. PICK i \in 1..count : x = left[i]
        BY <1>10 DEF ToSet
      <3>2. nth(stay, i) \in 1..n /\ x = keys[nth(stay, i)] /\ keys[nth(stay, i)] \notin gone
        BY <1>5, <1>6, <1>7, <3>1
      <3> QED
        BY <1>1, <3>2 DEF ToSet
    <2>2. ASSUME NEW x \in ToSet(keys) \ gone PROVE x \in ToSet(left)
      <3>1. PICK i \in 1..n : x = keys[i]
        BY <1>1 DEF ToSet
      <3>2. i \in stay
        BY <1>7, <3>1
      <3>3. PICK j \in 1..count : nth(stay, j) = i
        BY <1>6, <3>2
      <3> QED
        BY <1>5, <1>10, <3>1, <3>3 DEF ToSet
    <2> QED
      BY <2>1, <2>2
  <1>14. InOrder(left, keys)
    <2>1. ASSUME NEW i \in DOMAIN left, NEW j \in DOMAIN left, i < j
          PROVE  \E k, l \in DOMAIN keys : k < l /\ left[i] = keys[k] /\ left[j] = keys[l]
      <3>1. i \in 1..count /\ j \in 1..count
        BY <1>10
      <3>2. /\ nth(stay, i) \in DOMAIN keys /\ nth(stay, j) \in DOMAIN keys
            /\ nth(stay, i) < nth(stay, j)
        BY <1>1, <1>6, <1>7, <2>1, <3>1
      <3>3. left[i] = keys[nth(stay, i)] /\ left[j] = keys[nth(stay, j)]
        BY <1>5, <3>1
      <3> QED
        BY <3>2, <3>3
    <2> QED
      BY <2>1 DEF InOrder
  <1> QED
    BY <1>4, <1>10, <1>12, <1>13, <1>14

\* It is as much shorter as keys have gone.
LEMMA WithoutLen ==
    ASSUME NEW S, NEW keys \in Seq(S), IsInjective(keys), NEW gone \in SUBSET ToSet(keys)
    PROVE  /\ IsFiniteSet(gone) /\ Cardinality(gone) \in Nat
           /\ Len(without(keys, gone)) \in Nat
           /\ Len(keys) = Len(without(keys, gone)) + Cardinality(gone)
  <1>1. IsFiniteSet(ToSet(keys)) /\ Cardinality(ToSet(keys)) = Len(keys)
    BY InjectiveLen
  <1>2. /\ without(keys, gone) \in Seq(S) /\ IsInjective(without(keys, gone))
        /\ ToSet(without(keys, gone)) = ToSet(keys) \ gone
    BY WithoutIs
  <1>3. Cardinality(ToSet(without(keys, gone))) = Len(without(keys, gone))
    BY <1>2, InjectiveLen
  <1>4. IsFiniteSet(gone) /\ Cardinality(gone) \in Nat
    BY <1>1, FS_Subset, FS_CardinalityType
  <1>5. Cardinality(ToSet(keys) \ gone) = Cardinality(ToSet(keys)) - Cardinality(gone)
    <2>1. ToSet(keys) \cap gone = gone
      OBVIOUS
    <2>2. Cardinality(ToSet(keys) \ gone)
             = Cardinality(ToSet(keys)) - Cardinality(ToSet(keys) \cap gone)
      BY <1>1, FS_Difference
    <2> QED
      BY <2>1, <2>2
  <1>6. Len(keys) \in Nat /\ Len(without(keys, gone)) \in Nat
    BY <1>2, LenProperties
  <1> QED
    BY <1>1, <1>2, <1>3, <1>4, <1>5, <1>6

\* The keys of a list are in the order of the numbers of their accesses.
Ordered(order, list) ==
    \A i, j \in DOMAIN list : i < j => order[list[i]] < order[list[j]]

LEMMA DropKeepsOrder ==
    ASSUME NEW list, NEW other, InOrder(list, other), NEW order, Ordered(order, other),
           NEW newOrder, \A x \in ToSet(list) : newOrder[x] = order[x]
    PROVE  Ordered(newOrder, list)
  <1> SUFFICES ASSUME NEW i \in DOMAIN list, NEW j \in DOMAIN list, i < j
               PROVE  newOrder[list[i]] < newOrder[list[j]]
    BY DEF Ordered
  <1>1. PICK k \in DOMAIN other, l \in DOMAIN other :
             k < l /\ list[i] = other[k] /\ list[j] = other[l]
    BY DEF InOrder
  <1>2. order[other[k]] < order[other[l]]
    BY <1>1 DEF Ordered
  <1>3. list[i] \in ToSet(list) /\ list[j] \in ToSet(list)
    BY DEF ToSet
  <1> QED
    BY <1>1, <1>2, <1>3

LEMMA AppendKeepsOrder ==
    ASSUME NEW S, NEW list \in Seq(S), NEW x \in S, NEW order, Ordered(order, list),
           \A y \in ToSet(list) : order[y] < order[x]
    PROVE  Ordered(order, Append(list, x))
  <1>1. PICK n \in Nat, longer \in Seq(S) : n = Len(list) /\ longer = Append(list, x)
    BY OneMore
  <1>2. /\ DOMAIN list = 1..n /\ DOMAIN longer = 1..(n + 1)
        /\ \A i \in 1..n : longer[i] = list[i]
        /\ longer[n + 1] = x
    BY <1>1, OneMore
  <1>3. ASSUME NEW i \in 1..(n + 1), NEW j \in 1..(n + 1), i < j
        PROVE  order[longer[i]] < order[longer[j]]
    <2>1. i \in 1..n
      BY <1>3
    <2>2. longer[i] = list[i] /\ list[i] \in ToSet(list)
      BY <1>2, <2>1 DEF ToSet
    <2>3. CASE j = n + 1
      BY <1>2, <2>2, <2>3
    <2>4. CASE j # n + 1
      <3>1. j \in 1..n
        BY <2>4
      <3> QED
        BY <1>2, <1>3, <2>1, <2>2, <3>1 DEF Ordered
    <2> QED
      BY <2>3, <2>4
  <1> QED
    BY <1>1, <1>2, <1>3 DEF Ordered

(***************************************************************************)
(* The history of uses lists the stored keys, each once.                   *)
(***************************************************************************)
CacheInv ==
    /\ MemoryTypeOK
    /\ OrderIsUse
    /\ EntriesAccounted
    /\ used \in Seq(CacheKeys) /\ IsInjective(used) /\ ToSet(used) = ToSet(stored)
    /\ IsInjective(backedUp)

\* Keys go from both lists, and their numbers with them.
LEMMA GoneTogether ==
    ASSUME CacheInv, NEW gone \in SUBSET ToSet(stored),
           stored' = without(stored, gone), used' = without(used, gone),
           accessOrder' = forget(accessOrder, gone),
           UNCHANGED <<policy, accessCounter>>
    PROVE  /\ stored' \in Seq(CacheKeys) /\ IsInjective(stored')
           /\ ToSet(stored') = ToSet(stored) \ gone
           /\ used' \in Seq(CacheKeys) /\ IsInjective(used') /\ ToSet(used') = ToSet(stored')
           /\ accessOrder' \in [CacheKeys -> 0..accessCounter]
           /\ OrderIsUse'
           /\ Cardinality(gone) \in Nat /\ Len(stored') \in Nat
           /\ Len(stored) = Len(stored') + Cardinality(gone)
  <1>1. /\ stored \in Seq(CacheKeys) /\ IsInjective(stored)
        /\ used \in Seq(CacheKeys) /\ IsInjective(used) /\ ToSet(used) = ToSet(stored)
        /\ accessOrder \in [CacheKeys -> 0..accessCounter] /\ accessCounter \in Nat
    BY DEF CacheInv, MemoryTypeOK
  <1>2. /\ stored' \in Seq(CacheKeys) /\ IsInjective(stored')
        /\ ToSet(stored') = ToSet(stored) \ gone
    BY <1>1, WithoutIs
  <1>3. /\ used' \in Seq(CacheKeys) /\ IsInjective(used')
        /\ ToSet(used') = ToSet(used) \ gone
        /\ InOrder(used', used)
    BY <1>1, WithoutIs
  <1>4. /\ Cardinality(gone) \in Nat /\ Len(stored') \in Nat
        /\ Len(stored) = Len(stored') + Cardinality(gone)
    BY <1>1, WithoutLen
  <1>5. /\ accessOrder' \in [CacheKeys -> 0..accessCounter]
        /\ \A k \in CacheKeys : accessOrder'[k] = IF k \in gone THEN 0 ELSE accessOrder[k]
    BY <1>1 DEF forget
  <1>6. ASSUME policy = "LRUCache"
        PROVE  /\ Ordered(accessOrder', used')
               /\ {k \in CacheKeys : accessOrder'[k] > 0} = ToSet(stored')
    <2>1. /\ Ordered(accessOrder, used)
          /\ {k \in CacheKeys : accessOrder[k] > 0} = ToSet(stored)
      BY <1>6 DEF CacheInv, OrderIsUse, Ordered
    <2>2. \A x \in ToSet(used') : x \in CacheKeys /\ x \notin gone
      BY <1>1, <1>3, <2>1
    <2>3. \A x \in ToSet(used') : accessOrder'[x] = accessOrder[x]
      BY <1>5, <2>2
    <2>4. Ordered(accessOrder', used')
      BY <1>3, <2>1, <2>3, DropKeepsOrder
    <2>5. {k \in CacheKeys : accessOrder'[k] > 0}
             = {k \in CacheKeys : accessOrder[k] > 0} \ gone
      BY <1>1, <1>5
    <2> QED
      BY <1>2, <2>1, <2>4, <2>5
  <1>7. OrderIsUse'
    BY <1>6 DEF OrderIsUse, Ordered
  <1> QED
    BY <1>1, <1>2, <1>3, <1>4, <1>5, <1>7

\* A key is used: it goes to the end of the history, with the highest number.
LEMMA UsedLast ==
    ASSUME CacheInv, NEW k \in CacheKeys, NEW gone \in SUBSET ToSet(stored),
           used' = Append(without(used, gone \cup {k}), k),
           accessOrder' = access(forget(accessOrder, gone), k), counts,
           policy' = policy, ToSet(stored') = (ToSet(stored) \ gone) \cup {k}
    PROVE  /\ used' \in Seq(CacheKeys) /\ IsInjective(used') /\ ToSet(used') = ToSet(stored')
           /\ accessCounter' \in Nat
           /\ accessOrder' \in [CacheKeys -> 0..accessCounter']
           /\ OrderIsUse'
  <1>1. /\ used \in Seq(CacheKeys) /\ IsInjective(used) /\ ToSet(used) = ToSet(stored)
        /\ accessOrder \in [CacheKeys -> 0..accessCounter] /\ accessCounter \in Nat
    BY DEF CacheInv, MemoryTypeOK
  <1>2. PICK rest : rest = without(used, gone \cup {k})
    OBVIOUS
  <1>3. /\ rest \in Seq(CacheKeys) /\ IsInjective(rest)
        /\ ToSet(rest) = ToSet(used) \ (gone \cup {k})
        /\ InOrder(rest, used)
    BY <1>1, <1>2, WithoutIs
  <1>4. k \notin ToSet(rest) /\ used' = Append(rest, k)
    BY <1>2, <1>3
  <1>5. /\ used' \in Seq(CacheKeys) /\ IsInjective(used')
        /\ ToSet(used') = ToSet(rest) \cup {k}
    <2>1. /\ Append(rest, k) \in Seq(CacheKeys) /\ IsInjective(Append(rest, k))
          /\ ToSet(Append(rest, k)) = ToSet(rest) \cup {k}
      BY <1>3, <1>4, AddedToInjective
    <2> QED
      BY <1>4, <2>1
  <1>6. ToSet(used') = ToSet(stored')
    BY <1>1, <1>3, <1>5
  <1>7. PICK left \in [CacheKeys -> 0..accessCounter] :
             /\ left = forget(accessOrder, gone)
             /\ \A x \in CacheKeys : left[x] = IF x \in gone THEN 0 ELSE accessOrder[x]
    <2>1. /\ forget(accessOrder, gone) \in [CacheKeys -> 0..accessCounter]
          /\ \A x \in CacheKeys :
                forget(accessOrder, gone)[x] = IF x \in gone THEN 0 ELSE accessOrder[x]
      BY <1>1 DEF forget
    <2> QED
      BY <2>1
  <1>8. CASE policy = "LRUCache"
    <2>1. /\ accessCounter' = accessCounter + 1
          /\ accessOrder' = [left EXCEPT ![k] = accessCounter + 1]
      BY <1>7, <1>8 DEF counts, access
    <2>2. /\ accessOrder' \in [CacheKeys -> 0..accessCounter']
          /\ \A x \in CacheKeys : accessOrder'[x] =
                IF x = k THEN accessCounter + 1 ELSE left[x]
      <3>1. left \in [CacheKeys -> 0..(accessCounter + 1)]
        BY <1>1
      <3>2. accessCounter + 1 \in 0..(accessCounter + 1)
        BY <1>1
      <3> QED
        BY <1>1, <2>1, <3>1, <3>2
    <2>3. /\ Ordered(accessOrder, used)
          /\ {x \in CacheKeys : accessOrder[x] > 0} = ToSet(stored)
      BY <1>8 DEF CacheInv, OrderIsUse, Ordered
    <2>4. \A x \in ToSet(rest) : x \in CacheKeys /\ x \notin gone /\ x # k
      BY <1>1, <1>3, <2>3
    <2>5. \A x \in ToSet(rest) : accessOrder'[x] = accessOrder[x]
      BY <1>7, <2>2, <2>4
    <2>6. Ordered(accessOrder', rest)
      BY <1>3, <2>3, <2>5, DropKeepsOrder
    <2>7. \A x \in ToSet(rest) : accessOrder'[x] < accessOrder'[k]
      <3>1. ASSUME NEW x \in ToSet(rest) PROVE accessOrder'[x] < accessOrder'[k]
        <4>1. accessOrder'[x] = accessOrder[x] /\ accessOrder[x] \in 0..accessCounter
          BY <1>1, <2>4, <2>5
        <4>2. accessOrder'[k] = accessCounter + 1
          BY <2>2
        <4> QED
          BY <1>1, <4>1, <4>2
      <3> QED
        BY <3>1
    <2>8. Ordered(accessOrder', used')
      <3>1. Ordered(accessOrder', Append(rest, k))
        BY <1>3, <2>6, <2>7, AppendKeepsOrder
      <3> QED
        BY <1>4, <3>1
    <2>9. {x \in CacheKeys : accessOrder'[x] > 0} = ToSet(stored')
      <3>1. \A x \in CacheKeys : accessOrder'[x] > 0 <=>
                x = k \/ (x \notin gone /\ accessOrder[x] > 0)
        BY <1>1, <1>7, <2>2
      <3> QED
        BY <2>3, <3>1
    <2>10. OrderIsUse'
      BY <2>8, <2>9 DEF OrderIsUse, Ordered
    <2>11. accessCounter' \in Nat
      BY <1>1, <2>1
    <2> QED
      BY <1>5, <1>6, <2>2, <2>10, <2>11
  <1>9. CASE policy # "LRUCache"
    <2>1. accessCounter' = accessCounter /\ accessOrder' = left
      BY <1>7, <1>9 DEF counts, access
    <2> QED
      BY <1>1, <1>5, <1>6, <1>9, <2>1 DEF OrderIsUse
  <1> QED
    BY <1>8, <1>9

\* The victim is a stored key, the one with the lowest number in an LRUCache.
LEMMA VictimsAreStored ==
    ASSUME CacheInv, NEW k \in CacheKeys
    PROVE  victims(k) \in SUBSET ToSet(stored)
  <1>1. /\ stored \in Seq(CacheKeys)
        /\ accessOrder \in [CacheKeys -> 0..accessCounter] /\ accessCounter \in Nat
    BY DEF CacheInv, MemoryTypeOK
  <1>2. ASSUME stored # <<>> PROVE Head(stored) \in ToSet(stored) /\ leastRecent \in ToSet(stored)
    <2>1. PICK n \in Nat : n = Len(stored) /\ n > 0 /\ DOMAIN stored = 1..n
      BY <1>1, <1>2, EmptySeq, LenProperties
    <2>2. Head(stored) = stored[1] /\ 1 \in 1..n
      BY <1>1, <1>2, <2>1, HeadTailProperties
    <2>3. Head(stored) \in ToSet(stored)
      BY <2>1, <2>2 DEF ToSet
    <2>4. ToSet(stored) \subseteq CacheKeys
      BY <1>1, <2>1, ElementOfSeq DEF ToSet
    <2>5. PICK numbers \in SUBSET Nat : numbers = {accessOrder[x] : x \in ToSet(stored)}
      <3>1. \A x \in ToSet(stored) : accessOrder[x] \in Nat
        BY <1>1, <2>4
      <3> QED
        BY <3>1
    <2>6. numbers # {}
      BY <2>3, <2>5
    <2>7. PICK least \in numbers : \A m \in numbers : least <= m
      BY <2>6, LeastExists
    <2>8. \E x \in ToSet(stored) : \A other \in ToSet(stored) :
              accessOrder[x] <= accessOrder[other]
      BY <2>5, <2>7
    <2> QED
      BY <2>3, <2>8 DEF leastRecent
  <1>3. CASE stored = <<>>
    BY <1>3 DEF victims
  <1>4. CASE stored # <<>>
    BY <1>2, <1>4 DEF victims
  <1> QED
    BY <1>3, <1>4

LEMMA HitKeepsCache ==
    ASSUME CacheInv, NEW k \in CacheKeys, getHit(k)
    PROVE  CacheInv'
  <1>1. /\ accessOrder' = access(accessOrder, k) /\ counts
        /\ used' = Append(without(used, {k}), k)
        /\ UNCHANGED <<policy, stored, stale, evictions, backedUp, entered, removed, unbounded>>
        /\ k \in ToSet(stored)
    BY DEF getHit, hitOrder, holds
  <1>2. /\ accessOrder \in [CacheKeys -> 0..accessCounter]
        /\ forget(accessOrder, {}) = accessOrder
    BY DEF CacheInv, MemoryTypeOK, forget
  <1>3. {} \cup {k} = {k} /\ ToSet(stored') = (ToSet(stored) \ {}) \cup {k}
    BY <1>1
  <1>4. /\ used' = Append(without(used, {} \cup {k}), k)
        /\ accessOrder' = access(forget(accessOrder, {}), k)
        /\ {} \in SUBSET ToSet(stored)
    BY <1>1, <1>2, <1>3
  <1>5. /\ used' \in Seq(CacheKeys) /\ IsInjective(used') /\ ToSet(used') = ToSet(stored')
        /\ accessCounter' \in Nat
        /\ accessOrder' \in [CacheKeys -> 0..accessCounter']
        /\ OrderIsUse'
    BY <1>1, <1>3, <1>4, UsedLast
  <1>6. MemoryTypeOK'
    BY <1>1, <1>5 DEF CacheInv, MemoryTypeOK
  <1>7. EntriesAccounted'
    BY <1>1 DEF CacheInv, EntriesAccounted
  <1> QED
    BY <1>1, <1>5, <1>6, <1>7 DEF CacheInv

LEMMA DropKeepsCache ==
    ASSUME CacheInv, NEW gone \in SUBSET stale, dropExpired(gone)
    PROVE  CacheInv'
  <1>1. gone \in SUBSET ToSet(stored)
    BY DEF CacheInv, MemoryTypeOK
  <1>2. /\ stored' = without(stored, gone) /\ used' = without(used, gone)
        /\ stale' = stale \ gone
        /\ accessOrder' = forget(accessOrder, gone)
        /\ evictions' = evictions + Cardinality(gone)
        /\ UNCHANGED <<policy, accessCounter, backedUp, entered, removed, unbounded>>
    BY DEF dropExpired
  <1>3. /\ stored' \in Seq(CacheKeys) /\ IsInjective(stored')
        /\ ToSet(stored') = ToSet(stored) \ gone
        /\ used' \in Seq(CacheKeys) /\ IsInjective(used') /\ ToSet(used') = ToSet(stored')
        /\ accessOrder' \in [CacheKeys -> 0..accessCounter]
        /\ OrderIsUse'
        /\ Cardinality(gone) \in Nat /\ Len(stored') \in Nat
        /\ Len(stored) = Len(stored') + Cardinality(gone)
    BY <1>1, <1>2, GoneTogether
  <1>4. evictions \in Nat /\ entered \in Nat /\ removed \in Nat
    BY DEF CacheInv, MemoryTypeOK
  <1>5. MemoryTypeOK'
    <2>1. evictions' \in Nat
      BY <1>2, <1>3, <1>4
    <2>2. stale' \subseteq ToSet(stored')
      BY <1>2, <1>3 DEF CacheInv, MemoryTypeOK
    <2> QED
      BY <1>2, <1>3, <2>1, <2>2 DEF CacheInv, MemoryTypeOK
  <1>6. EntriesAccounted'
    <2>1. entered' = Len(stored') + evictions' + removed'
      BY <1>2, <1>3, <1>4 DEF CacheInv, EntriesAccounted
    <2>2. Len(stored) <= maxSize => Len(stored') <= maxSize
      BY <1>3, MaxSizeAssumption
    <2> QED
      BY <1>2, <2>1, <2>2 DEF CacheInv, EntriesAccounted
  <1> QED
    BY <1>2, <1>3, <1>5, <1>6 DEF CacheInv

LEMMA DeleteKeepsCache ==
    ASSUME CacheInv, NEW k \in CacheKeys, deleteEntry(k)
    PROVE  CacheInv'
  <1>1. /\ {k} \in SUBSET ToSet(stored)
        /\ stored' = without(stored, {k}) /\ used' = without(used, {k})
        /\ stale' = stale \ {k}
        /\ accessOrder' = forget(accessOrder, {k})
        /\ removed' = removed + 1
        /\ UNCHANGED <<policy, accessCounter, evictions, backedUp, entered, unbounded>>
    BY DEF deleteEntry, holds
  <1>2. /\ stored' \in Seq(CacheKeys) /\ IsInjective(stored')
        /\ ToSet(stored') = ToSet(stored) \ {k}
        /\ used' \in Seq(CacheKeys) /\ IsInjective(used') /\ ToSet(used') = ToSet(stored')
        /\ accessOrder' \in [CacheKeys -> 0..accessCounter]
        /\ OrderIsUse'
        /\ Len(stored') \in Nat
        /\ Len(stored) = Len(stored') + Cardinality({k})
    BY <1>1, GoneTogether
  <1>3. Cardinality({k}) = 1
    BY FS_Singleton
  <1>4. evictions \in Nat /\ entered \in Nat /\ removed \in Nat
    BY DEF CacheInv, MemoryTypeOK
  <1>5. MemoryTypeOK'
    <2>1. removed' \in Nat
      BY <1>1, <1>4
    <2>2. stale' \subseteq ToSet(stored')
      BY <1>1, <1>2 DEF CacheInv, MemoryTypeOK
    <2> QED
      BY <1>1, <1>2, <2>1, <2>2 DEF CacheInv, MemoryTypeOK
  <1>6. EntriesAccounted'
    <2>1. entered' = Len(stored') + evictions' + removed'
      BY <1>1, <1>2, <1>3, <1>4 DEF CacheInv, EntriesAccounted
    <2>2. Len(stored) <= maxSize => Len(stored') <= maxSize
      BY <1>2, <1>3, MaxSizeAssumption
    <2> QED
      BY <1>1, <2>1, <2>2 DEF CacheInv, EntriesAccounted
  <1> QED
    BY <1>1, <1>2, <1>5, <1>6 DEF CacheInv

LEMMA SetKeepsCache ==
    ASSUME CacheInv, NEW k \in CacheKeys, setEntry(k)
    PROVE  CacheInv'
  <1>1. PICK gone \in SUBSET ToSet(stored) : gone = victims(k)
    BY VictimsAreStored
  <1>2. PICK rest : rest = without(stored, gone)
    OBVIOUS
  <1>3. /\ stored' = IF k \notin ToSet(rest) THEN Append(rest, k) ELSE rest
        /\ stale' = stale \ (gone \cup {k})
        /\ accessOrder' = access(forget(accessOrder, gone), k) /\ counts
        /\ evictions' = evictions + Cardinality(gone)
        /\ entered' = IF k \notin ToSet(rest) THEN entered + 1 ELSE entered
        /\ used' = Append(without(used, gone \cup {k}), k)
        /\ UNCHANGED <<policy, backedUp, removed>>
    BY <1>1, <1>2 DEF setEntry
  <1>4. /\ unbounded' \in BOOLEAN
        /\ ~unbounded' => ~unbounded /\ (k \notin ToSet(rest) => ~(Len(rest) >= maxSize))
    BY <1>1, <1>2 DEF setEntry
  <1>5. stored \in Seq(CacheKeys) /\ IsInjective(stored) /\ stale \subseteq ToSet(stored)
    BY DEF CacheInv, MemoryTypeOK
  <1>6. /\ rest \in Seq(CacheKeys) /\ IsInjective(rest)
        /\ ToSet(rest) = ToSet(stored) \ gone
    BY <1>2, <1>5, WithoutIs
  <1>7. /\ Cardinality(gone) \in Nat /\ Len(rest) \in Nat
        /\ Len(stored) = Len(rest) + Cardinality(gone)
    BY <1>2, <1>5, WithoutLen
  <1>8. /\ stored' \in Seq(CacheKeys) /\ IsInjective(stored')
        /\ ToSet(stored') = (ToSet(stored) \ gone) \cup {k}
        /\ Len(stored') = IF k \notin ToSet(rest) THEN Len(rest) + 1 ELSE Len(rest)
    <2>1. CASE k \notin ToSet(rest)
      <3>1. /\ Append(rest, k) \in Seq(CacheKeys) /\ IsInjective(Append(rest, k))
            /\ ToSet(Append(rest, k)) = ToSet(rest) \cup {k}
        BY <1>6, <2>1, AddedToInjective
      <3>2. Len(Append(rest, k)) = Len(rest) + 1
        BY <1>6, OneMore
      <3> QED
        BY <1>3, <1>6, <2>1, <3>1, <3>2
    <2>2. CASE k \in ToSet(rest)
      BY <1>3, <1>6, <2>2
    <2> QED
      BY <2>1, <2>2
  <1>9. /\ used' \in Seq(CacheKeys) /\ IsInjective(used') /\ ToSet(used') = ToSet(stored')
        /\ accessCounter' \in Nat
        /\ accessOrder' \in [CacheKeys -> 0..accessCounter']
        /\ OrderIsUse'
    BY <1>3, <1>8, UsedLast
  <1>10. evictions \in Nat /\ entered \in Nat /\ removed \in Nat
    BY DEF CacheInv, MemoryTypeOK
  <1>11. MemoryTypeOK'
    <2>1. evictions' \in Nat /\ entered' \in Nat
      BY <1>3, <1>7, <1>10
    <2>2. stale' \subseteq ToSet(stored')
      BY <1>3, <1>5, <1>8
    <2> QED
      BY <1>3, <1>4, <1>8, <1>9, <2>1, <2>2 DEF CacheInv, MemoryTypeOK
  <1>12. EntriesAccounted'
    <2>1. entered' = Len(stored') + evictions' + removed'
      <3>1. entered = Len(stored) + evictions + removed
        BY DEF CacheInv, EntriesAccounted
      <3>2. CASE k \notin ToSet(rest)
        <4>1. /\ entered' = entered + 1 /\ Len(stored') = Len(rest) + 1
              /\ evictions' = evictions + Cardinality(gone) /\ removed' = removed
          BY <1>3, <1>8, <3>2
        <4>2. PICK n \in Nat, m \in Nat : n = Len(rest) /\ m = Cardinality(gone)
          BY <1>7
        <4>3. entered = n + m + evictions + removed
          BY <1>7, <3>1, <4>2
        <4>4. entered + 1 = n + 1 + (evictions + m) + removed
          <5>1. n \in Nat /\ m \in Nat /\ removed \in Nat
            BY DEF CacheInv, MemoryTypeOK
          <5> QED
            BY <1>10, <4>3, <5>1
        <4> QED
          BY <4>1, <4>2, <4>4
      <3>3. CASE k \in ToSet(rest)
        BY <1>3, <1>7, <1>8, <1>10, <3>1, <3>3
      <3> QED
        BY <3>2, <3>3
    <2>2. ASSUME ~unbounded' PROVE Len(stored') <= maxSize
      <3>1. Len(stored) <= maxSize
        BY <1>4, <2>2 DEF CacheInv, EntriesAccounted
      <3>2. CASE k \notin ToSet(rest)
        <4>1. ~(Len(rest) >= maxSize)
          BY <1>4, <2>2, <3>2
        <4> QED
          BY <1>7, <1>8, <3>2, <4>1, MaxSizeAssumption
      <3>3. CASE k \in ToSet(rest)
        BY <1>7, <1>8, <3>1, <3>3, MaxSizeAssumption
      <3> QED
        BY <3>2, <3>3
    <2> QED
      BY <2>1, <2>2 DEF EntriesAccounted
  <1> QED
    BY <1>3, <1>9, <1>11, <1>12 DEF CacheInv

LEMMA ClearKeepsCache ==
    ASSUME CacheInv, clearLayer
    PROVE  CacheInv'
  <1>1. /\ <<>> \in Seq(CacheKeys) /\ Len(<<>>) = 0 /\ DOMAIN <<>> = {}
    BY EmptySeq
  <1>2. ToSet(<<>>) = {} /\ IsInjective(<<>>)
    BY <1>1 DEF ToSet, IsInjective
  <1>3. /\ stored' = <<>> /\ used' = <<>> /\ stale' = {}
        /\ accessOrder' = [k \in CacheKeys |-> 0]
        /\ evictions' = 0 /\ entered' = 0 /\ removed' = 0
        /\ UNCHANGED <<policy, accessCounter, backedUp>>
    BY DEF clearLayer
  <1>4. accessOrder' \in [CacheKeys -> 0..accessCounter]
    BY <1>3 DEF CacheInv, MemoryTypeOK
  <1>5. unbounded' \in BOOLEAN
    BY DEF clearLayer
  <1>6. MemoryTypeOK'
    BY <1>1, <1>2, <1>3, <1>4, <1>5 DEF CacheInv, MemoryTypeOK
  <1>7. OrderIsUse'
    <2>1. {k \in CacheKeys : accessOrder'[k] > 0} = {}
      BY <1>3
    <2> QED
      BY <1>1, <1>2, <1>3, <2>1 DEF OrderIsUse
  <1>8. EntriesAccounted'
    BY <1>1, <1>3, MaxSizeAssumption DEF EntriesAccounted
  <1> QED
    BY <1>1, <1>2, <1>3, <1>6, <1>7, <1>8 DEF CacheInv

\* Two lists that share no key, one after the other.
LEMMA ConcatInjective ==
    ASSUME NEW S, NEW list \in Seq(S), IsInjective(list), NEW more \in Seq(S),
           IsInjective(more), ToSet(list) \cap ToSet(more) = {}
    PROVE  /\ list \o more \in Seq(S) /\ IsInjective(list \o more)
           /\ ToSet(list \o more) = ToSet(list) \cup ToSet(more)
           /\ Len(list \o more) = Len(list) + Len(more)
  <1>1. PICK n \in Nat, m \in Nat : /\ n = Len(list) /\ DOMAIN list = 1..n
                                    /\ m = Len(more) /\ DOMAIN more = 1..m
    BY LenProperties
  <1>2. PICK both : both = list \o more
    OBVIOUS
  <1>3. /\ both \in Seq(S) /\ Len(both) = n + m
        /\ \A i \in 1..(n + m) : both[i] = IF i <= n THEN list[i] ELSE more[i - n]
    <2>1. /\ list \o more \in Seq(S) /\ Len(list \o more) = Len(list) + Len(more)
          /\ \A i \in 1..(Len(list) + Len(more)) : (list \o more)[i] =
                IF i <= Len(list) THEN list[i] ELSE more[i - Len(list)]
      BY ConcatProperties
    <2> QED
      BY <1>1, <1>2, <2>1
  <1>4. DOMAIN both = 1..(n + m)
    BY <1>3, LenProperties
  <1>5. /\ \A i \in 1..n : both[i] = list[i] /\ both[i] \in ToSet(list)
        /\ \A i \in 1..m : both[n + i] = more[i] /\ both[n + i] \in ToSet(more)
    <2>1. ASSUME NEW i \in 1..n PROVE both[i] = list[i] /\ both[i] \in ToSet(list)
      <3>1. i \in 1..(n + m) /\ i <= n
        OBVIOUS
      <3>2. both[i] = list[i]
        BY <1>3, <3>1
      <3> QED
        BY <1>1, <3>2 DEF ToSet
    <2>2. ASSUME NEW i \in 1..m PROVE both[n + i] = more[i] /\ both[n + i] \in ToSet(more)
      <3>1. n + i \in 1..(n + m) /\ ~(n + i <= n) /\ n + i - n = i
        OBVIOUS
      <3>2. both[n + i] = more[i]
        BY <1>3, <3>1
      <3> QED
        BY <1>1, <3>2 DEF ToSet
    <2> QED
      BY <2>1, <2>2
  <1>6. \A i \in 1..(n + m) : i \in 1..n \/ \E j \in 1..m : i = n + j
    <2>1. ASSUME NEW i \in 1..(n + m), i \notin 1..n PROVE \E j \in 1..m : i = n + j
      <3>1. i - n \in 1..m /\ i = n + (i - n)
        BY <2>1
      <3> QED
        BY <3>1
    <2> QED
      BY <2>1
  <1>7. IsInjective(both)
    <2> SUFFICES ASSUME NEW i \in 1..(n + m), NEW j \in 1..(n + m), both[i] = both[j]
                 PROVE  i = j
      BY <1>4 DEF IsInjective
    <2>1. CASE i \in 1..n /\ j \in 1..n
      BY <1>1, <1>5, <2>1 DEF IsInjective
    <2>2. CASE \E a \in 1..m : i = n + a /\ \E b \in 1..m : j = n + b
      <3>1. PICK a \in 1..m, b \in 1..m : i = n + a /\ j = n + b
        BY <2>2
      <3>2. more[a] = more[b]
        BY <1>5, <3>1
      <3>3. a = b
        BY <1>1, <3>2 DEF IsInjective
      <3> QED
        BY <3>1, <3>3
    <2>3. CASE i \in 1..n /\ \E b \in 1..m : j = n + b
      BY <1>5, <2>3
    <2>4. CASE j \in 1..n /\ \E a \in 1..m : i = n + a
      BY <1>5, <2>4
    <2> QED
      BY <1>6, <2>1, <2>2, <2>3, <2>4
  <1>8. ToSet(both) = ToSet(list) \cup ToSet(more)
    <2>1. ToSet(both) \subseteq ToSet(list) \cup ToSet(more)
      <3>1. \A i \in 1..(n + m) : both[i] \in ToSet(list) \cup ToSet(more)
        BY <1>5, <1>6
      <3> QED
        BY <1>4, <3>1 DEF ToSet
    <2>2. ASSUME NEW x \in ToSet(list) PROVE x \in ToSet(both)
      <3>1. PICK i \in 1..n : x = list[i]
        BY <1>1 DEF ToSet
      <3>2. i \in 1..(n + m)
        OBVIOUS
      <3> QED
        BY <1>4, <1>5, <3>1, <3>2 DEF ToSet
    <2>3. ASSUME NEW x \in ToSet(more) PROVE x \in ToSet(both)
      <3>1. PICK i \in 1..m : x = more[i]
        BY <1>1 DEF ToSet
      <3>2. n + i \in 1..(n + m)
        OBVIOUS
      <3>3. both[n + i] = x
        BY <1>5, <3>1
      <3>4. n + i \in DOMAIN both
        BY <1>4, <3>2
      <3> QED
        BY <3>3, <3>4 DEF ToSet
    <2> QED
      BY <2>1, <2>2, <2>3
  <1> QED
    BY <1>1, <1>2, <1>3, <1>7, <1>8

LEMMA RestoreKeepsCache ==
    ASSUME CacheInv, restore
    PROVE  CacheInv'
  <1>1. PICK new : new = without(backedUp, ToSet(stored))
    OBVIOUS
  <1>2. /\ policy = "MemoryCache"
        /\ stored' = stored \o new /\ used' = used \o new
        /\ stale' = stale \/ stale' = stale \ ToSet(backedUp)
        /\ entered' = entered + Len(new)
        /\ UNCHANGED <<policy, accessOrder, accessCounter, evictions, backedUp, removed>>
    BY <1>1 DEF restore
  <1>3. /\ unbounded' \in BOOLEAN
        /\ ~unbounded' => ~unbounded /\ ~(new # <<>> /\ Len(stored) + Len(new) > maxSize)
    BY <1>1 DEF restore
  <1>4. /\ stored \in Seq(CacheKeys) /\ IsInjective(stored) /\ stale \subseteq ToSet(stored)
        /\ used \in Seq(CacheKeys) /\ IsInjective(used) /\ ToSet(used) = ToSet(stored)
        /\ backedUp \in Seq(CacheKeys) /\ IsInjective(backedUp)
        /\ evictions \in Nat /\ entered \in Nat /\ removed \in Nat
    BY DEF CacheInv, MemoryTypeOK
  <1>5. /\ new \in Seq(CacheKeys) /\ IsInjective(new)
        /\ ToSet(new) = ToSet(backedUp) \ ToSet(stored)
    BY <1>1, <1>4, WithoutIs
  <1>6. Len(stored) \in Nat /\ Len(new) \in Nat /\ (new = <<>> => Len(new) = 0)
    BY <1>4, <1>5, LenProperties, EmptySeq
  <1>7. ToSet(stored) \cap ToSet(new) = {} /\ ToSet(used) \cap ToSet(new) = {}
    BY <1>4, <1>5
  <1>8. /\ stored \o new \in Seq(CacheKeys) /\ IsInjective(stored \o new)
        /\ ToSet(stored \o new) = ToSet(stored) \cup ToSet(new)
        /\ Len(stored \o new) = Len(stored) + Len(new)
    BY <1>4, <1>5, <1>7, ConcatInjective
  <1>9. /\ used \o new \in Seq(CacheKeys) /\ IsInjective(used \o new)
        /\ ToSet(used \o new) = ToSet(used) \cup ToSet(new)
    BY <1>4, <1>5, <1>7, ConcatInjective
  <1>10. MemoryTypeOK'
    <2>1. entered' \in Nat
      BY <1>2, <1>4, <1>6
    <2>2. stale' \subseteq ToSet(stored')
      BY <1>2, <1>4, <1>8
    <2> QED
      BY <1>2, <1>3, <1>8, <2>1, <2>2 DEF CacheInv, MemoryTypeOK
  <1>11. EntriesAccounted'
    <2>1. entered' = Len(stored') + evictions' + removed'
      BY <1>2, <1>4, <1>6, <1>8 DEF CacheInv, EntriesAccounted
    <2>2. ASSUME ~unbounded' PROVE Len(stored') <= maxSize
      <3>1. Len(stored) <= maxSize
        BY <1>3, <2>2 DEF CacheInv, EntriesAccounted
      <3> QED
        BY <1>2, <1>3, <1>6, <1>8, <2>2, <3>1, MaxSizeAssumption
    <2> QED
      BY <2>1, <2>2 DEF EntriesAccounted
  <1>12. OrderIsUse'
    BY <1>2 DEF OrderIsUse
  <1> QED
    BY <1>2, <1>4, <1>8, <1>9, <1>10, <1>11, <1>12 DEF CacheInv

LEMMA CacheStepsKeepInv == CacheInv /\ [MemoryNext]_memoryVars => CacheInv'
  <1> SUFFICES ASSUME CacheInv, [MemoryNext]_memoryVars PROVE CacheInv'
    OBVIOUS
  <1>1. ASSUME NEW k \in CacheKeys, getHit(k) \/ setEntry(k) \/ deleteEntry(k)
        PROVE  CacheInv'
    BY <1>1, HitKeepsCache, SetKeepsCache, DeleteKeepsCache
  <1>2. ASSUME NEW k \in CacheKeys, lookup(k) PROVE CacheInv'
    <2>1. {k} \in SUBSET stale /\ dropExpired({k})
      BY <1>2 DEF lookup
    <2> QED
      BY <2>1, DropKeepsCache
  <1>3. CASE liveKeys
    <2>1. stale \in SUBSET stale /\ dropExpired(stale)
      BY <1>3 DEF liveKeys
    <2> QED
      BY <2>1, DropKeepsCache
  <1>4. ASSUME NEW k \in CacheKeys, EntryExpires(k) PROVE CacheInv'
    <2>1. /\ k \in ToSet(stored) /\ stale' = stale \cup {k}
          /\ UNCHANGED <<policy, stored, accessOrder, accessCounter, evictions, backedUp,
                         entered, removed, used, unbounded>>
      BY <1>4 DEF EntryExpires, holds
    <2>2. MemoryTypeOK'
      BY <2>1 DEF CacheInv, MemoryTypeOK
    <2> QED
      BY <2>1, <2>2 DEF CacheInv, OrderIsUse, EntriesAccounted
  <1>5. CASE clearLayer
    BY <1>5, ClearKeepsCache
  <1>6. CASE backup
    <2>1. /\ backedUp' = stored
          /\ UNCHANGED <<policy, stored, stale, accessOrder, accessCounter, evictions,
                         entered, removed, used, unbounded>>
      BY <1>6 DEF backup
    <2>2. MemoryTypeOK' /\ IsInjective(backedUp')
      BY <2>1 DEF CacheInv, MemoryTypeOK
    <2> QED
      BY <2>1, <2>2 DEF CacheInv, OrderIsUse, EntriesAccounted
  <1>7. CASE restore
    BY <1>7, RestoreKeepsCache
  <1>8. CASE UNCHANGED memoryVars
    <2>1. UNCHANGED <<policy, stored, stale, accessOrder, accessCounter, evictions,
                      backedUp, entered, removed, used, unbounded>>
      BY <1>8 DEF memoryVars
    <2>2. MemoryTypeOK' /\ IsInjective(backedUp')
      BY <2>1 DEF CacheInv, MemoryTypeOK
    <2> QED
      BY <2>1, <2>2 DEF CacheInv, OrderIsUse, EntriesAccounted
  <1> QED
    BY <1>1, <1>2, <1>3, <1>4, <1>5, <1>6, <1>7, <1>8 DEF MemoryNext

(***************************************************************************)
(* The victim is the key used longest ago, no number of an access outlives *)
(* its key, and no entry is lost or counted twice, however lookups,        *)
(* expiry, evictions, backups and restores interleave; with the levels,    *)
(* CachesCorrect.                                                          *)
(***************************************************************************)
THEOREM CachesStayCorrect ==
    LevelsSpec /\ MemorySpec => [](MemoryTypeOK /\ CachesCorrect)
  <1>1. MemoryInit => CacheInv
    <2> SUFFICES ASSUME MemoryInit PROVE CacheInv
      OBVIOUS
    <2>1. /\ <<>> \in Seq(CacheKeys) /\ Len(<<>>) = 0 /\ DOMAIN <<>> = {}
      BY EmptySeq
    <2>2. ToSet(<<>>) = {} /\ IsInjective(<<>>)
      BY <2>1 DEF ToSet, IsInjective
    <2>3. {k \in CacheKeys : accessOrder[k] > 0} = {}
      BY DEF MemoryInit
    <2>4. MemoryTypeOK
      <3>1. accessOrder \in [CacheKeys -> 0..accessCounter]
        BY DEF MemoryInit
      <3> QED
        BY <2>1, <2>2, <3>1 DEF MemoryInit, MemoryTypeOK
    <2>5. OrderIsUse
      BY <2>1, <2>2, <2>3 DEF MemoryInit, OrderIsUse
    <2>6. EntriesAccounted
      BY <2>1, MaxSizeAssumption DEF MemoryInit, EntriesAccounted
    <2> QED
      BY <2>1, <2>2, <2>4, <2>5, <2>6 DEF MemoryInit, CacheInv
  <1>2. CacheInv => MemoryTypeOK /\ OrderIsUse /\ EntriesAccounted
    BY DEF CacheInv
  <1>3. LevelsHoldLatest /\ OrderIsUse /\ EntriesAccounted => CachesCorrect
    BY DEF CachesCorrect
  <1> QED
    BY <1>1, <1>2, <1>3, CacheStepsKeepInv, LevelsStayLatest, PTL DEF MemorySpec

-----------------------------------------------------------------------------
(***************************************************************************)
(* Identifiers.  The prefix of a kind is the same for its create function, *)
(* its parser, the contracts and the columns, and no two kinds share one;  *)
(* a call returns a value of its own kind's prefix.                        *)
(***************************************************************************)
kindOf ==
    [prj |-> "ProjectId", wsp |-> "WorkspaceId", prn |-> "PrincipalId",
     tsk |-> "TaskId", mft |-> "ManifestId", pln |-> "PlanId",
     stp |-> "StepId", evt |-> "EventId", cor |-> "CorrelationId",
     cal |-> "CallId", pdc |-> "PolicyDecisionId", apr |-> "ApprovalId",
     apu |-> "ApprovalUseId", non |-> "Nonce", efi |-> "EffectIntentId",
     vrf |-> "VerificationId", use |-> "UsageId", crt |-> "CriterionId",
     atm |-> "AttemptId", pvr |-> "ProviderRequestId", cxq |-> "ContextQueryId",
     cxi |-> "ContextItemId", cxp |-> "ContextPackageId", art |-> "ArtifactId",
     bgt |-> "BudgetSetId", brs |-> "BudgetReservationId", pbk |-> "PriceBookId",
     cpg |-> "CapabilityGrantId", rcv |-> "RecoveryRunId"]

LEMMA KindsColumns ==
    ASSUME NEW kind \in Kind
    PROVE  kindOf[columnPrefix[kind]] = kind
  BY DEF Kind, Kind1, Kind2, columnPrefix, kindOf

LEMMA ContractsAgree ==
    ASSUME NEW kind \in Kind
    PROVE  contractPrefix[kind] = columnPrefix[kind]
  BY DEF contractPrefix, columnPrefix

LEMMA ParsersAgree ==
    ASSUME NEW kind \in Kind
    PROVE  parsedPrefix[kind] = columnPrefix[kind]
<1>1. parsedPrefix[kind] = prefixIn(parsedPrefix1, parsedPrefix2, parsedPrefix3, kind)
  BY DEF parsedPrefix
<1> QED
  BY <1>1 DEF prefixIn, Kind, Kind1, Kind2, columnPrefix, parsedPrefix1, parsedPrefix2,
         parsedPrefix3

LEMMA CreatorsAgree ==
    ASSUME NEW kind \in Kind
    PROVE  createdPrefix(kind) = columnPrefix[kind]
  BY DEF createdPrefix, prefixIn, Kind, Kind1, Kind2, columnPrefix, createdPrefix1,
         createdPrefix2, createdPrefix3

LEMMA PrefixesAgree ==
    ASSUME NEW kind \in Kind
    PROVE  /\ createdPrefix(kind) = columnPrefix[kind] /\ parsedPrefix[kind] = columnPrefix[kind]
           /\ contractPrefix[kind] = columnPrefix[kind]
           /\ \A other \in Kind : columnPrefix[kind] = columnPrefix[other] => kind = other
  BY KindsColumns, ContractsAgree, ParsersAgree, CreatorsAgree

\* What a call returns for a kind: a value of that kind's own prefix.
ofOwnKind(id) ==
    \E kind \in Kind : id = [kind |-> kind, value |-> [prefix |-> columnPrefix[kind],
                                                       rest |-> "uuid4"]]

IdInv == typedId = InvalidId \/ ofOwnKind(typedId)

LEMMA IdStepsKeepInv == IdInv /\ [IdNext]_idVars => IdInv'
<1> SUFFICES ASSUME IdInv, [IdNext]_idVars PROVE IdInv'
  OBVIOUS
<1>1. CASE UNCHANGED idVars
  BY <1>1 DEF IdInv, idVars
<1>2. ASSUME NEW kind \in Kind, create(kind) PROVE IdInv'
  <2>1. createdPrefix(kind) = columnPrefix[kind]
    BY PrefixesAgree
  <2> QED
    BY <1>2, <2>1 DEF create, isValidUuidV4, IdInv, ofOwnKind
<1>3. ASSUME NEW kind \in Kind, NEW value \in Value \cup {NotString}, parse(kind, value)
      PROVE  IdInv'
  <2>1. CASE ~accepts(kind, value)
    BY <1>3, <2>1 DEF parse, IdInv
  <2>2. CASE accepts(kind, value)
    <3>1. value \in Value /\ value.prefix = parsedPrefix[kind] /\ value.rest = "uuid4"
      BY <2>2 DEF accepts, validateIdPrefix, isValidUuidV4
    <3>2. value = [prefix |-> columnPrefix[kind], rest |-> "uuid4"]
      BY <3>1, PrefixesAgree DEF Value
    <3> QED
      BY <1>3, <2>2, <3>2 DEF parse, IdInv, ofOwnKind
  <2> QED
    BY <2>1, <2>2
<1> QED
  BY <1>1, <1>2, <1>3 DEF IdNext

LEMMA IdInvHolds == IdInv => IdTypeOK /\ IdsOfOneKind
<1> SUFFICES ASSUME IdInv, typedId # InvalidId PROVE IdTypeOK /\ IdsOfOneKind
  BY DEF IdTypeOK, IdsOfOneKind
<1>1. PICK own \in Kind : typedId = [kind |-> own, value |-> [prefix |-> columnPrefix[own],
                                                             rest |-> "uuid4"]]
  BY DEF IdInv, ofOwnKind
<1>2. columnPrefix[own] \in SentPrefixes
  BY PrefixesAgree DEF SentPrefixes
<1>3. IdTypeOK
  BY <1>1, <1>2 DEF IdTypeOK
<1>4. PICK value : /\ value = typedId.value /\ value # NotString
                   /\ value.prefix = columnPrefix[own] /\ value.rest = "uuid4"
  <2>1. typedId.value \in Value
    BY <1>1, <1>2 DEF Value, Rest
  <2> QED
    BY <1>1, <2>1, NotStringAssumption
<1>5. typedId.kind = own
  BY <1>1
<1>6. ASSUME NEW kind \in Kind
      PROVE  /\ accepts(kind, value) = (kind = own)
             /\ matchesContract(kind, value) = (kind = own)
             /\ fitsColumn(kind, value) = (kind = own)
  <2>1. /\ (columnPrefix[own] = columnPrefix[kind]) <=> (kind = own)
        /\ parsedPrefix[kind] = columnPrefix[kind] /\ contractPrefix[kind] = columnPrefix[kind]
    BY PrefixesAgree
  <2> QED
    BY <1>4, <2>1 DEF accepts, validateIdPrefix, isValidUuidV4, matchesContract, fitsColumn
<1> QED
  BY <1>3, <1>4, <1>5, <1>6 DEF IdsOfOneKind

(***************************************************************************)
(* What create() and parse() return is an identifier of their own kind for *)
(* every reader, and of no other kind for any (ids.ts:697).                *)
(***************************************************************************)
THEOREM IdsStayOfOneKind == IdSpec => [](IdTypeOK /\ IdsOfOneKind)
<1>1. IdInit => IdInv
  BY DEF IdInit, IdInv
<1> QED
  BY <1>1, IdStepsKeepInv, IdInvHolds, PTL DEF IdSpec

-----------------------------------------------------------------------------
(***************************************************************************)
(* The doubles of the ports.  Calls under way form a stack: all but the    *)
(* innermost are in a sink, and one that was aborted or is in a sink has   *)
(* sent a signal.  Each call takes the next item of its script.            *)
(***************************************************************************)
AnItem == [signals : Nat, error : Scripted]

CallUnderWay == [op : Streaming, item : AnItem, sent : Nat,
                 aborted : BOOLEAN, inSink : BOOLEAN]

PortShape ==
    /\ port \in DOMAIN operations /\ calls \in Nat
    /\ script \in [Operation -> Seq(AnItem)]
    /\ given \in [Operation -> Seq(AnItem)]
    /\ taken \in [Operation -> Seq(AnItem)]
    /\ running \in Seq(CallUnderWay)

CallsBegun ==
    \A i \in DOMAIN running :
        /\ running[i].aborted \/ running[i].inSink => running[i].sent > 0
        /\ i < Len(running) => running[i].inSink

PortInv ==
    /\ PortShape /\ PortTypeOK /\ CallsBegun
    /\ ItemsOnce /\ IsFiniteSet(itemsTaken) /\ AnswersAreOwn

LEMMA OperationsOf ==
    ASSUME port \in DOMAIN operations
    PROVE  /\ Operation \subseteq {"probe", "generate", "invoke", "reconcile", "verify"}
           /\ \A op \in Operation : Item(op) \subseteq AnItem
  BY PortBounds DEF operations, Operation, ProviderPort, ToolPort, VerifierPort, Item, AnItem

LEMMA OneTaken ==
    ASSUME NEW S, NEW t \in Seq(S), NEW s \in Seq(S), s # <<>>
    PROVE  /\ Append(t, Head(s)) \o Tail(s) = t \o s
           /\ Head(s) \in S /\ Tail(s) \in Seq(S) /\ Append(t, Head(s)) \in Seq(S)
<1>1. /\ Head(s) \in S /\ Tail(s) \in Seq(S) /\ Append(t, Head(s)) \in Seq(S)
      /\ Head(s) = s[1] /\ Len(Tail(s)) = Len(s) - 1 /\ Len(s) > 0
      /\ Len(Append(t, Head(s))) = Len(t) + 1
  OBVIOUS
<1>2. ASSUME NEW i \in 1..(Len(t) + Len(s))
      PROVE  (Append(t, Head(s)) \o Tail(s))[i] = (t \o s)[i]
  BY <1>1
<1> QED
  <2> DEFINE u == Append(t, Head(s)) \o Tail(s)
             w == t \o s
  <2>1. u \in Seq(S) /\ w \in Seq(S) /\ Len(u) = Len(t) + Len(s) /\ Len(w) = Len(t) + Len(s)
    BY <1>1
  <2>2. u = w
    <3> HIDE DEF u, w
    <3> QED
      BY <2>1, <1>2 DEF u, w
  <2> QED
    BY <1>1, <2>2

LEMMA ErrorsOfPorts ==
    /\ \A e \in Scripted \cup {sinkError, error("aborted", "never"), error("unknown", "never")} :
          e # Success => isPortError(e)
    /\ VALID_CODES = PortErrorCode /\ VALID_RETRY = RetryValue
<1>1. VALID_CODES = PortErrorCode
  BY DEF VALID_CODES, PortErrorCode
<1> QED
  BY <1>1 DEF Scripted, sinkError, error, isPortError, VALID_CODES, VALID_RETRY, RetryValue

LEMMA OneElementMore ==
    ASSUME NEW S, IsFiniteSet(S), NEW x
    PROVE  /\ IsFiniteSet(S \cup {x}) /\ Cardinality(S \cup {x}) <= Cardinality(S) + 1
           /\ Cardinality(S) \in Nat /\ Cardinality(S \cup {x}) \in Nat
  BY FS_AddElement, FS_CardinalityType

LEMMA TakingKeepsItems ==
    ASSUME PortInv, NEW op \in Operation, recordCall, script[op] # <<>>, takes(op), port' = port
    PROVE  /\ ItemsOnce' /\ IsFiniteSet(itemsTaken')
           /\ script' \in [Operation -> Seq(AnItem)] /\ taken' \in [Operation -> Seq(AnItem)]
           /\ \A other \in Operation :
                 script'[other] \in Seq(Item(other)) /\ taken'[other] \in Seq(Item(other))
           /\ Head(script[op]) \in Item(op) /\ Item(op) \subseteq AnItem
<1> USE DEF PortInv, PortShape, PortTypeOK
<1>1. Operation' = Operation
  BY DEF Operation
<1>2. \A other \in Operation : /\ script[other] \in Seq(Item(other))
                               /\ taken[other] \in Seq(Item(other))
                               /\ given[other] \in Seq(Item(other))
                               /\ Item(other) \subseteq AnItem
  BY OperationsOf
<1>3. /\ Append(taken[op], Head(script[op])) \o Tail(script[op]) = taken[op] \o script[op]
      /\ Head(script[op]) \in Item(op) /\ Tail(script[op]) \in Seq(Item(op))
      /\ Append(taken[op], Head(script[op])) \in Seq(Item(op))
  BY <1>2, OneTaken
<1>4. /\ script' = [script EXCEPT ![op] = Tail(script[op])]
      /\ taken' = [taken EXCEPT ![op] = Append(taken[op], Head(script[op]))]
      /\ given' = given
  BY DEF takes, takenOff
<1>5. /\ Tail(script[op]) \in Seq(AnItem) /\ Append(taken[op], Head(script[op])) \in Seq(AnItem)
  BY <1>2, <1>3, OneTaken
<1>6. /\ script' \in [Operation -> Seq(AnItem)] /\ taken' \in [Operation -> Seq(AnItem)]
      /\ \A other \in Operation :
                 script'[other] \in Seq(Item(other)) /\ taken'[other] \in Seq(Item(other))
  BY <1>2, <1>3, <1>4, <1>5
<1>7. \A other \in Operation : taken'[other] \o script'[other] = given'[other]
  BY <1>3, <1>4 DEF ItemsOnce
<1>8. itemsTaken' = itemsTaken \cup {<<op, Len(taken[op]) + 1>>}
  <2>1. taken[op] \in Seq(AnItem)
    OBVIOUS
  <2>2. DOMAIN taken'[op] = DOMAIN taken[op] \cup {Len(taken[op]) + 1}
    BY <2>1, <1>4, <1>3
  <2>3. \A other \in Operation : other # op => DOMAIN taken'[other] = DOMAIN taken[other]
    BY <1>4
  <2>4. {<<op, i>> : i \in DOMAIN taken'[op]}
          = {<<op, i>> : i \in DOMAIN taken[op]} \cup {<<op, Len(taken[op]) + 1>>}
    BY <2>2
  <2> QED
    BY <1>1, <2>3, <2>4 DEF itemsTaken
<1>9. /\ IsFiniteSet(itemsTaken') /\ Cardinality(itemsTaken') <= Cardinality(itemsTaken) + 1
      /\ Cardinality(itemsTaken) \in Nat /\ Cardinality(itemsTaken') \in Nat
  BY <1>8, OneElementMore
<1>10. Cardinality(itemsTaken') <= calls'
  BY <1>9 DEF recordCall, ItemsOnce
<1> QED
  BY <1>1, <1>2, <1>3, <1>6, <1>7, <1>9, <1>10 DEF ItemsOnce

\* A call that takes nothing: the items stand.
LEMMA NothingTaken ==
    ASSUME PortInv, UNCHANGED <<port, script, given, taken>>, calls' \in Nat, calls' >= calls
    PROVE  ItemsOnce' /\ IsFiniteSet(itemsTaken')
<1>1. Operation' = Operation /\ itemsTaken' = itemsTaken
  BY DEF Operation, itemsTaken
<1> QED
  BY <1>1, FS_CardinalityType DEF PortInv, PortShape, ItemsOnce

LEMMA CallsKeepInv ==
    ASSUME PortInv, NEW op \in Operation,
           callAborted \/ callExhausted(op) \/ callAnswered(op) \/ callStreams(op)
    PROVE  PortInv'
<1> USE DEF PortInv
<1>1. port' = port /\ Operation' = Operation
  BY DEF Operation, callAborted, callExhausted, callAnswered, callStreams
<1>2. calls' \in Nat /\ calls' = calls + 1 /\ calls' \in 0..MaxRecorded
  BY PortBounds DEF callAborted, callExhausted, callAnswered, callStreams, recordCall, PortShape,
         PortTypeOK
<1>3. CASE callAborted \/ callExhausted(op)
  <2>1. UNCHANGED <<port, script, running, given, taken>>
    BY <1>3 DEF callAborted, callExhausted
  <2>2. ItemsOnce' /\ IsFiniteSet(itemsTaken')
    BY <2>1, <1>2, NothingTaken DEF PortShape
  <2>3. AnswersAreOwn'
    <3>1. /\ answer'.how \in {"aborted", "exhausted"}
          /\ answer'.error \in {error("aborted", "never"), error("unknown", "never")}
      BY <1>3 DEF callAborted, callExhausted, answers
    <3> QED
      BY <3>1, ErrorsOfPorts DEF AnswersAreOwn
  <2> QED
    BY <1>1, <1>2, <2>1, <2>2, <2>3 DEF PortShape, PortTypeOK, CallsBegun
<1>4. CASE callAnswered(op)
  <2>1. /\ ItemsOnce' /\ IsFiniteSet(itemsTaken')
        /\ script' \in [Operation -> Seq(AnItem)] /\ taken' \in [Operation -> Seq(AnItem)]
        /\ \A other \in Operation :
                 script'[other] \in Seq(Item(other)) /\ taken'[other] \in Seq(Item(other))
        /\ Head(script[op]) \in Item(op) /\ Item(op) \subseteq AnItem
    BY <1>1, <1>4, TakingKeepsItems DEF callAnswered
  <2>2. UNCHANGED <<running, given>>
    BY <1>4 DEF callAnswered, takes
  <2>3. AnswersAreOwn'
    <3>1. Head(script[op]).signals = 0 /\ Head(script[op]).error \in Scripted
      BY <2>1, <1>4 DEF Item, callAnswered
    <3>2. answer'.how = "scripted" /\ answer'.all /\ answer'.error = Head(script[op]).error
      BY <1>4, <3>1 DEF callAnswered, answers
    <3> QED
      BY <3>1, <3>2, ErrorsOfPorts DEF AnswersAreOwn
  <2> QED
    BY <1>1, <1>2, <2>1, <2>2, <2>3 DEF PortShape, PortTypeOK, CallsBegun
<1>5. CASE callStreams(op)
  <2>1. /\ ItemsOnce' /\ IsFiniteSet(itemsTaken')
        /\ script' \in [Operation -> Seq(AnItem)] /\ taken' \in [Operation -> Seq(AnItem)]
        /\ \A other \in Operation :
                 script'[other] \in Seq(Item(other)) /\ taken'[other] \in Seq(Item(other))
        /\ Head(script[op]) \in Item(op) /\ Item(op) \subseteq AnItem
    BY <1>1, <1>5, TakingKeepsItems DEF callStreams
  <2> DEFINE new == [op |-> op, item |-> Head(script[op]), sent |-> 0,
                     aborted |-> FALSE, inSink |-> FALSE]
  <2>2. UNCHANGED <<answer, given>> /\ running' = Append(running, new) /\ op \in Streaming
    BY <1>5 DEF callStreams, takes
  <2>3. new \in CallUnderWay /\ new.item \in Item(new.op) /\ 0 \in 0..new.item.signals
    BY <2>1, <2>2 DEF CallUnderWay, AnItem
  <2>4. running \in Seq(CallUnderWay) /\ (running = <<>> \/ running[Len(running)].inSink)
    BY <1>5 DEF callStreams, recordCall, testRuns, Last, PortShape
  <2> HIDE DEF new
  <2>5. running' \in Seq(CallUnderWay) /\ Len(running') = Len(running) + 1
        /\ running'[Len(running) + 1] = new
        /\ \A i \in DOMAIN running : running'[i] = running[i] /\ i \in 1..Len(running)
        /\ DOMAIN running' = 1..(Len(running) + 1)
    BY <2>2, <2>3, <2>4
  <2>6. ASSUME NEW i \in DOMAIN running'
        PROVE  /\ running'[i].op \in Streaming /\ running'[i].item \in Item(running'[i].op)
               /\ running'[i].sent \in 0..running'[i].item.signals
               /\ {running'[i].aborted, running'[i].inSink} \subseteq BOOLEAN
    <3>1. CASE i \in DOMAIN running
      BY <3>1, <2>5 DEF PortTypeOK
    <3>2. CASE i = Len(running) + 1
      <4>1. running'[i] = new /\ new.sent = 0
        BY <3>2, <2>5 DEF new
      <4> QED
        BY <4>1, <2>2, <2>3 DEF new
    <3> QED
      BY <3>1, <3>2, <2>5, <2>4
  <2>7. CallsBegun'
    <3> SUFFICES ASSUME NEW i \in 1..(Len(running) + 1)
                 PROVE  /\ running'[i].aborted \/ running'[i].inSink => running'[i].sent > 0
                        /\ i < Len(running') => running'[i].inSink
      BY <2>5 DEF CallsBegun
    <3>1. CASE i \in DOMAIN running
      BY <3>1, <2>4, <2>5 DEF CallsBegun
    <3>2. CASE i = Len(running) + 1
      BY <3>2, <2>5, <2>4 DEF new
    <3> QED
      BY <3>1, <3>2, <2>5, <2>4
  <2>8. PortShape' /\ PortTypeOK'
    BY <1>1, <1>2, <2>1, <2>2, <2>5, <2>6 DEF PortShape, PortTypeOK
  <2>9. AnswersAreOwn'
    BY <2>2 DEF AnswersAreOwn
  <2> QED
    BY <2>1, <2>7, <2>8, <2>9
<1> QED
  BY <1>3, <1>4, <1>5

LEMMA ScriptsAreItems ==
    ASSUME NEW op \in Operation, NEW items \in Scripts(op)
    PROVE  items \in Seq(Item(op))
<1>1. CASE items = <<>>
  BY <1>1
<1>2. CASE items # <<>>
  <2>1. PICK i \in Item(op), j \in Item(op) : items = <<i, j>>
    BY <1>2 DEF Scripts
  <2> QED
    BY <2>1
<1> QED
  BY <1>1, <1>2

LEMMA ScriptingKeepsInv ==
    ASSUME PortInv,
           resetDouble \/ \E op \in Operation : \E items \in Scripts(op) : setScript(op, items)
    PROVE  PortInv'
<1> USE DEF PortInv
<1>1. port' = port /\ Operation' = Operation
  BY DEF Operation, resetDouble, setScript
<1>2. ASSUME NEW op \in Operation, NEW items \in Scripts(op), setScript(op, items)
      PROVE  PortInv'
  <2>1. items \in Seq(Item(op)) /\ items \in Seq(AnItem) /\ <<>> \in Seq(Item(op)) /\ <<>> \in Seq(AnItem)
    BY ScriptsAreItems, OperationsOf DEF PortShape
  <2>2. /\ script' = [script EXCEPT ![op] = items] /\ given' = [given EXCEPT ![op] = items]
        /\ taken' = [taken EXCEPT ![op] = <<>>]
        /\ UNCHANGED <<calls, running, answer>>
    BY <1>2 DEF setScript
  <2>3. PortShape' /\ PortTypeOK'
    BY <1>1, <2>1, <2>2 DEF PortShape, PortTypeOK
  <2>4. \A other \in Operation : taken'[other] \o script'[other] = given'[other]
    <3>1. <<>> \o items = items
      BY <2>1
    <3> QED
      BY <2>2, <3>1 DEF ItemsOnce, PortShape
  <2>5. itemsTaken' \subseteq itemsTaken
    <3>1. \A other \in Operation : DOMAIN taken'[other] \subseteq DOMAIN taken[other]
      BY <2>2 DEF PortShape
    <3> QED
      BY <1>1, <3>1 DEF itemsTaken
  <2>6. IsFiniteSet(itemsTaken') /\ Cardinality(itemsTaken') <= calls'
    <3>1. /\ IsFiniteSet(itemsTaken') /\ Cardinality(itemsTaken') <= Cardinality(itemsTaken)
      BY <2>5, FS_Subset
    <3>2. Cardinality(itemsTaken) \in Nat /\ Cardinality(itemsTaken') \in Nat
      BY <3>1, FS_CardinalityType
    <3> QED
      BY <2>2, <3>1, <3>2 DEF ItemsOnce, PortShape
  <2> QED
    BY <1>1, <2>2, <2>3, <2>4, <2>6 DEF ItemsOnce, CallsBegun, AnswersAreOwn
<1>3. CASE resetDouble
  <2>1. /\ script' = [op \in Operation |-> <<>>] /\ given' = [op \in Operation |-> <<>>]
        /\ taken' = [op \in Operation |-> <<>>]
        /\ UNCHANGED <<running, answer>> /\ calls' = 0
    BY <1>3 DEF resetDouble
  <2>2. PortShape' /\ PortTypeOK'
    BY <1>1, <2>1, PortBounds DEF PortShape, PortTypeOK
  <2>3. itemsTaken' = {}
    BY <1>1, <2>1 DEF itemsTaken
  <2> QED
    BY <1>1, <2>1, <2>2, <2>3, FS_EmptySet DEF ItemsOnce, CallsBegun, AnswersAreOwn
<1> QED
  BY <1>2, <1>3

LEMMA WithoutLast ==
    ASSUME NEW S, NEW s \in Seq(S), Len(s) > 0
    PROVE  /\ SubSeq(s, 1, Len(s) - 1) \in Seq(S)
           /\ Len(SubSeq(s, 1, Len(s) - 1)) = Len(s) - 1
           /\ \A i \in 1..(Len(s) - 1) : SubSeq(s, 1, Len(s) - 1)[i] = s[i]
<1> DEFINE n == Len(s) - 1
<1>1. n \in Nat /\ \A i \in 1..n : s[i] \in S
  OBVIOUS
<1> HIDE DEF n
<1>2. /\ SubSeq(s, 1, n) \in Seq(S) /\ Len(SubSeq(s, 1, n)) = IF 1 <= n THEN n - 1 + 1 ELSE 0
      /\ \A i \in 1..(n - 1 + 1) : SubSeq(s, 1, n)[i] = s[1 + i - 1]
  BY <1>1, SubSeqProperties
<1>3. n - 1 + 1 = n /\ \A i \in 1..n : 1 + i - 1 = i
  BY <1>1
<1>4. Len(SubSeq(s, 1, n)) = n
  BY <1>1, <1>2
<1>5. \A i \in 1..n : SubSeq(s, 1, n)[i] = s[i]
  <2> TAKE i \in 1..n
  <2>1. i \in Int /\ 1 + i - 1 = i /\ i \in 1..(n - 1 + 1)
    BY <1>1
  <2> QED
    BY <1>2, <2>1
<1> QED
  BY <1>2, <1>4, <1>5 DEF n

\* The innermost call goes on: it is put back changed, or taken off.
LEMMA InnermostEnds ==
    ASSUME PortInv, running # <<>>, NEW how, NEW e, ends(how, e)
    PROVE  PortShape' /\ PortTypeOK' /\ CallsBegun' /\ ItemsOnce' /\ IsFiniteSet(itemsTaken')
<1>1. UNCHANGED <<port, calls, script, given, taken>> /\ Operation' = Operation
  BY DEF ends, Operation
<1>2. ItemsOnce' /\ IsFiniteSet(itemsTaken')
  BY <1>1, NothingTaken DEF PortInv, PortShape
<1>3. running \in Seq(CallUnderWay) /\ Len(running) \in Nat \ {0}
      /\ running' = SubSeq(running, 1, Len(running) - 1)
  BY DEF PortInv, PortShape, ends, Front
<1>4. /\ running' \in Seq(CallUnderWay) /\ Len(running') = Len(running) - 1
      /\ \A i \in DOMAIN running' : i \in DOMAIN running /\ running'[i] = running[i]
                                    /\ i < Len(running)
  <2>1. running' \in Seq(CallUnderWay) /\ Len(running') = Len(running) - 1
        /\ \A i \in 1..(Len(running) - 1) : running'[i] = running[i]
    BY <1>3, WithoutLast
  <2> QED
    BY <1>3, <2>1
<1> QED
  BY <1>1, <1>2, <1>4 DEF PortInv, PortShape, PortTypeOK, CallsBegun

LEMMA InnermostChanges ==
    ASSUME PortInv, NEW i \in DOMAIN running, NEW call \in CallUnderWay,
           running' = [running EXCEPT ![i] = call],
           call.op = running[i].op, call.item = running[i].item,
           call.sent \in 0..call.item.signals,
           call.aborted \/ call.inSink => call.sent > 0,
           i < Len(running) => call.inSink,
           UNCHANGED <<port, calls, script, answer, given, taken>>
    PROVE  PortInv'
<1>1. Operation' = Operation
  BY DEF Operation
<1>2. ItemsOnce' /\ IsFiniteSet(itemsTaken')
  BY NothingTaken DEF PortInv, PortShape
<1>3. /\ running \in Seq(CallUnderWay) /\ running' \in Seq(CallUnderWay)
      /\ Len(running') = Len(running) /\ DOMAIN running' = DOMAIN running
      /\ running'[i] = call
      /\ \A j \in DOMAIN running : j # i => running'[j] = running[j]
  BY DEF PortInv, PortShape
<1>4. call.aborted \in BOOLEAN /\ call.inSink \in BOOLEAN
  BY DEF CallUnderWay
<1>5. PortTypeOK'
  BY <1>1, <1>3, <1>4 DEF PortInv, PortTypeOK
<1>6. CallsBegun'
  BY <1>3 DEF PortInv, CallsBegun
<1> QED
  BY <1>1, <1>2, <1>3, <1>5, <1>6 DEF PortInv, PortShape, AnswersAreOwn

LEMMA StackKeepsInv ==
    ASSUME PortInv,
           \/ \E i \in 1..MaxNesting : abort(i)
           \/ sendSignal \/ stopAborted \/ finish \/ accept \/ refuse
    PROVE  PortInv'
<1> DEFINE last == Len(running)
<1>1. running \in Seq(CallUnderWay) /\ last \in Nat
  BY DEF PortInv, PortShape
<1>2. \A i \in DOMAIN running :
         /\ running[i] \in CallUnderWay /\ running[i].sent \in Nat
         /\ running[i].item.signals \in Nat /\ running[i].sent <= running[i].item.signals
         /\ running[i].item.error \in Scripted
         /\ running[i].inSink \in BOOLEAN /\ running[i].aborted \in BOOLEAN
         /\ running[i].aborted \/ running[i].inSink => running[i].sent > 0
         /\ i < last => running[i].inSink
  <2> SUFFICES ASSUME NEW i \in DOMAIN running
               PROVE  /\ running[i] \in CallUnderWay /\ running[i].sent \in Nat
                      /\ running[i].item.signals \in Nat
                      /\ running[i].sent <= running[i].item.signals
                      /\ running[i].item.error \in Scripted
                      /\ running[i].inSink \in BOOLEAN /\ running[i].aborted \in BOOLEAN
                      /\ running[i].aborted \/ running[i].inSink => running[i].sent > 0
                      /\ i < last => running[i].inSink
    OBVIOUS
  <2>1. running[i] \in CallUnderWay
    BY <1>1
  <2>2. running[i].item \in AnItem /\ running[i].sent \in Nat
        /\ running[i].inSink \in BOOLEAN /\ running[i].aborted \in BOOLEAN
    BY <2>1 DEF CallUnderWay
  <2>3. running[i].item.signals \in Nat /\ running[i].item.error \in Scripted
    BY <2>2 DEF AnItem
  <2>4. running[i].sent <= running[i].item.signals
    BY <2>2, <2>3 DEF PortInv, PortTypeOK
  <2> QED
    BY <2>1, <2>2, <2>3, <2>4 DEF PortInv, CallsBegun
<1>3. running # <<>> => last \in DOMAIN running /\ current = running[last]
  BY <1>1 DEF current, Last
<1> HIDE DEF last
<1>4. ASSUME NEW i \in 1..MaxNesting, abort(i) PROVE PortInv'
  <2>1. i \in DOMAIN running /\ running[last].inSink
    BY <1>1, <1>4 DEF abort, testRuns, Last, last
  <2>2. running[i].inSink
    BY <1>1, <1>2, <2>1 DEF last
  <2> DEFINE call == [running[i] EXCEPT !.aborted = TRUE]
  <2>3. /\ call \in CallUnderWay /\ call.op = running[i].op /\ call.item = running[i].item
        /\ call.sent = running[i].sent /\ call.inSink = running[i].inSink
    BY <1>2, <2>1 DEF CallUnderWay
  <2>4. /\ running' = [running EXCEPT ![i] = call]
        /\ UNCHANGED <<port, calls, script, answer, given, taken>>
    BY <1>4 DEF abort
  <2>5. call.sent > 0 /\ call.sent \in 0..call.item.signals /\ call.inSink
    BY <1>2, <2>1, <2>2, <2>3
  <2> HIDE DEF call
  <2> QED
    BY <2>1, <2>3, <2>4, <2>5, InnermostChanges
<1>5. CASE sendSignal
  <2>1. last \in DOMAIN running /\ running[last].sent < running[last].item.signals
    BY <1>3, <1>5 DEF sendSignal
  <2> DEFINE call == [running[last] EXCEPT !.sent = @ + 1, !.inSink = TRUE]
  <2>2. /\ call \in CallUnderWay /\ call.op = running[last].op /\ call.item = running[last].item
        /\ call.sent = running[last].sent + 1 /\ call.inSink
    <3>1. running[last].sent + 1 \in Nat /\ running[last] \in CallUnderWay
      BY <1>2, <2>1
    <3> QED
      BY <3>1 DEF CallUnderWay
  <2>3. /\ running' = [running EXCEPT ![last] = call]
        /\ UNCHANGED <<port, calls, script, answer, given, taken>>
    BY <1>1, <1>5, <2>1 DEF sendSignal, last
  <2>4. call.sent > 0 /\ call.sent \in 0..call.item.signals
    BY <1>2, <2>1, <2>2
  <2> HIDE DEF call
  <2> QED
    BY <2>1, <2>2, <2>3, <2>4, InnermostChanges
<1>6. CASE accept
  <2>1. last \in DOMAIN running
    BY <1>3, <1>6 DEF accept
  <2> DEFINE call == [running[last] EXCEPT !.inSink = FALSE]
  <2>2. /\ call \in CallUnderWay /\ call.op = running[last].op /\ call.item = running[last].item
        /\ call.sent = running[last].sent /\ ~call.inSink /\ call.aborted = running[last].aborted
    BY <1>2, <2>1 DEF CallUnderWay
  <2>3. /\ running' = [running EXCEPT ![last] = call]
        /\ UNCHANGED <<port, calls, script, answer, given, taken>>
    BY <1>6 DEF accept, last
  <2>4. call.sent > 0 /\ call.sent \in 0..call.item.signals /\ ~(last < Len(running))
    BY <1>1, <1>2, <1>6, <2>1, <2>2, <1>3 DEF accept, last
  <2> HIDE DEF call
  <2> QED
    BY <2>1, <2>2, <2>3, <2>4, InnermostChanges
<1>7. CASE stopAborted \/ finish \/ refuse
  <2>1. running # <<>> /\ last \in DOMAIN running /\ current = running[last]
    BY <1>3, <1>7 DEF stopAborted, finish, refuse
  <2>2. PortShape' /\ PortTypeOK' /\ CallsBegun' /\ ItemsOnce' /\ IsFiniteSet(itemsTaken')
    BY <1>7, <2>1, InnermostEnds DEF stopAborted, finish, refuse
  <2>3. AnswersAreOwn'
    <3>1. CASE stopAborted
      <4>1. /\ answer'.how = "stopped" /\ answer'.begun /\ ~answer'.all
            /\ answer'.error = error("aborted", "never")
        BY <1>2, <2>1, <3>1 DEF stopAborted, ends, answers
      <4> QED
        BY <4>1, ErrorsOfPorts DEF AnswersAreOwn
    <3>2. CASE finish
      <4>1. answer'.how = "scripted" /\ answer'.all /\ answer'.error \in Scripted
        BY <1>2, <2>1, <3>2 DEF finish, ends, answers
      <4> QED
        BY <4>1, ErrorsOfPorts DEF AnswersAreOwn
    <3>3. CASE refuse
      <4>1. answer'.how = "refused" /\ answer'.begun /\ answer'.error = sinkError
        BY <1>2, <2>1, <3>3 DEF refuse, ends, answers
      <4> QED
        BY <4>1, ErrorsOfPorts DEF AnswersAreOwn
    <3> QED
      BY <1>7, <3>1, <3>2, <3>3
  <2> QED
    BY <2>2, <2>3 DEF PortInv
<1> QED
  BY <1>4, <1>5, <1>6, <1>7

LEMMA PortStepsKeepInv == PortInv /\ [PortNext]_portVars => PortInv'
<1> SUFFICES ASSUME PortInv, [PortNext]_portVars PROVE PortInv'
  OBVIOUS
<1>1. CASE UNCHANGED portVars
  <2>1. Operation' = Operation /\ ItemsOnce' /\ IsFiniteSet(itemsTaken')
    BY <1>1, NothingTaken DEF portVars, PortInv, PortShape, Operation
  <2> QED
    BY <1>1, <2>1 DEF portVars, PortInv, PortShape, PortTypeOK, CallsBegun, AnswersAreOwn
<1>2. CASE PortNext
  <2>1. CASE \E op \in Operation : callExhausted(op) \/ callAnswered(op) \/ callStreams(op)
    BY <2>1, CallsKeepInv
  <2>2. CASE callAborted
    <3>1. "probe" \in Operation \/ "invoke" \in Operation \/ "verify" \in Operation
      BY DEF PortInv, PortShape, Operation, operations, ProviderPort, ToolPort, VerifierPort
    <3> QED
      BY <2>2, <3>1, CallsKeepInv
  <2>3. CASE resetDouble \/ \E op \in Operation : \E items \in Scripts(op) : setScript(op, items)
    BY <2>3, ScriptingKeepsInv
  <2> QED
    BY <1>2, <2>1, <2>2, <2>3, StackKeepsInv DEF PortNext
<1> QED
  BY <1>1, <1>2

LEMMA PortStarts == PortInit => PortInv
<1> SUFFICES ASSUME PortInit PROVE PortInv
  OBVIOUS
<1>1. PortShape /\ PortTypeOK /\ CallsBegun
  BY PortBounds DEF PortInit, PortShape, PortTypeOK, CallsBegun
<1>2. itemsTaken = {}
  BY DEF PortInit, itemsTaken
<1>3. ItemsOnce /\ IsFiniteSet(itemsTaken)
  BY <1>1, <1>2, FS_EmptySet DEF PortInit, ItemsOnce
<1>4. AnswersAreOwn
  BY ErrorsOfPorts DEF PortInit, NoAnswer, AnswersAreOwn
<1> QED
  BY <1>1, <1>3, <1>4 DEF PortInv

(***************************************************************************)
(* Calls of the doubles may nest through their sinks: each item of a       *)
(* script still answers one call, in order and whole, or is stopped or     *)
(* refused after it began, with an error of the ports.                     *)
(***************************************************************************)
THEOREM AnswersStayOwn == PortSpec => [](PortTypeOK /\ ItemsOnce /\ AnswersAreOwn)
<1>1. PortInv => PortTypeOK /\ ItemsOnce /\ AnswersAreOwn
  BY DEF PortInv
<1> QED
  BY <1>1, PortStarts, PortStepsKeepInv, PTL DEF PortSpec

-----------------------------------------------------------------------------
(***************************************************************************)
(* The levels of memory.  The entries a level keeps or promotes are taken  *)
(* out of a list by a recursive function, which exists because it is a     *)
(* step taken a number of times.  An entry's reads are at least the        *)
(* accesses it has had at its level.                                       *)
(***************************************************************************)
\* A step function taken n times from a start.
iterates(g, V, start, F, n) ==
    /\ g \in [0..n -> V] /\ g[0] = start
    /\ \A i \in 1..n : g[i] = F[<<i, g[i - 1]>>]

LEMMA IteratesExist ==
    ASSUME NEW V, NEW start \in V, NEW n \in Nat, NEW F \in [(1..n) \X V -> V]
    PROVE  \E g : iterates(g, V, start, F, n)
<1> DEFINE Bad == {k \in 0..n : ~ \E g : iterates(g, V, start, F, k)}
<1> SUFFICES ASSUME Bad # {} PROVE FALSE
  OBVIOUS
<1>1. PICK k \in Bad : \A j \in Bad : k <= j
  <2>1. Bad \in SUBSET Nat
    OBVIOUS
  <2> HIDE DEF Bad
  <2> QED
    BY <2>1, LeastExists
<1>2. CASE k = 0
  <2>1. iterates([i \in 0..0 |-> start], V, start, F, 0)
    BY DEF iterates
  <2> QED
    BY <1>2, <2>1
<1>3. CASE k # 0
  <2>1. k \in 1..n /\ k - 1 \in 0..n /\ k - 1 \notin Bad
    BY <1>1, <1>3
  <2>2. PICK f : iterates(f, V, start, F, k - 1)
    BY <2>1
  <2>3. f[k - 1] \in V /\ F[<<k, f[k - 1]>>] \in V
    BY <2>1, <2>2 DEF iterates
  <2> DEFINE g == [i \in 0..k |-> IF i = k THEN F[<<k, f[k - 1]>>] ELSE f[i]]
  <2>4. g \in [0..k -> V] /\ g[0] = start
    BY <2>1, <2>2, <2>3 DEF iterates
  <2>5. \A i \in 1..k : g[i] = F[<<i, g[i - 1]>>]
    <3> TAKE i \in 1..k
    <3>1. CASE i = k
      <4>1. g[k] = F[<<k, f[k - 1]>>] /\ g[k - 1] = f[k - 1]
        BY <2>1
      <4> QED
        BY <3>1, <4>1
    <3>2. CASE i # k
      <4>1. i \in 1..(k - 1) /\ i - 1 \in 0..(k - 1) /\ i - 1 # k
        BY <2>1, <3>2
      <4> QED
        BY <2>2, <2>1, <4>1 DEF iterates
    <3> QED
      BY <3>1, <3>2
  <2>6. iterates(g, V, start, F, k)
    BY <2>4, <2>5 DEF iterates
  <2> QED
    BY <2>6
<1> QED
  BY <1>2, <1>3

\* What holds at the start and is kept by each step of n holds at its end.
LEMMA UpTo ==
    ASSUME NEW n \in Nat, NEW T, 0 \in T, \A i \in 1..n : i - 1 \in T => i \in T
    PROVE  0..n \subseteq T
<1> DEFINE Bad == (0..n) \ T
<1> SUFFICES ASSUME Bad # {} PROVE FALSE
  OBVIOUS
<1>1. PICK k \in Bad : \A j \in Bad : k <= j
  <2>1. Bad \in SUBSET Nat
    OBVIOUS
  <2> HIDE DEF Bad
  <2> QED
    BY <2>1, LeastExists
<1>2. k \in 1..n /\ k - 1 \in 0..n /\ k - 1 \notin Bad
  BY <1>1
<1> QED
  BY <1>1, <1>2

\* Entries taken at places are entries of the list at those places.
takesUpTo(g, list, places) ==
    g = [i \in 0..Len(list) |->
            IF i = 0 THEN <<>>
            ELSE IF i \in places THEN Append(g[i - 1], list[i]) ELSE g[i - 1]]

LEMMA TakesExists ==
    ASSUME NEW S, NEW list \in Seq(S), NEW places
    PROVE  \E g : takesUpTo(g, list, places)
<1> DEFINE n == Len(list)
           V == Seq(S)
           F == [p \in (1..n) \X V |->
                    IF p[1] \in places THEN Append(p[2], list[p[1]]) ELSE p[2]]
<1>1. n \in Nat /\ <<>> \in V /\ \A i \in 1..n : list[i] \in S
  BY LenProperties
<1>2. F \in [(1..n) \X V -> V]
  <2> SUFFICES ASSUME NEW p \in (1..n) \X V
               PROVE  (IF p[1] \in places THEN Append(p[2], list[p[1]]) ELSE p[2]) \in V
    OBVIOUS
  <2>1. p[1] \in 1..n /\ p[2] \in Seq(S)
    OBVIOUS
  <2>2. list[p[1]] \in S
    BY <2>1, <1>1
  <2>3. Append(p[2], list[p[1]]) \in Seq(S)
    BY <2>1, <2>2, OneMore
  <2> QED
    BY <2>1, <2>3
<1>3. \A i \in 1..n : \A v \in V :
         F[<<i, v>>] = IF i \in places THEN Append(v, list[i]) ELSE v
  OBVIOUS
<1> HIDE DEF F, V
<1>4. PICK g : iterates(g, V, <<>>, F, n)
  <2> HIDE DEF n
  <2> QED
    BY <1>1, <1>2, IteratesExist
<1>5. ASSUME NEW i \in 0..n
      PROVE  g[i] = IF i = 0 THEN <<>>
                    ELSE IF i \in places THEN Append(g[i - 1], list[i]) ELSE g[i - 1]
  <2>1. CASE i = 0
    BY <1>4, <2>1 DEF iterates
  <2>2. CASE i # 0
    <3>1. i \in 1..n /\ i - 1 \in 0..n
      BY <1>1, <2>2
    <3>2. g[i - 1] \in V /\ g[i] = F[<<i, g[i - 1]>>]
      BY <1>4, <3>1 DEF iterates
    <3> QED
      BY <1>3, <2>2, <3>1, <3>2
  <2> QED
    BY <2>1, <2>2
<1>6. g = [i \in 0..n |-> g[i]]
  BY <1>4 DEF iterates
<1>7. takesUpTo(g, list, places)
  BY <1>5, <1>6 DEF takesUpTo
<1> QED
  BY <1>7

LEMMA EntriesAtPlaces ==
    ASSUME NEW S, NEW list \in Seq(S), NEW places
    PROVE  /\ entriesAt(list, places) \in Seq(S)
           /\ Len(entriesAt(list, places)) <= Len(list)
           /\ \A k \in DOMAIN entriesAt(list, places) :
                 \E j \in DOMAIN list :
                    j \in places /\ entriesAt(list, places)[k] = list[j]
<1>1. PICK g : takesUpTo(g, list, places) /\ entriesAt(list, places) = g[Len(list)]
  <2> DEFINE built == CHOOSE g : takesUpTo(g, list, places)
  <2>1. takesUpTo(built, list, places)
    BY TakesExists
  <2>2. entriesAt(list, places) = built[Len(list)]
    BY DEF entriesAt, takesUpTo
  <2> HIDE DEF built
  <2> QED
    BY <2>1, <2>2
<1>2. PICK n \in Nat : n = Len(list) /\ DOMAIN list = 1..n
  BY LenProperties
<1>3. /\ g[0] = <<>>
      /\ \A i \in 1..n : g[i] = IF i \in places THEN Append(g[i - 1], list[i]) ELSE g[i - 1]
  <2>1. \A i \in 0..n : g[i] = IF i = 0 THEN <<>>
            ELSE IF i \in places THEN Append(g[i - 1], list[i]) ELSE g[i - 1]
    BY <1>1, <1>2 DEF takesUpTo
  <2> QED
    BY <2>1
<1> DEFINE T == {i \in 0..n : /\ g[i] \in Seq(S) /\ Len(g[i]) <= i
                              /\ \A k \in DOMAIN g[i] : \E j \in 1..n :
                                    j \in places /\ g[i][k] = list[j]}
<1>4. 0 \in T
  <2>1. <<>> \in Seq(S) /\ Len(<<>>) = 0 /\ DOMAIN <<>> = {}
    OBVIOUS
  <2>2. g[0] \in Seq(S) /\ Len(g[0]) <= 0 /\ \A k \in DOMAIN g[0] : FALSE
    BY <1>3, <2>1
  <2>3. 0 \in 0..n
    BY <1>2
  <2> QED
    BY <2>2, <2>3
<1>5. ASSUME NEW i \in 1..n, i - 1 \in T PROVE i \in T
  <2>1. list[i] \in S
    BY <1>2
  <2>2. CASE i \notin places
    BY <1>3, <1>5, <2>2
  <2>3. CASE i \in places
    <3>1. g[i] = Append(g[i - 1], list[i])
      BY <1>3, <2>3
    <3>2. /\ g[i] \in Seq(S) /\ Len(g[i]) = Len(g[i - 1]) + 1
          /\ DOMAIN g[i] = 1..(Len(g[i - 1]) + 1) /\ DOMAIN g[i - 1] = 1..Len(g[i - 1])
          /\ \A k \in 1..Len(g[i - 1]) : g[i][k] = g[i - 1][k]
          /\ g[i][Len(g[i - 1]) + 1] = list[i] /\ Len(g[i - 1]) \in Nat
      BY <1>5, <2>1, <3>1, OneMore
    <3>3. ASSUME NEW k \in DOMAIN g[i]
          PROVE  \E j \in 1..n : j \in places /\ g[i][k] = list[j]
      <4>1. CASE k = Len(g[i - 1]) + 1
        BY <3>2, <2>3, <4>1
      <4>2. CASE k \in 1..Len(g[i - 1])
        BY <1>5, <3>2, <4>2
      <4> QED
        BY <3>2, <4>1, <4>2
    <3>4. Len(g[i]) <= i
      BY <1>5, <3>2
    <3>5. i \in 0..n /\ g[i] \in Seq(S)
      BY <3>2
    <3> QED
      BY <3>3, <3>4, <3>5
  <2> QED
    BY <2>2, <2>3
<1>6. n \in T
  <2> HIDE DEF T
  <2>1. 0..n \subseteq T
    BY <1>4, <1>5, UpTo
  <2> QED
    BY <2>1
<1> QED
  BY <1>1, <1>2, <1>6

InWorking == [entry : Entry, lastAccessed : Nat, expired : BOOLEAN]

\* The entry that working memory evicts is one it has.
LEMMA OldestIsThere ==
    ASSUME NEW list \in Seq(InWorking),
           list # <<>>
    PROVE  \E i \in DOMAIN list : \A j \in DOMAIN list :
              \/ list[i].lastAccessed < list[j].lastAccessed
              \/ list[i].lastAccessed = list[j].lastAccessed /\ i <= j
<1>1. DOMAIN list = 1..Len(list) /\ Len(list) \in Nat \ {0}
  BY EmptySeq, LenProperties
<1> DEFINE n == Len(list)
<1>2. \A i \in DOMAIN list : list[i].lastAccessed \in Nat
  <2> TAKE i \in DOMAIN list
  <2>1. list[i] \in InWorking
    OBVIOUS
  <2> QED
    BY <2>1 DEF InWorking
<1> DEFINE Times == {list[i].lastAccessed : i \in DOMAIN list}
<1>3. PICK t \in Times : \A other \in Times : t <= other
  <2>1. Times \in SUBSET Nat /\ Times # {}
    BY <1>1, <1>2
  <2> HIDE DEF Times
  <2> QED
    BY <2>1, LeastExists
<1> DEFINE Then == {i \in DOMAIN list : list[i].lastAccessed = t}
<1>4. PICK i \in Then : \A other \in Then : i <= other
  <2>1. Then \in SUBSET Nat /\ Then # {}
    BY <1>1, <1>3
  <2> HIDE DEF Then
  <2> QED
    BY <2>1, LeastExists
<1>5. i \in DOMAIN list /\ list[i].lastAccessed = t
  BY <1>4
<1>6. ASSUME NEW j \in DOMAIN list
      PROVE  \/ list[i].lastAccessed < list[j].lastAccessed
             \/ list[i].lastAccessed = list[j].lastAccessed /\ i <= j
  <2>1. t <= list[j].lastAccessed /\ t \in Nat /\ list[j].lastAccessed \in Nat
    BY <1>2, <1>3
  <2>2. CASE list[j].lastAccessed = t
    BY <1>4, <1>5, <2>2
  <2>3. CASE list[j].lastAccessed # t
    BY <1>5, <2>1, <2>3
  <2> QED
    BY <2>2, <2>3
<1> QED
  BY <1>5, <1>6

\* An entry's reads are at least its accesses; a copy has had three more.
earnedInProject(e) ==
    /\ e.reads >= e.accessCount
    /\ e.promoted => e.reads >= 3 + e.accessCount
    /\ (e.status = "archived") = (e.accessCount > archiveOnAccessThreshold)

earnedByPolicy(e) == e.promoted => e.tagged /\ e.reads >= 5

WorkingOK(w) ==
    /\ w \in Seq(InWorking) /\ Len(w) <= workingMaxEntries
    /\ \A i \in DOMAIN w : /\ w[i].lastAccessed <= instant
                           /\ w[i].entry.reads >= w[i].entry.accessCount

ProjectOK(p) == p \in Seq(Entry) /\ \A i \in DOMAIN p : earnedInProject(p[i])
PoliciesOK(p) == p \in Seq(Entry) /\ \A i \in DOMAIN p : earnedByPolicy(p[i])
PatternsOK(p) == p \in Seq(Entry) /\ \A i \in DOMAIN p : ~p[i].promoted

HierarchyInv ==
    /\ instant \in 0..MaxInstant /\ instant \in Nat
    /\ WorkingOK(working) /\ ProjectOK(project)
    /\ PoliciesOK(institutional) /\ PatternsOK(global)

LEMMA HierarchyInvHolds == HierarchyInv => HierarchyTypeOK /\ PromotionsEarned
<1> SUFFICES ASSUME HierarchyInv PROVE HierarchyTypeOK /\ PromotionsEarned
  OBVIOUS
<1>1. \A i \in DOMAIN working :
         /\ working[i].entry \in Entry
         /\ working[i].lastAccessed \in 0..instant /\ working[i].expired \in BOOLEAN
  <2> TAKE i \in DOMAIN working
  <2>1. working[i] \in InWorking
    BY DEF WorkingOK, HierarchyInv
  <2> QED
    BY <2>1 DEF InWorking, WorkingOK, HierarchyInv
<1>2. HierarchyTypeOK
  BY <1>1 DEF HierarchyInv, WorkingOK, ProjectOK, PoliciesOK, PatternsOK, HierarchyTypeOK
<1>3. PromotionsEarned
  BY DEF HierarchyInv, ProjectOK, PoliciesOK, PatternsOK, PromotionsEarned, earnedInProject,
         earnedByPolicy
<1> QED
  BY <1>2, <1>3

LEMMA NewIsEarned ==
    ASSUME NEW tagged \in BOOLEAN
    PROVE  /\ newEntry(tagged) \in Entry /\ newEntry(tagged).reads = 0
           /\ newEntry(tagged).accessCount = 0 /\ ~newEntry(tagged).promoted
           /\ earnedInProject(newEntry(tagged)) /\ earnedByPolicy(newEntry(tagged))
  BY DEF newEntry, Entry, earnedInProject, earnedByPolicy, archiveOnAccessThreshold

LEMMA ProjectGrows ==
    ASSUME NEW p, ProjectOK(p), NEW e \in Entry, earnedInProject(e)
    PROVE  ProjectOK(Append(p, e))
  BY OneMore DEF ProjectOK

LEMMA PoliciesGrow ==
    ASSUME NEW p, PoliciesOK(p), NEW e \in Entry, earnedByPolicy(e)
    PROVE  PoliciesOK(Append(p, e))
  BY OneMore DEF PoliciesOK

LEMMA PatternsGrow ==
    ASSUME NEW p, PatternsOK(p), NEW e \in Entry, ~e.promoted
    PROVE  PatternsOK(Append(p, e))
  BY OneMore DEF PatternsOK

LEMMA WorkingShrinks ==
    ASSUME WorkingOK(working), NEW i \in DOMAIN working
    PROVE  WorkingOK(RemoveAt(working, i)) /\ Len(RemoveAt(working, i)) < workingMaxEntries
<1>1. /\ RemoveAt(working, i) \in Seq(InWorking)
      /\ Len(RemoveAt(working, i)) = Len(working) - 1
      /\ DOMAIN RemoveAt(working, i) = 1..(Len(working) - 1) /\ Len(working) \in Nat
      /\ DOMAIN working = 1..Len(working)
      /\ \A j \in 1..(Len(working) - 1) :
            RemoveAt(working, i)[j] = IF j < i THEN working[j] ELSE working[j + 1]
  BY OneLess, LenProperties DEF WorkingOK
<1>2. ASSUME NEW j \in 1..(Len(working) - 1)
      PROVE  \E k \in DOMAIN working : RemoveAt(working, i)[j] = working[k]
  <2>1. j \in 1..Len(working) /\ j + 1 \in 1..Len(working)
    BY <1>1
  <2> QED
    BY <1>1, <2>1
<1> QED
  BY <1>1, <1>2, WorkingMaxAssumption DEF WorkingOK

LEMMA ProjectShrinks ==
    ASSUME ProjectOK(project), NEW i \in DOMAIN project
    PROVE  ProjectOK(RemoveAt(project, i))
<1>1. /\ RemoveAt(project, i) \in Seq(Entry)
      /\ DOMAIN RemoveAt(project, i) = 1..(Len(project) - 1) /\ Len(project) \in Nat
      /\ DOMAIN project = 1..Len(project)
      /\ \A j \in 1..(Len(project) - 1) :
            RemoveAt(project, i)[j] = IF j < i THEN project[j] ELSE project[j + 1]
  BY OneLess, LenProperties DEF ProjectOK
<1>2. ASSUME NEW j \in 1..(Len(project) - 1)
      PROVE  \E k \in DOMAIN project : RemoveAt(project, i)[j] = project[k]
  <2>1. j \in 1..Len(project) /\ j + 1 \in 1..Len(project)
    BY <1>1
  <2> QED
    BY <1>1, <2>1
<1> QED
  BY <1>1, <1>2 DEF ProjectOK

LEMMA StoringKeepsHierarchy ==
    ASSUME HierarchyInv, NEW tagged \in BOOLEAN,
           storeWorking(tagged) \/ storeProject(tagged) \/ storePolicy(tagged)
           \/ storePattern(tagged)
    PROVE  HierarchyInv'
<1>1. /\ instant \in 0..MaxInstant /\ instant \in Nat
      /\ WorkingOK(working) /\ ProjectOK(project)
      /\ PoliciesOK(institutional) /\ PatternsOK(global)
  BY DEF HierarchyInv
<1>2. instant' = instant
  BY DEF storeWorking, storeProject, storePolicy, storePattern
<1> DEFINE new == [entry |-> newEntry(tagged), lastAccessed |-> instant, expired |-> FALSE]
<1>3. /\ new \in InWorking /\ new.lastAccessed = instant
      /\ new.entry.reads = 0 /\ new.entry.accessCount = 0
  BY <1>1, NewIsEarned DEF InWorking
<1>4. CASE storeWorking(tagged)
  <2>1. PICK room : /\ room = IF Len(working) >= workingMaxEntries THEN evictOldest ELSE working
                    /\ WorkingOK(room) /\ Len(room) < workingMaxEntries
    <3>1. CASE Len(working) >= workingMaxEntries
      <4>1. working # <<>>
        BY <3>1, WorkingMaxAssumption
      <4>2. \E i \in DOMAIN working : evictOldest = RemoveAt(working, i)
        BY <4>1, <1>1, OldestIsThere DEF evictOldest, WorkingOK
      <4> QED
        BY <1>1, <3>1, <4>2, WorkingShrinks
    <3>2. CASE ~(Len(working) >= workingMaxEntries)
      BY <1>1, <3>2, WorkingMaxAssumption DEF WorkingOK
    <3> QED
      BY <3>1, <3>2
  <2>2. working' = Append(room, new)
    BY <1>4, <2>1 DEF storeWorking
  <2> HIDE DEF new
  <2>3. WorkingOK(Append(room, new))
    BY <1>1, <1>3, <2>1, OneMore, WorkingMaxAssumption DEF WorkingOK
  <2>4. WorkingOK(working)'
    BY <1>2, <2>2, <2>3 DEF WorkingOK
  <2> QED
    BY <1>1, <1>2, <1>4, <2>4 DEF HierarchyInv, storeWorking, ProjectOK, PoliciesOK, PatternsOK
<1>5. ASSUME UNCHANGED working PROVE WorkingOK(working)'
  BY <1>1, <1>2, <1>5 DEF WorkingOK
<1>6. CASE storeProject(tagged)
  <2>1. ProjectOK(project')
    BY <1>1, <1>6, NewIsEarned, ProjectGrows DEF storeProject
  <2> QED
    BY <1>1, <1>2, <1>5, <1>6, <2>1 DEF HierarchyInv, storeProject, ProjectOK, PoliciesOK, PatternsOK
<1>7. CASE storePolicy(tagged)
  <2>1. PoliciesOK(institutional')
    BY <1>1, <1>7, NewIsEarned, PoliciesGrow DEF storePolicy
  <2> QED
    BY <1>1, <1>2, <1>5, <1>7, <2>1 DEF HierarchyInv, storePolicy, ProjectOK, PoliciesOK, PatternsOK
<1>8. CASE storePattern(tagged)
  <2>1. PatternsOK(global')
    BY <1>1, <1>8, NewIsEarned, PatternsGrow DEF storePattern
  <2> QED
    BY <1>1, <1>2, <1>5, <1>8, <2>1 DEF HierarchyInv, storePattern, ProjectOK, PoliciesOK, PatternsOK
<1> QED
  BY <1>4, <1>6, <1>7, <1>8

LEMMA AccessCounts ==
    ASSUME NEW e \in Entry
    PROVE  /\ accessed(e) \in Entry /\ accessed(e).reads = e.reads + 1
           /\ accessed(e).accessCount = e.accessCount + 1
           /\ accessed(e).promoted = e.promoted /\ accessed(e).status = e.status
           /\ e.reads \in Nat /\ e.accessCount \in Nat
<1>1. e.reads \in Nat /\ e.accessCount \in Nat
  BY DEF Entry
<1>2. e.reads + 1 \in Nat /\ e.accessCount + 1 \in Nat
  BY <1>1
<1> QED
  BY <1>1, <1>2 DEF accessed, Entry

LEMMA ReadingKeepsHierarchy ==
    ASSUME HierarchyInv, NEW i, getWorking(i) \/ getProject(i)
    PROVE  HierarchyInv'
<1>1. CASE getWorking(i)
  <2>1. i \in DOMAIN working /\ working[i] \in InWorking /\ instant \in Nat
    BY <1>1 DEF getWorking, HierarchyInv, WorkingOK
  <2>2. CASE working' = RemoveAt(working, i)
    <3>1. WorkingOK(RemoveAt(working, i))
      BY <2>1, WorkingShrinks DEF HierarchyInv
    <3> QED
      BY <1>1, <2>2, <3>1 DEF getWorking, HierarchyInv, WorkingOK, ProjectOK, PoliciesOK, PatternsOK
  <2>3. CASE working' = [working EXCEPT ![i].entry = accessed(@), ![i].lastAccessed = instant]
    <3> DEFINE read == [working[i] EXCEPT !.entry = accessed(@), !.lastAccessed = instant]
    <3>1. working[i].entry \in Entry
      BY <2>1 DEF InWorking
    <3>2. /\ accessed(working[i].entry) \in Entry
          /\ accessed(working[i].entry).reads = working[i].entry.reads + 1
          /\ accessed(working[i].entry).accessCount = working[i].entry.accessCount + 1
          /\ working[i].entry.reads \in Nat /\ working[i].entry.accessCount \in Nat
      BY <3>1, AccessCounts
    <3>3. /\ read \in InWorking /\ read.lastAccessed = instant
          /\ read.entry = accessed(working[i].entry)
      BY <2>1, <3>2 DEF InWorking
    <3>4. working' = [working EXCEPT ![i] = read]
      BY <2>1, <2>3
    <3> HIDE DEF read
    <3>5. WorkingOK(working')
      <4>1. working \in Seq(InWorking) /\ Len(working') = Len(working)
            /\ working' \in Seq(InWorking) /\ DOMAIN working' = DOMAIN working
            /\ working'[i] = read /\ \A j \in DOMAIN working : j # i => working'[j] = working[j]
        BY <2>1, <3>3, <3>4 DEF HierarchyInv, WorkingOK
      <4>2. read.lastAccessed <= instant /\ read.entry.reads >= read.entry.accessCount
        BY <2>1, <3>2, <3>3 DEF HierarchyInv, WorkingOK
      <4> QED
        BY <4>1, <4>2 DEF HierarchyInv, WorkingOK
    <3> QED
      BY <1>1, <3>5 DEF getWorking, HierarchyInv, WorkingOK, ProjectOK, PoliciesOK, PatternsOK
  <2> QED
    BY <1>1, <2>2, <2>3 DEF getWorking
<1>2. CASE getProject(i)
  <2> DEFINE old == project[i]
             read == accessed(old)
             new == IF read.accessCount > archiveOnAccessThreshold
                    THEN [read EXCEPT !.status = "archived"] ELSE read
  <2>1. i \in DOMAIN project /\ old \in Entry /\ earnedInProject(old)
    BY <1>2 DEF getProject, HierarchyInv, ProjectOK
  <2>2. /\ old.accessCount \in Nat /\ old.reads \in Nat /\ old.promoted \in BOOLEAN
        /\ old.status \in {"active", "archived"}
    BY <2>1 DEF Entry
  <2>3. /\ read \in Entry /\ read.accessCount = old.accessCount + 1
        /\ read.reads = old.reads + 1 /\ read.promoted = old.promoted
        /\ read.status = old.status
    BY <2>1, AccessCounts
  <2>4. project' = [project EXCEPT ![i] = new]
    BY <1>2 DEF getProject
  <2>5. /\ new \in Entry /\ new.accessCount = old.accessCount + 1
        /\ new.reads = old.reads + 1 /\ new.promoted = old.promoted
        /\ new.status = IF old.accessCount + 1 > archiveOnAccessThreshold
                        THEN "archived" ELSE old.status
    <3> HIDE DEF read, old
    <3> QED
      BY <2>3 DEF Entry
  <2> HIDE DEF new, read
  <2>6. earnedInProject(new)
    <3>1. /\ old.reads >= old.accessCount
          /\ old.promoted => old.reads >= 3 + old.accessCount
          /\ (old.status = "archived") <=> (old.accessCount > 3)
      BY <2>1 DEF earnedInProject, archiveOnAccessThreshold
    <3>2. (new.status = "archived") <=> (new.accessCount > 3)
      BY <2>2, <2>5, <3>1 DEF archiveOnAccessThreshold
    <3>3. new.promoted => new.reads >= 3 + new.accessCount
      BY <2>2, <2>5, <3>1
    <3>4. new.reads >= new.accessCount
      BY <2>2, <2>5, <3>1
    <3> QED
      BY <3>2, <3>3, <3>4 DEF earnedInProject, archiveOnAccessThreshold
  <2>7. ProjectOK(project')
    BY <2>1, <2>4, <2>5, <2>6 DEF HierarchyInv, ProjectOK
  <2> QED
    BY <1>2, <2>7 DEF getProject, HierarchyInv, WorkingOK, ProjectOK, PoliciesOK, PatternsOK
<1> QED
  BY <1>1, <1>2

\* What is left of working memory once the expired entries have gone.
LEMMA UnexpiredAreOK ==
    ASSUME WorkingOK(working)
    PROVE  WorkingOK(unexpired)
<1> DEFINE places == {i \in DOMAIN working : ~working[i].expired}
<1>1. unexpired = entriesAt(working, places) /\ working \in Seq(InWorking)
  BY DEF unexpired, WorkingOK
<1> HIDE DEF places
<1>2. /\ unexpired \in Seq(InWorking) /\ Len(unexpired) <= Len(working)
      /\ \A k \in DOMAIN unexpired : \E j \in DOMAIN working : unexpired[k] = working[j]
  BY <1>1, EntriesAtPlaces
<1>3. Len(unexpired) <= workingMaxEntries
  BY <1>1, <1>2, LenProperties, WorkingMaxAssumption DEF WorkingOK
<1> QED
  BY <1>2, <1>3 DEF WorkingOK

\* The rules that a level's confidence and an entry's reads can meet.
LEMMA WhatQualifies ==
    ASSUME NEW e, NEW own \in {"working", "project"}, NEW r \in promotionRules,
           qualifies(e, own, r)
    PROVE  /\ r.to # "global"
           /\ r.to = "project" => own = "working" /\ e.accessCount >= 3
           /\ r.to = "institutional" =>
                 own = "project" /\ e.accessCount >= 5 /\ e.tagged
  BY DEF promotionRules, rule, qualifies, confidence

LEMMA CopiesAreEarned ==
    ASSUME NEW own \in {"working", "project"}, NEW list \in Seq(Entry),
           \A i \in DOMAIN list : list[i].reads >= list[i].accessCount
    PROVE  /\ ProjectOK(promotedTo("project", list, own))
           /\ PoliciesOK(promotedTo("institutional", list, own))
           /\ PatternsOK(promotedTo("global", list, own))
<1> DEFINE rules(to, e) == {r \in promotionRules : r.to = to /\ qualifies(e, own, r)}
           places(to) == {i \in DOMAIN list : rules(to, list[i]) # {}}
           chosen(to) == entriesAt(list, places(to))
<1>1. ASSUME NEW to
      PROVE  /\ chosen(to) \in Seq(Entry)
             /\ \A k \in DOMAIN chosen(to) : \E j \in DOMAIN list :
                   rules(to, list[j]) # {} /\ chosen(to)[k] = list[j]
             /\ promotedTo(to, list, own) = [i \in DOMAIN chosen(to) |-> copyOf(chosen(to)[i])]
  <2>1. promotedTo(to, list, own) = [i \in DOMAIN chosen(to) |-> copyOf(chosen(to)[i])]
    BY DEF promotedTo
  <2>2. \A j \in places(to) : rules(to, list[j]) # {}
    OBVIOUS
  <2> DEFINE there == places(to)
  <2>3. /\ entriesAt(list, there) \in Seq(Entry)
        /\ \A k \in DOMAIN entriesAt(list, there) : \E j \in DOMAIN list :
              j \in there /\ entriesAt(list, there)[k] = list[j]
    <3> HIDE DEF there
    <3> QED
      BY EntriesAtPlaces
  <2> QED
    BY <2>1, <2>2, <2>3
<1>2. ASSUME NEW e \in Entry
      PROVE  /\ copyOf(e) \in Entry /\ copyOf(e).promoted /\ copyOf(e).reads = e.reads
             /\ copyOf(e).accessCount = 0 /\ copyOf(e).status = "active"
             /\ copyOf(e).tagged = e.tagged
  BY <1>2 DEF copyOf, newEntry, Entry
<1>3. ASSUME NEW to
      PROVE  /\ promotedTo(to, list, own) \in Seq(Entry)
             /\ \A k \in DOMAIN promotedTo(to, list, own) : \E j \in DOMAIN list :
                   /\ rules(to, list[j]) # {}
                   /\ promotedTo(to, list, own)[k] = copyOf(list[j])
  <2>1. /\ chosen(to) \in Seq(Entry) /\ DOMAIN chosen(to) = 1..Len(chosen(to))
        /\ Len(chosen(to)) \in Nat
    <3>1. chosen(to) \in Seq(Entry)
      BY <1>1
    <3> HIDE DEF chosen
    <3> QED
      BY <3>1, LenProperties
  <2>2. \A k \in DOMAIN chosen(to) : copyOf(chosen(to)[k]) \in Entry
    BY <1>2, <2>1
  <2> HIDE DEF chosen, rules
  <2>3. promotedTo(to, list, own) \in Seq(Entry)
    <3>1. PICK n \in Nat : n = Len(chosen(to))
      BY <2>1
    <3>2. promotedTo(to, list, own) = [i \in 1..n |-> copyOf(chosen(to)[i])]
      BY <1>1, <2>1, <3>1
    <3>3. \A i \in 1..n : copyOf(chosen(to)[i]) \in Entry
      BY <2>1, <2>2, <3>1
    <3> QED
      BY <3>2, <3>3
  <2> QED
    BY <1>1, <2>1, <2>3
<1> HIDE DEF chosen, places
<1>4. ASSUME NEW j \in DOMAIN list, rules("project", list[j]) # {}
      PROVE  earnedInProject(copyOf(list[j]))
  <2>1. PICK r \in promotionRules : r.to = "project" /\ qualifies(list[j], own, r)
    BY <1>4
  <2>2. list[j].accessCount >= 3 /\ list[j] \in Entry /\ list[j].reads >= list[j].accessCount
    BY <2>1, WhatQualifies
  <2>3. list[j].reads >= 3
    BY <2>2 DEF Entry
  <2>4. /\ copyOf(list[j]).promoted /\ copyOf(list[j]).reads = list[j].reads
        /\ copyOf(list[j]).accessCount = 0 /\ copyOf(list[j]).status = "active"
        /\ list[j].reads \in Nat
    BY <1>2, <2>2 DEF Entry
  <2>5. /\ copyOf(list[j]).reads >= copyOf(list[j]).accessCount
        /\ copyOf(list[j]).reads >= 3 + copyOf(list[j]).accessCount
        /\ ~(copyOf(list[j]).accessCount > archiveOnAccessThreshold)
    BY <2>3, <2>4 DEF archiveOnAccessThreshold
  <2> QED
    BY <2>4, <2>5 DEF earnedInProject
<1>5. ASSUME NEW j \in DOMAIN list, rules("institutional", list[j]) # {}
      PROVE  earnedByPolicy(copyOf(list[j]))
  <2>1. PICK r \in promotionRules : r.to = "institutional" /\ qualifies(list[j], own, r)
    BY <1>5
  <2>2. /\ list[j].accessCount >= 5 /\ list[j].tagged /\ list[j] \in Entry
        /\ list[j].reads >= list[j].accessCount
    BY <2>1, WhatQualifies
  <2>3. list[j].reads >= 5
    BY <2>2 DEF Entry
  <2> QED
    BY <1>2, <2>2, <2>3 DEF earnedByPolicy
<1>6. \A j \in DOMAIN list : rules("global", list[j]) = {}
  BY WhatQualifies
<1> HIDE DEF rules
<1>7. ProjectOK(promotedTo("project", list, own))
  BY <1>3, <1>4 DEF ProjectOK
<1>8. PoliciesOK(promotedTo("institutional", list, own))
  BY <1>3, <1>5 DEF PoliciesOK
<1>9. PatternsOK(promotedTo("global", list, own))
  BY <1>3, <1>6 DEF PatternsOK
<1> QED
  BY <1>7, <1>8, <1>9

LEMMA Joined ==
    ASSUME NEW S, NEW a \in Seq(S), NEW b \in Seq(S)
    PROVE  /\ a \o b \in Seq(S)
           /\ \A k \in DOMAIN (a \o b) : \/ \E i \in DOMAIN a : (a \o b)[k] = a[i]
                                         \/ \E i \in DOMAIN b : (a \o b)[k] = b[i]
<1>1. PICK m \in Nat, n \in Nat :
         /\ m = Len(a) /\ DOMAIN a = 1..m /\ n = Len(b) /\ DOMAIN b = 1..n
  BY LenProperties
<1>2. /\ a \o b \in Seq(S) /\ DOMAIN (a \o b) = 1..(m + n)
      /\ \A k \in 1..(m + n) : (a \o b)[k] = IF k <= m THEN a[k] ELSE b[k - m]
  BY <1>1, ConcatProperties
<1>3. ASSUME NEW k \in 1..(m + n)
      PROVE  \/ \E i \in DOMAIN a : (a \o b)[k] = a[i]
             \/ \E i \in DOMAIN b : (a \o b)[k] = b[i]
  <2>1. CASE k <= m
    BY <1>1, <1>2, <2>1
  <2>2. CASE ~(k <= m)
    <3>1. k - m \in 1..n
      BY <1>1, <2>2
    <3> QED
      BY <1>1, <1>2, <2>2, <3>1
  <2> QED
    BY <2>1, <2>2
<1> QED
  BY <1>2, <1>3

LEMMA LevelsJoin ==
    /\ \A a, b : ProjectOK(a) /\ ProjectOK(b) => ProjectOK(a \o b)
    /\ \A a, b : PoliciesOK(a) /\ PoliciesOK(b) => PoliciesOK(a \o b)
    /\ \A a, b : PatternsOK(a) /\ PatternsOK(b) => PatternsOK(a \o b)
<1>1. ASSUME NEW a, NEW b, ProjectOK(a), ProjectOK(b) PROVE ProjectOK(a \o b)
  <2>1. /\ a \o b \in Seq(Entry)
        /\ \A k \in DOMAIN (a \o b) : \/ \E i \in DOMAIN a : (a \o b)[k] = a[i]
                                      \/ \E i \in DOMAIN b : (a \o b)[k] = b[i]
    BY <1>1, Joined DEF ProjectOK
  <2> QED
    BY <1>1, <2>1 DEF ProjectOK
<1>2. ASSUME NEW a, NEW b, PoliciesOK(a), PoliciesOK(b) PROVE PoliciesOK(a \o b)
  <2>1. /\ a \o b \in Seq(Entry)
        /\ \A k \in DOMAIN (a \o b) : \/ \E i \in DOMAIN a : (a \o b)[k] = a[i]
                                      \/ \E i \in DOMAIN b : (a \o b)[k] = b[i]
    BY <1>2, Joined DEF PoliciesOK
  <2> QED
    BY <1>2, <2>1 DEF PoliciesOK
<1>3. ASSUME NEW a, NEW b, PatternsOK(a), PatternsOK(b) PROVE PatternsOK(a \o b)
  <2>1. /\ a \o b \in Seq(Entry)
        /\ \A k \in DOMAIN (a \o b) : \/ \E i \in DOMAIN a : (a \o b)[k] = a[i]
                                      \/ \E i \in DOMAIN b : (a \o b)[k] = b[i]
    BY <1>3, Joined DEF PatternsOK
  <2> QED
    BY <1>3, <2>1 DEF PatternsOK
<1> QED
  BY <1>1, <1>2, <1>3

LEMMA PromotingKeepsHierarchy ==
    ASSUME HierarchyInv, evaluatePromotions
    PROVE  HierarchyInv'
<1> DEFINE recent == [i \in DOMAIN unexpired |-> unexpired[i].entry]
           arrivals(to) == promotedTo(to, recent, "working") \o promotedTo(to, project, "project")
<1>1. /\ working' = unexpired /\ project' = project \o arrivals("project")
      /\ institutional' = institutional \o arrivals("institutional")
      /\ global' = global \o arrivals("global") /\ instant' = instant
  BY DEF evaluatePromotions
<1>2. WorkingOK(unexpired)
  BY UnexpiredAreOK DEF HierarchyInv
<1>3. recent \in Seq(Entry) /\ \A i \in DOMAIN recent : recent[i].reads >= recent[i].accessCount
  <2>1. PICK n \in Nat : DOMAIN unexpired = 1..n
    BY <1>2, LenProperties DEF WorkingOK
  <2>2. \A i \in 1..n : unexpired[i].entry \in Entry
    <3> TAKE i \in 1..n
    <3>1. unexpired[i] \in InWorking
      BY <1>2, <2>1 DEF WorkingOK
    <3> QED
      BY <3>1 DEF InWorking
  <2>3. recent = [i \in 1..n |-> unexpired[i].entry]
    BY <2>1
  <2>4. recent \in Seq(Entry)
    BY <2>2, <2>3
  <2> QED
    BY <1>2, <2>1, <2>4 DEF WorkingOK
<1>4. project \in Seq(Entry) /\ \A i \in DOMAIN project : project[i].reads >= project[i].accessCount
  BY DEF HierarchyInv, ProjectOK, earnedInProject
<1> HIDE DEF recent
<1>5. /\ ProjectOK(arrivals("project")) /\ PoliciesOK(arrivals("institutional"))
      /\ PatternsOK(arrivals("global"))
  <2>1. /\ ProjectOK(promotedTo("project", recent, "working"))
        /\ PoliciesOK(promotedTo("institutional", recent, "working"))
        /\ PatternsOK(promotedTo("global", recent, "working"))
    BY <1>3, CopiesAreEarned
  <2>2. /\ ProjectOK(promotedTo("project", project, "project"))
        /\ PoliciesOK(promotedTo("institutional", project, "project"))
        /\ PatternsOK(promotedTo("global", project, "project"))
    BY <1>4, CopiesAreEarned
  <2> QED
    BY <2>1, <2>2, LevelsJoin
<1> HIDE DEF arrivals
<1>6. ProjectOK(project') /\ PoliciesOK(institutional') /\ PatternsOK(global')
  BY <1>1, <1>5, LevelsJoin DEF HierarchyInv
<1> QED
  BY <1>1, <1>2, <1>6 DEF HierarchyInv, WorkingOK, ProjectOK, PoliciesOK, PatternsOK

LEMMA HierarchyStepsKeepInv == HierarchyInv /\ [HierarchyNext]_hierarchyVars => HierarchyInv'
<1> SUFFICES ASSUME HierarchyInv, [HierarchyNext]_hierarchyVars PROVE HierarchyInv'
  OBVIOUS
<1>1. CASE UNCHANGED hierarchyVars
  BY <1>1 DEF hierarchyVars, HierarchyInv, WorkingOK, ProjectOK, PoliciesOK, PatternsOK
<1>2. CASE \E tagged \in BOOLEAN : storeWorking(tagged) \/ storeProject(tagged)
                                   \/ storePolicy(tagged) \/ storePattern(tagged)
  BY <1>2, StoringKeepsHierarchy
<1>3. CASE \E i \in 1..workingMaxEntries : getWorking(i)
  BY <1>3, ReadingKeepsHierarchy
<1>4. CASE \E i \in 1..MaxStored : getProject(i)
  BY <1>4, ReadingKeepsHierarchy
<1>5. CASE evaluatePromotions
  BY <1>5, PromotingKeepsHierarchy
<1>6. CASE purgeExpired \/ clearWorking \/ \E i \in 1..workingMaxEntries : removeWorking(i)
  <2>1. /\ UNCHANGED <<project, institutional, global, instant>>
        /\ \/ working' = unexpired \/ working' = <<>>
           \/ \E i \in DOMAIN working : working' = RemoveAt(working, i)
    BY <1>6 DEF purgeExpired, clearWorking, removeWorking
  <2>2. WorkingOK(<<>>)
    BY WorkingMaxAssumption DEF WorkingOK
  <2>3. WorkingOK(working')
    BY <2>1, <2>2, WorkingShrinks, UnexpiredAreOK DEF HierarchyInv
  <2> QED
    BY <2>1, <2>3 DEF HierarchyInv, WorkingOK, ProjectOK, PoliciesOK, PatternsOK
<1>7. CASE clearProject \/ \E i \in 1..MaxStored : removeProject(i)
  <2>1. /\ UNCHANGED <<working, institutional, global, instant>>
        /\ project' = <<>> \/ \E i \in DOMAIN project : project' = RemoveAt(project, i)
    BY <1>7 DEF clearProject, removeProject
  <2>2. ProjectOK(<<>>)
    BY DEF ProjectOK
  <2>3. ProjectOK(project')
    BY <2>1, <2>2, ProjectShrinks DEF HierarchyInv
  <2> QED
    BY <2>1, <2>3 DEF HierarchyInv, WorkingOK, ProjectOK, PoliciesOK, PatternsOK
<1>8. ASSUME NEW i \in 1..workingMaxEntries, WorkingExpires(i) PROVE HierarchyInv'
  <2> DEFINE old == [working[i] EXCEPT !.expired = TRUE]
  <2>1. i \in DOMAIN working /\ working[i] \in InWorking
    BY <1>8 DEF WorkingExpires, HierarchyInv, WorkingOK
  <2>2. old \in InWorking /\ old.entry = working[i].entry
        /\ old.lastAccessed = working[i].lastAccessed
    BY <2>1 DEF InWorking
  <2>3. working' = [working EXCEPT ![i] = old] /\ UNCHANGED <<project, institutional, global, instant>>
    BY <1>8 DEF WorkingExpires
  <2> HIDE DEF old
  <2>4. WorkingOK(working')
    BY <2>1, <2>2, <2>3 DEF HierarchyInv, WorkingOK
  <2> QED
    BY <2>3, <2>4 DEF HierarchyInv, WorkingOK, ProjectOK, PoliciesOK, PatternsOK
<1>9. CASE TimePasses
  <2>1. UNCHANGED <<working, project, institutional, global>> /\ instant' = instant + 1
        /\ instant' \in 0..MaxInstant /\ instant' \in Nat
    BY <1>9, HierarchyBounds DEF TimePasses, HierarchyInv
  <2>2. WorkingOK(working)'
    <3>1. \A i \in DOMAIN working : working[i].lastAccessed \in Nat
      <4> TAKE i \in DOMAIN working
      <4>1. working[i] \in InWorking
        BY DEF HierarchyInv, WorkingOK
      <4> QED
        BY <4>1 DEF InWorking
    <3> QED
      BY <2>1, <3>1 DEF HierarchyInv, WorkingOK
  <2> QED
    BY <2>1, <2>2 DEF HierarchyInv, ProjectOK, PoliciesOK, PatternsOK
<1> QED
  BY <1>1, <1>2, <1>3, <1>4, <1>5, <1>6, <1>7, <1>8, <1>9 DEF HierarchyNext

(***************************************************************************)
(* However entries are stored, read, promoted again and again, expired and *)
(* removed: what a level holds of another's was earned there by reads, and *)
(* nothing is ever promoted to global memory.                              *)
(***************************************************************************)
THEOREM PromotionsStayEarned == HierarchySpec => [](HierarchyTypeOK /\ PromotionsEarned)
<1>1. HierarchyInit => HierarchyInv
  BY WorkingMaxAssumption, HierarchyBounds
     DEF HierarchyInit, HierarchyInv, WorkingOK, ProjectOK, PoliciesOK, PatternsOK
<1> QED
  BY <1>1, HierarchyStepsKeepInv, HierarchyInvHolds, PTL DEF HierarchySpec

-----------------------------------------------------------------------------
(***************************************************************************)
(* Provenance: chains of entries that name the one before, and what is     *)
(* left of them when the oldest are dropped.                               *)
(***************************************************************************)
LinkUpTo(n) == [id : 1..n, previous : 0..n, source : Nodes, target : Nodes,
                parentId : 0..n, late : BOOLEAN]

\* Ids grow along a chain, each entry names the one before it, and what an
\* entry names is older than it.
ChainOK(list, n) ==
    /\ list \in Seq(LinkUpTo(n))
    /\ \A i \in DOMAIN list : /\ list[i].previous < list[i].id
                              /\ list[i].parentId < list[i].id
    /\ \A i \in 2..Len(list) : list[i].previous = list[i - 1].id
    /\ \A i, j \in DOMAIN list : i < j => list[i].id < list[j].id

LEMMA ChainFacts ==
    ASSUME NEW n \in Nat, NEW list, ChainOK(list, n)
    PROVE  /\ Len(list) \in Nat /\ DOMAIN list = 1..Len(list)
           /\ \A i \in 1..Len(list) :
                 /\ list[i] \in LinkUpTo(n) /\ list[i].id \in 1..n /\ list[i].id \in Nat
                 /\ list[i].previous \in Nat /\ list[i].parentId \in Nat
           /\ \A i, j \in 1..Len(list) : list[i].id = list[j].id => i = j
<1>1. list \in Seq(LinkUpTo(n)) /\ Len(list) \in Nat /\ DOMAIN list = 1..Len(list)
  BY LenProperties DEF ChainOK
<1>2. ASSUME NEW i \in 1..Len(list)
      PROVE  /\ list[i] \in LinkUpTo(n) /\ list[i].id \in 1..n /\ list[i].id \in Nat
             /\ list[i].previous \in Nat /\ list[i].parentId \in Nat
  <2>1. list[i] \in LinkUpTo(n)
    BY <1>1
  <2> QED
    BY <2>1 DEF LinkUpTo
<1>3. ASSUME NEW i \in 1..Len(list), NEW j \in 1..Len(list), list[i].id = list[j].id
      PROVE  i = j
  <2>1. /\ i \in DOMAIN list /\ j \in DOMAIN list
        /\ list[i].id \in Nat /\ list[j].id \in Nat
    BY <1>1, <1>2
  <2>2. /\ i < j => list[i].id < list[j].id
        /\ j < i => list[j].id < list[i].id
    BY <2>1 DEF ChainOK
  <2>3. ~(i < j) /\ ~(j < i)
    BY <1>3, <2>1, <2>2
  <2> QED
    BY <1>1, <2>3
<1> QED
  BY <1>1, <1>2, <1>3

LEMMA LinksGrow ==
    ASSUME NEW n \in Nat, NEW list, ChainOK(list, n)
    PROVE  ChainOK(list, n + 1)
<1>1. LinkUpTo(n) \subseteq LinkUpTo(n + 1)
  BY DEF LinkUpTo
<1>2. list \in Seq(LinkUpTo(n + 1))
  BY <1>1, ChainFacts DEF ChainOK
<1> QED
  BY <1>2 DEF ChainOK

LEMMA NewestLinks ==
    ASSUME NEW n \in Nat, NEW list, ChainOK(list, n), NEW e \in LinkUpTo(n + 1),
           e.id = n + 1, e.parentId <= n,
           e.previous = IF list = <<>> THEN 0 ELSE list[Len(list)].id
    PROVE  ChainOK(Append(list, e), n + 1)
<1> DEFINE all == Append(list, e)
           m == Len(list)
<1>1. /\ m \in Nat /\ DOMAIN list = 1..m /\ (list = <<>> <=> m = 0)
      /\ \A i \in 1..m : list[i].id \in 1..n /\ list[i].id \in Nat
  BY ChainFacts, EmptySeq DEF ChainOK
<1>2. /\ all \in Seq(LinkUpTo(n + 1)) /\ Len(all) = m + 1 /\ DOMAIN all = 1..(m + 1)
      /\ \A i \in 1..m : all[i] = list[i]
      /\ all[m + 1] = e
  <2>1. list \in Seq(LinkUpTo(n + 1))
    BY LinksGrow DEF ChainOK
  <2> QED
    BY <2>1, OneMore
<1>3. e.previous \in 0..n
  BY <1>1
<1> HIDE DEF all, m
<1>4. ASSUME NEW i \in 1..(m + 1)
      PROVE  all[i].previous < all[i].id /\ all[i].parentId < all[i].id
  <2>1. CASE i = m + 1
    <3>1. e.parentId \in Nat
      BY DEF LinkUpTo
    <3> QED
      BY <1>2, <1>3, <2>1, <3>1
  <2>2. CASE i # m + 1
    <3>1. i \in 1..m
      BY <1>1, <2>2
    <3> QED
      BY <1>1, <1>2, <3>1 DEF ChainOK
  <2> QED
    BY <2>1, <2>2
<1>5. ASSUME NEW i \in 2..(m + 1)
      PROVE  all[i].previous = all[i - 1].id
  <2>1. CASE i = m + 1
    <3>1. m # 0 /\ m \in 1..m /\ i - 1 = m
      BY <1>1, <2>1
    <3> QED
      BY <1>1, <1>2, <2>1, <3>1 DEF m
  <2>2. CASE i # m + 1
    <3>1. i \in 2..m /\ i \in 1..m /\ i - 1 \in 1..m
      BY <1>1, <2>2
    <3> QED
      BY <1>2, <3>1 DEF ChainOK, m
  <2> QED
    BY <2>1, <2>2
<1>6. ASSUME NEW i \in 1..(m + 1), NEW j \in 1..(m + 1), i < j
      PROVE  all[i].id < all[j].id
  <2>1. i \in 1..m
    BY <1>1, <1>6
  <2>2. CASE j = m + 1
    BY <1>1, <1>2, <2>1, <2>2
  <2>3. CASE j # m + 1
    <3>1. j \in 1..m
      BY <1>1, <2>3
    <3> QED
      BY <1>1, <1>2, <1>6, <2>1, <3>1 DEF ChainOK
  <2> QED
    BY <2>2, <2>3
<1>7. ChainOK(all, n + 1)
  BY <1>2, <1>4, <1>5, <1>6 DEF ChainOK
<1> QED
  BY <1>7 DEF all

\* The newest maxEntries of a list, or all of it.
keptAfter(d, list, S) ==
    /\ d \in 0..Len(list)
    /\ kept(list) \in Seq(S) /\ Len(kept(list)) <= maxEntries
    /\ Len(kept(list)) = Len(list) - d
    /\ \A i \in 1..(Len(list) - d) : kept(list)[i] = list[d + i]
    /\ dropped(list) \in Seq(S) /\ Len(dropped(list)) = d
    /\ \A i \in 1..d : dropped(list)[i] = list[i]

LEMMA KeptIs ==
    ASSUME NEW S, NEW list \in Seq(S)
    PROVE  \E d : keptAfter(d, list, S)
<1>1. PICK n \in Nat : n = Len(list) /\ DOMAIN list = 1..n /\ \A i \in 1..n : list[i] \in S
  BY LenProperties
<1>2. PICK d \in 0..n : d = IF n > maxEntries THEN n - maxEntries ELSE 0
  BY <1>1, ProvenanceBounds
<1>3. /\ SubSeq(list, d + 1, n) \in Seq(S) /\ Len(SubSeq(list, d + 1, n)) = n - d
      /\ \A i \in 1..(n - d) : SubSeq(list, d + 1, n)[i] = list[d + i]
  <2>1. d + 1 \in Int /\ n \in Int /\ \A i \in (d + 1)..n : list[i] \in S
    BY <1>1, <1>2
  <2> DEFINE part == SubSeq(list, d + 1, n)
  <2>2. /\ part \in Seq(S)
        /\ Len(part) = IF d + 1 <= n THEN n - (d + 1) + 1 ELSE 0
        /\ \A i \in 1..(n - (d + 1) + 1) : part[i] = list[d + 1 + i - 1]
    BY <2>1, SubSeqProperties
  <2> HIDE DEF part
  <2>3. \A i \in 1..(n - d) : i \in 1..(n - (d + 1) + 1) /\ d + 1 + i - 1 = d + i
    BY <1>1, <1>2
  <2>4. Len(part) = n - d
    BY <1>1, <1>2, <2>2
  <2>5. \A i \in 1..(n - d) : part[i] = list[d + i]
    BY <2>2, <2>3
  <2> QED
    BY <2>2, <2>4, <2>5 DEF part
<1>4. /\ SubSeq(list, 1, d) \in Seq(S) /\ Len(SubSeq(list, 1, d)) = d
      /\ \A i \in 1..d : SubSeq(list, 1, d)[i] = list[i]
  <2>1. 1 \in Int /\ d \in Int /\ \A i \in 1..d : list[i] \in S
    BY <1>1, <1>2
  <2> DEFINE part == SubSeq(list, 1, d)
  <2>2. /\ part \in Seq(S)
        /\ Len(part) = IF 1 <= d THEN d - 1 + 1 ELSE 0
        /\ \A i \in 1..(d - 1 + 1) : part[i] = list[1 + i - 1]
    BY <2>1, SubSeqProperties
  <2> HIDE DEF part
  <2>3. \A i \in 1..d : i \in 1..(d - 1 + 1) /\ 1 + i - 1 = i
    BY <1>1, <1>2
  <2>4. Len(part) = d
    BY <1>1, <1>2, <2>2
  <2>5. \A i \in 1..d : part[i] = list[i]
    BY <2>2, <2>3
  <2> QED
    BY <2>2, <2>4, <2>5 DEF part
<1>5. kept(list) = SubSeq(list, d + 1, n)
  <2>1. CASE n > maxEntries
    BY <1>1, <1>2, <2>1 DEF kept
  <2>2. CASE ~(n > maxEntries)
    <3>1. kept(list) = list /\ d = 0
      BY <1>1, <1>2, <2>2 DEF kept
    <3>2. SubSeq(list, 1, n) = list
      BY <1>1, SubSeqFull
    <3> QED
      BY <3>1, <3>2
  <2> QED
    BY <2>1, <2>2
<1>6. Len(kept(list)) = n - d /\ n - d <= maxEntries /\ d = n - (n - d)
  <2>1. maxEntries \in Nat /\ Len(kept(list)) = n - d
    BY <1>3, <1>5, ProvenanceBounds
  <2>2. n - d <= maxEntries
    BY <1>1, <1>2, <2>1
  <2> QED
    BY <1>1, <2>1, <2>2
<1>7. dropped(list) = SubSeq(list, 1, d)
  BY <1>1, <1>6 DEF dropped
<1>8. kept(list) \in Seq(S) /\ \A i \in 1..(n - d) : kept(list)[i] = list[d + i]
  BY <1>3, <1>5
<1>9. /\ dropped(list) \in Seq(S) /\ Len(dropped(list)) = d
      /\ \A i \in 1..d : dropped(list)[i] = list[i]
  BY <1>4, <1>7
<1> QED
  BY <1>1, <1>2, <1>6, <1>8, <1>9 DEF keptAfter

LEMMA KeptStaysChain ==
    ASSUME NEW n \in Nat, NEW list, ChainOK(list, n)
    PROVE  ChainOK(kept(list), n) /\ Len(kept(list)) <= maxEntries
<1>1. PICK d \in 0..Len(list) :
         /\ kept(list) \in Seq(LinkUpTo(n)) /\ Len(kept(list)) <= maxEntries
         /\ Len(kept(list)) = Len(list) - d
         /\ \A i \in 1..(Len(list) - d) : kept(list)[i] = list[d + i]
  <2>1. list \in Seq(LinkUpTo(n))
    BY DEF ChainOK
  <2>2. PICK d : keptAfter(d, list, LinkUpTo(n))
    BY <2>1, KeptIs
  <2> QED
    BY <2>2 DEF keptAfter
<1>2. /\ Len(list) \in Nat /\ DOMAIN list = 1..Len(list)
      /\ DOMAIN kept(list) = 1..(Len(list) - d)
  BY <1>1, ChainFacts, LenProperties
<1>3. ASSUME NEW i \in 1..(Len(list) - d)
      PROVE  kept(list)[i].previous < kept(list)[i].id /\ kept(list)[i].parentId < kept(list)[i].id
  <2>1. d + i \in 1..Len(list)
    BY <1>2
  <2> QED
    BY <1>1, <1>2, <2>1 DEF ChainOK
<1>4. ASSUME NEW i \in 2..(Len(list) - d)
      PROVE  kept(list)[i].previous = kept(list)[i - 1].id
  <2>1. /\ d + i \in 2..Len(list) /\ d + (i - 1) = d + i - 1
        /\ i \in 1..(Len(list) - d) /\ i - 1 \in 1..(Len(list) - d)
    BY <1>2
  <2>2. list[d + i].previous = list[d + i - 1].id
    BY <2>1 DEF ChainOK
  <2>3. kept(list)[i] = list[d + i] /\ kept(list)[i - 1] = list[d + i - 1]
    BY <1>1, <2>1
  <2> QED
    BY <2>2, <2>3
<1>5. ASSUME NEW i \in 1..(Len(list) - d), NEW j \in 1..(Len(list) - d), i < j
      PROVE  kept(list)[i].id < kept(list)[j].id
  <2>1. d + i \in 1..Len(list) /\ d + j \in 1..Len(list) /\ d + i < d + j
    BY <1>2, <1>5
  <2> QED
    BY <1>1, <1>2, <2>1 DEF ChainOK
<1> QED
  BY <1>1, <1>2, <1>3, <1>4, <1>5 DEF ChainOK

LEMMA PlaceOfId ==
    ASSUME NEW n \in Nat, ChainOK(entries, n)
    PROVE  /\ \A i \in DOMAIN entries : has(entries[i].id) /\ at(entries[i].id) = i
           /\ \A i \in DOMAIN entries :
                 has(entries[i].parentId) =>
                    at(entries[i].parentId) \in 1..(i - 1)
                    /\ entries[at(entries[i].parentId)].id = entries[i].parentId
           /\ \A i \in DOMAIN entries : has(entries[i].previous) <=> i > 1
           /\ \A i \in DOMAIN entries : i > 1 => at(entries[i].previous) = i - 1
<1>1. /\ Len(entries) \in Nat /\ DOMAIN entries = 1..Len(entries)
      /\ \A i \in 1..Len(entries) : entries[i].id \in Nat
      /\ \A i, j \in 1..Len(entries) : entries[i].id = entries[j].id => i = j
  BY ChainFacts
<1>2. \A i \in DOMAIN entries : has(entries[i].id) /\ at(entries[i].id) = i
  BY <1>1 DEF has, at
<1>3. ASSUME NEW i \in DOMAIN entries, has(entries[i].parentId)
      PROVE  /\ at(entries[i].parentId) \in 1..(i - 1)
             /\ entries[at(entries[i].parentId)].id = entries[i].parentId
  <2>1. PICK j \in DOMAIN entries : entries[j].id = entries[i].parentId
    BY <1>3 DEF has
  <2>2. at(entries[i].parentId) = j
    BY <1>2, <2>1
  <2>3. entries[j].id < entries[i].id
    BY <2>1 DEF ChainOK
  <2>4. ~(i < j) /\ i # j
    <3>1. entries[i].id \in Nat /\ entries[j].id \in Nat
      BY <1>1
    <3>2. i < j => entries[i].id < entries[j].id
      BY DEF ChainOK
    <3> QED
      BY <2>3, <3>1, <3>2
  <2> QED
    BY <1>1, <2>1, <2>2, <2>4
<1>4. ASSUME NEW i \in DOMAIN entries, i > 1
      PROVE  has(entries[i].previous) /\ at(entries[i].previous) = i - 1
  <2>1. i \in 2..Len(entries) /\ i - 1 \in DOMAIN entries
    BY <1>1, <1>4
  <2>2. entries[i].previous = entries[i - 1].id
    BY <2>1 DEF ChainOK
  <2> QED
    BY <1>2, <2>1, <2>2
<1>5. ASSUME NEW i \in DOMAIN entries, has(entries[i].previous), ~(i > 1)
      PROVE  FALSE
  <2>1. i = 1
    BY <1>1, <1>5
  <2>2. PICK j \in DOMAIN entries : entries[j].id = entries[i].previous
    BY <1>5 DEF has
  <2>3. entries[j].id < entries[i].id /\ entries[j].id \in Nat /\ entries[i].id \in Nat
    BY <1>1, <2>2 DEF ChainOK
  <2>4. j = 1 \/ i < j
    BY <1>1, <2>1
  <2>5. i < j => entries[i].id < entries[j].id
    BY DEF ChainOK
  <2> QED
    BY <2>1, <2>3, <2>4, <2>5
<1> QED
  BY <1>2, <1>3, <1>4, <1>5

lineTo(i) == [j \in 1..i |-> entries[j].id]

LEMMA LineGrows ==
    ASSUME NEW n \in Nat, ChainOK(entries, n), NEW i \in DOMAIN entries
    PROVE  /\ lineTo(i) = IF i > 1 THEN Append(lineTo(i - 1), entries[i].id)
                          ELSE <<entries[i].id>>
           /\ lineTo(i) \in Seq(Nat)
<1>1. /\ Len(entries) \in Nat /\ DOMAIN entries = 1..Len(entries)
      /\ \A j \in 1..Len(entries) : entries[j].id \in Nat
  BY ChainFacts
<1>2. i \in Nat \ {0} /\ i - 1 \in Nat
  BY <1>1
<1>3. lineTo(i) \in Seq(Nat) /\ lineTo(i - 1) \in Seq(Nat)
      /\ Len(lineTo(i)) = i /\ Len(lineTo(i - 1)) = i - 1
  <2>1. \A k \in 0..i : \A j \in 1..k : entries[j].id \in Nat
    BY <1>1, <1>2
  <2>2. \A k \in 0..i : k \in Nat => lineTo(k) \in Seq(Nat) /\ Len(lineTo(k)) = k
    BY <2>1 DEF lineTo
  <2> QED
    BY <1>2, <2>2
<1>4. CASE i = 1
  BY <1>3, <1>4 DEF lineTo
<1>5. CASE i # 1
  <2> DEFINE longer == Append(lineTo(i - 1), entries[i].id)
  <2>1. /\ longer \in Seq(Nat) /\ Len(longer) = i
        /\ \A j \in 1..(i - 1) : longer[j] = lineTo(i - 1)[j]
        /\ longer[i] = entries[i].id
    <3>1. entries[i].id \in Nat
      BY <1>1
    <3>2. i - 1 + 1 = i
      BY <1>2
    <3> QED
      BY <1>3, <3>1, <3>2, OneMore
  <2> HIDE DEF longer
  <2>2. \A j \in 1..i : longer[j] = lineTo(i)[j]
    <3> TAKE j \in 1..i
    <3>1. CASE j = i
      BY <1>2, <2>1, <3>1 DEF lineTo
    <3>2. CASE j # i
      <4>1. j \in 1..(i - 1)
        BY <1>2, <3>2
      <4> QED
        BY <2>1, <4>1 DEF lineTo
    <3> QED
      BY <3>1, <3>2
  <2>3. longer = lineTo(i)
    BY <1>2, <1>3, <2>1, <2>2, SeqEqual
  <2> QED
    BY <1>2, <1>3, <1>5, <2>3 DEF longer
<1> QED
  BY <1>3, <1>4, <1>5

LEMMA ProvenanceIsLine ==
    ASSUME NEW n \in Nat, ChainOK(entries, n), NEW k \in DOMAIN entries
    PROVE  getProvenance(entries[k].id) = lineTo(k)
<1>1. Len(entries) \in Nat /\ DOMAIN entries = 1..Len(entries)
  BY ChainFacts
<1> DEFINE steps(g) == g = [i \in DOMAIN entries |->
                              IF has(entries[i].previous)
                              THEN Append(g[at(entries[i].previous)], entries[i].id)
                              ELSE <<entries[i].id>>]
           back == CHOOSE g : steps(g)
<1>2. getProvenance(entries[k].id) = back[at(entries[k].id)]
  BY DEF getProvenance
<1>3. steps([i \in DOMAIN entries |-> lineTo(i)])
  <2> DEFINE lines == [i \in DOMAIN entries |-> lineTo(i)]
  <2>1. ASSUME NEW i \in DOMAIN entries
        PROVE  lineTo(i) = IF has(entries[i].previous)
                           THEN Append(lines[at(entries[i].previous)], entries[i].id)
                           ELSE <<entries[i].id>>
    <3>1. CASE i > 1
      <4>1. /\ has(entries[i].previous) /\ at(entries[i].previous) = i - 1
            /\ i - 1 \in DOMAIN entries
        BY <1>1, <3>1, PlaceOfId
      <4>2. lineTo(i) = Append(lineTo(i - 1), entries[i].id)
        BY <3>1, LineGrows
      <4> QED
        BY <4>1, <4>2
    <3>2. CASE ~(i > 1)
      BY <3>2, PlaceOfId, LineGrows
    <3> QED
      BY <3>1, <3>2
  <2> QED
    BY <2>1
<1>4. steps(back)
  BY <1>3
<1> HIDE DEF back
<1> DEFINE T == {i \in 0..Len(entries) : i > 0 => back[i] = lineTo(i)}
<1>5. 0 \in T
  BY <1>1
<1>6. ASSUME NEW i \in 1..Len(entries), i - 1 \in T PROVE i \in T
  <2>1. back[i] = IF has(entries[i].previous)
                  THEN Append(back[at(entries[i].previous)], entries[i].id)
                  ELSE <<entries[i].id>>
    BY <1>1, <1>4
  <2>2. CASE i > 1
    <3>1. /\ has(entries[i].previous) /\ at(entries[i].previous) = i - 1
          /\ back[i - 1] = lineTo(i - 1)
      BY <1>1, <1>6, <2>2, PlaceOfId
    <3>2. lineTo(i) = Append(lineTo(i - 1), entries[i].id)
      BY <1>1, <2>2, LineGrows
    <3> QED
      BY <1>1, <2>1, <3>1, <3>2
  <2>3. CASE ~(i > 1)
    <3>1. ~has(entries[i].previous) /\ lineTo(i) = <<entries[i].id>>
      BY <1>1, <2>3, PlaceOfId, LineGrows
    <3> QED
      BY <1>1, <2>1, <3>1
  <2> QED
    BY <2>2, <2>3
<1>7. k \in T
  <2> HIDE DEF T
  <2>1. 0..Len(entries) \subseteq T
    BY <1>1, <1>5, <1>6, UpTo
  <2> QED
    BY <1>1, <2>1
<1> QED
  BY <1>1, <1>2, <1>7, PlaceOfId

\* The lines of ancestors of the first k entries.
ancestries(g, k) ==
    g = [i \in 1..k |->
            IF has(entries[i].parentId)
            THEN Append(g[at(entries[i].parentId)], entries[i].id)
            ELSE <<entries[i].id>>]

LEMMA AncestriesExist ==
    ASSUME NEW n \in Nat, ChainOK(entries, n)
    PROVE  \E g : ancestries(g, Len(entries))
<1>1. Len(entries) \in Nat /\ DOMAIN entries = 1..Len(entries)
  BY ChainFacts
<1> DEFINE T == {k \in 0..Len(entries) : \E g : ancestries(g, k)}
<1>2. 0 \in T
  <2>1. ancestries([i \in 1..0 |-> 0], 0)
    BY DEF ancestries
  <2> QED
    BY <1>1, <2>1
<1>3. ASSUME NEW k \in 1..Len(entries), k - 1 \in T PROVE k \in T
  <2>1. PICK f : ancestries(f, k - 1)
    BY <1>3
  <2> DEFINE line == IF has(entries[k].parentId)
                     THEN Append(f[at(entries[k].parentId)], entries[k].id)
                     ELSE <<entries[k].id>>
             g == [i \in 1..k |-> IF i = k THEN line ELSE f[i]]
  <2>2. ASSUME NEW i \in 1..k
        PROVE  g[i] = IF has(entries[i].parentId)
                      THEN Append(g[at(entries[i].parentId)], entries[i].id)
                      ELSE <<entries[i].id>>
    <3>1. has(entries[i].parentId) =>
             /\ at(entries[i].parentId) \in 1..(i - 1)
             /\ at(entries[i].parentId) \in 1..k /\ at(entries[i].parentId) # k
      <4>1. i \in DOMAIN entries /\ \A j \in 1..(i - 1) : j \in 1..k /\ j # k
        BY <1>1
      <4> QED
        BY <4>1, PlaceOfId
    <3>2. has(entries[i].parentId) =>
             g[at(entries[i].parentId)] = f[at(entries[i].parentId)]
      BY <3>1
    <3>3. CASE i = k
      BY <3>2, <3>3
    <3>4. CASE i # k
      <4>1. i \in 1..(k - 1)
        BY <1>1, <3>4
      <4>2. f[i] = IF has(entries[i].parentId)
                   THEN Append(f[at(entries[i].parentId)], entries[i].id)
                   ELSE <<entries[i].id>>
        BY <2>1, <4>1 DEF ancestries
      <4> QED
        BY <3>2, <3>4, <4>2
    <3> QED
      BY <3>3, <3>4
  <2>3. ancestries(g, k)
    <3>1. g = [i \in 1..k |-> g[i]]
      OBVIOUS
    <3> HIDE DEF g
    <3> QED
      BY <2>2, <3>1 DEF ancestries
  <2>4. k \in 0..Len(entries)
    BY <1>1
  <2> HIDE DEF g
  <2> QED
    BY <2>3, <2>4
<1> HIDE DEF T
<1>4. 0..Len(entries) \subseteq T
  BY <1>1, <1>2, <1>3, UpTo
<1>5. Len(entries) \in T
  BY <1>1, <1>4
<1> QED
  BY <1>5 DEF T

\* A line that grows and ends with this id.
growsTo(line, id) ==
    /\ line \in Seq(Nat) /\ Len(line) > 0 /\ line[Len(line)] = id
    /\ \A j \in 2..Len(line) : line[j - 1] < line[j]

LEMMA AncestorsGrow ==
    ASSUME NEW n \in Nat, ChainOK(entries, n), NEW k \in DOMAIN entries
    PROVE  growsTo(ancestors(entries[k].id), entries[k].id)
<1>1. /\ Len(entries) \in Nat /\ DOMAIN entries = 1..Len(entries)
      /\ \A i \in 1..Len(entries) : entries[i].id \in Nat
  BY ChainFacts
<1> DEFINE back == CHOOSE g : ancestries(g, Len(entries))
<1>2. ancestors(entries[k].id) = back[at(entries[k].id)]
  BY <1>1 DEF ancestors, ancestries
<1>3. ancestries(back, Len(entries))
  BY AncestriesExist
<1> HIDE DEF back
<1> DEFINE Bad == {i \in 1..Len(entries) : ~growsTo(back[i], entries[i].id)}
<1>4. Bad = {}
  <2> SUFFICES ASSUME Bad # {} PROVE FALSE
    OBVIOUS
  <2>1. PICK i \in Bad : \A j \in Bad : i <= j
    <3>1. Bad \in SUBSET Nat
      BY <1>1
    <3> HIDE DEF Bad
    <3> QED
      BY <3>1, LeastExists
  <2>2. i \in DOMAIN entries /\ i \in Nat /\ entries[i].id \in Nat
    BY <1>1
  <2>3. back[i] = IF has(entries[i].parentId)
                  THEN Append(back[at(entries[i].parentId)], entries[i].id)
                  ELSE <<entries[i].id>>
    BY <1>3 DEF ancestries
  <2>4. CASE ~has(entries[i].parentId)
    <3>1. growsTo(<<entries[i].id>>, entries[i].id)
      BY <2>2 DEF growsTo
    <3> QED
      BY <2>3, <2>4, <3>1
  <2>5. CASE has(entries[i].parentId)
    <3>1. PICK p \in 1..(i - 1) : p = at(entries[i].parentId)
      BY <2>2, <2>5, PlaceOfId
    <3>2. p \in 1..Len(entries) /\ ~(i <= p)
      BY <1>1, <2>2
    <3>3. growsTo(back[p], entries[p].id)
      BY <2>1, <3>2
    <3>4. back[i] = Append(back[p], entries[i].id) /\ entries[p].id < entries[i].id
      <4>1. entries[p].id < entries[i].id
        BY <1>1, <2>2, <3>1, <3>2 DEF ChainOK
      <4> QED
        BY <2>3, <2>5, <3>1, <4>1
    <3>5. PICK m \in Nat : m = Len(back[p]) /\ m > 0 /\ back[p][m] = entries[p].id
      BY <3>3, LenProperties DEF growsTo
    <3>6. /\ back[i] \in Seq(Nat) /\ Len(back[i]) = m + 1
          /\ \A j \in 1..m : back[i][j] = back[p][j]
          /\ back[i][m + 1] = entries[i].id
      BY <2>2, <3>3, <3>4, <3>5, OneMore DEF growsTo
    <3>7. ASSUME NEW j \in 2..(m + 1) PROVE back[i][j - 1] < back[i][j]
      <4>1. CASE j = m + 1
        <5>1. j - 1 = m /\ m \in 1..m
          BY <3>5, <4>1
        <5> QED
          BY <3>4, <3>5, <3>6, <4>1, <5>1
      <4>2. CASE j # m + 1
        <5>1. j \in 2..m /\ j \in 1..m /\ j - 1 \in 1..m
          <6>1. m \in Nat /\ j \in 2..(m + 1) /\ j # m + 1
            BY <4>2
          <6> QED
            BY <6>1
        <5>2. back[p][j - 1] < back[p][j]
          BY <3>3, <3>5, <5>1 DEF growsTo
        <5> QED
          BY <3>6, <5>1, <5>2
      <4> QED
        BY <4>1, <4>2
    <3>8. growsTo(back[i], entries[i].id)
      BY <3>5, <3>6, <3>7 DEF growsTo
    <3> QED
      BY <3>8
  <2> QED
    BY <2>4, <2>5
<1> QED
  BY <1>1, <1>2, <1>4, PlaceOfId

LEMMA ChainsAreUnbroken ==
    ASSUME NEW n \in Nat, ChainOK(entries, n)
    PROVE  ChainsUnbroken /\ inOrder([i \in DOMAIN entries |-> entries[i].id])
<1>1. \A i \in 2..Len(entries) : linked(i)
  BY DEF ChainOK, linked
<1>2. \A i \in DOMAIN entries :
         getProvenance(entries[i].id) = [j \in 1..i |-> entries[j].id]
  BY ProvenanceIsLine DEF lineTo
<1>3. ASSUME NEW i \in DOMAIN entries
      PROVE  \A j \in 2..Len(ancestors(entries[i].id)) :
                ancestors(entries[i].id)[j - 1] < ancestors(entries[i].id)[j]
  BY AncestorsGrow DEF growsTo
<1>4. inOrder([i \in DOMAIN entries |-> entries[i].id])
  BY DEF inOrder, ChainOK
<1> QED
  BY <1>1, <1>2, <1>3, <1>4 DEF ChainsUnbroken

-----------------------------------------------------------------------------
\* The indexes: what stays in them as entries come and go.
\* The ids, in the order of the list, under each key of its entries from one
\* place to another.
idsWithin(list, k, first, last) ==
    {list[j].id : j \in {i \in first..last : k \in keysOf(list[i])}}

IndexOver(ix, list, first, last, n) ==
    /\ ix \in [IndexKey -> Seq(1..n)]
    /\ \A k \in IndexKey :
          inOrder(ix[k]) /\ ToSet(ix[k]) = idsWithin(list, k, first, last)

\* The place, in a list, of the j-th once the one at p has gone.
past(p, j) == IF j < p THEN j ELSE j + 1

LEMMA PastPlaces ==
    ASSUME NEW m \in Nat, NEW p \in 1..m
    PROVE  /\ \A j \in 1..(m - 1) : past(p, j) \in 1..m /\ past(p, j) # p
           /\ \A i, j \in 1..(m - 1) : i < j => past(p, i) < past(p, j)
           /\ \A a \in 1..m : a # p => \E j \in 1..(m - 1) : past(p, j) = a
<1>1. \A j \in 1..(m - 1) : past(p, j) \in 1..m /\ past(p, j) # p
  BY DEF past
<1>2. \A i, j \in 1..(m - 1) : i < j => past(p, i) < past(p, j)
  BY DEF past
<1>3. ASSUME NEW a \in 1..m, a # p PROVE \E j \in 1..(m - 1) : past(p, j) = a
  <2>1. CASE a < p
    <3>1. a \in 1..(m - 1) /\ past(p, a) = a
      BY <2>1 DEF past
    <3> QED
      BY <3>1
  <2>2. CASE ~(a < p)
    <3>1. a - 1 \in 1..(m - 1) /\ past(p, a - 1) = a
      BY <1>3, <2>2 DEF past
    <3> QED
      BY <3>1
  <2> QED
    BY <2>1, <2>2
<1> QED
  BY <1>1, <1>2, <1>3

LEMMA FirstRemoved ==
    ASSUME NEW n \in Nat, NEW s \in Seq(1..n), NEW e
    PROVE  /\ RemoveFirst(s, e) \in Seq(1..n)
           /\ inOrder(s) => /\ inOrder(RemoveFirst(s, e))
                            /\ ToSet(RemoveFirst(s, e)) = ToSet(s) \ {e}
<1>1. PICK m \in Nat : m = Len(s) /\ DOMAIN s = 1..m /\ \A i \in 1..m : s[i] \in Nat
  BY LenProperties
<1> DEFINE Places == {i \in 1..m : s[i] = e}
<1>2. CASE Places = {}
  <2>1. RemoveFirst(s, e) = s
    BY <1>1, <1>2 DEF RemoveFirst
  <2>2. ToSet(s) \ {e} = ToSet(s)
    BY <1>1, <1>2 DEF ToSet
  <2> QED
    BY <2>1, <2>2
<1>3. CASE Places # {}
  <2>1. PICK first \in Places : \A j \in Places : first <= j
    <3>1. Places \in SUBSET Nat
      BY <1>1
    <3> HIDE DEF Places
    <3> QED
      BY <1>3, <3>1, LeastExists
  <2>2. Min(Places) \in Places
    <3> HIDE DEF Places
    <3> QED
      BY <2>1 DEF Min
  <2>3. RemoveFirst(s, e) = RemoveAt(s, Min(Places))
    BY <1>1, <1>3 DEF RemoveFirst, SelectInSeq
  <2>4. PICK p \in 1..m : p = Min(Places) /\ s[p] = e
    BY <2>2
  <2> DEFINE t == RemoveAt(s, p)
  <2>5. /\ t \in Seq(1..n) /\ DOMAIN t = 1..(m - 1)
        /\ \A j \in 1..(m - 1) : t[j] = s[past(p, j)]
    BY <1>1, <2>4, OneLess DEF past
  <2> HIDE DEF t
  <2>6. ASSUME inOrder(s) PROVE inOrder(t)
    <3> SUFFICES ASSUME NEW i \in 1..(m - 1), NEW j \in 1..(m - 1), i < j
                 PROVE  t[i] < t[j]
      BY <2>5 DEF inOrder
    <3>1. /\ past(p, i) \in 1..m /\ past(p, j) \in 1..m /\ past(p, i) < past(p, j)
          /\ t[i] = s[past(p, i)] /\ t[j] = s[past(p, j)]
      BY <2>5, PastPlaces
    <3> QED
      BY <1>1, <2>6, <3>1 DEF inOrder
  <2>7. ASSUME inOrder(s) PROVE ToSet(t) = ToSet(s) \ {e}
    <3>1. ASSUME NEW x \in ToSet(t) PROVE x \in ToSet(s) \ {e}
      <4>1. PICK j \in 1..(m - 1) : x = t[j]
        BY <2>5, <3>1 DEF ToSet
      <4>2. PICK a \in 1..m : a # p /\ x = s[a]
        BY <2>5, <4>1, PastPlaces
      <4>3. s[a] # s[p]
        <5>1. s[a] \in Nat /\ s[p] \in Nat /\ (a < p \/ p < a)
          BY <1>1, <2>4, <4>2
        <5>2. (a < p => s[a] < s[p]) /\ (p < a => s[p] < s[a])
          BY <1>1, <2>4, <2>7, <4>2 DEF inOrder
        <5> QED
          BY <5>1, <5>2
      <4> QED
        BY <1>1, <2>4, <4>2, <4>3 DEF ToSet
    <3>2. ASSUME NEW x \in ToSet(s), x # e PROVE x \in ToSet(t)
      <4>1. PICK a \in 1..m : x = s[a]
        BY <1>1, <3>2 DEF ToSet
      <4>2. a # p
        BY <2>4, <3>2, <4>1
      <4>3. PICK j \in 1..(m - 1) : past(p, j) = a
        BY <4>2, PastPlaces
      <4>4. t[j] = s[a]
        BY <2>5, <4>3
      <4> QED
        BY <2>5, <4>1, <4>3, <4>4 DEF ToSet
    <3> QED
      BY <3>1, <3>2
  <2>8. RemoveFirst(s, e) = t
    BY <2>3, <2>4 DEF t
  <2> QED
    BY <2>5, <2>6, <2>7, <2>8
<1> QED
  BY <1>2, <1>3

LEMMA DeindexStep ==
    ASSUME NEW n \in Nat, NEW list, ChainOK(list, n), NEW ix,
           NEW i \in DOMAIN list, IndexOver(ix, list, i, Len(list), n)
    PROVE  IndexOver(deindexEntry(ix, list[i]), list, i + 1, Len(list), n)
<1> DEFINE new == deindexEntry(ix, list[i])
           m == Len(list)
<1>1. /\ m \in Nat /\ DOMAIN list = 1..m /\ i \in 1..m
      /\ \A j \in 1..m : list[j].id = list[i].id => i = j
  BY ChainFacts
<1>2. new = [k \in IndexKey |-> IF k \in keysOf(list[i])
                                THEN RemoveFirst(ix[k], list[i].id) ELSE ix[k]]
  BY DEF deindexEntry
<1> HIDE DEF new, m
<1>3. ASSUME NEW k \in IndexKey
      PROVE  /\ new[k] \in Seq(1..n) /\ inOrder(new[k])
             /\ ToSet(new[k]) = idsWithin(list, k, i + 1, m)
  <2>1. /\ ix[k] \in Seq(1..n) /\ inOrder(ix[k])
        /\ ToSet(ix[k]) = idsWithin(list, k, i, m)
    BY DEF IndexOver, m
  <2>2. CASE k \in keysOf(list[i])
    <3>1. new[k] = RemoveFirst(ix[k], list[i].id)
      BY <1>2, <2>2
    <3>2. /\ new[k] \in Seq(1..n) /\ inOrder(new[k])
          /\ ToSet(new[k]) = ToSet(ix[k]) \ {list[i].id}
      BY <2>1, <3>1, FirstRemoved
    <3>3. idsWithin(list, k, i, m) \ {list[i].id} = idsWithin(list, k, i + 1, m)
      <4>1. ASSUME NEW x \in idsWithin(list, k, i, m), x # list[i].id
            PROVE  x \in idsWithin(list, k, i + 1, m)
        <5>1. PICK j \in i..m : k \in keysOf(list[j]) /\ x = list[j].id
          BY <4>1 DEF idsWithin
        <5>2. j # i
          BY <4>1, <5>1
        <5>3. j \in (i + 1)..m
          BY <1>1, <5>1, <5>2
        <5> QED
          BY <5>1, <5>3 DEF idsWithin
      <4>2. ASSUME NEW x \in idsWithin(list, k, i + 1, m)
            PROVE  x \in idsWithin(list, k, i, m) /\ x # list[i].id
        <5>1. PICK j \in (i + 1)..m : k \in keysOf(list[j]) /\ x = list[j].id
          BY <4>2 DEF idsWithin
        <5>2. j \in i..m /\ j \in 1..m /\ j # i
          BY <1>1, <5>1
        <5> QED
          BY <1>1, <5>1, <5>2 DEF idsWithin
      <4> QED
        BY <4>1, <4>2
    <3> QED
      BY <2>1, <3>2, <3>3
  <2>3. CASE k \notin keysOf(list[i])
    <3>1. new[k] = ix[k]
      BY <1>2, <2>3
    <3>2. {j \in i..m : k \in keysOf(list[j])} = {j \in (i + 1)..m : k \in keysOf(list[j])}
      <4>1. \A j \in i..m : j # i => j \in (i + 1)..m
        BY <1>1
      <4>2. (i + 1)..m \subseteq i..m
        BY <1>1
      <4> QED
        BY <2>3, <4>1, <4>2
    <3>3. idsWithin(list, k, i, m) = idsWithin(list, k, i + 1, m)
      BY <3>2 DEF idsWithin
    <3> QED
      BY <2>1, <3>1, <3>3
  <2> QED
    BY <2>2, <2>3
<1>4. new \in [IndexKey -> Seq(1..n)]
  BY <1>2, <1>3
<1> QED
  BY <1>3, <1>4 DEF IndexOver, new, m

LEMMA IndexStep ==
    ASSUME NEW n \in Nat, NEW list, ChainOK(list, n), NEW ix,
           NEW i \in DOMAIN list, IndexOver(ix, list, 1, i - 1, n)
    PROVE  IndexOver(indexEntry(ix, list[i]), list, 1, i, n)
<1> DEFINE new == indexEntry(ix, list[i])
<1>1. /\ Len(list) \in Nat /\ DOMAIN list = 1..Len(list) /\ i \in 1..Len(list)
      /\ list[i].id \in 1..n /\ list[i].id \in Nat
  BY ChainFacts
<1>2. new = [k \in IndexKey |-> IF k \in keysOf(list[i])
                                THEN Append(ix[k], list[i].id) ELSE ix[k]]
  BY DEF indexEntry
<1> HIDE DEF new
<1>3. ASSUME NEW k \in IndexKey
      PROVE  /\ new[k] \in Seq(1..n) /\ inOrder(new[k])
             /\ ToSet(new[k]) = idsWithin(list, k, 1, i)
  <2>1. /\ ix[k] \in Seq(1..n) /\ inOrder(ix[k])
        /\ ToSet(ix[k]) = idsWithin(list, k, 1, i - 1)
    BY DEF IndexOver
  <2>2. CASE k \in keysOf(list[i])
    <3>1. PICK m \in Nat : m = Len(ix[k]) /\ DOMAIN ix[k] = 1..m
      BY <2>1, LenProperties
    <3>2. /\ new[k] \in Seq(1..n) /\ DOMAIN new[k] = 1..(m + 1)
          /\ \A j \in 1..m : new[k][j] = ix[k][j]
          /\ new[k][m + 1] = list[i].id
      BY <1>1, <1>2, <2>1, <2>2, <3>1, OneMore
    <3>3. \A j \in 1..m : ix[k][j] < list[i].id
      <4> TAKE j \in 1..m
      <4>1. ix[k][j] \in idsWithin(list, k, 1, i - 1)
        BY <2>1, <3>1 DEF ToSet
      <4>2. PICK a \in 1..(i - 1) : ix[k][j] = list[a].id
        BY <4>1 DEF idsWithin
      <4>3. a \in DOMAIN list /\ a < i
        BY <1>1
      <4> QED
        BY <4>2, <4>3 DEF ChainOK
    <3>4. inOrder(new[k])
      <4> SUFFICES ASSUME NEW a \in 1..(m + 1), NEW b \in 1..(m + 1), a < b
                   PROVE  new[k][a] < new[k][b]
        BY <3>2 DEF inOrder
      <4>1. a \in 1..m /\ (b \in 1..m \/ b = m + 1)
        BY <3>1
      <4> QED
        BY <2>1, <3>1, <3>2, <3>3, <4>1 DEF inOrder
    <3>5. ToSet(new[k]) = ToSet(ix[k]) \cup {list[i].id}
      <4>1. 1..(m + 1) = 1..m \cup {m + 1}
        BY <3>1
      <4>2. ToSet(new[k]) = {new[k][j] : j \in 1..(m + 1)} /\ ToSet(ix[k]) = {ix[k][j] : j \in 1..m}
        BY <3>1, <3>2 DEF ToSet
      <4>3. {new[k][j] : j \in 1..(m + 1)} = {new[k][j] : j \in 1..m} \cup {new[k][m + 1]}
        BY <4>1
      <4>4. {new[k][j] : j \in 1..m} = {ix[k][j] : j \in 1..m}
        BY <3>2
      <4> QED
        BY <3>2, <4>2, <4>3, <4>4
    <3>6. idsWithin(list, k, 1, i) = idsWithin(list, k, 1, i - 1) \cup {list[i].id}
      <4>1. 1..i = 1..(i - 1) \cup {i}
        BY <1>1
      <4> QED
        BY <2>2, <4>1 DEF idsWithin
    <3> QED
      BY <2>1, <3>2, <3>4, <3>5, <3>6
  <2>3. CASE k \notin keysOf(list[i])
    <3>1. new[k] = ix[k]
      BY <1>2, <2>3
    <3>2. 1..i = 1..(i - 1) \cup {i}
      BY <1>1
    <3>3. {j \in 1..i : k \in keysOf(list[j])} = {j \in 1..(i - 1) : k \in keysOf(list[j])}
      BY <2>3, <3>2
    <3> QED
      BY <2>1, <3>1, <3>3 DEF idsWithin
  <2> QED
    BY <2>2, <2>3
<1>4. new \in [IndexKey -> Seq(1..n)]
  BY <1>2, <1>3
<1> QED
  BY <1>3, <1>4 DEF IndexOver, new

-----------------------------------------------------------------------------
\* The indexes of a list, rebuilt and thinned.
LEMMA DeindexAllIs ==
    ASSUME NEW n \in Nat, NEW list, ChainOK(list, n), NEW ix,
           IndexOver(ix, list, 1, Len(list), n),
           NEW d \in 0..Len(list), NEW gone, Len(gone) = d,
           \A i \in 1..d : gone[i] = list[i]
    PROVE  IndexOver(deindexAll(ix, gone), list, d + 1, Len(list), n)
<1> DEFINE V == [IndexKey -> Seq(1..n)]
           F == [p \in (1..d) \X V |-> deindexEntry(p[2], gone[p[1]])]
           steps(g) == g = [i \in 0..Len(gone) |->
                              IF i = 0 THEN ix ELSE deindexEntry(g[i - 1], gone[i])]
           after == CHOOSE g : steps(g)
<1>1. /\ Len(list) \in Nat /\ DOMAIN list = 1..Len(list) /\ d \in Nat
      /\ 1..d \subseteq 1..Len(list)
  BY ChainFacts
<1>2. ix \in V
  BY DEF IndexOver
<1>3. \A v \in V : \A e : deindexEntry(v, e) \in V
  BY FirstRemoved DEF deindexEntry
<1>4. F \in [(1..d) \X V -> V]
  BY <1>3
<1>5. \A i \in 1..d : \A v \in V : F[<<i, v>>] = deindexEntry(v, gone[i])
  OBVIOUS
<1> HIDE DEF V, F
<1>6. PICK f : iterates(f, V, ix, F, d)
  BY <1>1, <1>2, <1>4, IteratesExist
<1>7. \A i \in 0..d : f[i] = IF i = 0 THEN ix ELSE deindexEntry(f[i - 1], gone[i])
  <2> TAKE i \in 0..d
  <2>1. CASE i = 0
    BY <1>6, <2>1 DEF iterates
  <2>2. CASE i # 0
    <3>1. i \in 1..d /\ i - 1 \in 0..d
      BY <1>1, <2>2
    <3>2. f[i - 1] \in V /\ f[i] = F[<<i, f[i - 1]>>]
      BY <1>6, <3>1 DEF iterates
    <3> QED
      BY <1>5, <2>2, <3>1, <3>2
  <2> QED
    BY <2>1, <2>2
<1>8. f = [i \in 0..d |-> f[i]]
  BY <1>6 DEF iterates
<1>9. steps(f)
  BY <1>7, <1>8
<1>10. steps(after)
  BY <1>9
<1>11. deindexAll(ix, gone) = after[d]
  BY DEF deindexAll
<1> HIDE DEF after
<1>12. after[0] = ix /\ \A i \in 1..d : after[i] = deindexEntry(after[i - 1], list[i])
  <2>1. \A i \in 0..d : after[i] = IF i = 0 THEN ix ELSE deindexEntry(after[i - 1], gone[i])
    BY <1>10
  <2> QED
    BY <1>1, <2>1
<1> DEFINE T == {i \in 0..d : IndexOver(after[i], list, i + 1, Len(list), n)}
<1>13. 0 \in T
  BY <1>1, <1>12
<1>14. ASSUME NEW i \in 1..d, i - 1 \in T PROVE i \in T
  <2>1. i \in DOMAIN list /\ i - 1 + 1 = i /\ i \in 0..d
    BY <1>1
  <2>2. IndexOver(after[i - 1], list, i, Len(list), n)
    BY <1>14, <2>1
  <2>3. IndexOver(deindexEntry(after[i - 1], list[i]), list, i + 1, Len(list), n)
    BY <2>1, <2>2, DeindexStep
  <2> QED
    BY <1>12, <2>1, <2>3
<1> HIDE DEF T
<1>15. 0..d \subseteq T
  BY <1>1, <1>13, <1>14, UpTo
<1>16. d \in T
  BY <1>1, <1>15
<1> QED
  BY <1>11, <1>16 DEF T

LEMMA RebuiltIs ==
    ASSUME NEW n \in Nat, NEW list, ChainOK(list, n)
    PROVE  IndexOver(rebuildIndexes(list), list, 1, Len(list), n)
<1> DEFINE none == [k \in IndexKey |-> <<>>]
           V == [IndexKey -> Seq(1..n)]
           d == Len(list)
           F == [p \in (1..d) \X V |-> indexEntry(p[2], list[p[1]])]
           steps(g) == g = [i \in 0..Len(list) |->
                              IF i = 0 THEN none ELSE indexEntry(g[i - 1], list[i])]
           after == CHOOSE g : steps(g)
<1>1. /\ d \in Nat /\ DOMAIN list = 1..d /\ \A i \in 1..d : list[i].id \in 1..n
  BY ChainFacts
<1>2. none \in V
  OBVIOUS
<1>3. \A v \in V : \A i \in 1..d : indexEntry(v, list[i]) \in V
  BY <1>1, OneMore DEF indexEntry
<1>4. F \in [(1..d) \X V -> V]
  BY <1>3
<1>5. \A i \in 1..d : \A v \in V : F[<<i, v>>] = indexEntry(v, list[i])
  OBVIOUS
<1> HIDE DEF V, F, none
<1>6. PICK f : iterates(f, V, none, F, d)
  <2> HIDE DEF d
  <2> QED
    BY <1>1, <1>2, <1>4, IteratesExist
<1>7. \A i \in 0..d : f[i] = IF i = 0 THEN none ELSE indexEntry(f[i - 1], list[i])
  <2> TAKE i \in 0..d
  <2>1. CASE i = 0
    BY <1>6, <2>1 DEF iterates
  <2>2. CASE i # 0
    <3>1. i \in 1..d /\ i - 1 \in 0..d
      BY <1>1, <2>2
    <3>2. f[i - 1] \in V /\ f[i] = F[<<i, f[i - 1]>>]
      BY <1>6, <3>1 DEF iterates
    <3> QED
      BY <1>5, <2>2, <3>1, <3>2
  <2> QED
    BY <2>1, <2>2
<1>8. f = [i \in 0..d |-> f[i]]
  BY <1>6 DEF iterates
<1>9. steps(f)
  BY <1>7, <1>8
<1>10. steps(after)
  BY <1>9
<1>11. rebuildIndexes(list) = after[d]
  BY DEF rebuildIndexes, none
<1> HIDE DEF after
<1>12. after[0] = none /\ \A i \in 1..d : after[i] = indexEntry(after[i - 1], list[i])
  <2>1. \A i \in 0..d : after[i] = IF i = 0 THEN none ELSE indexEntry(after[i - 1], list[i])
    BY <1>10
  <2> QED
    BY <1>1, <2>1
<1> DEFINE T == {i \in 0..d : IndexOver(after[i], list, 1, i, n)}
<1>13. 0 \in T
  <2>1. IndexOver(none, list, 1, 0, n)
    BY <1>2 DEF IndexOver, none, V, inOrder, ToSet, idsWithin
  <2> QED
    BY <1>1, <1>12, <2>1
<1>14. ASSUME NEW i \in 1..d, i - 1 \in T PROVE i \in T
  <2>1. i \in DOMAIN list /\ i \in 0..d
    BY <1>1
  <2>2. IndexOver(indexEntry(after[i - 1], list[i]), list, 1, i, n)
    BY <1>14, <2>1, IndexStep
  <2> QED
    BY <1>12, <2>1, <2>2
<1> HIDE DEF T
<1>15. d \in T
  <2>1. 0..d \subseteq T
    <3> HIDE DEF d
    <3> QED
      BY <1>1, <1>13, <1>14, UpTo
  <2> QED
    BY <1>1, <2>1
<1> QED
  BY <1>11, <1>15 DEF T

IndexOf(ix, list, n) == IndexOver(ix, list, 1, Len(list), n)

ProvenanceInv ==
    /\ tracker \in {"provenance", "decisions", "context", "merkle"}
    /\ recorded \in 0..MaxRecords /\ recorded \in Nat
    /\ ChainOK(entries, recorded) /\ ChainOK(exported, recorded)
    /\ tracker # "context" => Len(entries) <= maxEntries
    /\ Len(exported) <= maxEntries
    /\ index \in [IndexKey -> Seq(1..recorded)]
    /\ tracker = "provenance" => IndexOf(index, entries, recorded)
    /\ leaves \in 0..MaxLeaves
    /\ proof.entryIndex \in 0..proof.outOf /\ proof.outOf \in 0..leaves

LEMMA ProvenanceInvHolds ==
    ProvenanceInv => ProvenanceTypeOK /\ ChainsUnbroken /\ IndexesAgree
<1> SUFFICES ASSUME ProvenanceInv PROVE ProvenanceTypeOK /\ ChainsUnbroken /\ IndexesAgree
  OBVIOUS
<1>1. ProvenanceTypeOK
  <2>1. LinkUpTo(recorded) = Link
    BY DEF LinkUpTo, Link
  <2> QED
    BY <2>1 DEF ProvenanceInv, ProvenanceTypeOK, ChainOK
<1>2. ChainsUnbroken /\ inOrder([i \in DOMAIN entries |-> entries[i].id])
  BY ChainsAreUnbroken DEF ProvenanceInv
<1>3. ASSUME tracker = "provenance", NEW k \in IndexKey
      PROVE  inOrder(index[k]) /\ ToSet(index[k]) = idsUnder(entries, k)
  <2>1. inOrder(index[k]) /\ ToSet(index[k]) = idsWithin(entries, k, 1, Len(entries))
    BY <1>3 DEF ProvenanceInv, IndexOf, IndexOver
  <2>2. DOMAIN entries = 1..Len(entries)
    BY ChainFacts DEF ProvenanceInv
  <2>3. idsWithin(entries, k, 1, Len(entries)) = idsUnder(entries, k)
    <3>1. ASSUME NEW x \in idsWithin(entries, k, 1, Len(entries)) PROVE x \in idsUnder(entries, k)
      BY <2>2, <3>1 DEF idsWithin, idsUnder, ToSet
    <3>2. ASSUME NEW x \in idsUnder(entries, k) PROVE x \in idsWithin(entries, k, 1, Len(entries))
      <4>1. PICK e \in ToSet(entries) : k \in keysOf(e) /\ x = e.id
        BY <3>2 DEF idsUnder
      <4>2. PICK j \in 1..Len(entries) : e = entries[j]
        BY <2>2, <4>1 DEF ToSet
      <4> QED
        BY <4>1, <4>2 DEF idsWithin
    <3> QED
      BY <3>1, <3>2
  <2> QED
    BY <2>1, <2>3
<1>4. IndexesAgree
  BY <1>2, <1>3 DEF IndexesAgree
<1> QED
  BY <1>1, <1>2, <1>4

-----------------------------------------------------------------------------
\* Every step keeps the chains and their indexes.
LEMMA IndexWidens ==
    ASSUME NEW n \in Nat, NEW ix \in [IndexKey -> Seq(1..n)]
    PROVE  ix \in [IndexKey -> Seq(1..(n + 1))]
<1>1. 1..n \subseteq 1..(n + 1)
  OBVIOUS
<1>2. Seq(1..n) \subseteq Seq(1..(n + 1))
  BY <1>1
<1> QED
  BY <1>2

\* The index of what is kept of a list, its first d gone.
LEMMA IndexOfKept ==
    ASSUME NEW n \in Nat, NEW list, ChainOK(list, n), NEW d,
           keptAfter(d, list, LinkUpTo(n)), NEW ix,
           IndexOver(ix, list, d + 1, Len(list), n)
    PROVE  IndexOf(ix, kept(list), n)
<1>1. PICK m \in Nat : m = Len(list) /\ d \in 0..m /\ Len(kept(list)) = m - d
  BY ChainFacts DEF keptAfter
<1>2. \A i \in 1..(m - d) : kept(list)[i] = list[d + i]
  BY <1>1 DEF keptAfter
<1>3. ASSUME NEW k \in IndexKey
      PROVE  idsWithin(list, k, d + 1, m) = idsWithin(kept(list), k, 1, m - d)
  <2>1. ASSUME NEW x \in idsWithin(list, k, d + 1, m)
        PROVE  x \in idsWithin(kept(list), k, 1, m - d)
    <3>1. PICK j \in (d + 1)..m : k \in keysOf(list[j]) /\ x = list[j].id
      BY <2>1 DEF idsWithin
    <3>2. j - d \in 1..(m - d) /\ d + (j - d) = j
      BY <1>1
    <3>3. kept(list)[j - d] = list[j]
      BY <1>2, <3>2
    <3> QED
      BY <3>1, <3>2, <3>3 DEF idsWithin
  <2>2. ASSUME NEW x \in idsWithin(kept(list), k, 1, m - d)
        PROVE  x \in idsWithin(list, k, d + 1, m)
    <3>1. PICK j \in 1..(m - d) : k \in keysOf(kept(list)[j]) /\ x = kept(list)[j].id
      BY <2>2 DEF idsWithin
    <3>2. d + j \in (d + 1)..m /\ kept(list)[j] = list[d + j]
      BY <1>1, <1>2
    <3> QED
      BY <3>1, <3>2 DEF idsWithin
  <2> QED
    BY <2>1, <2>2
<1> QED
  BY <1>1, <1>3 DEF IndexOf, IndexOver

LEMMA NewLinkIs ==
    ASSUME ProvenanceInv, NEW from \in Nodes, NEW target \in Nodes,
           NEW parentId \in 0..recorded, NEW late \in BOOLEAN
    PROVE  /\ newLink(from, target, parentId, late) \in LinkUpTo(recorded + 1)
           /\ ChainOK(Append(entries, newLink(from, target, parentId, late)), recorded + 1)
<1> DEFINE e == newLink(from, target, parentId, late)
<1>1. /\ recorded \in Nat /\ ChainOK(entries, recorded)
      /\ lastId = IF entries = <<>> THEN 0 ELSE entries[Len(entries)].id
  BY DEF ProvenanceInv, lastId, Last
<1>2. lastId \in 0..recorded
  <2>1. CASE entries = <<>>
    BY <1>1, <2>1
  <2>2. CASE entries # <<>>
    <3>1. Len(entries) \in 1..Len(entries)
      BY <1>1, <2>2, EmptySeq, LenProperties DEF ChainOK
    <3>2. entries[Len(entries)].id \in 1..recorded
      BY <1>1, <3>1, ChainFacts
    <3> QED
      BY <1>1, <2>2, <3>2
  <2> QED
    BY <2>1, <2>2
<1>3. /\ e.id = recorded + 1 /\ e.previous = lastId /\ e.parentId = parentId
      /\ e.parentId <= recorded
  BY DEF newLink
<1>4. e \in LinkUpTo(recorded + 1)
  <2>1. recorded + 1 \in 1..(recorded + 1) /\ lastId \in 0..(recorded + 1)
        /\ parentId \in 0..(recorded + 1)
    BY <1>1, <1>2
  <2> QED
    BY <2>1 DEF newLink, LinkUpTo
<1> HIDE DEF e
<1>5. ChainOK(Append(entries, e), recorded + 1)
  BY <1>1, <1>3, <1>4, NewestLinks
<1> QED
  BY <1>4, <1>5 DEF e

LEMMA RecordingKeepsChains ==
    ASSUME ProvenanceInv, NEW from \in Nodes, NEW target \in Nodes,
           recordProvenance(from, target)
    PROVE  ProvenanceInv'
<1> DEFINE e == newLink(from, target, 0, FALSE)
           all == Append(entries, e)
           n == recorded + 1
           added == indexEntry(index, e)
           gone == dropped(all)
<1>1. /\ tracker = "provenance" /\ recorded < MaxRecords /\ entries' = kept(all)
      /\ index' = deindexAll(added, gone) /\ recorded' = n
      /\ UNCHANGED <<tracker, exported, leaves, proof>>
  BY DEF recordProvenance, treeState
<1>2. recorded \in Nat /\ n \in Nat /\ n \in 0..MaxRecords
  BY <1>1, ProvenanceBounds DEF ProvenanceInv
<1>3. ChainOK(all, n) /\ e \in LinkUpTo(n)
  <2>1. 0 \in 0..recorded /\ FALSE \in BOOLEAN
    BY <1>2
  <2> QED
    BY <2>1, NewLinkIs
<1>4. PICK m \in Nat : /\ m = Len(entries) /\ Len(all) = m + 1 /\ all[m + 1] = e
                       /\ DOMAIN all = 1..(m + 1)
                       /\ \A i \in 1..m : all[i] = entries[i]
  <2>1. entries \in Seq(LinkUpTo(n))
    BY <1>2, LinksGrow DEF ProvenanceInv, ChainOK
  <2> HIDE DEF e
  <2> QED
    BY <1>3, <2>1, OneMore
<1> HIDE DEF e, all
<1>5. IndexOver(index, all, 1, m, n)
  <2>1. IndexOver(index, entries, 1, m, recorded)
    BY <1>1, <1>4 DEF ProvenanceInv, IndexOf
  <2>2. index \in [IndexKey -> Seq(1..n)]
    BY <1>2, <2>1, IndexWidens DEF IndexOver
  <2>3. \A k \in IndexKey : idsWithin(all, k, 1, m) = idsWithin(entries, k, 1, m)
    <3> TAKE k \in IndexKey
    <3>1. {i \in 1..m : k \in keysOf(all[i])} = {i \in 1..m : k \in keysOf(entries[i])}
      BY <1>4
    <3> QED
      BY <1>4, <3>1 DEF idsWithin
  <2> QED
    BY <2>1, <2>2, <2>3 DEF IndexOver
<1>6. IndexOver(added, all, 1, Len(all), n)
  <2>1. m + 1 \in DOMAIN all /\ m + 1 - 1 = m
    BY <1>4
  <2> QED
    BY <1>2, <1>3, <1>4, <1>5, <2>1, IndexStep
<1>7. PICK d : keptAfter(d, all, LinkUpTo(n))
  <2>1. all \in Seq(LinkUpTo(n))
    BY <1>3 DEF ChainOK
  <2> QED
    BY <2>1, KeptIs
<1>8. /\ d \in 0..Len(all) /\ Len(gone) = d /\ \A i \in 1..d : gone[i] = all[i]
  BY <1>7 DEF keptAfter
<1> HIDE DEF added, gone, n
<1>9. IndexOver(deindexAll(added, gone), all, d + 1, Len(all), n)
  BY <1>2, <1>3, <1>6, <1>8, DeindexAllIs
<1>10. IndexOf(index', kept(all), n)
  BY <1>1, <1>2, <1>3, <1>7, <1>9, IndexOfKept
<1>11. ChainOK(kept(all), n) /\ Len(kept(all)) <= maxEntries
  BY <1>2, <1>3, KeptStaysChain
<1>12. ChainOK(exported, n)
  BY <1>2, LinksGrow DEF ProvenanceInv, n
<1>13. index' \in [IndexKey -> Seq(1..n)]
  BY <1>10 DEF IndexOf, IndexOver
<1> QED
  BY <1>1, <1>2, <1>10, <1>11, <1>12, <1>13 DEF ProvenanceInv

LEMMA AppendingKeepsChains ==
    ASSUME ProvenanceInv, NEW node \in Nodes, NEW parentId \in 0..recorded,
           NEW late \in BOOLEAN, recorded < MaxRecords,
           LET all == Append(entries, newLink(node, node, parentId, late)) IN
           \/ tracker = "decisions" /\ entries' = kept(all)
           \/ tracker = "context" /\ entries' = all,
           recorded' = recorded + 1,
           UNCHANGED <<tracker, index, exported, leaves, proof>>
    PROVE  ProvenanceInv'
<1> DEFINE all == Append(entries, newLink(node, node, parentId, late))
<1>1. recorded \in Nat /\ recorded + 1 \in Nat /\ recorded + 1 \in 0..MaxRecords
  BY ProvenanceBounds DEF ProvenanceInv
<1>2. ChainOK(all, recorded + 1)
  BY NewLinkIs
<1> HIDE DEF all
<1>3. ChainOK(kept(all), recorded + 1) /\ Len(kept(all)) <= maxEntries
  BY <1>1, <1>2, KeptStaysChain
<1>4. \/ tracker = "decisions" /\ entries' = kept(all)
      \/ tracker = "context" /\ entries' = all
  BY DEF all
<1>5. ChainOK(exported, recorded + 1) /\ index \in [IndexKey -> Seq(1..(recorded + 1))]
  BY <1>1, LinksGrow, IndexWidens DEF ProvenanceInv
<1> QED
  BY <1>1, <1>2, <1>3, <1>4, <1>5 DEF ProvenanceInv

LEMMA ProvenanceStepsKeepInv ==
    ProvenanceInv /\ [ProvenanceNext]_provenanceVars => ProvenanceInv'
<1> SUFFICES ASSUME ProvenanceInv, [ProvenanceNext]_provenanceVars PROVE ProvenanceInv'
  OBVIOUS
<1>1. CASE UNCHANGED provenanceVars
  BY <1>1 DEF provenanceVars, ProvenanceInv
<1>2. ASSUME NEW from \in Nodes, NEW target \in Nodes, recordProvenance(from, target)
      PROVE  ProvenanceInv'
  BY <1>2, RecordingKeepsChains
<1>3. ASSUME NEW parentId \in 0..recorded, recordDecision(parentId) PROVE ProvenanceInv'
  <2>1. PICK node \in Nodes : entries' = kept(Append(entries, newLink(node, node, parentId, FALSE)))
    BY <1>3 DEF recordDecision
  <2> QED
    BY <1>3, <2>1, AppendingKeepsChains DEF recordDecision, treeState
<1>4. ASSUME NEW late \in BOOLEAN, recordContext(late) PROVE ProvenanceInv'
  <2>1. PICK node \in Nodes : entries' = Append(entries, newLink(node, node, 0, late))
    BY <1>4 DEF recordContext
  <2>2. 0 \in 0..recorded
    BY DEF ProvenanceInv
  <2> QED
    BY <1>4, <2>1, <2>2, AppendingKeepsChains DEF recordContext, treeState
<1>5. CASE reset
  <2>1. ChainOK(<<>>, recorded)
    BY DEF ChainOK
  <2> QED
    BY <1>5, <2>1 DEF reset, treeState, ProvenanceInv
<1>6. CASE toJSON
  BY <1>6 DEF toJSON, treeState, ProvenanceInv
<1>7. CASE fromJSON
  <2>1. IndexOf(rebuildIndexes(exported), exported, recorded)
    BY RebuiltIs DEF ProvenanceInv, IndexOf
  <2>2. CASE tracker = "provenance"
    <3>1. index' = rebuildIndexes(exported)
      BY <1>7, <2>2 DEF fromJSON
    <3>2. index' \in [IndexKey -> Seq(1..recorded)]
      BY <2>1, <3>1 DEF IndexOf, IndexOver
    <3> QED
      BY <1>7, <2>1, <3>1, <3>2 DEF fromJSON, treeState, ProvenanceInv
  <2>3. CASE tracker # "provenance"
    BY <1>7, <2>3 DEF fromJSON, treeState, ProvenanceInv
  <2> QED
    BY <2>2, <2>3
<1>8. ASSUME NEW i \in 0..(MaxLeaves - 1), proveEntry(i) PROVE ProvenanceInv'
  <2>1. /\ proof' = [entryIndex |-> i, outOf |-> leaves] /\ i < leaves /\ leaves \in 0..MaxLeaves
        /\ UNCHANGED <<tracker, entries, index, recorded, exported, leaves>>
    BY <1>8 DEF proveEntry, chainState, ProvenanceInv
  <2>2. proof'.entryIndex \in 0..proof'.outOf /\ proof'.outOf \in 0..leaves
    BY <2>1, ProvenanceBounds
  <2> QED
    BY <2>1, <2>2 DEF ProvenanceInv
<1>9. CASE appendEvent
  <2>1. /\ leaves' = leaves + 1 /\ leaves' \in 0..MaxLeaves
        /\ UNCHANGED <<tracker, entries, index, recorded, exported, proof>>
        /\ proof.outOf \in 0..leaves'
    BY <1>9, ProvenanceBounds DEF appendEvent, chainState, ProvenanceInv
  <2> QED
    BY <2>1 DEF ProvenanceInv
<1> QED
  BY <1>1, <1>2, <1>3, <1>4, <1>5, <1>6, <1>7, <1>8, <1>9 DEF ProvenanceNext

LEMMA ProvenanceStarts == ProvenanceInit => ProvenanceInv
<1> SUFFICES ASSUME ProvenanceInit PROVE ProvenanceInv
  OBVIOUS
<1>1. ChainOK(<<>>, 0)
  BY DEF ChainOK
<1>2. index \in [IndexKey -> Seq(1..0)] /\ IndexOf(index, <<>>, 0)
  BY DEF ProvenanceInit, IndexOf, IndexOver, idsWithin, inOrder, ToSet
<1> QED
  BY <1>1, <1>2, ProvenanceBounds DEF ProvenanceInit, ProvenanceInv

-----------------------------------------------------------------------------
\* What a lineage is collected by: a walk over the lists of indexByTarget.
\* The entries a lineage is made of, by id, and what walkTargets does with them.
Ids == {entries[i].id : i \in DOMAIN entries}

under(node) == index[<<"target", node>>]
sourceOf(id) == entries[at(id)].source

IndexedChain ==
    \E n \in Nat : ChainOK(entries, n) /\ IndexOf(index, entries, n)

walksTo(g, h, node, found, k) ==
    g = [i \in 0..k |->
            IF i = 0 THEN found
            ELSE IF Contains(g[i - 1], under(node)[i]) THEN g[i - 1]
            ELSE h[<<sourceOf(under(node)[i]), Append(g[i - 1], under(node)[i])>>]]

visit(h, node, found) ==
    (CHOOSE g : walksTo(g, h, node, found, Len(under(node))))[Len(under(node))]

\* How many entries are still to be found.
unseen(found) == Cardinality(Ids \ ToSet(found))

Within(m) == {p \in Nodes \X Seq(Nat) : unseen(p[2]) < m}

LEMMA IdsAre ==
    ASSUME IndexedChain
    PROVE  /\ IsFiniteSet(Ids) /\ Ids \subseteq Nat
           /\ \A i \in DOMAIN entries : at(entries[i].id) = i /\ entries[i].source \in Nodes
                                        /\ entries[i].target \in Nodes
           /\ \A x \in Ids : at(x) \in DOMAIN entries /\ entries[at(x)].id = x /\ sourceOf(x) \in Nodes
           /\ \A node \in Nodes :
                 /\ under(node) \in Seq(Nat) /\ Len(under(node)) \in Nat
                 /\ \A i \in 1..Len(under(node)) :
                       under(node)[i] \in Ids /\ entries[at(under(node)[i])].target = node
                 /\ \A i \in DOMAIN entries : entries[i].target = node =>
                       \E j \in 1..Len(under(node)) : under(node)[j] = entries[i].id
<1>1. PICK n \in Nat : ChainOK(entries, n) /\ IndexOf(index, entries, n)
  BY DEF IndexedChain
<1>2. /\ Len(entries) \in Nat /\ DOMAIN entries = 1..Len(entries)
      /\ \A i \in 1..Len(entries) : entries[i] \in LinkUpTo(n) /\ entries[i].id \in 1..n
  BY <1>1, ChainFacts
<1>3. \A i \in DOMAIN entries : entries[i].source \in Nodes /\ entries[i].target \in Nodes
  BY <1>2 DEF LinkUpTo
<1>4. Ids \subseteq 1..n
  BY <1>2 DEF Ids
<1>5. IsFiniteSet(Ids) /\ Ids \subseteq Nat
  <2>1. IsFiniteSet(1..n)
    <3>1. 1 \in Int /\ n \in Int
      OBVIOUS
    <3> QED
      BY <3>1, FS_Interval
  <2>2. IsFiniteSet(Ids)
    BY <1>4, <2>1, FS_Subset
  <2>3. Ids \subseteq Nat
    <3>1. 1..n \subseteq Nat
      OBVIOUS
    <3> QED
      BY <1>4, <3>1
  <2> QED
    BY <2>2, <2>3
<1>6. \A i \in DOMAIN entries : at(entries[i].id) = i
  BY <1>1, PlaceOfId
<1>7. \A x \in Ids : at(x) \in DOMAIN entries /\ entries[at(x)].id = x /\ sourceOf(x) \in Nodes
  BY <1>3, <1>6 DEF Ids, sourceOf
<1>8. ASSUME NEW node \in Nodes
      PROVE  /\ under(node) \in Seq(Nat) /\ Len(under(node)) \in Nat
             /\ \A i \in 1..Len(under(node)) :
                   under(node)[i] \in Ids /\ entries[at(under(node)[i])].target = node
             /\ \A i \in DOMAIN entries : entries[i].target = node =>
                   \E j \in 1..Len(under(node)) : under(node)[j] = entries[i].id
  <2>1. <<"target", node>> \in IndexKey
    BY DEF IndexKey
  <2>2. /\ under(node) \in Seq(1..n)
        /\ ToSet(under(node)) = idsWithin(entries, <<"target", node>>, 1, Len(entries))
    BY <1>1, <2>1 DEF IndexOf, IndexOver, under
  <2>3. /\ under(node) \in Seq(Nat) /\ Len(under(node)) \in Nat
        /\ DOMAIN under(node) = 1..Len(under(node))
    BY <2>2, LenProperties
  <2>4. \A i \in DOMAIN entries :
           <<"target", node>> \in keysOf(entries[i]) <=> entries[i].target = node
    BY DEF keysOf
  <2>5. ASSUME NEW i \in 1..Len(under(node))
        PROVE  under(node)[i] \in Ids /\ entries[at(under(node)[i])].target = node
    <3>1. under(node)[i] \in idsWithin(entries, <<"target", node>>, 1, Len(entries))
      BY <2>2, <2>3 DEF ToSet
    <3>2. PICK j \in DOMAIN entries : under(node)[i] = entries[j].id
                                      /\ <<"target", node>> \in keysOf(entries[j])
      BY <1>2, <3>1 DEF idsWithin
    <3> QED
      BY <1>6, <2>4, <3>2 DEF Ids
  <2>6. ASSUME NEW i \in DOMAIN entries, entries[i].target = node
        PROVE  \E j \in 1..Len(under(node)) : under(node)[j] = entries[i].id
    <3>1. entries[i].id \in idsWithin(entries, <<"target", node>>, 1, Len(entries))
      BY <1>2, <2>4, <2>6 DEF idsWithin
    <3> QED
      BY <2>2, <2>3, <3>1 DEF ToSet
  <2> QED
    BY <2>3, <2>5, <2>6
<1> QED
  BY <1>3, <1>5, <1>6, <1>7, <1>8

LEMMA UnseenIsNat ==
    ASSUME IndexedChain, NEW found
    PROVE  unseen(found) \in Nat /\ unseen(found) <= Cardinality(Ids)
           /\ Cardinality(Ids) \in Nat
<1>1. /\ IsFiniteSet(Ids \ ToSet(found)) /\ IsFiniteSet(Ids)
      /\ Cardinality(Ids \ ToSet(found)) <= Cardinality(Ids)
  BY IdsAre, FS_Subset
<1> QED
  BY <1>1, FS_CardinalityType DEF unseen

LEMMA OneMoreSeen ==
    ASSUME IndexedChain, NEW m \in Nat, NEW found \in Seq(Nat), unseen(found) < m + 1,
           NEW longer \in Seq(Nat), ToSet(found) \subseteq ToSet(longer),
           NEW x \in Ids, ~Contains(longer, x)
    PROVE  unseen(Append(longer, x)) < m
<1>1. ToSet(Append(longer, x)) = ToSet(longer) \cup {x}
  <2>1. x \in Nat
    BY IdsAre
  <2>2. /\ DOMAIN longer = 1..Len(longer) /\ Len(longer) \in Nat
        /\ DOMAIN Append(longer, x) = 1..(Len(longer) + 1)
        /\ \A i \in 1..Len(longer) : Append(longer, x)[i] = longer[i]
        /\ Append(longer, x)[Len(longer) + 1] = x
    BY <2>1, OneMore
  <2>3. 1..(Len(longer) + 1) = 1..Len(longer) \cup {Len(longer) + 1}
    BY <2>2
  <2>4. {Append(longer, x)[i] : i \in 1..Len(longer)} = {longer[i] : i \in 1..Len(longer)}
    BY <2>2
  <2> QED
    BY <2>2, <2>3, <2>4 DEF ToSet
<1>2. x \notin ToSet(longer)
  BY LenProperties DEF Contains, ToSet
<1> DEFINE A == Ids \ ToSet(found)
           B == Ids \ ToSet(Append(longer, x))
<1>3. x \in A /\ B \subseteq A \ {x}
  BY <1>1, <1>2
<1>4. IsFiniteSet(A) /\ unseen(found) = Cardinality(A) /\ unseen(Append(longer, x)) = Cardinality(B)
  BY IdsAre, FS_Subset DEF unseen
<1> HIDE DEF A, B
<1>5. IsFiniteSet(A \ {x}) /\ Cardinality(A \ {x}) = Cardinality(A) - 1
  BY <1>3, <1>4, FS_RemoveElement
<1>6. Cardinality(B) <= Cardinality(A \ {x}) /\ IsFiniteSet(B)
  BY <1>3, <1>5, FS_Subset
<1>7. Cardinality(A) \in Nat /\ Cardinality(B) \in Nat
  BY <1>4, <1>6, FS_CardinalityType
<1> QED
  BY <1>4, <1>5, <1>6, <1>7

LEMMA WalksExist ==
    ASSUME NEW h, NEW node, NEW found, NEW n \in Nat
    PROVE  \E g : walksTo(g, h, node, found, n)
<1> DEFINE T == {k \in 0..n : \E g : walksTo(g, h, node, found, k)}
<1>1. 0 \in T
  <2>1. walksTo([i \in 0..0 |-> found], h, node, found, 0)
    BY DEF walksTo
  <2> QED
    BY <2>1
<1>2. ASSUME NEW k \in 1..n, k - 1 \in T PROVE k \in T
  <2>1. PICK f : walksTo(f, h, node, found, k - 1)
    BY <1>2
  <2> DEFINE next == IF Contains(f[k - 1], under(node)[k]) THEN f[k - 1]
                     ELSE h[<<sourceOf(under(node)[k]), Append(f[k - 1], under(node)[k])>>]
             g == [i \in 0..k |-> IF i = k THEN next ELSE f[i]]
  <2>2. ASSUME NEW i \in 0..k
        PROVE  g[i] = IF i = 0 THEN found
                      ELSE IF Contains(g[i - 1], under(node)[i]) THEN g[i - 1]
                      ELSE h[<<sourceOf(under(node)[i]), Append(g[i - 1], under(node)[i])>>]
    <3>1. i # 0 => g[i - 1] = f[i - 1]
      <4>1. i # 0 => i - 1 \in 0..k /\ i - 1 # k
        BY <1>2
      <4> QED
        BY <4>1
    <3>2. CASE i = k
      <4>1. g[i] = next /\ i # 0
        BY <1>2, <3>2
      <4> HIDE DEF g
      <4> QED
        BY <3>1, <3>2, <4>1
    <3>3. CASE i # k
      <4>1. i \in 0..(k - 1)
        BY <1>2, <3>3
      <4>2. f[i] = IF i = 0 THEN found
                   ELSE IF Contains(f[i - 1], under(node)[i]) THEN f[i - 1]
                   ELSE h[<<sourceOf(under(node)[i]), Append(f[i - 1], under(node)[i])>>]
        BY <2>1, <4>1 DEF walksTo
      <4>3. g[i] = f[i]
        BY <3>3
      <4> HIDE DEF g
      <4> QED
        BY <3>1, <4>2, <4>3
    <3> QED
      BY <3>2, <3>3
  <2>3. g = [i \in 0..k |-> g[i]]
    OBVIOUS
  <2> HIDE DEF g
  <2>4. walksTo(g, h, node, found, k)
    BY <2>2, <2>3 DEF walksTo
  <2>5. k \in 0..n
    BY <1>2
  <2> QED
    BY <2>4, <2>5
<1> HIDE DEF T
<1>3. 0..n \subseteq T
  BY <1>1, <1>2, UpTo
<1> QED
  BY <1>3 DEF T

\* What a walk has found so far, when the walks it starts find what they should.
grows(h, m) ==
    \A p \in Within(m) : h[p] \in Seq(Nat) /\ ToSet(p[2]) \subseteq ToSet(h[p])

finds(g, h, m, node, found, n) ==
    /\ \A i \in 0..n : g[i] \in Seq(Nat) /\ ToSet(found) \subseteq ToSet(g[i])
    /\ \A i \in 1..n :
          ~Contains(g[i - 1], under(node)[i]) =>
             /\ <<sourceOf(under(node)[i]), Append(g[i - 1], under(node)[i])>> \in Within(m)
             /\ g[i] = h[<<sourceOf(under(node)[i]), Append(g[i - 1], under(node)[i])>>]
    /\ \A i \in 1..n : Contains(g[i - 1], under(node)[i]) => g[i] = g[i - 1]
    /\ g[0] = found

LEMMA WalkGrows ==
    ASSUME IndexedChain, NEW m \in Nat, NEW h, grows(h, m),
           NEW node \in Nodes, NEW found \in Seq(Nat), unseen(found) < m + 1,
           NEW g, walksTo(g, h, node, found, Len(under(node)))
    PROVE  finds(g, h, m, node, found, Len(under(node)))
<1>1. /\ Len(under(node)) \in Nat
      /\ \A i \in 1..Len(under(node)) :
            under(node)[i] \in Ids /\ under(node)[i] \in Nat /\ sourceOf(under(node)[i]) \in Nodes
  BY IdsAre
<1>2. PICK n \in Nat : n = Len(under(node))
  BY <1>1
<1>3. /\ g[0] = found
      /\ \A i \in 1..n :
            g[i] = IF Contains(g[i - 1], under(node)[i]) THEN g[i - 1]
                   ELSE h[<<sourceOf(under(node)[i]), Append(g[i - 1], under(node)[i])>>]
  <2>1. \A i \in 0..n :
           g[i] = IF i = 0 THEN found
                  ELSE IF Contains(g[i - 1], under(node)[i]) THEN g[i - 1]
                  ELSE h[<<sourceOf(under(node)[i]), Append(g[i - 1], under(node)[i])>>]
    BY <1>2 DEF walksTo
  <2>2. g[0] = found
    <3>1. 0 \in 0..n
      OBVIOUS
    <3>2. g[0] = IF 0 = 0 THEN found
                 ELSE IF Contains(g[0 - 1], under(node)[0]) THEN g[0 - 1]
                 ELSE h[<<sourceOf(under(node)[0]), Append(g[0 - 1], under(node)[0])>>]
      BY <2>1, <3>1
    <3> QED
      BY <3>2
  <2>3. ASSUME NEW i \in 1..n
        PROVE  g[i] = IF Contains(g[i - 1], under(node)[i]) THEN g[i - 1]
                      ELSE h[<<sourceOf(under(node)[i]), Append(g[i - 1], under(node)[i])>>]
    <3>1. i \in 0..n /\ i # 0
      OBVIOUS
    <3> QED
      BY <2>1, <3>1
  <2> QED
    BY <2>2, <2>3
<1> DEFINE ok(i) == g[i] \in Seq(Nat) /\ ToSet(found) \subseteq ToSet(g[i])
           call(i) == <<sourceOf(under(node)[i]), Append(g[i - 1], under(node)[i])>>
<1>4. ASSUME NEW i \in 1..n, ok(i - 1), ~Contains(g[i - 1], under(node)[i])
      PROVE  call(i) \in Within(m) /\ g[i] = h[call(i)] /\ ok(i)
  <2> DEFINE longer == Append(g[i - 1], under(node)[i])
  <2>1. longer \in Seq(Nat) /\ ToSet(g[i - 1]) \subseteq ToSet(longer)
    <3>1. /\ longer \in Seq(Nat) /\ Len(g[i - 1]) \in Nat
          /\ DOMAIN g[i - 1] = 1..Len(g[i - 1]) /\ DOMAIN longer = 1..(Len(g[i - 1]) + 1)
          /\ \A j \in 1..Len(g[i - 1]) : longer[j] = g[i - 1][j]
      BY <1>1, <1>2, <1>4, OneMore
    <3>2. 1..Len(g[i - 1]) \subseteq 1..(Len(g[i - 1]) + 1)
      BY <3>1
    <3> HIDE DEF longer
    <3> QED
      BY <3>1, <3>2 DEF ToSet
  <2>2. unseen(longer) < m
    BY <1>1, <1>2, <1>4, OneMoreSeen
  <2> HIDE DEF longer
  <2>3. <<sourceOf(under(node)[i]), longer>> \in Within(m)
    <3>1. <<sourceOf(under(node)[i]), longer>> \in Nodes \X Seq(Nat)
      BY <1>1, <1>2, <2>1
    <3> QED
      BY <2>2, <3>1 DEF Within
  <2>4. call(i) = <<sourceOf(under(node)[i]), longer>>
    BY DEF longer
  <2>5. g[i] = h[call(i)]
    BY <1>3, <1>4
  <2>6. h[call(i)] \in Seq(Nat) /\ ToSet(longer) \subseteq ToSet(h[call(i)])
    BY <2>3, <2>4 DEF grows
  <2>7. ok(i)
    BY <1>4, <2>1, <2>5, <2>6
  <2> QED
    BY <2>3, <2>4, <2>5, <2>7
<1>5. ASSUME NEW i \in 1..n, Contains(g[i - 1], under(node)[i])
      PROVE  g[i] = g[i - 1]
  BY <1>3, <1>5
<1> DEFINE T == {i \in 0..n : ok(i)}
<1>6. 0 \in T
  BY <1>3
<1>7. ASSUME NEW i \in 1..n, i - 1 \in T PROVE i \in T
  <2>1. ok(i - 1) /\ i \in 0..n
    BY <1>7
  <2> HIDE DEF call
  <2>2. CASE Contains(g[i - 1], under(node)[i])
    BY <1>5, <2>1, <2>2
  <2>3. CASE ~Contains(g[i - 1], under(node)[i])
    BY <1>4, <2>1, <2>3
  <2> QED
    BY <2>2, <2>3
<1>8. \A i \in 0..n : ok(i)
  <2> HIDE DEF T
  <2>1. 0..n \subseteq T
    BY <1>6, <1>7, UpTo
  <2> QED
    BY <2>1 DEF T
<1>9. \A i \in 1..n : i - 1 \in 0..n
  OBVIOUS
<1> QED
  BY <1>2, <1>3, <1>4, <1>5, <1>8, <1>9 DEF finds

-----------------------------------------------------------------------------
\* The walks exist: each one only starts walks with less to find.
sameWithin(h, h2, m) == \A p \in Within(m) : h2[p] = h[p]

\* Walks that start from the same place with functions that agree on what they
\* may ask find the same.
LEMMA WalksAgree ==
    ASSUME IndexedChain, NEW m \in Nat, NEW h, NEW h2, grows(h, m),
           sameWithin(h, h2, m),
           NEW node \in Nodes, NEW found \in Seq(Nat), unseen(found) < m + 1,
           NEW g, walksTo(g, h, node, found, Len(under(node))),
           NEW g2, walksTo(g2, h2, node, found, Len(under(node)))
    PROVE  \A i \in 0..Len(under(node)) : g2[i] = g[i]
<1>1. /\ Len(under(node)) \in Nat
      /\ \A i \in 1..Len(under(node)) :
            under(node)[i] \in Ids /\ under(node)[i] \in Nat /\ sourceOf(under(node)[i]) \in Nodes
  BY IdsAre
<1>2. PICK n \in Nat : n = Len(under(node))
  BY <1>1
<1>3. /\ g[0] = found
      /\ \A i \in 1..n :
            /\ Contains(g[i - 1], under(node)[i]) => g[i] = g[i - 1]
            /\ ~Contains(g[i - 1], under(node)[i]) =>
                  /\ <<sourceOf(under(node)[i]), Append(g[i - 1], under(node)[i])>> \in Within(m)
                  /\ g[i] = h[<<sourceOf(under(node)[i]), Append(g[i - 1], under(node)[i])>>]
  <2>1. finds(g, h, m, node, found, Len(under(node)))
    BY WalkGrows
  <2> QED
    BY <1>2, <2>1 DEF finds
<1>4. \A i \in 0..n :
         g2[i] = IF i = 0 THEN found
                 ELSE IF Contains(g2[i - 1], under(node)[i]) THEN g2[i - 1]
                 ELSE h2[<<sourceOf(under(node)[i]), Append(g2[i - 1], under(node)[i])>>]
  BY <1>2 DEF walksTo
<1> DEFINE T == {i \in 0..n : g2[i] = g[i]}
<1>5. 0 \in T
  <2>1. 0 \in 0..n
    OBVIOUS
  <2>2. g2[0] = IF 0 = 0 THEN found
                ELSE IF Contains(g2[0 - 1], under(node)[0]) THEN g2[0 - 1]
                ELSE h2[<<sourceOf(under(node)[0]), Append(g2[0 - 1], under(node)[0])>>]
    BY <1>4, <2>1
  <2> QED
    BY <1>3, <2>1, <2>2
<1>6. ASSUME NEW i \in 1..n, i - 1 \in T PROVE i \in T
  <2>1. i \in 0..n /\ i # 0 /\ g2[i - 1] = g[i - 1]
    BY <1>6
  <2>2. g2[i] = IF Contains(g[i - 1], under(node)[i]) THEN g[i - 1]
                ELSE h2[<<sourceOf(under(node)[i]), Append(g[i - 1], under(node)[i])>>]
    BY <1>4, <2>1
  <2>3. CASE Contains(g[i - 1], under(node)[i])
    BY <1>3, <2>1, <2>2, <2>3
  <2>4. CASE ~Contains(g[i - 1], under(node)[i])
    BY <1>3, <2>1, <2>2, <2>4 DEF sameWithin
  <2> QED
    BY <2>3, <2>4
<1> HIDE DEF T
<1>7. 0..n \subseteq T
  BY <1>5, <1>6, UpTo
<1> QED
  BY <1>2, <1>7 DEF T

LEMMA VisitIs ==
    ASSUME NEW h, NEW node, NEW found, Len(under(node)) \in Nat
    PROVE  \E g : /\ walksTo(g, h, node, found, Len(under(node)))
                  /\ visit(h, node, found) = g[Len(under(node))]
<1> DEFINE is(f) == walksTo(f, h, node, found, Len(under(node)))
<1>1. \E f : is(f)
  BY WalksExist
<1> HIDE DEF is
<1>2. is(CHOOSE f : is(f))
  BY <1>1
<1> QED
  BY <1>2 DEF is, visit

LEMMA VisitsAgree ==
    ASSUME IndexedChain, NEW m \in Nat, NEW h, NEW h2, grows(h, m),
           sameWithin(h, h2, m),
           NEW p \in Within(m + 1)
    PROVE  visit(h2, p[1], p[2]) = visit(h, p[1], p[2])
<1>1. p[1] \in Nodes /\ p[2] \in Seq(Nat) /\ unseen(p[2]) < m + 1
  BY DEF Within
<1>2. Len(under(p[1])) \in Nat
  BY <1>1, IdsAre
<1>3. PICK g : /\ walksTo(g, h, p[1], p[2], Len(under(p[1])))
               /\ visit(h, p[1], p[2]) = g[Len(under(p[1]))]
  BY <1>2, VisitIs
<1>4. PICK g2 : /\ walksTo(g2, h2, p[1], p[2], Len(under(p[1])))
                /\ visit(h2, p[1], p[2]) = g2[Len(under(p[1]))]
  BY <1>2, VisitIs
<1>5. \A i \in 0..Len(under(p[1])) : g2[i] = g[i]
  <2> DEFINE node == p[1]
             found == p[2]
  <2>1. node \in Nodes /\ found \in Seq(Nat) /\ unseen(found) < m + 1
    BY <1>1
  <2>2. /\ walksTo(g, h, node, found, Len(under(node)))
        /\ walksTo(g2, h2, node, found, Len(under(node)))
    BY <1>3, <1>4
  <2> HIDE DEF node, found
  <2>4. \A i \in 0..Len(under(node)) : g2[i] = g[i]
    BY <2>1, <2>2, WalksAgree
  <2> QED
    BY <2>4 DEF node
<1>6. Len(under(p[1])) \in 0..Len(under(p[1]))
  BY <1>2
<1> QED
  BY <1>3, <1>4, <1>5, <1>6

LEMMA VisitGrows ==
    ASSUME IndexedChain, NEW m \in Nat, NEW h, grows(h, m), NEW p \in Within(m + 1)
    PROVE  visit(h, p[1], p[2]) \in Seq(Nat) /\ ToSet(p[2]) \subseteq ToSet(visit(h, p[1], p[2]))
<1>1. p[1] \in Nodes /\ p[2] \in Seq(Nat) /\ unseen(p[2]) < m + 1
  BY DEF Within
<1>2. Len(under(p[1])) \in Nat
  BY <1>1, IdsAre
<1>3. PICK g : /\ walksTo(g, h, p[1], p[2], Len(under(p[1])))
               /\ visit(h, p[1], p[2]) = g[Len(under(p[1]))]
  BY <1>2, VisitIs
<1>4. \A i \in 0..Len(under(p[1])) : g[i] \in Seq(Nat) /\ ToSet(p[2]) \subseteq ToSet(g[i])
  BY <1>1, <1>3, WalkGrows DEF finds
<1>5. Len(under(p[1])) \in 0..Len(under(p[1]))
  BY <1>2
<1> QED
  BY <1>3, <1>4, <1>5

\* A function that walks as walkTargets does, from where few are to be found.
walksWithin(f, m) ==
    f = [p \in Within(m) |-> visit(f, p[1], p[2])] /\ grows(f, m)

LEMMA WithinWidens ==
    ASSUME IndexedChain, NEW m \in Nat
    PROVE  Within(m) \subseteq Within(m + 1)
<1>1. ASSUME NEW p \in Within(m) PROVE p \in Within(m + 1)
  <2>1. unseen(p[2]) \in Nat
    BY UnseenIsNat
  <2> QED
    BY <1>1, <2>1 DEF Within
<1> QED
  BY <1>1

LEMMA OneStepFurther ==
    ASSUME IndexedChain, NEW m \in Nat, NEW f, walksWithin(f, m)
    PROVE  \E g : walksWithin(g, m + 1)
<1> DEFINE g == [p \in Within(m + 1) |-> visit(f, p[1], p[2])]
<1>1. \A p \in Within(m) : f[p] = visit(f, p[1], p[2]) /\ p \in Within(m + 1)
  <2>1. f = [p \in Within(m) |-> visit(f, p[1], p[2])]
    BY DEF walksWithin
  <2> HIDE DEF g
  <2> QED
    BY <2>1, WithinWidens
<1>2. \A p \in Within(m + 1) : g[p] = visit(f, p[1], p[2])
  OBVIOUS
<1>3. \A p \in Within(m) : g[p] = f[p]
  BY <1>1, <1>2
<1>4. g = [p \in Within(m + 1) |-> g[p]]
  OBVIOUS
<1> HIDE DEF g
<1>5. grows(f, m)
  BY DEF walksWithin
<1>6. \A p \in Within(m + 1) : g[p] = visit(g, p[1], p[2])
  <2>1. sameWithin(f, g, m)
    BY <1>3 DEF sameWithin
  <2> QED
    BY <1>2, <1>5, <2>1, VisitsAgree
<1>7. g = [p \in Within(m + 1) |-> visit(g, p[1], p[2])]
  BY <1>4, <1>6
<1>8. grows(g, m + 1)
  <2>1. \A p \in Within(m + 1) :
           visit(f, p[1], p[2]) \in Seq(Nat) /\ ToSet(p[2]) \subseteq ToSet(visit(f, p[1], p[2]))
    BY <1>5, VisitGrows
  <2> QED
    BY <1>2, <2>1 DEF grows
<1> QED
  BY <1>7, <1>8 DEF walksWithin

LEMMA WalkersExist ==
    ASSUME IndexedChain, NEW n \in Nat
    PROVE  \E f : walksWithin(f, n)
<1> DEFINE T == {k \in 0..n : \E f : walksWithin(f, k)}
<1>1. 0 \in T
  <2>1. Within(0) = {}
    <3>1. \A p \in Nodes \X Seq(Nat) : unseen(p[2]) \in Nat
      BY UnseenIsNat
    <3> QED
      BY <3>1 DEF Within
  <2> DEFINE f == [p \in {} |-> 0]
  <2>2. f = [p \in Within(0) |-> visit(f, p[1], p[2])]
    BY <2>1
  <2>3. grows(f, 0)
    BY <2>1 DEF grows
  <2> HIDE DEF f
  <2>4. walksWithin(f, 0)
    BY <2>2, <2>3 DEF walksWithin
  <2> QED
    BY <2>4
<1>2. ASSUME NEW i \in 1..n, i - 1 \in T PROVE i \in T
  <2>1. i - 1 \in Nat /\ i = (i - 1) + 1 /\ i \in 0..n
    BY <1>2
  <2>2. PICK f : walksWithin(f, i - 1)
    BY <1>2
  <2>3. \E f2 : walksWithin(f2, (i - 1) + 1)
    BY <2>1, <2>2, OneStepFurther
  <2> QED
    BY <2>1, <2>3
<1> HIDE DEF T
<1>3. 0..n \subseteq T
  BY <1>1, <1>2, UpTo
<1>4. n \in 0..n
  OBVIOUS
<1> QED
  BY <1>3, <1>4 DEF T

LEMMA WalkTargetsWalks ==
    ASSUME IndexedChain
    PROVE  /\ \A m \in Nat : grows(walkTargets, m)
           /\ \A p \in Nodes \X Seq(Nat) :
                 walkTargets[p] = visit(walkTargets, p[1], p[2])
<1>1. PICK c \in Nat : c = Cardinality(Ids) + 1
  BY UnseenIsNat
<1>2. Within(c) = Nodes \X Seq(Nat)
  <2>1. \A p \in Nodes \X Seq(Nat) : unseen(p[2]) < c
    BY <1>1, UnseenIsNat
  <2> QED
    BY <2>1 DEF Within
<1> DEFINE is(f) == f = [p \in Nodes \X Seq(Nat) |-> visit(f, p[1], p[2])]
<1>3. walkTargets = CHOOSE f : is(f)
  BY DEF walkTargets, visit, walksTo, sourceOf, under
<1>4. \E f : is(f)
  BY <1>1, <1>2, WalkersExist DEF walksWithin
<1> HIDE DEF is
<1>5. is(walkTargets)
  BY <1>3, <1>4
<1>6. \A p \in Nodes \X Seq(Nat) : walkTargets[p] = visit(walkTargets, p[1], p[2])
  <2>1. walkTargets = [p \in Nodes \X Seq(Nat) |-> visit(walkTargets, p[1], p[2])]
    BY <1>5 DEF is
  <2> QED
    BY <2>1
<1>7. ASSUME NEW m \in Nat PROVE grows(walkTargets, m)
  <2> DEFINE T == {k \in 0..m : grows(walkTargets, k)}
  <2>1. 0 \in T
    <3>1. Within(0) = {}
      <4>1. \A p \in Nodes \X Seq(Nat) : unseen(p[2]) \in Nat
        BY UnseenIsNat
      <4> QED
        BY <4>1 DEF Within
    <3> QED
      BY <3>1 DEF grows
  <2>2. ASSUME NEW i \in 1..m, i - 1 \in T PROVE i \in T
    <3>1. i - 1 \in Nat /\ i = (i - 1) + 1 /\ i \in 0..m /\ grows(walkTargets, i - 1)
      BY <2>2
    <3>2. PICK k \in Nat : k = i - 1
      BY <3>1
    <3>3. \A p \in Within(k + 1) :
             /\ walkTargets[p] = visit(walkTargets, p[1], p[2])
             /\ visit(walkTargets, p[1], p[2]) \in Seq(Nat)
             /\ ToSet(p[2]) \subseteq ToSet(visit(walkTargets, p[1], p[2]))
      <4>1. \A p \in Within(k + 1) : p \in Nodes \X Seq(Nat)
        BY DEF Within
      <4> QED
        BY <1>6, <3>1, <3>2, <4>1, VisitGrows
    <3>4. grows(walkTargets, k + 1)
      BY <3>3 DEF grows
    <3> QED
      BY <3>1, <3>2, <3>4
  <2> HIDE DEF T
  <2>3. 0..m \subseteq T
    BY <2>1, <2>2, UpTo
  <2>4. m \in 0..m
    OBVIOUS
  <2> QED
    BY <2>3, <2>4 DEF T
<1> QED
  BY <1>6, <1>7

-----------------------------------------------------------------------------
\* A walk finds just what lies upstream.
\* The nodes upstream() goes by.
closedUnder(nodes) == \A e \in ToSet(entries) : e.target \in nodes => e.source \in nodes

reached(target) ==
    {n \in Nodes : \A nodes \in SUBSET Nodes :
        target \in nodes /\ closedUnder(nodes) => n \in nodes}

LEMMA UpstreamIs ==
    ASSUME NEW target
    PROVE  upstream(target) = {e.id : e \in {f \in ToSet(entries) : f.target \in reached(target)}}
BY DEF upstream, reached, closedUnder

LEMMA ReachedFacts ==
    ASSUME IndexedChain, NEW node \in Nodes
    PROVE  /\ node \in reached(node)
           /\ \A i \in DOMAIN entries :
                 entries[i].target \in reached(node) =>
                    /\ entries[i].source \in reached(node)
                    /\ entries[i].id \in upstream(node)
           /\ \A s \in reached(node) : upstream(s) \subseteq upstream(node)
<1>1. node \in reached(node)
  BY DEF reached
<1>2. ASSUME NEW i \in DOMAIN entries, entries[i].target \in reached(node)
      PROVE  entries[i].source \in reached(node) /\ entries[i].id \in upstream(node)
  <2>1. entries[i] \in ToSet(entries) /\ entries[i].source \in Nodes
    BY IdsAre DEF ToSet
  <2>2. entries[i].source \in reached(node)
    <3>1. ASSUME NEW nodes \in SUBSET Nodes, node \in nodes, closedUnder(nodes)
          PROVE  entries[i].source \in nodes
      <4>1. entries[i].target \in nodes
        BY <1>2, <3>1 DEF reached
      <4> QED
        BY <2>1, <3>1, <4>1 DEF closedUnder
    <3> QED
      BY <2>1, <3>1 DEF reached
  <2>3. entries[i].id \in upstream(node)
    BY <1>2, <2>1, UpstreamIs
  <2> QED
    BY <2>2, <2>3
<1>3. ASSUME NEW s \in reached(node) PROVE upstream(s) \subseteq upstream(node)
  <2>1. reached(s) \subseteq reached(node)
    <3>1. ASSUME NEW x \in reached(s), NEW nodes \in SUBSET Nodes, node \in nodes, closedUnder(nodes)
          PROVE  x \in nodes
      <4>1. s \in nodes
        BY <3>1 DEF reached
      <4> QED
        BY <3>1, <4>1 DEF reached
    <3>2. reached(s) \subseteq Nodes
      BY DEF reached
    <3> QED
      BY <3>1, <3>2 DEF reached
  <2>2. /\ upstream(s) = {e.id : e \in {f \in ToSet(entries) : f.target \in reached(s)}}
        /\ upstream(node) = {e.id : e \in {f \in ToSet(entries) : f.target \in reached(node)}}
    BY UpstreamIs
  <2> QED
    BY <2>1, <2>2
<1> QED
  BY <1>1, <1>2, <1>3

\* What a walk from a node adds to what was found before.
holdsUnder(found, node) == \A i \in 1..Len(under(node)) : under(node)[i] \in found

covered(x, node, found) ==
    x \in Ids /\ x \in upstream(node) /\ holdsUnder(found, sourceOf(x))

covers(node, found, after) ==
    /\ found \subseteq after /\ holdsUnder(after, node)
    /\ \A x \in after \ found : covered(x, node, after)

LEMMA CoveredWider ==
    ASSUME NEW x, NEW node, NEW found, NEW wider, covered(x, node, found), found \subseteq wider
    PROVE  covered(x, node, wider)
BY DEF covered, holdsUnder

\* One entry more of a node's list, with all that the walk from its source adds.
LEMMA OneEntryMore ==
    ASSUME IndexedChain, NEW node \in Nodes, NEW id \in Ids, entries[at(id)].target = node,
           NEW found, NEW longer, NEW after,
           longer = found \cup {id}, covers(sourceOf(id), longer, after)
    PROVE  /\ found \subseteq after /\ id \in after
           /\ \A x \in after \ found : covered(x, node, after)
<1>1. found \subseteq after /\ id \in after
  BY DEF covers
<1>2. at(id) \in DOMAIN entries /\ entries[at(id)].id = id /\ sourceOf(id) = entries[at(id)].source
  BY IdsAre DEF sourceOf
<1>3. sourceOf(id) \in reached(node) /\ id \in upstream(node)
  BY <1>2, ReachedFacts
<1>4. upstream(sourceOf(id)) \subseteq upstream(node)
  BY <1>3, ReachedFacts
<1>5. ASSUME NEW x \in after \ found PROVE covered(x, node, after)
  <2>1. CASE x = id
    BY <1>3, <2>1 DEF covered, covers
  <2>2. CASE x # id
    <3>1. covered(x, sourceOf(id), after)
      BY <1>5, <2>2 DEF covers
    <3> QED
      BY <1>4, <3>1 DEF covered
  <2> QED
    BY <2>1, <2>2
<1> QED
  BY <1>1, <1>5

coversWithin(m) ==
    \A p \in Within(m) : covers(p[1], ToSet(p[2]), ToSet(walkTargets[p]))

LEMMA AppendedSet ==
    ASSUME NEW s \in Seq(Nat), NEW x \in Nat
    PROVE  Append(s, x) \in Seq(Nat) /\ ToSet(Append(s, x)) = ToSet(s) \cup {x}
<1>1. /\ DOMAIN s = 1..Len(s) /\ Len(s) \in Nat
      /\ Append(s, x) \in Seq(Nat)
      /\ DOMAIN Append(s, x) = 1..(Len(s) + 1)
      /\ \A i \in 1..Len(s) : Append(s, x)[i] = s[i]
      /\ Append(s, x)[Len(s) + 1] = x
  BY OneMore
<1>2. 1..(Len(s) + 1) = 1..Len(s) \cup {Len(s) + 1}
  BY <1>1
<1>3. {Append(s, x)[i] : i \in 1..Len(s)} = {s[i] : i \in 1..Len(s)}
  BY <1>1
<1> QED
  BY <1>1, <1>2, <1>3 DEF ToSet

LEMMA ContainedIsIn ==
    ASSUME NEW s \in Seq(Nat), NEW x
    PROVE  Contains(s, x) <=> x \in ToSet(s)
BY LenProperties DEF Contains, ToSet

LEMMA OneStepCovers ==
    ASSUME IndexedChain, NEW m \in Nat, coversWithin(m)
    PROVE  coversWithin(m + 1)
<1> SUFFICES ASSUME NEW p \in Within(m + 1)
             PROVE  covers(p[1], ToSet(p[2]), ToSet(walkTargets[p]))
  BY DEF coversWithin
<1> DEFINE node == p[1]
           found == p[2]
           F == ToSet(found)
<1>1. /\ p \in Nodes \X Seq(Nat) /\ node \in Nodes /\ found \in Seq(Nat)
      /\ unseen(found) < m + 1
  BY DEF Within
<1>2. walkTargets[p] = visit(walkTargets, node, found)
  BY <1>1, WalkTargetsWalks
<1>3. grows(walkTargets, m)
  BY WalkTargetsWalks
<1> HIDE DEF node, found
<1>4. PICK n \in Nat : n = Len(under(node))
  BY <1>1, IdsAre
<1>5. \A i \in 1..n :
         under(node)[i] \in Ids /\ under(node)[i] \in Nat
         /\ entries[at(under(node)[i])].target = node
  BY <1>1, <1>4, IdsAre
<1>6. PICK g : /\ walksTo(g, walkTargets, node, found, Len(under(node)))
               /\ visit(walkTargets, node, found) = g[Len(under(node))]
  BY <1>1, <1>4, VisitIs
<1>7. /\ \A i \in 0..n : g[i] \in Seq(Nat)
      /\ \A i \in 1..n : Contains(g[i - 1], under(node)[i]) => g[i] = g[i - 1]
      /\ \A i \in 1..n : ~Contains(g[i - 1], under(node)[i]) =>
            /\ <<sourceOf(under(node)[i]), Append(g[i - 1], under(node)[i])>> \in Within(m)
            /\ g[i] = walkTargets[<<sourceOf(under(node)[i]), Append(g[i - 1], under(node)[i])>>]
      /\ g[0] = found
  <2>1. finds(g, walkTargets, m, node, found, Len(under(node)))
    BY <1>1, <1>3, <1>6, WalkGrows
  <2>2. finds(g, walkTargets, m, node, found, n)
    BY <1>4, <2>1
  <2> QED
    BY <2>2 DEF finds
<1> DEFINE ok(i) ==
              /\ F \subseteq ToSet(g[i])
              /\ \A j \in 1..i : under(node)[j] \in ToSet(g[i])
              /\ \A x \in ToSet(g[i]) \ F : covered(x, node, ToSet(g[i]))
           T == {i \in 0..n : ok(i)}
<1>8. 0 \in T
  BY <1>7
<1>9. ASSUME NEW i \in 1..n, i - 1 \in T PROVE i \in T
  <2>1. /\ i - 1 \in 0..n /\ i \in 0..n /\ ok(i - 1)
        /\ g[i - 1] \in Seq(Nat) /\ g[i] \in Seq(Nat)
    BY <1>7, <1>9
  <2>2. \A j \in 1..i : j \in 1..(i - 1) \/ j = i
    BY <1>9
  <2> DEFINE id == under(node)[i]
             B == ToSet(g[i - 1])
             A == ToSet(g[i])
  <2>3. id \in Ids /\ id \in Nat /\ entries[at(id)].target = node
    BY <1>5
  <2> HIDE DEF id
  <2>4. B \subseteq A /\ id \in A /\ \A x \in A \ B : covered(x, node, A)
    <3>1. CASE Contains(g[i - 1], id)
      <4>1. g[i] = g[i - 1]
        BY <1>7, <3>1 DEF id
      <4>2. id \in B
        BY <2>1, <3>1, ContainedIsIn
      <4> QED
        BY <4>1, <4>2
    <3>2. CASE ~Contains(g[i - 1], id)
      <4> DEFINE longer == Append(g[i - 1], id)
                 q == <<sourceOf(id), longer>>
      <4>1. q \in Within(m) /\ g[i] = walkTargets[q]
        BY <1>7, <3>2 DEF id
      <4>2. ToSet(longer) = B \cup {id}
        BY <2>1, <2>3, AppendedSet
      <4> HIDE DEF longer
      <4>3. covers(q[1], ToSet(q[2]), ToSet(walkTargets[q]))
        BY <4>1 DEF coversWithin
      <4>4. covers(sourceOf(id), ToSet(longer), A)
        BY <4>1, <4>3
      <4> QED
        BY <1>1, <2>3, <4>2, <4>4, OneEntryMore
    <3> QED
      BY <3>1, <3>2
  <2>5. F \subseteq A
    BY <2>1, <2>4
  <2>6. \A j \in 1..i : under(node)[j] \in A
    BY <2>1, <2>2, <2>4 DEF id
  <2>7. ASSUME NEW x \in A \ F PROVE covered(x, node, A)
    <3>1. CASE x \in B
      <4>1. covered(x, node, B)
        BY <2>1, <2>7, <3>1
      <4> QED
        BY <2>4, <4>1, CoveredWider
    <3>2. CASE x \notin B
      BY <2>4, <2>7, <3>2
    <3> QED
      BY <3>1, <3>2
  <2> QED
    BY <2>1, <2>5, <2>6, <2>7
<1>10. ok(n)
  <2> HIDE DEF T
  <2>1. 0..n \subseteq T
    BY <1>8, <1>9, UpTo
  <2>2. n \in 0..n
    OBVIOUS
  <2> QED
    BY <2>1, <2>2 DEF T
<1>11. g[n] = walkTargets[p]
  BY <1>2, <1>4, <1>6
<1> QED
  BY <1>4, <1>10, <1>11 DEF covers, holdsUnder, node, found

LEMMA WalksCover ==
    ASSUME IndexedChain, NEW p \in Nodes \X Seq(Nat)
    PROVE  covers(p[1], ToSet(p[2]), ToSet(walkTargets[p]))
<1>1. PICK c \in Nat : c = unseen(p[2]) + 1
  BY UnseenIsNat
<1> DEFINE T == {k \in 0..c : coversWithin(k)}
<1>2. 0 \in T
  <2>1. Within(0) = {}
    <3>1. \A q \in Nodes \X Seq(Nat) : unseen(q[2]) \in Nat
      BY UnseenIsNat
    <3> QED
      BY <3>1 DEF Within
  <2> QED
    BY <2>1 DEF coversWithin
<1>3. ASSUME NEW i \in 1..c, i - 1 \in T PROVE i \in T
  <2>1. i - 1 \in Nat /\ i = (i - 1) + 1 /\ i \in 0..c /\ coversWithin(i - 1)
    BY <1>3
  <2>2. coversWithin((i - 1) + 1)
    BY <2>1, OneStepCovers
  <2> QED
    BY <2>1, <2>2
<1> HIDE DEF T
<1>4. 0..c \subseteq T
  BY <1>2, <1>3, UpTo
<1>5. c \in 0..c
  OBVIOUS
<1>6. coversWithin(c)
  BY <1>4, <1>5 DEF T
<1>7. p \in Within(c)
  BY <1>1, UnseenIsNat DEF Within
<1> QED
  BY <1>6, <1>7 DEF coversWithin

LEMMA LineageIsUpstream ==
    ASSUME IndexedChain, NEW n \in Nodes
    PROVE  ToSet(walkTargets[<<n, <<>>>>]) = upstream(n)
<1> DEFINE p == <<n, <<>>>>
           R == ToSet(walkTargets[p])
<1>1. p \in Nodes \X Seq(Nat) /\ p[1] = n /\ p[2] = <<>> /\ ToSet(p[2]) = {}
  <2>1. <<>> \in Seq(Nat) /\ DOMAIN <<>> = {}
    OBVIOUS
  <2> QED
    BY <2>1 DEF ToSet
<1>2. covers(n, {}, R)
  <2> HIDE DEF p
  <2> QED
    BY <1>1, WalksCover
<1> HIDE DEF p
<1>3. /\ \A x \in R : x \in Ids /\ x \in upstream(n) /\ holdsUnder(R, sourceOf(x))
      /\ holdsUnder(R, n)
  BY <1>2 DEF covers, covered
<1> DEFINE N == {n} \cup {sourceOf(x) : x \in R}
<1>4. N \in SUBSET Nodes /\ n \in N
  BY <1>3, IdsAre
<1>5. ASSUME NEW i \in DOMAIN entries, entries[i].target \in N
      PROVE  entries[i].id \in R /\ entries[i].source \in N
  <2>1. holdsUnder(R, entries[i].target)
    BY <1>3, <1>5
  <2>2. entries[i].target \in Nodes
    BY IdsAre
  <2>3. PICK j \in 1..Len(under(entries[i].target)) : under(entries[i].target)[j] = entries[i].id
    BY <2>2, IdsAre
  <2>4. entries[i].id \in R
    BY <2>1, <2>3 DEF holdsUnder
  <2>5. sourceOf(entries[i].id) = entries[i].source
    BY IdsAre DEF sourceOf
  <2> QED
    BY <2>4, <2>5
<1>6. closedUnder(N)
  BY <1>5 DEF closedUnder, ToSet
<1>7. reached(n) \subseteq N
  BY <1>4, <1>6 DEF reached
<1>8. upstream(n) \subseteq R
  <2>1. \A e \in ToSet(entries) : e.target \in N => e.id \in R
    BY <1>5 DEF ToSet
  <2> HIDE DEF N, R
  <2> QED
    BY <1>7, <2>1, UpstreamIs
<1>9. R \subseteq upstream(n)
  BY <1>3
<1> QED
  BY <1>8, <1>9 DEF p

LEMMA LineageHolds == ProvenanceInv => LineageComplete
<1> SUFFICES ASSUME ProvenanceInv, tracker = "provenance", NEW n \in Nodes
             PROVE  ToSet(walkTargets[<<n, <<>>>>]) = upstream(n)
  BY DEF LineageComplete
<1>1. IndexedChain
  BY DEF ProvenanceInv, IndexedChain
<1> QED
  BY <1>1, LineageIsUpstream

(***************************************************************************)
(* Whatever is recorded, dropped, exported and imported, the entries stay  *)
(* one chain, the indexes list just the entries that are left in their     *)
(* order, and a lineage is every entry a path to its target goes through.  *)
(***************************************************************************)
THEOREM ChainsStayUnbroken ==
    ProvenanceSpec =>
        [](ProvenanceTypeOK /\ ChainsUnbroken /\ IndexesAgree /\ LineageComplete)
  BY ProvenanceStarts, ProvenanceStepsKeepInv, ProvenanceInvHolds, LineageHolds, PTL
     DEF ProvenanceSpec

-----------------------------------------------------------------------------
(***************************************************************************)
(* The strict JSON scanner. A frame counts and names members; whatever a   *)
(* token does, an error, an end or a new container leaves a list of        *)
(* frames.                                                                 *)
(***************************************************************************)
Frame == [kind : {"object", "array"}, keys : SUBSET Nat, count : Nat]

Outcome == {"none", "accepted", "json.parse", "json.limits", "json.duplicate_key"}

ScannerInv ==
    /\ text \in Seq(Tokens) /\ Len(text) <= MaxTokens
    /\ stack \in Seq(Frame)
    /\ expects \in Expectation /\ outcome \in Outcome
    /\ heap \in [Objects -> Seq(Objects)]

LEMMA ScannerInvHolds == ScannerInv => StrictJsonTypeOK
<1> SUFFICES ASSUME ScannerInv PROVE StrictJsonTypeOK
  OBVIOUS
<1>1. \A i \in DOMAIN stack :
         /\ stack[i].kind \in {"object", "array"}
         /\ stack[i].keys \in SUBSET Nat /\ stack[i].count \in Nat
  <2>1. \A i \in DOMAIN stack : stack[i] \in Frame
    BY ElementOfSeq, LenProperties DEF ScannerInv
  <2> QED
    BY <2>1 DEF Frame
<1> QED
  BY <1>1 DEF ScannerInv, StrictJsonTypeOK, Outcome

\* What a token may do to the frames, what is expected and the outcome.
ScannerKept ==
    stack' \in Seq(Frame) /\ expects' \in Expectation /\ outcome' \in Outcome

LEMMA ThrowKeeps ==
    ASSUME ScannerInv, NEW e \in Outcome, throw(e)
    PROVE  ScannerKept
  BY DEF throw, ScannerInv, ScannerKept

LEMMA ExpectationAfterValue == \A frames : afterValue(frames) \in Expectation
  BY DEF afterValue, Expectation

LEMMA CountingKeepsFrames ==
    ASSUME NEW frames \in Seq(Frame)
    PROVE  [frames EXCEPT ![Len(frames)].count = @ + 1] \in Seq(Frame)
<1> DEFINE counted == [frames EXCEPT ![Len(frames)].count = @ + 1]
<1>1. DOMAIN counted = DOMAIN frames /\ DOMAIN frames = 1..Len(frames) /\ Len(frames) \in Nat
  BY LenProperties
<1>2. ASSUME NEW i \in 1..Len(frames) PROVE counted[i] \in Frame
  <2>1. frames[i] \in Frame
    BY ElementOfSeq
  <2>2. frames[i].count + 1 \in Nat
    BY <2>1 DEF Frame
  <2>3. counted[i] = IF i = Len(frames) THEN [frames[i] EXCEPT !.count = @ + 1] ELSE frames[i]
    BY <1>1
  <2> QED
    BY <2>1, <2>2, <2>3 DEF Frame
<1>3. counted = [i \in 1..Len(frames) |-> counted[i]]
  BY <1>1
<1> HIDE DEF counted
<1>4. counted \in [1..Len(frames) -> Frame]
  BY <1>2, <1>3
<1>5. counted \in Seq(Frame)
  BY <1>1, <1>4, SeqDef
<1> QED
  BY <1>5 DEF counted

LEMMA EndedKeeps ==
    ASSUME ScannerInv, NEW frames \in Seq(Frame), valueEnds(frames)
    PROVE  ScannerKept
<1> DEFINE array == frames # <<>> /\ Last(frames).kind = "array"
           counted == IF array THEN [frames EXCEPT ![Len(frames)].count = @ + 1] ELSE frames
<1>1. counted \in Seq(Frame)
  BY CountingKeepsFrames
<1>2. CASE array /\ Last(counted).count > maxMembers
  <2>1. throw("json.limits")
    BY <1>2 DEF valueEnds
  <2> QED
    BY <2>1, ThrowKeeps DEF Outcome
<1>3. CASE ~(array /\ Last(counted).count > maxMembers)
  <2>1. stack' = counted /\ expects' = afterValue(counted) /\ outcome' = outcome
    BY <1>3 DEF valueEnds
  <2> QED
    BY <1>1, <2>1, ExpectationAfterValue DEF ScannerInv, ScannerKept
<1> QED
  BY <1>2, <1>3

LEMMA EnteringKeeps ==
    ASSUME ScannerInv, NEW kind \in {"object", "array"}, enterContainer(kind)
    PROVE  ScannerKept
<1>1. CASE Len(stack) >= maxDepth
  BY <1>1, ThrowKeeps DEF enterContainer, Outcome
<1>2. CASE ~(Len(stack) >= maxDepth)
  <2>1. [kind |-> kind, keys |-> {}, count |-> 0] \in Frame
    BY DEF Frame
  <2>2. Append(stack, [kind |-> kind, keys |-> {}, count |-> 0]) \in Seq(Frame)
    BY <2>1, AppendProperties DEF ScannerInv
  <2> QED
    BY <1>2, <2>2 DEF enterContainer, ScannerInv, ScannerKept, Expectation
<1> QED
  BY <1>1, <1>2

LEMMA LeavingKeeps ==
    ASSUME ScannerInv, leaveContainer
    PROVE  ScannerKept
<1>1. Front(stack) \in Seq(Frame)
  <2>1. /\ Len(stack) \in Nat /\ DOMAIN stack = 1..Len(stack)
        /\ \A i \in 1..Len(stack) : stack[i] \in Frame
    BY LenProperties, ElementOfSeq DEF ScannerInv
  <2>2. Front(stack) = SubSeq(stack, 1, Len(stack) - 1)
    BY DEF Front
  <2>3. CASE Len(stack) = 0
    <3>1. SubSeq(stack, 1, Len(stack) - 1) = <<>>
      BY <2>3, SubSeqEmpty DEF ScannerInv
    <3> QED
      BY <2>2, <3>1
  <2>4. CASE Len(stack) # 0
    <3>1. 1 \in 1..(Len(stack) + 1) /\ Len(stack) - 1 \in 0..Len(stack)
      BY <2>1, <2>4
    <3> QED
      BY <2>2, <3>1, SubSeqProperties DEF ScannerInv
  <2> QED
    BY <2>3, <2>4
<1> QED
  BY <1>1, EndedKeeps DEF leaveContainer

LEMMA StringsAreTyped ==
    ASSUME ScannerInv, NEW token \in Strings
    PROVE  readString(token) => ScannerKept
<1> SUFFICES ASSUME readString(token) PROVE ScannerKept
  OBVIOUS
<1>1. CASE throw("json.parse") \/ throw("json.limits")
  BY <1>1, ThrowKeeps DEF Outcome
<1>2. CASE valueEnds(stack)
  BY <1>2, EndedKeeps DEF ScannerInv
<1> QED
  BY <1>1, <1>2 DEF readString

LEMMA KeysAreTyped ==
    ASSUME ScannerInv, NEW token \in Strings
    PROVE  readKey(token) => ScannerKept
<1> SUFFICES ASSUME readKey(token) PROVE ScannerKept
  OBVIOUS
<1> DEFINE key == keyOf(token)
           added == [stack EXCEPT ![Len(stack)].keys = @ \cup {key},
                                  ![Len(stack)].count = @ + 1]
<1>1. CASE throw("json.parse") \/ throw("json.limits") \/ throw("json.duplicate_key")
  BY <1>1, ThrowKeeps DEF Outcome
<1>2. CASE stack' = added /\ expects' = "colon" /\ UNCHANGED outcome
  <2>1. key \in Nat
    BY DecodeAssumption DEF keyOf
  <2>2. DOMAIN added = DOMAIN stack /\ DOMAIN stack = 1..Len(stack) /\ Len(stack) \in Nat
    BY LenProperties DEF ScannerInv
  <2>3. ASSUME NEW i \in 1..Len(stack) PROVE added[i] \in Frame
    <3>1. stack[i] \in Frame
      BY ElementOfSeq DEF ScannerInv
    <3>2. stack[i].count + 1 \in Nat /\ stack[i].keys \cup {key} \in SUBSET Nat
      BY <2>1, <3>1 DEF Frame
    <3>3. added[i] = IF i = Len(stack)
                     THEN [stack[i] EXCEPT !.keys = @ \cup {key}, !.count = @ + 1]
                     ELSE stack[i]
      BY <2>2
    <3> HIDE DEF added, key
    <3> QED
      BY <3>1, <3>2, <3>3 DEF Frame
  <2>4. added = [i \in 1..Len(stack) |-> added[i]]
    BY <2>2
  <2> HIDE DEF added
  <2>5. added \in [1..Len(stack) -> Frame]
    BY <2>3, <2>4
  <2>6. added \in Seq(Frame)
    BY <2>2, <2>5, SeqDef
  <2> QED
    BY <1>2, <2>6 DEF ScannerInv, ScannerKept, Expectation
<1> QED
  BY <1>1, <1>2 DEF readKey

LEMMA ScanningKeepsInv ==
    ASSUME ScannerInv, NEW token \in Tokens, scan(token)
    PROVE  ScannerInv'
<1>1. ScannerKept
  <2>1. CASE enterContainer("object") \/ enterContainer("array")
    BY <2>1, EnteringKeeps
  <2>2. CASE valueEnds(stack)
    BY <2>2, EndedKeeps DEF ScannerInv
  <2>3. CASE isString(token) /\ (readString(token) \/ readKey(token))
    BY <2>3, StringsAreTyped, KeysAreTyped DEF isString
  <2>4. CASE moveOn("value") \/ moveOn("key")
    BY <2>4 DEF moveOn, ScannerInv, ScannerKept, Expectation
  <2>5. CASE leaveContainer
    BY <2>5, LeavingKeeps
  <2>6. CASE throw("json.parse")
    BY <2>6, ThrowKeeps DEF Outcome
  <2> QED
    BY <2>1, <2>2, <2>3, <2>4, <2>5, <2>6 DEF scan
<1>2. text' \in Seq(Tokens) /\ Len(text') <= MaxTokens
  <2>1. Len(text) < MaxTokens /\ text' = Append(text, token) /\ text \in Seq(Tokens)
    BY DEF scan, ScannerInv
  <2>2. Len(text) \in Nat /\ Len(Append(text, token)) = Len(text) + 1
        /\ Append(text, token) \in Seq(Tokens)
    BY <2>1, AppendProperties, LenProperties
  <2> QED
    BY <2>1, <2>2, LimitsAssumption
<1>3. heap' = heap
  BY DEF scan
<1> QED
  BY <1>1, <1>2, <1>3 DEF ScannerInv, ScannerKept

LEMMA ScannerStepsKeepInv ==
    ScannerInv /\ [StrictJsonNext]_jsonTextVars => ScannerInv'
<1> SUFFICES ASSUME ScannerInv, [StrictJsonNext]_jsonTextVars PROVE ScannerInv'
  OBVIOUS
<1>1. CASE UNCHANGED jsonTextVars
  BY <1>1 DEF jsonTextVars, ScannerInv
<1>2. ASSUME NEW token \in Tokens, scan(token) PROVE ScannerInv'
  BY <1>2, ScanningKeepsInv
<1>3. CASE endOfText
  BY <1>3 DEF endOfText, ScannerInv, Outcome
<1>4. ASSUME NEW o \in Objects, NEW p \in Objects, link(o, p) PROVE ScannerInv'
  <2>1. Append(heap[o], p) \in Seq(Objects)
    BY AppendProperties DEF ScannerInv
  <2>2. heap' = [heap EXCEPT ![o] = Append(heap[o], p)] /\ UNCHANGED scannerVars
    BY <1>4 DEF link
  <2> QED
    BY <2>1, <2>2 DEF ScannerInv, scannerVars
<1> QED
  BY <1>1, <1>2, <1>3, <1>4 DEF StrictJsonNext

LEMMA ScannerStarts == StrictJsonInit => ScannerInv
  BY LimitsAssumption DEF StrictJsonInit, ScannerInv, Expectation, Outcome

(***************************************************************************)
(* The scanner keeps its frames, what it expects and its outcome in their  *)
(* types, over any text and within any limits.                             *)
(***************************************************************************)
THEOREM ScannerStaysTyped == StrictJsonSpec => []StrictJsonTypeOK
  BY ScannerStarts, ScannerStepsKeepInv, ScannerInvHolds, PTL DEF StrictJsonSpec

-----------------------------------------------------------------------------
(***************************************************************************)
(* What the frames say of the text. The inductive invariant names, for     *)
(* every frame, the token that opened its container: the frame holds the   *)
(* names and the count of what is directly inside it, the depth never fell *)
(* below it since, and every container that was closed had no name twice.  *)
(* What is expected next tells a name from a value by the last token.      *)
(***************************************************************************)
\* The tokens that matter, by names the provers can read.
Brace == "{"
Comma == ","
Opens == {"{", "["}
Shuts == {"}", "]"}

LEMMA TokensDiffer ==
    /\ Brace \in Opens /\ "[" \in Opens /\ "[" # Brace
    /\ \A x \in Opens : x = Brace \/ x = "["
    /\ \A x \in Opens : x \notin Shuts /\ x \notin Strings /\ x # Comma /\ x # ":"
    /\ \A x \in Shuts : x \notin Strings /\ x # Comma /\ x # ":"
    /\ Comma # ":" /\ Comma \notin Strings /\ ":" \notin Strings /\ "scalar" \notin Strings
    /\ "scalar" # Comma /\ "scalar" # ":"
    /\ "scalar" \notin Opens /\ "scalar" \notin Shuts
    /\ Opens \subseteq Tokens /\ Shuts \subseteq Tokens /\ Strings \subseteq Tokens
  BY StringsAssumption DEF Brace, Comma, Opens, Shuts, Tokens

\* How many of the first n tokens are of a kind, and how deep they go.
countIn(t, kinds, n) == Cardinality({i \in 1..n : t[i] \in kinds})

depth(t, n) == countIn(t, Opens, n) - countIn(t, Shuts, n)

deeper(token) ==
    IF token \in Opens THEN 1 ELSE IF token \in Shuts THEN 0 - 1 ELSE 0

LEMMA CountsStep ==
    ASSUME NEW t, NEW kinds, NEW n \in Nat
    PROVE  /\ countIn(t, kinds, n) \in Nat /\ countIn(t, kinds, 0) = 0
           /\ countIn(t, kinds, n + 1) =
                 countIn(t, kinds, n) + (IF t[n + 1] \in kinds THEN 1 ELSE 0)
<1> DEFINE those == {i \in 1..n : t[i] \in kinds}
<1>1. IsFiniteSet(1..n) /\ IsFiniteSet(those) /\ Cardinality(those) \in Nat
  <2>1. IsFiniteSet(1..n)
    BY FS_Interval
  <2>2. IsFiniteSet(those)
    BY <2>1, FS_Subset
  <2> QED
    BY <2>1, <2>2, FS_CardinalityType
<1>2. {i \in 1..0 : t[i] \in kinds} = {}
  OBVIOUS
<1>3. n + 1 \notin those
  OBVIOUS
<1>4. CASE t[n + 1] \in kinds
  <2>1. {i \in 1..(n + 1) : t[i] \in kinds} = those \cup {n + 1}
    BY <1>4
  <2>2. Cardinality(those \cup {n + 1}) = Cardinality(those) + 1
    BY <1>1, <1>3, FS_AddElement
  <2> QED
    BY <1>1, <1>2, <1>4, <2>1, <2>2, FS_EmptySet DEF countIn
<1>5. CASE t[n + 1] \notin kinds
  <2>1. {i \in 1..(n + 1) : t[i] \in kinds} = those
    BY <1>5
  <2>2. countIn(t, kinds, n + 1) = countIn(t, kinds, n)
    BY <2>1 DEF countIn
  <2>3. countIn(t, kinds, n) \in Nat /\ countIn(t, kinds, 0) = 0
    BY <1>1, <1>2, FS_EmptySet DEF countIn
  <2> QED
    BY <1>5, <2>2, <2>3
<1> QED
  BY <1>4, <1>5

LEMMA DepthStep ==
    ASSUME NEW t, NEW n \in Nat
    PROVE  /\ depth(t, n) \in Int /\ depth(t, 0) = 0
           /\ depth(t, n + 1) = depth(t, n) + deeper(t[n + 1])
<1>1. /\ countIn(t, Opens, n) \in Nat /\ countIn(t, Opens, 0) = 0
      /\ countIn(t, Opens, n + 1) =
            countIn(t, Opens, n) + (IF t[n + 1] \in Opens THEN 1 ELSE 0)
  BY CountsStep
<1>2. /\ countIn(t, Shuts, n) \in Nat /\ countIn(t, Shuts, 0) = 0
      /\ countIn(t, Shuts, n + 1) =
            countIn(t, Shuts, n) + (IF t[n + 1] \in Shuts THEN 1 ELSE 0)
  BY CountsStep
<1>3. t[n + 1] \in Opens => t[n + 1] \notin Shuts
  BY TokensDiffer
<1> QED
  BY <1>1, <1>2, <1>3 DEF depth, deeper

LEMMA DepthSame ==
    ASSUME NEW t, NEW u, NEW n \in Nat, \A i \in 1..n : t[i] = u[i]
    PROVE  depth(t, n) = depth(u, n)
<1>1. \A kinds : {i \in 1..n : t[i] \in kinds} = {i \in 1..n : u[i] \in kinds}
  OBVIOUS
<1> QED
  BY <1>1 DEF depth, countIn

\* What is directly inside a container opened at i, up to token n.
insideAt(t, i, n) == {k \in (i + 1)..n : depth(t, k) = depth(t, i)}

keysAt(t, i, n) == {k \in insideAt(t, i, n) : t[k] \in Strings /\ t[k - 1] # ":"}

namesAt(t, i, n) == {decode[t[k]] : k \in keysAt(t, i, n)}

itemsAt(t, i, n) == {k \in insideAt(t, i, n) : t[k] # Comma}

\* A text with one token more.
extends(u, t, x) == t \in Seq(Tokens) /\ x \in Tokens /\ u = Append(t, x)

LEMMA OneTokenMore ==
    ASSUME NEW t, NEW x, NEW u, extends(u, t, x)
    PROVE  /\ u \in Seq(Tokens) /\ Len(t) \in Nat /\ Len(u) = Len(t) + 1
           /\ u[Len(t) + 1] = x /\ \A i \in 1..Len(t) : u[i] = t[i]
           /\ \A i \in 0..Len(t) : depth(u, i) = depth(t, i) /\ depth(t, i) \in Int
           /\ depth(u, Len(t) + 1) = depth(t, Len(t)) + deeper(x)
<1>1. /\ u \in Seq(Tokens) /\ Len(t) \in Nat /\ Len(u) = Len(t) + 1
      /\ u[Len(t) + 1] = x /\ \A i \in 1..Len(t) : u[i] = t[i]
  BY AppendProperties, LenProperties DEF extends
<1>2. ASSUME NEW i \in 0..Len(t)
      PROVE  depth(u, i) = depth(t, i) /\ depth(t, i) \in Int
  <2>1. i \in Nat /\ \A k \in 1..i : u[k] = t[k]
    BY <1>1
  <2> QED
    BY <2>1, DepthSame, DepthStep
<1>3. depth(u, Len(t) + 1) = depth(t, Len(t)) + deeper(x)
  <2>1. depth(u, Len(t) + 1) = depth(u, Len(t)) + deeper(u[Len(t) + 1])
    BY <1>1, DepthStep
  <2> QED
    BY <1>1, <1>2, <2>1
<1> QED
  BY <1>1, <1>2, <1>3

LEMMA InsideKept ==
    ASSUME NEW t, NEW x, NEW u, extends(u, t, x),
           NEW i \in 1..Len(t), NEW n \in 0..Len(t)
    PROVE  /\ insideAt(u, i, n) = insideAt(t, i, n) /\ keysAt(u, i, n) = keysAt(t, i, n)
           /\ namesAt(u, i, n) = namesAt(t, i, n)
<1>1. /\ Len(t) \in Nat /\ \A k \in 1..Len(t) : u[k] = t[k]
      /\ \A k \in 0..Len(t) : depth(u, k) = depth(t, k)
  BY OneTokenMore
<1>2. insideAt(u, i, n) = insideAt(t, i, n)
  BY <1>1 DEF insideAt
<1>3. \A k \in insideAt(t, i, n) : u[k] = t[k] /\ u[k - 1] = t[k - 1]
  BY <1>1 DEF insideAt
<1>4. keysAt(u, i, n) = keysAt(t, i, n)
  BY <1>2, <1>3 DEF keysAt
<1>5. \A k \in keysAt(t, i, n) : u[k] = t[k]
  BY <1>3 DEF keysAt
<1>6. namesAt(u, i, n) = namesAt(t, i, n)
  BY <1>4, <1>5 DEF namesAt
<1> QED
  BY <1>2, <1>4, <1>6

\* What one more token is for the container opened at i.
isKey(t, x) == x \in Strings /\ t[Len(t)] # ":"

LEMMA InsideGrows ==
    ASSUME NEW t, NEW x, NEW u, extends(u, t, x),
           NEW i \in 1..Len(t)
    PROVE  LET same == depth(t, Len(t)) + deeper(x) = depth(t, i) IN
           /\ keysAt(u, i, Len(t) + 1) = keysAt(t, i, Len(t)) \cup
                  (IF same /\ isKey(t, x) THEN {Len(t) + 1} ELSE {})
           /\ namesAt(u, i, Len(t) + 1) = namesAt(t, i, Len(t)) \cup
                  (IF same /\ isKey(t, x) THEN {decode[x]} ELSE {})
           /\ itemsAt(u, i, Len(t) + 1) = itemsAt(t, i, Len(t)) \cup
                  (IF same /\ x # Comma THEN {Len(t) + 1} ELSE {})
<1> DEFINE n == Len(t)
           same == depth(t, n) + deeper(x) = depth(t, i)
<1>1. /\ n \in Nat /\ u[n + 1] = x /\ \A k \in 1..n : u[k] = t[k]
      /\ \A k \in 0..n : depth(u, k) = depth(t, k)
      /\ depth(u, n + 1) = depth(t, n) + deeper(x)
  BY OneTokenMore
<1>2. i \in 1..n
  OBVIOUS
<1> HIDE DEF n
<1>3. insideAt(u, i, n + 1) = insideAt(t, i, n) \cup (IF same THEN {n + 1} ELSE {})
  BY <1>1, <1>2 DEF insideAt
<1>4. \A k \in insideAt(t, i, n) : u[k] = t[k] /\ u[k - 1] = t[k - 1]
  BY <1>1, <1>2 DEF insideAt
<1>5. \A k : k = n + 1 => (u[k] \in Strings /\ u[k - 1] # ":" <=> isKey(t, x))
  <2>1. ASSUME NEW k, k = n + 1 PROVE u[k] = x /\ u[k - 1] = t[n]
    BY <1>1, <1>2, <2>1
  <2> QED
    BY <2>1 DEF isKey, n
<1>6. \A k : k \in keysAt(u, i, n + 1) <=>
                k \in keysAt(t, i, n) \/ (same /\ isKey(t, x) /\ k = n + 1)
  <2>1. \A k \in insideAt(t, i, n) :
           (u[k] \in Strings /\ u[k - 1] # ":") <=> (t[k] \in Strings /\ t[k - 1] # ":")
    BY <1>4
  <2>2. \A k : k \in insideAt(u, i, n + 1) <=> k \in insideAt(t, i, n) \/ (same /\ k = n + 1)
    BY <1>3
  <2>3. \A k : k \in keysAt(u, i, n + 1) <=>
                 k \in insideAt(u, i, n + 1) /\ u[k] \in Strings /\ u[k - 1] # ":"
    BY DEF keysAt
  <2>4. \A k : k \in keysAt(t, i, n) <=>
                 k \in insideAt(t, i, n) /\ t[k] \in Strings /\ t[k - 1] # ":"
    BY DEF keysAt
  <2> HIDE DEF same
  <2> QED
    BY <1>5, <2>1, <2>2, <2>3, <2>4
<1>7. keysAt(u, i, n + 1) =
          keysAt(t, i, n) \cup (IF same /\ isKey(t, x) THEN {n + 1} ELSE {})
  <2> HIDE DEF same
  <2> QED
    BY <1>6
<1>8. itemsAt(u, i, n + 1) = itemsAt(t, i, n) \cup (IF same /\ x # Comma THEN {n + 1} ELSE {})
  BY <1>1, <1>3, <1>4 DEF itemsAt
<1>9. \A k \in keysAt(t, i, n) : u[k] = t[k]
  BY <1>4 DEF keysAt
<1>10. namesAt(u, i, n + 1) =
           namesAt(t, i, n) \cup (IF same /\ isKey(t, x) THEN {decode[x]} ELSE {})
  <2> HIDE DEF same
  <2> QED
    BY <1>1, <1>7, <1>9 DEF namesAt
<1> QED
  BY <1>7, <1>8, <1>10 DEF n

LEMMA InsideFinite ==
    ASSUME NEW t, NEW i \in Nat, NEW n \in Nat
    PROVE  /\ IsFiniteSet(keysAt(t, i, n)) /\ IsFiniteSet(itemsAt(t, i, n))
           /\ IsFiniteSet(namesAt(t, i, n))
           /\ \A k \in insideAt(t, i, n) : k \in (i + 1)..n
<1>1. IsFiniteSet((i + 1)..n)
  BY FS_Interval
<1>2. IsFiniteSet(insideAt(t, i, n))
  BY <1>1, FS_Subset DEF insideAt
<1>3. IsFiniteSet(keysAt(t, i, n)) /\ IsFiniteSet(itemsAt(t, i, n))
  BY <1>2, FS_Subset DEF keysAt, itemsAt
<1>4. IsFiniteSet(namesAt(t, i, n))
  <2> DEFINE name == [k \in keysAt(t, i, n) |-> decode[t[k]]]
  <2>1. name \in Surjection(keysAt(t, i, n), namesAt(t, i, n))
    BY DEF namesAt, Surjection
  <2> QED
    BY <1>3, <2>1, FS_Surjection
<1> QED
  BY <1>3, <1>4 DEF insideAt

\* What a frame says of the container opened at i.
frameFits(t, i, frame) ==
    IF t[i] = Brace
    THEN /\ frame.kind = "object" /\ frame.keys = namesAt(t, i, Len(t))
         /\ frame.count = Cardinality(frame.keys) /\ frame.count <= maxMembers
         /\ Cardinality(keysAt(t, i, Len(t))) = Cardinality(frame.keys)
    ELSE /\ frame.kind = "array" /\ frame.keys = {}
         /\ frame.count = Cardinality(itemsAt(t, i, Len(t)))

closesAt(t, i, j) ==
    depth(t, j) = depth(t, i) - 1 /\ \A k \in i..(j - 1) : depth(t, k) >= depth(t, i)

LEMMA ClosesHere ==
    ASSUME NEW t, NEW i, NEW n \in Nat, depth(t, n + 1) = depth(t, i) - 1,
           \A j \in i..n : depth(t, j) >= depth(t, i)
    PROVE  closesAt(t, i, n + 1)
<1>1. (n + 1) - 1 = n
  OBVIOUS
<1>2. \A k \in i..((n + 1) - 1) : depth(t, k) >= depth(t, i)
  BY <1>1
<1> QED
  BY <1>2 DEF closesAt

\* A container that was closed, with no name twice and not too many.
closedStrictly(t, i) ==
    \E j \in (i + 1)..Len(t) :
        /\ closesAt(t, i, j)
        /\ Cardinality(keysAt(t, i, j)) = Cardinality(namesAt(t, i, j))
        /\ Cardinality(keysAt(t, i, j)) <= maxMembers

\* The frames are the containers opened at these places, outermost first.
Mirrors(t, frames, places) ==
    /\ places \in [1..Len(frames) -> 1..Len(t)]
    /\ depth(t, Len(t)) = Len(frames)
    /\ \A j \in 0..Len(t) : depth(t, j) \in 0..maxDepth
    /\ \A d \in 1..Len(frames) :
          /\ t[places[d]] \in Opens /\ depth(t, places[d]) = d
          /\ \A j \in places[d]..Len(t) : depth(t, j) >= d
          /\ frameFits(t, places[d], frames[d])
    /\ \A i \in 1..Len(t) :
          t[i] = Brace => (\E d \in 1..Len(frames) : i = places[d]) \/ closedStrictly(t, i)

LEMMA InsideSame ==
    ASSUME NEW t, NEW x, NEW u, extends(u, t, x), NEW i \in 1..Len(t),
           depth(t, Len(t)) + deeper(x) # depth(t, i)
    PROVE  /\ keysAt(u, i, Len(t) + 1) = keysAt(t, i, Len(t))
           /\ namesAt(u, i, Len(t) + 1) = namesAt(t, i, Len(t))
           /\ itemsAt(u, i, Len(t) + 1) = itemsAt(t, i, Len(t))
<1> DEFINE same == depth(t, Len(t)) + deeper(x) = depth(t, i)
<1>1. /\ keysAt(u, i, Len(t) + 1) = keysAt(t, i, Len(t)) \cup
            (IF same /\ isKey(t, x) THEN {Len(t) + 1} ELSE {})
      /\ namesAt(u, i, Len(t) + 1) = namesAt(t, i, Len(t)) \cup
            (IF same /\ isKey(t, x) THEN {decode[x]} ELSE {})
      /\ itemsAt(u, i, Len(t) + 1) = itemsAt(t, i, Len(t)) \cup
            (IF same /\ x # Comma THEN {Len(t) + 1} ELSE {})
  BY InsideGrows
<1>2. ~same
  OBVIOUS
<1> HIDE DEF same
<1> QED
  BY <1>1, <1>2

LEMMA NoKeyMore ==
    ASSUME NEW t, NEW x, NEW u, extends(u, t, x), NEW i \in 1..Len(t), ~isKey(t, x)
    PROVE  /\ keysAt(u, i, Len(t) + 1) = keysAt(t, i, Len(t))
           /\ namesAt(u, i, Len(t) + 1) = namesAt(t, i, Len(t))
<1> DEFINE same == depth(t, Len(t)) + deeper(x) = depth(t, i)
<1>1. /\ keysAt(u, i, Len(t) + 1) = keysAt(t, i, Len(t)) \cup
            (IF same /\ isKey(t, x) THEN {Len(t) + 1} ELSE {})
      /\ namesAt(u, i, Len(t) + 1) = namesAt(t, i, Len(t)) \cup
            (IF same /\ isKey(t, x) THEN {decode[x]} ELSE {})
  BY InsideGrows
<1> HIDE DEF same
<1> QED
  BY <1>1

LEMMA NoItemMore ==
    ASSUME NEW t, NEW x, NEW u, extends(u, t, x), NEW i \in 1..Len(t)
    PROVE  x = Comma => itemsAt(u, i, Len(t) + 1) = itemsAt(t, i, Len(t))
<1> DEFINE same == depth(t, Len(t)) + deeper(x) = depth(t, i)
<1>1. /\ keysAt(u, i, Len(t) + 1) = keysAt(t, i, Len(t)) \cup
            (IF same /\ isKey(t, x) THEN {Len(t) + 1} ELSE {})
      /\ namesAt(u, i, Len(t) + 1) = namesAt(t, i, Len(t)) \cup
            (IF same /\ isKey(t, x) THEN {decode[x]} ELSE {})
      /\ itemsAt(u, i, Len(t) + 1) = itemsAt(t, i, Len(t)) \cup
            (IF same /\ x # Comma THEN {Len(t) + 1} ELSE {})
  BY InsideGrows
<1> HIDE DEF same
<1> QED
  BY <1>1

\* A token at another depth says nothing of a frame; nor one that is no key, of
\* an object's, and a comma, of an array's.
LEMMA FrameKept ==
    ASSUME NEW t, NEW x, NEW u, extends(u, t, x), NEW i \in 1..Len(t), NEW frame,
           frameFits(t, i, frame),
           \/ depth(t, Len(t)) + deeper(x) # depth(t, i)
           \/ t[i] = Brace /\ ~isKey(t, x)
           \/ t[i] # Brace /\ x = Comma
    PROVE  frameFits(u, i, frame)
<1>1. Len(u) = Len(t) + 1 /\ u[i] = t[i]
  BY OneTokenMore
<1>2. CASE depth(t, Len(t)) + deeper(x) # depth(t, i)
  BY <1>1, <1>2, InsideSame DEF frameFits
<1>3. CASE t[i] = Brace /\ ~isKey(t, x)
  BY <1>1, <1>3, NoKeyMore DEF frameFits
<1>4. CASE t[i] # Brace /\ x = Comma
  BY <1>1, <1>4, NoItemMore DEF frameFits
<1> QED
  BY <1>2, <1>3, <1>4

LEMMA ItemCounted ==
    ASSUME NEW t, NEW x, NEW u, extends(u, t, x), NEW i \in 1..Len(t), NEW frame,
           frameFits(t, i, frame), t[i] # Brace, x # Comma,
           depth(t, Len(t)) + deeper(x) = depth(t, i),
           NEW after, after.kind = frame.kind, after.keys = frame.keys,
           after.count = frame.count + 1
    PROVE  frameFits(u, i, after)
<1>1. Len(t) \in Nat /\ Len(u) = Len(t) + 1 /\ u[i] = t[i]
  BY OneTokenMore
<1>2. itemsAt(u, i, Len(t) + 1) = itemsAt(t, i, Len(t)) \cup {Len(t) + 1}
  BY InsideGrows
<1>3. IsFiniteSet(itemsAt(t, i, Len(t))) /\ Len(t) + 1 \notin itemsAt(t, i, Len(t))
  <2>1. i \in Nat
    BY <1>1
  <2>2. /\ IsFiniteSet(itemsAt(t, i, Len(t)))
        /\ \A k \in insideAt(t, i, Len(t)) : k \in (i + 1)..Len(t)
    BY <1>1, <2>1, InsideFinite
  <2> QED
    BY <1>1, <2>1, <2>2 DEF itemsAt
<1>4. Cardinality(itemsAt(t, i, Len(t)) \cup {Len(t) + 1}) = Cardinality(itemsAt(t, i, Len(t))) + 1
  BY <1>3, FS_AddElement
<1> QED
  BY <1>1, <1>2, <1>4 DEF frameFits

LEMMA KeyCounted ==
    ASSUME NEW t, NEW x, NEW u, extends(u, t, x), NEW i \in 1..Len(t), NEW frame,
           frameFits(t, i, frame), t[i] = Brace, isKey(t, x),
           depth(t, Len(t)) + deeper(x) = depth(t, i), decode[x] \notin frame.keys,
           frame.count + 1 <= maxMembers,
           NEW after, after.kind = frame.kind, after.count = frame.count + 1,
           after.keys = frame.keys \cup {decode[x]}
    PROVE  frameFits(u, i, after)
<1> DEFINE n == Len(t)
<1>1. n \in Nat /\ Len(u) = n + 1 /\ u[i] = t[i]
  BY OneTokenMore
<1>2. /\ keysAt(u, i, n + 1) = keysAt(t, i, n) \cup {n + 1}
      /\ namesAt(u, i, n + 1) = namesAt(t, i, n) \cup {decode[x]}
  BY InsideGrows
<1>3. /\ IsFiniteSet(keysAt(t, i, n)) /\ IsFiniteSet(namesAt(t, i, n))
      /\ n + 1 \notin keysAt(t, i, n)
  <2>1. i \in Nat
    BY <1>1
  <2>2. /\ IsFiniteSet(keysAt(t, i, n)) /\ IsFiniteSet(namesAt(t, i, n))
        /\ \A k \in insideAt(t, i, n) : k \in (i + 1)..n
    BY <1>1, <2>1, InsideFinite
  <2> QED
    BY <1>1, <2>1, <2>2 DEF keysAt
<1>4. /\ frame.kind = "object" /\ frame.keys = namesAt(t, i, n)
      /\ frame.count = Cardinality(frame.keys) /\ frame.count <= maxMembers
      /\ Cardinality(keysAt(t, i, n)) = Cardinality(frame.keys)
  BY DEF frameFits
<1>5. Cardinality(keysAt(t, i, n) \cup {n + 1}) = Cardinality(keysAt(t, i, n)) + 1
  BY <1>3, FS_AddElement
<1>6. Cardinality(namesAt(t, i, n) \cup {decode[x]}) = Cardinality(namesAt(t, i, n)) + 1
  <2>1. decode[x] \notin namesAt(t, i, n)
    BY ONLY <1>4, decode[x] \notin frame.keys
  <2> QED
    BY ONLY <1>3, <2>1, FS_AddElement
<1>7. after.keys = namesAt(u, i, n + 1) /\ after.kind = "object"
  BY <1>2, <1>4
<1>8. Cardinality(after.keys) = frame.count + 1
  BY <1>4, <1>6
<1>9. after.count = Cardinality(after.keys) /\ after.count <= maxMembers
  BY <1>8
<1>10. Cardinality(keysAt(u, i, n + 1)) = Cardinality(after.keys)
  BY <1>2, <1>4, <1>5, <1>8
<1> HIDE DEF n
<1> QED
  BY <1>1, <1>7, <1>9, <1>10 DEF frameFits

LEMMA ClosedStays ==
    ASSUME NEW t, NEW x, NEW u, extends(u, t, x), NEW i \in 1..Len(t),
           closedStrictly(t, i)
    PROVE  closedStrictly(u, i)
<1>1. /\ Len(t) \in Nat /\ Len(u) = Len(t) + 1
      /\ \A j \in 0..Len(t) : depth(u, j) = depth(t, j)
  BY OneTokenMore
<1>2. PICK j \in (i + 1)..Len(t) :
        /\ closesAt(t, i, j)
        /\ Cardinality(keysAt(t, i, j)) = Cardinality(namesAt(t, i, j))
        /\ Cardinality(keysAt(t, i, j)) <= maxMembers
  BY DEF closedStrictly
<1>3. keysAt(u, i, j) = keysAt(t, i, j) /\ namesAt(u, i, j) = namesAt(t, i, j)
  <2>1. j \in 0..Len(t)
    BY <1>1
  <2> QED
    BY <2>1, InsideKept
<1>4. closesAt(u, i, j)
  BY <1>1, <1>2 DEF closesAt
<1>5. j \in (i + 1)..Len(u)
  BY <1>1
<1> QED
  BY <1>2, <1>3, <1>4, <1>5 DEF closedStrictly

LEMMA MirrorsFacts ==
    ASSUME NEW t, NEW x, NEW u, extends(u, t, x), NEW frames \in Seq(Frame), NEW places,
           Mirrors(t, frames, places)
    PROVE  /\ Len(t) \in Nat /\ Len(u) = Len(t) + 1 /\ u[Len(t) + 1] = x
           /\ \A i \in 1..Len(t) : u[i] = t[i]
           /\ \A j \in 0..Len(t) : depth(u, j) = depth(t, j)
           /\ depth(u, Len(t) + 1) = depth(t, Len(t)) + deeper(x)
           /\ places \in [1..Len(frames) -> 1..Len(t)] /\ depth(t, Len(t)) = Len(frames)
           /\ Len(frames) \in Nat /\ \A j \in 0..Len(t) : depth(t, j) \in 0..maxDepth
           /\ \A d \in 1..Len(frames) :
                 /\ t[places[d]] \in Opens /\ depth(t, places[d]) = d
                 /\ places[d] \in 1..Len(t)
                 /\ \A j \in places[d]..Len(t) : depth(t, j) >= d
                 /\ frameFits(t, places[d], frames[d])
<1>1. /\ Len(t) \in Nat /\ Len(u) = Len(t) + 1 /\ u[Len(t) + 1] = x
      /\ \A i \in 1..Len(t) : u[i] = t[i]
      /\ \A j \in 0..Len(t) : depth(u, j) = depth(t, j)
      /\ depth(u, Len(t) + 1) = depth(t, Len(t)) + deeper(x)
  BY OneTokenMore
<1>2. /\ places \in [1..Len(frames) -> 1..Len(t)] /\ depth(t, Len(t)) = Len(frames)
      /\ Len(frames) \in Nat /\ \A j \in 0..Len(t) : depth(t, j) \in 0..maxDepth
  BY LenProperties DEF Mirrors
<1>3. \A d \in 1..Len(frames) :
        /\ t[places[d]] \in Opens /\ depth(t, places[d]) = d /\ places[d] \in 1..Len(t)
        /\ \A j \in places[d]..Len(t) : depth(t, j) >= d
        /\ frameFits(t, places[d], frames[d])
  BY <1>2 DEF Mirrors
<1> QED
  BY <1>1, <1>2, <1>3

\* A token that is no bracket.
LEMMA FlatMirrors ==
    ASSUME NEW t, NEW x, NEW u, extends(u, t, x), deeper(x) = 0,
           NEW frames \in Seq(Frame), NEW after \in Seq(Frame), NEW places,
           Mirrors(t, frames, places), Len(after) = Len(frames),
           \A d \in 1..(Len(frames) - 1) : after[d] = frames[d],
           Len(frames) # 0 => frameFits(u, places[Len(frames)], after[Len(frames)])
    PROVE  Mirrors(u, after, places)
<1> DEFINE n == Len(t)
           s == Len(frames)
<1>1. /\ n \in Nat /\ Len(u) = n + 1 /\ u[n + 1] = x
      /\ \A i \in 1..n : u[i] = t[i]
      /\ \A j \in 0..n : depth(u, j) = depth(t, j)
      /\ depth(u, n + 1) = depth(t, n) + deeper(x)
  BY MirrorsFacts
<1>2. /\ places \in [1..s -> 1..n] /\ depth(t, n) = s /\ s \in Nat
      /\ \A j \in 0..n : depth(t, j) \in 0..maxDepth
  BY MirrorsFacts
<1>3. \A d \in 1..s :
        /\ t[places[d]] \in Opens /\ depth(t, places[d]) = d /\ places[d] \in 1..n
        /\ \A j \in places[d]..n : depth(t, j) >= d
        /\ frameFits(t, places[d], frames[d])
  BY MirrorsFacts
<1>4. \A i \in 1..n : t[i] = Brace => (\E d \in 1..s : i = places[d]) \/ closedStrictly(t, i)
  BY DEF Mirrors
<1>5. \A d \in 1..s : depth(t, n) + deeper(x) # depth(t, places[d]) =>
                         frameFits(u, places[d], frames[d])
  BY <1>3, FrameKept
<1>6. \A i \in 1..n : closedStrictly(t, i) => closedStrictly(u, i)
  BY ClosedStays
<1>7. /\ Len(after) = s /\ \A d \in 1..(s - 1) : after[d] = frames[d]
      /\ s # 0 => frameFits(u, places[s], after[s])
  OBVIOUS
<1> HIDE DEF n, s
<1>8. depth(u, n + 1) = s
  BY <1>1, <1>2
<1>9. ASSUME NEW d \in 1..s PROVE frameFits(u, places[d], after[d])
  <2>1. CASE d = s
    BY <1>2, <1>7, <2>1
  <2>2. CASE d # s
    <3>1. d \in 1..(s - 1) /\ depth(t, n) + deeper(x) # depth(t, places[d])
      BY <1>2, <1>3, <2>2
    <3> QED
      BY <1>5, <1>7, <3>1
  <2> QED
    BY <2>1, <2>2
<1>10. ASSUME NEW i \in 1..Len(u), u[i] = Brace
       PROVE  (\E d \in 1..s : i = places[d]) \/ closedStrictly(u, i)
  <2>1. x # Brace
    BY TokensDiffer DEF deeper
  <2>2. i \in 1..n /\ t[i] = Brace
    BY <1>1, <1>10, <2>1
  <2> QED
    BY <1>4, <1>6, <2>2
<1>11. \A j \in 0..Len(u) : depth(u, j) \in 0..maxDepth
  <2>1. s \in 0..maxDepth
    BY <1>1, <1>2
  <2>2. ASSUME NEW j \in 0..Len(u) PROVE depth(u, j) \in 0..maxDepth
    <3>1. CASE j = n + 1
      BY <1>1, <1>2, <1>8, <2>1, <3>1
    <3>2. CASE j # n + 1
      <4>1. j \in 0..n
        BY <1>1, <3>2
      <4> QED
        BY <1>1, <1>2, <4>1
    <3> QED
      BY <3>1, <3>2
  <2> QED
    BY <2>2
<1>12. ASSUME NEW d \in 1..s
       PROVE  /\ u[places[d]] \in Opens /\ depth(u, places[d]) = d
              /\ \A j \in places[d]..Len(u) : depth(u, j) >= d
  <2>1. /\ t[places[d]] \in Opens /\ depth(t, places[d]) = d /\ places[d] \in 1..n
        /\ \A j \in places[d]..n : depth(t, j) >= d
    BY <1>3
  <2>2. ASSUME NEW j \in places[d]..Len(u) PROVE depth(u, j) >= d
    <3>1. CASE j = n + 1
      BY <1>1, <1>2, <1>8, <2>1, <3>1
    <3>2. CASE j # n + 1
      <4>1. j \in places[d]..n /\ j \in 0..n /\ depth(t, j) >= d
        BY <1>1, <1>2, <1>8, <2>1, <3>2
      <4> QED
        BY <1>1, <4>1
    <3> QED
      BY <3>1, <3>2
  <2> QED
    BY <1>1, <2>1, <2>2
<1>13. places \in [1..s -> 1..Len(u)]
  <2>1. 1..n \subseteq 1..Len(u)
    BY ONLY <1>1
  <2> QED
    BY ONLY <1>2, <2>1, SMTT(40)
<1> QED
  BY <1>1, <1>7, <1>8, <1>9, <1>10, <1>11, <1>12, <1>13 DEF Mirrors

\* A token that opens a container.
LEMMA PushMirrors ==
    ASSUME NEW t, NEW x, NEW u, extends(u, t, x), x \in Opens,
           NEW frames \in Seq(Frame), NEW after \in Seq(Frame), NEW places,
           Mirrors(t, frames, places), Len(frames) < maxDepth,
           Len(after) = Len(frames) + 1, \A d \in 1..Len(frames) : after[d] = frames[d],
           after[Len(after)].keys = {}, after[Len(after)].count = 0,
           after[Len(after)].kind = IF x = Brace THEN "object" ELSE "array",
           NEW more, more = [d \in 1..Len(after) |->
                                IF d = Len(after) THEN Len(u) ELSE places[d]]
    PROVE  Mirrors(u, after, more)
<1> DEFINE n == Len(t)
           s == Len(frames)
<1>1. /\ n \in Nat /\ Len(u) = n + 1 /\ u[n + 1] = x
      /\ \A i \in 1..n : u[i] = t[i]
      /\ \A j \in 0..n : depth(u, j) = depth(t, j)
      /\ depth(u, n + 1) = depth(t, n) + deeper(x)
  BY MirrorsFacts
<1>2. /\ places \in [1..s -> 1..n] /\ depth(t, n) = s /\ s \in Nat
      /\ \A j \in 0..n : depth(t, j) \in 0..maxDepth
  BY MirrorsFacts
<1>3. \A d \in 1..s :
        /\ t[places[d]] \in Opens /\ depth(t, places[d]) = d /\ places[d] \in 1..n
        /\ \A j \in places[d]..n : depth(t, j) >= d
        /\ frameFits(t, places[d], frames[d])
  BY MirrorsFacts
<1>4. \A i \in 1..n : t[i] = Brace => (\E d \in 1..s : i = places[d]) \/ closedStrictly(t, i)
  BY DEF Mirrors
<1>5. \A d \in 1..s : depth(t, n) + deeper(x) # depth(t, places[d]) =>
                         frameFits(u, places[d], frames[d])
  BY <1>3, FrameKept
<1>6. \A i \in 1..n : closedStrictly(t, i) => closedStrictly(u, i)
  BY ClosedStays
<1>7. /\ Len(after) = s + 1 /\ \A d \in 1..s : after[d] = frames[d]
      /\ after[s + 1].keys = {} /\ after[s + 1].count = 0
      /\ after[s + 1].kind = IF x = Brace THEN "object" ELSE "array"
      /\ s < maxDepth
  OBVIOUS
<1>8. more = [d \in 1..(s + 1) |-> IF d = s + 1 THEN n + 1 ELSE places[d]]
  BY <1>1
<1> HIDE DEF n, s
<1>9. depth(u, n + 1) = s + 1 /\ deeper(x) = 1
  BY <1>1, <1>2 DEF deeper
<1>10. /\ more \in [1..(s + 1) -> 1..(n + 1)] /\ more[s + 1] = n + 1
       /\ \A d \in 1..s : more[d] = places[d]
  BY <1>1, <1>2, <1>8, SMTT(40)
<1>11. frameFits(u, n + 1, after[s + 1])
  <2>1. keysAt(u, n + 1, n + 1) = {} /\ itemsAt(u, n + 1, n + 1) = {}
    BY <1>1 DEF keysAt, itemsAt, insideAt
  <2>2. namesAt(u, n + 1, n + 1) = {}
    BY <2>1 DEF namesAt
  <2>3. Cardinality({}) = 0 /\ 0 <= maxMembers
    BY FS_EmptySet, LimitsAssumption
  <2>4. CASE x = Brace
    BY <1>1, <1>7, <2>1, <2>2, <2>3, <2>4 DEF frameFits
  <2>5. CASE x # Brace
    BY <1>1, <1>7, <2>1, <2>2, <2>3, <2>5 DEF frameFits
  <2> QED
    BY <2>4, <2>5
<1>12. ASSUME NEW d \in 1..s PROVE frameFits(u, places[d], after[d])
  <2>1. after[d] = frames[d] /\ depth(t, n) + deeper(x) # depth(t, places[d])
    BY <1>2, <1>3, <1>7, <1>9
  <2> QED
    BY <1>5, <2>1
<1>13. ASSUME NEW i \in 1..Len(u), u[i] = Brace
       PROVE  (\E d \in 1..(s + 1) : i = more[d]) \/ closedStrictly(u, i)
  <2>1. CASE i = n + 1
    BY <1>2, <1>10, <2>1
  <2>2. CASE i # n + 1
    <3>1. i \in 1..n /\ t[i] = Brace
      BY <1>1, <1>13, <2>2
    <3>2. CASE closedStrictly(t, i)
      BY <1>6, <3>1, <3>2
    <3>3. ASSUME NEW d \in 1..s, i = places[d] PROVE \E c \in 1..(s + 1) : i = more[c]
      <4>1. d \in 1..(s + 1) /\ i = more[d]
        BY <1>2, <1>10, <3>3
      <4> QED
        BY <4>1
    <3> QED
      BY <1>4, <3>1, <3>2, <3>3
  <2> QED
    BY <2>1, <2>2
<1>14. \A j \in 0..Len(u) : depth(u, j) \in 0..maxDepth
  <2>1. s + 1 \in 0..maxDepth
    BY <1>2, <1>7, LimitsAssumption
  <2>2. ASSUME NEW j \in 0..Len(u) PROVE depth(u, j) \in 0..maxDepth
    <3>1. CASE j = n + 1
      BY <1>1, <1>2, <1>9, <2>1, <3>1
    <3>2. CASE j # n + 1
      <4>1. j \in 0..n
        BY <1>1, <3>2
      <4> QED
        BY <1>1, <1>2, <4>1
    <3> QED
      BY <3>1, <3>2
  <2> QED
    BY <2>2
<1>15. ASSUME NEW d \in 1..(s + 1)
       PROVE  /\ u[more[d]] \in Opens /\ depth(u, more[d]) = d
              /\ \A j \in more[d]..Len(u) : depth(u, j) >= d
              /\ frameFits(u, more[d], after[d])
  <2>1. CASE d = s + 1
    BY <1>1, <1>2, <1>9, <1>10, <1>11, <2>1
  <2>2. CASE d # s + 1
    <3>1. d \in 1..s /\ more[d] = places[d]
      BY <1>2, <1>10, <2>2
    <3>2. /\ t[places[d]] \in Opens /\ depth(t, places[d]) = d /\ places[d] \in 1..n
          /\ \A j \in places[d]..n : depth(t, j) >= d
      BY <1>3, <3>1
    <3>3. ASSUME NEW j \in places[d]..Len(u) PROVE depth(u, j) >= d
      <4>1. CASE j = n + 1
        BY <1>1, <1>2, <1>9, <3>1, <3>2, <4>1
      <4>2. CASE j # n + 1
        <5>1. j \in places[d]..n /\ j \in 0..n /\ depth(t, j) >= d
          BY <1>1, <1>2, <1>9, <3>1, <3>2, <4>2
        <5> QED
          BY <1>1, <5>1
      <4> QED
        BY <4>1, <4>2
    <3>4. u[places[d]] = t[places[d]] /\ depth(u, places[d]) = d
      BY <1>1, <3>2
    <3>5. frameFits(u, places[d], after[d])
      BY <1>12, <3>1
    <3> QED
      BY <3>1, <3>2, <3>3, <3>4, <3>5
  <2> QED
    BY <2>1, <2>2
<1> QED
  BY <1>1, <1>7, <1>9, <1>10, <1>13, <1>14, <1>15 DEF Mirrors

\* A token that closes one.
LEMMA PopMirrors ==
    ASSUME NEW t, NEW x, NEW u, extends(u, t, x), x \in Shuts,
           NEW frames \in Seq(Frame), NEW after \in Seq(Frame), NEW places,
           Mirrors(t, frames, places), Len(frames) # 0,
           Len(after) = Len(frames) - 1,
           \A d \in 1..(Len(after) - 1) : after[d] = frames[d],
           Len(after) # 0 => frameFits(u, places[Len(after)], after[Len(after)]),
           NEW fewer \in [1..Len(after) -> 1..Len(u)],
           \A d \in 1..Len(after) : fewer[d] = places[d]
    PROVE  Mirrors(u, after, fewer)
<1> DEFINE n == Len(t)
           s == Len(frames)
<1>1. /\ n \in Nat /\ Len(u) = n + 1 /\ u[n + 1] = x
      /\ \A i \in 1..n : u[i] = t[i]
      /\ \A j \in 0..n : depth(u, j) = depth(t, j)
      /\ depth(u, n + 1) = depth(t, n) + deeper(x)
  BY ONLY OneTokenMore, extends(u, t, x)
<1>2. /\ places \in [1..s -> 1..n] /\ depth(t, n) = s /\ s \in Nat
      /\ \A j \in 0..n : depth(t, j) \in 0..maxDepth
  BY MirrorsFacts
<1>3. \A d \in 1..s :
        /\ t[places[d]] \in Opens /\ depth(t, places[d]) = d /\ places[d] \in 1..n
        /\ \A j \in places[d]..n : depth(t, j) >= d
        /\ frameFits(t, places[d], frames[d])
  BY MirrorsFacts
<1>4. \A i \in 1..n : t[i] = Brace => (\E d \in 1..s : i = places[d]) \/ closedStrictly(t, i)
  BY DEF Mirrors
<1>5. \A d \in 1..s : depth(t, n) + deeper(x) # depth(t, places[d]) =>
                         frameFits(u, places[d], frames[d])
  BY <1>3, FrameKept
<1>6. \A i \in 1..n : closedStrictly(t, i) => closedStrictly(u, i)
  BY ClosedStays
<1>7. /\ s # 0 /\ Len(after) = s - 1
      /\ s - 1 # 0 => frameFits(u, places[s - 1], after[s - 1])
      /\ fewer \in [1..(s - 1) -> 1..(n + 1)]
      /\ \A d \in 1..(s - 1) : fewer[d] = places[d]
  BY <1>1
<1>8. \A d \in 1..(s - 1 - 1) : after[d] = frames[d]
  OBVIOUS
<1> HIDE DEF n, s
<1>9. depth(u, n + 1) = s - 1 /\ deeper(x) = 0 - 1
  BY <1>1, <1>2, TokensDiffer DEF deeper
<1>10. fewer \in [1..(s - 1) -> 1..(n + 1)] /\ \A d \in 1..(s - 1) : fewer[d] = places[d]
  BY <1>1, <1>2, <1>7
<1>11. ASSUME NEW d \in 1..(s - 1) PROVE frameFits(u, places[d], after[d])
  <2>1. CASE d = s - 1
    BY <1>2, <1>7, <2>1
  <2>2. CASE d # s - 1
    <3>1. d \in 1..s /\ d \in 1..(s - 1 - 1) /\ d # s - 1
      BY <1>2, <2>2
    <3>2. depth(t, n) + deeper(x) # depth(t, places[d])
      BY <1>2, <1>3, <1>9, <3>1
    <3> QED
      BY <1>5, <1>8, <3>1, <3>2
  <2> QED
    BY <2>1, <2>2
<1>12. ASSUME t[places[s]] = Brace PROVE closedStrictly(u, places[s])
  <2> DEFINE i == places[s]
  <2>1. i \in 1..n /\ depth(t, i) = s /\ frameFits(t, i, frames[s]) /\ s \in 1..s
        /\ \A j \in i..n : depth(t, j) >= s
    BY <1>2, <1>3, <1>7
  <2>2. t[i] = Brace
    BY <1>12
  <2> HIDE DEF i
  <2>3. closesAt(u, i, n + 1)
    <3>1. depth(u, i) = s /\ \A j \in i..n : depth(u, j) >= s
      BY <1>1, <2>1
    <3>2. depth(u, n + 1) = depth(u, i) - 1 /\ \A j \in i..n : depth(u, j) >= depth(u, i)
      BY <1>9, <3>1
    <3> QED
      BY <1>1, <3>2, ClosesHere
  <2>4. depth(t, n) + deeper(x) # depth(t, i)
    BY <1>2, <1>9, <2>1
  <2>5. keysAt(u, i, n + 1) = keysAt(t, i, n) /\ namesAt(u, i, n + 1) = namesAt(t, i, n)
    BY <2>1, <2>4, InsideSame DEF n
  <2>6. /\ Cardinality(keysAt(t, i, n)) = Cardinality(namesAt(t, i, n))
        /\ Cardinality(keysAt(t, i, n)) <= maxMembers
    BY <2>1, <2>2 DEF frameFits, n
  <2>7. n + 1 \in (i + 1)..Len(u)
    BY <1>1, <2>1
  <2>8. closedStrictly(u, i)
    BY <2>3, <2>5, <2>6, <2>7 DEF closedStrictly
  <2> QED
    BY <2>8 DEF i
<1>13. ASSUME NEW i \in 1..Len(u), u[i] = Brace
       PROVE  (\E d \in 1..(s - 1) : i = fewer[d]) \/ closedStrictly(u, i)
  <2>1. i \in 1..n /\ t[i] = Brace
    <3>1. x # Brace
      BY TokensDiffer
    <3> QED
      BY <1>1, <1>13, <3>1
  <2>2. CASE closedStrictly(t, i)
    BY <1>6, <2>1, <2>2
  <2>3. ASSUME NEW d \in 1..s, i = places[d]
        PROVE  (\E c \in 1..(s - 1) : i = fewer[c]) \/ closedStrictly(u, i)
    <3>1. CASE d = s
      BY <1>12, <2>1, <2>3, <3>1
    <3>2. CASE d # s
      <4>1. d \in 1..(s - 1)
        BY <1>2, <3>2
      <4>2. i = fewer[d]
        BY <1>10, <2>3, <4>1
      <4> QED
        BY <4>1, <4>2
    <3> QED
      BY <3>1, <3>2
  <2> QED
    BY <1>4, <2>1, <2>2, <2>3
<1>14. \A j \in 0..Len(u) : depth(u, j) \in 0..maxDepth
  <2>1. s - 1 \in 0..maxDepth
    BY <1>1, <1>2, <1>7, LimitsAssumption
  <2>2. ASSUME NEW j \in 0..Len(u) PROVE depth(u, j) \in 0..maxDepth
    <3>1. CASE j = n + 1
      BY <1>1, <1>2, <1>9, <2>1, <3>1
    <3>2. CASE j # n + 1
      <4>1. j \in 0..n
        BY <1>1, <3>2
      <4> QED
        BY <1>1, <1>2, <4>1
    <3> QED
      BY <3>1, <3>2
  <2> QED
    BY <2>2
<1>15. ASSUME NEW d \in 1..(s - 1)
       PROVE  /\ u[fewer[d]] \in Opens /\ depth(u, fewer[d]) = d
              /\ \A j \in fewer[d]..Len(u) : depth(u, j) >= d
              /\ frameFits(u, fewer[d], after[d])
  <2>1. d \in 1..s /\ fewer[d] = places[d] /\ d <= s - 1
    BY <1>2, <1>10
  <2>2. /\ t[places[d]] \in Opens /\ depth(t, places[d]) = d /\ places[d] \in 1..n
        /\ \A j \in places[d]..n : depth(t, j) >= d
    BY <1>3, <2>1
  <2>3. ASSUME NEW j \in places[d]..Len(u) PROVE depth(u, j) >= d
    <3>1. CASE j = n + 1
      BY <1>1, <1>2, <1>9, <2>1, <2>2, <3>1
    <3>2. CASE j # n + 1
      <4>1. j \in places[d]..n /\ j \in 0..n /\ depth(t, j) >= d
        BY <1>1, <1>2, <1>9, <2>1, <2>2, <3>2
      <4> QED
        BY <1>1, <4>1
    <3> QED
      BY <3>1, <3>2
  <2>4. u[places[d]] = t[places[d]] /\ depth(u, places[d]) = d
    BY <1>1, <2>2
  <2>5. frameFits(u, places[d], after[d])
    BY <1>11
  <2> QED
    BY <2>1, <2>2, <2>3, <2>4, <2>5
<1> QED
  BY <1>1, <1>7, <1>9, <1>10, <1>13, <1>14, <1>15 DEF Mirrors

isObject(frames) == frames # <<>> /\ Last(frames).kind = "object"
isArray(frames) == frames # <<>> /\ Last(frames).kind = "array"

LEMMA LastFrame ==
    ASSUME NEW frames \in Seq(Frame)
    PROVE  /\ Len(frames) \in Nat /\ (frames = <<>> <=> Len(frames) = 0)
           /\ DOMAIN frames = 1..Len(frames)
           /\ Len(frames) # 0 => /\ Len(frames) \in 1..Len(frames)
                                 /\ frames[Len(frames)] \in Frame
                                 /\ Last(frames) = frames[Len(frames)]
           /\ isObject(frames) <=> Len(frames) # 0 /\ frames[Len(frames)].kind = "object"
           /\ isArray(frames) <=> Len(frames) # 0 /\ frames[Len(frames)].kind = "array"
           /\ isObject(frames) \/ isArray(frames) \/ frames = <<>>
           /\ ~(isObject(frames) /\ isArray(frames))
<1>1. /\ Len(frames) \in Nat /\ (frames = <<>> <=> Len(frames) = 0)
      /\ DOMAIN frames = 1..Len(frames)
  BY LenProperties, EmptySeq
<1>2. Last(frames) = frames[Len(frames)]
  BY DEF Last
<1>3. ASSUME Len(frames) # 0
      PROVE  Len(frames) \in 1..Len(frames) /\ frames[Len(frames)] \in Frame
  <2>1. Len(frames) \in 1..Len(frames)
    BY <1>1, <1>3
  <2> QED
    BY <2>1, ElementOfSeq
<1>4. Len(frames) # 0 => frames[Len(frames)].kind \in {"object", "array"}
  BY <1>3 DEF Frame
<1> QED
  BY <1>1, <1>2, <1>3, <1>4 DEF isObject, isArray

\* What the text says of the innermost frame.
LEMMA InnermostMirrors ==
    ASSUME NEW t, NEW frames \in Seq(Frame), NEW places, Mirrors(t, frames, places),
           Len(frames) # 0
    PROVE  /\ places[Len(frames)] \in 1..Len(t)
           /\ frameFits(t, places[Len(frames)], frames[Len(frames)])
           /\ depth(t, places[Len(frames)]) = Len(frames) /\ depth(t, Len(t)) = Len(frames)
           /\ isObject(frames) <=> t[places[Len(frames)]] = Brace
           /\ isArray(frames) <=> t[places[Len(frames)]] # Brace
<1>1. Len(frames) \in 1..Len(frames)
  BY LastFrame
<1>2. /\ places[Len(frames)] \in 1..Len(t)
      /\ frameFits(t, places[Len(frames)], frames[Len(frames)])
      /\ depth(t, places[Len(frames)]) = Len(frames) /\ depth(t, Len(t)) = Len(frames)
  BY <1>1 DEF Mirrors
<1>3. /\ isObject(frames) <=> frames[Len(frames)].kind = "object"
      /\ isArray(frames) <=> frames[Len(frames)].kind = "array"
  BY LastFrame
<1>4. frames[Len(frames)].kind =
          IF t[places[Len(frames)]] = Brace THEN "object" ELSE "array"
  BY <1>2 DEF frameFits
<1> QED
  BY <1>2, <1>3, <1>4

\* An array that counts one item more, an object as it was.
counted(frames) ==
    IF isArray(frames) THEN [frames EXCEPT ![Len(frames)].count = @ + 1] ELSE frames

LEMMA CountedFrames ==
    ASSUME NEW frames \in Seq(Frame)
    PROVE  /\ counted(frames) \in Seq(Frame) /\ Len(counted(frames)) = Len(frames)
           /\ \A d \in 1..(Len(frames) - 1) : counted(frames)[d] = frames[d]
           /\ isObject(counted(frames)) <=> isObject(frames)
           /\ isArray(counted(frames)) <=> isArray(frames)
           /\ Len(frames) # 0 =>
                 LET after == counted(frames)[Len(frames)]
                     frame == frames[Len(frames)]
                 IN /\ after.kind = frame.kind /\ after.keys = frame.keys
                    /\ after.count = frame.count + (IF isArray(frames) THEN 1 ELSE 0)
<1> DEFINE s == Len(frames)
           more == [frames EXCEPT ![s].count = @ + 1]
<1>1. /\ s \in Nat /\ DOMAIN frames = 1..s
      /\ s # 0 => s \in 1..s /\ frames[s] \in Frame
  BY LastFrame
<1>2. more \in Seq(Frame)
  BY CountingKeepsFrames
<1>3. DOMAIN more = 1..s /\ Len(more) = s
  <2>1. DOMAIN more = 1..s
    BY <1>1
  <2>2. DOMAIN more = 1..Len(more) /\ Len(more) \in Nat
    BY <1>2, LenProperties
  <2> HIDE DEF s, more
  <2> QED
    BY <1>1, <2>1, <2>2
<1>4. \A d \in 1..(s - 1) : more[d] = frames[d]
  BY <1>1
<1>5. s # 0 => more[s] = [frames[s] EXCEPT !.count = @ + 1]
  BY <1>1
<1>6. s # 0 => /\ more[s].kind = frames[s].kind /\ more[s].keys = frames[s].keys
               /\ more[s].count = frames[s].count + 1
  <2> HIDE DEF more, s
  <2> QED
    BY <1>1, <1>5 DEF Frame
<1>7. /\ isObject(frames) <=> s # 0 /\ frames[s].kind = "object"
      /\ isArray(frames) <=> s # 0 /\ frames[s].kind = "array"
      /\ isObject(more) <=> s # 0 /\ more[s].kind = "object"
      /\ isArray(more) <=> s # 0 /\ more[s].kind = "array"
  <2>1. /\ isObject(frames) <=> s # 0 /\ frames[s].kind = "object"
        /\ isArray(frames) <=> s # 0 /\ frames[s].kind = "array"
    BY LastFrame
  <2>2. /\ isObject(more) <=> Len(more) # 0 /\ more[Len(more)].kind = "object"
        /\ isArray(more) <=> Len(more) # 0 /\ more[Len(more)].kind = "array"
    BY <1>2, LastFrame
  <2> HIDE DEF more, s
  <2> QED
    BY <1>3, <2>1, <2>2
<1>8. counted(frames) = IF isArray(frames) THEN more ELSE frames
  BY DEF counted
<1>9. s # 0 => frames[s].count \in Nat
  BY <1>1 DEF Frame
<1> HIDE DEF more
<1>10. CASE isArray(frames)
  <2>1. counted(frames) = more
    BY <1>8, <1>10
  <2> QED
    BY <1>2, <1>3, <1>4, <1>6, <1>7, <1>10, <2>1
<1>11. CASE ~isArray(frames)
  <2>1. counted(frames) = frames
    BY <1>8, <1>11
  <2> QED
    BY <1>1, <1>7, <1>9, <1>11, <2>1
<1> QED
  BY <1>10, <1>11

\* What may come next, as the text and the frames have it.
expected(t, frames, e) ==
    /\ e = "end" => frames = <<>>
    /\ e \in {"firstKey", "key"} => isObject(frames) /\ t[Len(t)] # ":"
    /\ e \in {"colon", "afterMember"} => isObject(frames)
    /\ e \in {"firstItem", "afterItem"} => isArray(frames)
    /\ e = "value" /\ isObject(frames) => t[Len(t)] = ":"

LEMMA ExpectedAfterValue ==
    ASSUME NEW t, NEW frames \in Seq(Frame)
    PROVE  expected(t, frames, afterValue(frames))
<1>1. isObject(frames) \/ isArray(frames) \/ frames = <<>>
  BY LastFrame
<1>2. ~(isObject(frames) /\ isArray(frames))
  BY LastFrame
<1>3. afterValue(frames) = IF frames = <<>> THEN "end"
                           ELSE IF isObject(frames) THEN "afterMember" ELSE "afterItem"
  BY DEF afterValue, isObject
<1> QED
  BY <1>1, <1>2, <1>3 DEF expected

\* A value of one token.
LEMMA ValueMirrors ==
    ASSUME NEW t, NEW x, NEW u, extends(u, t, x), NEW frames \in Seq(Frame), NEW places,
           Mirrors(t, frames, places), deeper(x) = 0, x # Comma,
           isObject(frames) => ~isKey(t, x)
    PROVE  Mirrors(u, counted(frames), places)
<1> DEFINE s == Len(frames)
           i == places[s]
           after == counted(frames)
<1>1. /\ after \in Seq(Frame) /\ Len(after) = s
      /\ \A d \in 1..(s - 1) : after[d] = frames[d]
  BY CountedFrames
<1>2. s # 0 => /\ i \in 1..Len(t) /\ frameFits(t, i, frames[s])
               /\ depth(t, Len(t)) + deeper(x) = depth(t, i)
               /\ isObject(frames) <=> t[i] = Brace
               /\ isArray(frames) <=> t[i] # Brace
  <2>1. s # 0 => /\ i \in 1..Len(t) /\ frameFits(t, i, frames[s])
                 /\ depth(t, i) = s /\ depth(t, Len(t)) = s
                 /\ isObject(frames) <=> t[i] = Brace
                 /\ isArray(frames) <=> t[i] # Brace
    BY InnermostMirrors
  <2>2. s \in Nat
    BY LastFrame
  <2> HIDE DEF s, i
  <2> QED
    BY <2>1, <2>2
<1>3. s # 0 => /\ after[s].kind = frames[s].kind /\ after[s].keys = frames[s].keys
               /\ after[s].count = frames[s].count + (IF isArray(frames) THEN 1 ELSE 0)
  BY CountedFrames
<1>4. ASSUME s # 0 PROVE frameFits(u, i, after[s])
  <2>1. CASE isArray(frames)
    <3>1. t[i] # Brace /\ after[s].count = frames[s].count + 1
      BY <1>2, <1>3, <1>4, <2>1
    <3> HIDE DEF s, i, after
    <3> QED
      BY <1>2, <1>3, <1>4, <3>1, ItemCounted
  <2>2. CASE ~isArray(frames)
    <3>1. after = frames
      BY <2>2 DEF counted
    <3>2. t[i] = Brace /\ ~isKey(t, x)
      BY <1>2, <1>4, <2>2
    <3> HIDE DEF s, i, after
    <3>3. frameFits(u, i, frames[s])
      BY <1>2, <1>4, <3>2, FrameKept
    <3> QED
      BY <3>1, <3>3
  <2> QED
    BY <2>1, <2>2
<1> HIDE DEF after
<1> QED
  BY <1>1, <1>4, FlatMirrors DEF after

\* A name is read.
LEMMA KeyMirrors ==
    ASSUME NEW t, NEW x, NEW u, extends(u, t, x), NEW frames \in Seq(Frame), NEW places,
           Mirrors(t, frames, places), isObject(frames), deeper(x) = 0, isKey(t, x),
           decode[x] \notin frames[Len(frames)].keys, decode[x] \in Nat,
           frames[Len(frames)].count + 1 <= maxMembers,
           NEW after, after = [frames EXCEPT ![Len(frames)].keys = @ \cup {decode[x]},
                                             ![Len(frames)].count = @ + 1],
           after \in Seq(Frame)
    PROVE  Mirrors(u, after, places) /\ isObject(after)
<1> DEFINE s == Len(frames)
           i == places[s]
           key == decode[x]
<1>1. /\ s \in Nat /\ DOMAIN frames = 1..s /\ s # 0
      /\ s \in 1..s /\ frames[s] \in Frame
  BY LastFrame
<1>2. after[s] = [frames[s] EXCEPT !.keys = @ \cup {key}, !.count = @ + 1]
  BY <1>1
<1>3. /\ after[s].kind = frames[s].kind /\ after[s].keys = frames[s].keys \cup {key}
      /\ after[s].count = frames[s].count + 1
  <2> HIDE DEF key, s
  <2> QED
    BY <1>1, <1>2 DEF Frame
<1>4. \A d \in 1..(s - 1) : after[d] = frames[d]
  BY <1>1
<1>5. Len(after) = s
  <2>1. DOMAIN after = 1..s
    BY <1>1
  <2>2. DOMAIN after = 1..Len(after) /\ Len(after) \in Nat
    BY LenProperties
  <2> HIDE DEF s
  <2> QED
    BY <1>1, <2>1, <2>2
<1>6. /\ i \in 1..Len(t) /\ frameFits(t, i, frames[s])
      /\ depth(t, i) = s /\ depth(t, Len(t)) = s /\ t[i] = Brace
      /\ frames[s].kind = "object"
  BY <1>1, InnermostMirrors, LastFrame
<1>7. depth(t, Len(t)) + deeper(x) = depth(t, i)
  BY <1>1, <1>6
<1>8. key \notin frames[s].keys /\ frames[s].count + 1 <= maxMembers
  OBVIOUS
<1>9. frameFits(u, i, after[s])
  <2> HIDE DEF s, i
  <2> QED
    BY <1>3, <1>6, <1>7, <1>8, KeyCounted, ZenonT(40)
<1>10. Mirrors(u, after, places)
  BY ONLY <1>4, <1>5, <1>9, FlatMirrors, extends(u, t, x), deeper(x) = 0,
          Mirrors(t, frames, places), after \in Seq(Frame)
<1>11. isObject(after)
  <2>1. isObject(after) <=> Len(after) # 0 /\ after[Len(after)].kind = "object"
    BY LastFrame
  <2> QED
    BY <1>1, <1>3, <1>5, <1>6, <2>1
<1> QED
  BY <1>10, <1>11

\* A colon or a comma.
LEMMA PauseMirrors ==
    ASSUME NEW t, NEW x, NEW u, extends(u, t, x), NEW frames \in Seq(Frame), NEW places,
           Mirrors(t, frames, places), deeper(x) = 0, x \notin Strings,
           isObject(frames) \/ (isArray(frames) /\ x = Comma)
    PROVE  Mirrors(u, frames, places)
<1> DEFINE s == Len(frames)
           i == places[s]
<1>1. s # 0
  BY LastFrame
<1>2. /\ i \in 1..Len(t) /\ frameFits(t, i, frames[s])
      /\ isObject(frames) <=> t[i] = Brace
      /\ isArray(frames) <=> t[i] # Brace
  BY <1>1, InnermostMirrors
<1>3. ~isKey(t, x)
  BY DEF isKey
<1>4. frameFits(u, i, frames[s])
  <2>1. (t[i] = Brace /\ ~isKey(t, x)) \/ (t[i] # Brace /\ x = Comma)
    BY <1>2, <1>3
  <2> HIDE DEF s, i
  <2> QED
    BY <1>2, <2>1, FrameKept
<1> QED
  BY <1>4, FlatMirrors

\* A container is opened.
pushes(after, frames, frame, x) ==
    /\ frame \in Frame /\ frame.keys = {} /\ frame.count = 0
    /\ frame.kind = IF x = Brace THEN "object" ELSE "array"
    /\ after = Append(frames, frame)

LEMMA EnterMirrors ==
    ASSUME NEW t, NEW x, NEW u, extends(u, t, x), x \in Opens,
           NEW frames \in Seq(Frame), NEW places, Mirrors(t, frames, places),
           Len(frames) < maxDepth, NEW frame, NEW after, pushes(after, frames, frame, x)
    PROVE  /\ \E more : Mirrors(u, after, more)
           /\ isObject(after) <=> x = Brace
           /\ isArray(after) <=> x # Brace
<1> DEFINE s == Len(frames)
<1>1. /\ frame \in Frame /\ frame.keys = {} /\ frame.count = 0
      /\ frame.kind = IF x = Brace THEN "object" ELSE "array"
      /\ after = Append(frames, frame)
  BY DEF pushes
<1>2. /\ after \in Seq(Frame) /\ Len(after) = s + 1 /\ s \in Nat
      /\ \A d \in 1..s : after[d] = frames[d]
      /\ after[s + 1] = frame
  BY <1>1, AppendProperties, LenProperties
<1>3. PICK more : more = [d \in 1..Len(after) |->
                             IF d = Len(after) THEN Len(u) ELSE places[d]]
  OBVIOUS
<1>4. /\ after[Len(after)].keys = {} /\ after[Len(after)].count = 0
      /\ after[Len(after)].kind = IF x = Brace THEN "object" ELSE "array"
  BY <1>1, <1>2
<1>5. Mirrors(u, after, more)
  BY ONLY <1>2, <1>3, <1>4, PushMirrors, extends(u, t, x), x \in Opens,
          Mirrors(t, frames, places), Len(frames) < maxDepth
<1>6. /\ isObject(after) <=> Len(after) # 0 /\ after[Len(after)].kind = "object"
      /\ isArray(after) <=> Len(after) # 0 /\ after[Len(after)].kind = "array"
  BY <1>2, LastFrame
<1> QED
  BY <1>2, <1>4, <1>5, <1>6

LEMMA FrontFrames ==
    ASSUME NEW frames \in Seq(Frame), Len(frames) # 0
    PROVE  /\ Front(frames) \in Seq(Frame) /\ Len(Front(frames)) = Len(frames) - 1
           /\ \A d \in 1..(Len(frames) - 1) : Front(frames)[d] = frames[d]
<1>1. Front(frames) = SubSeq(frames, 1, Len(frames) - 1)
  BY DEF Front
<1>2. PICK n \in Nat : n = Len(frames) - 1
  <2>1. Len(frames) \in Nat
    BY LenProperties
  <2>2. Len(frames) - 1 \in Nat
    BY <2>1
  <2> QED
    BY <2>2
<1>3. \A d \in 1..n : frames[d] \in Frame
  BY <1>2, ElementOfSeq, LenProperties
<1>4. /\ SubSeq(frames, 1, n) \in Seq(Frame)
      /\ Len(SubSeq(frames, 1, n)) = IF 1 <= n THEN n - 1 + 1 ELSE 0
      /\ \A d \in 1..(n - 1 + 1) : SubSeq(frames, 1, n)[d] = frames[1 + d - 1]
  BY <1>3, SubSeqProperties
<1>5. n - 1 + 1 = n /\ (IF 1 <= n THEN n - 1 + 1 ELSE 0) = n
  OBVIOUS
<1>6. \A d \in 1..n : 1 + d - 1 = d
  OBVIOUS
<1>7. \A d \in 1..n : SubSeq(frames, 1, n)[d] = frames[d]
  BY <1>4, <1>5, <1>6
<1> QED
  BY <1>1, <1>2, <1>4, <1>5, <1>7

\* A container is closed: it is a value of the one around it.
LEMMA LeaveMirrors ==
    ASSUME NEW t, NEW x, NEW u, extends(u, t, x), x \in Shuts,
           NEW frames \in Seq(Frame), NEW places, Mirrors(t, frames, places),
           Len(frames) # 0
    PROVE  \E fewer : Mirrors(u, counted(Front(frames)), fewer)
<1> DEFINE s == Len(frames)
           inner == Front(frames)
           after == counted(inner)
           r == Len(after)
           i == places[r]
<1>1. /\ inner \in Seq(Frame) /\ Len(inner) = s - 1 /\ s \in Nat
      /\ \A d \in 1..(s - 1) : inner[d] = frames[d]
  BY FrontFrames, LenProperties
<1>2. /\ after \in Seq(Frame) /\ Len(after) = Len(inner)
      /\ \A d \in 1..(Len(inner) - 1) : after[d] = inner[d]
      /\ Len(inner) # 0 =>
            /\ after[Len(inner)].kind = inner[Len(inner)].kind
            /\ after[Len(inner)].keys = inner[Len(inner)].keys
            /\ after[Len(inner)].count =
                  inner[Len(inner)].count + (IF isArray(inner) THEN 1 ELSE 0)
  <2> HIDE DEF inner
  <2> QED
    BY <1>1, CountedFrames
<1>3. /\ isObject(inner) <=> Len(inner) # 0 /\ inner[Len(inner)].kind = "object"
      /\ isArray(inner) <=> Len(inner) # 0 /\ inner[Len(inner)].kind = "array"
  BY <1>1, LastFrame
<1>4. ~isArray(inner) => after = inner
  BY DEF counted
<1>5. ASSUME NEW d \in 1..s
      PROVE  places[d] \in 1..Len(t) /\ depth(t, places[d]) = d /\ depth(t, Len(t)) = s
             /\ frameFits(t, places[d], frames[d])
  BY DEF Mirrors
<1>6. deeper(x) = 0 - 1 /\ ~isKey(t, x) /\ x # Comma
  BY TokensDiffer DEF deeper, isKey
<1>7. \A d \in 1..(r - 1) : after[d] = frames[d]
  <2> HIDE DEF s, inner, after
  <2> QED
    BY <1>1, <1>2
<1>8. ASSUME r # 0 PROVE frameFits(u, i, after[r])
  <2>1. r \in 1..s /\ r = s - 1 /\ Len(inner) = r /\ inner[r] = frames[r]
    <3> HIDE DEF s, inner, after
    <3> QED
      BY <1>1, <1>2, <1>8
  <2>2. i \in 1..Len(t) /\ depth(t, Len(t)) + deeper(x) = depth(t, i)
        /\ frameFits(t, i, frames[r])
    BY <1>1, <1>5, <1>6, <2>1
  <2> HIDE DEF s, inner, after, r, i
  <2>3. CASE isArray(inner)
    <3>1. t[i] # Brace
      BY <1>3, <2>1, <2>2, <2>3 DEF frameFits
    <3>2. /\ after[r].kind = frames[r].kind /\ after[r].keys = frames[r].keys
          /\ after[r].count = frames[r].count + 1
      BY <1>2, <1>8, <2>1, <2>3
    <3> QED
      BY <1>6, <2>2, <3>1, <3>2, ItemCounted
  <2>4. CASE ~isArray(inner)
    <3>1. t[i] = Brace
      BY <1>3, <1>8, <2>1, <2>2, <2>4 DEF frameFits
    <3>2. frameFits(u, i, frames[r])
      BY <1>6, <2>2, <3>1, FrameKept
    <3> QED
      BY <1>4, <2>1, <2>4, <3>2
  <2> QED
    BY <2>3, <2>4
<1>9. PICK fewer : fewer = [d \in 1..r |-> places[d]]
  OBVIOUS
<1>10. fewer \in [1..r -> 1..Len(u)]
  <2>1. \A d \in 1..r : d \in 1..s
    BY <1>1, <1>2
  <2>2. Len(u) = Len(t) + 1 /\ Len(t) \in Nat
    BY OneTokenMore
  <2> HIDE DEF r, s, inner, after
  <2> QED
    BY <1>5, <1>9, <2>1, <2>2
<1>11. /\ Len(after) = Len(frames) - 1 /\ after \in Seq(Frame)
       /\ \A d \in 1..(Len(after) - 1) : after[d] = frames[d]
       /\ Len(after) # 0 => frameFits(u, places[Len(after)], after[Len(after)])
       /\ fewer \in [1..Len(after) -> 1..Len(u)]
       /\ \A d \in 1..Len(after) : fewer[d] = places[d]
  BY <1>1, <1>2, <1>7, <1>8, <1>9, <1>10, SMTT(40)
<1> HIDE DEF after, inner, s, r, i
<1>12. Mirrors(u, after, fewer)
  BY ONLY <1>11, PopMirrors, extends(u, t, x), x \in Shuts, Mirrors(t, frames, places),
          Len(frames) # 0, SMTT(40)
<1> QED
  BY <1>12 DEF after, inner

\* While no error has been found, the frames mirror the text.
Agrees(t, frames, e) == (\E places : Mirrors(t, frames, places)) /\ expected(t, frames, e)

StrictInv ==
    /\ ScannerInv
    /\ outcome \in {"none", "accepted"} => Agrees(text, stack, expects)
    /\ outcome = "accepted" => stack = <<>>

\* A token leaves an error or frames that mirror the text with it.
Read ==
    \/ outcome' \notin {"none", "accepted"}
    \/ outcome' = "none" /\ Agrees(text', stack', expects')

LEMMA ThrowReads ==
    ASSUME NEW e, e \notin {"none", "accepted"}
    PROVE  throw(e) => Read
  BY DEF throw, Read

LEMMA EndedReads ==
    ASSUME NEW frames \in Seq(Frame), outcome = "none",
           valueEnds(frames), \E places : Mirrors(text', counted(frames), places)
    PROVE  Read
<1> DEFINE array == frames # <<>> /\ Last(frames).kind = "array"
           more == IF array THEN [frames EXCEPT ![Len(frames)].count = @ + 1] ELSE frames
<1>1. more = counted(frames) /\ more \in Seq(Frame)
  BY CountedFrames DEF counted, isArray
<1>2. \/ throw("json.limits")
      \/ stack' = more /\ expects' = afterValue(more) /\ outcome' = outcome
  BY DEF valueEnds
<1>3. CASE throw("json.limits")
  BY <1>3, ThrowReads
<1>4. CASE stack' = more /\ expects' = afterValue(more) /\ outcome' = outcome
  <2>1. expected(text', more, afterValue(more))
    BY <1>1, ExpectedAfterValue
  <2> HIDE DEF more
  <2> QED
    BY <1>1, <1>4, <2>1 DEF Read, Agrees
<1> QED
  BY <1>2, <1>3, <1>4

LEMMA ReadingAValue ==
    ASSUME StrictInv, outcome = "none", NEW x \in Tokens, text' = Append(text, x),
           deeper(x) = 0, x # Comma, isObject(stack) => ~isKey(text, x), valueEnds(stack)
    PROVE  Read
<1>1. extends(text', text, x) /\ stack \in Seq(Frame)
  BY DEF extends, StrictInv, ScannerInv
<1>2. PICK places : Mirrors(text, stack, places)
  BY DEF StrictInv, Agrees
<1>3. Mirrors(text', counted(stack), places)
  BY <1>1, <1>2, ValueMirrors
<1> QED
  BY <1>1, <1>3, EndedReads

LEMMA EnteringReads ==
    ASSUME StrictInv, outcome = "none", NEW x \in Opens, text' = Append(text, x),
           NEW kind, kind = IF x = Brace THEN "object" ELSE "array", enterContainer(kind)
    PROVE  Read
<1>1. extends(text', text, x) /\ stack \in Seq(Frame)
  BY TokensDiffer DEF extends, StrictInv, ScannerInv
<1>2. PICK places : Mirrors(text, stack, places)
  BY DEF StrictInv, Agrees
<1> DEFINE after == Append(stack, [kind |-> kind, keys |-> {}, count |-> 0])
<1>3. CASE throw("json.limits")
  BY <1>3, ThrowReads
<1>4. CASE ~(Len(stack) >= maxDepth)
  <2>1. /\ stack' = after /\ outcome' = outcome
        /\ expects' = IF kind = "object" THEN "firstKey" ELSE "firstItem"
    BY <1>4 DEF enterContainer
  <2>2. Len(stack) \in Nat /\ Len(stack) < maxDepth
    <3>1. Len(stack) \in Nat /\ maxDepth \in Nat
      BY <1>1, LenProperties, LimitsAssumption
    <3> QED
      BY <1>4, <3>1
  <2>3. PICK frame : frame = [kind |-> kind, keys |-> {}, count |-> 0]
    OBVIOUS
  <2>4. /\ frame \in Frame /\ frame.keys = {} /\ frame.count = 0
        /\ frame.kind = IF x = Brace THEN "object" ELSE "array"
    BY <2>3 DEF Frame
  <2>5. pushes(after, stack, frame, x)
    BY <2>3, <2>4 DEF pushes
  <2> HIDE DEF after
  <2>6. /\ \E more : Mirrors(text', after, more)
        /\ isObject(after) <=> x = Brace
        /\ isArray(after) <=> x # Brace
    BY <1>1, <1>2, <2>2, <2>5, EnterMirrors
  <2>7. text'[Len(text')] = x
    BY <1>1, OneTokenMore
  <2>8. x # ":"
    BY TokensDiffer
  <2> HIDE DEF after
  <2>9. expected(text', after, expects')
    BY <2>1, <2>6, <2>7, <2>8 DEF expected
  <2> QED
    BY <2>1, <2>6, <2>9 DEF Read, Agrees
<1> QED
  BY <1>3, <1>4 DEF enterContainer

LEMMA LeavingReads ==
    ASSUME StrictInv, outcome = "none", NEW x \in Shuts, text' = Append(text, x),
           stack # <<>>, leaveContainer
    PROVE  Read
<1>1. extends(text', text, x) /\ stack \in Seq(Frame)
  BY TokensDiffer DEF extends, StrictInv, ScannerInv
<1>2. PICK places : Mirrors(text, stack, places)
  BY DEF StrictInv, Agrees
<1>3. Len(stack) # 0
  BY <1>1, LastFrame
<1>4. \E fewer : Mirrors(text', counted(Front(stack)), fewer)
  BY <1>1, <1>2, <1>3, LeaveMirrors
<1>5. Front(stack) \in Seq(Frame) /\ valueEnds(Front(stack))
  BY <1>1, <1>3, FrontFrames DEF leaveContainer
<1> QED
  BY <1>4, <1>5, EndedReads

LEMMA ReadingAKey ==
    ASSUME StrictInv, outcome = "none", NEW x \in Strings, text' = Append(text, x),
           isObject(stack), isKey(text, x), readKey(x)
    PROVE  Read
<1>1. extends(text', text, x) /\ stack \in Seq(Frame) /\ deeper(x) = 0 /\ decode[x] \in Nat
  BY TokensDiffer, DecodeAssumption DEF extends, StrictInv, ScannerInv, deeper
<1>2. PICK places : Mirrors(text, stack, places)
  BY DEF StrictInv, Agrees
<1> DEFINE after == [stack EXCEPT ![Len(stack)].keys = @ \cup {decode[x]},
                                  ![Len(stack)].count = @ + 1]
<1>3. CASE throw("json.parse") \/ throw("json.limits") \/ throw("json.duplicate_key")
  BY <1>3, ThrowReads
<1>4. CASE ~(throw("json.parse") \/ throw("json.limits") \/ throw("json.duplicate_key"))
  <2>1. Len(stack) # 0 /\ Last(stack) = stack[Len(stack)]
    BY <1>1, LastFrame
  <2>2. /\ decode[x] \notin stack[Len(stack)].keys
        /\ ~(stack[Len(stack)].count + 1 > maxMembers)
        /\ stack' = after /\ expects' = "colon" /\ outcome' = outcome
    BY <1>4, <2>1 DEF readKey, keyOf
  <2>3. stack[Len(stack)].count + 1 <= maxMembers
    <3>1. stack[Len(stack)].count \in Nat /\ maxMembers \in Nat
      BY <1>1, <2>1, LastFrame, LimitsAssumption DEF Frame
    <3> QED
      BY <2>2, <3>1
  <2>4. after \in Seq(Frame)
    <3>1. ScannerInv /\ readKey(x)
      BY DEF StrictInv
    <3>2. stack' \in Seq(Frame)
      BY <3>1, KeysAreTyped DEF ScannerKept
    <3> QED
      BY <2>2, <3>2
  <2>5. PICK next : next = after
    OBVIOUS
  <2>6. Mirrors(text', next, places) /\ isObject(next)
    <3> HIDE DEF after
    <3>1. next \in Seq(Frame)
      BY <2>4, <2>5
    <3>2. next = [stack EXCEPT ![Len(stack)].keys = @ \cup {decode[x]},
                               ![Len(stack)].count = @ + 1]
      BY <2>5 DEF after
    <3> QED
      BY <1>1, <1>2, <2>2, <2>3, <3>1, <3>2, KeyMirrors
  <2> HIDE DEF after
  <2>7. expected(text', next, "colon")
    BY <2>6 DEF expected
  <2> QED
    BY <2>2, <2>5, <2>6, <2>7 DEF Read, Agrees
<1> QED
  BY <1>3, <1>4

LEMMA Pausing ==
    ASSUME StrictInv, outcome = "none", NEW x \in Tokens, text' = Append(text, x),
           deeper(x) = 0, x \notin Strings, NEW e, moveOn(e),
           \/ isObject(stack) /\ x = ":" /\ e = "value"
           \/ isObject(stack) /\ x = Comma /\ e = "key"
           \/ isArray(stack) /\ x = Comma /\ e = "value"
    PROVE  Read
<1>1. extends(text', text, x) /\ stack \in Seq(Frame)
  BY DEF extends, StrictInv, ScannerInv
<1>2. PICK places : Mirrors(text, stack, places)
  BY DEF StrictInv, Agrees
<1>3. isObject(stack) \/ (isArray(stack) /\ x = Comma)
  OBVIOUS
<1>4. Mirrors(text', stack, places)
  BY <1>1, <1>2, <1>3, PauseMirrors
<1>5. text'[Len(text')] = x /\ Comma # ":" /\ ~(isObject(stack) /\ isArray(stack))
  BY <1>1, OneTokenMore, TokensDiffer, LastFrame
<1>6. expected(text', stack, e)
  BY <1>5 DEF expected
<1> QED
  BY <1>4, <1>6 DEF moveOn, Read, Agrees

LEMMA ScanReads ==
    ASSUME StrictInv, NEW token \in Tokens, scan(token)
    PROVE  Read
<1>1. outcome = "none" /\ text' = Append(text, token)
  BY DEF scan
<1>2. \/ valueMayStart /\ token = Brace /\ enterContainer("object")
      \/ valueMayStart /\ token = "[" /\ enterContainer("array")
      \/ valueMayStart /\ token = "scalar" /\ valueEnds(stack)
      \/ valueMayStart /\ isString(token) /\ readString(token)
      \/ expects \in {"firstKey", "key"} /\ isString(token) /\ readKey(token)
      \/ expects = "colon" /\ token = ":" /\ moveOn("value")
      \/ expects = "afterMember" /\ token = Comma /\ moveOn("key")
      \/ expects = "afterItem" /\ token = Comma /\ moveOn("value")
      \/ /\ expects \in {"firstKey", "afterMember", "firstItem", "afterItem"}
         /\ token \in Shuts /\ leaveContainer
      \/ throw("json.parse")
  BY Zenon DEF scan, Brace, Comma, Shuts
<1>3. expected(text, stack, expects) /\ stack \in Seq(Frame)
  BY <1>1 DEF StrictInv, Agrees, ScannerInv
<1>4. ~(isObject(stack) /\ isArray(stack))
  BY <1>3, LastFrame
<1>5. CASE valueMayStart /\ token = Brace /\ enterContainer("object")
  BY <1>1, <1>5, TokensDiffer, EnteringReads
<1>6. CASE valueMayStart /\ token = "[" /\ enterContainer("array")
  BY <1>1, <1>6, TokensDiffer, EnteringReads
<1>7. CASE valueMayStart /\ token = "scalar" /\ valueEnds(stack)
  <2>1. deeper(token) = 0 /\ token # Comma /\ ~isKey(text, token)
    BY <1>7, TokensDiffer DEF deeper, isKey
  <2> QED
    BY <1>1, <1>7, <2>1, ReadingAValue
<1>8. CASE valueMayStart /\ isString(token) /\ readString(token)
  <2>1. deeper(token) = 0 /\ token # Comma
    BY <1>8, TokensDiffer DEF deeper, isString
  <2>2. isObject(stack) => ~isKey(text, token)
    BY <1>3, <1>4, <1>8 DEF expected, isKey, valueMayStart
  <2>3. CASE throw("json.parse") \/ throw("json.limits")
    BY <2>3, ThrowReads
  <2>4. CASE valueEnds(stack)
    BY <1>1, <2>1, <2>2, <2>4, ReadingAValue
  <2> QED
    BY <1>8, <2>3, <2>4 DEF readString
<1>9. CASE expects \in {"firstKey", "key"} /\ isString(token) /\ readKey(token)
  <2>1. isObject(stack) /\ isKey(text, token) /\ token \in Strings
    BY <1>3, <1>9 DEF expected, isKey, isString
  <2> QED
    BY <1>1, <1>9, <2>1, ReadingAKey
<1>10. CASE expects = "colon" /\ token = ":" /\ moveOn("value")
  <2>1. deeper(token) = 0 /\ token \notin Strings /\ isObject(stack)
    BY <1>3, <1>10, TokensDiffer DEF deeper, expected
  <2> QED
    BY <1>1, <1>10, <2>1, Pausing
<1>11. ASSUME token = Comma, NEW e, moveOn(e),
              \/ expects = "afterMember" /\ e = "key"
              \/ expects = "afterItem" /\ e = "value"
       PROVE  Read
  <2>1. deeper(token) = 0 /\ token \notin Strings
    BY <1>11, TokensDiffer DEF deeper
  <2>2. \/ isObject(stack) /\ e = "key"
        \/ isArray(stack) /\ e = "value"
    BY <1>3, <1>11 DEF expected
  <2> QED
    BY <1>1, <1>11, <2>1, <2>2, Pausing
<1>12. CASE /\ expects \in {"firstKey", "afterMember", "firstItem", "afterItem"}
            /\ token \in Shuts /\ leaveContainer
  <2>1. stack # <<>>
    BY <1>3, <1>12 DEF expected, isObject, isArray
  <2> QED
    BY <1>1, <1>12, <2>1, LeavingReads
<1>13. CASE throw("json.parse")
  BY <1>13, ThrowReads
<1> QED
  BY <1>2, <1>5, <1>6, <1>7, <1>8, <1>9, <1>10, <1>11, <1>12, <1>13

LEMMA StrictStarts == StrictJsonInit => StrictInv
<1> SUFFICES ASSUME StrictJsonInit PROVE StrictInv
  OBVIOUS
<1>1. text = <<>> /\ stack = <<>> /\ expects = "value" /\ outcome = "none"
  BY DEF StrictJsonInit
<1>2. Len(text) = 0 /\ Len(stack) = 0
  BY <1>1
<1>3. depth(text, 0) = 0
  BY DepthStep
<1>4. PICK places : places = [d \in 1..0 |-> 0]
  OBVIOUS
<1>5. places \in [1..Len(stack) -> 1..Len(text)]
  BY <1>2, <1>4
<1>6. Mirrors(text, stack, places)
  BY <1>2, <1>3, <1>5, LimitsAssumption DEF Mirrors
<1>7. expected(text, stack, expects)
  BY <1>1 DEF expected, isObject
<1> QED
  BY <1>1, <1>6, <1>7, ScannerStarts DEF StrictInv, Agrees

LEMMA StrictStepsKeepInv ==
    StrictInv /\ [StrictJsonNext]_jsonTextVars => StrictInv'
<1> SUFFICES ASSUME StrictInv, [StrictJsonNext]_jsonTextVars PROVE StrictInv'
  OBVIOUS
<1>1. ScannerInv'
  BY ScannerStepsKeepInv DEF StrictInv
<1>2. CASE UNCHANGED scannerVars
  BY <1>1, <1>2 DEF scannerVars, StrictInv, Agrees
<1>3. ASSUME NEW token \in Tokens, scan(token) PROVE StrictInv'
  <2>1. Read
    BY <1>3, ScanReads
  <2> QED
    BY <1>1, <2>1 DEF StrictInv, Read
<1>4. CASE endOfText
  <2>1. /\ outcome = "none" /\ UNCHANGED <<text, stack, expects>>
        /\ outcome' = IF expects = "end" THEN "accepted" ELSE "json.parse"
    BY <1>4 DEF endOfText
  <2>2. Agrees(text, stack, expects)
    BY <2>1 DEF StrictInv
  <2>3. expects = "end" => stack = <<>>
    BY <2>2 DEF Agrees, expected
  <2> QED
    BY <1>1, <2>1, <2>2, <2>3 DEF StrictInv
<1>5. (\E o \in Objects, p \in Objects : link(o, p)) \/ UNCHANGED jsonTextVars
          => UNCHANGED scannerVars
  BY DEF link, jsonTextVars, scannerVars
<1> QED
  BY <1>2, <1>3, <1>4, <1>5 DEF StrictJsonNext

LEMMA BeforeOpening ==
    ASSUME NEW t \in Seq(Tokens), NEW i \in 1..Len(t), t[i] \in Opens
    PROVE  i - 1 \in Nat /\ depth(t, i) = depth(t, i - 1) + 1 /\ depth(t, i - 1) \in Int
<1>1. PICK n \in Nat : n = i - 1
  <2>1. Len(t) \in Nat
    BY LenProperties
  <2>2. i - 1 \in Nat
    BY <2>1
  <2> QED
    BY <2>2
<1>2. depth(t, n) \in Int /\ depth(t, n + 1) = depth(t, n) + deeper(t[n + 1])
  BY DepthStep
<1>3. n + 1 = i
  BY <1>1
<1> QED
  BY <1>1, <1>2, <1>3 DEF deeper

\* A container that is still open.
openAt(t, i) == t[i] \in Opens /\ \A j \in i..Len(t) : depth(t, j) >= depth(t, i)

\* Two that are, at one depth, are the same.
LEMMA OnePlaceADepth ==
    ASSUME NEW t \in Seq(Tokens), NEW i \in 1..Len(t), NEW k \in 1..Len(t),
           openAt(t, i), openAt(t, k), depth(t, i) = depth(t, k)
    PROVE  i = k
<1>1. ASSUME NEW a \in 1..Len(t), NEW b \in 1..Len(t), openAt(t, a), openAt(t, b),
             depth(t, a) = depth(t, b)
      PROVE  ~(a < b)
  <2>1. Len(t) \in Nat
    BY LenProperties
  <2>2. depth(t, b) = depth(t, b - 1) + 1 /\ depth(t, b - 1) \in Int
    BY <1>1, BeforeOpening DEF openAt
  <2>3. ASSUME a < b PROVE FALSE
    <3>1. b - 1 \in a..Len(t)
      BY <2>1, <2>3
    <3>2. depth(t, b - 1) >= depth(t, a)
      BY <1>1, <3>1 DEF openAt
    <3> QED
      BY <1>1, <2>2, <3>2
  <2> QED
    BY <2>3
<1>2. ~(i < k) /\ ~(k < i)
  BY <1>1
<1> QED
  BY <1>2, LenProperties

\* The open containers are those of the frames, by their depth.
LEMMA OpenPlaces ==
    ASSUME NEW t \in Seq(Tokens), NEW frames \in Seq(Frame), NEW places,
           Mirrors(t, frames, places)
    PROVE  /\ \A d \in 1..Len(frames) : places[d] \in 1..Len(t) /\ openAt(t, places[d])
                                        /\ depth(t, places[d]) = d
           /\ \A i \in 1..Len(t) : openAt(t, i) =>
                 depth(t, i) \in 1..Len(frames) /\ i = places[depth(t, i)]
<1> DEFINE s == Len(frames)
<1>1. /\ Len(t) \in Nat /\ s \in Nat /\ places \in [1..s -> 1..Len(t)]
      /\ depth(t, Len(t)) = s
  BY LenProperties DEF Mirrors
<1>2. ASSUME NEW d \in 1..s
      PROVE  /\ places[d] \in 1..Len(t) /\ openAt(t, places[d])
             /\ depth(t, places[d]) = d
  <2>1. /\ t[places[d]] \in Opens /\ depth(t, places[d]) = d
        /\ \A j \in places[d]..Len(t) : depth(t, j) >= d
    BY DEF Mirrors
  <2> QED
    BY <1>1, <2>1 DEF openAt
<1>3. ASSUME NEW i \in 1..Len(t), openAt(t, i)
      PROVE  depth(t, i) \in 1..s /\ i = places[depth(t, i)]
  <2>1. depth(t, i) \in 1..s
    <3>1. i - 1 \in Nat /\ depth(t, i) = depth(t, i - 1) + 1
      BY <1>3, BeforeOpening DEF openAt
    <3>2. i - 1 \in 0..Len(t)
      BY <1>1, <3>1
    <3>3. depth(t, i - 1) \in 0..maxDepth
      BY <3>2 DEF Mirrors
    <3>4. Len(t) \in i..Len(t)
      BY <1>1
    <3>5. depth(t, Len(t)) >= depth(t, i)
      BY <1>3, <3>4 DEF openAt
    <3>6. maxDepth \in Nat
      BY LimitsAssumption
    <3> HIDE DEF s
    <3> QED
      BY <1>1, <3>1, <3>3, <3>5, <3>6
  <2>2. PICK d \in 1..s : d = depth(t, i)
    BY <2>1
  <2>3. places[d] \in 1..Len(t) /\ openAt(t, places[d]) /\ depth(t, places[d]) = d
    BY <1>2
  <2>4. i = places[d]
    BY <1>3, <2>2, <2>3, OnePlaceADepth
  <2> QED
    BY <2>1, <2>2, <2>4
<1> QED
  BY <1>2, <1>3

LEMMA OpenCounted ==
    ASSUME NEW t \in Seq(Tokens), NEW frames \in Seq(Frame), NEW places,
           Mirrors(t, frames, places)
    PROVE  Cardinality({i \in 1..Len(t) : openAt(t, i)}) = Len(frames)
<1> DEFINE s == Len(frames)
           open == {i \in 1..Len(t) : openAt(t, i)}
<1>1. s \in Nat /\ places \in [1..s -> 1..Len(t)]
  BY LenProperties DEF Mirrors
<1>2. /\ \A d \in 1..s : places[d] \in 1..Len(t) /\ openAt(t, places[d])
                         /\ depth(t, places[d]) = d
      /\ \A i \in 1..Len(t) : openAt(t, i) => depth(t, i) \in 1..s /\ i = places[depth(t, i)]
  BY OpenPlaces
<1>3. places \in [1..s -> open]
  BY <1>1, <1>2
<1>4. \A a, b \in 1..s : places[a] = places[b] => a = b
  BY <1>2
<1>5. \A i \in open : \E d \in 1..s : places[d] = i
  BY <1>2
<1> HIDE DEF open, s
<1>6. places \in Bijection(1..s, open)
  BY <1>3, <1>4, <1>5 DEF Bijection, Injection, Surjection, IsInjective
<1>7. Cardinality(open) = s
  BY <1>1, <1>6, FS_CountingElements DEF ExistsBijection
<1> QED
  BY <1>7 DEF open, s

\* The operators the properties are stated with.
LEMMA LevelIsDepth == \A j : level(j) = depth(text, j)
  BY Zenon DEF level, depth, countIn, Opens, Shuts

LEMMA InsideIsInside ==
    ASSUME NEW i, NEW j
    PROVE  /\ inside(i, j) = insideAt(text, i, j)
           /\ {k \in inside(i, j) : isKeyAt(k)} = keysAt(text, i, j)
           /\ namesIn(i, j) = namesAt(text, i, j)
           /\ itemsIn(i, j) = itemsAt(text, i, j)
<1>1. inside(i, j) = insideAt(text, i, j)
  BY LevelIsDepth DEF inside, insideAt
<1>2. {k \in inside(i, j) : isKeyAt(k)} = keysAt(text, i, j)
  BY <1>1 DEF isKeyAt, isString, keysAt
<1>3. namesIn(i, j) = namesAt(text, i, j)
  BY <1>2, Zenon DEF namesIn, namesAt
<1>4. itemsIn(i, j) = itemsAt(text, i, j)
  BY <1>1, Zenon DEF itemsIn, itemsAt, Comma
<1> QED
  BY <1>1, <1>2, <1>3, <1>4

LEMMA UnclosedAreOpen ==
    ASSUME text \in Seq(Tokens)
    PROVE  unclosed = {i \in 1..Len(text) : openAt(text, i)}
<1>1. DOMAIN text = 1..Len(text)
  BY LenProperties
<1>2. unclosed = {i \in DOMAIN text :
                     /\ text[i] \in Opens
                     /\ \A j \in i..Len(text) : level(j) >= level(i)}
  BY Zenon DEF unclosed, Opens
<1> QED
  BY <1>1, <1>2, LevelIsDepth DEF openAt

LEMMA FramesHold == StrictInv => FramesMirrorText
<1> SUFFICES ASSUME StrictInv, outcome = "none"
             PROVE  FramesMirrorText
  BY DEF FramesMirrorText
<1>1. text \in Seq(Tokens) /\ stack \in Seq(Frame)
  BY DEF StrictInv, ScannerInv
<1>2. PICK places : Mirrors(text, stack, places)
  BY DEF StrictInv, Agrees
<1>3. Len(stack) = Cardinality(unclosed)
  BY <1>1, <1>2, OpenCounted, UnclosedAreOpen
<1>4. ASSUME NEW i \in unclosed
      PROVE  LET frame == stack[level(i)] IN
             IF text[i] = Brace
             THEN /\ frame.kind = "object" /\ frame.keys = namesIn(i, Len(text))
                  /\ frame.count = Cardinality(frame.keys)
             ELSE /\ frame.kind = "array" /\ frame.keys = {}
                  /\ frame.count = Cardinality(itemsIn(i, Len(text)))
  <2>1. i \in 1..Len(text) /\ openAt(text, i)
    BY <1>1, UnclosedAreOpen
  <2>2. depth(text, i) \in 1..Len(stack) /\ i = places[depth(text, i)]
    BY <1>1, <1>2, <2>1, OpenPlaces
  <2>3. PICK d \in 1..Len(stack) : d = depth(text, i)
    BY <2>2
  <2>4. frameFits(text, places[d], stack[d])
    BY <1>2 DEF Mirrors
  <2>5. frameFits(text, i, stack[level(i)])
    BY <2>2, <2>3, <2>4, LevelIsDepth
  <2>6. /\ namesIn(i, Len(text)) = namesAt(text, i, Len(text))
        /\ itemsIn(i, Len(text)) = itemsAt(text, i, Len(text))
    BY InsideIsInside
  <2> QED
    BY <2>5, <2>6 DEF frameFits
<1> QED
  BY <1>3, <1>4, Zenon DEF FramesMirrorText, Brace

LEMMA ClosingIsWhereItCloses ==
    ASSUME text \in Seq(Tokens), NEW i \in 1..Len(text),
           NEW j \in (i + 1)..Len(text), closesAt(text, i, j),
           \A k \in 0..Len(text) : depth(text, k) \in Int
    PROVE  closing(i) = j
<1> DEFINE Closes(k) == level(k) = level(i) - 1 /\ \A m \in i..(k - 1) : level(m) >= level(i)
<1>1. \A k : Closes(k) <=> closesAt(text, i, k)
  BY LevelIsDepth DEF closesAt
<1>2. Len(text) \in Nat
  BY LenProperties
<1>3. ASSUME NEW a \in (i + 1)..Len(text), NEW b \in (i + 1)..Len(text),
             closesAt(text, i, a), closesAt(text, i, b)
      PROVE  ~(a < b)
  <2>1. ASSUME a < b PROVE FALSE
    <3>1. a \in i..(b - 1)
      BY <1>2, <2>1
    <3>2. depth(text, a) = depth(text, i) - 1 /\ depth(text, a) >= depth(text, i)
      BY <1>3, <3>1 DEF closesAt
    <3>3. depth(text, i) \in Int
      BY <1>2
    <3> QED
      BY <3>2, <3>3
  <2> QED
    BY <2>1
<1>4. closing(i) = CHOOSE k \in (i + 1)..Len(text) : Closes(k)
  BY DEF closing
<1> HIDE DEF Closes
<1>5. closing(i) \in (i + 1)..Len(text) /\ Closes(closing(i))
  BY <1>1, <1>4
<1>6. ~(closing(i) < j) /\ ~(j < closing(i))
  BY <1>1, <1>3, <1>5
<1> QED
  BY <1>2, <1>5, <1>6

LEMMA AcceptedHolds == StrictInv => AcceptedIsStrict
<1> SUFFICES ASSUME StrictInv, outcome = "accepted"
             PROVE  AcceptedIsStrict
  BY DEF AcceptedIsStrict
<1>1. text \in Seq(Tokens) /\ stack = <<>> /\ DOMAIN text = 1..Len(text) /\ Len(text) \in Nat
  BY LenProperties DEF StrictInv, ScannerInv
<1>2. PICK places : Mirrors(text, stack, places)
  BY DEF StrictInv, Agrees
<1>3. \A j \in 0..Len(text) : depth(text, j) \in 0..maxDepth
  BY <1>2 DEF Mirrors
<1>4. maxDepth \in Nat /\ maxMembers \in Nat
  BY LimitsAssumption
<1>5. ASSUME NEW i \in 1..Len(text)
      PROVE  level(i) <= maxDepth
  <2>1. i \in 0..Len(text)
    BY <1>1
  <2>2. depth(text, i) \in 0..maxDepth
    BY <1>3, <2>1
  <2> QED
    BY <1>4, <2>2, LevelIsDepth
<1>6. ASSUME NEW i \in 1..Len(text), text[i] = Brace
      PROVE  LET keys == {k \in inside(i, closing(i)) : isKeyAt(k)} IN
             /\ Cardinality(keys) = Cardinality(namesIn(i, closing(i)))
             /\ Cardinality(keys) <= maxMembers
  <2>1. Len(stack) = 0
    BY <1>1
  <2>2. closedStrictly(text, i)
    BY <1>2, <1>6, <2>1 DEF Mirrors
  <2>3. PICK j \in (i + 1)..Len(text) :
          /\ closesAt(text, i, j)
          /\ Cardinality(keysAt(text, i, j)) = Cardinality(namesAt(text, i, j))
          /\ Cardinality(keysAt(text, i, j)) <= maxMembers
    BY <2>2 DEF closedStrictly
  <2>4. closing(i) = j
    BY <1>1, <1>3, <2>3, ClosingIsWhereItCloses
  <2>5. /\ {k \in inside(i, j) : isKeyAt(k)} = keysAt(text, i, j)
        /\ namesIn(i, j) = namesAt(text, i, j)
    BY InsideIsInside
  <2> QED
    BY <2>3, <2>4, <2>5
<1> QED
  BY <1>1, <1>5, <1>6, Zenon DEF AcceptedIsStrict, Brace

(***************************************************************************)
(* While the scanner goes on, its frames are the open containers of the    *)
(* text with their own names and counts and no other's; a text it accepts  *)
(* keeps the limits at every level and has no object with a name twice,    *)
(* however names are written: for any text, depth and number of members.   *)
(***************************************************************************)
THEOREM FramesStayStrict ==
    StrictJsonSpec => [](FramesMirrorText /\ AcceptedIsStrict)
  BY StrictStarts, StrictStepsKeepInv, FramesHold, AcceptedHolds, PTL DEF StrictJsonSpec

-----------------------------------------------------------------------------
(***************************************************************************)
(* MCServices: whichever service is explored, the others take no step.     *)
(***************************************************************************)
LEMMA EachByItself ==
    /\ AllInit => /\ LevelsInit /\ MemoryInit /\ CoordinatorInit /\ LoaderInit /\ PluginInit
                  /\ HierarchyInit /\ ProvenanceInit /\ StrictJsonInit /\ IdInit /\ PortInit
    /\ [OneOfThem]_mcVars => /\ [LevelsNext]_levelsVars /\ [MemoryNext]_memoryVars
                             /\ [CoordinatorNext]_coordinatorVars /\ [LoaderNext]_loaderVars
                             /\ [PluginNext]_pluginVars /\ [HierarchyNext]_hierarchyVars
                             /\ [ProvenanceNext]_provenanceVars /\ [StrictJsonNext]_jsonTextVars
                             /\ [IdNext]_idVars /\ [PortNext]_portVars
<1>1. AllInit => /\ LevelsInit /\ MemoryInit /\ CoordinatorInit /\ LoaderInit /\ PluginInit
                 /\ HierarchyInit /\ ProvenanceInit /\ StrictJsonInit /\ IdInit /\ PortInit
  BY DEF AllInit
<1>2. ASSUME [OneOfThem]_mcVars
      PROVE  /\ [LevelsNext]_levelsVars /\ [MemoryNext]_memoryVars
             /\ [CoordinatorNext]_coordinatorVars /\ [LoaderNext]_loaderVars
             /\ [PluginNext]_pluginVars /\ [HierarchyNext]_hierarchyVars
             /\ [ProvenanceNext]_provenanceVars /\ [StrictJsonNext]_jsonTextVars
             /\ [IdNext]_idVars /\ [PortNext]_portVars
  <2>1. CASE UNCHANGED mcVars
    BY <2>1 DEF mcVars
  <2>2. CASE OneOfThem
    BY <2>2 DEF OneOfThem, Only
  <2> QED
    BY <1>2, <2>1, <2>2
<1> QED
  BY <1>1, <1>2

LEMMA EachHoldsItsSpec ==
    MCSpec => /\ LevelsSpec /\ MemorySpec /\ CoordinatorSpec /\ LoaderSpec /\ PluginSpec
              /\ HierarchySpec /\ ProvenanceSpec /\ StrictJsonSpec /\ IdSpec /\ PortSpec
  BY EachByItself, PTL DEF MCSpec, LevelsSpec, MemorySpec, CoordinatorSpec, LoaderSpec, PluginSpec,
     HierarchySpec, ProvenanceSpec, StrictJsonSpec, IdSpec, PortSpec

-----------------------------------------------------------------------------

(***************************************************************************)
(* Every service stays in its types, for every value of the constants and  *)
(* whichever of them is explored.                                          *)
(***************************************************************************)
THEOREM ServicesStayTyped == MCSpec => []AllTypesOK
<1>1. MCSpec => [](LevelsTypeOK /\ MemoryTypeOK)
  BY EachHoldsItsSpec, LevelsStayLatest, CachesStayCorrect, PTL
<1>2. MCSpec => [](CoordinatorTypeOK /\ LoaderTypeOK /\ PluginTypeOK)
  BY EachHoldsItsSpec, LoadsStayTasks, LoadedStaysCurrent, PluginsStayConsistent, PTL
<1>3. MCSpec => [](HierarchyTypeOK /\ ProvenanceTypeOK)
  BY EachHoldsItsSpec, PromotionsStayEarned, ChainsStayUnbroken, PTL
<1>4. MCSpec => [](StrictJsonTypeOK /\ IdTypeOK /\ PortTypeOK)
  BY EachHoldsItsSpec, ScannerStaysTyped, IdsStayOfOneKind, AnswersStayOwn, PTL
<1>5. (LevelsTypeOK /\ MemoryTypeOK) /\ (CoordinatorTypeOK /\ LoaderTypeOK /\ PluginTypeOK)
      /\ (HierarchyTypeOK /\ ProvenanceTypeOK) /\ (StrictJsonTypeOK /\ IdTypeOK /\ PortTypeOK)
        => AllTypesOK
  BY DEF AllTypesOK
<1> QED
  BY <1>1, <1>2, <1>3, <1>4, <1>5, PTL

(***************************************************************************)
(* However many entries are recorded, dropped, exported and imported, the  *)
(* chains, their indexes and lineages tell where an entry came from; and   *)
(* an entry of the memory has moved up only by the reads that earn it.     *)
(***************************************************************************)
THEOREM ProvenanceStays == MCSpec => []ProvenanceHolds
<1>1. MCSpec => [](ChainsUnbroken /\ IndexesAgree /\ LineageComplete)
  BY EachHoldsItsSpec, ChainsStayUnbroken, PTL
<1>2. MCSpec => []PromotionsEarned
  BY EachHoldsItsSpec, PromotionsStayEarned, PTL
<1>3. (ChainsUnbroken /\ IndexesAgree /\ LineageComplete) /\ PromotionsEarned => ProvenanceHolds
  BY DEF ProvenanceHolds
<1> QED
  BY <1>1, <1>2, <1>3, PTL

(***************************************************************************)
(* An identifier is of one kind wherever it is read, a double of a port    *)
(* gives each scripted answer once, whole and to who asked for it, and the *)
(* frames of the scanner are the containers it is in, over any number of   *)
(* calls and tokens.                                                       *)
(***************************************************************************)
THEOREM EdgesStayAgreed == MCSpec => []EdgesAgree
<1>1. MCSpec => []IdsOfOneKind
  BY EachHoldsItsSpec, IdsStayOfOneKind, PTL
<1>2. MCSpec => [](ItemsOnce /\ AnswersAreOwn)
  BY EachHoldsItsSpec, AnswersStayOwn, PTL
<1>3. MCSpec => [](FramesMirrorText /\ AcceptedIsStrict)
  BY EachHoldsItsSpec, FramesStayStrict, PTL
<1>4. IdsOfOneKind /\ (ItemsOnce /\ AnswersAreOwn) /\ (FramesMirrorText /\ AcceptedIsStrict)
          => EdgesAgree
  BY DEF EdgesAgree
<1> QED
  BY <1>1, <1>2, <1>3, <1>4, PTL
=============================================================================
