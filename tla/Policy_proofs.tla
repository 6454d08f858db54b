---------------------------- MODULE Policy_proofs ----------------------------
(***************************************************************************)
(* Proofs about the policy engine, for any number of requests, approvers,  *)
(* teams, documents and Cedar policies: what an approval counts, what the  *)
(* approval store keeps, whose rules decide, and that an audit that sorts  *)
(* the caller's policies in place changes no decision.                     *)
(***************************************************************************)
EXTENDS MCPolicy, SequenceTheorems, FiniteSetTheorems, TLAPS

(***************************************************************************)
(* The numbers from 1 to n, and from 0 to n - 1, are n.                    *)
(***************************************************************************)
LEMMA IntervalSizes ==
    ASSUME NEW n \in Nat
    PROVE  /\ IsFiniteSet(1..n) /\ Cardinality(1..n) = n
           /\ IsFiniteSet(0..(n - 1)) /\ Cardinality(0..(n - 1)) = n
  <1>1. \A a, b \in Int : IsFiniteSet(a..b) /\ Cardinality(a..b) = IF a > b THEN 0 ELSE b - a + 1
    BY FS_Interval
  <1>2. IsFiniteSet(1..n) /\ Cardinality(1..n) = IF 1 > n THEN 0 ELSE n - 1 + 1
    BY <1>1
  <1>3. n - 1 \in Int /\ 0 \in Int
    OBVIOUS
  <1>4. /\ IsFiniteSet(0..(n - 1))
        /\ Cardinality(0..(n - 1)) = IF 0 > n - 1 THEN 0 ELSE (n - 1) - 0 + 1
    BY <1>1, <1>3
  <1> QED
    BY <1>2, <1>4

(***************************************************************************)
(* Cedar policies.  The place of a policy in the sorted list is the number *)
(* of those ahead of it.                                                   *)
(***************************************************************************)
place(ps, i) == Cardinality({j \in DOMAIN ps : ahead(ps, j, i)})

(***************************************************************************)
(* One is ahead of the other, and not the other way round.                 *)
(***************************************************************************)
LEMMA AheadOrders ==
    ASSUME NEW ps \in Seq(CedarPolicies)
    PROVE  /\ \A i \in DOMAIN ps : ~ahead(ps, i, i)
           /\ \A i, j \in DOMAIN ps : i # j => ahead(ps, i, j) \/ ahead(ps, j, i)
           /\ \A i, j, k \in DOMAIN ps : ahead(ps, i, j) /\ ahead(ps, j, k) => ahead(ps, i, k)
  <1>1. \A i \in DOMAIN ps : i \in Int /\ ps[i].priority \in Int
    <2>1. \A i \in DOMAIN ps : i \in Int /\ ps[i] \in CedarPolicies
      BY LenProperties, ElementOfSeq
    <2> QED
      BY <2>1, PrioritiesAssumption
  <1> QED
    BY <1>1 DEF ahead

(***************************************************************************)
(* Every place from 0 is one policy's.                                     *)
(***************************************************************************)
LEMMA PlacesAreTaken ==
    ASSUME NEW ps \in Seq(CedarPolicies), NEW n \in Nat, n = Len(ps)
    PROVE  /\ DOMAIN ps = 1..n
           /\ \A i \in 1..n : place(ps, i) \in 0..(n - 1)
           /\ \A i, j \in 1..n : ahead(ps, i, j) => place(ps, i) < place(ps, j)
           /\ \A k \in 1..n : \E i \in 1..n : place(ps, i) = k - 1
  <1> DEFINE front(i) == {j \in DOMAIN ps : ahead(ps, j, i)}
  <1>1. DOMAIN ps = 1..n
    BY LenProperties
  <1>2. IsFiniteSet(1..n) /\ Cardinality(1..n) = n
    BY IntervalSizes
  <1>3. ASSUME NEW i \in 1..n
        PROVE  IsFiniteSet(front(i)) /\ place(ps, i) = Cardinality(front(i))
               /\ place(ps, i) \in 0..(n - 1)
    <2>1. front(i) \in SUBSET ((1..n) \ {i})
      BY <1>1, AheadOrders
    <2>2. IsFiniteSet((1..n) \ {i}) /\ Cardinality((1..n) \ {i}) = n - 1
      BY <1>2, FS_RemoveElement
    <2>3. IsFiniteSet(front(i)) /\ Cardinality(front(i)) <= n - 1
      BY <2>1, <2>2, FS_Subset
    <2>4. Cardinality(front(i)) \in Nat
      BY <2>3, FS_CardinalityType
    <2> QED
      BY <2>3, <2>4 DEF place
  <1>4. ASSUME NEW i \in 1..n, NEW j \in 1..n, ahead(ps, i, j)
        PROVE  place(ps, i) < place(ps, j)
    <2>1. front(i) \in SUBSET front(j) /\ i \in front(j) /\ i \notin front(i)
      BY <1>1, <1>4, AheadOrders
    <2>2. /\ IsFiniteSet(front(j)) /\ Cardinality(front(i)) <= Cardinality(front(j))
          /\ Cardinality(front(i)) = Cardinality(front(j)) => front(i) = front(j)
      BY <1>3, <2>1, FS_Subset
    <2>3. Cardinality(front(i)) # Cardinality(front(j))
      BY <2>1, <2>2
    <2>4. PICK a \in 0..(n - 1) : a = place(ps, i)
      BY <1>3
    <2>5. PICK b \in 0..(n - 1) : b = place(ps, j)
      BY <1>3
    <2>6. a <= b /\ a # b
      BY <1>3, <2>2, <2>3, <2>4, <2>5
    <2> QED
      BY <2>4, <2>5, <2>6
  <1> DEFINE at == [i \in 1..n |-> place(ps, i)]
  <1>5. at \in [1..n -> 0..(n - 1)]
    BY <1>3
  <1>6. \A i, j \in 1..n : at[i] = at[j] => i = j
    <2> SUFFICES ASSUME NEW i \in 1..n, NEW j \in 1..n, at[i] = at[j], i # j PROVE FALSE
      OBVIOUS
    <2>1. place(ps, i) < place(ps, j) \/ place(ps, j) < place(ps, i)
      BY <1>1, <1>4, AheadOrders
    <2>2. place(ps, i) = place(ps, j) /\ place(ps, i) \in 0..(n - 1)
      BY <1>3
    <2> QED
      BY <2>1, <2>2
  <1> HIDE DEF at
  <1>7. at \in Injection(1..n, 0..(n - 1))
    BY <1>5, <1>6 DEF Injection, IsInjective
  <1>8. IsFiniteSet(0..(n - 1)) /\ Cardinality(0..(n - 1)) = n
    BY IntervalSizes
  <1>9. at \in Surjection(1..n, 0..(n - 1))
    BY <1>2, <1>7, <1>8, FS_Injection
  <1>10. ASSUME NEW k \in 1..n PROVE \E i \in 1..n : place(ps, i) = k - 1
    <2>1. k - 1 \in 0..(n - 1)
      OBVIOUS
    <2>2. \E i \in 1..n : at[i] = k - 1
      BY <1>9, <2>1 DEF Surjection
    <2> QED
      BY <2>2 DEF at
  <1> QED
    BY <1>1, <1>3, <1>4, <1>10

(***************************************************************************)
(* The sorted list has policies of the given one only, and no policy of a  *)
(* greater priority behind one of a smaller.                               *)
(***************************************************************************)
LEMMA SortedIs ==
    ASSUME NEW ps \in Seq(CedarPolicies), NEW n \in Nat, n = Len(ps)
    PROVE  /\ byPriority(ps) \in Seq(CedarPolicies) /\ Len(byPriority(ps)) = n
           /\ \A k, l \in 1..n : ahead(byPriority(ps), k, l) <=> k < l
  <1> DEFINE who(k) == CHOOSE i \in DOMAIN ps : place(ps, i) = k - 1
  <1>1. DOMAIN ps = 1..n
    BY LenProperties
  <1>2. ASSUME NEW k \in 1..n PROVE who(k) \in 1..n /\ place(ps, who(k)) = k - 1
    BY <1>1, PlacesAreTaken
  <1>3. byPriority(ps) = [k \in 1..n |-> ps[who(k)]]
    BY <1>1 DEF byPriority, place
  <1> HIDE DEF who
  <1>4. \A i \in 1..n : ps[i] \in CedarPolicies
    BY <1>1, ElementOfSeq
  <1>5. PICK qs : qs = byPriority(ps)
    OBVIOUS
  <1>6. qs \in [1..n -> CedarPolicies]
    BY <1>2, <1>3, <1>4, <1>5
  <1>7. qs \in Seq(CedarPolicies) /\ Len(qs) = n
    BY <1>6, SeqDef, LenProperties
  <1>8. \A k \in 1..n : qs[k] = ps[who(k)]
    BY <1>3, <1>5
  <1>9. ASSUME NEW k \in 1..n, NEW l \in 1..n, k < l
        PROVE  qs[k].priority >= qs[l].priority
    <2>1. place(ps, who(k)) < place(ps, who(l))
      BY <1>2, <1>9
    <2>2. who(k) \in 1..n /\ who(l) \in 1..n /\ who(k) # who(l)
      BY <1>2, <1>9
    <2>3. ~ahead(ps, who(l), who(k))
      <3>1. ahead(ps, who(l), who(k)) => place(ps, who(l)) < place(ps, who(k))
        BY <2>2, PlacesAreTaken
      <3> QED
        BY <1>2, <2>1, <3>1
    <2>4. ahead(ps, who(k), who(l))
      BY <1>1, <2>2, <2>3, AheadOrders
    <2>5. ps[who(k)].priority \in Int /\ ps[who(l)].priority \in Int
      BY <1>4, <2>2, PrioritiesAssumption
    <2> QED
      BY <1>8, <2>4, <2>5 DEF ahead
  <1>10. \A k \in 1..n : qs[k].priority \in Int
    BY <1>6, PrioritiesAssumption
  <1>11. ASSUME NEW k \in 1..n, NEW l \in 1..n PROVE ahead(qs, k, l) <=> k < l
    <2>1. k < l => qs[k].priority >= qs[l].priority
      BY <1>9
    <2>2. l < k => qs[l].priority >= qs[k].priority
      BY <1>9
    <2>3. qs[k].priority \in Int /\ qs[l].priority \in Int
      BY <1>10
    <2> QED
      BY <2>1, <2>2, <2>3 DEF ahead
  <1> QED
    BY <1>5, <1>7, <1>11

(***************************************************************************)
(* Sorting a sorted list changes nothing.                                  *)
(***************************************************************************)
LEMMA SortedOnce ==
    ASSUME NEW ps \in Seq(CedarPolicies)
    PROVE  byPriority(byPriority(ps)) = byPriority(ps)
  <1>1. PICK n \in Nat : n = Len(ps)
    BY LenProperties
  <1>2. PICK qs \in Seq(CedarPolicies) :
           /\ qs = byPriority(ps) /\ Len(qs) = n
           /\ \A k, l \in 1..n : ahead(qs, k, l) <=> k < l
    BY <1>1, SortedIs
  <1>3. DOMAIN qs = 1..n
    BY <1>2, LenProperties
  <1>4. ASSUME NEW i \in 1..n PROVE place(qs, i) = i - 1
    <2>1. {j \in DOMAIN qs : ahead(qs, j, i)} = 1..(i - 1)
      BY <1>2, <1>3
    <2>2. PICK last \in Nat : last = i - 1
      OBVIOUS
    <2>3. Cardinality(1..last) = last
      BY IntervalSizes
    <2> QED
      BY <2>1, <2>2, <2>3 DEF place
  <1> DEFINE who(k) == CHOOSE i \in DOMAIN qs : place(qs, i) = k - 1
  <1>5. ASSUME NEW k \in 1..n PROVE who(k) = k
    <2>1. \A i \in 1..n : place(qs, i) = k - 1 => i = k
      BY <1>4
    <2>2. place(qs, k) = k - 1
      BY <1>4
    <2> QED
      BY <1>3, <2>1, <2>2
  <1>8. byPriority(qs) = [k \in 1..n |-> qs[who(k)]]
    BY <1>3 DEF byPriority, place
  <1> HIDE DEF who
  <1>6. byPriority(qs) = [k \in 1..n |-> qs[k]]
    BY <1>5, <1>8
  <1>7. qs = [k \in DOMAIN qs |-> qs[k]]
    BY SeqDef
  <1> QED
    BY <1>2, <1>3, <1>6, <1>7

(***************************************************************************)
(* However often the audit sorts the caller's policies in place, no        *)
(* decision changes with it.                                               *)
(***************************************************************************)
THEOREM AuditsChangeNothing ==
    PolicyAuditSpec => []PolicyAuditTypeOK /\ AuditKeepsDecisions
  <1>1. PolicyAuditInit => PolicyAuditTypeOK
    BY EmptySeq DEF PolicyAuditInit, PolicyAuditTypeOK
  <1>2. PolicyAuditTypeOK /\ [PolicyAuditNext]_policyAuditVars => PolicyAuditTypeOK'
    <2> SUFFICES ASSUME PolicyAuditTypeOK, [PolicyAuditNext]_policyAuditVars
                 PROVE  PolicyAuditTypeOK'
      OBVIOUS
    <2> USE DEF PolicyAuditTypeOK
    <2>1. CASE auditRegexPolicies
      BY <2>1 DEF auditRegexPolicies
    <2>2. CASE auditCedarPolicies
      <3>1. Len(policySet) \in Nat
        BY LenProperties
      <3> QED
        BY <2>2, <3>1, SortedIs DEF auditCedarPolicies
    <2>3. CASE AddPolicy
      BY <2>3, AppendProperties DEF AddPolicy
    <2>4. CASE NewSet
      BY <2>4, EmptySeq DEF NewSet
    <2>5. CASE UNCHANGED policyAuditVars
      BY <2>5 DEF policyAuditVars
    <2> QED
      BY <2>1, <2>2, <2>3, <2>4, <2>5 DEF PolicyAuditNext
  <1>3. PolicyAuditTypeOK /\ [PolicyAuditNext]_policyAuditVars =>
          [policySet # <<>> /\ auditCedarPolicies =>
              \A input \in PolicyInputs :
                 evaluateCedarPolicySet(policySet', input)
                   = evaluateCedarPolicySet(policySet, input)]_policyAuditVars
    <2> SUFFICES ASSUME PolicyAuditTypeOK, auditCedarPolicies, NEW input \in PolicyInputs
                 PROVE  evaluateCedarPolicySet(policySet', input)
                          = evaluateCedarPolicySet(policySet, input)
      OBVIOUS
    <2>1. byPriority(policySet') = byPriority(policySet)
      BY SortedOnce DEF auditCedarPolicies, PolicyAuditTypeOK
    <2> QED
      BY <2>1 DEF evaluateCedarPolicySet
  <1> QED
    BY <1>1, <1>2, <1>3, PTL DEF PolicyAuditSpec, AuditKeepsDecisions

-----------------------------------------------------------------------------
(***************************************************************************)
(* The approval store.  What was written survives in the file, and the map *)
(* is ahead of the file or was read from it.                               *)
(***************************************************************************)
survives(written, m) ==
    \A id \in DOMAIN written :
        id \in DOMAIN m /\ IsPrefix(written[id].history, m[id].history)

\* The inductive invariant.
StoreInv ==
    /\ StoreTypeOK
    /\ survives(durable, entries)
    /\ storeFile # TornStore => survives(durable, storeFile)
    /\ storeFile = TornStore => durable = NoEntries

(***************************************************************************)
(* A history is a prefix of itself, and stays one of what it grows to.     *)
(***************************************************************************)
LEMMA PrefixGrows ==
    ASSUME NEW S, NEW short \in Seq(S), NEW long \in Seq(S), NEW x \in S
    PROVE  /\ IsPrefix(long, long)
           /\ IsPrefix(short, long) => IsPrefix(short, Append(long, x))
  <1>1. IsPrefix(long, long)
    BY LenProperties DEF IsPrefix
  <1>2. ASSUME IsPrefix(short, long) PROVE IsPrefix(short, Append(long, x))
    <2>1. PICK m \in Nat : m = Len(short)
      BY LenProperties
    <2>2. PICK n \in Nat : n = Len(long)
      BY LenProperties
    <2>3. PICK longer \in Seq(S) :
             /\ longer = Append(long, x) /\ Len(longer) = n + 1
             /\ \A i \in 1..n : longer[i] = long[i]
      <3>1. Append(long, x) \in Seq(S) /\ Len(Append(long, x)) = n + 1
        BY <2>2, AppendProperties
      <3>2. \A i \in 1..n : Append(long, x)[i] = long[i]
        BY <2>2, AppendProperties
      <3> QED
        BY <3>1, <3>2
    <2>4. m <= n /\ SubSeq(short, 1, m) = SubSeq(long, 1, m)
      BY <1>2, <2>1, <2>2 DEF IsPrefix
    <2>5. SubSeq(long, 1, m) = SubSeq(longer, 1, m)
      <3>1. SubSeq(long, 1, m) = [i \in 1..m |-> long[i]]
        BY <2>2, <2>4
      <3>2. SubSeq(longer, 1, m) = [i \in 1..m |-> longer[i]]
        BY <2>3, <2>4
      <3>3. \A i \in 1..m : long[i] = longer[i]
        BY <2>3, <2>4
      <3> QED
        BY <3>1, <3>2, <3>3
    <2> QED
      BY <2>1, <2>3, <2>4, <2>5 DEF IsPrefix
  <1> QED
    BY <1>1, <1>2

Histories == Seq({"created", "approved", "rejected", "cancelled"})

(***************************************************************************)
(* Entries have the fields of an entry.                                    *)
(***************************************************************************)
LEMMA EntriesTyped ==
    ASSUME NEW m, IsEntries(m)
    PROVE  /\ DOMAIN m \subseteq StoredIds
           /\ m = [id \in DOMAIN m |-> m[id]]
           /\ \A id \in DOMAIN m : m[id] \in StoredEntry /\ m[id].history \in Histories
           /\ m # TornStore
  BY TornAssumption DEF IsEntries, StoredEntry, Histories

(***************************************************************************)
(* What has the fields of an entry at every id is entries.                 *)
(***************************************************************************)
LEMMA EntriesAre ==
    ASSUME NEW m, NEW ids \in SUBSET StoredIds, m = [id \in ids |-> m[id]],
           \A id \in ids : m[id] \in StoredEntry
    PROVE  IsEntries(m)
  <1>1. m \in [ids -> StoredEntry]
    OBVIOUS
  <1> QED
    BY <1>1 DEF IsEntries

(***************************************************************************)
(* No entries are entries, and all of them survive anywhere.               *)
(***************************************************************************)
LEMMA NothingSurvives == IsEntries(NoEntries) /\ \A m : survives(NoEntries, m)
  <1>1. DOMAIN NoEntries = {}
    BY DEF NoEntries
  <1>2. NoEntries \in [{} -> StoredEntry]
    BY DEF NoEntries
  <1>3. IsEntries(NoEntries)
    BY <1>2 DEF IsEntries
  <1> QED
    BY <1>1, <1>3 DEF survives

(***************************************************************************)
(* Entries survive in themselves.                                          *)
(***************************************************************************)
LEMMA SurvivesItself ==
    ASSUME NEW m, IsEntries(m)
    PROVE  survives(m, m)
  BY EntriesTyped, PrefixGrows DEF survives, Histories

(***************************************************************************)
(* persist() of entries that hold what was written keeps the invariant,    *)
(* whether the write replaces the file, fails or breaks off.               *)
(***************************************************************************)
LEMMA PersistKeeps ==
    ASSUME StoreInv, NEW m, IsEntries(m), survives(durable, m),
           entries' = m, persist(m)
    PROVE  StoreInv'
  <1>1. m # TornStore
    BY TornAssumption
  <1>2. CASE storeFile' = m /\ durable' = m
    BY <1>1, <1>2, SurvivesItself DEF StoreInv, StoreTypeOK
  <1>3. CASE UNCHANGED <<storeFile, durable>>
    BY <1>3 DEF StoreInv, StoreTypeOK
  <1>4. CASE storeFile' = TornStore /\ durable' = NoEntries
    <2>1. IsEntries(NoEntries) /\ survives(NoEntries, m)
      BY NothingSurvives
    <2> QED
      BY <1>4, <2>1 DEF StoreInv, StoreTypeOK
  <1> QED
    BY <1>2, <1>3, <1>4 DEF persist

(***************************************************************************)
(* A save adds to the history of its entry and leaves the others.          *)
(***************************************************************************)
LEMMA SaveKeeps ==
    ASSUME StoreInv, NEW id \in StoredIds, NEW newStatus \in RequestStatuses,
           save(id, newStatus)
    PROVE  StoreInv'
  <1> DEFINE saved == IF id \in DOMAIN entries
                      THEN [status |-> newStatus,
                            history |-> Append(entries[id].history, historyAction(newStatus))]
                      ELSE [status |-> newStatus, history |-> <<"created">>]
             after == [i \in DOMAIN entries \cup {id} |-> IF i = id THEN saved ELSE entries[i]]
  <1>1. entries' = after /\ persist(after)
    BY DEF save
  <1>2. /\ IsEntries(entries) /\ IsEntries(durable) /\ survives(durable, entries)
    BY DEF StoreInv, StoreTypeOK
  <1>3. historyAction(newStatus) \in {"created", "approved", "rejected", "cancelled"}
    BY StatusAssumption DEF historyAction
  <1>4. /\ id \in DOMAIN entries =>
              saved.history = Append(entries[id].history, historyAction(newStatus))
        /\ saved.history \in Histories /\ saved.status = newStatus
        /\ saved = [status |-> saved.status, history |-> saved.history]
    <2>1. CASE id \in DOMAIN entries
      <3>1. entries[id].history \in Histories
        BY <1>2, <2>1, EntriesTyped
      <3>2. Append(entries[id].history, historyAction(newStatus)) \in Histories
        BY <1>3, <3>1, AppendProperties DEF Histories
      <3> QED
        BY <2>1, <3>2
    <2>2. CASE id \notin DOMAIN entries
      BY <2>2 DEF Histories
    <2> QED
      BY <2>1, <2>2
  <1>5. saved \in StoredEntry
    BY <1>4 DEF StoredEntry, Histories
  <1> HIDE DEF saved
  <1>6. /\ DOMAIN after = DOMAIN entries \cup {id}
        /\ after = [i \in DOMAIN after |-> after[i]]
        /\ after[id] = saved
        /\ \A i \in DOMAIN entries : i # id => after[i] = entries[i]
    OBVIOUS
  <1> HIDE DEF after
  <1>7. IsEntries(after)
    <2>1. DOMAIN after \in SUBSET StoredIds /\ \A i \in DOMAIN after : after[i] \in StoredEntry
      BY <1>2, <1>5, <1>6, EntriesTyped
    <2> QED
      BY <1>6, <2>1, EntriesAre
  <1>8. survives(durable, after)
    <2> SUFFICES ASSUME NEW i \in DOMAIN durable
                 PROVE  i \in DOMAIN after /\ IsPrefix(durable[i].history, after[i].history)
      BY DEF survives
    <2>1. i \in DOMAIN entries /\ IsPrefix(durable[i].history, entries[i].history)
      BY <1>2 DEF survives
    <2>2. CASE i # id
      BY <1>6, <2>1, <2>2
    <2>3. CASE i = id
      <3>1. after[i].history = Append(entries[i].history, historyAction(newStatus))
        BY <1>4, <1>6, <2>1, <2>3
      <3>2. durable[i].history \in Histories /\ entries[i].history \in Histories
        BY <1>2, <2>1, EntriesTyped
      <3>3. IsPrefix(durable[i].history, Append(entries[i].history, historyAction(newStatus)))
        BY <1>3, <2>1, <3>2, PrefixGrows DEF Histories
      <3> QED
        BY <1>6, <2>1, <3>1, <3>3
    <2> QED
      BY <2>2, <2>3
  <1> QED
    BY <1>1, <1>7, <1>8, PersistKeeps

(***************************************************************************)
(* The caller's change of a request leaves its history.                    *)
(***************************************************************************)
LEMMA ChangeRequestKeeps ==
    ASSUME StoreInv, NEW id \in StoredIds, NEW newStatus \in RequestStatuses,
           ChangeRequest(id, newStatus)
    PROVE  StoreInv'
  <1>1. /\ id \in DOMAIN entries /\ IsEntries(entries) /\ survives(durable, entries)
        /\ UNCHANGED <<storeFile, durable>>
    BY DEF StoreInv, StoreTypeOK, ChangeRequest
  <1>2. PICK changed : changed = [entries[id] EXCEPT !.status = newStatus]
    OBVIOUS
  <1>3. entries' = [entries EXCEPT ![id] = changed]
    BY <1>2 DEF ChangeRequest
  <1>4. changed \in StoredEntry /\ changed.history = entries[id].history
    <2>1. entries[id] \in StoredEntry
      BY <1>1, EntriesTyped
    <2> QED
      BY <1>2, <2>1 DEF StoredEntry
  <1>5. /\ DOMAIN entries' = DOMAIN entries
        /\ entries' = [i \in DOMAIN entries' |-> entries'[i]]
        /\ \A i \in DOMAIN entries : entries'[i] = IF i = id THEN changed ELSE entries[i]
    <2>1. entries = [i \in DOMAIN entries |-> entries[i]]
      BY <1>1, EntriesTyped
    <2> QED
      BY <1>1, <1>3, <2>1
  <1>6. IsEntries(entries')
    <2>1. DOMAIN entries' \in SUBSET StoredIds
          /\ \A i \in DOMAIN entries' : entries'[i] \in StoredEntry
      BY <1>1, <1>4, <1>5, EntriesTyped
    <2> QED
      BY <1>5, <2>1, EntriesAre
  <1>7. survives(durable, entries')
    BY <1>1, <1>4, <1>5 DEF survives
  <1> QED
    BY <1>1, <1>6, <1>7 DEF StoreInv, StoreTypeOK

(***************************************************************************)
(* What a whole write recorded survives every order of saves, failed and   *)
(* torn writes, changes and restarts.                                      *)
(***************************************************************************)
THEOREM WrittenStays ==
    StoreInit /\ [][StoreNext]_storeVars => [](StoreTypeOK /\ WrittenSurvives)
  <1>1. IsEntries(NoEntries) /\ \A m : survives(NoEntries, m)
    BY NothingSurvives
  <1>2. StoreInit => StoreInv
    BY <1>1, EntriesTyped DEF StoreInit, StoreInv, StoreTypeOK
  <1>3. StoreInv /\ [StoreNext]_storeVars => StoreInv'
    <2> SUFFICES ASSUME StoreInv, [StoreNext]_storeVars PROVE StoreInv'
      OBVIOUS
    <2>1. ASSUME NEW id \in StoredIds, NEW newStatus \in RequestStatuses,
                 save(id, newStatus) \/ ChangeRequest(id, newStatus)
          PROVE  StoreInv'
      BY <2>1, SaveKeeps, ChangeRequestKeeps
    <2>2. CASE clear
      BY <1>1, <2>2, EntriesTyped DEF clear, StoreInv, StoreTypeOK
    <2>3. CASE load
      BY <1>1, <2>3 DEF load, StoreInv, StoreTypeOK
    <2>4. CASE UNCHANGED storeVars
      BY <2>4 DEF storeVars, StoreInv, StoreTypeOK
    <2> QED
      BY <2>1, <2>2, <2>3, <2>4 DEF StoreNext
  <1>4. StoreInv => StoreTypeOK /\ WrittenSurvives
    BY DEF StoreInv, WrittenSurvives, survives
  <1> QED
    BY <1>2, <1>3, <1>4, PTL

-----------------------------------------------------------------------------
(***************************************************************************)
(* Team policies.  A document in force that has metadata is the one its    *)
(* team has, unless the team's was created again.                          *)
(***************************************************************************)
DocumentKept ==
    policy # NoPolicy /\ policy.team # NoMetadata =>
        /\ policy.team \in DOMAIN policies
        /\ ~recreated => policies[policy.team] = policy

(***************************************************************************)
(* A call was cut only with a document in force that has none.             *)
(***************************************************************************)
CutByHeadless == cut => policy # NoPolicy /\ policy.team = NoMetadata

TeamInv == TeamTypeOK /\ DocumentKept /\ CutByHeadless

Named == Teams \cup {NoTeam}

(***************************************************************************)
(* A document that is recorded becomes its team's, and no other's.         *)
(***************************************************************************)
LEMMA RecordKeeps ==
    ASSUME TeamTypeOK, NEW t \in Named, NEW rules \in RuleLists,
           record(document(t, rules))
    PROVE  /\ IsDocument(document(t, rules)) /\ document(t, rules).team = t
           /\ stamp' \in 0..MaxStamp
           /\ DOMAIN policies' = DOMAIN policies \cup {t}
           /\ policies'[t] = document(t, rules)
           /\ \A u \in DOMAIN policies : u # t => policies'[u] = policies[u]
           /\ DOMAIN policies' \subseteq Named
           /\ \A u \in DOMAIN policies' : IsDocument(policies'[u]) /\ policies'[u].team = u
  <1>1. stamp + 1 \in 1..MaxStamp /\ stamp' = stamp + 1
    BY StampAssumption DEF TeamTypeOK, record
  <1>2. PICK doc : doc = document(t, rules)
    OBVIOUS
  <1>3. doc.team = t /\ IsDocument(doc)
    BY <1>1, <1>2 DEF document, IsDocument, Named
  <1>4. policies' = [u \in DOMAIN policies \cup {t} |-> IF u = t THEN doc ELSE policies[u]]
    BY <1>2, <1>3 DEF record
  <1>5. /\ DOMAIN policies' = DOMAIN policies \cup {t}
        /\ policies'[t] = doc
        /\ \A u \in DOMAIN policies : u # t => policies'[u] = policies[u]
    BY <1>4
  <1>6. \A u \in DOMAIN policies' : IsDocument(policies'[u]) /\ policies'[u].team = u
    BY <1>3, <1>5 DEF TeamTypeOK
  <1> QED
    BY <1>1, <1>2, <1>3, <1>5, <1>6 DEF TeamTypeOK, Named

(***************************************************************************)
(* No load, creation, update or deletion leaves another document in force  *)
(* than the team's, but the creation that `recreated` remembers.           *)
(***************************************************************************)
LEMMA TeamStepKeeps ==
    ASSUME TeamInv, NEW t \in Named, NEW rules \in RuleLists,
           \/ loadTeamPolicy(t, rules)
           \/ t \in Teams /\ createTeamPolicy(t, rules)
           \/ t \in Teams /\ updateTeamPolicy(t, rules)
    PROVE  TeamInv'
  <1> DEFINE doc == document(t, rules)
  <1>1. TeamTypeOK /\ DocumentKept /\ CutByHeadless /\ record(doc)
    BY DEF TeamInv, loadTeamPolicy, createTeamPolicy, updateTeamPolicy
  <1>2. /\ IsDocument(doc) /\ doc.team = t
        /\ stamp' \in 0..MaxStamp
        /\ DOMAIN policies' = DOMAIN policies \cup {t}
        /\ policies'[t] = doc
        /\ \A u \in DOMAIN policies : u # t => policies'[u] = policies[u]
        /\ DOMAIN policies' \subseteq Named
        /\ \A u \in DOMAIN policies' : IsDocument(policies'[u]) /\ policies'[u].team = u
    BY <1>1, RecordKeeps
  <1>t. t # NoMetadata
    BY MarkersAssumption DEF Named
  <1>u. inForce(t) => ~headless
    BY <1>t DEF inForce, headless
  <1>c. cut' = FALSE \/ (cut' = headless /\ policy' = IF inForce(t) THEN doc ELSE policy)
    BY DEF doc, loadTeamPolicy, createTeamPolicy, updateTeamPolicy
  <1>h. headless \in BOOLEAN /\ (policy' = doc \/ policy' = policy) /\ recreated' \in BOOLEAN
    BY <1>1 DEF doc, loadTeamPolicy, createTeamPolicy, updateTeamPolicy, TeamTypeOK, headless,
                inForce
  <1>w. cut' = FALSE \/ (policy' = policy /\ headless /\ cut' = TRUE)
    BY <1>c, <1>h, <1>u
  <1> HIDE DEF doc
  <1>3. (policy' = doc \/ policy' = policy) /\ recreated' \in BOOLEAN /\ cut' \in BOOLEAN
    BY <1>h, <1>w
  <1>4. TeamTypeOK'
    BY <1>1, <1>2, <1>3 DEF TeamTypeOK, IsDocument, Named
  <1>5. ASSUME policy' = doc PROVE DocumentKept'
    BY <1>2, <1>5 DEF DocumentKept
  <1>6. ASSUME policy' = policy, policy # doc PROVE DocumentKept'
    <2>1. CASE inForce(t)
      <3>1. recreated'
        BY <1>6, <2>1 DEF doc, inForce, loadTeamPolicy, createTeamPolicy, updateTeamPolicy
      <3>2. policy.team = t
        BY <2>1 DEF inForce
      <3> QED
        BY <1>2, <1>6, <3>1, <3>2 DEF DocumentKept
    <2>2. CASE ~inForce(t)
      <3>1. policy # NoPolicy => (recreated <=> recreated')
        BY <1>6, <2>2 DEF doc, inForce, loadTeamPolicy, createTeamPolicy, updateTeamPolicy
      <3>2. policy # NoPolicy => policy.team # t
        BY <2>2 DEF inForce
      <3>3. CASE policy = NoPolicy \/ policy.team = NoMetadata
        BY <1>6, <3>3 DEF DocumentKept
      <3>4. CASE policy # NoPolicy /\ policy.team # NoMetadata
        <4>1. policy.team \in DOMAIN policies /\ policies'[policy.team] = policies[policy.team]
          BY <1>1, <1>2, <3>2, <3>4 DEF DocumentKept
        <4>2. ~recreated' => policies[policy.team] = policy
          BY <1>1, <3>1, <3>4 DEF DocumentKept
        <4> QED
          BY <1>2, <1>6, <4>1, <4>2 DEF DocumentKept
      <3> QED
        BY <3>3, <3>4
    <2> QED
      BY <2>1, <2>2
  <1>7. DocumentKept'
    BY <1>3, <1>5, <1>6
  <1>8. CutByHeadless'
    BY <1>w DEF CutByHeadless, headless, inForce
  <1> QED
    BY <1>4, <1>7, <1>8 DEF TeamInv

(***************************************************************************)
(* A document without metadata is in force, and its load was cut.          *)
(***************************************************************************)
LEMMA HeadlessKeeps ==
    ASSUME TeamInv, NEW rules \in RuleLists, loadWithoutMetadata(rules)
    PROVE  TeamInv'
  <1>1. /\ stamp + 1 \in 1..MaxStamp /\ stamp' = stamp + 1 /\ stamp' \in 0..MaxStamp
        /\ policy' = document(NoMetadata, rules)
        /\ recreated' = FALSE /\ cut' = TRUE /\ policies' = policies
    BY StampAssumption DEF loadWithoutMetadata, TeamInv, TeamTypeOK
  <1>2. PICK doc : doc = document(NoMetadata, rules)
    OBVIOUS
  <1>3. doc.team = NoMetadata /\ IsDocument(doc)
    BY <1>1, <1>2 DEF document, IsDocument
  <1>4. IsDocument(doc)'
    BY <1>3 DEF IsDocument
  <1>5. \A t \in DOMAIN policies : IsDocument(policies[t])' /\ policies[t].team = t
    BY <1>1 DEF TeamInv, TeamTypeOK, IsDocument
  <1>6. TeamTypeOK'
    BY <1>1, <1>2, <1>4, <1>5 DEF TeamInv, TeamTypeOK
  <1>7. doc # NoPolicy
    BY <1>1, <1>2, MarkersAssumption DEF document
  <1> QED
    BY <1>1, <1>2, <1>3, <1>6, <1>7 DEF TeamInv, DocumentKept, CutByHeadless

(***************************************************************************)
(* A deletion puts its document out of force.                              *)
(***************************************************************************)
LEMMA DeleteKeeps ==
    ASSUME TeamInv, NEW t \in Teams, deleteTeamPolicy(t)
    PROVE  TeamInv'
  <1>1. /\ policies' = [u \in DOMAIN policies \ {t} |-> policies[u]]
        /\ policy' = IF inForce(t) THEN NoPolicy ELSE policy
        /\ recreated' = (recreated /\ ~inForce(t))
        /\ cut' = headless
        /\ UNCHANGED stamp
    BY DEF deleteTeamPolicy
  <1>2. /\ DOMAIN policies' = DOMAIN policies \ {t}
        /\ \A u \in DOMAIN policies' : policies'[u] = policies[u]
    BY <1>1
  <1>3. TeamTypeOK'
    BY <1>1, <1>2 DEF TeamInv, TeamTypeOK, IsDocument, headless, inForce
  <1>4. DocumentKept'
    <2> SUFFICES ASSUME policy' # NoPolicy, policy'.team # NoMetadata PROVE DocumentKept'
      BY DEF DocumentKept
    <2>1. policy' = policy /\ policy # NoPolicy /\ policy.team # t /\ ~inForce(t)
      BY <1>1 DEF inForce
    <2>2. recreated' = recreated
      BY <1>1, <2>1 DEF TeamInv, TeamTypeOK
    <2> QED
      BY <1>2, <2>1, <2>2 DEF TeamInv, DocumentKept
  <1>5. CutByHeadless'
    <2>1. t # NoMetadata
      BY MarkersAssumption
    <2> QED
      BY <1>1, <2>1 DEF CutByHeadless, headless, inForce
  <1> QED
    BY <1>3, <1>4, <1>5 DEF TeamInv

(***************************************************************************)
(* Decisions follow the document the team in force has now, a document in  *)
(* force with no entry has no metadata, and only with one in force did a   *)
(* call throw with its change half made (team-policy.ts:58).               *)
(***************************************************************************)
THEOREM TeamsDecide ==
    TeamInit /\ [][TeamNext]_teamVars => [](TeamTypeOK /\ DecidesByTeam)
  <1>1. TeamInit => TeamInv
    <2> SUFFICES ASSUME TeamInit PROVE TeamInv
      OBVIOUS
    <2>1. DOMAIN policies = {} /\ policy = NoPolicy /\ stamp = 0
          /\ recreated = FALSE /\ cut = FALSE
      BY DEF TeamInit
    <2>2. stamp \in 0..MaxStamp
      BY StampAssumption DEF TeamInit
    <2>5. recreated \in BOOLEAN /\ cut \in BOOLEAN
      BY <2>1
    <2>3. TeamTypeOK
      BY <2>1, <2>2, <2>5 DEF TeamTypeOK
    <2>4. DocumentKept /\ CutByHeadless
      BY <2>1 DEF DocumentKept, CutByHeadless
    <2> QED
      BY <2>3, <2>4 DEF TeamInv
  <1>2. TeamInv /\ [TeamNext]_teamVars => TeamInv'
    <2> SUFFICES ASSUME TeamInv, [TeamNext]_teamVars PROVE TeamInv'
      OBVIOUS
    <2>1. CASE TeamNext
      <3>1. Teams \subseteq Named
        BY DEF Named
      <3>2. CASE \E t \in Teams \cup {NoTeam}, rules \in RuleLists : loadTeamPolicy(t, rules)
        BY <3>2, TeamStepKeeps DEF Named
      <3>3. CASE \E rules \in RuleLists : loadWithoutMetadata(rules)
        BY <3>3, HeadlessKeeps
      <3>4. CASE \E t \in Teams : deleteTeamPolicy(t)
        BY <3>4, DeleteKeeps
      <3>5. CASE \E t \in Teams, rules \in RuleLists :
                    createTeamPolicy(t, rules) \/ updateTeamPolicy(t, rules)
        BY <3>1, <3>5, TeamStepKeeps
      <3> QED
        BY <2>1, <3>2, <3>3, <3>4, <3>5 DEF TeamNext
    <2>2. CASE UNCHANGED teamVars
      BY <2>2 DEF teamVars, TeamInv, TeamTypeOK, DocumentKept, CutByHeadless, IsDocument
    <2> QED
      BY <2>1, <2>2
  <1>3. TeamInv => TeamTypeOK /\ DecidesByTeam
    <2> SUFFICES ASSUME TeamInv PROVE TeamTypeOK /\ DecidesByTeam
      OBVIOUS
    <2>1. TeamTypeOK /\ DocumentKept /\ CutByHeadless
      BY DEF TeamInv
    <2>2. ASSUME policy # NoPolicy, ~headless, ~recreated,
                 NEW words \in SUBSET (RuleIds \cup BuiltInWords), NEW role \in Roles
          PROVE  evaluate(words, role) =
                    IF evaluateBuiltIn(words, role) # "allow"
                    THEN evaluateBuiltIn(words, role)
                    ELSE decide(policies[policy.team].rules, words, role)
      <3>1. policies[policy.team] = policy
        BY <2>1, <2>2 DEF DocumentKept, headless, inForce
      <3> QED
        BY <2>2, <3>1 DEF evaluate
    <2>3. ASSUME policy # NoPolicy
          PROVE  policy.team \in DOMAIN policies <=> policy.team # NoMetadata
      BY <2>1, <2>3, MarkersAssumption DEF TeamTypeOK, DocumentKept
    <2>4. cut => headless
      BY <2>1 DEF CutByHeadless, headless, inForce
    <2> QED
      BY <2>1, <2>2, <2>3, <2>4 DEF DecidesByTeam
  <1> QED
    BY <1>1, <1>2, <1>3, PTL

-----------------------------------------------------------------------------
(***************************************************************************)
(* Approvals.  Nobody approves twice, the quorum of every level below a    *)
(* request's is met unless it was escalated, and that of its own once it   *)
(* is approved.                                                            *)
(***************************************************************************)
ApprovesOnce(given) ==
    \A a, b \in given :
        a.status = "approved" /\ b.status = "approved" /\ a.approver = b.approver => a = b

\* What the approvals of one request add up to.
Climbed(r) ==
    /\ ApprovesOnce(approvals[r])
    /\ ~escalated[r] => \A l \in Levels :
          Rank(l) < Rank(currentLevel[r]) => quorum(approvals[r], l)
    /\ status[r] = "approved" =>
          currentLevel[r] = requiredLevel[r] /\ quorum(approvals[r], requiredLevel[r])

\* The inductive invariant.
FlowInv ==
    /\ TypeOK
    /\ \A r \in Requests : Climbed(r)

people(given, l) == {a.approver : a \in levelApprovals(given, l)}

(***************************************************************************)
(* Approvals are finitely many, and as many as the people who gave them.   *)
(***************************************************************************)
LEMMA PeopleCounted ==
    ASSUME NEW given \in SUBSET Approval, ApprovesOnce(given), NEW l \in Levels
    PROVE  /\ IsFiniteSet(levelApprovals(given, l))
           /\ Cardinality(people(given, l)) = Cardinality(levelApprovals(given, l))
           /\ people(given, l) \in SUBSET Approvers
           /\ \A k \in Levels : k # l => people(given, k) \cap people(given, l) = {}
  <1> DEFINE of == [a \in levelApprovals(given, l) |-> a.approver]
  <1>1. \A a \in levelApprovals(given, l) :
           a \in Approval /\ a \in given /\ a.level = l /\ a.status = "approved"
           /\ a.approver \in Approvers
    BY DEF levelApprovals, Approval
  <1>2. people(given, l) \in SUBSET Approvers
    BY <1>1 DEF people
  <1>3. IsFiniteSet(people(given, l))
    BY <1>2, ApproversAssumption, FS_Subset
  <1>4. of \in Injection(levelApprovals(given, l), people(given, l))
        /\ of \in Surjection(levelApprovals(given, l), people(given, l))
    <2>1. of \in [levelApprovals(given, l) -> people(given, l)]
      BY DEF people
    <2>2. \A a, b \in levelApprovals(given, l) : of[a] = of[b] => a = b
      BY <1>1 DEF ApprovesOnce
    <2>3. \A p \in people(given, l) : \E a \in levelApprovals(given, l) : of[a] = p
      BY DEF people
    <2> HIDE DEF of
    <2> QED
      BY <2>1, <2>2, <2>3 DEF Injection, Surjection, IsInjective
  <1> HIDE DEF of
  <1>5. /\ IsFiniteSet(levelApprovals(given, l))
        /\ Cardinality(people(given, l)) = Cardinality(levelApprovals(given, l))
    BY <1>3, <1>4, FS_Injection
  <1>6. \A k \in Levels : k # l => people(given, k) \cap people(given, l) = {}
    BY DEF people, levelApprovals, ApprovesOnce
  <1> QED
    BY <1>2, <1>5, <1>6

(***************************************************************************)
(* A quorum that is met stays met by more approvals.                       *)
(***************************************************************************)
LEMMA QuorumGrows ==
    ASSUME NEW given, NEW more \in SUBSET Approval, given \subseteq more,
           ApprovesOnce(more), NEW l \in Levels, quorum(given, l)
    PROVE  quorum(more, l)
  <1>1. IsFiniteSet(levelApprovals(more, l))
    BY PeopleCounted
  <1>2. levelApprovals(given, l) \in SUBSET levelApprovals(more, l)
    BY DEF levelApprovals
  <1>3. /\ IsFiniteSet(levelApprovals(given, l))
        /\ Cardinality(levelApprovals(given, l)) <= Cardinality(levelApprovals(more, l))
    BY <1>1, <1>2, FS_Subset
  <1>4. PICK m \in Nat : m = Cardinality(levelApprovals(given, l))
    BY <1>3, FS_CardinalityType
  <1>5. PICK n \in Nat : n = Cardinality(levelApprovals(more, l))
    BY <1>1, FS_CardinalityType
  <1>6. PICK least \in Nat : least = minApprovers[l]
    BY ConfigAssumption
  <1> QED
    BY <1>3, <1>4, <1>5, <1>6 DEF quorum

(***************************************************************************)
(* The next level is the one above, and the highest is its own next.       *)
(***************************************************************************)
LEMMA NextLevelIs ==
    ASSUME NEW cur \in Levels
    PROVE  /\ getNextLevel(cur) \in Levels
           /\ \A l \in Levels : Rank(l) < Rank(getNextLevel(cur)) =>
                 l = cur \/ Rank(l) < Rank(cur)
           /\ \A l \in Levels : Rank(l) <= Rank(cur) => l = cur \/ Rank(l) < Rank(cur)
           /\ \A l \in Levels : ~(Rank(l) < Rank("self"))
  <1>1. Rank("self") = 1 /\ Rank("team") = 2 /\ Rank("organization") = 3
    BY DEF Rank
  <1> QED
    BY <1>1 DEF getNextLevel, Levels

(***************************************************************************)
(* An approval counts its own approver once more, and moves its request    *)
(* only by a quorum of the level it stands at.                             *)
(***************************************************************************)
LEMMA ApproveKeeps ==
    ASSUME FlowInv, NEW r \in Requests, NEW p \in Approvers, approve(r, p)
    PROVE  FlowInv'
  <1> DEFINE cur == currentLevel[r]
             new == [approver |-> p, level |-> cur, status |-> "approved"]
             given == approvals[r] \cup {new}
             met == quorum(given, cur)
  <1>1. /\ status[r] # "none" /\ mayApprove(r, p)
        /\ approvals' = [approvals EXCEPT ![r] = given]
        /\ IF met /\ cur = requiredLevel[r]
           THEN /\ status' = [status EXCEPT ![r] = "approved"]
                /\ UNCHANGED currentLevel
           ELSE /\ currentLevel' =
                     IF met THEN [currentLevel EXCEPT ![r] = getNextLevel(@)]
                            ELSE currentLevel
                /\ UNCHANGED status
        /\ UNCHANGED <<requiredLevel, escalated, age, checking>>
    BY DEF approve
  <1>2. /\ currentLevel \in [Requests -> Levels] /\ requiredLevel \in [Requests -> Levels]
        /\ approvals \in [Requests -> SUBSET Approval]
        /\ status \in [Requests -> Statuses \cup {"none"}]
        /\ cur \in Levels
    BY DEF FlowInv, TypeOK
  <1>3. new \in Approval /\ new.approver = p /\ new.level = cur /\ new.status = "approved"
    BY <1>2 DEF Approval
  <1>4. given \in SUBSET Approval /\ approvals[r] \subseteq given
    BY <1>2, <1>3
  <1>5. ApprovesOnce(given)
    BY <1>1, <1>3 DEF FlowInv, Climbed, ApprovesOnce, mayApprove
  <1> HIDE DEF new
  <1>6. \A l \in Levels : quorum(approvals[r], l) => quorum(given, l)
    BY <1>4, <1>5, QuorumGrows
  <1> HIDE DEF given
  <1>7. approvals'[r] = given /\ \A q \in Requests : q # r => approvals'[q] = approvals[q]
    BY <1>1, <1>2
  <1>8. /\ status'[r] = IF met /\ cur = requiredLevel[r] THEN "approved" ELSE status[r]
        /\ currentLevel'[r] = IF met /\ cur # requiredLevel[r] THEN getNextLevel(cur) ELSE cur
        /\ \A q \in Requests : q # r => status'[q] = status[q]
                                        /\ currentLevel'[q] = currentLevel[q]
    BY <1>1, <1>2
  <1>9. getNextLevel(cur) \in Levels
    BY <1>2, NextLevelIs
  <1>10. TypeOK'
    <2>1. /\ currentLevel' \in [Requests -> Levels]
          /\ approvals' \in [Requests -> SUBSET Approval]
          /\ status' \in [Requests -> Statuses \cup {"none"}]
      BY <1>1, <1>2, <1>4, <1>9 DEF Statuses
    <2>2. \A q \in Requests : status'[q] = "none" => q # r /\ status[q] = "none"
      BY <1>1, <1>8
    <2> QED
      BY <1>1, <1>7, <1>8, <2>1, <2>2 DEF FlowInv, TypeOK
  <1>11. Climbed(r)'
    <2>1. ASSUME ~escalated[r], NEW l \in Levels, Rank(l) < Rank(currentLevel'[r])
          PROVE  quorum(given, l)
      <3>1. (l = cur /\ met) \/ Rank(l) < Rank(cur)
        BY <1>2, <1>8, <2>1, NextLevelIs
      <3>2. Rank(l) < Rank(cur) => quorum(approvals[r], l)
        BY <2>1 DEF FlowInv, Climbed
      <3> QED
        BY <1>6, <3>1, <3>2
    <2>2. ASSUME status'[r] = "approved"
          PROVE  currentLevel'[r] = requiredLevel[r] /\ quorum(given, requiredLevel[r])
      <3>1. CASE met /\ cur = requiredLevel[r]
        BY <1>8, <3>1
      <3>2. CASE ~(met /\ cur = requiredLevel[r])
        <4>1. status[r] = "approved"
          BY <1>8, <2>2, <3>2
        <4>2. cur = requiredLevel[r] /\ quorum(approvals[r], requiredLevel[r])
          BY <4>1 DEF FlowInv, Climbed
        <4> QED
          BY <1>2, <1>6, <3>2, <4>2
      <3> QED
        BY <3>1, <3>2
    <2> QED
      BY <1>1, <1>5, <1>7, <2>1, <2>2 DEF Climbed
  <1>12. ASSUME NEW q \in Requests, q # r PROVE Climbed(q)'
    BY <1>1, <1>7, <1>8, <1>12 DEF FlowInv, Climbed
  <1> QED
    BY <1>10, <1>11, <1>12 DEF FlowInv

(***************************************************************************)
(* A rejection is no approval, whoever gives it and however late.          *)
(***************************************************************************)
LEMMA RejectKeeps ==
    ASSUME FlowInv, NEW r \in Requests, NEW p \in Approvers, reject(r, p)
    PROVE  FlowInv'
  <1> DEFINE new == [approver |-> p, level |-> currentLevel[r], status |-> "rejected"]
             given == approvals[r] \cup {new}
  <1>1. /\ status[r] # "none"
        /\ approvals' = [approvals EXCEPT ![r] = given]
        /\ status' = [status EXCEPT ![r] = "rejected"]
        /\ UNCHANGED <<requiredLevel, currentLevel, escalated, age, checking>>
    BY DEF reject
  <1>2. /\ currentLevel \in [Requests -> Levels]
        /\ approvals \in [Requests -> SUBSET Approval]
        /\ status \in [Requests -> Statuses \cup {"none"}]
    BY DEF FlowInv, TypeOK
  <1>3. new \in Approval /\ new.status = "rejected"
    BY <1>2 DEF Approval
  <1> HIDE DEF new
  <1>4. given \in SUBSET Approval
    BY <1>2, <1>3
  <1>5. \A l \in Levels : levelApprovals(given, l) = levelApprovals(approvals[r], l)
    BY <1>3 DEF levelApprovals
  <1>6. ApprovesOnce(given)
    BY <1>3 DEF FlowInv, Climbed, ApprovesOnce
  <1> HIDE DEF given
  <1>7. approvals'[r] = given /\ \A q \in Requests : q # r => approvals'[q] = approvals[q]
    BY <1>1, <1>2
  <1>8. status'[r] = "rejected" /\ \A q \in Requests : q # r => status'[q] = status[q]
    BY <1>1, <1>2
  <1>9. TypeOK'
    <2>1. /\ approvals' \in [Requests -> SUBSET Approval]
          /\ status' \in [Requests -> Statuses \cup {"none"}]
      BY <1>1, <1>2, <1>4 DEF Statuses
    <2>2. \A q \in Requests : status'[q] = "none" => q # r /\ status[q] = "none"
      BY <1>8
    <2> QED
      BY <1>1, <1>7, <2>1, <2>2 DEF FlowInv, TypeOK
  <1>10. Climbed(r)'
    <2>1. ~escalated[r] => \A l \in Levels : Rank(l) < Rank(currentLevel[r]) => quorum(given, l)
      BY <1>5 DEF FlowInv, Climbed, quorum
    <2> QED
      BY <1>1, <1>6, <1>7, <1>8, <2>1 DEF Climbed
  <1>11. ASSUME NEW q \in Requests, q # r PROVE Climbed(q)'
    BY <1>1, <1>7, <1>8, <1>11 DEF FlowInv, Climbed
  <1> QED
    BY <1>9, <1>10, <1>11 DEF FlowInv

(***************************************************************************)
(* A step that leaves approvals and levels alone, approves nobody and      *)
(* takes no request back to "none" keeps what was climbed.                 *)
(***************************************************************************)
LEMMA StatusStepKeeps ==
    ASSUME FlowInv, UNCHANGED <<requiredLevel, currentLevel, approvals, escalated>>,
           status' \in [Requests -> Statuses \cup {"none"}],
           age' \in [Requests -> 0..MaxAge], checking' \in BOOLEAN,
           \A q \in Requests : status'[q] = "none" => status[q] = "none",
           \A q \in Requests : status'[q] = "approved" => status[q] = "approved"
    PROVE  FlowInv'
  <1>1. TypeOK'
    BY DEF FlowInv, TypeOK
  <1>2. ASSUME NEW q \in Requests PROVE Climbed(q)'
    BY DEF FlowInv, Climbed
  <1> QED
    BY <1>1, <1>2 DEF FlowInv

(***************************************************************************)
(* An escalation concerns pending requests, and is remembered.             *)
(***************************************************************************)
LEMMA EscalationKeeps ==
    ASSUME FlowInv, NEW chosen \in SUBSET Requests,
           \A r \in chosen : status[r] = "pending",
           escalate(chosen),
           UNCHANGED <<requiredLevel, approvals, age, checking>>,
           status' \in [Requests -> Statuses \cup {"none"}],
           \A r \in Requests : status'[r] = status[r]
                               \/ (status[r] = "pending" /\ status'[r] = "rejected")
    PROVE  FlowInv'
  <1>1. /\ currentLevel \in [Requests -> Levels] /\ escalated \in [Requests -> BOOLEAN]
        /\ escalateToLevel \in Levels
    BY ConfigAssumption DEF FlowInv, TypeOK
  <1>2. /\ currentLevel' \in [Requests -> Levels] /\ escalated' \in [Requests -> BOOLEAN]
    BY <1>1 DEF escalate
  <1>3. \A r \in Requests : r \in chosen => escalated'[r]
    BY DEF escalate
  <1>4. \A r \in Requests : r \notin chosen =>
           currentLevel'[r] = currentLevel[r] /\ (escalated'[r] <=> escalated[r])
    BY DEF escalate
  <1>5. TypeOK'
    <2>1. \A r \in Requests : status'[r] = "none" => status[r] = "none" /\ r \notin chosen
      OBVIOUS
    <2>2. \A r \in Requests : status'[r] = "none" =>
             approvals'[r] = {} /\ currentLevel'[r] = "self" /\ ~escalated'[r]
      BY <1>4, <2>1 DEF FlowInv, TypeOK
    <2> QED
      BY <1>2, <2>2 DEF FlowInv, TypeOK
  <1>6. ASSUME NEW r \in Requests PROVE Climbed(r)'
    <2>1. CASE r \in chosen
      <3>1. status'[r] # "approved" /\ escalated'[r] /\ ApprovesOnce(approvals'[r])
        BY <1>3, <2>1 DEF FlowInv, Climbed
      <3> QED
        BY <3>1 DEF Climbed
    <2>2. CASE r \notin chosen
      <3>1. status'[r] = "approved" => status[r] = "approved"
        OBVIOUS
      <3> QED
        BY <1>4, <2>2, <3>1 DEF FlowInv, Climbed
    <2> QED
      BY <2>1, <2>2
  <1> QED
    BY <1>5, <1>6 DEF FlowInv

(***************************************************************************)
(* FlowInv is inductive over all that callers and the timer do.            *)
(***************************************************************************)
THEOREM FlowInvariance == Init /\ [][Next]_vars => []FlowInv
  <1>1. Init => FlowInv
    <2> SUFFICES ASSUME Init PROVE FlowInv
      OBVIOUS
    <2>1. TypeOK
      <3>1. /\ requiredLevel \in [Requests -> Levels] /\ currentLevel \in [Requests -> Levels]
            /\ status \in [Requests -> Statuses \cup {"none"}]
            /\ approvals \in [Requests -> SUBSET Approval]
        BY DEF Init, Levels
      <3>2. age \in [Requests -> 0..MaxAge]
        BY ConfigAssumption DEF Init
      <3>3. escalated \in [Requests -> BOOLEAN] /\ checking \in BOOLEAN
        BY DEF Init
      <3>4. \A r \in Requests :
               approvals[r] = {} /\ currentLevel[r] = "self" /\ ~escalated[r]
        BY DEF Init
      <3> QED
        BY <3>1, <3>2, <3>3, <3>4 DEF TypeOK
    <2>2. ASSUME NEW r \in Requests PROVE Climbed(r)
      <3>1. /\ status[r] = "none" /\ approvals[r] = {} /\ currentLevel[r] = "self"
        BY DEF Init
      <3>2. ApprovesOnce(approvals[r])
        BY <3>1 DEF ApprovesOnce
      <3>3. \A l \in Levels : ~(Rank(l) < Rank(currentLevel[r]))
        BY <3>1, NextLevelIs DEF Levels
      <3> QED
        BY <3>1, <3>2, <3>3 DEF Climbed
    <2> QED
      BY <2>1, <2>2 DEF FlowInv
  <1>2. FlowInv /\ [Next]_vars => FlowInv'
    <2> SUFFICES ASSUME FlowInv, [Next]_vars PROVE FlowInv'
      OBVIOUS
    <2>0. /\ status \in [Requests -> Statuses \cup {"none"}]
          /\ age \in [Requests -> 0..MaxAge] /\ checking \in BOOLEAN
      BY DEF FlowInv, TypeOK
    <2>1. ASSUME NEW r \in Requests, createRequest(r) PROVE FlowInv'
      <3>1. /\ status' = [status EXCEPT ![r] = "pending"]
            /\ UNCHANGED <<requiredLevel, currentLevel, approvals, escalated, age, checking>>
        BY <2>1 DEF createRequest
      <3>2. status' \in [Requests -> Statuses \cup {"none"}]
        BY <2>0, <3>1 DEF Statuses
      <3>3. \A q \in Requests : status'[q] = status[q] \/ status'[q] = "pending"
        BY <2>0, <3>1
      <3> QED
        BY <2>0, <3>1, <3>2, <3>3, StatusStepKeeps
    <2>2. ASSUME NEW r \in Requests, cancel(r) PROVE FlowInv'
      <3>1. /\ status' = [status EXCEPT ![r] = "cancelled"]
            /\ UNCHANGED <<requiredLevel, currentLevel, approvals, escalated, age, checking>>
        BY <2>2 DEF cancel
      <3>2. status' \in [Requests -> Statuses \cup {"none"}]
        BY <2>0, <3>1 DEF Statuses
      <3>3. \A q \in Requests : status'[q] = status[q] \/ status'[q] = "cancelled"
        BY <2>0, <3>1
      <3> QED
        BY <2>0, <3>1, <3>2, <3>3, StatusStepKeeps
    <2>3. ASSUME NEW r \in Requests, Tick(r) PROVE FlowInv'
      <3>1. /\ age[r] < MaxAge /\ age' = [age EXCEPT ![r] = @ + 1]
            /\ UNCHANGED <<requiredLevel, currentLevel, status, approvals, escalated, checking>>
        BY <2>3 DEF Tick, requestVars
      <3>2. age' \in [Requests -> 0..MaxAge]
        BY <2>0, <3>1, ConfigAssumption
      <3> QED
        BY <2>0, <3>1, <3>2, StatusStepKeeps
    <2>4. ASSUME NEW r \in Requests, NEW p \in Approvers, approve(r, p) \/ reject(r, p)
          PROVE  FlowInv'
      BY <2>4, ApproveKeeps, RejectKeeps
    <2>5. CASE processStaleAndEscalation
      <3> DEFINE chosen == {r \in Requests : stale(r) /\ mayEscalate(r)}
      <3>1. /\ escalate(chosen)
            /\ status' = [r \in Requests |->
                   IF stale(r) /\ ~mayEscalate(r) THEN "rejected" ELSE status[r]]
            /\ UNCHANGED <<requiredLevel, approvals, age, checking>>
        BY <2>5 DEF processStaleAndEscalation
      <3>2. chosen \in SUBSET Requests /\ \A r \in chosen : status[r] = "pending"
        BY DEF stale
      <3> HIDE DEF chosen
      <3>3. \A r \in Requests : status'[r] = status[r]
                                \/ (status[r] = "pending" /\ status'[r] = "rejected")
        BY <3>1 DEF stale
      <3>4. status' \in [Requests -> Statuses \cup {"none"}]
        BY <2>0, <3>1 DEF Statuses
      <3> QED
        BY <3>1, <3>2, <3>3, <3>4, EscalationKeeps
    <2>6. CASE escalateStaleRequests
      <3> DEFINE chosen == {r \in Requests : status[r] = "pending" /\ mayEscalate(r)}
      <3>1. /\ escalate(chosen)
            /\ UNCHANGED <<requiredLevel, status, approvals, age, checking>>
        BY <2>6 DEF escalateStaleRequests
      <3>2. chosen \in SUBSET Requests /\ \A r \in chosen : status[r] = "pending"
        OBVIOUS
      <3> HIDE DEF chosen
      <3> QED
        BY <2>0, <3>1, <3>2, EscalationKeeps
    <2>7. CASE startStaleChecker \/ stopStaleChecker
      <3>1. /\ UNCHANGED <<requiredLevel, currentLevel, status, approvals, escalated, age>>
            /\ checking' \in BOOLEAN
        BY <2>7 DEF startStaleChecker, stopStaleChecker, requestVars
      <3> QED
        BY <2>0, <3>1, StatusStepKeeps
    <2>8. CASE UNCHANGED vars
      <3>1. UNCHANGED <<requiredLevel, currentLevel, status, approvals, escalated, age, checking>>
        BY <2>8 DEF vars, requestVars
      <3> QED
        BY <2>0, <3>1, StatusStepKeeps
    <2> QED
      BY <2>1, <2>2, <2>3, <2>4, <2>5, <2>6, <2>7, <2>8 DEF Next
  <1> QED
    BY <1>1, <1>2, PTL

(***************************************************************************)
(* The people of the quorums are all different ones.                       *)
(***************************************************************************)
LEMMA FlowInvImplies ==
    ASSUME FlowInv
    PROVE  TypeOK /\ ApprovalsCount
  <1>1. TypeOK
    BY DEF FlowInv
  <1>2. ASSUME NEW r \in Requests, status[r] = "approved"
        PROVE  /\ currentLevel[r] = requiredLevel[r]
               /\ Cardinality(people(approvals[r], requiredLevel[r]))
                    >= minApprovers[requiredLevel[r]]
    <2>1. /\ currentLevel[r] = requiredLevel[r] /\ quorum(approvals[r], requiredLevel[r])
          /\ ApprovesOnce(approvals[r])
      BY <1>2 DEF FlowInv, Climbed
    <2>2. approvals[r] \in SUBSET Approval /\ requiredLevel[r] \in Levels
      BY <1>1 DEF TypeOK
    <2>3. Cardinality(people(approvals[r], requiredLevel[r])) =
             Cardinality(levelApprovals(approvals[r], requiredLevel[r]))
      BY <2>1, <2>2, PeopleCounted
    <2> QED
      BY <2>1, <2>3 DEF quorum
  <1>3. ApprovedByQuorum
    BY <1>2 DEF ApprovedByQuorum, people
  <1>4. NoLevelSkipped
    <2> SUFFICES ASSUME NEW r \in Requests, status[r] = "approved", ~escalated[r]
                 PROVE  \E who \in [Levels -> SUBSET Approvers] :
                           /\ \A l \in Levels :
                                 /\ who[l] \subseteq
                                       {a.approver : a \in levelApprovals(approvals[r], l)}
                                 /\ Rank(l) <= Rank(requiredLevel[r]) =>
                                       Cardinality(who[l]) >= minApprovers[l]
                           /\ \A k, l \in Levels : k # l => who[k] \cap who[l] = {}
      BY DEF NoLevelSkipped
    <2>1. /\ currentLevel[r] = requiredLevel[r] /\ quorum(approvals[r], requiredLevel[r])
          /\ ApprovesOnce(approvals[r])
          /\ \A l \in Levels : Rank(l) < Rank(requiredLevel[r]) => quorum(approvals[r], l)
      BY DEF FlowInv, Climbed
    <2>2. approvals[r] \in SUBSET Approval /\ requiredLevel[r] \in Levels
      BY <1>1 DEF TypeOK
    <2>3. \A l \in Levels : Rank(l) <= Rank(requiredLevel[r]) => quorum(approvals[r], l)
      BY <2>1, <2>2, NextLevelIs
    <2> DEFINE who == [l \in Levels |-> people(approvals[r], l)]
    <2>4. \A l \in Levels :
             /\ people(approvals[r], l) \in SUBSET Approvers
             /\ Cardinality(people(approvals[r], l)) =
                   Cardinality(levelApprovals(approvals[r], l))
             /\ \A k \in Levels : k # l =>
                   people(approvals[r], k) \cap people(approvals[r], l) = {}
      BY <2>1, <2>2, PeopleCounted
    <2>5. \A l \in Levels : who[l] = people(approvals[r], l)
      OBVIOUS
    <2>6. who \in [Levels -> SUBSET Approvers]
      BY <2>4
    <2> HIDE DEF who
    <2>7. \A l \in Levels : Rank(l) <= Rank(requiredLevel[r]) =>
             Cardinality(who[l]) >= minApprovers[l]
      BY <2>3, <2>4, <2>5 DEF quorum
    <2>8. \A k, l \in Levels : k # l => who[k] \cap who[l] = {}
      BY <2>4, <2>5
    <2>9. \A l \in Levels : who[l] \subseteq
                               {a.approver : a \in levelApprovals(approvals[r], l)}
      BY <2>5 DEF people
    <2> QED
      BY <2>6, <2>7, <2>8, <2>9
  <1> QED
    BY <1>1, <1>3, <1>4 DEF ApprovalsCount

-----------------------------------------------------------------------------
(***************************************************************************)
(* The whole policy engine: a step of one component is none of another.    *)
(***************************************************************************)
LEMMA EachTakesItsSteps ==
    ASSUME [OneAtATime]_mcVars
    PROVE  /\ [Next]_vars /\ [StoreNext]_storeVars /\ [TeamNext]_teamVars
           /\ [PolicyAuditNext]_policyAuditVars
  BY DEF OneAtATime, mcVars

(***************************************************************************)
(* An approved request has the quorums it needs, of different people.      *)
(***************************************************************************)
THEOREM ApprovalsStayCounted == MCSpec => []ApprovalsCount
  <1>1. AllInit => Init
    BY DEF AllInit
  <1>2. [OneAtATime]_mcVars => [Next]_vars
    BY EachTakesItsSteps
  <1>3. FlowInv => ApprovalsCount
    BY FlowInvImplies
  <1> QED
    BY <1>1, <1>2, <1>3, FlowInvariance, PTL DEF MCSpec

(***************************************************************************)
(* The store keeps what was written, and the teams decide by what they     *)
(* have.                                                                   *)
(***************************************************************************)
THEOREM PoliciesHold ==
    MCSpec => [](AllTypesOK /\ WrittenSurvives /\ DecidesByTeam) /\ AuditKeepsDecisions
  <1>1. AllInit => Init /\ StoreInit /\ TeamInit /\ PolicyAuditInit
    BY DEF AllInit
  <1>2. [OneAtATime]_mcVars =>
           /\ [Next]_vars /\ [StoreNext]_storeVars /\ [TeamNext]_teamVars
           /\ [PolicyAuditNext]_policyAuditVars
    BY EachTakesItsSteps
  <1>3. MCSpec => PolicyAuditSpec
    BY <1>1, <1>2, PTL DEF MCSpec, PolicyAuditSpec
  <1>4. FlowInv => TypeOK
    BY FlowInvImplies
  <1>5. TypeOK /\ StoreTypeOK /\ TeamTypeOK /\ PolicyAuditTypeOK => AllTypesOK
    BY DEF AllTypesOK
  <1> QED
    BY <1>1, <1>2, <1>3, <1>4, <1>5, FlowInvariance, WrittenStays, TeamsDecide,
       AuditsChangeNothing, PTL DEF MCSpec
=============================================================================
