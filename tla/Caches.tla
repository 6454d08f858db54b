------------------------------- MODULE Caches -------------------------------
(***************************************************************************)
(* packages/cache.  First the two bounded in-memory layers: LRUCache       *)
(* evicts the key used longest ago when a new one does not fit;            *)
(* MemoryCache evicts the oldest whenever it is full, and is backed up and *)
(* restored.  Entries expire at any time and stay until they are looked    *)
(* up.  Values play no part and are left out.  Then the multi-level cache, *)
(* which shares nothing with them.                                         *)
(***************************************************************************)
EXTENDS Naturals, Sequences, FiniteSets, SequencesExt

CONSTANTS
    CacheKeys,
    EmptyKey,         \* the key "", which is falsy
    maxSize,
    MaxAccess         \* bound on the access counter and on the entries made

ASSUME MaxSizeAssumption == maxSize \in Nat
ASSUME EmptyKeyAssumption == EmptyKey \in CacheKeys

VARIABLES
    policy,           \* which of the two classes this is
    stored,           \* keys of the Map, in its order
    stale,            \* stored keys whose entry has expired
    accessOrder,      \* key -> number of its last access, 0 where there is none
    accessCounter,
    evictions,
    backedUp,         \* what the last backup() holds
    entered, removed, \* history since clear(): entries made, and deleted
    used,             \* history: stored keys, the last used last
    unbounded         \* history: an insertion went past the limit

memoryVars == <<policy, stored, stale, accessOrder, accessCounter, evictions,
                backedUp, entered, removed, used, unbounded>>

MemoryTypeOK ==
    /\ policy \in {"LRUCache", "MemoryCache"}
    /\ stored \in Seq(CacheKeys) /\ IsInjective(stored)
    /\ stale \subseteq ToSet(stored)
    /\ accessOrder \in [CacheKeys -> 0..accessCounter]
    /\ backedUp \in Seq(CacheKeys)
    /\ accessCounter \in Nat /\ evictions \in Nat
    /\ entered \in Nat /\ removed \in Nat /\ unbounded \in BOOLEAN

MemoryInit ==
    /\ policy \in {"LRUCache", "MemoryCache"}
    /\ stored = <<>> /\ stale = {}
    /\ accessOrder = [k \in CacheKeys |-> 0] /\ accessCounter = 0
    /\ evictions = 0 /\ backedUp = <<>>
    /\ entered = 0 /\ removed = 0 /\ used = <<>> /\ unbounded = FALSE

-----------------------------------------------------------------------------
holds(k) == k \in ToSet(stored)

nth(places, n) ==
    CHOOSE i \in places : Cardinality({j \in places : j < i}) = n - 1

\* The keys that are not gone, in their order.
without(keys, gone) ==
    LET kept == {i \in DOMAIN keys : keys[i] \notin gone}
    IN [n \in 1..Cardinality(kept) |-> keys[nth(kept, n)]]

forget(order, gone) == [k \in CacheKeys |-> IF k \in gone THEN 0 ELSE order[k]]

\* The counter's number for an access of k.
access(order, k) ==
    IF policy = "LRUCache" THEN [order EXCEPT ![k] = accessCounter + 1] ELSE order

counts == accessCounter' = IF policy = "LRUCache" THEN accessCounter + 1
                           ELSE accessCounter

\* A lookup drops the expired entries it comes across.
dropExpired(keys) ==
    /\ stored' = without(stored, keys) /\ used' = without(used, keys)
    /\ stale' = stale \ keys
    /\ accessOrder' = forget(accessOrder, keys)
    /\ evictions' = evictions + Cardinality(keys)
    /\ UNCHANGED <<policy, accessCounter, backedUp, entered, removed, unbounded>>

\* Mutant: a hit does not count as a use.
hitOrder_Unused(k) == accessOrder

hitOrder(k) == access(accessOrder, k)

getHit(k) ==
    /\ holds(k) /\ k \notin stale
    /\ accessCounter < MaxAccess
    /\ accessOrder' = hitOrder(k) /\ counts
    /\ used' = Append(without(used, {k}), k)
    /\ UNCHANGED <<policy, stored, stale, evictions, backedUp, entered, removed,
                   unbounded>>

\* get() and has() of an expired key, and keys().
lookup(k) == k \in stale /\ dropExpired({k})
liveKeys == stale # {} /\ dropExpired(stale)

leastRecent ==
    CHOOSE k \in ToSet(stored) :
        \A other \in ToSet(stored) : accessOrder[k] <= accessOrder[other]

full == Len(stored) >= maxSize

\* Who goes to make room for k.  The LRU loop's victim "" passes for none.
victims(k) ==
    IF ~full \/ stored = <<>> THEN {}
    ELSE IF policy = "MemoryCache" THEN {Head(stored)}
    ELSE IF holds(k) \/ leastRecent = EmptyKey THEN {} ELSE {leastRecent}

setEntry(k) ==
    LET gone == victims(k)
        kept == without(stored, gone)
        new == k \notin ToSet(kept)
    IN
    /\ accessCounter < MaxAccess /\ entered < MaxAccess
    /\ stored' = IF new THEN Append(kept, k) ELSE kept
    /\ stale' = stale \ (gone \cup {k})
    /\ accessOrder' = access(forget(accessOrder, gone), k) /\ counts
    /\ evictions' = evictions + Cardinality(gone)
    /\ entered' = IF new THEN entered + 1 ELSE entered
    /\ used' = Append(without(used, gone \cup {k}), k)
    /\ unbounded' = (unbounded \/ (new /\ Len(kept) >= maxSize))
    /\ UNCHANGED <<policy, backedUp, removed>>

deleteEntry(k) ==
    /\ holds(k)
    /\ stored' = without(stored, {k}) /\ used' = without(used, {k})
    /\ stale' = stale \ {k}
    /\ accessOrder' = forget(accessOrder, {k})
    /\ removed' = removed + 1
    /\ UNCHANGED <<policy, accessCounter, evictions, backedUp, entered, unbounded>>

\* The access counter goes on.
clearLayer ==
    /\ stored' = <<>> /\ used' = <<>> /\ stale' = {}
    /\ accessOrder' = [k \in CacheKeys |-> 0]
    /\ evictions' = 0 /\ entered' = 0 /\ removed' = 0 /\ unbounded' = FALSE
    /\ UNCHANGED <<policy, accessCounter, backedUp>>

backup ==
    /\ policy = "MemoryCache"
    /\ backedUp' = stored
    /\ UNCHANGED <<policy, stored, stale, accessOrder, accessCounter, evictions,
                   entered, removed, used, unbounded>>

\* restore() does not look at maxSize; entries get the expiry they had.
restore ==
    LET new == without(backedUp, ToSet(stored)) IN
    /\ policy = "MemoryCache" /\ backedUp # <<>>
    /\ entered + Len(new) <= MaxAccess
    /\ stored' = stored \o new /\ used' = used \o new
    /\ stale' \in {stale, stale \ ToSet(backedUp)}
    /\ entered' = entered + Len(new)
    /\ unbounded' = (unbounded \/ (new # <<>> /\ Len(stored) + Len(new) > maxSize))
    /\ UNCHANGED <<policy, accessOrder, accessCounter, evictions, backedUp, removed>>

EntryExpires(k) ==
    /\ holds(k) /\ k \notin stale
    /\ stale' = stale \cup {k}
    /\ UNCHANGED <<policy, stored, accessOrder, accessCounter, evictions,
                   backedUp, entered, removed, used, unbounded>>

MemoryNext ==
    \/ \E k \in CacheKeys :
          getHit(k) \/ lookup(k) \/ setEntry(k) \/ deleteEntry(k) \/ EntryExpires(k)
    \/ liveKeys \/ clearLayer \/ backup \/ restore

MemorySpec == MemoryInit /\ [][MemoryNext]_memoryVars

-----------------------------------------------------------------------------
(***************************************************************************)
(* The numbers of accesses order the stored keys by their last use, so     *)
(* that the victim is the one used longest ago, and no number is left of a *)
(* key that is gone.                                                       *)
(***************************************************************************)
OrderIsUse ==
    policy = "LRUCache" =>
        /\ \A i, j \in DOMAIN used : i < j => accessOrder[used[i]] < accessOrder[used[j]]
        /\ {k \in CacheKeys : accessOrder[k] > 0} = ToSet(stored)

(***************************************************************************)
(* No entry is lost or counted twice: what entered since the last clear()  *)
(* is stored, was deleted or is counted as evicted; and the limit holds    *)
(* until an insertion found no victim or a restore() went past it.         *)
(***************************************************************************)
EntriesAccounted ==
    /\ entered = Len(stored) + evictions + removed
    /\ ~unbounded => Len(stored) <= maxSize

-----------------------------------------------------------------------------
(***************************************************************************)
(* packages/cache/src/multi-level-cache.ts: three levels, each a map with  *)
(* expiry.  get() promotes what a lower level has and otherwise awaits a   *)
(* fetcher, while other calls go on.  An entry may expire at any time and  *)
(* stays in its map until it is next looked up.                            *)
(***************************************************************************)

CONSTANTS
    Keys, Values,
    Getters,        \* concurrent get() calls
    l1MaxSize,
    NONE            \* no entry

Level == {"l1", "l2", "l3"}

ASSUME SizeAssumption == l1MaxSize \in Nat
ASSUME NoneAssumption == NONE \notin Values

VARIABLES
    store,      \* level -> key -> value, or NONE
    expired,    \* level -> keys whose entry has expired but is still there
    fetching,   \* getter -> the key whose fetcher it awaits, or NONE
    written     \* history: key -> what was last written to it, NONE if deleted

levelsVars == <<store, expired, fetching, written>>

LevelsTypeOK ==
    /\ store \in [Level -> [Keys -> Values \cup {NONE}]]
    /\ expired \in [Level -> SUBSET Keys]
    /\ fetching \in [Getters -> Keys \cup {NONE}]
    /\ written \in [Keys -> Values \cup {NONE}]
    /\ \A l \in Level : \A k \in expired[l] : store[l][k] # NONE

EmptyLevel == [k \in Keys |-> NONE]

LevelsInit ==
    /\ store = [l \in Level |-> EmptyLevel]
    /\ expired = [l \in Level |-> {}]
    /\ fetching = [g \in Getters |-> NONE]
    /\ written = EmptyLevel

-----------------------------------------------------------------------------
live(l, k) == store[l][k] # NONE /\ k \notin expired[l]

size(level) == Cardinality({k \in Keys : level[k] # NONE})

\* A lookup that misses at these levels drops their expired entry.
withoutExpired(levels, k) ==
    [l \in Level |-> IF l \in levels /\ k \in expired[l]
                     THEN [store[l] EXCEPT ![k] = NONE] ELSE store[l]]

put(stores, levels, k, v) ==
    [l \in Level |-> IF l \in levels THEN [stores[l] EXCEPT ![k] = v]
                     ELSE stores[l]]

\* Mutant: a new or a dropped entry keeps the old one's expiry.
freshAt_Forgets(levels, k) == expired

freshAt(levels, k) ==
    [l \in Level |-> IF l \in levels THEN expired[l] \ {k} ELSE expired[l]]

\* The level that answers, and the levels above it, which it is copied to.
hitL1(k) == live("l1", k)
hitL2(k) == ~live("l1", k) /\ live("l2", k)
hitL3(k) == ~live("l1", k) /\ ~live("l2", k) /\ live("l3", k)
misses(k) == \A l \in Level : ~live(l, k)

getFromLevel(g, k) ==
    /\ fetching[g] = NONE
    /\ \/ hitL1(k) /\ UNCHANGED <<store, expired>>
       \/ /\ hitL2(k)
          /\ store' = put(store, {"l1"}, k, store["l2"][k])
          /\ expired' = freshAt({"l1"}, k)
       \/ /\ hitL3(k)
          /\ store' = put(store, {"l1", "l2"}, k, store["l3"][k])
          /\ expired' = freshAt({"l1", "l2"}, k)
    /\ UNCHANGED <<fetching, written>>

\* Every level misses: with a fetcher the call awaits it, without one it
\* returns undefined.
getFromNone(g, k) ==
    /\ fetching[g] = NONE /\ misses(k)
    /\ store' = withoutExpired(Level, k)
    /\ expired' = freshAt(Level, k)
    /\ fetching' \in {fetching, [fetching EXCEPT ![g] = k]}
    /\ UNCHANGED written

overflows(level) == size(level) > l1MaxSize

\* set(): all levels at once; an oversized first level keeps the new key only.
write(k, v) ==
    LET filled == put(store, Level, k, v) IN
    /\ IF overflows(filled["l1"])
       THEN /\ store' = [filled EXCEPT !["l1"] = [EmptyLevel EXCEPT ![k] = v]]
            /\ expired' = [freshAt(Level, k) EXCEPT !["l1"] = {}]
       ELSE store' = filled /\ expired' = freshAt(Level, k)
    /\ written' = [written EXCEPT ![k] = v]

setLevels(k, v) == write(k, v) /\ UNCHANGED fetching

fetched(g, v) ==
    /\ fetching[g] # NONE
    /\ write(fetching[g], v)
    /\ fetching' = [fetching EXCEPT ![g] = NONE]

fetchFails(g) ==
    /\ fetching[g] # NONE
    /\ fetching' = [fetching EXCEPT ![g] = NONE]
    /\ UNCHANGED <<store, expired, written>>

deletedLevels == Level

deleteLevels(k) ==
    /\ store' = put(store, deletedLevels, k, NONE)
    /\ expired' = freshAt(deletedLevels, k)
    /\ written' = [written EXCEPT ![k] = NONE]
    /\ UNCHANGED fetching

clearLevels ==
    /\ store' = [l \in Level |-> EmptyLevel]
    /\ expired' = [l \in Level |-> {}]
    /\ written' = EmptyLevel
    /\ UNCHANGED fetching

Expire(l, k) ==
    /\ live(l, k)
    /\ expired' = [expired EXCEPT ![l] = @ \cup {k}]
    /\ UNCHANGED <<store, fetching, written>>

LevelsNext ==
    \/ \E k \in Keys :
          \/ \E g \in Getters : getFromLevel(g, k) \/ getFromNone(g, k)
          \/ \E v \in Values : setLevels(k, v)
          \/ deleteLevels(k)
          \/ \E l \in Level : Expire(l, k)
    \/ \E g \in Getters : fetchFails(g) \/ \E v \in Values : fetched(g, v)
    \/ clearLevels

LevelsSpec == LevelsInit /\ [][LevelsNext]_levelsVars

-----------------------------------------------------------------------------
(***************************************************************************)
(* Whatever is live at any level is the last value written to its key:     *)
(* promotions, expiry and overflow never bring back an older or a deleted  *)
(* value, and no two levels disagree.                                      *)
(***************************************************************************)
LevelsHoldLatest ==
    \A l \in Level, k \in Keys : live(l, k) => store[l][k] = written[k]

(***************************************************************************)
(* A cache answers with the last value written, gives up the entry used    *)
(* longest ago, and loses or counts twice none.                            *)
(***************************************************************************)
CachesCorrect == LevelsHoldLatest /\ OrderIsUse /\ EntriesAccounted
=============================================================================
