----------------------------- MODULE Provenance -----------------------------
(***************************************************************************)
(* The hash chains kept in memory: audit-trail's ProvenanceTracker (with   *)
(* its three indexes) and DecisionProvenanceTracker, which drop their      *)
(* oldest entries, and context-provenance's ProvenanceTracker; and the two *)
(* Merkle trees built over such lists.  A hash is the identity of what it  *)
(* is the hash of.  One of them is explored at a time.                     *)
(***************************************************************************)
EXTENDS Naturals, Sequences, SequencesExt

CONSTANTS
    Nodes,            \* what a provenance entry goes from and to
    maxEntries,
    MaxRecords,       \* bound on the entries recorded
    MaxLeaves         \* bound on the events of a Merkle tree

ASSUME ProvenanceBounds == maxEntries \in Nat \ {0} /\ {MaxRecords, MaxLeaves} \subseteq Nat

VARIABLES
    tracker,          \* which of the classes this is
    entries,
    index,            \* <<"source" | "target" | "relation", name>> -> ids
    recorded,         \* ids used so far
    exported,         \* entries of the last toJSON()
    leaves,           \* events a MerkleProof has in its array
    proof             \* the proof taken last: of which event, out of how many

provenanceVars == <<tracker, entries, index, recorded, exported, leaves, proof>>

IndexKey == ({"source", "target"} \X Nodes) \cup {<<"relation", "any">>}

\* What an entry names is an id used so far, 0 being none.
Link == [id : 1..recorded, previous : 0..recorded, source : Nodes, target : Nodes,
         parentId : 0..recorded, late : BOOLEAN]

ProvenanceTypeOK ==
    /\ tracker \in {"provenance", "decisions", "context", "merkle"}
    /\ {entries, exported} \subseteq Seq(Link)
    /\ tracker # "context" => Len(entries) <= maxEntries
    /\ index \in [IndexKey -> Seq(1..recorded)]
    /\ recorded \in 0..MaxRecords
    /\ leaves \in 0..MaxLeaves
    /\ proof.entryIndex \in 0..proof.outOf /\ proof.outOf \in 0..leaves

ProvenanceInit ==
    /\ tracker \in {"provenance", "decisions", "context", "merkle"}
    /\ entries = <<>> /\ index = [k \in IndexKey |-> <<>>] /\ recorded = 0
    /\ exported = <<>>
    /\ leaves = 0 /\ proof = [entryIndex |-> 0, outOf |-> 0]

treeState == <<leaves, proof>>
chainState == <<entries, index, recorded, exported>>

-----------------------------------------------------------------------------
keysOf(e) == {<<"source", e.source>>, <<"target", e.target>>, <<"relation", "any">>}

indexEntry(ix, e) ==
    [k \in IndexKey |-> IF k \in keysOf(e) THEN Append(ix[k], e.id) ELSE ix[k]]

\* Mutant: the entry stays in the target's list.
deindexEntry_KeepsTarget(ix, e) ==
    [k \in IndexKey |-> IF k \in keysOf(e) /\ k[1] # "target"
                        THEN RemoveFirst(ix[k], e.id) ELSE ix[k]]

deindexEntry(ix, e) ==
    [k \in IndexKey |-> IF k \in keysOf(e) THEN RemoveFirst(ix[k], e.id) ELSE ix[k]]

\* The indexes once these entries have gone, and those of a list by itself.
deindexAll(ix, gone) ==
    LET after[i \in 0..Len(gone)] ==
            IF i = 0 THEN ix ELSE deindexEntry(after[i - 1], gone[i])
    IN after[Len(gone)]

rebuildIndexes(list) ==
    LET after[i \in 0..Len(list)] ==
            IF i = 0 THEN [k \in IndexKey |-> <<>>]
            ELSE indexEntry(after[i - 1], list[i])
    IN after[Len(list)]

lastId == IF entries = <<>> THEN 0 ELSE Last(entries).id

newLink(source, target, parentId, late) ==
    [id |-> recorded + 1, previous |-> lastId, source |-> source,
     target |-> target, parentId |-> parentId, late |-> late]

kept(list) == IF Len(list) > maxEntries
              THEN SubSeq(list, Len(list) - maxEntries + 1, Len(list)) ELSE list

dropped(list) == SubSeq(list, 1, Len(list) - Len(kept(list)))

recordProvenance(source, target) ==
    LET e == newLink(source, target, 0, FALSE)
        all == Append(entries, e)
    IN
    /\ tracker = "provenance" /\ recorded < MaxRecords
    /\ entries' = kept(all)
    /\ index' = deindexAll(indexEntry(index, e), dropped(all))
    /\ recorded' = recorded + 1
    /\ UNCHANGED <<tracker, exported, treeState>>

\* The parent is a decision recorded before, or none; it may be gone.
recordDecision(parentId) ==
    /\ tracker = "decisions" /\ recorded < MaxRecords
    /\ \E n \in Nodes : entries' = kept(Append(entries, newLink(n, n, parentId, FALSE)))
    /\ recorded' = recorded + 1
    /\ UNCHANGED <<tracker, index, exported, treeState>>

\* recordInclusion(), recordExclusion(), recordLLMResponse(): the clock is
\* read for the hash and again for the entry, which is late when the two
\* times differ.  Nothing is ever dropped.
recordContext(late) ==
    /\ tracker = "context" /\ recorded < MaxRecords
    /\ \E n \in Nodes : entries' = Append(entries, newLink(n, n, 0, late))
    /\ recorded' = recorded + 1
    /\ UNCHANGED <<tracker, index, exported, treeState>>

reset ==
    /\ tracker = "context" /\ entries' = <<>>
    /\ UNCHANGED <<tracker, index, recorded, exported, treeState>>

toJSON ==
    /\ tracker \in {"provenance", "decisions"} /\ exported' = entries
    /\ UNCHANGED <<tracker, entries, index, recorded, treeState>>

fromJSON ==
    /\ tracker \in {"provenance", "decisions"}
    /\ entries' = exported
    /\ index' = IF tracker = "provenance" THEN rebuildIndexes(exported) ELSE index
    /\ UNCHANGED <<tracker, recorded, exported, treeState>>

at(id) == CHOOSE i \in DOMAIN entries : entries[i].id = id
has(id) == \E i \in DOMAIN entries : entries[i].id = id

\* What previousHash leads back to from an entry, oldest first.
getProvenance(id) ==
    LET back[i \in DOMAIN entries] ==
            LET previous == entries[i].previous IN
            IF has(previous) THEN Append(back[at(previous)], entries[i].id)
            ELSE <<entries[i].id>>
    IN back[at(id)]

\* getLineage(): depth first over the lists of indexByTarget, from a target
\* with what was found so far.
walkTargets[from \in Nodes \X Seq(Nat)] ==
    LET ids == index[<<"target", from[1]>>]
        upTo[i \in 0..Len(ids)] ==
            IF i = 0 THEN from[2]
            ELSE IF Contains(upTo[i - 1], ids[i]) THEN upTo[i - 1]
            ELSE walkTargets[<<entries[at(ids[i])].source, Append(upTo[i - 1], ids[i])>>]
    IN upTo[Len(ids)]

\* getLineage() of a decision.
ancestors(id) ==
    LET back[i \in DOMAIN entries] ==
            LET parentId == entries[i].parentId IN
            IF has(parentId) THEN Append(back[at(parentId)], entries[i].id)
            ELSE <<entries[i].id>>
    IN back[at(id)]

\* The hash of an entry covers the time it had when it was computed.
hashMatches(e) == ~e.late

linked(i) == entries[i].previous = entries[i - 1].id

verifyChain == \A i \in DOMAIN entries : hashMatches(entries[i]) /\ (i > 1 => linked(i))

\* The first entry is taken as it is.
verifyIntegrity == \A i \in 2..Len(entries) : hashMatches(entries[i]) /\ linked(i)

-----------------------------------------------------------------------------
\* MerkleProof: a hash is <<i>> for event i, <<l, r>> for a pair, <<>> for "".
nextPow2(n) == CHOOSE p \in {1, 2, 4, 8, 16} : p >= n /\ (p = 1 \/ p \div 2 < n)

padded(n) == [i \in 1..nextPow2(n) |-> IF i <= n THEN <<i>> ELSE <<>>]

combined(left, right) ==
    IF left = <<>> /\ right = <<>> THEN <<>>
    ELSE <<left, IF right = <<>> THEN left ELSE right>>

levelAbove(level) ==
    [i \in 1..(Len(level) \div 2) |-> combined(level[2 * i - 1], level[2 * i])]

\* The levels of the tree from its leaves up, and the hash at the top.
buildTree(n) ==
    LET levels[k \in 0..n] == IF k = 0 THEN padded(n) ELSE levelAbove(levels[k - 1])
    IN levels

top(levels) == CHOOSE k \in DOMAIN levels : Len(levels[k]) = 1

rootOf(levels) == levels[top(levels)][1]

computeRoot(n) == rootOf(buildTree(n))

siblingIndex(i) == IF i % 2 = 0 THEN i + 1 ELSE i - 1

\* Indexes start at 0.  An empty sibling is left out of the proof, and one
\* that is past the end of its level.
collectSiblings(i, levels) ==
    LET found(level, place) ==
            IF place >= Len(level) THEN <<>>
            ELSE IF level[place + 1] = <<>> THEN <<>> ELSE <<level[place + 1]>>
        upTo[k \in 0..top(levels)] ==
            IF k = 0 THEN <<>>
            ELSE upTo[k - 1] \o found(levels[k - 1], siblingIndex(i \div 2^(k - 1)))
    IN upTo[top(levels)]

hashUp(hash, i, siblings) ==
    LET upTo[k \in 0..Len(siblings)] ==
            IF k = 0 THEN hash
            ELSE IF (i \div 2^(k - 1)) % 2 = 0 THEN <<upTo[k - 1], siblings[k]>>
            ELSE <<siblings[k], upTo[k - 1]>>
    IN upTo[Len(siblings)]

proofRoot == computeRoot(proof.outOf)

verifyProof ==
    LET i == proof.entryIndex
        siblings == collectSiblings(i, buildTree(proof.outOf))
    IN
    /\ i < leaves
    /\ hashUp(<<i + 1>>, i, siblings) = computeRoot(leaves)
    /\ proofRoot = computeRoot(leaves)

proveEntry(i) ==
    /\ tracker = "merkle" /\ i < leaves
    /\ proof' = [entryIndex |-> i, outOf |-> leaves]
    /\ UNCHANGED <<tracker, chainState, leaves>>

appendEvent ==
    /\ tracker = "merkle" /\ leaves < MaxLeaves /\ leaves' = leaves + 1
    /\ UNCHANGED <<tracker, chainState, proof>>

\* MerkleProvenanceTree: an odd node goes up as it is.
pairUp(level) ==
    [i \in 1..((Len(level) + 1) \div 2) |->
        IF 2 * i <= Len(level) THEN <<level[2 * i - 1], level[2 * i]>> ELSE level[2 * i - 1]]

build(n) ==
    LET levels[k \in 0..n] ==
            IF k = 0 THEN [i \in 1..n |-> <<i>>] ELSE pairUp(levels[k - 1])
    IN levels

\* The proof says nothing of sides: every sibling is taken to be on the right.
verifyTreeProof(hash, siblings, root) == hashUp(hash, 0, siblings) = root

-----------------------------------------------------------------------------
ProvenanceNext ==
    \/ \E source, target \in Nodes : recordProvenance(source, target)
    \/ \E parentId \in 0..recorded : recordDecision(parentId)
    \/ \E late \in BOOLEAN : recordContext(late)
    \/ reset \/ toJSON \/ fromJSON
    \/ \E i \in 0..(MaxLeaves - 1) : proveEntry(i)
    \/ appendEvent

ProvenanceSpec == ProvenanceInit /\ [][ProvenanceNext]_provenanceVars

-----------------------------------------------------------------------------
(***************************************************************************)
(* Dropping the oldest, exporting and importing leave one chain: each      *)
(* entry names the one before it, so what previousHash leads back to is    *)
(* all that is left before it; a decision's ancestors were recorded before *)
(* it.  The indexes list the entries that are left, in their order, so a   *)
(* lineage is every entry a path to its target goes through.               *)
(***************************************************************************)
ChainsUnbroken ==
    /\ \A i \in 2..Len(entries) : linked(i)
    /\ \A i \in DOMAIN entries :
          /\ getProvenance(entries[i].id) = [j \in 1..i |-> entries[j].id]
          /\ LET line == ancestors(entries[i].id) IN
             \A j \in 2..Len(line) : line[j - 1] < line[j]

inOrder(ids) == \A i, j \in DOMAIN ids : i < j => ids[i] < ids[j]

idsUnder(list, k) == {e.id : e \in {f \in ToSet(list) : k \in keysOf(f)}}

IndexesAgree ==
    /\ inOrder([i \in DOMAIN entries |-> entries[i].id])
    /\ tracker = "provenance" =>
          \A k \in IndexKey : inOrder(index[k]) /\ ToSet(index[k]) = idsUnder(entries, k)

\* What comes before a target: every set of nodes that has the target, and the
\* source of each entry whose target it has, holds it.
upstream(target) ==
    LET closed(nodes) == \A e \in ToSet(entries) : e.target \in nodes => e.source \in nodes
        reached == {n \in Nodes : \A nodes \in SUBSET Nodes :
                       target \in nodes /\ closed(nodes) => n \in nodes}
    IN {e.id : e \in {f \in ToSet(entries) : f.target \in reached}}

LineageComplete ==
    tracker = "provenance" =>
        \A n \in Nodes : ToSet(walkTargets[<<n, <<>>>>]) = upstream(n)

(***************************************************************************)
(* A MerkleProof verifies exactly while no event was added, and only for   *)
(* an event none of whose siblings on the way up is padding: collectSib-   *)
(* lings() leaves those out.  A MerkleProvenanceTree's own proofs verify   *)
(* for the first leaf alone.                                               *)
(***************************************************************************)
unpadded(i, n) ==
    \A k \in {1, 2, 4, 8} : k < nextPow2(n) => siblingIndex(i \div k) * k < n

ProofsVerifyAtFullPaths ==
    /\ proof.outOf > 0 =>
          (verifyProof <=> leaves = proof.outOf /\ unpadded(proof.entryIndex, leaves))
    /\ \A i \in 0..(leaves - 1) :
          verifyTreeProof(<<i + 1>>, collectSiblings(i, build(leaves)),
                          rootOf(build(leaves))) <=> i = 0
=============================================================================
