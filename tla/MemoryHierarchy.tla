--------------------------- MODULE MemoryHierarchy ---------------------------
(***************************************************************************)
(* packages/memory-hierarchy: four levels of memory and the curator that   *)
(* copies what is read often one level up.  Contents, sources and searches *)
(* (which change nothing) are left out; an entry carries the reads that it *)
(* and what it was copied from have had.                                   *)
(***************************************************************************)
EXTENDS Naturals, Sequences, SequencesExt

CONSTANTS
    workingMaxEntries,
    MaxStored,        \* bound on the entries of all levels together
    MaxAccesses,      \* level -> bound on the accesses of an entry
    MaxInstant        \* bound on the clock

ASSUME WorkingMaxAssumption == workingMaxEntries \in Nat \ {0}
ASSUME HierarchyBounds == MaxStored \in Nat /\ MaxInstant \in Nat

VARIABLES
    working, project,        \* entries in the order of the Map
    institutional, global,
    instant                  \* the millisecond it is

hierarchyVars == <<working, project, institutional, global, instant>>

\* The confidence an entry is stored with, in hundredths.
confidence == [working |-> 80, project |-> 85, institutional |-> 95, global |-> 90]

rule(from, to, minAccessCount, minConfidence, tagged) ==
    [from |-> from, to |-> to, minAccessCount |-> minAccessCount,
     minConfidence |-> minConfidence, tagged |-> tagged]

promotionRules ==
    {rule("working", "project", 3, 70, FALSE),
     rule("project", "institutional", 5, 85, TRUE),
     rule("project", "global", 8, 90, FALSE),
     rule("institutional", "global", 3, 95, FALSE)}

archiveOnAccessThreshold == 3

Entry == [tagged : BOOLEAN, accessCount : Nat, status : {"active", "archived"},
          promoted : BOOLEAN, reads : Nat]

HierarchyTypeOK ==
    /\ Len(working) <= workingMaxEntries
    /\ \A i \in DOMAIN working :
          /\ working[i].entry \in Entry
          /\ working[i].lastAccessed \in 0..instant /\ working[i].expired \in BOOLEAN
    /\ {project, institutional, global} \subseteq Seq(Entry)
    /\ instant \in 0..MaxInstant

HierarchyInit ==
    /\ working = <<>> /\ project = <<>> /\ institutional = <<>> /\ global = <<>>
    /\ instant = 0

-----------------------------------------------------------------------------
newEntry(tagged) ==
    [tagged |-> tagged, accessCount |-> 0, status |-> "active",
     promoted |-> FALSE, reads |-> 0]

\* A copy is a new entry with the tags of the old one, and its history.
copyOf(e) == [newEntry(e.tagged) EXCEPT !.promoted = TRUE, !.reads = e.reads]

\* Among entries last read at the same instant, the first in the Map.
evictOldest ==
    LET older(i, j) == \/ working[i].lastAccessed < working[j].lastAccessed
                       \/ /\ working[i].lastAccessed = working[j].lastAccessed
                          /\ i <= j
    IN RemoveAt(working, CHOOSE i \in DOMAIN working :
                            \A j \in DOMAIN working : older(i, j))

withinBounds ==
    Len(working') + Len(project') + Len(institutional') + Len(global') <= MaxStored

\* A full working memory makes room first.  It refuses some categories of
\* entries, and the category decides the level when the caller does not: the
\* call is at any level, or changes nothing.
storeWorking(tagged) ==
    /\ working' = Append(IF Len(working) >= workingMaxEntries THEN evictOldest
                         ELSE working,
                         [entry |-> newEntry(tagged), lastAccessed |-> instant,
                          expired |-> FALSE])
    /\ UNCHANGED <<project, institutional, global, instant>>
    /\ withinBounds

storeProject(tagged) ==
    /\ project' = Append(project, newEntry(tagged))
    /\ UNCHANGED <<working, institutional, global, instant>>
    /\ withinBounds

storePolicy(tagged) ==
    /\ institutional' = Append(institutional, newEntry(tagged))
    /\ UNCHANGED <<working, project, global, instant>>
    /\ withinBounds

storePattern(tagged) ==
    /\ global' = Append(global, newEntry(tagged))
    /\ UNCHANGED <<working, project, institutional, instant>>
    /\ withinBounds

accessed(e) == [e EXCEPT !.accessCount = @ + 1, !.reads = @ + 1]

\* An expired entry is dropped, and the lookup goes on to find nothing.
getWorking(i) ==
    /\ i \in DOMAIN working
    /\ \/ working[i].expired /\ working' = RemoveAt(working, i)
       \/ /\ ~working[i].expired
          /\ working[i].entry.accessCount < MaxAccesses["working"]
          /\ working' = [working EXCEPT ![i].entry = accessed(@),
                                        ![i].lastAccessed = instant]
    /\ UNCHANGED <<project, institutional, global, instant>>

getProject(i) ==
    /\ i \in DOMAIN project /\ project[i].accessCount < MaxAccesses["project"]
    /\ LET read == accessed(project[i]) IN
       project' = [project EXCEPT ![i] =
          IF read.accessCount > archiveOnAccessThreshold
          THEN [read EXCEPT !.status = "archived"] ELSE read]
    /\ UNCHANGED <<working, institutional, global, instant>>

\* The entries of a list at these places, in their order.
entriesAt(list, places) ==
    LET upTo[i \in 0..Len(list)] ==
            IF i = 0 THEN <<>>
            ELSE IF i \in places THEN Append(upTo[i - 1], list[i]) ELSE upTo[i - 1]
    IN upTo[Len(list)]

unexpired == entriesAt(working, {i \in DOMAIN working : ~working[i].expired})

\* getAll(), size and the hierarchy's getSummary().
purgeExpired ==
    /\ working' = unexpired
    /\ UNCHANGED <<project, institutional, global, instant>>

\* Mutant: the required tags are not asked for.
qualifies_Untagged(e, level, r) ==
    /\ level = r.from
    /\ e.accessCount >= r.minAccessCount
    /\ confidence[level] >= r.minConfidence

qualifies(e, level, r) ==
    /\ level = r.from
    /\ e.accessCount >= r.minAccessCount
    /\ confidence[level] >= r.minConfidence
    /\ r.tagged => e.tagged

\* What a level's entries put at another level, in their order.
promotedTo(to, entries, level) ==
    LET rules(e) == {r \in promotionRules : r.to = to /\ qualifies(e, level, r)}
        chosen == entriesAt(entries, {i \in DOMAIN entries : rules(entries[i]) # {}})
    IN [i \in DOMAIN chosen |-> copyOf(chosen[i])]

\* Every call promotes again whatever qualifies, the archived ones included;
\* institutional memory is not looked at.  The curator's getSummary() is one.
evaluatePromotions ==
    LET recent == [i \in DOMAIN unexpired |-> unexpired[i].entry]
        arrivals(to) == promotedTo(to, recent, "working")
                        \o promotedTo(to, project, "project")
    IN /\ working' = unexpired
       /\ project' = project \o arrivals("project")
       /\ institutional' = institutional \o arrivals("institutional")
       /\ global' = global \o arrivals("global")
       /\ withinBounds
       /\ UNCHANGED instant

removeWorking(i) ==
    /\ i \in DOMAIN working /\ working' = RemoveAt(working, i)
    /\ UNCHANGED <<project, institutional, global, instant>>

removeProject(i) ==
    /\ i \in DOMAIN project /\ project' = RemoveAt(project, i)
    /\ UNCHANGED <<working, institutional, global, instant>>

clearWorking ==
    /\ working' = <<>>
    /\ UNCHANGED <<project, institutional, global, instant>>

clearProject ==
    /\ project' = <<>>
    /\ UNCHANGED <<working, institutional, global, instant>>

WorkingExpires(i) ==
    /\ i \in DOMAIN working /\ ~working[i].expired
    /\ working' = [working EXCEPT ![i].expired = TRUE]
    /\ UNCHANGED <<project, institutional, global, instant>>

TimePasses ==
    /\ instant < MaxInstant /\ instant' = instant + 1
    /\ UNCHANGED <<working, project, institutional, global>>

HierarchyNext ==
    \/ \E tagged \in BOOLEAN :
          \/ storeWorking(tagged) \/ storeProject(tagged)
          \/ storePolicy(tagged) \/ storePattern(tagged)
    \/ \E i \in 1..workingMaxEntries :
          getWorking(i) \/ removeWorking(i) \/ WorkingExpires(i)
    \/ \E i \in 1..MaxStored : getProject(i) \/ removeProject(i)
    \/ purgeExpired \/ evaluatePromotions \/ clearWorking \/ clearProject
    \/ TimePasses

HierarchySpec == HierarchyInit /\ [][HierarchyNext]_hierarchyVars

-----------------------------------------------------------------------------
(***************************************************************************)
(* A level is earned by reads: a copy in project memory has had the three  *)
(* of its first rule; one among the policies has had five more if it was   *)
(* itself a copy, bears a tag of the rule and was read past the threshold  *)
(* that archives, so what reaches it was archived by then; and no rule     *)
(* ever reaches global memory.                                             *)
(***************************************************************************)
PromotionsEarned ==
    /\ \A i \in DOMAIN project :
          LET e == project[i] IN
          /\ e.promoted => e.reads >= 3 + e.accessCount
          /\ (e.status = "archived") = (e.accessCount > archiveOnAccessThreshold)
    /\ \A i \in DOMAIN institutional :
          institutional[i].promoted => institutional[i].tagged /\ institutional[i].reads >= 5
    /\ \A i \in DOMAIN global : ~global[i].promoted
=============================================================================
