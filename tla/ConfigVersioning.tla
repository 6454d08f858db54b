-------------------------- MODULE ConfigVersioning --------------------------
(***************************************************************************)
(* packages/config-engine/src/config-versioning.ts: named snapshots, each  *)
(* in a file of its own, and index.json, which holds them all and is what  *)
(* a start reads.  A snapshot is the number of its save; timestamps order  *)
(* snapshots the same way.                                                 *)
(***************************************************************************)
EXTENDS Naturals, Sequences, SequencesExt, FiniteSets, FiniteSetsExt

CONSTANTS
    MaxSnapshots,         \* bound on the saves
    TornIndex, LiveIndex,
    VersioningCalls

SnapshotIds == 1..MaxSnapshots

\* Without repetition: an identifier is pushed once.
SnapshotLists == {s \in SeqOf(SnapshotIds, MaxSnapshots) : IsInjective(s)}

ASSUME VersioningAssumption ==
    /\ MaxSnapshots \in Nat
    /\ TornIndex \notin SnapshotLists
    /\ LiveIndex \notin SnapshotLists

VARIABLES
    snapshots, indexFile, indexCalls, indexDisturbed,     \* a JsonFile
    snapshotFiles,
    saves,            \* saves begun
    ops               \* per call: the snapshot it saves, or those it prunes

indexVars == <<snapshots, indexFile, indexCalls, indexDisturbed>>
versioningVars == <<indexVars, snapshotFiles, saves, ops>>

Index == INSTANCE JsonFile WITH
    Contents <- SnapshotLists, Empty <- <<>>, Torn <- TornIndex, Live <- LiveIndex,
    Writers <- VersioningCalls, live <- snapshots, file <- indexFile,
    calls <- indexCalls, disturbed <- indexDisturbed

NoOp == [op |-> "none", ids |-> <<>>]

VersioningTypeOK ==
    /\ Index!JsonTypeOK
    /\ snapshotFiles \subseteq SnapshotIds
    /\ saves \in 0..MaxSnapshots
    /\ \A w \in VersioningCalls :
          ops[w].op \in {"none", "save", "prune"} /\ ops[w].ids \in SnapshotLists

VersioningInit ==
    /\ Index!JsonInit
    /\ snapshotFiles = {}
    /\ saves = 0
    /\ ops = [w \in VersioningCalls |-> NoOp]

-----------------------------------------------------------------------------
resting(w) == ops[w] = NoOp /\ indexCalls[w].at = "idle"

\* save() names the snapshot and begins to write its file ...
save(w) ==
    /\ resting(w)
    /\ saves < MaxSnapshots
    /\ saves' = saves + 1
    /\ ops' = [ops EXCEPT ![w] = [op |-> "save", ids |-> <<saves + 1>>]]
    /\ UNCHANGED <<indexVars, snapshotFiles>>

\* ... and lists it when the file is there, in the array of that moment.
Saved(w) ==
    /\ ops[w].op = "save"
    /\ snapshotFiles' = snapshotFiles \cup ToSet(ops[w].ids)
    /\ Index!Change(w, snapshots \o ops[w].ids)
    /\ ops' = [ops EXCEPT ![w] = NoOp]
    /\ UNCHANGED saves

\* A file that cannot be written ends the save.
SaveFails(w) ==
    /\ ops[w].op = "save"
    /\ ops' = [ops EXCEPT ![w] = NoOp]
    /\ UNCHANGED <<indexVars, snapshotFiles, saves>>

\* The i-th of a set of numbers; a list of them, the highest first.
nth(names, i) == CHOOSE n \in names : Cardinality({m \in names : m < n}) = i - 1

newestFirst(list) ==
    [i \in 1..Len(list) |-> nth(ToSet(list), Len(list) + 1 - i)]

\* prune() picks all but the newest, then awaits one unlink after another.
prune(w, keep) ==
    /\ resting(w)
    /\ keep < Len(snapshots)
    /\ ops' = [ops EXCEPT ![w] =
                  [op |-> "prune",
                   ids |-> SubSeq(newestFirst(snapshots), keep + 1, Len(snapshots))]]
    /\ UNCHANGED <<indexVars, snapshotFiles, saves>>

\* A list has an identifier once.
without(list, id) ==
    IF Contains(list, id)
    THEN RemoveAt(list, CHOOSE i \in DOMAIN list : list[i] = id)
    ELSE list

\* An unlink has ended; the list without the snapshot is a new array.
Unlinked(w) ==
    LET id == Head(ops[w].ids) IN
    /\ ops[w].op = "prune" /\ ops[w].ids # <<>>
    /\ snapshotFiles' = snapshotFiles \ {id}
    /\ ops' = [ops EXCEPT ![w].ids = Tail(@)]
    /\ snapshots' = without(snapshots, id)
    /\ indexCalls' = Index!frozen
    /\ UNCHANGED <<indexFile, indexDisturbed, saves>>

\* Mutant: a prune leaves the index to the next save.
PruneIndex_Later(w) ==
    /\ ops[w].op = "prune" /\ ops[w].ids = <<>>
    /\ ops' = [ops EXCEPT ![w] = NoOp]
    /\ UNCHANGED <<indexVars, snapshotFiles, saves>>

\* The last one is followed by the index at once.
PruneIndex(w) ==
    /\ ops[w].op = "prune" /\ ops[w].ids = <<>>
    /\ Index!Change(w, snapshots)
    /\ ops' = [ops EXCEPT ![w] = NoOp]
    /\ UNCHANGED <<snapshotFiles, saves>>

writeIndex(w) ==
    /\ Index!BeginWrite(w) \/ Index!EndWrite(w) \/ Index!FailWrite(w)
    /\ UNCHANGED <<snapshotFiles, saves, ops>>

\* initialize() and loadFromDisk().
initialize(w) ==
    /\ \/ resting(w) /\ Index!BeginRead(w)
       \/ Index!EndRead(w)
    /\ UNCHANGED <<snapshotFiles, saves, ops>>

\* The process stops; initialize() of the next one has ended.
RestartVersioning ==
    /\ Index!Restart
    /\ ops' = [w \in VersioningCalls |-> NoOp]
    /\ UNCHANGED <<snapshotFiles, saves>>

VersioningNext ==
    \/ RestartVersioning
    \/ \E w \in VersioningCalls :
          \/ save(w) \/ Saved(w) \/ SaveFails(w)
          \/ Unlinked(w) \/ PruneIndex(w)
          \/ writeIndex(w) \/ initialize(w)
          \/ \E keep \in 0..MaxSnapshots : prune(w, keep)

-----------------------------------------------------------------------------
(***************************************************************************)
(* With no prune under way, what QuietFileMatches says of the index: it    *)
(* lists what list() and rollback() know, whatever saves, prunes and loads *)
(* overlapped.                                                             *)
(***************************************************************************)
IndexOnDisk ==
    (\A w \in VersioningCalls : ops[w].op # "prune") => Index!QuietFileMatches

-----------------------------------------------------------------------------
(***************************************************************************)
(* packages/config-engine/src/config-history.ts: numbered versions of the  *)
(* configuration, one file each, read back in the order of their names at  *)
(* the start.  ConfigVersioning keeps its files in the same directory;     *)
(* they are read as versions too, with identifiers that are not numbers.   *)
(***************************************************************************)
CONSTANTS
    MaxVersions,        \* MAX_VERSIONS, 50 in the code
    MaxRecorded         \* bound on the snapshots taken

ASSUME HistoryAssumption == MaxVersions \in Nat \ {0} /\ MaxRecorded \in Nat

NaN == MaxRecorded + 1  \* the number of a version after one that has none

VARIABLES
    versions,           \* in memory: [id, snap], the snap-th snapshot taken
    versionFiles,       \* name -> the version in it, or one cut short
    foreignFiles,       \* what else is in the directory
    taken,              \* snapshots taken
    recorded,           \* history: versions whose file was written whole
    misled              \* history: a start could not see some numbers

historyVars == <<versions, versionFiles, foreignFiles, taken, recorded, misled>>

CutShort == [id |-> 0, snap |-> 0]

Version == [id : 0..NaN, snap : 0..MaxRecorded]

HistoryTypeOK ==
    /\ versions \in Seq(Version)
    /\ DOMAIN versionFiles \subseteq 1..NaN
    /\ \A n \in DOMAIN versionFiles : versionFiles[n] \in Version
    /\ foreignFiles \in {"none", "whole", "torn"}
    /\ taken \in 0..MaxRecorded
    /\ recorded \subseteq Version
    /\ misled \in BOOLEAN

HistoryInit ==
    /\ versions = <<>>
    /\ versionFiles = [n \in {} |-> CutShort]
    /\ foreignFiles = "none"
    /\ taken = 0
    /\ recorded = {}
    /\ misled = FALSE

-----------------------------------------------------------------------------
ids == {versions[i].id : i \in DOMAIN versions}

\* Mutant: versions are counted.
nextId_Count == Len(versions) + 1

\* Math.max answers NaN as soon as one identifier is none.
nextId ==
    CASE versions = <<>> -> 1
      [] NaN \in ids -> NaN
      [] OTHER -> Max(ids) + 1

put(name, version) ==
    versionFiles' = [n \in DOMAIN versionFiles \cup {name} |->
                        IF n = name THEN version ELSE versionFiles[n]]

\* The write ends, or fails before or after it began; nobody is told.
\* JSON has no NaN: a version without a number is written with null, which
\* counts as 0.
persistVersion(v) ==
    \/ /\ put(v.id, [v EXCEPT !.id = IF @ = NaN THEN 0 ELSE @])
       /\ recorded' = recorded \cup {v}
    \/ UNCHANGED <<versionFiles, recorded>>
    \/ /\ put(v.id, CutShort)
       /\ recorded' = {r \in recorded : r.id # v.id}

snapshot ==
    LET v == [id |-> nextId, snap |-> taken + 1]
        all == Append(versions, v)
    IN
    /\ taken < MaxRecorded
    /\ taken' = taken + 1
    /\ versions' = IF Len(all) > MaxVersions THEN Tail(all) ELSE all
    /\ persistVersion(v)
    /\ UNCHANGED <<foreignFiles, misled>>

\* ConfigVersioning.save puts index.json and a snapshot here.
ForeignSave ==
    /\ foreignFiles' \in {"whole", "torn"}
    /\ UNCHANGED <<versions, versionFiles, taken, recorded, misled>>

\* Files in the order of their names, up to the first that does not parse.
readable ==
    LET torn == {n \in DOMAIN versionFiles : versionFiles[n] = CutShort}
    IN  {n \in DOMAIN versionFiles : \A t \in torn : n < t}

inOrder(names) == [i \in 1..Cardinality(names) |-> versionFiles[nth(names, i)]]

foreignVersion == <<[id |-> NaN, snap |-> 0]>>

\* A new process.  Snapshots of the other class are named by a UUID and
\* sort before or after the versions.
loadHistory ==
    /\ \/ /\ foreignFiles = "none"
          /\ versions' = inOrder(readable)
       \/ /\ foreignFiles = "whole"
          /\ \/ versions' = foreignVersion \o inOrder(readable)
             \/ versions' = inOrder(readable) \o
                   IF readable = DOMAIN versionFiles THEN foreignVersion ELSE <<>>
       \/ /\ foreignFiles = "torn"
          /\ versions' \in {<<>>, inOrder(readable)}
    /\ misled' = (misled \/ foreignFiles # "none"
                    \/ \E v \in recorded : v.id \notin readable)
    /\ UNCHANGED <<versionFiles, foreignFiles, taken, recorded>>

HistoryNext == snapshot \/ ForeignSave \/ loadHistory

-----------------------------------------------------------------------------
(***************************************************************************)
(* A version written whole keeps its file: no later snapshot takes its     *)
(* number, though memory forgets the oldest, writes fail unseen and the    *)
(* process restarts; and a number names one version in memory.  The two    *)
(* ways out: a start that met another class's file, and one that met a     *)
(* torn version with whole ones after it.                                  *)
(***************************************************************************)
VersionsKept ==
    ~misled =>
        /\ \A v \in recorded :
              v.id \in DOMAIN versionFiles /\ versionFiles[v.id] = v
        /\ \A i, j \in DOMAIN versions : versions[i].id = versions[j].id => i = j
=============================================================================
