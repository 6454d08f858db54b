--------------------------- MODULE Config_proofs ----------------------------
(***************************************************************************)
(* Proofs about the configuration's files, histories, contexts and         *)
(* policies, and about the composition of MCConfig.                        *)
(*                                                                         *)
(* Each file of the engine, and the index of the snapshots, is a JsonFile, *)
(* whose invariant it therefore has: every step is, for each file, a step  *)
(* of a JsonFile or none.  That needs the type of what the file holds,     *)
(* which is part of a JsonFile's own invariant, so the two are carried     *)
(* along together.  The numbered versions rest on their order by number,   *)
(* the switches on each record naming the context the one before it left.  *)
(***************************************************************************)
EXTENDS MCConfig, SequenceTheorems, FiniteSetTheorems, WellFoundedInduction, TLAPS

GlobalFile == INSTANCE JsonFile_proofs WITH
    Contents <- Configs, Empty <- NoConfig, Torn <- TornConfig, Live <- LiveConfig,
    Writers <- EngineCalls, live <- globalConfig, file <- globalFile,
    calls <- globalCalls, disturbed <- globalDisturbed

ProjectFile == INSTANCE JsonFile_proofs WITH
    Contents <- Configs, Empty <- NoConfig, Torn <- TornConfig, Live <- LiveConfig,
    Writers <- EngineCalls, live <- projectConfig, file <- projectFile,
    calls <- projectCalls, disturbed <- projectDisturbed

LEMMA ConfigsHold ==
    NoConfig \in Configs /\ TornConfig \notin Configs /\ LiveConfig \notin Configs
  BY ConfigAssumption DEF NoConfig, Configs

(***************************************************************************)
(* A configuration with one path set, or unset, is a configuration.        *)
(***************************************************************************)
LEMMA SetTyped ==
  ASSUME NEW c \in Configs, NEW p \in Paths, NEW v \in Values \cup {Unset}
  PROVE  [c EXCEPT ![p] = v] \in Configs
  BY DEF Configs

LEMMA InitBoth == EngineInit => GlobalFile!FollowInv /\ ProjectFile!FollowInv
<1> SUFFICES ASSUME EngineInit PROVE GlobalFile!FollowInv /\ ProjectFile!FollowInv
  OBVIOUS
<1>1. GlobalFile!JsonInit
  BY DEF EngineInit, Global!JsonInit, GlobalFile!JsonInit, Global!IdleCall,
         GlobalFile!IdleCall, Global!Call, GlobalFile!Call
<1>2. ProjectFile!JsonInit
  BY DEF EngineInit, Project!JsonInit, ProjectFile!JsonInit, Project!IdleCall,
         ProjectFile!IdleCall, Project!Call, ProjectFile!Call
<1> QED
  BY <1>1, <1>2, ConfigsHold, GlobalFile!InitFollows, ProjectFile!InitFollows

LEMMA GlobalSteps ==
  ASSUME EngineNext, globalConfig \in Configs
  PROVE  Global!JsonNext \/ UNCHANGED globalVars
<1>1. ASSUME NEW w \in EngineCalls, NEW p \in Paths, NEW v \in Values,
             setGlobal(w, p, v)
      PROVE  Global!JsonNext
  <2>1. [globalConfig EXCEPT ![p] = v] \in Configs
    BY SetTyped
  <2> QED
    BY <1>1, <2>1 DEF setGlobal, Global!JsonNext
<1>2. ASSUME NEW w \in EngineCalls,
             \/ writeJsonFile(w) \/ load(w) \/ resetAll(w)
             \/ \E p \in Paths : reset(w, p) \/ \E v \in Values : set(w, p, v)
             \/ \E c \in Configs : importConfig(w, c) \/ rollbackConfig(w, c)
      PROVE  Global!JsonNext \/ UNCHANGED globalVars
  BY <1>2 DEF writeJsonFile, load, resetAll, reset, set, importConfig,
     rollbackConfig, Global!JsonNext
<1>3. ensureLoaded => Global!JsonNext
  BY DEF ensureLoaded, Global!JsonNext
<1> QED
  BY <1>1, <1>2, <1>3 DEF EngineNext

LEMMA ProjectSteps ==
  ASSUME EngineNext, projectConfig \in Configs
  PROVE  Project!JsonNext \/ UNCHANGED projectVars
<1>1. ASSUME NEW w \in EngineCalls, NEW p \in Paths, NEW v \in Values \cup {Unset},
             Project!Change(w, [projectConfig EXCEPT ![p] = v])
      PROVE  Project!JsonNext
  <2>1. [projectConfig EXCEPT ![p] = v] \in Configs
    BY SetTyped
  <2> QED
    BY <1>1, <2>1 DEF Project!JsonNext
<1>2. ASSUME NEW w \in EngineCalls, NEW p \in Paths, NEW v, set(w, p, v)
      PROVE  Project!JsonNext
  <2>1. v \in Values
    BY <1>2, ConfigAssumption DEF set, checkSecurityRuleViolation
  <2> QED
    BY <1>1, <1>2, <2>1 DEF set
<1>3. ASSUME NEW w \in EngineCalls,
             \/ \E p \in Paths : reset(w, p) \/ \E v \in Values : set(w, p, v)
             \/ \E c \in Configs : importConfig(w, c)
      PROVE  Project!JsonNext
  BY <1>1, <1>2, <1>3 DEF reset, importConfig
<1>4. ASSUME NEW w \in EngineCalls,
             \/ writeJsonFile(w) \/ load(w) \/ resetAll(w)
             \/ \E p \in Paths, v \in Values : setGlobal(w, p, v)
             \/ \E c \in Configs : rollbackConfig(w, c)
      PROVE  Project!JsonNext \/ UNCHANGED projectVars
  BY <1>4, ConfigsHold DEF writeJsonFile, load, resetAll, setGlobal, rollbackConfig,
     Project!JsonNext
<1>5. ensureLoaded => Project!JsonNext
  BY DEF ensureLoaded, Project!JsonNext
<1> QED
  BY <1>3, <1>4, <1>5 DEF EngineNext

-----------------------------------------------------------------------------
(***************************************************************************)
(* Two instances of JsonFile with the same parameters have the same steps. *)
(***************************************************************************)
LEMMA GlobalSame == Global!JsonNext => GlobalFile!JsonNext
  BY DEF
     Global!JsonNext, GlobalFile!JsonNext, Global!Restart, GlobalFile!Restart,
     Global!BeginWrite, GlobalFile!BeginWrite, Global!EndWrite,
     GlobalFile!EndWrite, Global!FailWrite, GlobalFile!FailWrite,
     Global!BeginRead, GlobalFile!BeginRead, Global!EndRead,
     GlobalFile!EndRead, Global!Change, GlobalFile!Change, Global!Replace,
     GlobalFile!Replace, Global!WriteOther, GlobalFile!WriteOther, Global!Call,
     GlobalFile!Call, Global!IdleCall, GlobalFile!IdleCall, Global!At,
     GlobalFile!At, Global!content, GlobalFile!content, Global!frozen,
     GlobalFile!frozen, Global!touched, GlobalFile!touched,
     Global!readJsonFile, GlobalFile!readJsonFile

LEMMA ProjectSame == Project!JsonNext => ProjectFile!JsonNext
  BY DEF
     Project!JsonNext, ProjectFile!JsonNext, Project!Restart,
     ProjectFile!Restart, Project!BeginWrite, ProjectFile!BeginWrite,
     Project!EndWrite, ProjectFile!EndWrite, Project!FailWrite,
     ProjectFile!FailWrite, Project!BeginRead, ProjectFile!BeginRead,
     Project!EndRead, ProjectFile!EndRead, Project!Change, ProjectFile!Change,
     Project!Replace, ProjectFile!Replace, Project!WriteOther,
     ProjectFile!WriteOther, Project!Call, ProjectFile!Call, Project!IdleCall,
     ProjectFile!IdleCall, Project!At, ProjectFile!At, Project!content,
     ProjectFile!content, Project!frozen, ProjectFile!frozen, Project!touched,
     ProjectFile!touched, Project!readJsonFile, ProjectFile!readJsonFile

LEMMA NextBoth ==
  ASSUME GlobalFile!FollowInv, ProjectFile!FollowInv, [EngineNext]_engineVars
  PROVE  GlobalFile!FollowInv' /\ ProjectFile!FollowInv'
<1>1. globalConfig \in Configs /\ projectConfig \in Configs
  BY DEF GlobalFile!FollowInv, GlobalFile!JsonTypeOK, ProjectFile!FollowInv,
     ProjectFile!JsonTypeOK
<1>2. [GlobalFile!JsonNext]_<<globalConfig, globalFile, globalCalls, globalDisturbed>>
  BY <1>1, GlobalSteps, GlobalSame DEF engineVars, globalVars
<1>3. [ProjectFile!JsonNext]_<<projectConfig, projectFile, projectCalls, projectDisturbed>>
  BY <1>1, ProjectSteps, ProjectSame DEF engineVars, projectVars
<1>4. GlobalFile!FollowInv'
  BY <1>2, ConfigsHold, GlobalFile!NextFollows DEF GlobalFile!jsonVars
<1>5. ProjectFile!FollowInv'
  BY <1>3, ConfigsHold, ProjectFile!NextFollows DEF ProjectFile!jsonVars
<1> QED
  BY <1>4, <1>5

(***************************************************************************)
(* Between calls both configuration files read as the configuration the    *)
(* engine answers from, for any paths, values, rules and number of calls.  *)
(***************************************************************************)
THEOREM EngineFollows == EngineSpec => []ConfigOnDisk
<1>1. GlobalFile!FollowInv /\ ProjectFile!FollowInv => ConfigOnDisk
  BY DEF ConfigOnDisk, GlobalFile!FollowInv, GlobalFile!pending, ProjectFile!FollowInv,
     ProjectFile!pending, Global!QuietFileMatches, Project!QuietFileMatches,
     Global!At, GlobalFile!At, Project!At, ProjectFile!At, Global!readJsonFile,
     GlobalFile!readJsonFile, Project!readJsonFile, ProjectFile!readJsonFile
<1>2. EngineSpec => [](GlobalFile!FollowInv /\ ProjectFile!FollowInv)
  BY InitBoth, NextBoth, PTL DEF EngineSpec
<1> QED
  BY <1>1, <1>2, PTL

-----------------------------------------------------------------------------
(***************************************************************************)
(* The snapshot index, a JsonFile whose memory a prune changes between     *)
(* writes.  While a prune is under way the file need not follow; what      *)
(* remains (LooseInv) is enough for the write that ends the prune to mend  *)
(* it.  That a list has an identifier once, which makes the lists contents *)
(* of the file, rests on where the identifiers are: those of saves begun   *)
(* and not yet listed are in nothing that memory, the file or a call holds.*)
(***************************************************************************)
IndexFile == INSTANCE JsonFile_proofs WITH
    Contents <- SnapshotLists, Empty <- <<>>, Torn <- TornIndex, Live <- LiveIndex,
    Writers <- VersioningCalls, live <- snapshots, file <- indexFile,
    calls <- indexCalls, disturbed <- indexDisturbed

LEMMA IndexSame ==
  /\ Index!JsonInit <=> IndexFile!JsonInit
  /\ Index!Restart <=> IndexFile!Restart
  /\ \A w : Index!BeginWrite(w) <=> IndexFile!BeginWrite(w)
  /\ \A w : Index!EndWrite(w) <=> IndexFile!EndWrite(w)
  /\ \A w : Index!FailWrite(w) <=> IndexFile!FailWrite(w)
  /\ \A w : Index!BeginRead(w) <=> IndexFile!BeginRead(w)
  /\ \A w : Index!EndRead(w) <=> IndexFile!EndRead(w)
  /\ \A w, c : Index!Change(w, c) <=> IndexFile!Change(w, c)
  /\ Index!frozen = IndexFile!frozen
  BY DEF
     Index!JsonInit, IndexFile!JsonInit, Index!Restart, IndexFile!Restart,
     Index!BeginWrite, IndexFile!BeginWrite, Index!EndWrite,
     IndexFile!EndWrite, Index!FailWrite, IndexFile!FailWrite,
     Index!BeginRead, IndexFile!BeginRead, Index!EndRead,
     IndexFile!EndRead, Index!Change, IndexFile!Change, Index!Call,
     IndexFile!Call, Index!IdleCall, IndexFile!IdleCall, Index!At,
     IndexFile!At, Index!content, IndexFile!content, Index!frozen,
     IndexFile!frozen, Index!touched, IndexFile!touched,
     Index!readJsonFile, IndexFile!readJsonFile

LEMMA ListsHold ==
    <<>> \in SnapshotLists /\ TornIndex \notin SnapshotLists /\ LiveIndex \notin SnapshotLists
<1>1. <<>> \in [1..0 -> SnapshotIds]
  OBVIOUS
<1>2. <<>> \in SeqOf(SnapshotIds, MaxSnapshots)
  BY <1>1, VersioningAssumption DEF SeqOf
<1> QED
  BY <1>2, VersioningAssumption DEF SnapshotLists, IsInjective

LEMMA ListIs ==
  ASSUME NEW s \in SnapshotLists
  PROVE  /\ s \in Seq(SnapshotIds) /\ Len(s) <= MaxSnapshots /\ DOMAIN s = 1..Len(s)
         /\ \A i, j \in 1..Len(s) : s[i] = s[j] => i = j
<1>1. PICK m \in 0..MaxSnapshots : s \in [1..m -> SnapshotIds]
  BY DEF SnapshotLists, SeqOf
<1>2. s \in Seq(SnapshotIds) /\ Len(s) = m /\ DOMAIN s = 1..m
  BY <1>1, VersioningAssumption
<1> QED
  BY <1>1, <1>2, VersioningAssumption DEF SnapshotLists, IsInjective

LEMMA IsList ==
  ASSUME NEW s \in Seq(SnapshotIds), Len(s) <= MaxSnapshots,
         \A i, j \in 1..Len(s) : s[i] = s[j] => i = j
  PROVE  s \in SnapshotLists
<1>1. Len(s) \in 0..MaxSnapshots /\ s \in [1..Len(s) -> SnapshotIds]
  BY VersioningAssumption
<1>2. s \in SeqOf(SnapshotIds, MaxSnapshots)
  BY <1>1 DEF SeqOf
<1> QED
  BY <1>1, <1>2 DEF SnapshotLists, IsInjective

(***************************************************************************)
(* An identifier that is not in a list can be added to it.                 *)
(***************************************************************************)
LEMMA ListGrows ==
  ASSUME NEW s \in SnapshotLists, NEW k \in SnapshotIds, k \notin ToSet(s)
  PROVE  s \o <<k>> \in SnapshotLists /\ ToSet(s \o <<k>>) = ToSet(s) \cup {k}
<1> DEFINE all == s \o <<k>>
<1>1. /\ s \in Seq(SnapshotIds) /\ Len(s) <= MaxSnapshots /\ DOMAIN s = 1..Len(s)
      /\ \A i, j \in 1..Len(s) : s[i] = s[j] => i = j
  BY ListIs
<1>2. \A i \in 1..Len(s) : s[i] # k /\ s[i] \in SnapshotIds
  BY <1>1 DEF ToSet
<1>3. PICK last \in Nat : last = Len(s)
  BY <1>1, LenProperties
<1>4. last < MaxSnapshots
  <2> SUFFICES ASSUME last = MaxSnapshots PROVE FALSE
    <3>1. last <= MaxSnapshots
      BY <1>1, <1>3
    <3> QED
      BY <3>1, VersioningAssumption
  <2>1. IsFiniteSet(1..last) /\ Cardinality(1..last) = last
    BY FS_Interval
  <2>2. SnapshotIds = 1..last
    BY DEF SnapshotIds
  <2>3. /\ IsFiniteSet(SnapshotIds \ {k})
        /\ Cardinality(SnapshotIds \ {k}) = last - 1
    BY <2>1, <2>2, FS_RemoveElement
  <2>4. s \in [1..last -> SnapshotIds \ {k}]
    BY <1>1, <1>2, <1>3
  <2>5. \E i, j \in 1..last : i # j /\ s[i] = s[j]
    BY <2>1, <2>3, <2>4, FS_PigeonHole
  <2> QED
    BY <1>1, <1>3, <2>5
<1>5. /\ all \in Seq(SnapshotIds) /\ Len(all) = last + 1
      /\ \A i \in 1..last : all[i] = s[i]
      /\ all[last + 1] = k
  BY <1>1, <1>3
<1>6. \A i, j \in 1..Len(all) : all[i] = all[j] => i = j
  <2>1. \A i \in 1..Len(all) : i \in 1..last \/ i = last + 1
    BY <1>3, <1>5
  <2> HIDE DEF all
  <2> QED
    BY <1>1, <1>2, <1>3, <1>5, <2>1
<1>7. all \in SnapshotLists
  <2> HIDE DEF all
  <2> QED
    BY <1>3, <1>4, <1>5, <1>6, IsList, VersioningAssumption
<1>8. ToSet(all) = ToSet(s) \cup {k}
  <2>1. DOMAIN all = 1..(last + 1) /\ DOMAIN s = 1..last
    BY <1>1, <1>3, <1>5
  <2>2. \A i \in 1..(last + 1) : i \in 1..last \/ i = last + 1
    BY <1>3
  <2>3. last + 1 \in 1..(last + 1) /\ 1..last \subseteq 1..(last + 1)
    BY <1>3
  <2> HIDE DEF all
  <2> QED
    BY <1>5, <2>1, <2>2, <2>3 DEF ToSet
<1> QED
  BY <1>7, <1>8

LEMMA WithoutList ==
  ASSUME NEW s \in SnapshotLists, NEW id
  PROVE  without(s, id) \in SnapshotLists /\ ToSet(without(s, id)) \subseteq ToSet(s)
<1>1. /\ s \in Seq(SnapshotIds) /\ Len(s) <= MaxSnapshots /\ DOMAIN s = 1..Len(s)
      /\ \A i, j \in 1..Len(s) : s[i] = s[j] => i = j
  BY ListIs
<1>2. CASE ~Contains(s, id)
  BY <1>2 DEF without
<1>3. CASE Contains(s, id)
  <2>1. PICK at : at = CHOOSE i \in DOMAIN s : s[i] = id
    OBVIOUS
  <2>2. at \in 1..Len(s)
    BY <1>1, <1>3, <2>1 DEF Contains
  <2>3. PICK last \in Nat : last = Len(s)
    BY <1>1, LenProperties
  <2>4. PICK front, back : front = SubSeq(s, 1, at - 1) /\ back = SubSeq(s, at + 1, last)
    OBVIOUS
  <2>5. PICK rest : rest = front \o back
    OBVIOUS
  <2>6. without(s, id) = rest
    BY <1>3, <2>1, <2>3, <2>4, <2>5 DEF without, RemoveAt
  <2>7. /\ front \in Seq(SnapshotIds) /\ Len(front) = at - 1
        /\ \A i \in 1..(at - 1) : front[i] = s[i]
    <3>1. \A i \in 1..(at - 1) : s[i] \in SnapshotIds
      BY <1>1, <2>2, <2>3
    <3> QED
      BY <2>2, <2>3, <2>4, <3>1, SubSeqProperties
  <2>8. /\ back \in Seq(SnapshotIds) /\ Len(back) = last - at
        /\ \A i \in 1..(last - at) : back[i] = s[i + at]
    <3>1. \A i \in (at + 1)..last : s[i] \in SnapshotIds
      BY <1>1, <2>2, <2>3
    <3>2. /\ SubSeq(s, at + 1, last) \in Seq(SnapshotIds)
          /\ Len(SubSeq(s, at + 1, last)) =
                IF at + 1 <= last THEN last - (at + 1) + 1 ELSE 0
          /\ \A i \in 1..(last - (at + 1) + 1) :
                SubSeq(s, at + 1, last)[i] = s[at + 1 + i - 1]
      BY <2>2, <2>3, <3>1, SubSeqProperties
    <3> QED
      BY <2>2, <2>3, <2>4, <3>2
  <2>9. /\ rest \in Seq(SnapshotIds) /\ Len(rest) = last - 1
        /\ \A i \in 1..(last - 1) :
              rest[i] = IF i <= at - 1 THEN front[i] ELSE back[i - (at - 1)]
    <3>1. /\ rest \in Seq(SnapshotIds) /\ Len(rest) = Len(front) + Len(back)
          /\ \A i \in 1..(Len(front) + Len(back)) :
                rest[i] = IF i <= Len(front) THEN front[i] ELSE back[i - Len(front)]
      BY <2>5, <2>7, <2>8, ConcatProperties
    <3>2. Len(front) = at - 1 /\ Len(back) = last - at
      BY <2>7, <2>8
    <3>3. Len(front) + Len(back) = last - 1
      BY <2>2, <2>3, <3>2
    <3> QED
      BY <3>1, <3>2, <3>3
  <2>10. \A i \in 1..(last - 1) : rest[i] = s[IF i < at THEN i ELSE i + 1]
    <3> SUFFICES ASSUME NEW i \in 1..(last - 1)
                 PROVE  rest[i] = s[IF i < at THEN i ELSE i + 1]
      OBVIOUS
    <3>1. CASE i < at
      BY <2>2, <2>3, <2>7, <2>9, <3>1
    <3>2. CASE i >= at
      <4>1. rest[i] = back[i - (at - 1)]
        BY <2>2, <2>3, <2>9, <3>2
      <4>2. i - (at - 1) \in 1..(last - at) /\ (i - (at - 1)) + at = i + 1
        BY <2>2, <2>3, <3>2
      <4> QED
        BY <2>2, <2>8, <3>2, <4>1, <4>2
    <3> QED
      BY <2>2, <2>3, <3>1, <3>2
  <2>11. \A i, j \in 1..Len(rest) : rest[i] = rest[j] => i = j
    BY <1>1, <2>2, <2>3, <2>9, <2>10
  <2>12. rest \in SnapshotLists
    <3>1. Len(rest) <= MaxSnapshots
      BY <1>1, <2>3, <2>9, VersioningAssumption
    <3> QED
      BY <2>9, <2>11, <3>1, IsList
  <2>13. ToSet(rest) \subseteq ToSet(s)
    <3>1. DOMAIN rest = 1..(last - 1) /\ DOMAIN s = 1..last
      BY <1>1, <2>3, <2>9
    <3>2. \A i \in 1..(last - 1) : (IF i < at THEN i ELSE i + 1) \in 1..last
      BY <2>3
    <3> QED
      BY <2>10, <3>1, <3>2 DEF ToSet
  <2> QED
    BY <2>6, <2>12, <2>13
<1> QED
  BY <1>2, <1>3

-----------------------------------------------------------------------------
opShape(o) ==
    \E kind \in {"none", "save", "prune"} : \E list : o = [op |-> kind, ids |-> list]

\* A save under way: its identifier is one given out, held by nothing yet.
naming(w, k) ==
    /\ ops[w].op = "save" /\ ops[w].ids = <<k>>
    /\ k \in 1..saves
    /\ \A c \in IndexFile!Held : k \notin ToSet(c)

NoPrune == \A w \in VersioningCalls : ops[w].op # "prune"

NamesInv ==
    /\ saves \in 0..MaxSnapshots
    /\ ops = [w \in VersioningCalls |-> ops[w]]
    /\ \A w \in VersioningCalls : opShape(ops[w])
    /\ \A w \in VersioningCalls : ops[w].op = "save" => \E k : naming(w, k)
    /\ \A v, w \in VersioningCalls :
          v # w /\ ops[v].op = "save" /\ ops[w].op = "save" => ops[v].ids # ops[w].ids
    /\ \A c \in IndexFile!Held : ToSet(c) \subseteq 1..saves

IndexInv ==
    /\ IndexFile!LooseInv
    /\ NoPrune => IndexFile!FollowInv
    /\ NamesInv

LEMMA ShapeOf ==
  ASSUME NEW kind \in {"none", "save", "prune"}, NEW list
  PROVE  opShape([op |-> kind, ids |-> list])
  BY DEF opShape

LEMMA InitIndexInv == VersioningInit => IndexInv
<1> SUFFICES ASSUME VersioningInit PROVE IndexInv
  OBVIOUS
<1>1. IndexFile!FollowInv
  BY IndexSame, ListsHold, IndexFile!InitFollows DEF VersioningInit
<1>2. IndexFile!LooseInv
  BY <1>1, ListsHold, IndexFile!FollowsLoosely
<1>3. IndexFile!Held \subseteq {<<>>}
  BY DEF VersioningInit, Index!JsonInit, Index!IdleCall, Index!Call, IndexFile!Held
<1>4. \A w \in VersioningCalls : ops[w] = [op |-> "none", ids |-> <<>>]
  BY DEF VersioningInit, NoOp
<1>5. NamesInv
  <2>1. \A w \in VersioningCalls : opShape(ops[w])
    BY <1>4, ShapeOf
  <2>2. saves \in 0..MaxSnapshots
    BY VersioningAssumption DEF VersioningInit
  <2>3. \A w \in VersioningCalls : ops[w].op # "save"
    BY <1>4
  <2>4. ops = [w \in VersioningCalls |-> ops[w]]
    BY DEF VersioningInit
  <2>5. \A c \in IndexFile!Held : ToSet(c) \subseteq 1..saves
    BY <1>3 DEF ToSet
  <2> QED
    BY <2>1, <2>2, <2>3, <2>4, <2>5 DEF NamesInv
<1> QED
  BY <1>1, <1>2, <1>5 DEF IndexInv

\* What a step has to show of the names when operations stay as they were.
LEMMA NamesStay ==
  ASSUME NamesInv, UNCHANGED <<ops, saves>>,
         IndexFile!Held' \subseteq IndexFile!Held \cup {<<>>}
  PROVE  NamesInv'
<1>1. \A c \in IndexFile!Held' : ToSet(c) = {} \/ c \in IndexFile!Held
  BY DEF ToSet
<1>2. \A w \in VersioningCalls : \A k : naming(w, k) => naming(w, k)'
  BY <1>1 DEF naming
<1>3. \A c \in IndexFile!Held' : ToSet(c) \subseteq 1..saves'
  BY <1>1 DEF NamesInv
<1> QED
  BY <1>2, <1>3 DEF NamesInv

LEMMA SaveKeeps ==
  ASSUME IndexInv, NEW w \in VersioningCalls, save(w)
  PROVE  IndexInv'
<1> DEFINE now == IndexFile!Held
<1>0. PICK number : number = saves + 1
  OBVIOUS
<1>1. IndexFile!Held' = now
  BY DEF save, indexVars, IndexFile!Held
<1>2. \A c \in now : ToSet(c) \subseteq 1..saves
  BY DEF IndexInv, NamesInv
<1>3. saves \in 0..MaxSnapshots /\ saves' = number /\ number \in 1..MaxSnapshots
  BY <1>0, VersioningAssumption DEF IndexInv, NamesInv, save
<1> HIDE DEF now
<1>4. \A c \in now : number \notin ToSet(c) /\ ToSet(c) \subseteq 1..number
  BY <1>0, <1>2, <1>3
<1>5. /\ ops' = [v \in VersioningCalls |-> ops'[v]]
      /\ ops'[w] = [op |-> "save", ids |-> <<number>>]
      /\ \A v \in VersioningCalls \ {w} : ops'[v] = ops[v]
  BY <1>0 DEF IndexInv, NamesInv, save
<1>6. naming(w, number)'
  <2>1. number \in 1..number
    BY <1>0, <1>3
  <2> QED
    BY <1>1, <1>3, <1>4, <1>5, <2>1 DEF naming, now
<1>7. ASSUME NEW v \in VersioningCalls \ {w}, ops[v].op = "save"
      PROVE  /\ \E k : naming(v, k)'
             /\ ops[v].ids # <<number>>
  <2>1. PICK k : naming(v, k)
    BY <1>7 DEF IndexInv, NamesInv
  <2>2. naming(v, k)'
    <3>1. k \in 1..saves'
      BY <1>0, <1>3, <2>1 DEF naming
    <3> QED
      BY <1>1, <1>5, <2>1, <3>1 DEF naming, now
  <2>3. k \in 1..saves /\ ops[v].ids = <<k>>
    BY <2>1 DEF naming
  <2>4. k # number
    BY <1>0, <1>3, <2>3
  <2> QED
    BY <2>2, <2>3, <2>4
<1>8. NamesInv'
  <2>1. \A v \in VersioningCalls : ops'[v].op = "save" => \E k : naming(v, k)'
    BY <1>5, <1>6, <1>7
  <2>2. \A v, u \in VersioningCalls :
           v # u /\ ops'[v].op = "save" /\ ops'[u].op = "save" => ops'[v].ids # ops'[u].ids
    BY <1>5, <1>7 DEF IndexInv, NamesInv
  <2>3. \A v \in VersioningCalls : opShape(ops'[v])
    BY <1>5 DEF IndexInv, NamesInv, opShape
  <2> QED
    BY <1>1, <1>3, <1>4, <1>5, <2>1, <2>2, <2>3 DEF NamesInv
<1>9. NoPrune' => NoPrune
  BY <1>5 DEF NoPrune, save, resting, NoOp
<1>10. UNCHANGED indexVars
  BY DEF save
<1>11. IndexFile!LooseInv' /\ (NoPrune' => IndexFile!FollowInv')
  BY <1>9, <1>10 DEF IndexInv, indexVars, IndexFile!LooseInv, IndexFile!FollowInv,
     IndexFile!JsonTypeOK, IndexFile!At, IndexFile!WritesAlone, IndexFile!ReadsHold,
     IndexFile!readJsonFile, IndexFile!pending, IndexFile!content, IndexFile!InFlight
<1> QED
  BY <1>8, <1>11 DEF IndexInv

\* The operation of a call ends, and nothing else of the operations changes.
LEMMA NamesEnd ==
  ASSUME NamesInv, NEW w \in VersioningCalls,
         ops' = [ops EXCEPT ![w] = NoOp], saves' = saves,
         \A v \in VersioningCalls \ {w} : \A k : naming(v, k) =>
            \A c \in IndexFile!Held' : k \notin ToSet(c),
         \A c \in IndexFile!Held' : ToSet(c) \subseteq 1..saves
  PROVE  NamesInv'
<1>1. /\ ops' = [v \in VersioningCalls |-> ops'[v]]
      /\ ops'[w] = [op |-> "none", ids |-> <<>>]
      /\ \A v \in VersioningCalls \ {w} : ops'[v] = ops[v]
  BY DEF NamesInv, NoOp
<1>2. \A v \in VersioningCalls \ {w} : \A k : naming(v, k) => naming(v, k)'
  BY <1>1 DEF naming
<1>3. \A v \in VersioningCalls : ops'[v].op = "save" => \E k : naming(v, k)'
  BY <1>1, <1>2 DEF NamesInv
<1>4. \A v \in VersioningCalls : opShape(ops'[v])
  <2>1. opShape(ops'[w])
    BY <1>1, ShapeOf
  <2> QED
    BY <1>1, <2>1 DEF NamesInv
<1> QED
  BY <1>1, <1>3, <1>4 DEF NamesInv

LEMMA SavedKeeps ==
  ASSUME IndexInv, NEW w \in VersioningCalls, Saved(w)
  PROVE  IndexInv'
<1> DEFINE now == IndexFile!Held
<1>1. PICK k : naming(w, k)
  BY DEF IndexInv, NamesInv, Saved
<1>2. k \in SnapshotIds /\ k \notin ToSet(snapshots) /\ k \in 1..saves
  BY <1>1, VersioningAssumption
  DEF naming, SnapshotIds, IndexInv, NamesInv, IndexFile!Held
<1>3. IndexFile!JsonTypeOK /\ snapshots \in SnapshotLists
  BY DEF IndexInv, IndexFile!LooseInv, IndexFile!JsonTypeOK
<1>4. PICK all : all = snapshots \o <<k>>
  OBVIOUS
<1>5. all \in SnapshotLists /\ ToSet(all) = ToSet(snapshots) \cup {k}
  BY <1>2, <1>3, <1>4, ListGrows
<1>6. IndexFile!Change(w, all)
  BY <1>1, <1>4, IndexSame DEF Saved, naming
<1>7. IndexFile!Held' \subseteq now \cup {all}
  BY <1>3, <1>6, ListsHold, IndexFile!ChangeHolds
<1>8. IndexFile!LooseInv'
  BY <1>5, <1>6, ListsHold, IndexFile!ChangeLoose DEF IndexInv
<1>9. IndexFile!FollowInv'
  BY <1>5, <1>6, ListsHold, IndexFile!ChangeMends DEF IndexInv
<1>10. snapshots \in now
  BY DEF IndexFile!Held
<1>11. ASSUME NEW v \in VersioningCalls \ {w}, NEW j, naming(v, j)
       PROVE  \A c \in IndexFile!Held' : j \notin ToSet(c)
  <2>1. ops[v].ids # ops[w].ids
    BY <1>11 DEF IndexInv, NamesInv, Saved, naming
  <2>2. j # k
    BY <1>1, <1>11, <2>1 DEF naming
  <2> QED
    BY <1>5, <1>7, <1>10, <1>11, <2>2 DEF naming
<1>12. \A c \in IndexFile!Held' : ToSet(c) \subseteq 1..saves
  BY <1>2, <1>5, <1>7, <1>10 DEF IndexInv, NamesInv
<1>13. NamesInv'
  BY <1>11, <1>12, NamesEnd DEF IndexInv, Saved
<1> QED
  BY <1>8, <1>9, <1>13 DEF IndexInv

\* A step of the index's calls, or of none, with operations as they were.
LEMMA CallsKeep ==
  ASSUME IndexInv, IndexFile!CallStep, UNCHANGED <<ops, saves>>
  PROVE  IndexInv'
<1>1. IndexFile!LooseInv'
  BY ListsHold, IndexFile!CallLoose DEF IndexInv
<1>2. IndexFile!JsonTypeOK
  BY DEF IndexInv, IndexFile!LooseInv
<1>3. NamesInv'
  BY <1>2, ListsHold, IndexFile!CallsHold, NamesStay DEF IndexInv
<1>4. NoPrune' => IndexFile!FollowInv'
  <2>1. NoPrune' => NoPrune
    BY DEF NoPrune
  <2>2. IndexFile!JsonNext
    BY DEF IndexFile!CallStep, IndexFile!JsonNext
  <2> QED
    BY <2>1, <2>2, ListsHold, IndexFile!NextFollows DEF IndexInv
<1> QED
  BY <1>1, <1>3, <1>4 DEF IndexInv

LEMMA UnlinkedKeeps ==
  ASSUME IndexInv, NEW w \in VersioningCalls, Unlinked(w)
  PROVE  IndexInv'
<1> DEFINE now == IndexFile!Held
<1>1. IndexFile!JsonTypeOK /\ snapshots \in SnapshotLists
  BY DEF IndexInv, IndexFile!LooseInv, IndexFile!JsonTypeOK
<1>2. PICK id, list : id = Head(ops[w].ids) /\ list = without(snapshots, id)
  OBVIOUS
<1>3. snapshots' = list /\ indexCalls' = IndexFile!frozen /\ UNCHANGED <<indexFile, indexDisturbed>>
  BY <1>2, IndexSame DEF Unlinked
<1>4. list \in SnapshotLists /\ ToSet(list) \subseteq ToSet(snapshots)
  BY <1>1, <1>2, WithoutList
<1>5. IndexFile!LooseInv'
  BY <1>3, <1>4, ListsHold, IndexFile!SetAsideLoose DEF IndexInv
<1>6. IndexFile!Held' \subseteq now \cup {list}
  BY <1>1, <1>3, ListsHold, IndexFile!SetAsideHolds
<1>7. snapshots \in now
  BY DEF IndexFile!Held
<1>8. PICK tail : ops' = [ops EXCEPT ![w].ids = tail]
  BY DEF Unlinked
<1>9. PICK ids0 : ops[w] = [op |-> "prune", ids |-> ids0]
  BY DEF IndexInv, NamesInv, opShape, Unlinked
<1>10. /\ ops' = [v \in VersioningCalls |-> ops'[v]]
       /\ ops'[w] = [op |-> "prune", ids |-> tail]
       /\ \A v \in VersioningCalls \ {w} : ops'[v] = ops[v]
  BY <1>8, <1>9 DEF IndexInv, NamesInv
<1>11. saves' = saves
  BY DEF Unlinked
<1>12. ASSUME NEW v \in VersioningCalls \ {w}, ops[v].op = "save"
       PROVE  \E k : naming(v, k)'
  <2>1. PICK k : naming(v, k)
    BY <1>12 DEF IndexInv, NamesInv
  <2> QED
    BY <1>4, <1>6, <1>7, <1>10, <1>11, <2>1 DEF naming
<1>13. NamesInv'
  <2>1. \A v \in VersioningCalls : opShape(ops'[v])
    <3>1. opShape(ops'[w])
      BY <1>10, ShapeOf
    <3> QED
      BY <1>10, <3>1 DEF IndexInv, NamesInv
  <2>2. \A v \in VersioningCalls : ops'[v].op = "save" => \E k : naming(v, k)'
    BY <1>10, <1>12
  <2>3. \A c \in IndexFile!Held' : ToSet(c) \subseteq 1..saves
    BY <1>4, <1>6, <1>7 DEF IndexInv, NamesInv
  <2> QED
    BY <1>10, <1>11, <2>1, <2>2, <2>3 DEF IndexInv, NamesInv
<1>14. ~NoPrune'
  BY <1>10 DEF NoPrune
<1> QED
  BY <1>5, <1>13, <1>14 DEF IndexInv

LEMMA PruneIndexKeeps ==
  ASSUME IndexInv, NEW w \in VersioningCalls, PruneIndex(w)
  PROVE  IndexInv'
<1>1. IndexFile!JsonTypeOK /\ snapshots \in SnapshotLists
  BY DEF IndexInv, IndexFile!LooseInv, IndexFile!JsonTypeOK
<1>2. IndexFile!Change(w, snapshots)
  BY IndexSame DEF PruneIndex
<1>3. IndexFile!LooseInv' /\ IndexFile!FollowInv'
  BY <1>1, <1>2, ListsHold, IndexFile!ChangeLoose, IndexFile!ChangeMends DEF IndexInv
<1>4. IndexFile!Held' \subseteq IndexFile!Held
  <2>1. IndexFile!Held' \subseteq IndexFile!Held \cup {snapshots}
    BY <1>1, <1>2, ListsHold, IndexFile!ChangeHolds
  <2> QED
    BY <2>1 DEF IndexFile!Held
<1>5. NamesInv'
  <2>1. \A v \in VersioningCalls \ {w} : \A k : naming(v, k) =>
           \A c \in IndexFile!Held' : k \notin ToSet(c)
    BY <1>4 DEF naming
  <2>2. \A c \in IndexFile!Held' : ToSet(c) \subseteq 1..saves
    BY <1>4 DEF IndexInv, NamesInv
  <2> QED
    BY <2>1, <2>2, NamesEnd DEF IndexInv, PruneIndex
<1> QED
  BY <1>3, <1>5 DEF IndexInv

\* Neither memory nor the file changes: the index's invariants stay.
LEMMA IndexStays ==
  ASSUME IndexInv, UNCHANGED indexVars
  PROVE  /\ IndexFile!LooseInv'
         /\ NoPrune => IndexFile!FollowInv'
         /\ IndexFile!Held' = IndexFile!Held
  BY DEF IndexInv, indexVars, IndexFile!LooseInv, IndexFile!FollowInv,
     IndexFile!JsonTypeOK, IndexFile!At, IndexFile!WritesAlone, IndexFile!ReadsHold,
     IndexFile!readJsonFile, IndexFile!pending, IndexFile!content, IndexFile!InFlight,
     IndexFile!Held

LEMMA SaveFailsKeeps ==
  ASSUME IndexInv, NEW w \in VersioningCalls, SaveFails(w)
  PROVE  IndexInv'
<1>1. UNCHANGED indexVars /\ saves' = saves /\ ops' = [ops EXCEPT ![w] = NoOp]
  BY DEF SaveFails
<1>2. NamesInv'
  <2>1. \A v \in VersioningCalls \ {w} : \A k : naming(v, k) =>
           \A c \in IndexFile!Held' : k \notin ToSet(c)
    BY <1>1, IndexStays DEF naming
  <2>2. \A c \in IndexFile!Held' : ToSet(c) \subseteq 1..saves
    BY <1>1, IndexStays DEF IndexInv, NamesInv
  <2> QED
    BY <1>1, <2>1, <2>2, NamesEnd DEF IndexInv
<1>3. NoPrune' => NoPrune
  BY <1>1 DEF NoPrune, SaveFails
<1> QED
  BY <1>1, <1>2, <1>3, IndexStays DEF IndexInv

LEMMA PruneKeeps ==
  ASSUME IndexInv, NEW w \in VersioningCalls, NEW keep, prune(w, keep)
  PROVE  IndexInv'
<1>1. PICK list : ops' = [ops EXCEPT ![w] = [op |-> "prune", ids |-> list]]
  BY DEF prune
<1>2. UNCHANGED indexVars /\ saves' = saves
  BY DEF prune
<1>3. /\ ops' = [v \in VersioningCalls |-> ops'[v]]
      /\ ops'[w] = [op |-> "prune", ids |-> list]
      /\ \A v \in VersioningCalls \ {w} : ops'[v] = ops[v]
  BY <1>1 DEF IndexInv, NamesInv
<1>4. ~NoPrune'
  BY <1>3 DEF NoPrune
<1>5. NamesInv'
  <2>1. \A v \in VersioningCalls : opShape(ops'[v])
    <3>1. opShape(ops'[w])
      BY <1>3, ShapeOf
    <3> QED
      BY <1>3, <3>1 DEF IndexInv, NamesInv
  <2>2. \A v \in VersioningCalls \ {w} : \A k : naming(v, k) => naming(v, k)'
    BY <1>2, <1>3, IndexStays DEF naming
  <2>3. \A v \in VersioningCalls : ops'[v].op = "save" => \E k : naming(v, k)'
    BY <1>3, <2>2 DEF IndexInv, NamesInv
  <2> QED
    BY <1>2, <1>3, <2>1, <2>3, IndexStays DEF IndexInv, NamesInv
<1> QED
  BY <1>2, <1>4, <1>5, IndexStays DEF IndexInv

LEMMA RestartKeeps == IndexInv /\ RestartVersioning => IndexInv'
<1> SUFFICES ASSUME IndexInv, RestartVersioning PROVE IndexInv'
  OBVIOUS
<1>1. IndexFile!JsonTypeOK /\ IndexFile!Restart
  BY IndexSame DEF IndexInv, IndexFile!LooseInv, RestartVersioning
<1>2. IndexFile!FollowInv'
  BY <1>1, ListsHold, IndexFile!RestartFollows
<1>3. IndexFile!LooseInv'
  BY <1>2 DEF IndexFile!FollowInv, IndexFile!LooseInv, IndexFile!InFlight,
     IndexFile!WritesAlone
<1>4. IndexFile!Held' \subseteq IndexFile!Held \cup {<<>>}
  BY <1>1, ListsHold, IndexFile!RestartHolds
<1>5. \A v \in VersioningCalls : ops'[v] = [op |-> "none", ids |-> <<>>]
  BY DEF RestartVersioning, NoOp
<1>6. NamesInv'
  <2>1. \A v \in VersioningCalls : opShape(ops'[v])
    BY <1>5, ShapeOf
  <2>2. ops' = [v \in VersioningCalls |-> ops'[v]] /\ saves' = saves
    BY DEF RestartVersioning
  <2>3. \A v \in VersioningCalls : ops'[v].op # "save"
    BY <1>5
  <2>4. \A c \in IndexFile!Held' : ToSet(c) \subseteq 1..saves
    BY <1>4 DEF IndexInv, NamesInv, ToSet
  <2> QED
    BY <2>1, <2>2, <2>3, <2>4 DEF IndexInv, NamesInv
<1> QED
  BY <1>2, <1>3, <1>6 DEF IndexInv

LEMMA NextIndexInv == IndexInv /\ [VersioningNext]_versioningVars => IndexInv'
<1> SUFFICES ASSUME IndexInv, [VersioningNext]_versioningVars PROVE IndexInv'
  OBVIOUS
<1>1. ASSUME NEW w \in VersioningCalls, writeIndex(w) \/ initialize(w)
      PROVE  IndexInv'
  <2>1. IndexFile!CallStep
    BY <1>1, IndexSame DEF writeIndex, initialize, IndexFile!CallStep
  <2> QED
    BY <1>1, <2>1, CallsKeep DEF writeIndex, initialize
<1>2. CASE UNCHANGED versioningVars
  <2>1. NamesInv'
    BY <1>2, IndexStays, NamesStay DEF IndexInv, versioningVars
  <2> QED
    BY <1>2, <2>1, IndexStays DEF IndexInv, versioningVars, NoPrune
<1> QED
  BY <1>1, <1>2, SaveKeeps, SavedKeeps, SaveFailsKeeps, UnlinkedKeeps, PruneIndexKeeps,
     PruneKeeps, RestartKeeps DEF VersioningNext

(***************************************************************************)
(* With no prune under way the index on disk lists what memory does, for   *)
(* any number of snapshots and of overlapping saves, prunes and loads.     *)
(***************************************************************************)
THEOREM IndexFollows ==
  VersioningInit /\ [][VersioningNext]_versioningVars => []IndexOnDisk
<1>1. IndexInv => IndexOnDisk
  BY DEF IndexInv, IndexOnDisk, NoPrune, IndexFile!FollowInv, IndexFile!pending,
     Index!QuietFileMatches, Index!At, IndexFile!At, Index!readJsonFile,
     IndexFile!readJsonFile
<1> QED
  BY <1>1, InitIndexInv, NextIndexInv, PTL

-----------------------------------------------------------------------------
(***************************************************************************)
(* The switches of a context.  The chain is inductive with the types: what *)
(* is cut from the history is its oldest switch.                           *)
(***************************************************************************)
Frames == [event : SwitchEvent, heard : 0..listenerCount]

ContextInv == ContextTypeOK /\ SwitchesChain

LEMMA InitContext == ContextInit => ContextInv
  BY ContextAssumption DEF ContextInit, ContextInv, ContextTypeOK, SwitchesChain

LEMMA SwitchKeeps ==
  ASSUME ContextInv, NEW c \in UserContexts, NEW callers \in Seq(Frames),
         switch(c, callers)
  PROVE  ContextInv'
<1>1. PICK event \in SwitchEvent : event = [from |-> currentContext, to |-> c]
  BY DEF ContextInv, ContextTypeOK, SwitchEvent
<1>2. /\ switches \in Seq(SwitchEvent) /\ currentContext \in UserContexts
      /\ \A i \in 1..(Len(switches) - 1) : switches[i].to = switches[i + 1].from
      /\ switches # <<>> => switches[Len(switches)].to = currentContext
  BY DEF ContextInv, ContextTypeOK, SwitchesChain
<1>3. PICK n \in Nat : n = Len(switches) /\ n <= MaxSwitches
  BY DEF ContextInv, ContextTypeOK
<1>4. PICK all : all = Append(switches, event)
  OBVIOUS
<1>5. /\ all \in Seq(SwitchEvent) /\ Len(all) = n + 1
      /\ \A i \in 1..n : all[i] = switches[i]
      /\ all[n + 1] = event
  BY <1>2, <1>3, <1>4, AppendProperties
<1>6. event.from = currentContext /\ event.to = c /\ currentContext' = c
  BY <1>1 DEF switch
<1>7. switches' = IF Len(all) > MaxSwitches THEN Tail(all) ELSE all
  BY <1>1, <1>4 DEF switch, logged
<1>8. \A i \in 1..n : all[i].to = all[i + 1].from
  <2> SUFFICES ASSUME NEW i \in 1..n PROVE all[i].to = all[i + 1].from
    OBVIOUS
  <2>1. CASE i = n
    <3>1. switches # <<>>
      BY <1>3, <2>1
    <3> QED
      BY <1>2, <1>3, <1>5, <1>6, <2>1, <3>1
  <2>2. CASE i # n
    <3>1. i \in 1..(n - 1) /\ i + 1 \in 1..n
      BY <2>2
    <3> QED
      BY <1>2, <1>3, <1>5, <3>1
  <2> QED
    BY <2>1, <2>2
<1>9. /\ switches' \in Seq(SwitchEvent) /\ Len(switches') <= MaxSwitches
      /\ SwitchesChain'
  <2>1. CASE n + 1 > MaxSwitches
    <3>1. switches' = Tail(all)
      BY <1>5, <1>7, <2>1
    <3>2. /\ switches' \in Seq(SwitchEvent) /\ Len(switches') = n
          /\ \A i \in 1..n : switches'[i] = all[i + 1]
      BY <1>5, <3>1, HeadTailProperties
    <3>3. switches'[n] = event
      BY <1>3, <1>5, <2>1, <3>2, ContextAssumption
    <3>4. \A i \in 1..(n - 1) : switches'[i].to = switches'[i + 1].from
      <4> SUFFICES ASSUME NEW i \in 1..(n - 1)
                   PROVE  switches'[i].to = switches'[i + 1].from
        OBVIOUS
      <4>1. i \in 1..n /\ i + 1 \in 1..n
        OBVIOUS
      <4> QED
        BY <1>8, <3>2, <4>1
    <3> QED
      BY <1>3, <1>6, <3>2, <3>3, <3>4 DEF SwitchesChain
  <2>2. CASE n + 1 <= MaxSwitches
    <3>1. switches' = all
      BY <1>5, <1>7, <2>2, ContextAssumption
    <3> QED
      BY <1>5, <1>6, <1>8, <2>2, <3>1 DEF SwitchesChain
  <2> QED
    BY <2>1, <2>2, ContextAssumption
<1>10. stack' \in Seq(Frames)
  <2>0. 0 \in 0..listenerCount
    BY ContextAssumption
  <2>1. PICK frame \in Frames : frame = [event |-> event, heard |-> 0]
    BY <2>0 DEF Frames
  <2>2. stack' = Append(callers, frame)
    BY <1>1, <2>1 DEF switch
  <2> QED
    BY <2>2
<1>11. autoSwitchEnabled' \in BOOLEAN
  BY DEF switch, ContextInv, ContextTypeOK
<1> QED
  BY <1>6, <1>9, <1>10, <1>11 DEF ContextInv, ContextTypeOK, Frames

LEMMA StackTyped ==
  ASSUME ContextTypeOK, stack # <<>>
  PROVE  /\ Len(stack) \in 1..Len(stack)
         /\ top.heard < listenerCount => heardByNext \in Seq(Frames)
         /\ SubSeq(stack, 1, Len(stack) - 1) \in Seq(Frames)
<1>1. stack \in Seq(Frames) /\ Len(stack) \in 1..Len(stack)
  BY DEF ContextTypeOK, Frames
<1>2. PICK n \in Nat : n = Len(stack) /\ n > 0
  BY <1>1
<1>3. PICK frame \in Frames : frame = stack[n]
  BY <1>1, <1>2
<1>4. ASSUME top.heard < listenerCount
      PROVE  heardByNext \in Seq(Frames)
  <2>1. PICK next : next = [frame EXCEPT !.heard = @ + 1]
    OBVIOUS
  <2>2. next \in Frames
    BY <1>2, <1>3, <1>4, <2>1, ContextAssumption DEF top, Frames
  <2>3. heardByNext = [stack EXCEPT ![n] = next]
    BY <1>1, <1>2, <1>3, <2>1 DEF heardByNext
  <2>4. n \in DOMAIN stack
    BY <1>1, <1>2
  <2> QED
    BY <1>1, <2>2, <2>3, <2>4, ExceptSeq
<1>5. SubSeq(stack, 1, Len(stack) - 1) \in Seq(Frames)
  BY <1>1
<1> QED
  BY <1>1, <1>4, <1>5

LEMMA NextContext == ContextInv /\ [ContextNext]_contextVars => ContextInv'
<1> SUFFICES ASSUME ContextInv, [ContextNext]_contextVars PROVE ContextInv'
  OBVIOUS
<1>1. ASSUME NEW c \in UserContexts, setContext(c) \/ autoSwitch(c)
      PROVE  ContextInv'
  <2>1. switch(c, stack) /\ stack \in Seq(Frames)
    BY <1>1 DEF setContext, autoSwitch, ContextInv, ContextTypeOK, Frames
  <2> QED
    BY <2>1, SwitchKeeps
<1>2. ASSUME NEW c \in UserContexts, Listen(c)
      PROVE  ContextInv'
  <2>1. switch(c, heardByNext) /\ heardByNext \in Seq(Frames)
    BY <1>2, StackTyped DEF Listen, ContextInv
  <2> QED
    BY <2>1, SwitchKeeps
<1>3. CASE ListenQuietly \/ Return
  <2>1. stack' \in Seq(Frames)
    BY <1>3, StackTyped DEF ListenQuietly, Return, ContextInv
  <2> QED
    BY <1>3, <2>1 DEF ListenQuietly, Return, ContextInv, ContextTypeOK, SwitchesChain, Frames
<1>4. CASE SwitchAutomation \/ UNCHANGED contextVars
  BY <1>4 DEF SwitchAutomation, contextVars, ContextInv, ContextTypeOK, SwitchesChain
<1> QED
  BY <1>1, <1>2, <1>3, <1>4 DEF ContextNext

(***************************************************************************)
(* The history of switches is one chain that ends in the current context,  *)
(* for any contexts, listeners, depth of calls and length of the history.  *)
(***************************************************************************)
THEOREM SwitchesStayChained ==
  ContextInit /\ [][ContextNext]_contextVars => []SwitchesChain
  BY InitContext, NextContext, PTL DEF ContextInv

-----------------------------------------------------------------------------
(***************************************************************************)
(* The policies of an organisation.  No invariant is needed: which step is *)
(* taken says what the checks still see.                                   *)
(***************************************************************************)
LEMMA ListedUnseen ==
  ASSUME OrgNext, policies' # policies
  PROVE  templates' = templates /\ orgConfig' = orgConfig
  BY DEF OrgNext, setOrgConfig, deletePolicy, createPolicy, updatePolicy, addTemplate,
     activatePolicy, deactivatePolicy, addMember, removeMember

LEMMA VerdictsMonotone ==
  ASSUME templates' = templates, orgConfig'.members = orgConfig.members
  PROVE  /\ active \subseteq active' => verdicts' \subseteq verdicts
         /\ active' \subseteq active => verdicts \subseteq verdicts'
<1>1. ASSUME active \subseteq active' PROVE verdicts' \subseteq verdicts
  <2>1. getActivePolicies \subseteq getActivePolicies'
    BY <1>1 DEF active, getActivePolicies, getTemplate
  <2>2. \A m : exceeded(m) \subseteq exceeded(m)'
    BY <2>1 DEF exceeded
  <2> QED
    BY <2>2 DEF verdicts, validateMemberCompliance
<1>2. ASSUME active' \subseteq active PROVE verdicts \subseteq verdicts'
  <2>1. getActivePolicies' \subseteq getActivePolicies
    BY <1>2 DEF active, getActivePolicies, getTemplate
  <2>2. \A m : exceeded(m)' \subseteq exceeded(m)
    BY <2>1 DEF exceeded
  <2> QED
    BY <2>2 DEF verdicts, validateMemberCompliance
<1> QED
  BY <1>1, <1>2

(***************************************************************************)
(* Editing the listed policies changes no verdict, and verdicts follow the *)
(* active templates, for any members, edits and configurations.            *)
(***************************************************************************)
THEOREM VerdictsFollow == OrgInit /\ [][OrgNext]_orgVars => VerdictsFollowTemplates
<1> DEFINE Follow ==
        /\ policies' # policies => verdicts' = verdicts
        /\ templates' = templates /\ orgConfig'.members = orgConfig.members =>
             /\ active \subseteq active' => verdicts' \subseteq verdicts
             /\ active' \subseteq active => verdicts \subseteq verdicts'
<1>1. OrgNext => Follow
  <2>1. OrgNext /\ policies' # policies => verdicts' = verdicts
    BY ListedUnseen DEF verdicts, validateMemberCompliance, exceeded, getActivePolicies,
       getTemplate
  <2> QED
    BY <2>1, VerdictsMonotone
<1> QED
  BY <1>1, PTL DEF VerdictsFollowTemplates

-----------------------------------------------------------------------------
(***************************************************************************)
(* The numbered versions.  That a recorded version keeps its file rests on *)
(* memory knowing a number at least as high as that of every version       *)
(* recorded: after the oldest is forgotten the newest is still there, and  *)
(* after a start that could see them all they are all there.               *)
(***************************************************************************)
LEMMA LeastExists ==
    ASSUME NEW T \in SUBSET Nat, T # {}
    PROVE  \E m \in T : \A k \in T : m <= k
<1> DEFINE R == {ss \in Nat \X Nat : ss[1] < ss[2]}
<1>1. IsWellFoundedOn(R, Nat)
  BY NatLessThanWellFounded DEF OpToRel
<1>2. \E m \in T : \A k \in T : ~ (<<k, m>> \in R)
  <2> HIDE DEF R
  <2> QED
    BY <1>1, WFMin
<1>3. PICK m \in T : \A k \in T : ~ (<<k, m>> \in R)
  BY <1>2
<1>4. ASSUME NEW k \in T PROVE m <= k
  <2>1. <<k, m>> \notin R /\ <<k, m>> \in Nat \X Nat
    BY <1>3
  <2>2. ~(<<k, m>>[1] < <<k, m>>[2])
    BY <2>1
  <2> QED
    BY <2>1, <2>2
<1> QED
  BY <1>3, <1>4

LEMMA GreatestExists ==
  ASSUME NEW b \in Nat, NEW T \in SUBSET (0..b), T # {}
  PROVE  \E m \in T : \A k \in T : k <= m
<1> DEFINE below == {b - k : k \in T}
<1>1. below \in SUBSET Nat /\ below # {}
  <2>1. \A k \in T : b - k \in Nat
    OBVIOUS
  <2> QED
    BY <2>1
<1>2. PICK d \in below : \A e \in below : d <= e
  BY <1>1, LeastExists
<1>3. PICK m \in T : d = b - m
  OBVIOUS
<1>4. \A k \in T : b - m <= b - k
  BY <1>2, <1>3
<1> QED
  BY <1>4

LEMMA MaxIs ==
  ASSUME NEW b \in Nat, NEW T \in SUBSET (0..b), T # {}
  PROVE  Max(T) \in T /\ \A k \in T : k <= Max(T)
<1>1. \E m \in T : \A k \in T : m >= k
  BY GreatestExists
<1> QED
  BY <1>1 DEF Max

(***************************************************************************)
(* The i-th of a finite set of numbers in their order: every element is    *)
(* one, and no two are the same.  Ranks are counted from 0.                *)
(***************************************************************************)
LEMMA NthIs ==
  ASSUME NEW names \in SUBSET Nat, IsFiniteSet(names)
  PROVE  /\ \A i \in 1..Cardinality(names) : nth(names, i) \in names
         /\ \A i, j \in 1..Cardinality(names) :
               nth(names, i) = nth(names, j) => i = j
         /\ \A n \in names : \E i \in 1..Cardinality(names) : nth(names, i) = n
<1> DEFINE lower(n) == {m \in names : m < n}
           rank == [n \in names |-> Cardinality(lower(n))]
<1>1. PICK size \in Nat : size = Cardinality(names)
  BY FS_CardinalityType
<1>2. ASSUME NEW n \in names
      PROVE  IsFiniteSet(lower(n)) /\ rank[n] \in 0..(size - 1)
  <2>1. lower(n) \in SUBSET (names \ {n})
    OBVIOUS
  <2>2. IsFiniteSet(names \ {n}) /\ Cardinality(names \ {n}) = size - 1
    BY <1>1, FS_RemoveElement
  <2>3. IsFiniteSet(lower(n)) /\ Cardinality(lower(n)) <= size - 1
    BY <2>1, <2>2, FS_Subset
  <2>4. Cardinality(lower(n)) \in Nat
    BY <2>3, FS_CardinalityType
  <2> QED
    BY <1>1, <2>3, <2>4
<1>3. ASSUME NEW n \in names, NEW m \in names, n < m
      PROVE  rank[n] < rank[m]
  <2>1. lower(n) \in SUBSET lower(m) /\ n \in lower(m) /\ n \notin lower(n)
    <3>1. n \in Nat /\ m \in Nat
      OBVIOUS
    <3>2. \A k \in names : k < n => k < m
      BY <1>3, <3>1
    <3>3. lower(n) \subseteq lower(m)
      BY <3>2
    <3>4. n \in lower(m)
      BY <1>3
    <3>5. ~(n < n)
      BY <3>1
    <3> QED
      BY <3>3, <3>4, <3>5
  <2>2. /\ IsFiniteSet(lower(m)) /\ Cardinality(lower(n)) <= Cardinality(lower(m))
        /\ Cardinality(lower(n)) = Cardinality(lower(m)) => lower(n) = lower(m)
    BY <1>2, <2>1, FS_Subset
  <2>3. Cardinality(lower(n)) # Cardinality(lower(m))
    BY <2>1, <2>2
  <2> QED
    BY <1>1, <1>2, <2>2, <2>3
<1>4. rank \in [names -> 0..(size - 1)]
  BY <1>2
<1> HIDE DEF rank
<1>5. \A n, m \in names : rank[n] = rank[m] => n = m
  <2> SUFFICES ASSUME NEW n \in names, NEW m \in names, rank[n] = rank[m]
               PROVE  n = m
    OBVIOUS
  <2>1. rank[n] \in Nat /\ rank[m] \in Nat /\ n \in Nat /\ m \in Nat
    BY <1>1, <1>4
  <2>2. n < m \/ m < n \/ n = m
    BY <2>1
  <2> QED
    BY <1>3, <2>1, <2>2
<1>6. rank \in Injection(names, 0..(size - 1))
  BY <1>4, <1>5 DEF Injection, IsInjective
<1>7. IsFiniteSet(0..(size - 1)) /\ Cardinality(0..(size - 1)) = size
  <2>1. PICK last \in Int : last = size - 1
    BY <1>1
  <2> QED
    BY <1>1, <2>1, FS_Interval
<1>8. rank \in Surjection(names, 0..(size - 1))
  BY <1>1, <1>6, <1>7, FS_Injection
<1>9. \A n \in names : rank[n] = Cardinality({m \in names : m < n})
  BY DEF rank
<1>10. ASSUME NEW i \in 1..size
       PROVE  nth(names, i) \in names /\ rank[nth(names, i)] = i - 1
  <2>1. i - 1 \in 0..(size - 1)
    BY <1>1
  <2>2. \E n \in names : rank[n] = i - 1
    BY <1>8, <2>1 DEF Surjection
  <2>3. \E n \in names : Cardinality({m \in names : m < n}) = i - 1
    BY <1>9, <2>2
  <2>4. nth(names, i) \in names /\ Cardinality({m \in names : m < nth(names, i)}) = i - 1
    BY <2>3 DEF nth
  <2> QED
    BY <1>9, <2>4
<1>11. ASSUME NEW n \in names PROVE \E i \in 1..size : nth(names, i) = n
  <2>1. rank[n] \in 0..(size - 1)
    BY <1>4
  <2>2. PICK i \in 1..size : i = rank[n] + 1
    BY <1>1, <2>1
  <2>3. nth(names, i) \in names /\ rank[nth(names, i)] = rank[n]
    BY <1>1, <1>10, <2>1, <2>2
  <2> QED
    BY <1>5, <2>3
<1>12. ASSUME NEW i \in 1..size, NEW j \in 1..size, nth(names, i) = nth(names, j)
       PROVE  i = j
  <2>1. i - 1 = j - 1
    BY <1>10, <1>12
  <2> QED
    BY <1>1, <2>1
<1> QED
  BY <1>1, <1>10, <1>11, <1>12

-----------------------------------------------------------------------------
\* The versions in memory are a sequence of versions, and the files too.
versionsTyped(list, files) ==
    /\ list \in Seq(Version)
    /\ files = [n \in DOMAIN files |-> files[n]]
    /\ DOMAIN files \subseteq 1..NaN
    /\ \A n \in DOMAIN files : files[n] \in Version

KeptInv ==
    /\ DOMAIN versionFiles \subseteq 1..taken
    /\ \A n \in DOMAIN versionFiles : versionFiles[n] # CutShort => versionFiles[n].id = n
    /\ \A i \in 1..Len(versions) : versions[i].id \in 1..taken
    /\ \A i, j \in 1..Len(versions) : versions[i].id = versions[j].id => i = j
    /\ \A v \in recorded :
          /\ v.id \in DOMAIN versionFiles /\ versionFiles[v.id] = v
          /\ \E i \in 1..Len(versions) : v.id <= versions[i].id

HistoryInv ==
    /\ HistoryTypeOK
    /\ versionsTyped(versions, versionFiles)
    /\ ~misled => KeptInv

LEMMA VersionIs ==
  ASSUME NEW v \in Version
  PROVE  v.id \in 0..NaN /\ v.snap \in 0..MaxRecorded
  BY DEF Version

LEMMA CutShortTyped == CutShort \in Version /\ NaN \in Nat /\ NaN = MaxRecorded + 1
<1>1. NaN \in Nat /\ NaN = MaxRecorded + 1
  BY HistoryAssumption DEF NaN
<1>2. 0 \in 0..NaN /\ 0 \in 0..MaxRecorded
  BY <1>1, HistoryAssumption
<1> QED
  BY <1>1, <1>2 DEF CutShort, Version

LEMMA InitHistory == HistoryInit => HistoryInv
<1> SUFFICES ASSUME HistoryInit PROVE HistoryInv
  OBVIOUS
<1>1. versions = <<>> /\ versionFiles = [n \in {} |-> CutShort] /\ recorded = {}
  BY DEF HistoryInit
<1>2. HistoryTypeOK
  <2>1. versions \in Seq(Version) /\ DOMAIN versionFiles = {}
    BY <1>1
  <2>2. taken \in 0..MaxRecorded
    BY HistoryAssumption DEF HistoryInit
  <2> QED
    BY <1>1, <2>1, <2>2 DEF HistoryInit, HistoryTypeOK
<1>3. versionsTyped(versions, versionFiles)
  BY <1>1 DEF versionsTyped
<1>4. KeptInv
  BY <1>1 DEF KeptInv
<1> QED
  BY <1>2, <1>3, <1>4 DEF HistoryInv

(***************************************************************************)
(* The next number is above every number known, and at most one above the  *)
(* greatest; it is none when one of them is none.                          *)
(***************************************************************************)
LEMMA NextIdIs ==
  ASSUME HistoryTypeOK
  PROVE  /\ nextId \in 1..NaN
         /\ \A b \in Nat : b < NaN /\ ids \subseteq 0..b =>
               nextId <= b + 1 /\ \A x \in ids : x < nextId
<1>1. versions \in Seq(Version) /\ DOMAIN versions = 1..Len(versions)
  BY DEF HistoryTypeOK
<1>2. ids \subseteq 0..NaN
  BY <1>1, VersionIs DEF ids
<1>3. versions # <<>> => ids # {}
  <2> SUFFICES ASSUME versions # <<>> PROVE ids # {}
    OBVIOUS
  <2>1. 1 \in DOMAIN versions
    BY <1>1
  <2> QED
    BY <2>1 DEF ids
<1>4. versions = <<>> => ids = {} /\ nextId = 1
  BY DEF ids, nextId
<1>5. NaN \in ids => nextId = NaN
  <2> SUFFICES ASSUME NaN \in ids PROVE nextId = NaN
    OBVIOUS
  <2>1. versions # <<>>
    BY <1>4
  <2> QED
    BY <2>1 DEF nextId
<1>6. ASSUME versions # <<>>, NaN \notin ids
      PROVE  nextId = Max(ids) + 1
  BY <1>6 DEF nextId
<1>7. ASSUME NEW b \in Nat, b < NaN, ids \subseteq 0..b
      PROVE  nextId \in 1..(b + 1) /\ \A x \in ids : x < nextId
  <2>1. CASE versions = <<>>
    BY <1>4, <2>1
  <2>2. CASE versions # <<>>
    <3>1. NaN \notin ids
      BY <1>7, CutShortTyped
    <3>2. Max(ids) \in ids /\ \A x \in ids : x <= Max(ids)
      BY <1>3, <1>7, <2>2, MaxIs
    <3>3. PICK greatest \in 0..b : greatest = Max(ids)
      BY <1>7, <3>2
    <3>4. nextId = greatest + 1
      BY <1>6, <2>2, <3>1, <3>3
    <3>5. \A x \in ids : x <= greatest /\ x \in Nat
      BY <1>7, <3>2, <3>3
    <3> QED
      BY <3>4, <3>5
  <2> QED
    BY <2>1, <2>2
<1>8. nextId \in 1..NaN
  <2>1. NaN \in 1..NaN
    BY CutShortTyped, HistoryAssumption
  <2>2. CASE NaN \in ids
    BY <1>5, <2>1, <2>2
  <2>3. CASE NaN \notin ids
    <3>1. ids \subseteq 0..MaxRecorded
      BY <1>2, <2>3, CutShortTyped, HistoryAssumption
    <3>2. nextId \in 1..(MaxRecorded + 1)
      BY <1>7, <3>1, CutShortTyped, HistoryAssumption
    <3> QED
      BY <3>2, CutShortTyped
  <2> QED
    BY <2>2, <2>3
<1> QED
  BY <1>7, <1>8

\* What put leaves in the directory.
LEMMA PutIs ==
  ASSUME NEW name, NEW version, put(name, version)
  PROVE  /\ versionFiles' = [n \in DOMAIN versionFiles' |-> versionFiles'[n]]
         /\ DOMAIN versionFiles' = DOMAIN versionFiles \cup {name}
         /\ versionFiles'[name] = version
         /\ \A n \in DOMAIN versionFiles : n # name => versionFiles'[n] = versionFiles[n]
  BY DEF put

\* The list with a version added, the oldest dropped when it is too long.
LEMMA AddedIs ==
  ASSUME NEW list \in Seq(Version), NEW v \in Version, NEW all, NEW added,
         all = Append(list, v),
         added = IF Len(all) > MaxVersions THEN Tail(all) ELSE all
  PROVE  /\ added \in Seq(Version) /\ Len(added) > 0 /\ added[Len(added)] = v
         /\ \E d \in {0, 1} : /\ Len(added) = Len(list) + 1 - d
                              /\ \A i \in 1..(Len(added) - 1) : /\ added[i] = list[i + d]
                                                                /\ i + d \in 1..Len(list)
<1>1. PICK n \in Nat : n = Len(list)
  BY LenProperties
<1>2. /\ all \in Seq(Version) /\ Len(all) = n + 1 /\ all[n + 1] = v
      /\ \A i \in 1..n : all[i] = list[i]
  BY <1>1, AppendProperties
<1>3. CASE n + 1 > MaxVersions
  <2>1. added = Tail(all)
    BY <1>2, <1>3
  <2>2. /\ added \in Seq(Version) /\ Len(added) = n
        /\ \A i \in 1..n : added[i] = all[i + 1]
    BY <1>2, <2>1, HeadTailProperties
  <2>3. n > 0
    BY <1>3, HistoryAssumption
  <2>4. added[n] = v
    BY <1>2, <2>2, <2>3
  <2>5. \A i \in 1..(n - 1) : i \in 1..n /\ i + 1 \in 1..n
    OBVIOUS
  <2>6. \A i \in 1..(n - 1) : added[i] = list[i + 1]
    BY <1>2, <2>2, <2>5
  <2>7. /\ Len(added) = Len(list) + 1 - 1
        /\ \A i \in 1..(Len(added) - 1) : /\ added[i] = list[i + 1]
                                         /\ i + 1 \in 1..Len(list)
    BY <1>1, <2>2, <2>5, <2>6
  <2> QED
    BY <2>2, <2>3, <2>4, <2>7
<1>4. CASE ~(n + 1 > MaxVersions)
  <2>1. added = all
    BY <1>2, <1>4
  <2>2. n = n + 1 - 1 /\ n + 1 > 0
    OBVIOUS
  <2> QED
    BY <1>1, <1>2, <2>1, <2>2
<1> QED
  BY <1>3, <1>4

LEMMA SnapshotTyped ==
  ASSUME HistoryInv, snapshot
  PROVE  HistoryTypeOK' /\ versionsTyped(versions', versionFiles')
<1>1. PICK v : v = [id |-> nextId, snap |-> taken + 1]
  OBVIOUS
<1>2. nextId \in 1..NaN /\ taken \in 0..MaxRecorded /\ taken < MaxRecorded /\ taken' = taken + 1
  BY NextIdIs DEF HistoryInv, HistoryTypeOK, snapshot
<1>3. taken' \in 0..MaxRecorded
  BY <1>2, HistoryAssumption
<1>4. v \in Version /\ v.id \in 1..NaN
  <2>1. nextId \in 0..NaN
    BY <1>2, CutShortTyped
  <2> QED
    BY <1>1, <1>2, <1>3, <2>1 DEF Version
<1>5. versions' \in Seq(Version)
  BY <1>1, <1>4, AddedIs DEF snapshot, HistoryInv, HistoryTypeOK
<1>6. persistVersion(v)
  BY <1>1 DEF snapshot
<1>7. PICK written : written = [v EXCEPT !.id = IF @ = NaN THEN 0 ELSE @]
  OBVIOUS
<1>8. written \in Version
  BY <1>4, <1>7, CutShortTyped DEF Version
<1>9. \/ put(v.id, written) /\ recorded' = recorded \cup {v}
      \/ UNCHANGED <<versionFiles, recorded>>
      \/ put(v.id, CutShort) /\ recorded' = {r \in recorded : r.id # v.id}
  BY <1>6, <1>7 DEF persistVersion
<1>10. recorded' \subseteq Version
  BY <1>4, <1>9 DEF HistoryInv, HistoryTypeOK
<1>11. /\ versionFiles' = [n \in DOMAIN versionFiles' |-> versionFiles'[n]]
       /\ DOMAIN versionFiles' \subseteq 1..NaN
       /\ \A n \in DOMAIN versionFiles' : versionFiles'[n] \in Version
  <2>1. CASE UNCHANGED versionFiles
    BY <2>1 DEF HistoryInv, versionsTyped
  <2>2. ASSUME NEW file0 \in Version, put(v.id, file0)
        PROVE  /\ versionFiles' = [n \in DOMAIN versionFiles' |-> versionFiles'[n]]
               /\ DOMAIN versionFiles' \subseteq 1..NaN
               /\ \A n \in DOMAIN versionFiles' : versionFiles'[n] \in Version
    <3>1. PICK name : name = v.id
      OBVIOUS
    <3>2. /\ versionFiles' = [n \in DOMAIN versionFiles' |-> versionFiles'[n]]
          /\ DOMAIN versionFiles' = DOMAIN versionFiles \cup {name}
          /\ versionFiles'[name] = file0
          /\ \A n \in DOMAIN versionFiles : n # name => versionFiles'[n] = versionFiles[n]
      BY <2>2, <3>1, PutIs
    <3> QED
      BY <1>4, <3>1, <3>2 DEF HistoryInv, versionsTyped
  <2> QED
    BY <1>8, <1>9, <2>1, <2>2, CutShortTyped
<1> QED
  BY <1>3, <1>5, <1>10, <1>11 DEF snapshot, HistoryInv, HistoryTypeOK, versionsTyped

LEMMA SnapshotKeeps ==
  ASSUME HistoryInv, snapshot, ~misled'
  PROVE  KeptInv'
<1>1. KeptInv /\ HistoryTypeOK /\ versions \in Seq(Version)
  BY DEF snapshot, HistoryInv, versionsTyped
<1>2. PICK before \in Nat : before = taken /\ before < MaxRecorded /\ taken' = before + 1
  BY HistoryAssumption DEF snapshot, HistoryInv, HistoryTypeOK
<1>3. PICK v : v = [id |-> nextId, snap |-> taken + 1]
  OBVIOUS
<1>4. ids \subseteq 0..before
  BY <1>1, <1>2 DEF ids, KeptInv
<1>5. v.id = nextId /\ v.id \in 1..(before + 1) /\ \A x \in ids : x < v.id
  <2>1. before < NaN
    BY <1>2, CutShortTyped, HistoryAssumption
  <2> QED
    BY <1>1, <1>2, <1>3, <1>4, <2>1, NextIdIs
<1>6. v \in Version /\ v.id # NaN
  <2>1. before + 1 < NaN
    BY <1>2, CutShortTyped, HistoryAssumption
  <2>2. v.id # NaN /\ v.id \in 0..NaN
    BY <1>5, <2>1, CutShortTyped
  <2>3. before + 1 \in 0..MaxRecorded
    BY <1>2, HistoryAssumption
  <2> QED
    BY <1>2, <1>3, <2>2, <2>3 DEF Version
<1>7. [v EXCEPT !.id = IF @ = NaN THEN 0 ELSE @] = v
  BY <1>3, <1>6
<1>8. \/ put(v.id, v) /\ recorded' = recorded \cup {v}
      \/ UNCHANGED <<versionFiles, recorded>>
      \/ put(v.id, CutShort) /\ recorded' = {r \in recorded : r.id # v.id}
  BY <1>3, <1>7 DEF snapshot, persistVersion
<1>9. PICK d \in {0, 1} :
         /\ versions' \in Seq(Version) /\ Len(versions') > 0
         /\ versions'[Len(versions')] = v
         /\ Len(versions') = Len(versions) + 1 - d
         /\ \A i \in 1..(Len(versions') - 1) :
               versions'[i] = versions[i + d] /\ i + d \in 1..Len(versions)
  <2>1. PICK list : list = versions
    OBVIOUS
  <2>2. PICK all, added : all = Append(list, v) /\ added = versions'
    OBVIOUS
  <2>3. added = IF Len(all) > MaxVersions THEN Tail(all) ELSE all
    BY <1>3, <2>1, <2>2 DEF snapshot
  <2>4. /\ added \in Seq(Version) /\ Len(added) > 0 /\ added[Len(added)] = v
        /\ \E d \in {0, 1} : /\ Len(added) = Len(list) + 1 - d
                             /\ \A i \in 1..(Len(added) - 1) : /\ added[i] = list[i + d]
                                                              /\ i + d \in 1..Len(list)
    <3>1. list \in Seq(Version)
      BY <1>1, <2>1
    <3> QED
      BY <1>6, <2>2, <2>3, <3>1, AddedIs
  <2> QED
    BY <2>1, <2>2, <2>4
<1>10. PICK n \in Nat : n = Len(versions') /\ n > 0
  BY <1>9, LenProperties
<1>11. \A i \in 1..Len(versions) : versions[i].id < v.id /\ versions[i].id \in 1..before
  BY <1>1, <1>2, <1>5 DEF ids, KeptInv
<1>12. \A i \in 1..(n - 1) : versions'[i].id < v.id /\ versions'[i].id \in 1..before
  BY <1>9, <1>10, <1>11
<1>13. \A i \in 1..n : i \in 1..(n - 1) \/ i = n
  BY <1>10
<1>14. \A i \in 1..n : versions'[i].id \in 1..taken' /\ versions'[i].id <= v.id
  <2> SUFFICES ASSUME NEW i \in 1..n
               PROVE  versions'[i].id \in 1..taken' /\ versions'[i].id <= v.id
    OBVIOUS
  <2>1. v.id \in 1..taken' /\ \A k \in 1..before : k \in 1..taken'
    BY <1>2, <1>5
  <2>2. CASE i \in 1..(n - 1)
    BY <1>12, <2>1, <2>2
  <2>3. CASE i = n
    <3>1. versions'[i] = v
      BY <1>9, <1>10, <2>3
    <3> QED
      BY <2>1, <3>1
  <2> QED
    BY <1>13, <2>2, <2>3
<1>15. ASSUME NEW i \in 1..n, NEW j \in 1..n, versions'[i].id = versions'[j].id
       PROVE  i = j
  <2>1. CASE i = n /\ j = n
    BY <2>1
  <2>2. CASE i # n /\ j # n
    <3>1. i \in 1..(n - 1) /\ j \in 1..(n - 1)
      BY <1>13, <2>2
    <3>2. /\ i + d \in 1..Len(versions) /\ j + d \in 1..Len(versions)
          /\ versions[i + d].id = versions[j + d].id
      BY <1>9, <1>10, <1>15, <3>1
    <3>3. i + d = j + d
      BY <1>1, <3>2 DEF KeptInv
    <3> QED
      BY <3>3
  <2>3. CASE i = n /\ j # n
    <3>1. versions'[j].id < v.id /\ versions'[j].id \in 1..before
      BY <1>12, <1>13, <2>3
    <3>2. versions'[i].id = v.id
      BY <1>9, <1>10, <2>3
    <3> QED
      BY <1>15, <3>1, <3>2
  <2>4. CASE i # n /\ j = n
    <3>1. versions'[i].id < v.id /\ versions'[i].id \in 1..before
      BY <1>12, <1>13, <2>4
    <3>2. versions'[j].id = v.id
      BY <1>9, <1>10, <2>4
    <3> QED
      BY <1>15, <3>1, <3>2
  <2> QED
    BY <2>1, <2>2, <2>3, <2>4
<1>16. \A r \in recorded : r.id < v.id /\ r.id \in DOMAIN versionFiles /\ versionFiles[r.id] = r
  <2> SUFFICES ASSUME NEW r \in recorded
               PROVE  r.id < v.id /\ r.id \in DOMAIN versionFiles /\ versionFiles[r.id] = r
    OBVIOUS
  <2>1. PICK i \in 1..Len(versions) : r.id <= versions[i].id
    BY <1>1 DEF KeptInv
  <2>2. r.id \in DOMAIN versionFiles /\ versionFiles[r.id] = r /\ r.id \in 1..before
    BY <1>1, <1>2 DEF KeptInv
  <2> QED
    BY <1>5, <1>11, <2>1, <2>2
<1>17. n \in 1..n /\ versions'[n] = v
  BY <1>9, <1>10
<1>18. PICK name : name = v.id
  OBVIOUS
<1>19. \/ UNCHANGED <<versionFiles, recorded>>
       \/ /\ DOMAIN versionFiles' = DOMAIN versionFiles \cup {name}
          /\ \A m \in DOMAIN versionFiles : m # name => versionFiles'[m] = versionFiles[m]
          /\ \/ versionFiles'[name] = v /\ recorded' = recorded \cup {v}
             \/ versionFiles'[name] = CutShort /\ recorded' = {r \in recorded : r.id # name}
  <2>1. ASSUME NEW written, put(name, written)
        PROVE  /\ DOMAIN versionFiles' = DOMAIN versionFiles \cup {name}
               /\ \A m \in DOMAIN versionFiles :
                     m # name => versionFiles'[m] = versionFiles[m]
               /\ versionFiles'[name] = written
    BY <2>1, PutIs
  <2> QED
    BY <1>8, <1>18, <2>1
<1>20. ASSUME NEW r \in recorded'
       PROVE  /\ r.id \in DOMAIN versionFiles' /\ versionFiles'[r.id] = r
              /\ \E i \in 1..n : r.id <= versions'[i].id
  <2>1. r = v \/ r \in recorded
    BY <1>8, <1>20
  <2>2. r.id \in DOMAIN versionFiles' /\ versionFiles'[r.id] = r
    <3>1. CASE r = v /\ r \notin recorded
      BY <1>20, <1>18, <1>19, <3>1
    <3>2. CASE r \in recorded
      <4>1. r.id # v.id
        BY <1>5, <1>16, <3>2
      <4> QED
        BY <1>16, <1>18, <1>19, <3>2, <4>1
    <3> QED
      BY <2>1, <3>1, <3>2
  <2>3. r.id <= v.id
    <3>1. CASE r = v
      BY <1>5, <3>1
    <3>2. CASE r \in recorded
      <4>1. r.id \in 1..before
        BY <1>1, <1>2, <3>2 DEF KeptInv
      <4> QED
        BY <1>5, <1>16, <3>2, <4>1
    <3> QED
      BY <2>1, <3>1, <3>2
  <2> QED
    BY <1>17, <2>2, <2>3
<1>21. DOMAIN versionFiles' \subseteq 1..taken'
  <2>1. DOMAIN versionFiles \subseteq 1..taken'
    BY <1>1, <1>2 DEF KeptInv
  <2>2. v.id \in 1..taken'
    BY <1>2, <1>5
  <2> QED
    BY <1>18, <1>19, <2>1, <2>2
<1>22. \A m \in DOMAIN versionFiles' : versionFiles'[m] # CutShort => versionFiles'[m].id = m
  BY <1>1, <1>18, <1>19 DEF KeptInv
<1> QED
  BY <1>10, <1>14, <1>15, <1>20, <1>21, <1>22 DEF KeptInv

LEMMA LoadKeeps ==
  ASSUME HistoryInv, loadHistory
  PROVE  HistoryInv'
<1>1. PICK names : names = readable
  OBVIOUS
<1>2. names \subseteq DOMAIN versionFiles /\ DOMAIN versionFiles \subseteq 1..NaN
  BY <1>1 DEF readable, HistoryInv, versionsTyped
<1>3. IsFiniteSet(names) /\ names \in SUBSET Nat
  <2>1. IsFiniteSet(1..NaN)
    BY CutShortTyped, FS_Interval
  <2>2. 1..NaN \subseteq Nat
    BY CutShortTyped
  <2> QED
    BY <1>2, <2>1, <2>2, FS_Subset
<1>4. PICK size \in Nat : size = Cardinality(names)
  BY <1>3, FS_CardinalityType
<1>5. PICK found : found = inOrder(names)
  OBVIOUS
<1>6. found = [i \in 1..size |-> versionFiles[nth(names, i)]]
  BY <1>4, <1>5 DEF inOrder
<1>7. \A i \in 1..size : found[i] = versionFiles[nth(names, i)] /\ nth(names, i) \in names
  BY <1>3, <1>4, <1>6, NthIs
<1>8. found \in Seq(Version) /\ Len(found) = size
  <2>1. \A i \in 1..size : found[i] \in Version
    BY <1>2, <1>7 DEF HistoryInv, versionsTyped
  <2>2. found \in [1..size -> Version]
    BY <1>6, <2>1
  <2> QED
    BY <2>2
<1>9. foreignVersion \in Seq(Version)
  <2>1. NaN \in 0..NaN /\ 0 \in 0..MaxRecorded
    BY CutShortTyped, HistoryAssumption
  <2>2. [id |-> NaN, snap |-> 0] \in Version
    BY <2>1 DEF Version
  <2> QED
    BY <2>2 DEF foreignVersion
<1>10. versions' \in Seq(Version)
  <2>1. /\ foreignVersion \o found \in Seq(Version)
        /\ found \o foreignVersion \in Seq(Version)
        /\ found \o <<>> \in Seq(Version)
        /\ <<>> \in Seq(Version)
    BY <1>8, <1>9, ConcatProperties
  <2>2. versions' \in {found, foreignVersion \o found, found \o foreignVersion,
                       found \o <<>>, <<>>}
    BY <1>1, <1>5 DEF loadHistory
  <2> QED
    BY <1>8, <2>1, <2>2
<1>11. HistoryTypeOK' /\ versionsTyped(versions', versionFiles')
  BY <1>10 DEF loadHistory, HistoryInv, HistoryTypeOK, versionsTyped
<1>12. ASSUME ~misled' PROVE KeptInv'
  <2>1. /\ ~misled /\ foreignFiles = "none"
        /\ \A v \in recorded : v.id \in names
    BY <1>1, <1>12 DEF loadHistory
  <2>2. KeptInv
    BY <2>1 DEF HistoryInv
  <2>3. versions' = found /\ UNCHANGED <<versionFiles, taken, recorded>>
    BY <1>1, <1>5, <2>1 DEF loadHistory
  <2>4. ASSUME NEW n \in names PROVE versionFiles[n] # CutShort
    <3>1. n \in Nat
      BY <1>3
    <3>2. versionFiles[n] = CutShort => n < n
      BY <1>1 DEF readable
    <3> QED
      BY <3>1, <3>2
  <2>5. \A i \in 1..size : found[i].id = nth(names, i)
    BY <1>2, <1>7, <2>2, <2>4 DEF KeptInv
  <2>6. \A i \in 1..size : found[i].id \in 1..taken
    BY <1>2, <1>7, <2>2, <2>5 DEF KeptInv
  <2>7. \A i, j \in 1..size : found[i].id = found[j].id => i = j
    BY <1>3, <1>4, <2>5, NthIs
  <2>8. ASSUME NEW v \in recorded PROVE \E i \in 1..size : v.id <= found[i].id
    <3>1. PICK i \in 1..size : nth(names, i) = v.id
      BY <1>3, <1>4, <2>1, NthIs
    <3>2. v.id \in Nat
      BY <1>3, <2>1
    <3>3. v.id <= v.id
      BY <3>2
    <3> QED
      BY <2>5, <3>1, <3>3
  <2> QED
    BY <1>8, <2>2, <2>3, <2>6, <2>7, <2>8 DEF KeptInv
<1> QED
  BY <1>11, <1>12 DEF HistoryInv

LEMMA NextHistory == HistoryInv /\ [HistoryNext]_historyVars => HistoryInv'
<1> SUFFICES ASSUME HistoryInv, [HistoryNext]_historyVars PROVE HistoryInv'
  OBVIOUS
<1>1. CASE snapshot
  BY <1>1, SnapshotTyped, SnapshotKeeps DEF HistoryInv
<1>2. CASE ForeignSave
  BY <1>2 DEF ForeignSave, HistoryInv, HistoryTypeOK, KeptInv
<1>3. CASE UNCHANGED historyVars
  BY <1>3 DEF historyVars, HistoryInv, HistoryTypeOK, KeptInv
<1> QED
  BY <1>1, <1>2, <1>3, LoadKeeps DEF HistoryNext

(***************************************************************************)
(* A version recorded keeps its file and its number, through any number of *)
(* snapshots, failed writes and restarts that no other file misled.        *)
(***************************************************************************)
THEOREM RecordedVersionsStay ==
  HistoryInit /\ [][HistoryNext]_historyVars => []VersionsKept
<1>1. HistoryInv => VersionsKept
  BY DEF HistoryInv, HistoryTypeOK, KeptInv, VersionsKept
<1> QED
  BY <1>1, InitHistory, NextHistory, PTL

-----------------------------------------------------------------------------
(***************************************************************************)
(* MCConfig: whichever component takes its step, the others take none.     *)
(***************************************************************************)
LEMMA EachTakesItsSteps ==
  ASSUME [OneAtATime]_mcVars
  PROVE  /\ [JsonNext]_jsonVars
         /\ [EngineNext]_engineVars
         /\ [VersioningNext]_versioningVars
         /\ [HistoryNext]_historyVars
         /\ [ContextNext]_contextVars
         /\ [OrgNext]_orgVars
         /\ [EnvNext]_envVars
         /\ [ComplianceNext]_complianceVars
         /\ [FormNext]_formVars
         /\ [DocumentNext]_documentVars
  BY DEF OneAtATime, Only, mcVars

(***************************************************************************)
(* The index lists what memory does and a numbered version keeps its file, *)
(* and the configuration files and the history of contexts follow memory   *)
(* too, for every value of the constants the run fixes.                    *)
(***************************************************************************)
THEOREM ConfigFollows ==
  MCSpec => /\ []VersionsOnDisk
            /\ []ConfigOnDisk
            /\ []SwitchesChain
            /\ VerdictsFollowTemplates
<1>1. AllInit => /\ EngineInit /\ VersioningInit /\ HistoryInit /\ ContextInit
                 /\ OrgInit
  BY DEF AllInit
<1>2. MCSpec => /\ EngineSpec
                /\ VersioningInit /\ [][VersioningNext]_versioningVars
                /\ HistoryInit /\ [][HistoryNext]_historyVars
                /\ ContextInit /\ [][ContextNext]_contextVars
                /\ OrgInit /\ [][OrgNext]_orgVars
  BY <1>1, EachTakesItsSteps, PTL DEF MCSpec, EngineSpec
<1>3. IndexOnDisk /\ VersionsKept => VersionsOnDisk
  BY DEF VersionsOnDisk
<1> QED
  BY <1>2, <1>3, EngineFollows, IndexFollows, RecordedVersionsStay, SwitchesStayChained,
     VerdictsFollow, PTL

-----------------------------------------------------------------------------
(***************************************************************************)
(* The team policies. What a document holds is typed with the lists of its *)
(* identifiers, which an edit only adds to and a removal only shortens.    *)
(***************************************************************************)
\* One element of a list gone, the first that is equal to it.
LEMMA OneRemoved ==
    ASSUME NEW S, NEW seq \in Seq(S), NEW i \in 1..Len(seq)
    PROVE  RemoveAt(seq, i) \in Seq(S) /\ Len(RemoveAt(seq, i)) = Len(seq) - 1
<1>1. PICK n \in Nat : n = Len(seq) /\ DOMAIN seq = 1..n
  BY LenProperties
<1> DEFINE front == SubSeq(seq, 1, i - 1)
           back == SubSeq(seq, i + 1, n)
<1>2. i \in 1..n
  BY <1>1
<1>3. front \in Seq(S) /\ Len(front) = i - 1
  <2>1. \A j \in 1..(i - 1) : seq[j] \in S
    BY <1>1, <1>2, ElementOfSeq
  <2>2. 1 \in Int /\ i - 1 \in Int /\ i - 1 - 1 + 1 = i - 1
    BY <1>2
  <2>3. front \in Seq(S) /\ Len(front) = IF 1 <= i - 1 THEN i - 1 - 1 + 1 ELSE 0
    BY <2>1, <2>2, SubSeqProperties
  <2> QED
    BY <1>2, <2>3
<1>4. back \in Seq(S) /\ Len(back) = n - i
  <2>1. \A j \in (i + 1)..n : seq[j] \in S
    BY <1>1, <1>2, ElementOfSeq
  <2>2. i + 1 \in Int /\ n \in Int
    BY <1>2
  <2>3. back \in Seq(S) /\ Len(back) = IF i + 1 <= n THEN n - (i + 1) + 1 ELSE 0
    BY <2>1, <2>2, SubSeqProperties
  <2> QED
    BY <1>2, <2>3
<1>5. RemoveAt(seq, i) = front \o back
  BY <1>1 DEF RemoveAt
<1> HIDE DEF front, back
<1>6. front \o back \in Seq(S) /\ Len(front \o back) = Len(front) + Len(back)
  BY <1>3, <1>4, ConcatProperties
<1> QED
  BY <1>1, <1>2, <1>3, <1>4, <1>5, <1>6

LEMMA FirstIsAPlace ==
    ASSUME NEW n \in Nat, NEW seq, NEW e, \E i \in 1..n : seq[i] = e
    PROVE  Min({i \in 1..n : seq[i] = e}) \in 1..n
<1> DEFINE Places == {i \in 1..n : seq[i] = e}
<1>1. Places \in SUBSET Nat /\ Places # {}
  OBVIOUS
<1>2. Places \subseteq 1..n
  OBVIOUS
<1> HIDE DEF Places
<1>3. PICK first \in Places : \A j \in Places : first <= j
  BY <1>1, LeastExists
<1>4. Min(Places) \in Places
  BY <1>3 DEF Min
<1> QED
  BY <1>2, <1>4 DEF Places

LEMMA FirstRemovedTyped ==
    ASSUME NEW S, NEW seq \in Seq(S), NEW e
    PROVE  RemoveFirst(seq, e) \in Seq(S) /\ Len(RemoveFirst(seq, e)) <= Len(seq)
<1>1. PICK n \in Nat : n = Len(seq) /\ DOMAIN seq = 1..n
  BY LenProperties
<1>2. CASE ~\E i \in 1..n : seq[i] = e
  BY <1>1, <1>2 DEF RemoveFirst
<1>3. CASE \E i \in 1..n : seq[i] = e
  <2>1. PICK i \in 1..n : i = Min({j \in 1..n : seq[j] = e})
    BY <1>3, FirstIsAPlace
  <2>2. RemoveFirst(seq, e) = RemoveAt(seq, i)
    BY <1>1, <1>3, <2>1 DEF RemoveFirst, SelectInSeq
  <2>3. RemoveAt(seq, i) \in Seq(S) /\ Len(RemoveAt(seq, i)) = n - 1
    BY <1>1, OneRemoved
  <2> QED
    BY <1>1, <2>2, <2>3
<1> QED
  BY <1>2, <1>3

-----------------------------------------------------------------------------
\* Lists of active policies, and stores of policies.
LEMMA IdListsAre ==
    ASSUME NEW list
    PROVE  list \in IdLists <=> list \in Seq(Ids) /\ Len(list) <= MaxActive
<1>1. ASSUME list \in IdLists PROVE list \in Seq(Ids) /\ Len(list) <= MaxActive
  <2>1. PICK m \in 0..MaxActive : list \in [1..m -> Ids]
    BY <1>1 DEF IdLists, BoundedSeq, SeqOf
  <2>2. m \in Nat /\ m <= MaxActive
    BY EditsAssumption
  <2>3. list \in Seq(Ids) /\ Len(list) = m
    BY <2>1, <2>2
  <2> QED
    BY <2>2, <2>3
<1>2. ASSUME list \in Seq(Ids), Len(list) <= MaxActive PROVE list \in IdLists
  <2>1. Len(list) \in 0..MaxActive /\ list \in [1..Len(list) -> Ids]
    BY <1>2, EditsAssumption, LenProperties, SeqDef
  <2> QED
    BY <2>1 DEF IdLists, BoundedSeq, SeqOf
<1> QED
  BY <1>1, <1>2

\* Every edit raises a version by one at most.
PolicyBy(n) == [rule : Rules, version : 1..(n + 1)]

StoreBy(store, n) ==
    /\ store = [id \in DOMAIN store |-> store[id]]
    /\ DOMAIN store \subseteq Ids /\ \A id \in DOMAIN store : store[id] \in PolicyBy(n)

MembersOK(members) ==
    /\ members = [m \in DOMAIN members |-> members[m]]
    /\ DOMAIN members \subseteq Members /\ \A m \in DOMAIN members : members[m] \in Autonomy

OrgConfigOK(config) ==
    config = NoOrg \/
    /\ config = [activePolicies |-> config.activePolicies, members |-> config.members]
    /\ config.activePolicies \in Seq(Ids) /\ Len(config.activePolicies) <= MaxActive
    /\ MembersOK(config.members)

OrgInv ==
    /\ edits \in 0..MaxEdits
    /\ StoreBy(templates, edits) /\ StoreBy(policies, edits)
    /\ OrgConfigOK(orgConfig)

LEMMA OrgInvHolds == OrgInv => OrgTypeOK
<1> SUFFICES ASSUME OrgInv PROVE OrgTypeOK
  OBVIOUS
<1>1. PolicyBy(edits) \subseteq Policy
  <2>1. 1..(edits + 1) \subseteq 1..(MaxEdits + 1)
    BY EditsAssumption DEF OrgInv
  <2> QED
    BY <2>1 DEF PolicyBy, Policy
<1>2. Range(templates) \subseteq Policy /\ Range(policies) \subseteq Policy
  BY <1>1 DEF OrgInv, StoreBy, Range
<1>3. orgConfig = NoOrg \/ orgConfig \in Orgs
  <2>1. CASE orgConfig # NoOrg
    <3>1. /\ orgConfig = [activePolicies |-> orgConfig.activePolicies, members |-> orgConfig.members]
          /\ orgConfig.activePolicies \in IdLists
          /\ MembersOK(orgConfig.members)
      BY <2>1, IdListsAre DEF OrgInv, OrgConfigOK
    <3>2. orgConfig.members \in [DOMAIN orgConfig.members -> Autonomy]
          /\ DOMAIN orgConfig.members \in SUBSET Members
      BY <3>1 DEF MembersOK
    <3>3. orgConfig.members \in UNION {[M -> Autonomy] : M \in SUBSET Members}
      BY <3>2
    <3> QED
      BY <3>1, <3>3 DEF Orgs
  <2> QED
    BY <2>1
<1> QED
  BY <1>2, <1>3 DEF OrgInv, OrgTypeOK, StoreBy

LEMMA OrgStarts == OrgInit => OrgInv
<1> SUFFICES ASSUME OrgInit PROVE OrgInv
  OBVIOUS
<1>1. \A lv \in Autonomy, mandatory \in BOOLEAN : First(lv, mandatory) \in PolicyBy(0)
  BY DEF First, PolicyBy, Rules
<1>2. 1 \in Autonomy /\ 2 \in Autonomy /\ 3 \in Autonomy
  BY DEF Autonomy
<1>3. StoreBy(DEFAULT_TEMPLATES, 0)
  <2>1. \A id \in Ids \ {Own} : DEFAULT_TEMPLATES[id] \in PolicyBy(0)
    BY <1>1, <1>2 DEF DEFAULT_TEMPLATES
  <2>2. DOMAIN DEFAULT_TEMPLATES = Ids \ {Own}
        /\ DEFAULT_TEMPLATES = [id \in Ids \ {Own} |-> DEFAULT_TEMPLATES[id]]
    BY DEF DEFAULT_TEMPLATES
  <2> QED
    BY <2>1, <2>2 DEF StoreBy
<1> QED
  BY <1>3, EditsAssumption DEF OrgInit, OrgInv, OrgConfigOK

LEMMA StoreGrows ==
    ASSUME NEW store, NEW n \in Nat, StoreBy(store, n)
    PROVE  StoreBy(store, n + 1)
<1>1. PolicyBy(n) \subseteq PolicyBy(n + 1)
  BY DEF PolicyBy
<1> QED
  BY <1>1 DEF StoreBy

LEMMA StoreWith ==
    ASSUME NEW store, NEW n \in Nat, StoreBy(store, n), NEW id \in Ids,
           NEW rule \in Rules, NEW version \in 1..(n + 1)
    PROVE  StoreBy(With(store, id, [rule |-> rule, version |-> version]), n)
<1>1. [rule |-> rule, version |-> version] \in PolicyBy(n)
  BY DEF PolicyBy
<1> QED
  BY <1>1 DEF StoreBy, With

LEMMA EditKeepsInv ==
    ASSUME OrgInv, NEW id \in EditedIds, edits < MaxEdits,
           \/ deletePolicy(id)
           \/ \E rule \in EditedRules :
                \/ createPolicy(id, rule)
                \/ \E byName \in BOOLEAN : updatePolicy(id, byName, rule)
                \/ addTemplate(id, rule)
    PROVE  OrgInv'
<1>1. /\ edits \in Nat /\ edits + 1 \in Nat /\ edits + 1 \in 0..MaxEdits /\ id \in Ids
      /\ 1 \in 1..(edits + 1 + 1)
      /\ StoreBy(templates, edits + 1) /\ StoreBy(policies, edits + 1)
  BY EditsAssumption, StoreGrows DEF OrgInv
<1>2. \A store : StoreBy(store, edits) =>
         \A i \in DOMAIN store : store[i].version + 1 \in 1..(edits + 1 + 1)
  BY <1>1 DEF StoreBy, PolicyBy
<1>3. CASE deletePolicy(id)
  <2>1. StoreBy(Restrict(policies, DOMAIN policies \ {id}), edits + 1)
    BY <1>1 DEF StoreBy, Restrict
  <2> QED
    BY <1>1, <1>3, <2>1 DEF deletePolicy, OrgInv
<1>4. ASSUME NEW rule \in EditedRules,
             \/ createPolicy(id, rule)
             \/ \E byName \in BOOLEAN : updatePolicy(id, byName, rule)
             \/ addTemplate(id, rule)
      PROVE  OrgInv'
  <2>1. rule \in Rules
    BY EditsAssumption
  <2>2. \A store, version :
           StoreBy(store, edits + 1) /\ version \in 1..(edits + 1 + 1) =>
              StoreBy(With(store, id, [rule |-> rule, version |-> version]), edits + 1)
    BY <1>1, <2>1, StoreWith
  <2>3. CASE createPolicy(id, rule)
    BY <1>1, <2>2, <2>3 DEF createPolicy, OrgInv
  <2>4. ASSUME NEW byName \in BOOLEAN, updatePolicy(id, byName, rule) PROVE OrgInv'
    <3> DEFINE store == IF byName THEN templates ELSE policies
    <3>1. StoreBy(store, edits)
      BY DEF OrgInv
    <3>2. /\ id \in DOMAIN store
          /\ policies' = With(policies, id, [rule |-> rule, version |-> store[id].version + 1])
          /\ edits' = edits + 1 /\ UNCHANGED <<templates, orgConfig>>
      BY <2>4 DEF updatePolicy
    <3> HIDE DEF store
    <3>3. store[id].version + 1 \in 1..(edits + 1 + 1)
      BY <1>2, <3>1, <3>2
    <3>4. StoreBy(policies', edits + 1)
      BY <1>1, <2>2, <3>2, <3>3
    <3> QED
      BY <1>1, <3>2, <3>4 DEF OrgInv
  <2>5. CASE addTemplate(id, rule)
    <3> DEFINE version == IF id \in DOMAIN templates THEN templates[id].version + 1 ELSE 1
    <3>1. version \in 1..(edits + 1 + 1)
      BY <1>1, <1>2 DEF OrgInv
    <3>2. /\ templates' = With(templates, id, [rule |-> rule, version |-> version])
          /\ edits' = edits + 1 /\ UNCHANGED <<policies, orgConfig>>
      BY <2>5 DEF addTemplate
    <3> HIDE DEF version
    <3>3. StoreBy(templates', edits + 1)
      BY <1>1, <2>2, <3>1, <3>2
    <3> QED
      BY <1>1, <3>2, <3>3 DEF OrgInv
  <2> QED
    BY <1>4, <2>3, <2>4, <2>5
<1> QED
  BY <1>3, <1>4

LEMMA ConfigKeepsInv ==
    ASSUME OrgInv, UNCHANGED <<templates, policies, edits>>, OrgConfigOK(orgConfig')
    PROVE  OrgInv'
BY DEF OrgInv

LEMMA ActivatingKeepsInv ==
    ASSUME OrgInv, NEW id \in Ids, activatePolicy(id) \/ deactivatePolicy(id)
    PROVE  OrgInv'
<1> DEFINE list == orgConfig.activePolicies
<1>1. /\ orgConfig # NoOrg
      /\ orgConfig = [activePolicies |-> list, members |-> orgConfig.members]
      /\ list \in Seq(Ids) /\ Len(list) <= MaxActive /\ MembersOK(orgConfig.members)
      /\ UNCHANGED <<templates, policies, edits>>
  BY DEF activatePolicy, deactivatePolicy, OrgInv, OrgConfigOK
<1>2. \A longer : longer \in Seq(Ids) /\ Len(longer) <= MaxActive
                  /\ orgConfig' = [orgConfig EXCEPT !.activePolicies = longer] =>
                     OrgConfigOK(orgConfig')
  <2> SUFFICES ASSUME NEW longer, longer \in Seq(Ids), Len(longer) <= MaxActive,
                      orgConfig' = [orgConfig EXCEPT !.activePolicies = longer]
               PROVE  OrgConfigOK(orgConfig')
    OBVIOUS
  <2>1. orgConfig' = [activePolicies |-> longer, members |-> orgConfig.members]
    BY <1>1
  <2> QED
    BY <1>1, <2>1 DEF OrgConfigOK
<1>3. CASE activatePolicy(id)
  <2>1. Len(list) < MaxActive /\ orgConfig' = [orgConfig EXCEPT !.activePolicies = Append(list, id)]
    BY <1>3 DEF activatePolicy
  <2>2. Append(list, id) \in Seq(Ids) /\ Len(Append(list, id)) = Len(list) + 1 /\ Len(list) \in Nat
    BY <1>1, AppendProperties, LenProperties
  <2>3. Len(Append(list, id)) <= MaxActive
    BY <2>1, <2>2, EditsAssumption
  <2> QED
    BY <1>1, <1>2, <2>1, <2>2, <2>3, ConfigKeepsInv
<1>4. CASE deactivatePolicy(id)
  <2>1. orgConfig' = [orgConfig EXCEPT !.activePolicies = RemoveFirst(list, id)]
    BY <1>4 DEF deactivatePolicy
  <2>2. RemoveFirst(list, id) \in Seq(Ids) /\ Len(RemoveFirst(list, id)) <= Len(list)
        /\ Len(list) \in Nat /\ Len(RemoveFirst(list, id)) \in Nat
    BY <1>1, FirstRemovedTyped, LenProperties
  <2>3. Len(RemoveFirst(list, id)) <= MaxActive
    BY <1>1, <2>2, EditsAssumption
  <2> QED
    BY <1>1, <1>2, <2>1, <2>2, <2>3, ConfigKeepsInv
<1> QED
  BY <1>3, <1>4

LEMMA MemberKeepsInv ==
    ASSUME OrgInv, NEW m \in Members, NEW profile \in Autonomy,
           addMember(m, profile) \/ removeMember(m)
    PROVE  OrgInv'
<1> DEFINE members == orgConfig.members
<1>1. /\ orgConfig # NoOrg
      /\ orgConfig = [activePolicies |-> orgConfig.activePolicies, members |-> members]
      /\ orgConfig.activePolicies \in Seq(Ids) /\ Len(orgConfig.activePolicies) <= MaxActive
      /\ MembersOK(members)
      /\ UNCHANGED <<templates, policies, edits>>
  BY DEF addMember, removeMember, OrgInv, OrgConfigOK
<1>2. PICK others : MembersOK(others) /\ orgConfig' = [orgConfig EXCEPT !.members = others]
  <2>1. MembersOK(With(members, m, profile))
    BY <1>1 DEF MembersOK, With
  <2>2. MembersOK(Restrict(members, DOMAIN members \ {m}))
    BY <1>1 DEF MembersOK, Restrict
  <2> QED
    BY <2>1, <2>2 DEF addMember, removeMember
<1>3. orgConfig' = [activePolicies |-> orgConfig.activePolicies, members |-> others]
  BY <1>1, <1>2
<1>4. OrgConfigOK(orgConfig')
  BY <1>1, <1>2, <1>3 DEF OrgConfigOK
<1> QED
  BY <1>1, <1>4, ConfigKeepsInv

LEMMA OrgStepsKeepInv == OrgInv /\ [OrgNext]_orgVars => OrgInv'
<1> SUFFICES ASSUME OrgInv, [OrgNext]_orgVars PROVE OrgInv'
  OBVIOUS
<1>1. CASE UNCHANGED orgVars
  BY <1>1 DEF orgVars, OrgInv
<1>2. ASSUME NEW list \in IdLists, NEW m \in Members, NEW a \in Autonomy,
             setOrgConfig(list, [x \in {m} |-> a])
      PROVE  OrgInv'
  <2>1. MembersOK([x \in {m} |-> a])
    BY DEF MembersOK
  <2>2. list \in Seq(Ids) /\ Len(list) <= MaxActive
    BY IdListsAre
  <2>3. orgConfig' = [activePolicies |-> list, members |-> [x \in {m} |-> a]]
    BY <1>2 DEF setOrgConfig
  <2>4. OrgConfigOK(orgConfig')
    BY <2>1, <2>2, <2>3 DEF OrgConfigOK
  <2> QED
    BY <1>2, <2>4, ConfigKeepsInv DEF setOrgConfig
<1>3. ASSUME NEW id \in EditedIds, edits < MaxEdits,
             \/ deletePolicy(id)
             \/ \E rule \in EditedRules :
                  \/ createPolicy(id, rule)
                  \/ \E byName \in BOOLEAN : updatePolicy(id, byName, rule)
                  \/ addTemplate(id, rule)
      PROVE  OrgInv'
  BY <1>3, EditKeepsInv
<1>4. ASSUME NEW id \in Ids, activatePolicy(id) \/ deactivatePolicy(id) PROVE OrgInv'
  BY <1>4, ActivatingKeepsInv
<1>5. ASSUME NEW m \in Members, \/ \E profile \in Autonomy : addMember(m, profile)
                                \/ removeMember(m)
      PROVE  OrgInv'
  <2>1. 1 \in Autonomy
    BY DEF Autonomy
  <2> QED
    BY <1>5, <2>1, MemberKeepsInv
<1> QED
  BY <1>1, <1>2, <1>3, <1>4, <1>5 DEF OrgNext

-----------------------------------------------------------------------------
(***************************************************************************)
(* What the calls of the versioning carry. The places of an index from the *)
(* newest to the oldest are its identifiers once each, so a prune cuts a   *)
(* list from a list.                                                       *)
(***************************************************************************)
LEMMA ListHasLen ==
    ASSUME NEW s \in SnapshotLists
    PROVE  IsFiniteSet(ToSet(s)) /\ Cardinality(ToSet(s)) = Len(s) /\ ToSet(s) \subseteq SnapshotIds
<1>1. PICK n \in Nat : /\ n = Len(s) /\ DOMAIN s = 1..n /\ s \in Seq(SnapshotIds)
                       /\ \A i, j \in 1..n : s[i] = s[j] => i = j
  BY ListIs, LenProperties
<1>2. IsFiniteSet(1..n) /\ Cardinality(1..n) = n
  <2>1. 1 \in Int /\ n \in Int /\ (n = 0 \/ ~(1 > n)) /\ (1 > n <=> n = 0) /\ n - 1 + 1 = n
    OBVIOUS
  <2>2. IsFiniteSet(1..n) /\ Cardinality(1..n) = IF 1 > n THEN 0 ELSE n - 1 + 1
    BY <2>1, FS_Interval
  <2> QED
    BY <2>1, <2>2
<1>3. s \in [1..n -> ToSet(s)]
  <2>1. s = [i \in 1..n |-> s[i]]
    BY <1>1, SeqDef
  <2> QED
    BY <1>1, <2>1 DEF ToSet
<1>4. s \in Surjection(1..n, ToSet(s))
  BY <1>1, <1>3 DEF Surjection, ToSet
<1>5. s \in Injection(1..n, ToSet(s))
  BY <1>1, <1>3 DEF Injection, IsInjective
<1>6. ToSet(s) \subseteq SnapshotIds
  BY <1>1, ElementOfSeq DEF ToSet
<1> QED
  BY <1>1, <1>2, <1>4, <1>5, <1>6, FS_Surjection

LEMMA NewestFirstIsList ==
    ASSUME NEW s \in SnapshotLists
    PROVE  newestFirst(s) \in SnapshotLists /\ Len(newestFirst(s)) = Len(s)
<1>1. PICK n \in Nat : n = Len(s) /\ n <= MaxSnapshots
  BY ListIs, LenProperties
<1> DEFINE names == ToSet(s)
<1>2. names \in SUBSET Nat /\ IsFiniteSet(names) /\ Cardinality(names) = n /\ names \subseteq SnapshotIds
  BY <1>1, ListHasLen DEF SnapshotIds
<1> HIDE DEF names
<1>3. /\ \A i \in 1..n : nth(names, i) \in names
      /\ \A i, j \in 1..n : nth(names, i) = nth(names, j) => i = j
  BY <1>2, NthIs
<1> DEFINE new == newestFirst(s)
<1>4. DOMAIN new = 1..n /\ \A i \in 1..n : new[i] = nth(names, n + 1 - i)
  BY <1>1 DEF newestFirst, names
<1>5. \A i \in 1..n : n + 1 - i \in 1..n
  BY <1>1
<1>6. new = [i \in 1..n |-> new[i]]
  BY <1>1 DEF newestFirst
<1> HIDE DEF new
<1>7. \A i \in 1..n : new[i] \in SnapshotIds
  BY <1>2, <1>3, <1>4, <1>5
<1>8. \A i, j \in 1..n : new[i] = new[j] => i = j
  <2> SUFFICES ASSUME NEW i \in 1..n, NEW j \in 1..n, new[i] = new[j] PROVE i = j
    OBVIOUS
  <2>1. n + 1 - i = n + 1 - j
    BY <1>3, <1>4, <1>5
  <2> QED
    BY <1>1, <2>1
<1>9. new \in [1..n -> SnapshotIds]
  BY <1>6, <1>7
<1>10. new \in Seq(SnapshotIds) /\ Len(new) = n
  BY <1>1, <1>9
<1>11. new \in SnapshotLists
  BY <1>1, <1>8, <1>10, IsList
<1> QED
  BY <1>1, <1>10, <1>11 DEF new

LEMMA PartIsList ==
    ASSUME NEW s \in SnapshotLists, NEW k \in 1..(Len(s) + 1)
    PROVE  SubSeq(s, k, Len(s)) \in SnapshotLists
<1>1. PICK n \in Nat : /\ n = Len(s) /\ n <= MaxSnapshots /\ DOMAIN s = 1..n
                       /\ s \in Seq(SnapshotIds)
                       /\ \A i, j \in 1..n : s[i] = s[j] => i = j
  BY ListIs, LenProperties
<1>2. k \in Nat /\ k >= 1 /\ k <= n + 1
  BY <1>1
<1> DEFINE part == SubSeq(s, k, n)
<1>3. /\ part \in Seq(SnapshotIds)
      /\ Len(part) = IF k <= n THEN n - k + 1 ELSE 0
      /\ \A i \in 1..(n - k + 1) : part[i] = s[k + i - 1]
  <2>1. \A j \in k..n : s[j] \in SnapshotIds
    BY <1>1, <1>2, ElementOfSeq
  <2>2. k \in Int /\ n \in Int
    BY <1>1, <1>2
  <2> QED
    BY <2>1, <2>2, SubSeqProperties
<1> HIDE DEF part
<1>4. Len(part) = n - k + 1
  BY <1>2, <1>3
<1>5. \A i, j \in 1..(n - k + 1) : part[i] = part[j] => i = j
  <2> SUFFICES ASSUME NEW i \in 1..(n - k + 1), NEW j \in 1..(n - k + 1), part[i] = part[j]
               PROVE  i = j
    OBVIOUS
  <2>1. k + i - 1 \in 1..n /\ k + j - 1 \in 1..n
    BY <1>1, <1>2
  <2>2. k + i - 1 = k + j - 1
    BY <1>1, <1>3, <2>1
  <2> QED
    BY <1>2, <2>2
<1>6. Len(part) <= MaxSnapshots
  BY <1>1, <1>2, <1>4, VersioningAssumption
<1>7. part \in SnapshotLists
  BY <1>3, <1>4, <1>5, <1>6, IsList
<1> QED
  BY <1>1, <1>7 DEF part

OpsTyped ==
    /\ snapshotFiles \subseteq SnapshotIds
    /\ \A w \in VersioningCalls : ops[w].ids \in SnapshotLists

VersioningInv == IndexInv /\ OpsTyped

LEMMA VersioningTypes == VersioningInv => VersioningTypeOK
<1> SUFFICES ASSUME VersioningInv PROVE VersioningTypeOK
  OBVIOUS
<1>1. Index!JsonTypeOK
  BY DEF VersioningInv, IndexInv, IndexFile!LooseInv, IndexFile!JsonTypeOK, Index!JsonTypeOK
<1>2. \A w \in VersioningCalls : ops[w].op \in {"none", "save", "prune"}
  BY DEF VersioningInv, IndexInv, NamesInv, opShape
<1> QED
  BY <1>1, <1>2 DEF VersioningInv, OpsTyped, IndexInv, NamesInv, VersioningTypeOK

LEMMA OpsStart == VersioningInit => OpsTyped
BY ListsHold DEF VersioningInit, NoOp, OpsTyped

LEMMA OpsStayTyped ==
    VersioningInv /\ [VersioningNext]_versioningVars => OpsTyped'
<1> SUFFICES ASSUME VersioningInv, [VersioningNext]_versioningVars PROVE OpsTyped'
  OBVIOUS
<1>1. /\ ops = [w \in VersioningCalls |-> ops[w]] /\ OpsTyped
      /\ saves \in Nat /\ saves <= MaxSnapshots
      /\ snapshots \in SnapshotLists
      /\ <<>> \in SnapshotLists /\ NoOp.ids = <<>>
      /\ \A w \in VersioningCalls : opShape(ops[w])
  BY ListsHold, VersioningAssumption
  DEF VersioningInv, IndexInv, NamesInv, IndexFile!LooseInv, IndexFile!JsonTypeOK, NoOp
<1>2. ASSUME NEW w \in VersioningCalls, NEW new, ops' = [ops EXCEPT ![w] = new],
             new.ids \in SnapshotLists, snapshotFiles' \subseteq SnapshotIds
      PROVE  OpsTyped'
  BY <1>1, <1>2 DEF OpsTyped
<1>3. ASSUME NEW w \in VersioningCalls, save(w) PROVE OpsTyped'
  <2> DEFINE name == <<saves + 1>>
  <2>1. saves < MaxSnapshots /\ snapshotFiles' = snapshotFiles
        /\ ops' = [ops EXCEPT ![w] = [op |-> "save", ids |-> name]]
    BY <1>3 DEF save
  <2>2. saves + 1 \in SnapshotIds
    BY <1>1, <2>1, VersioningAssumption DEF SnapshotIds
  <2>3. name \in Seq(SnapshotIds) /\ Len(name) = 1
    BY <2>2
  <2>4. 1 <= MaxSnapshots
    BY <1>1, <2>1, VersioningAssumption
  <2> HIDE DEF name
  <2>5. \A i, j \in 1..Len(name) : i = j
    BY <2>3
  <2>6. name \in SnapshotLists
    BY <2>3, <2>4, <2>5, IsList
  <2> QED
    BY <1>1, <1>2, <2>1, <2>6 DEF OpsTyped
<1>4. ASSUME NEW w \in VersioningCalls, Saved(w) PROVE OpsTyped'
  <2>1. ToSet(ops[w].ids) \subseteq SnapshotIds
    BY <1>1, ListHasLen DEF OpsTyped
  <2> QED
    BY <1>1, <1>2, <1>4, <2>1 DEF Saved, OpsTyped
<1>5. ASSUME NEW w \in VersioningCalls, SaveFails(w) PROVE OpsTyped'
  BY <1>1, <1>2, <1>5 DEF SaveFails, OpsTyped
<1>6. ASSUME NEW w \in VersioningCalls, NEW keep \in 0..MaxSnapshots, prune(w, keep) PROVE OpsTyped'
  <2> DEFINE gone == SubSeq(newestFirst(snapshots), keep + 1, Len(snapshots))
  <2>1. keep < Len(snapshots) /\ snapshotFiles' = snapshotFiles
        /\ ops' = [ops EXCEPT ![w] = [op |-> "prune", ids |-> gone]]
    BY <1>6 DEF prune
  <2>2. newestFirst(snapshots) \in SnapshotLists /\ Len(newestFirst(snapshots)) = Len(snapshots)
    BY <1>1, NewestFirstIsList
  <2>3. keep + 1 \in 1..(Len(newestFirst(snapshots)) + 1)
    <3>1. Len(snapshots) \in Nat /\ keep \in Nat
      BY <1>1, ListIs, LenProperties, VersioningAssumption
    <3> QED
      BY <2>1, <2>2, <3>1
  <2>4. gone \in SnapshotLists
    BY <2>2, <2>3, PartIsList
  <2> HIDE DEF gone
  <2> QED
    BY <1>1, <1>2, <2>1, <2>4 DEF OpsTyped
<1>7. ASSUME NEW w \in VersioningCalls, Unlinked(w) PROVE OpsTyped'
  <2> DEFINE s == ops[w].ids
  <2>1. s \in SnapshotLists /\ s # <<>> /\ ops' = [ops EXCEPT ![w].ids = Tail(s)]
        /\ snapshotFiles' \subseteq snapshotFiles
    BY <1>1, <1>7 DEF Unlinked, OpsTyped
  <2>2. s \in Seq(SnapshotIds) /\ Len(s) \in Nat /\ Len(s) # 0
    BY <2>1, ListIs, EmptySeq, LenProperties
  <2>3. Tail(s) = SubSeq(s, 2, Len(s))
    BY <2>1, <2>2
  <2>4. 2 \in 1..(Len(s) + 1)
    BY <2>2
  <2> HIDE DEF s
  <2>5. Tail(s) \in SnapshotLists
    BY <2>1, <2>3, <2>4, PartIsList
  <2>6. PICK kind, list : ops[w] = [op |-> kind, ids |-> list]
    BY <1>1 DEF opShape
  <2>7. \A v \in VersioningCalls : ops'[v].ids = IF v = w THEN Tail(s) ELSE ops[v].ids
    BY <1>1, <2>1, <2>6
  <2> QED
    BY <1>1, <2>1, <2>5, <2>7 DEF OpsTyped
<1>8. ASSUME NEW w \in VersioningCalls, PruneIndex(w) PROVE OpsTyped'
  BY <1>1, <1>2, <1>8 DEF PruneIndex, OpsTyped
<1>9. ASSUME NEW w \in VersioningCalls, writeIndex(w) \/ initialize(w) PROVE OpsTyped'
  BY <1>1, <1>9 DEF writeIndex, initialize, OpsTyped
<1>10. CASE RestartVersioning
  BY <1>1, <1>10 DEF RestartVersioning, OpsTyped
<1>11. CASE UNCHANGED versioningVars
  BY <1>1, <1>11 DEF versioningVars, OpsTyped
<1> QED
  BY <1>3, <1>4, <1>5, <1>6, <1>7, <1>8, <1>9, <1>10, <1>11 DEF VersioningNext

LEMMA VersioningStaysTyped ==
    VersioningInit /\ [][VersioningNext]_versioningVars => []VersioningTypeOK
<1>1. VersioningInit => VersioningInv
  BY InitIndexInv, OpsStart DEF VersioningInv
<1>2. VersioningInv /\ [VersioningNext]_versioningVars => VersioningInv'
  BY NextIndexInv, OpsStayTyped DEF VersioningInv
<1> QED
  BY <1>1, <1>2, VersioningTypes, PTL

-----------------------------------------------------------------------------
(***************************************************************************)
(* The environment. After each line of a file a key has its own first      *)
(* value that is not empty, of those read so far; two files settle a key   *)
(* as the one file of their lines would.                                   *)
(***************************************************************************)
\* Induction over the places of a list.
LEMMA PlacesUpTo ==
    ASSUME NEW n \in Nat, NEW T, 0 \in T, \A i \in 1..n : i - 1 \in T => i \in T
    PROVE  0..n \subseteq T
<1> SUFFICES ASSUME NEW k \in 0..n, k \notin T PROVE FALSE
  OBVIOUS
<1> DEFINE Bad == {i \in 0..n : i \notin T}
<1>1. Bad \in SUBSET Nat /\ Bad # {}
  OBVIOUS
<1>2. PICK m \in Bad : \A i \in Bad : m <= i
  BY <1>1, LeastExists
<1>3. m \in 0..n /\ m \notin T /\ m # 0
  BY <1>2
<1>4. m \in 1..n /\ m - 1 \in 0..n /\ ~(m <= m - 1)
  BY <1>3
<1>5. m - 1 \notin Bad
  BY <1>2, <1>4
<1> QED
  BY <1>3, <1>4, <1>5

EnvOf == [EnvKeys -> EnvValues \cup {Missing}]

Lines == [key : EnvKeys, value : EnvValues]

-----------------------------------------------------------------------------
\* What a file leaves: the lines one after another.
assigns(g, read, lines, n) ==
    g = [i \in 0..n |-> IF i = 0 THEN read ELSE assignLine(g[i - 1], lines[i])]

LEMMA AssignsExist ==
    ASSUME NEW read, NEW lines, NEW n \in Nat
    PROVE  \E g : assigns(g, read, lines, n)
<1> DEFINE T == {k \in 0..n : \E g : assigns(g, read, lines, k)}
<1>1. 0 \in T
  <2>1. assigns([i \in 0..0 |-> read], read, lines, 0)
    BY DEF assigns
  <2> QED
    BY <2>1
<1>2. ASSUME NEW k \in 1..n, k - 1 \in T PROVE k \in T
  <2>1. PICK f : assigns(f, read, lines, k - 1)
    BY <1>2
  <2> DEFINE next == assignLine(f[k - 1], lines[k])
             g == [i \in 0..k |-> IF i = k THEN next ELSE f[i]]
  <2>2. ASSUME NEW i \in 0..k
        PROVE  g[i] = IF i = 0 THEN read ELSE assignLine(g[i - 1], lines[i])
    <3>1. i # 0 => g[i - 1] = f[i - 1]
      <4>1. i # 0 => i - 1 \in 0..k /\ i - 1 # k
        BY <1>2
      <4> QED
        BY <4>1
    <3>2. CASE i = k
      <4>1. g[i] = next /\ i # 0
        BY <1>2, <3>2
      <4> HIDE DEF g
      <4> QED
        BY <3>1, <3>2, <4>1
    <3>3. CASE i # k
      <4>1. i \in 0..(k - 1)
        BY <1>2, <3>3
      <4>2. f[i] = IF i = 0 THEN read ELSE assignLine(f[i - 1], lines[i])
        BY <2>1, <4>1 DEF assigns
      <4>3. g[i] = f[i]
        BY <3>3
      <4> HIDE DEF g
      <4> QED
        BY <3>1, <4>2, <4>3
    <3> QED
      BY <3>2, <3>3
  <2>3. g = [i \in 0..k |-> g[i]]
    OBVIOUS
  <2> HIDE DEF g
  <2>4. assigns(g, read, lines, k)
    BY <2>2, <2>3 DEF assigns
  <2>5. k \in 0..n
    BY <1>2
  <2> QED
    BY <2>4, <2>5
<1> HIDE DEF T
<1>3. 0..n \subseteq T
  BY <1>1, <1>2, PlacesUpTo
<1> QED
  BY <1>3 DEF T

LEMMA FileAssigns ==
    ASSUME NEW read, NEW lines, Len(lines) \in Nat
    PROVE  \E g : /\ loadEnvFile(read, lines) = g[Len(lines)]
                  /\ g[0] = read
                  /\ \A i \in 1..Len(lines) : g[i] = assignLine(g[i - 1], lines[i])
<1> DEFINE is(g) == assigns(g, read, lines, Len(lines))
<1>1. \E g : is(g)
  BY AssignsExist
<1> HIDE DEF is
<1>2. is(CHOOSE g : is(g))
  BY <1>1
<1>3. PICK g : is(g) /\ g = (CHOOSE f : is(f))
  BY <1>2
<1>4. loadEnvFile(read, lines) = (CHOOSE f : is(f))[Len(lines)]
  BY DEF loadEnvFile, is, assigns
<1>5. \A i \in 0..Len(lines) : g[i] = IF i = 0 THEN read ELSE assignLine(g[i - 1], lines[i])
  BY <1>3 DEF is, assigns
<1>6. 0 \in 0..Len(lines) /\ \A i \in 1..Len(lines) : i \in 0..Len(lines) /\ i # 0
  OBVIOUS
<1>7. g[0] = read
  <2>1. g[0] = IF 0 = 0 THEN read ELSE assignLine(g[0 - 1], lines[0])
    BY <1>5, <1>6
  <2> QED
    BY <2>1
<1>8. \A i \in 1..Len(lines) : g[i] = assignLine(g[i - 1], lines[i])
  BY <1>5, <1>6
<1> QED
  BY <1>3, <1>4, <1>7, <1>8

\* What the first i lines of a file make of a value.
settled(value, key, lines, i) ==
    LET given == {j \in linesFor(key, lines) : j <= i}
        texts == {j \in textsFor(key, lines) : j <= i}
    IN IF value \notin {Missing, ""} \/ given = {} THEN value
       ELSE IF texts = {} THEN "" ELSE lines[Min(texts)].value

LEMMA MinOfIs ==
    ASSUME NEW S \in SUBSET Nat, NEW m \in S, \A k \in S : m <= k
    PROVE  Min(S) = m
<1>1. Min(S) \in S /\ \A k \in S : Min(S) <= k
  BY DEF Min
<1>2. Min(S) <= m /\ m <= Min(S) /\ Min(S) \in Nat
  BY <1>1
<1> QED
  BY <1>2

LEMMA MinExists ==
    ASSUME NEW S \in SUBSET Nat, S # {}
    PROVE  Min(S) \in S /\ \A k \in S : Min(S) <= k
<1>1. PICK m \in S : \A k \in S : m <= k
  BY LeastExists
<1> QED
  BY <1>1 DEF Min

LEMMA OneLineMore ==
    ASSUME NEW lines \in Seq(Lines), NEW i \in 1..Len(lines), NEW read \in EnvOf,
           NEW key \in EnvKeys, NEW value,
           read[key] = settled(value, key, lines, i - 1)
    PROVE  /\ assignLine(read, lines[i]) \in EnvOf
           /\ assignLine(read, lines[i])[key] = settled(value, key, lines, i)
<1>1. PICK n \in Nat : n = Len(lines) /\ DOMAIN lines = 1..n /\ i \in 1..n
  BY LenProperties
<1>2. /\ lines[i] \in Lines /\ lines[i].key \in EnvKeys /\ lines[i].value \in EnvValues
      /\ lines[i].value # Missing
  <2>1. lines[i] \in Lines
    BY <1>1, ElementOfSeq
  <2> QED
    BY <2>1 DEF Lines, EnvValues, Missing
<1>3. assignLine(read, lines[i]) \in EnvOf
  BY <1>2 DEF assignLine, EnvOf
<1> DEFINE given(k) == {j \in linesFor(key, lines) : j <= k}
           texts(k) == {j \in textsFor(key, lines) : j <= k}
<1>4. \A j \in 1..n : j <= i <=> j <= i - 1 \/ j = i
  BY <1>1
<1>5. linesFor(key, lines) \subseteq 1..n /\ textsFor(key, lines) \subseteq linesFor(key, lines)
  BY <1>1 DEF linesFor, textsFor
<1>6. CASE lines[i].key # key
  <2>1. i \notin linesFor(key, lines) /\ i \notin textsFor(key, lines)
    BY <1>6 DEF linesFor, textsFor
  <2>2. given(i) = given(i - 1) /\ texts(i) = texts(i - 1)
    BY <1>4, <1>5, <2>1
  <2>3. settled(value, key, lines, i) = settled(value, key, lines, i - 1)
    BY <2>2 DEF settled
  <2>4. assignLine(read, lines[i])[key] = read[key]
    BY <1>2, <1>6 DEF assignLine, EnvOf
  <2> QED
    BY <1>3, <2>3, <2>4
<1>7. CASE lines[i].key = key
  <2>1. i \in linesFor(key, lines) /\ i \in given(i)
    BY <1>1, <1>7 DEF linesFor
  <2>2. assignLine(read, lines[i])[key] =
           IF read[key] \in {Missing, ""} THEN lines[i].value ELSE read[key]
    BY <1>2, <1>7 DEF assignLine, EnvOf
  <2>3. i \in textsFor(key, lines) <=> lines[i].value # ""
    BY <2>1 DEF textsFor
  <2>4. CASE value \notin {Missing, ""}
    BY <1>3, <2>2, <2>4 DEF settled
  <2>5. CASE value \in {Missing, ""} /\ texts(i - 1) # {}
    <3>0. texts(i - 1) \in SUBSET Nat /\ texts(i) \in SUBSET Nat
      BY <1>1, <1>5
    <3>9. texts(i - 1) \subseteq texts(i)
      <4>1. \A j \in 1..n : j <= i - 1 => j <= i
        BY <1>1
      <4> QED
        BY <1>5, <4>1
    <3>10. texts(i) # {}
      BY <2>5, <3>9
    <3>11. texts(i - 1) \subseteq given(i - 1)
      BY <1>5
    <3>12. given(i - 1) # {} /\ given(i) # {}
      BY <2>1, <2>5, <3>11
    <3> HIDE DEF texts, given
    <3>1. texts(i - 1) \in SUBSET Nat /\ texts(i) \in SUBSET Nat
          /\ given(i - 1) # {} /\ given(i) # {} /\ texts(i) # {}
          /\ texts(i - 1) \subseteq texts(i)
      BY <3>0, <3>9, <3>10, <3>12
    <3> USE DEF texts, given
    <3>2. PICK m \in texts(i - 1) : m = Min(texts(i - 1)) /\ \A k \in texts(i - 1) : m <= k
      BY <2>5, <3>1, MinExists
    <3>3. \A k \in texts(i) : m <= k
      <4>1. \A k \in texts(i) : k \in texts(i - 1) \/ k = i
        BY <1>4, <1>5
      <4>2. m <= i - 1 /\ m \in Nat
        BY <3>1, <3>2
      <4> QED
        BY <1>1, <3>2, <4>1, <4>2
    <3>4. Min(texts(i)) = m
      BY <3>1, <3>2, <3>3, MinOfIs
    <3>5. lines[m].value # ""
      BY <3>2 DEF textsFor
    <3>6. lines[m].value # Missing
      <4>1. m \in 1..n
        BY <1>5, <3>2
      <4>2. lines[m] \in Lines
        BY <1>1, <4>1, ElementOfSeq
      <4> QED
        BY <4>2 DEF Lines, EnvValues, Missing
    <3>7. settled(value, key, lines, i - 1) = lines[m].value
      BY <2>5, <3>1, <3>2 DEF settled
    <3>8. settled(value, key, lines, i) = lines[m].value
      BY <2>5, <3>1, <3>4 DEF settled
    <3> QED
      BY <1>3, <2>2, <3>5, <3>6, <3>7, <3>8
  <2>6. CASE value \in {Missing, ""} /\ texts(i - 1) = {}
    <3>1. read[key] \in {Missing, ""}
      BY <2>6 DEF settled
    <3>2. assignLine(read, lines[i])[key] = lines[i].value
      BY <2>2, <3>1
    <3>3. CASE lines[i].value = ""
      <4>1. texts(i) = {}
        BY <1>4, <1>5, <2>3, <2>6, <3>3
      <4> QED
        BY <1>3, <2>1, <2>6, <3>2, <3>3, <4>1 DEF settled
    <3>4. CASE lines[i].value # ""
      <4>1. texts(i) = {i}
        BY <1>4, <1>5, <2>3, <2>6, <3>4
      <4>2. Min(texts(i)) = i
        <5>1. {i} \in SUBSET Nat /\ i \in {i} /\ \A k \in {i} : i <= k
          BY <1>1
        <5> QED
          BY <4>1, <5>1, MinOfIs
      <4>3. settled(value, key, lines, i) = lines[i].value
        BY <2>1, <2>6, <4>1, <4>2 DEF settled
      <4> QED
        BY <1>3, <3>2, <4>3
    <3> QED
      BY <3>3, <3>4
  <2> QED
    BY <2>4, <2>5, <2>6
<1> QED
  BY <1>6, <1>7

\* A whole file.
fileSettles(value, key, lines) ==
    IF value \notin {Missing, ""} \/ linesFor(key, lines) = {} THEN value
    ELSE IF textsFor(key, lines) = {} THEN "" ELSE lines[Min(textsFor(key, lines))].value

LEMMA FileSettles ==
    ASSUME NEW read \in EnvOf, NEW lines \in Seq(Lines)
    PROVE  /\ loadEnvFile(read, lines) \in EnvOf
           /\ \A key \in EnvKeys :
                 loadEnvFile(read, lines)[key] = fileSettles(read[key], key, lines)
<1>1. PICK n \in Nat : n = Len(lines) /\ DOMAIN lines = 1..n
  BY LenProperties
<1>2. PICK g : /\ loadEnvFile(read, lines) = g[n] /\ g[0] = read
               /\ \A i \in 1..n : g[i] = assignLine(g[i - 1], lines[i])
  <2>1. Len(lines) \in Nat
    BY <1>1
  <2>2. PICK g : /\ loadEnvFile(read, lines) = g[Len(lines)] /\ g[0] = read
                 /\ \A i \in 1..Len(lines) : g[i] = assignLine(g[i - 1], lines[i])
    BY <2>1, FileAssigns
  <2> QED
    BY <1>1, <2>2
<1> DEFINE ok(i) == /\ g[i] \in EnvOf
                    /\ \A key \in EnvKeys : g[i][key] = settled(read[key], key, lines, i)
           T == {i \in 0..n : ok(i)}
<1>3. 0 \in T
  <2>1. \A key \in EnvKeys : {j \in linesFor(key, lines) : j <= 0} = {}
    BY <1>1 DEF linesFor
  <2>2. \A key \in EnvKeys : settled(read[key], key, lines, 0) = read[key]
    BY <2>1 DEF settled
  <2> QED
    BY <1>2, <2>2
<1>4. ASSUME NEW i \in 1..n, i - 1 \in T PROVE i \in T
  <2>1. ok(i - 1) /\ i \in 0..n /\ g[i] = assignLine(g[i - 1], lines[i])
    BY <1>2, <1>4
  <2>2. PICK before : before = g[i - 1] /\ before \in EnvOf
    BY <2>1
  <2>3. \A key \in EnvKeys : before[key] = settled(read[key], key, lines, i - 1)
    BY <2>1, <2>2
  <2>4. i \in 1..Len(lines)
    BY <1>1
  <2>5. ASSUME NEW key \in EnvKeys
        PROVE  /\ assignLine(before, lines[i]) \in EnvOf
               /\ assignLine(before, lines[i])[key] = settled(read[key], key, lines, i)
    BY <2>2, <2>3, <2>4, OneLineMore
  <2>6. "PORT" \in EnvKeys
    BY DEF EnvKeys
  <2> QED
    BY <2>1, <2>2, <2>5, <2>6
<1>5. ok(n)
  <2> HIDE DEF T
  <2>1. 0..n \subseteq T
    BY <1>3, <1>4, PlacesUpTo
  <2>2. n \in 0..n
    OBVIOUS
  <2> QED
    BY <2>1, <2>2 DEF T
<1>6. ASSUME NEW key \in EnvKeys
      PROVE  settled(read[key], key, lines, n) = fileSettles(read[key], key, lines)
  <2>1. linesFor(key, lines) \subseteq 1..n /\ textsFor(key, lines) \subseteq 1..n
    BY <1>1 DEF linesFor, textsFor
  <2>2. {j \in linesFor(key, lines) : j <= n} = linesFor(key, lines)
        /\ {j \in textsFor(key, lines) : j <= n} = textsFor(key, lines)
    BY <2>1
  <2> QED
    BY <2>2 DEF settled, fileSettles
<1> QED
  BY <1>2, <1>5, <1>6

-----------------------------------------------------------------------------
\* Two files.
LEMMA TwoFilesLoad ==
    ASSUME NEW read, NEW first, NEW second
    PROVE  loadEnvFiles(read, <<first, second>>)
             = loadEnvFile(loadEnvFile(read, first), second)
<1> DEFINE is(g) == g = [i \in 0..Len(<<first, second>>) |->
                            IF i = 0 THEN read
                            ELSE loadEnvFile(g[i - 1], <<first, second>>[i])]
           one == loadEnvFile(read, first)
           two == loadEnvFile(one, second)
           g2 == [i \in 0..2 |-> IF i = 0 THEN read ELSE IF i = 1 THEN one ELSE two]
<1>1. Len(<<first, second>>) = 2 /\ <<first, second>>[1] = first /\ <<first, second>>[2] = second
  OBVIOUS
<1> HIDE DEF one, two
<1>2. ASSUME NEW i \in 0..2
      PROVE  g2[i] = IF i = 0 THEN read ELSE loadEnvFile(g2[i - 1], <<first, second>>[i])
  <2>1. g2[0] = read /\ g2[1] = one /\ g2[2] = two
    OBVIOUS
  <2> HIDE DEF g2
  <2>2. CASE i = 0
    BY <2>1, <2>2
  <2>3. CASE i = 1
    <3>1. i - 1 = 0 /\ i # 0
      BY <2>3
    <3> QED
      BY <1>1, <2>1, <2>3, <3>1 DEF one
  <2>4. CASE i = 2
    <3>1. i - 1 = 1 /\ i # 0
      BY <2>4
    <3> QED
      BY <1>1, <2>1, <2>4, <3>1 DEF two
  <2> QED
    BY <2>2, <2>3, <2>4
<1>3. g2 = [i \in 0..2 |-> g2[i]]
  OBVIOUS
<1> HIDE DEF g2
<1>4. is(g2)
  BY <1>1, <1>2, <1>3
<1> HIDE DEF is
<1>5. is(CHOOSE g : is(g))
  BY <1>4
<1>6. PICK g : is(g) /\ g = (CHOOSE f : is(f))
  BY <1>5
<1>7. loadEnvFiles(read, <<first, second>>) = (CHOOSE f : is(f))[Len(<<first, second>>)]
  BY DEF loadEnvFiles, is
<1>8. \A i \in 0..2 : g[i] = IF i = 0 THEN read ELSE loadEnvFile(g[i - 1], <<first, second>>[i])
  BY <1>1, <1>6 DEF is
<1>9. g[0] = read
  <2>1. 0 \in 0..2
    OBVIOUS
  <2> QED
    BY <1>8, <2>1
<1>10. g[1] = one
  <2>1. 1 \in 0..2 /\ 1 # 0 /\ 1 - 1 = 0
    OBVIOUS
  <2>2. g[1] = loadEnvFile(g[1 - 1], <<first, second>>[1])
    BY <1>8, <2>1
  <2> QED
    BY <1>1, <1>9, <2>1, <2>2 DEF one
<1>11. g[2] = two
  <2>1. 2 \in 0..2 /\ 2 # 0 /\ 2 - 1 = 1
    OBVIOUS
  <2>2. g[2] = loadEnvFile(g[2 - 1], <<first, second>>[2])
    BY <1>8, <2>1
  <2> QED
    BY <1>1, <1>10, <2>1, <2>2 DEF two
<1> QED
  BY <1>1, <1>6, <1>7, <1>11 DEF one, two

\* Two files are settled as the one file of their lines would be.
LEMMA LinesTogether ==
    ASSUME NEW first \in Seq(Lines), NEW second \in Seq(Lines), NEW n \in Nat, n = Len(first),
           NEW key
    PROVE  /\ \A i \in Nat : i \in linesFor(key, first \o second) <=>
                \/ i \in linesFor(key, first)
                \/ i > n /\ i - n \in linesFor(key, second)
           /\ \A i \in Nat : i \in textsFor(key, first \o second) <=>
                \/ i \in textsFor(key, first)
                \/ i > n /\ i - n \in textsFor(key, second)
<1>1. PICK m \in Nat : m = Len(second) /\ DOMAIN second = 1..m
  BY LenProperties
<1>2. DOMAIN first = 1..n
  BY LenProperties
<1>3. /\ DOMAIN (first \o second) = 1..(n + m)
      /\ \A i \in 1..(n + m) : (first \o second)[i] = IF i <= n THEN first[i] ELSE second[i - n]
  <2>1. first \o second \in Seq(Lines) /\ Len(first \o second) = n + m
    BY <1>1, ConcatProperties
  <2>2. DOMAIN (first \o second) = 1..(n + m)
    BY <2>1, LenProperties
  <2>3. \A i \in 1..(Len(first) + Len(second)) :
           (first \o second)[i] = IF i <= Len(first) THEN first[i] ELSE second[i - Len(first)]
    BY ConcatProperties
  <2> QED
    BY <1>1, <2>2, <2>3
<1>4. ASSUME NEW i \in Nat
      PROVE  /\ i \in 1..n => i \in 1..(n + m) /\ i <= n /\ ~(i > n)
             /\ i \notin 1..n /\ i \in 1..(n + m) => i > n /\ ~(i <= n) /\ i - n \in 1..m
             /\ i > n /\ i - n \in 1..m => i \in 1..(n + m) /\ ~(i <= n) /\ i \notin 1..n
             /\ i > n => i \notin 1..n
  BY <1>1
<1> DEFINE both == first \o second
<1> HIDE DEF both
<1>5. /\ DOMAIN both = 1..(n + m)
      /\ \A i \in 1..(n + m) : both[i] = IF i <= n THEN first[i] ELSE second[i - n]
  BY <1>3 DEF both
<1>6. ASSUME NEW i \in Nat
      PROVE  /\ i \in linesFor(key, both) <=>
                  \/ i \in linesFor(key, first)
                  \/ i > n /\ i - n \in linesFor(key, second)
             /\ i \in textsFor(key, both) <=>
                  \/ i \in textsFor(key, first)
                  \/ i > n /\ i - n \in textsFor(key, second)
  <2>1. CASE i \in 1..n
    <3>1. i \in 1..(n + m) /\ ~(i > n) /\ both[i] = first[i]
      BY <1>4, <1>5, <2>1
    <3> QED
      BY <1>2, <1>5, <2>1, <3>1 DEF linesFor, textsFor
  <2>2. CASE i \notin 1..n /\ i \in 1..(n + m)
    <3>1. i > n /\ i - n \in 1..m /\ both[i] = second[i - n]
      BY <1>4, <1>5, <2>2
    <3> QED
      BY <1>1, <1>2, <1>5, <2>2, <3>1 DEF linesFor, textsFor
  <2>3. CASE i \notin 1..n /\ i \notin 1..(n + m)
    <3>1. i > n => i - n \notin 1..m
      BY <1>4, <2>3
    <3> QED
      BY <1>1, <1>2, <1>5, <2>3, <3>1 DEF linesFor, textsFor
  <2> QED
    BY <2>1, <2>2, <2>3
<1> QED
  BY <1>6 DEF both

LEMMA SettledTogether ==
    ASSUME NEW first \in Seq(Lines), NEW second \in Seq(Lines), NEW key, NEW value
    PROVE  fileSettles(fileSettles(value, key, first), key, second)
             = fileSettles(value, key, first \o second)
<1>1. PICK n \in Nat : n = Len(first) /\ DOMAIN first = 1..n
  BY LenProperties
<1>2. PICK m \in Nat : m = Len(second) /\ DOMAIN second = 1..m
  BY LenProperties
<1>3. PICK both \in Seq(Lines) : both = first \o second
  BY ConcatProperties
<1> DEFINE F == linesFor(key, first)   S == linesFor(key, second)   A == linesFor(key, both)
           tF == textsFor(key, first)  tS == textsFor(key, second)  tA == textsFor(key, both)
<1>4. /\ \A i \in Nat : i \in A <=> i \in F \/ (i > n /\ i - n \in S)
      /\ \A i \in Nat : i \in tA <=> i \in tF \/ (i > n /\ i - n \in tS)
  BY <1>1, <1>3, LinesTogether
<1>5. PICK k \in Nat : k = Len(both) /\ DOMAIN both = 1..k
  BY <1>3, LenProperties
<1>6. /\ F \subseteq 1..n /\ tF \subseteq F /\ S \subseteq 1..m /\ tS \subseteq S
      /\ A \subseteq 1..k /\ tA \subseteq A
  BY <1>1, <1>2, <1>5 DEF linesFor, textsFor
<1>7. k = n + m
  BY <1>1, <1>2, <1>3, <1>5, ConcatProperties
<1>8. \A i \in 1..k : both[i] = IF i <= n THEN first[i] ELSE second[i - n]
  <2>1. \A i \in 1..(Len(first) + Len(second)) :
           (first \o second)[i] = IF i <= Len(first) THEN first[i] ELSE second[i - Len(first)]
    BY ConcatProperties
  <2> QED
    BY <1>1, <1>2, <1>3, <1>7, <2>1
<1>9. \A j \in S : n + j \in Nat /\ n + j > n /\ (n + j) - n = j
  BY <1>6
<1>10. tF \in SUBSET Nat /\ tS \in SUBSET Nat /\ tA \in SUBSET Nat
  BY <1>6
<1>11. A = {} <=> F = {} /\ S = {}
  <2>1. F = {} /\ S = {} => A = {}
    BY <1>4, <1>6
  <2>2. F # {} => A # {}
    BY <1>4, <1>6
  <2>3. S # {} => A # {}
    BY <1>4, <1>9
  <2> QED
    BY <2>1, <2>2, <2>3
<1>12. tA = {} <=> tF = {} /\ tS = {}
  <2>1. tF = {} /\ tS = {} => tA = {}
    BY <1>4, <1>6
  <2>2. tF # {} => tA # {}
    BY <1>4, <1>6
  <2>3. tS # {} => tA # {}
    BY <1>4, <1>6, <1>9
  <2> QED
    BY <2>1, <2>2, <2>3
<1>13. CASE value \notin {Missing, ""}
  BY <1>3, <1>13 DEF fileSettles
<1>14. CASE value \in {Missing, ""} /\ tF # {}
  <2>1. PICK i \in tF : i = Min(tF) /\ \A j \in tF : i <= j
    BY <1>10, <1>14, MinExists
  <2>2. i \in tA /\ i \in 1..n /\ i \in 1..k
    BY <1>4, <1>6, <2>1
  <2>3. \A j \in tA : i <= j
    <3>1. \A j \in tA : j \in Nat /\ (j \in tF \/ j > n)
      BY <1>4, <1>6
    <3>2. i <= n /\ i \in Nat
      BY <2>2
    <3> QED
      BY <1>1, <2>1, <3>1, <3>2
  <2>4. Min(tA) = i
    BY <1>10, <2>2, <2>3, MinOfIs
  <2>5. both[i] = first[i]
    <3>1. i <= n
      BY <2>2
    <3> QED
      BY <1>8, <2>2, <3>1
  <2>6. F # {} /\ A # {} /\ tA # {}
    BY <1>6, <1>11, <1>14, <2>2
  <2>7. fileSettles(value, key, first) = first[i].value
    BY <1>14, <2>1, <2>6 DEF fileSettles
  <2>8. fileSettles(value, key, both) = first[i].value
    BY <1>14, <2>4, <2>5, <2>6 DEF fileSettles
  <2>9. first[i].value \notin {Missing, ""}
    <3>1. first[i].value # ""
      BY <2>1 DEF textsFor
    <3>2. first[i] \in Lines
      BY <1>1, <2>2, ElementOfSeq
    <3> QED
      BY <3>1, <3>2 DEF Lines, EnvValues, Missing
  <2> QED
    BY <1>3, <2>7, <2>8, <2>9 DEF fileSettles
<1>15. CASE value \in {Missing, ""} /\ tF = {}
  <2>1. PICK w : w = fileSettles(value, key, first) /\ w = (IF F = {} THEN value ELSE "")
    BY <1>15 DEF fileSettles
  <2>2. w \in {Missing, ""}
    BY <1>15, <2>1
  <2>3. CASE S = {}
    <3>1. fileSettles(w, key, second) = w
      BY <2>3 DEF fileSettles
    <3>2. tS = {} /\ tA = {}
      BY <1>6, <1>12, <1>15, <2>3
    <3>3. fileSettles(value, key, both) = w
      BY <1>11, <1>15, <2>1, <2>3, <3>2 DEF fileSettles
    <3> QED
      BY <1>3, <2>1, <3>1, <3>3
  <2>4. CASE S # {} /\ tS = {}
    <3>1. A # {} /\ tA = {}
      BY <1>11, <1>12, <1>15, <2>4
    <3> QED
      BY <1>3, <1>15, <2>1, <2>2, <2>4, <3>1 DEF fileSettles
  <2>5. CASE tS # {}
    <3>1. S # {} /\ A # {} /\ tA # {}
      BY <1>6, <1>11, <1>12, <2>5
    <3>2. PICK i \in tS : i = Min(tS) /\ \A j \in tS : i <= j
      BY <1>10, <2>5, MinExists
    <3>3. i \in 1..m /\ n + i \in Nat /\ n + i > n /\ (n + i) - n = i /\ n + i \in 1..k
      BY <1>6, <1>7, <3>2
    <3>4. n + i \in tA
      BY <1>4, <3>2, <3>3
    <3>5. \A j \in tA : n + i <= j
      <4>1. ASSUME NEW j \in tA PROVE n + i <= j
        <5>1. j \in Nat /\ j > n /\ j - n \in tS
          <6>1. j \in Nat
            BY <1>6
          <6>2. j \in tF \/ (j > n /\ j - n \in tS)
            BY <1>4, <6>1
          <6> QED
            BY <1>15, <6>1, <6>2
        <5>2. i <= j - n
          BY <3>2, <5>1
        <5> QED
          BY <1>1, <3>3, <5>1, <5>2
      <4> QED
        BY <4>1
    <3>6. Min(tA) = n + i
      BY <1>10, <3>4, <3>5, MinOfIs
    <3>7. both[n + i] = second[i]
      BY <1>8, <3>3
    <3>8. fileSettles(w, key, second) = second[i].value
      BY <2>2, <2>5, <3>1, <3>2 DEF fileSettles
    <3>9. fileSettles(value, key, both) = both[n + i].value
      BY <1>15, <3>1, <3>6 DEF fileSettles
    <3> QED
      BY <1>3, <2>1, <3>7, <3>8, <3>9
  <2> QED
    BY <2>3, <2>4, <2>5
<1> QED
  BY <1>13, <1>14, <1>15

LEMMA FilesAreLines ==
    ASSUME NEW lines \in EnvFiles
    PROVE  lines \in Seq(Lines)
<1>1. MaxEnvLines \in Nat /\ EnvLines \subseteq Lines
  BY EnvAssumption DEF Lines
<1>2. PICK m \in 0..MaxEnvLines : lines \in [1..m -> EnvLines]
  BY DEF EnvFiles, BoundedSeq, SeqOf
<1> QED
  BY <1>1, <1>2, SeqDef

LEMMA FirstValueSettles ==
    EnvTypeOK => FirstValueWins
<1> SUFFICES ASSUME EnvTypeOK,
                    NEW first \in EnvFiles, NEW second \in EnvFiles, NEW key \in EnvKeys
             PROVE  loadEnvFiles(env, <<first, second>>)[key]
                      = fileSettles(env[key], key, first \o second)
  BY DEF FirstValueWins, fileSettles
<1>1. env \in EnvOf
  BY DEF EnvTypeOK, EnvOf
<1>2. first \in Seq(Lines) /\ second \in Seq(Lines)
  BY FilesAreLines
<1>3. PICK one \in EnvOf : one = loadEnvFile(env, first)
                           /\ one[key] = fileSettles(env[key], key, first)
  BY <1>1, <1>2, FileSettles
<1>4. loadEnvFile(one, second)[key] = fileSettles(one[key], key, second)
  BY <1>2, <1>3, FileSettles
<1>5. loadEnvFiles(env, <<first, second>>) = loadEnvFile(one, second)
  BY <1>3, TwoFilesLoad
<1> QED
  BY <1>2, <1>3, <1>4, <1>5, SettledTogether

-----------------------------------------------------------------------------
\* The cached configuration is the one of the environment it was read from.
configOf(read, config) ==
    /\ read \in EnvOf
    /\ config.JWT_SECRET =
         Str(IF read["JWT_SECRET"] = Missing THEN "change-me-in-production"
             ELSE read["JWT_SECRET"])
    /\ config.PORT =
         Num(IF read["PORT"] = "0" THEN "0"
             ELSE IF read["PORT"] \in {"1", "1e3"} THEN "1"
             ELSE IF read["PORT"] = "8080abc" THEN "8080" ELSE "3000")
    /\ config.ENABLE_TELEMETRY =
         Bool(IF read["ENABLE_TELEMETRY"] \in {Missing, "true", "1", "yes"} THEN "true"
              ELSE "false")
    /\ config.NODE_ENV = Str(IF read["NODE_ENV"] = "production" THEN "production"
                             ELSE "development")
    /\ config.AUTH_PROVIDER = Str(IF read["AUTH_PROVIDER"] = "auth0" THEN "auth0" ELSE "none")
    /\ config.IDEIA_DEFAULT_AUTONOMY.type = "number"

EnvInv ==
    /\ EnvTypeOK
    /\ _cachedConfig = NotRead \/ configOf(_cachedConfig.read, _cachedConfig.config)

LEMMA EnvStarts == EnvInit => EnvInv
<1> SUFFICES ASSUME EnvInit PROVE EnvInv
  OBVIOUS
<1>1. env \in [EnvKeys -> EnvValues \cup {Missing}]
  BY DEF EnvInit
<1>2. DOMAIN secrets = {} /\ Range(secrets) = {}
  BY DEF EnvInit, Range
<1>3. assignments \in 0..MaxEnvSets
  BY EnvAssumption DEF EnvInit
<1> QED
  BY <1>1, <1>2, <1>3 DEF EnvInit, EnvInv, EnvTypeOK

LEMMA CacheIsConfig ==
    ASSUME EnvTypeOK
    PROVE  configOf(env, createEnvConfig)
<1>1. env \in EnvOf
  BY DEF EnvTypeOK, EnvOf
<1>2. envText("JWT_SECRET", "change-me-in-production")
        = Str(IF env["JWT_SECRET"] = Missing THEN "change-me-in-production"
              ELSE env["JWT_SECRET"])
  BY DEF envText
<1>3. envBool("ENABLE_TELEMETRY", "true")
        = Bool(IF env["ENABLE_TELEMETRY"] \in {Missing, "true", "1", "yes"} THEN "true"
               ELSE "false")
  BY DEF envBool, Missing
<1>4. /\ envOneOf("NODE_ENV", {"production"}, "development")
            = Str(IF env["NODE_ENV"] = "production" THEN "production" ELSE "development")
      /\ envOneOf("AUTH_PROVIDER", {"auth0"}, "none")
            = Str(IF env["AUTH_PROVIDER"] = "auth0" THEN "auth0" ELSE "none")
  BY DEF envOneOf
<1>5. envInt("PORT", "3000")
        = Num(IF env["PORT"] = "0" THEN "0"
              ELSE IF env["PORT"] \in {"1", "1e3"} THEN "1"
              ELSE IF env["PORT"] = "8080abc" THEN "8080" ELSE "3000")
  BY DEF envInt, parseInt, Missing
<1>6. envInt("IDEIA_DEFAULT_AUTONOMY", "2").type = "number"
  BY DEF envInt, Num
<1> QED
  BY <1>1, <1>2, <1>3, <1>4, <1>5, <1>6 DEF configOf, createEnvConfig

LEMMA EnvStepsKeepInv == EnvInv /\ [EnvNext]_envVars => EnvInv'
<1> SUFFICES ASSUME EnvInv, [EnvNext]_envVars PROVE EnvInv'
  OBVIOUS
<1>1. ASSUME NEW first \in EnvFiles, NEW second \in EnvFiles, init(<<first, second>>)
      PROVE EnvInv'
  <2>1. env \in EnvOf
    BY DEF EnvInv, EnvTypeOK, EnvOf
  <2>2. loadEnvFile(env, first) \in EnvOf
    BY <2>1, FilesAreLines, FileSettles
  <2>3. PICK read \in EnvOf : read = loadEnvFiles(env, <<first, second>>)
    BY <2>2, FilesAreLines, FileSettles, TwoFilesLoad
  <2>4. /\ env' = read /\ loaded' = TRUE
        /\ secrets' = [k \in {key \in EnvKeys : GLOBAL_SCHEMA[key].sensitive
                                                /\ read[key] # Missing} |-> read[k]]
        /\ UNCHANGED <<_cachedConfig, assignments>>
    BY <1>1, <2>3 DEF init
  <2>5. \A key \in EnvKeys : GLOBAL_SCHEMA[key].sensitive => key = "JWT_SECRET"
    BY DEF EnvKeys, GLOBAL_SCHEMA
  <2>6. DOMAIN secrets' \subseteq {"JWT_SECRET"}
    BY <2>4, <2>5
  <2>7. \A key \in DOMAIN secrets' : secrets'[key] \in EnvValues
    BY <2>3, <2>4 DEF EnvOf
  <2>8. Range(secrets)' \subseteq EnvValues
    BY <2>7 DEF Range
  <2> QED
    BY <2>3, <2>4, <2>6, <2>8 DEF EnvInv, EnvTypeOK, EnvOf, configOf, NotRead
<1>2. ASSUME NEW a \in EnvAssigned, Assign(a.key, a.value)
      PROVE EnvInv'
  <2> DEFINE k == a.key
             v == a.value
  <2>4. k \in EnvKeys /\ v \in EnvValues \cup {Missing}
    BY EnvAssumption
  <2>1. assignments' \in 0..MaxEnvSets
    BY <1>2, EnvAssumption DEF Assign, EnvInv, EnvTypeOK
  <2>2. env' \in [EnvKeys -> EnvValues \cup {Missing}]
    BY <1>2, <2>4 DEF Assign, EnvInv, EnvTypeOK
  <2>3. UNCHANGED <<loaded, secrets, _cachedConfig>>
    BY <1>2 DEF Assign
  <2> QED
    BY <2>1, <2>2, <2>3 DEF EnvInv, EnvTypeOK, configOf, NotRead, Range
<1>3. ASSUME getEnvConfig \/ reloadEnvConfig PROVE EnvInv'
  <2>1. _cachedConfig' = [read |-> env, config |-> createEnvConfig]
        /\ UNCHANGED <<env, loaded, secrets, assignments>>
    BY <1>3 DEF getEnvConfig, reloadEnvConfig
  <2>2. configOf(env, createEnvConfig)
    BY CacheIsConfig DEF EnvInv
  <2>3. configOf(_cachedConfig.read, _cachedConfig.config)'
    BY <2>1, <2>2 DEF configOf
  <2>4. _cachedConfig'.read \in [EnvKeys -> EnvValues \cup {Missing}]
    BY <2>1 DEF EnvInv, EnvTypeOK
  <2> QED
    BY <2>1, <2>3, <2>4 DEF EnvInv, EnvTypeOK, Range
<1>4. CASE UNCHANGED envVars
  BY <1>4 DEF EnvInv, EnvTypeOK, configOf, NotRead, envVars, Range
<1> QED
  BY <1>1, <1>2, <1>3, <1>4 DEF EnvNext

LEMMA ReadersStayAgreed == EnvInv => ReadersAgree
<1> SUFFICES ASSUME EnvInv PROVE ReadersAgree
  OBVIOUS
<1>1. DOMAIN secrets \cap DOMAIN getAll(FALSE) = {}
  <2>1. DOMAIN secrets \subseteq {"JWT_SECRET"}
    BY DEF EnvInv, EnvTypeOK
  <2>2. "JWT_SECRET" \notin DOMAIN getAll(FALSE)
    BY DEF getAll, GLOBAL_SCHEMA
  <2> QED
    BY <2>1, <2>2
<1>2. ASSUME _cachedConfig # NotRead
      PROVE  LET config == _cachedConfig.config
                 read == _cachedConfig.read
             IN  /\ \A k \in EnvKeys : read[k] = env[k] =>
                      (get(k) = config[k] <=> env[k] \in readAlike[k])
                 /\ validateEnvConfig(config) =>
                      /\ read["JWT_SECRET"] \notin {Missing, "", "change-me-in-production"}
                      /\ read["NODE_ENV"] = "production" => read["AUTH_PROVIDER"] = "auth0"
  <2>1. PICK config, read : /\ config = _cachedConfig.config /\ read = _cachedConfig.read
                            /\ configOf(read, config)
    BY <1>2 DEF EnvInv
  <2>2. ASSUME NEW k \in EnvKeys, read[k] = env[k]
        PROVE  get(k) = config[k] <=> env[k] \in readAlike[k]
    <3>1. env[k] \in EnvValues \cup {Missing}
      BY DEF EnvInv, EnvTypeOK
    <3>8. /\ \A t, u : (Str(t) = Str(u) <=> t = u) /\ Str(t) # Num(u) /\ Str(t) # Bool(u)
          /\ \A t, u : (Num(t) = Num(u) <=> t = u) /\ (Bool(t) = Bool(u) <=> t = u)
          /\ \A t : Str(t) # NotSet /\ Str(t).type = "string"
      BY DEF Str, Num, Bool, NotSet
    <3>2. CASE k = "JWT_SECRET"
      <4>1. get(k) = IF env[k] = Missing THEN NotSet ELSE Str(env[k])
        BY <3>2 DEF get, cast, GLOBAL_SCHEMA
      <4>2. config[k] = Str(IF env[k] = Missing THEN "change-me-in-production" ELSE env[k])
        BY <2>1, <2>2, <3>2 DEF configOf
      <4>3. Missing \notin EnvValues
        BY DEF Missing, EnvValues
      <4>4. readAlike[k] = EnvValues
        BY <3>2 DEF readAlike
      <4> QED
        BY ONLY <3>1, <3>8, <4>1, <4>2, <4>3, <4>4
    <3>3. CASE k = "PORT"
      <4>1. get(k) = IF env[k] = Missing THEN Num("3001")
                     ELSE IF env[k] \in {"", "0"} THEN Num("0")
                     ELSE IF env[k] = "1" THEN Num("1")
                     ELSE IF env[k] = "1e3" THEN Num("1000") ELSE Str(env[k])
        BY <3>3 DEF get, cast, GLOBAL_SCHEMA, Number
      <4>2. config[k] = Num(IF env[k] = "0" THEN "0"
                            ELSE IF env[k] \in {"1", "1e3"} THEN "1"
                            ELSE IF env[k] = "8080abc" THEN "8080" ELSE "3000")
        BY <2>1, <2>2, <3>3 DEF configOf
      <4>3. readAlike[k] = {"0", "1"}
        BY <3>3 DEF readAlike
      <4>9. CASE env[k] = "0"
        <5>1. get(k) = Num("0") /\ config[k] = Num("0")
          BY ONLY <4>1, <4>2, <4>9 DEF Missing
        <5> QED
          BY ONLY <4>3, <4>9, <5>1
      <4>4. CASE env[k] = "1"
        <5>1. get(k) = Num("1") /\ config[k] = Num("1")
          BY ONLY <4>1, <4>2, <4>4 DEF Missing
        <5> QED
          BY ONLY <4>3, <4>4, <5>1
      <4>5. CASE env[k] = Missing
        <5>1. get(k) = Num("3001") /\ config[k] = Num("3000")
          BY ONLY <4>1, <4>2, <4>5 DEF Missing
        <5>2. Num("3001") # Num("3000")
          BY ONLY DEF Num
        <5>3. env[k] \notin readAlike[k]
          BY ONLY <4>3, <4>5 DEF Missing
        <5> QED
          BY ONLY <5>1, <5>2, <5>3
      <4>6. CASE env[k] = ""
        <5>1. get(k) = Num("0") /\ config[k] = Num("3000")
          BY ONLY <4>1, <4>2, <4>6 DEF Missing
        <5>2. Num("0") # Num("3000")
          BY ONLY DEF Num
        <5>3. env[k] \notin readAlike[k]
          BY ONLY <4>3, <4>6 DEF Missing
        <5> QED
          BY ONLY <5>1, <5>2, <5>3
      <4>7. CASE env[k] = "1e3"
        <5>1. get(k) = Num("1000") /\ config[k] = Num("1")
          BY ONLY <4>1, <4>2, <4>7 DEF Missing
        <5>2. Num("1000") # Num("1")
          BY ONLY DEF Num
        <5>3. env[k] \notin readAlike[k]
          BY ONLY <4>3, <4>7 DEF Missing
        <5> QED
          BY ONLY <5>1, <5>2, <5>3
      <4>8. CASE ~(\/ env[k] \in {"0", "1"} \/ env[k] = Missing \/ env[k] = "" \/ env[k] = "1e3")
        <5>1. get(k) = Str(env[k])
          BY ONLY <4>1, <4>8
        <5>2. config[k].type = "number" /\ get(k).type = "string"
          BY ONLY <4>2, <5>1 DEF Num, Str
        <5>3. env[k] \notin readAlike[k]
          BY ONLY <4>3, <4>8
        <5> QED
          BY ONLY <5>2, <5>3
      <4> QED
        BY ONLY <4>4, <4>5, <4>6, <4>7, <4>8, <4>9
    <3>4. CASE k = "ENABLE_TELEMETRY"
      <4>1. get(k) = IF env[k] = Missing THEN Bool("false")
                     ELSE IF env[k] \in {"true", "1"} THEN Bool("true")
                     ELSE IF env[k] \in {"false", "0"} THEN Bool("false")
                     ELSE Str(env[k])
        BY <3>4 DEF get, cast, GLOBAL_SCHEMA
      <4>2. config[k] = Bool(IF env[k] \in {Missing, "true", "1", "yes"} THEN "true"
                             ELSE "false")
        BY <2>1, <2>2, <3>4 DEF configOf
      <4>3. readAlike[k] = {"true", "1", "false", "0"}
        BY <3>4 DEF readAlike
      <4> QED
        BY ONLY <3>8, <4>1, <4>2, <4>3 DEF Missing
    <3>5. CASE k = "NODE_ENV"
      <4>1. get(k) = Str(IF env[k] = Missing THEN "development" ELSE env[k])
        BY <3>5 DEF get, cast, GLOBAL_SCHEMA
      <4>2. config[k] = Str(IF env[k] = "production" THEN "production" ELSE "development")
        BY <2>1, <2>2, <3>5 DEF configOf
      <4>3. readAlike[k] = {Missing, "production"}
        BY <3>5 DEF readAlike
      <4>4. env[k] # "development"
        BY ONLY <3>1 DEF EnvValues, Missing
      <4>5. CASE env[k] \in {Missing, "production"}
        <5>1. get(k) = config[k]
          BY ONLY <4>1, <4>2, <4>5 DEF Missing
        <5> QED
          BY ONLY <4>3, <4>5, <5>1
      <4>6. CASE env[k] \notin {Missing, "production"}
        <5>1. get(k) = Str(env[k]) /\ config[k] = Str("development")
          BY ONLY <4>1, <4>2, <4>6
        <5>2. get(k) # config[k]
          BY ONLY <3>8, <4>4, <5>1
        <5> QED
          BY ONLY <4>3, <4>6, <5>2
      <4> QED
        BY ONLY <4>5, <4>6
    <3>6. CASE k = "AUTH_PROVIDER"
      <4>1. get(k) = Str(IF env[k] = Missing THEN "none" ELSE env[k])
        BY <3>6 DEF get, cast, GLOBAL_SCHEMA
      <4>2. config[k] = Str(IF env[k] = "auth0" THEN "auth0" ELSE "none")
        BY <2>1, <2>2, <3>6 DEF configOf
      <4>3. readAlike[k] = {Missing, "auth0"}
        BY <3>6 DEF readAlike
      <4>4. env[k] # "none"
        BY ONLY <3>1 DEF EnvValues, Missing
      <4>5. CASE env[k] \in {Missing, "auth0"}
        <5>1. get(k) = config[k]
          BY ONLY <4>1, <4>2, <4>5 DEF Missing
        <5> QED
          BY ONLY <4>3, <4>5, <5>1
      <4>6. CASE env[k] \notin {Missing, "auth0"}
        <5>1. get(k) = Str(env[k]) /\ config[k] = Str("none")
          BY ONLY <4>1, <4>2, <4>6
        <5>2. get(k) # config[k]
          BY ONLY <3>8, <4>4, <5>1
        <5> QED
          BY ONLY <4>3, <4>6, <5>2
      <4> QED
        BY ONLY <4>5, <4>6
    <3>7. CASE k = "IDEIA_DEFAULT_AUTONOMY"
      <4>1. get(k) = Str(IF env[k] = Missing THEN "N2" ELSE env[k])
        BY <3>7 DEF get, cast, GLOBAL_SCHEMA
      <4>2. config[k].type = "number"
        BY <2>1, <3>7 DEF configOf
      <4>3. readAlike[k] = {}
        BY <3>7 DEF readAlike
      <4>4. \A u : Str(u).type = "string"
        BY <3>8
      <4> QED
        BY ONLY <4>1, <4>2, <4>3, <4>4
    <3> QED
      BY <3>2, <3>3, <3>4, <3>5, <3>6, <3>7 DEF EnvKeys
  <2>3. ASSUME validateEnvConfig(config)
        PROVE  /\ read["JWT_SECRET"] \notin {Missing, "", "change-me-in-production"}
               /\ read["NODE_ENV"] = "production" => read["AUTH_PROVIDER"] = "auth0"
    <3>1. /\ config["JWT_SECRET"] # Str("") /\ config["JWT_SECRET"] # Str("change-me-in-production")
          /\ config["NODE_ENV"] = Str("production") => config["AUTH_PROVIDER"] # Str("none")
      BY <2>3 DEF validateEnvConfig
    <3> QED
      BY <2>1, <3>1 DEF configOf
  <2> QED
    BY <2>1, <2>2, <2>3
<1> QED
  BY <1>1, <1>2 DEF ReadersAgree

-----------------------------------------------------------------------------
(***************************************************************************)
(* The score of a framework and the chain of evidence. The controls that   *)
(* count are three sets of different status, so their number is a sum, and *)
(* the rest is arithmetic. A hash has the place it was made for, whatever  *)
(* the content becomes.                                                    *)
(***************************************************************************)
\* A piece of evidence is hashed as it is collected, at its place.
EvidenceTexts == {"log", "policy"}

Pieces == [content : EvidenceTexts, hash : Nat \X EvidenceTexts,
           previous : Nat \X (EvidenceTexts \cup {""})]

EvidenceLinks ==
    \A i \in 1..Len(evidence) :
        /\ evidence[i].hash = <<i, evidence[i].hash[2]>>
        /\ i > 1 => evidence[i].previous = evidence[i - 1].hash

ComplianceInv == ComplianceTypeOK /\ evidence \in Seq(Pieces) /\ EvidenceLinks

LEMMA DefaultsAreControls ==
    createDefaultRegistry \in Controls /\ noControls \in Controls
<1>1. \A m, i, o \in Nat : Statuses(m, i, o) \in [ControlStatus -> Nat]
  <2>1. ASSUME NEW m \in Nat, NEW i \in Nat, NEW o \in Nat
        PROVE  Statuses(m, i, o) \in [ControlStatus -> Nat]
    <3>1. ControlStatus = {"missing", "partial", "implemented", "not_applicable"}
      BY DEF ControlStatus
    <3> QED
      BY <3>1 DEF Statuses
  <2> QED
    BY <2>1
<1>2. /\ Statuses(13, 0, 2) \in [ControlStatus -> Nat]
      /\ Statuses(13, 2, 0) \in [ControlStatus -> Nat]
      /\ Statuses(17, 0, 1) \in [ControlStatus -> Nat]
      /\ Statuses(0, 0, 0) \in [ControlStatus -> Nat]
  BY <1>1
<1>3. noControls \in Controls
  BY <1>2 DEF noControls, Controls
<1>4. createDefaultRegistry \in Controls
  BY <1>2 DEF createDefaultRegistry, Controls, Frameworks, soc2Controls, lgpdControls,
     hipaaControls
<1> QED
  BY <1>3, <1>4

LEMMA ComplianceStarts == ComplianceInit => ComplianceInv
<1> SUFFICES ASSUME ComplianceInit PROVE ComplianceInv
  OBVIOUS
<1>1. evidence = <<>> /\ Len(evidence) = 0 /\ evidence \in Seq(Pieces)
  BY EmptySeq DEF ComplianceInit
<1>2. registrations \in 0..MaxRegistered /\ Len(evidence) \in 0..MaxEvidence
  BY <1>1, ComplianceAssumption DEF ComplianceInit
<1>3. EvidenceLinks
  BY <1>1 DEF EvidenceLinks
<1> QED
  BY <1>1, <1>2, <1>3, DefaultsAreControls DEF ComplianceInit, ComplianceInv, ComplianceTypeOK

LEMMA ComplianceStepsKeepInv ==
    ComplianceInv /\ [ComplianceNext]_complianceVars => ComplianceInv'
<1> SUFFICES ASSUME ComplianceInv, [ComplianceNext]_complianceVars PROVE ComplianceInv'
  OBVIOUS
<1> USE DEF ComplianceInv
<1>0. /\ scored \in Controls /\ unscored \in Controls
      /\ registrations \in 0..MaxRegistered /\ Len(evidence) \in 0..MaxEvidence
  BY DEF ComplianceTypeOK
<1>1. ASSUME NEW f \in Frameworks, NEW s \in ControlStatus, registerControl(f, s)
      PROVE  ComplianceInv'
  <2>1. UNCHANGED <<scored, evidence>>
    BY <1>1 DEF registerControl
  <2>2. registrations' \in 0..MaxRegistered
    BY <1>0, <1>1, ComplianceAssumption DEF registerControl
  <2>3. unscored' \in Controls
    BY <1>0, <1>1 DEF registerControl, Controls
  <2> QED
    BY <1>0, <2>1, <2>2, <2>3 DEF ComplianceTypeOK, EvidenceLinks
<1>2. ASSUME NEW f \in Frameworks, NEW s \in ControlStatus, NEW t \in ControlStatus, s # t,
             Assess(f, s, t)
      PROVE  ComplianceInv'
  <2>1. UNCHANGED <<unscored, evidence, registrations>>
    BY <1>2 DEF Assess
  <2>2. scored' \in Controls
    <3>1. scored[f][s] \in Nat /\ scored[f][s] > 0 /\ scored[f][t] \in Nat
      BY <1>0, <1>2 DEF Assess, Controls
    <3>2. PICK fewer : fewer = [scored[f] EXCEPT ![s] = @ - 1]
      OBVIOUS
    <3>3. fewer \in [ControlStatus -> Nat]
      BY <1>0, <3>1, <3>2 DEF Controls
    <3>4. [fewer EXCEPT ![t] = @ + 1] \in [ControlStatus -> Nat]
      BY <3>3
    <3>5. scored' = [scored EXCEPT ![f] = [fewer EXCEPT ![t] = @ + 1]]
      BY <1>0, <1>2, <3>2 DEF Assess, Controls
    <3> QED
      BY <1>0, <3>4, <3>5 DEF Controls
  <2> QED
    BY <1>0, <2>1, <2>2 DEF ComplianceTypeOK, EvidenceLinks
<1>3. CASE newCalculator
  <2>1. scored' = [f \in Frameworks |-> statistics(f)] /\ unscored' = noControls
        /\ UNCHANGED <<evidence, registrations>>
    BY <1>3 DEF newCalculator
  <2>2. ASSUME NEW f \in Frameworks PROVE statistics(f) \in [ControlStatus -> Nat]
    <3>1. \A s \in ControlStatus : scored[f][s] \in Nat /\ unscored[f][s] \in Nat
      BY <1>0 DEF Controls
    <3>2. \A s \in ControlStatus : scored[f][s] + unscored[f][s] \in Nat
      BY <3>1
    <3> QED
      BY <3>2 DEF statistics
  <2>3. scored' \in Controls
    BY <2>1, <2>2 DEF Controls
  <2> QED
    BY <1>0, <2>1, <2>3, DefaultsAreControls DEF ComplianceTypeOK, EvidenceLinks
<1>4. ASSUME NEW words \in EvidenceTexts, collect(words) PROVE ComplianceInv'
  <2> DEFINE i == Len(evidence) + 1
             piece == [content |-> words, hash |-> hashOf(i, words),
                       previous |-> IF i = 1 THEN Genesis ELSE evidence[i - 1].hash]
  <2>1. /\ i <= MaxEvidence /\ evidence' = Append(evidence, piece)
        /\ UNCHANGED <<scored, unscored, registrations>>
    BY <1>4 DEF collect
  <2>2. Len(evidence) \in Nat /\ i \in Nat
    BY <1>0
  <2>3. piece.previous \in Nat \X (EvidenceTexts \cup {""})
    <3>1. CASE i = 1
      BY <3>1 DEF Genesis
    <3>2. CASE i # 1
      <4>1. i - 1 \in 1..Len(evidence)
        BY <2>2, <3>2
      <4>2. evidence[i - 1] \in Pieces
        BY <4>1, ElementOfSeq
      <4>3. evidence[i - 1].hash \in Nat \X EvidenceTexts
        BY <4>2 DEF Pieces
      <4> QED
        BY <3>2, <4>3
    <3> QED
      BY <3>1, <3>2
  <2>4. piece.hash = <<i, words>> /\ piece.content = words
    BY DEF hashOf
  <2>5. piece \in Pieces
    <3>1. piece.hash \in Nat \X EvidenceTexts
      BY <2>2, <2>4
    <3>2. PICK h, w : h = piece.hash /\ w = piece.previous
      OBVIOUS
    <3>3. piece = [content |-> words, hash |-> h, previous |-> w]
      BY <3>2
    <3> QED
      BY <2>3, <3>1, <3>2, <3>3 DEF Pieces
  <2>6. piece.previous = IF i = 1 THEN Genesis ELSE evidence[i - 1].hash
    OBVIOUS
  <2> HIDE DEF piece
  <2>7. /\ evidence' \in Seq(Pieces) /\ Len(evidence') = i /\ evidence'[i] = piece
        /\ \A k \in 1..Len(evidence) : evidence'[k] = evidence[k]
    BY <2>1, <2>5, AppendProperties
  <2>8. EvidenceLinks'
    <3>1. ASSUME NEW k \in 1..Len(evidence')
          PROVE  /\ evidence'[k].hash = <<k, evidence'[k].hash[2]>>
                 /\ k > 1 => evidence'[k].previous = evidence'[k - 1].hash
      <4>1. CASE k \in 1..Len(evidence)
        <5>1. k > 1 => k - 1 \in 1..Len(evidence)
          BY <2>2, <4>1
        <5> QED
          BY <2>7, <4>1, <5>1 DEF EvidenceLinks
      <4>2. CASE k = i
        <5>1. k > 1 => k # 1 /\ k - 1 \in 1..Len(evidence)
          BY <2>2, <4>2
        <5>2. evidence'[k].hash = <<k, words>>
          BY <2>4, <2>7, <4>2
        <5>3. k > 1 => evidence'[k].previous = evidence[k - 1].hash
          BY <2>6, <2>7, <4>2, <5>1
        <5> QED
          BY <2>7, <5>1, <5>2, <5>3
      <4>3. k \in 1..Len(evidence) \/ k = i
        BY <2>2, <2>7, <3>1
      <4> QED
        BY <4>1, <4>2, <4>3
    <3> QED
      BY <3>1 DEF EvidenceLinks
  <2>9. Len(evidence') \in 0..MaxEvidence
    BY <2>1, <2>2, <2>7, ComplianceAssumption
  <2> QED
    BY <1>0, <2>1, <2>7, <2>8, <2>9 DEF ComplianceTypeOK
<1>5. ASSUME NEW i \in DOMAIN evidence, NEW words \in EvidenceTexts, Rewrite(i, words)
      PROVE  ComplianceInv'
  <2>1. /\ evidence' = [evidence EXCEPT ![i].content = words]
        /\ UNCHANGED <<scored, unscored, registrations>>
    BY <1>5 DEF Rewrite
  <2>2. PICK n \in Nat : n = Len(evidence) /\ DOMAIN evidence = 1..n
    BY LenProperties
  <2>3. \A k \in 1..n : evidence[k] \in Pieces
    BY <2>2, ElementOfSeq
  <2>4. PICK piece : piece = [evidence[i] EXCEPT !.content = words]
    OBVIOUS
  <2>5. piece \in Pieces /\ piece.hash = evidence[i].hash
        /\ piece.previous = evidence[i].previous
    BY <2>2, <2>3, <2>4 DEF Pieces
  <2>6. evidence' = [evidence EXCEPT ![i] = piece]
    BY <2>1, <2>4
  <2>7. evidence' \in Seq(Pieces) /\ Len(evidence') = n
    BY <2>2, <2>5, <2>6, ExceptSeq
  <2>8. \A k \in 1..n : /\ evidence'[k].hash = evidence[k].hash
                        /\ evidence'[k].previous = evidence[k].previous
    BY <2>2, <2>5, <2>6
  <2>9. EvidenceLinks'
    <3>1. ASSUME NEW k \in 1..n
          PROVE  /\ evidence'[k].hash = <<k, evidence'[k].hash[2]>>
                 /\ k > 1 => evidence'[k].previous = evidence'[k - 1].hash
      <4>1. k > 1 => k - 1 \in 1..n
        BY <2>2
      <4> QED
        BY <2>2, <2>8, <4>1 DEF EvidenceLinks
    <3> QED
      BY <2>7, <3>1 DEF EvidenceLinks
  <2> QED
    BY <1>0, <2>1, <2>2, <2>7, <2>9 DEF ComplianceTypeOK
<1>6. CASE UNCHANGED complianceVars
  BY <1>0, <1>6 DEF ComplianceTypeOK, EvidenceLinks, complianceVars
<1> QED
  BY <1>1, <1>2, <1>3, <1>4, <1>5, <1>6 DEF ComplianceNext, EvidenceTexts

-----------------------------------------------------------------------------
\* The total of a score counts its three statuses.
LEMMA StatusesCounted ==
    ASSUME ComplianceTypeOK, NEW f \in Frameworks
    PROVE  /\ applicable(f) = scored[f]["implemented"] + scored[f]["partial"]
                              + scored[f]["missing"]
           /\ applicable(f) \in Nat
<1> DEFINE of(s) == {s} \X (1..scored[f][s])
<1>1. ASSUME NEW s \in ControlStatus
      PROVE  /\ IsFiniteSet(of(s)) /\ Cardinality(of(s)) = scored[f][s] /\ scored[f][s] \in Nat
             /\ \A c \in of(s) : c[1] = s
  <2>1. PICK n \in Nat : n = scored[f][s]
    BY DEF ComplianceTypeOK, Controls
  <2>2. 1 \in Int /\ n \in Int
    BY <2>1
  <2>3. IsFiniteSet(1..n) /\ Cardinality(1..n) = n
    <3>1. IsFiniteSet(1..n) /\ Cardinality(1..n) = IF 1 > n THEN 0 ELSE n - 1 + 1
      BY <2>2, FS_Interval
    <3> QED
      BY <2>1, <3>1
  <2>4. IsFiniteSet({s}) /\ Cardinality({s}) = 1
    BY FS_Singleton
  <2>5. /\ IsFiniteSet({s} \X (1..n))
        /\ Cardinality({s} \X (1..n)) = Cardinality({s}) * Cardinality(1..n)
    BY <2>3, <2>4, FS_Product
  <2>6. Cardinality({s} \X (1..n)) = n
    BY <2>1, <2>3, <2>4, <2>5
  <2> QED
    BY <2>1, <2>5, <2>6
<1>2. ControlStatus = {"missing", "partial", "implemented", "not_applicable"}
  BY DEF ControlStatus
<1>3. PICK M, P, I : M = of("missing") /\ P = of("partial") /\ I = of("implemented")
  OBVIOUS
<1>4. PICK N : N = of("not_applicable")
  OBVIOUS
<1>5. {c \in frameworkControls(f) : c[1] # "not_applicable"} = (M \cup P) \cup I
  <2>1. frameworkControls(f) = UNION {of(s) : s \in ControlStatus}
    BY DEF frameworkControls
  <2>2. frameworkControls(f) = ((M \cup P) \cup I) \cup N
    BY <1>2, <1>3, <1>4, <2>1
  <2>3. /\ \A c \in M : c[1] = "missing"
        /\ \A c \in P : c[1] = "partial"
        /\ \A c \in I : c[1] = "implemented"
        /\ \A c \in N : c[1] = "not_applicable"
    BY <1>1, <1>2, <1>3, <1>4
  <2> QED
    BY <2>2, <2>3
<1>6. /\ IsFiniteSet(M) /\ Cardinality(M) = scored[f]["missing"]
      /\ IsFiniteSet(P) /\ Cardinality(P) = scored[f]["partial"]
      /\ IsFiniteSet(I) /\ Cardinality(I) = scored[f]["implemented"]
      /\ scored[f]["missing"] \in Nat /\ scored[f]["partial"] \in Nat
      /\ scored[f]["implemented"] \in Nat
  BY <1>1, <1>2, <1>3
<1>7. M \cap P = {} /\ (M \cup P) \cap I = {}
  <2>1. /\ \A c \in M : c[1] = "missing"
        /\ \A c \in P : c[1] = "partial"
        /\ \A c \in I : c[1] = "implemented"
    BY <1>1, <1>2, <1>3
  <2> QED
    BY <2>1
<1> HIDE DEF of
<1>8. IsFiniteSet(M \cup P) /\ Cardinality(M \cup P)
        = scored[f]["missing"] + scored[f]["partial"]
  <2>1. IsFiniteSet(M \cup P) /\ Cardinality(M \cup P)
          = Cardinality(M) + Cardinality(P) - Cardinality(M \cap P)
    BY <1>6, FS_Union
  <2>2. Cardinality(M \cap P) = 0
    BY <1>7, FS_EmptySet
  <2> QED
    BY <1>6, <2>1, <2>2
<1>9. Cardinality((M \cup P) \cup I)
        = (scored[f]["missing"] + scored[f]["partial"]) + scored[f]["implemented"]
  <2>1. Cardinality((M \cup P) \cup I)
          = Cardinality(M \cup P) + Cardinality(I) - Cardinality((M \cup P) \cap I)
    BY <1>6, <1>8, FS_Union
  <2>2. Cardinality((M \cup P) \cap I) = 0
    BY <1>7, FS_EmptySet
  <2> QED
    BY <1>6, <1>8, <2>1, <2>2
<1>10. applicable(f)
         = (scored[f]["missing"] + scored[f]["partial"]) + scored[f]["implemented"]
  BY <1>5, <1>9 DEF applicable
<1> QED
  BY <1>6, <1>10

\* Rounded to hundredths, a score is within its scale, and an A has its controls.
LEMMA QuotientFits ==
    ASSUME NEW a \in Nat, NEW b \in Nat \ {0}
    PROVE  a \div b \in Nat /\ b * (a \div b) <= a
<1>1. PICK q \in Int : q = a \div b
  OBVIOUS
<1>2. b * q <= a /\ q >= 0
  BY <1>1
<1> QED
  BY <1>1, <1>2

LEMMA RoundedScore ==
    ASSUME NEW i \in Nat, NEW p \in Nat, NEW m \in Nat, NEW total \in Nat \ {0},
           total = i + p + m, NEW q \in Nat,
           (2 * total) * q <= 200 * (100 * i + 50 * p) + total
    PROVE  q <= 10000 /\ (q >= 9000 => 10000 * (p + m) <= 2001 * total)
<1>1. (2 * total) * q <= 20000 * i + 10000 * p + total
  OBVIOUS
<1>2. 20000 * i + 10000 * p + total <= 20001 * total
  OBVIOUS
<1>3. PICK b \in Nat : b = 2 * total /\ b > 0
  OBVIOUS
<1>4. q <= 10000
  <2>1. SUFFICES ASSUME q >= 10001 PROVE FALSE
    OBVIOUS
  <2>2. b * q >= b * 10001
    BY <1>3, <2>1
  <2>3. b * 10001 = 20002 * total
    BY <1>3
  <2>4. b * q <= 20001 * total
    BY <1>1, <1>2, <1>3
  <2>5. 20002 * total <= 20001 * total
    BY <1>3, <2>2, <2>3, <2>4
  <2> QED
    BY <2>5
<1>5. ASSUME q >= 9000 PROVE 10000 * (p + m) <= 2001 * total
  <2>1. b * q >= b * 9000
    BY <1>3, <1>5
  <2>2. b * 9000 = 18000 * total
    BY <1>3
  <2>3. 20000 * i + 10000 * p + total >= 18000 * total
    BY <1>1, <1>3, <2>1, <2>2
  <2> QED
    BY <2>3
<1> QED
  BY <1>4, <1>5

LEMMA ScoresStayAddedUp == ComplianceInv => ScoresAddUp
<1> SUFFICES ASSUME ComplianceInv PROVE ScoresAddUp
  OBVIOUS
<1>1. ASSUME NEW f \in Frameworks
      PROVE  LET given == scored[f]
                 total == applicable(f)
             IN  /\ total = given["implemented"] + given["partial"] + given["missing"]
                 /\ score(f) \in 0..10000
                 /\ level(f) = "A" =>
                      10000 * (given["partial"] + given["missing"]) <= 2001 * total
  <2>1. PICK i \in Nat, p \in Nat, m \in Nat :
           i = scored[f]["implemented"] /\ p = scored[f]["partial"] /\ m = scored[f]["missing"]
    BY DEF ComplianceInv, ComplianceTypeOK, Controls, ControlStatus
  <2>2. PICK total \in Nat : total = applicable(f) /\ total = i + p + m
    BY <2>1, StatusesCounted DEF ComplianceInv
  <2>3. CASE total = 0
    <3>1. score(f) = 0
      BY <2>2, <2>3 DEF score
    <3>2. level(f) = "F"
      BY <3>1 DEF level, getLevel
    <3> QED
      BY <2>1, <2>2, <3>1, <3>2
  <2>4. CASE total # 0
    <3>0. PICK a \in Nat, b \in Nat \ {0} :
             a = 200 * (100 * i + 50 * p) + total /\ b = 2 * total
      BY <2>4
    <3>1. PICK q \in Nat : q = a \div b /\ b * q <= a
      BY <3>0, QuotientFits
    <3>2. score(f) = q
      BY <2>1, <2>2, <2>4, <3>0, <3>1 DEF score
    <3>3. q \in 0..10000 /\ (q >= 9000 => 10000 * (p + m) <= 2001 * total)
      <4>1. (2 * total) * q <= 200 * (100 * i + 50 * p) + total
        BY <3>0, <3>1
      <4>2. q <= 10000 /\ (q >= 9000 => 10000 * (p + m) <= 2001 * total)
        BY <2>2, <2>4, <4>1, RoundedScore
      <4> QED
        BY <4>2
    <3>4. level(f) = "A" => q >= 9000
      <4>1. ASSUME ~(q >= 9000) PROVE level(f) # "A"
        <5>1. getLevel(q) \in {"B", "C", "D", "F"}
          BY <3>1, <4>1 DEF getLevel
        <5> QED
          BY <3>2, <5>1 DEF level
      <4> QED
        BY <4>1
    <3> QED
      BY <2>1, <2>2, <3>2, <3>3, <3>4
  <2> QED
    BY <2>3, <2>4
<1>2. verifyChain <=> \A i \in DOMAIN evidence : evidence[i].hash[2] = evidence[i].content
  <2>1. PICK n \in Nat : n = Len(evidence) /\ DOMAIN evidence = 1..n
    BY LenProperties DEF ComplianceInv
  <2>2. ASSUME NEW i \in 1..n
        PROVE  /\ evidence[i].hash = <<i, evidence[i].hash[2]>>
               /\ i > 1 => evidence[i].previous = evidence[i - 1].hash
    BY <2>1 DEF ComplianceInv, EvidenceLinks
  <2>3. \A i \in 1..n : hashOf(i, evidence[i].content) = evidence[i].hash
                          <=> evidence[i].hash[2] = evidence[i].content
    BY <2>2 DEF hashOf
  <2> QED
    BY <2>1, <2>2, <2>3 DEF verifyChain
<1> QED
  BY <1>1, <1>2 DEF ScoresAddUp

-----------------------------------------------------------------------------
(***************************************************************************)
(* The two editors. A field whose mark is gone and that was not reset has  *)
(* what was loaded. A document holds values a conversion can take, and     *)
(* every default of the schema fits its field.                             *)
(***************************************************************************)
\* The form: a field that is not marked, and was not reset, has what was loaded.
FormInv ==
    /\ fields = [k \in DOMAIN fields |-> fields[k]]
    /\ DOMAIN fields \subseteq Keys /\ DOMAIN loadedConfig = DOMAIN fields
    /\ \A k \in DOMAIN fields : /\ fields[k].value \in FormValues
                                /\ fields[k].type = determineType(fields[k].value)
    /\ modifiedFields \subseteq Keys /\ unmarked \subseteq DOMAIN fields
    /\ expandedCategories \subseteq {determineCategory(k) : k \in Keys}
    /\ \A k \in DOMAIN fields : k \notin unmarked /\ k \notin modifiedFields =>
          fields[k].value = loadedConfig[k]

LEMMA FormStarts == FormInit => FormInv
  BY DEF FormInit, FormInv

LEMMA FormStepsKeepInv == FormInv /\ [FormNext]_formVars => FormInv'
<1> SUFFICES ASSUME FormInv, [FormNext]_formVars PROVE FormInv'
  OBVIOUS
<1>1. ASSUME NEW S \in SUBSET Keys, NEW config \in [S -> FormValues], loadFromConfig(config)
      PROVE  FormInv'
  <2>1. /\ fields' = [k \in S |-> shown(config[k])] /\ DOMAIN config = S
        /\ expandedCategories' = {determineCategory(k) : k \in S}
        /\ loadedConfig' = config /\ unmarked' = {} /\ modifiedFields' = modifiedFields
    BY <1>1 DEF loadFromConfig, categorizeConfig, categoriesOf
  <2>2. DOMAIN fields' = S /\ \A k \in S : /\ fields'[k].value = config[k]
                                           /\ fields'[k].type = determineType(config[k])
    BY <2>1 DEF shown
  <2>3. \A k \in S : config[k] \in FormValues
    OBVIOUS
  <2>4. expandedCategories' \subseteq {determineCategory(k) : k \in Keys}
    BY <2>1
  <2> QED
    BY <2>1, <2>2, <2>3, <2>4 DEF FormInv
<1>2. ASSUME NEW k \in Keys, NEW value \in FormValues, updateField(k, value) PROVE FormInv'
  <2>1. /\ k \in DOMAIN fields /\ fields' = [fields EXCEPT ![k] = shown(value)]
        /\ modifiedFields' = modifiedFields \cup {k} /\ unmarked' = unmarked \ {k}
        /\ UNCHANGED <<expandedCategories, loadedConfig>>
    BY <1>2 DEF updateField
  <2>2. /\ DOMAIN fields' = DOMAIN fields
        /\ \A j \in DOMAIN fields : fields'[j] = IF j = k THEN shown(value) ELSE fields[j]
    BY <2>1 DEF FormInv
  <2>3. shown(value).value = value /\ shown(value).type = determineType(value)
    BY DEF shown
  <2> QED
    BY <2>1, <2>2, <2>3 DEF FormInv
<1>3. ASSUME NEW k \in Keys, resetField(k) PROVE FormInv'
  BY <1>3 DEF FormInv, resetField, changed
<1>4. CASE resetAllFields
  BY <1>4 DEF FormInv, resetAllFields, changed
<1>5. ASSUME NEW names, names \subseteq {determineCategory(k) : k \in Keys}, expand(names)
      PROVE  FormInv'
  BY <1>5 DEF FormInv, expand
<1>6. ASSUME NEW k \in Keys, toggleCategory(determineCategory(k)) PROVE FormInv'
  <2>1. PICK names : /\ expand(names)
                     /\ names \subseteq expandedCategories \cup {determineCategory(k)}
    BY <1>6 DEF toggleCategory
  <2>2. names \subseteq {determineCategory(j) : j \in Keys}
    BY <2>1 DEF FormInv
  <2> QED
    BY <1>5, <2>1, <2>2
<1>7. CASE expandAll
  <2>1. categoriesOf(fields) \subseteq {determineCategory(k) : k \in Keys}
    BY DEF FormInv, categoriesOf
  <2> QED
    BY <1>5, <1>7, <2>1 DEF expandAll
<1>8. CASE collapseAll
  BY <1>5, <1>8 DEF collapseAll
<1>9. CASE UNCHANGED formVars
  BY <1>9 DEF FormInv, formVars
<1> QED
  BY <1>1, <1>2, <1>3, <1>4, <1>6, <1>7, <1>8, <1>9 DEF FormNext

LEMMA MarksStayChanges == FormInv => MarksAreChanges
<1> SUFFICES ASSUME FormInv PROVE MarksAreChanges
  OBVIOUS
<1>1. \A k \in DOMAIN fields \ unmarked :
         exportToConfig[k] = IF k \in getModifiedFields THEN fields[k].value ELSE loadedConfig[k]
  BY DEF FormInv, exportToConfig, getModifiedFields
<1>2. \A k \in DOMAIN fields : toJsonSchema[k] = determineType(exportToConfig[k])
  BY DEF FormInv, toJsonSchema, exportToConfig
<1>3. IsFiniteSet(DOMAIN fields) /\ IsFiniteSet(modifiedFields)
  BY KeysAssumption, FS_Subset DEF FormInv
<1>4. getDashboardCards.total - getDashboardCards.configured = Cardinality(getSuggestions)
  <2>1. PICK D, G : D = DOMAIN fields /\ G = getSuggestions
    OBVIOUS
  <2>2. G \subseteq D /\ IsFiniteSet(D)
    BY <1>3, <2>1 DEF getSuggestions
  <2>3. IsFiniteSet(G) /\ D \cap G = G
    BY <2>2, FS_Subset
  <2>4. Cardinality(D \ G) = Cardinality(D) - Cardinality(D \cap G)
    BY <2>2, <2>3, FS_Difference
  <2>5. Cardinality(D) \in Nat /\ Cardinality(G) \in Nat
    BY <2>2, <2>3, FS_CardinalityType
  <2>6. getDashboardCards.total = Cardinality(D) /\ getDashboardCards.configured = Cardinality(D \ G)
    BY <2>1 DEF getDashboardCards
  <2>7. Cardinality(D) - Cardinality(D \ G) = Cardinality(G)
    BY <2>3, <2>4, <2>5
  <2> QED
    BY <2>1, <2>6, <2>7
<1>5. Cardinality(getModifiedFields) <= getDashboardCards.modified
  <2>1. getModifiedFields \in SUBSET modifiedFields
    BY DEF getModifiedFields
  <2>2. Cardinality(getModifiedFields) <= Cardinality(modifiedFields)
    BY <1>3, <2>1, FS_Subset
  <2> QED
    BY <2>2 DEF getDashboardCards
<1> QED
  BY <1>1, <1>2, <1>4, <1>5 DEF MarksAreChanges

-----------------------------------------------------------------------------
\* What a document holds.
documentValue(value) ==
    /\ value.type \in {"string", "number", "boolean", "array"} \/ absent(value)
    /\ value.type = "boolean" => value = Boolean("true") \/ value = Boolean("false")

DocumentInv ==
    /\ document = [p \in SchemaPaths |-> document[p]]
    /\ \A p \in SchemaPaths : documentValue(document[p])

\* A default fits its field.
fits(f) ==
    /\ ~absent(f.defaultValue) /\ documentValue(f.defaultValue)
    /\ f.type \in {"number", "boolean"} => f.defaultValue.type = f.type
    /\ f.type = "enum" => f.defaultValue.text \in f.enumValues
    /\ f.required => ~falsy(f.defaultValue)

LEMMA TextsFit ==
    ASSUME NEW t, t # "", NEW required, NEW enums, t \in enums
    PROVE  fits(Field("enum", required, Text(t), enums))
<1> DEFINE f == Field("enum", required, Text(t), enums)
<1>1. f.type = "enum" /\ f.defaultValue = Text(t) /\ f.enumValues = enums
  BY DEF Field
<1>2. Text(t).type = "string" /\ Text(t).text = t
  BY DEF Text
<1> HIDE DEF f
<1>3. Text(t) # Null /\ Text(t) # Undefined
  <2>1. Null.type = "null" /\ Undefined.type = "undefined"
    BY DEF Null, Undefined
  <2> QED
    BY <1>2, <2>1
<1>4. ~falsy(Text(t)) /\ ~absent(Text(t))
  <2>1. /\ Boolean("false").type = "boolean" /\ Numeral("0").type = "number"
        /\ Numeral("NaN").type = "number" /\ Text("").text = ""
    BY DEF Boolean, Numeral, Text
  <2>2. /\ Text(t) # Boolean("false") /\ Text(t) # Numeral("0")
        /\ Text(t) # Numeral("NaN") /\ Text(t) # Text("")
    BY <1>2, <2>1
  <2> QED
    BY <1>3, <2>2 DEF falsy, absent
<1>5. documentValue(Text(t))
  BY <1>2 DEF documentValue
<1>6. fits(f)
  BY <1>1, <1>2, <1>4, <1>5 DEF fits
<1> QED
  BY <1>6 DEF f

LEMMA ListsFit ==
    ASSUME NEW t, NEW required, NEW enums
    PROVE  fits(Field("array", required, List(t), enums))
<1> DEFINE f == Field("array", required, List(t), enums)
<1>1. f.type = "array" /\ f.defaultValue = List(t)
  BY DEF Field
<1>2. List(t).type = "array"
  BY DEF List
<1> HIDE DEF f
<1>3. List(t) # Null /\ List(t) # Undefined
  <2>1. Null.type = "null" /\ Undefined.type = "undefined"
    BY DEF Null, Undefined
  <2> QED
    BY <1>2, <2>1
<1>4. ~falsy(List(t)) /\ ~absent(List(t))
  <2>1. /\ Boolean("false").type = "boolean" /\ Numeral("0").type = "number"
        /\ Numeral("NaN").type = "number" /\ Text("").type = "string"
    BY DEF Boolean, Numeral, Text
  <2>2. /\ List(t) # Boolean("false") /\ List(t) # Numeral("0")
        /\ List(t) # Numeral("NaN") /\ List(t) # Text("")
    BY <1>2, <2>1
  <2> QED
    BY <1>3, <2>2 DEF falsy, absent
<1>5. documentValue(List(t))
  BY <1>2 DEF documentValue
<1>6. fits(f)
  BY <1>1, <1>4, <1>5 DEF fits
<1> QED
  BY <1>6 DEF f

LEMMA NumeralsFit ==
    ASSUME NEW t \in {"10", "60"}, NEW required
    PROVE  fits(Field("number", required, Numeral(t), {}))
  BY DEF fits, Field, Text, absent, falsy, documentValue, Null, Undefined, Boolean, Numeral

LEMMA BooleansFit ==
    ASSUME NEW t \in {"true", "false"}, NEW required \in BOOLEAN, required => t = "true"
    PROVE  fits(Field("boolean", required, Boolean(t), {}))
  BY DEF fits, Field, Text, absent, falsy, documentValue, Null, Undefined, Boolean, Numeral

LEMMA DefaultsFit ==
    ASSUME NEW p \in SchemaPaths
    PROVE  fits(getField(p))
<1>0. PICK c \in DOMAIN CONFIG_SCHEMA : p \in {<<c, k>> : k \in DOMAIN CONFIG_SCHEMA[c]}
  BY DEF SchemaPaths
<1>1. PICK k : k \in DOMAIN CONFIG_SCHEMA[c] /\ p = <<c, k>>
  BY <1>0
<1>2. getField(p) = CONFIG_SCHEMA[c][k]
  BY <1>1 DEF getField
<1>3. c \in {"autonomy", "scanners", "safety", "ui", "telemetry"}
  BY DEF CONFIG_SCHEMA
<1>4. CASE c = "autonomy"
  <2>1. k \in {"level", "maxActionsPerMinute", "requireApproval"}
    BY <1>1, <1>4 DEF CONFIG_SCHEMA
  <2>2. CASE k = "level"
    <3>1. getField(p) = Field("enum", TRUE, Text("N1"), {"N0", "N1", "N2", "N3", "N4"})
      BY <1>2, <1>4, <2>2 DEF CONFIG_SCHEMA
    <3>2. fits(Field("enum", TRUE, Text("N1"), {"N0", "N1", "N2", "N3", "N4"}))
      BY TextsFit
    <3> QED
      BY <3>1, <3>2
  <2>3. CASE k = "maxActionsPerMinute"
    <3>1. getField(p) = Field("number", FALSE, Numeral("10"), {})
      BY <1>2, <1>4, <2>3 DEF CONFIG_SCHEMA
    <3> QED
      BY <3>1, NumeralsFit
  <2>4. CASE k = "requireApproval"
    <3>1. getField(p) = Field("boolean", FALSE, Boolean("true"), {})
      BY <1>2, <1>4, <2>4 DEF CONFIG_SCHEMA
    <3> QED
      BY <3>1, BooleansFit
  <2> QED
    BY <2>1, <2>2, <2>3, <2>4
<1>5. CASE c = "scanners"
  <2>1. k \in {"enabled", "interval", "types"}
    BY <1>1, <1>5 DEF CONFIG_SCHEMA
  <2>2. CASE k = "enabled"
    <3>1. getField(p) = Field("boolean", FALSE, Boolean("true"), {})
      BY <1>2, <1>5, <2>2 DEF CONFIG_SCHEMA
    <3> QED
      BY <3>1, BooleansFit
  <2>3. CASE k = "interval"
    <3>1. getField(p) = Field("number", FALSE, Numeral("60"), {})
      BY <1>2, <1>5, <2>3 DEF CONFIG_SCHEMA
    <3> QED
      BY <3>1, NumeralsFit
  <2>4. CASE k = "types"
    <3>1. getField(p) = Field("array", FALSE, List("dependencies,secrets,quality"), {})
      BY <1>2, <1>5, <2>4 DEF CONFIG_SCHEMA
    <3>2. fits(Field("array", FALSE, List("dependencies,secrets,quality"), {}))
      BY ListsFit
    <3> QED
      BY <3>1, <3>2
  <2> QED
    BY <2>1, <2>2, <2>3, <2>4
<1>6. CASE c = "safety"
  <2>1. k \in {"sandbox", "auditEnabled", "outputValidation"}
    BY <1>1, <1>6 DEF CONFIG_SCHEMA
  <2>2. CASE k \in {"sandbox", "auditEnabled"}
    <3>1. getField(p) = Field("boolean", TRUE, Boolean("true"), {})
      <4>1. CASE k = "sandbox"
        BY <1>2, <1>6, <4>1 DEF CONFIG_SCHEMA
      <4>2. CASE k = "auditEnabled"
        BY <1>2, <1>6, <4>2 DEF CONFIG_SCHEMA
      <4> QED
        BY <2>2, <4>1, <4>2
    <3> QED
      BY <3>1, BooleansFit
  <2>3. CASE k = "outputValidation"
    <3>1. getField(p) = Field("boolean", FALSE, Boolean("true"), {})
      BY <1>2, <1>6, <2>3 DEF CONFIG_SCHEMA
    <3> QED
      BY <3>1, BooleansFit
  <2> QED
    BY <2>1, <2>2, <2>3
<1>7. CASE c = "ui"
  <2>1. k \in {"theme", "notifications"}
    BY <1>1, <1>7 DEF CONFIG_SCHEMA
  <2>2. CASE k = "theme"
    <3>1. getField(p) = Field("enum", FALSE, Text("dark"), {"dark", "light", "high-contrast"})
      BY <1>2, <1>7, <2>2 DEF CONFIG_SCHEMA
    <3>2. fits(Field("enum", FALSE, Text("dark"), {"dark", "light", "high-contrast"}))
      BY TextsFit
    <3> QED
      BY <3>1, <3>2
  <2>3. CASE k = "notifications"
    <3>1. getField(p) = Field("boolean", FALSE, Boolean("true"), {})
      BY <1>2, <1>7, <2>3 DEF CONFIG_SCHEMA
    <3> QED
      BY <3>1, BooleansFit
  <2> QED
    BY <2>1, <2>2, <2>3
<1>8. CASE c = "telemetry"
  <2>1. k \in {"enabled", "level"}
    BY <1>1, <1>8 DEF CONFIG_SCHEMA
  <2>2. CASE k = "enabled"
    <3>1. getField(p) = Field("boolean", FALSE, Boolean("false"), {})
      BY <1>2, <1>8, <2>2 DEF CONFIG_SCHEMA
    <3> QED
      BY <3>1, BooleansFit
  <2>3. CASE k = "level"
    <3>1. getField(p) = Field("enum", FALSE, Text("basic"), {"minimal", "basic", "detailed"})
      BY <1>2, <1>8, <2>3 DEF CONFIG_SCHEMA
    <3>2. fits(Field("enum", FALSE, Text("basic"), {"minimal", "basic", "detailed"}))
      BY TextsFit
    <3> QED
      BY <3>1, <3>2
  <2> QED
    BY <2>1, <2>2, <2>3
<1> QED
  BY <1>3, <1>4, <1>5, <1>6, <1>7, <1>8

\* What a conversion makes of a value.
LEMMA ConversionFits ==
    ASSUME NEW f, NEW value, documentValue(value)
    PROVE  /\ documentValue(asJson(value)) /\ documentValue(coerced(f, asJson(value)))
           /\ ~wrongType(f, coerced(f, asJson(value)))
           /\ f.type \notin {"number", "boolean"} => coerced(f, asJson(value)) = asJson(value)
           /\ ~wrongType(f, value) => coerced(f, asJson(value)) = asJson(value)
<1>1. PICK v : v = asJson(value) /\ (v = value \/ v = Null)
  BY DEF asJson
<1>2. absent(Null)
  BY DEF absent
<1>3. documentValue(v)
  <2>1. documentValue(Null)
    BY DEF documentValue, absent, Null
  <2> QED
    BY <1>1, <2>1
<1>4. ~wrongType(f, value) => ~wrongType(f, v)
  BY <1>1, <1>2 DEF wrongType
<1>5. CASE absent(v)
  <2>1. coerced(f, v) = v
    BY <1>5 DEF coerced
  <2>2. ~wrongType(f, v)
    BY <1>5 DEF wrongType
  <2> QED
    BY <1>1, <1>3, <2>1, <2>2
<1>6. CASE ~absent(v) /\ f.type = "number"
  <2>1. coerced(f, v) = NumberOf(v)
    BY <1>6 DEF coerced
  <2>2. NumberOf(v).type = "number" /\ (v.type = "number" => NumberOf(v) = v)
    <3>1. \A t : Numeral(t).type = "number"
      BY DEF Numeral
    <3>2. CASE v.type = "number"
      BY <3>2 DEF NumberOf
    <3>3. CASE v.type # "number"
      <4>1. NumberOf(v) \in {Numeral("1"), Numeral("0"), Numeral(v.text), Numeral("NaN")}
        BY <3>3 DEF NumberOf
      <4> QED
        BY <3>1, <3>3, <4>1
    <3> QED
      BY <3>2, <3>3
  <2>3. documentValue(NumberOf(v))
    BY <2>2 DEF documentValue
  <2> QED
    BY <1>1, <1>3, <1>4, <1>6, <2>1, <2>2, <2>3 DEF wrongType
<1>7. CASE ~absent(v) /\ f.type = "boolean"
  <2>1. coerced(f, v) = Boolean(IF isTrue(v) THEN "true" ELSE "false")
    BY <1>7 DEF coerced
  <2>2. isTrue(Boolean("true")) /\ ~isTrue(Boolean("false"))
    BY DEF isTrue, Boolean, Text, Numeral
  <2>3. v.type = "boolean" => coerced(f, v) = v
    BY <1>3, <2>1, <2>2 DEF documentValue
  <2>4. coerced(f, v).type = "boolean" /\ documentValue(coerced(f, v))
    BY <2>1 DEF Boolean, documentValue
  <2> QED
    BY <1>1, <1>3, <1>4, <1>7, <2>3, <2>4 DEF wrongType
<1>8. CASE ~absent(v) /\ f.type \notin {"number", "boolean"}
  BY <1>1, <1>3, <1>8 DEF coerced, wrongType
<1> QED
  BY <1>5, <1>6, <1>7, <1>8

LEMMA DocumentStarts == DocumentInit => DocumentInv
<1>1. documentValue(Undefined)
  BY DEF documentValue, absent, Undefined
<1> QED
  BY <1>1 DEF DocumentInit, DocumentInv

LEMMA DocumentStepsKeepInv == DocumentInv /\ [DocumentNext]_documentVars => DocumentInv'
<1> SUFFICES ASSUME DocumentInv, [DocumentNext]_documentVars PROVE DocumentInv'
  OBVIOUS
<1>1. CASE EditDocument
  <2>1. PICK p \in EditedPaths, value \in EditedValues \cup {Null, Undefined} :
           document' = [document EXCEPT ![p] = value]
    BY <1>1 DEF EditDocument, edit
  <2>2. documentValue(value)
    <3>1. CASE value \in EditedValues
      <4>1. /\ value \in [type : {"string", "number", "boolean", "array"}, text : STRING]
            /\ value.type = "boolean" => value.text \in {"true", "false"}
        BY <3>1, EditedValuesAssumption
      <4>2. value = [type |-> value.type, text |-> value.text]
        BY <4>1
      <4> QED
        BY <4>1, <4>2 DEF documentValue, Boolean
    <3>2. CASE value \in {Null, Undefined}
      BY <3>2 DEF documentValue, absent, Null, Undefined
    <3> QED
      BY <3>1, <3>2
  <2>3. document' = [q \in SchemaPaths |-> IF q = p THEN value ELSE document[q]]
    BY <2>1 DEF DocumentInv
  <2> QED
    BY <2>2, <2>3 DEF DocumentInv
<1>2. CASE edit(coerceTypes(document))
  <2>1. document' = [p \in SchemaPaths |-> coerced(getField(p), asJson(document[p]))]
    BY <1>2 DEF edit, coerceTypes
  <2>2. \A p \in SchemaPaths : documentValue(coerced(getField(p), asJson(document[p])))
    BY ConversionFits DEF DocumentInv
  <2> QED
    BY <2>1, <2>2 DEF DocumentInv
<1>3. CASE edit(suggestDefaults)
  <2>1. document' = [p \in SchemaPaths |-> getField(p).defaultValue]
    BY <1>3 DEF edit, suggestDefaults
  <2>2. \A p \in SchemaPaths : documentValue(getField(p).defaultValue)
    BY DefaultsFit DEF fits
  <2> QED
    BY <2>1, <2>2 DEF DocumentInv
<1>4. CASE UNCHANGED documentVars
  BY <1>4 DEF DocumentInv, documentVars
<1> QED
  BY <1>1, <1>2, <1>3, <1>4 DEF DocumentNext

LEMMA EditorsStayAgreed == DocumentInv => EditorsAgree
<1> SUFFICES ASSUME DocumentInv PROVE EditorsAgree
  OBVIOUS
<1>1. PICK converted : /\ converted = coerceTypes(document)
                       /\ \A p \in SchemaPaths :
                             converted[p] = coerced(getField(p), asJson(document[p]))
  <2>1. \A p \in SchemaPaths :
           coerceTypes(document)[p] = coerced(getField(p), asJson(document[p]))
    BY DEF coerceTypes
  <2> QED
    BY <2>1
<1>2. \A p \in SchemaPaths : fits(getField(p))
  BY DefaultsFit
<1>3. \A doc : \A p \in SchemaPaths :
         ~absent(filledIn(doc, p)) /\ (absent(doc[p]) => filledIn(doc, p) = getField(p).defaultValue)
         /\ (~absent(doc[p]) => filledIn(doc, p) = doc[p])
  BY <1>2 DEF filledIn, fits
<1>4. \A doc : missing(doc) = {}
  BY <1>3 DEF missing
<1>5. \A p \in SchemaPaths : ~wrongType(getField(p), getField(p).defaultValue)
  BY <1>2 DEF fits, wrongType
<1>6. validateConfig(suggestDefaults) = {}
  <2>1. \A p \in SchemaPaths : filledIn(suggestDefaults, p) = getField(p).defaultValue
    BY DEF filledIn, suggestDefaults
  <2>2. wronglyTyped(suggestDefaults) = {}
    BY <1>5, <2>1 DEF wronglyTyped
  <2>3. notAllowed(suggestDefaults) = {}
    BY <1>2, <2>1 DEF notAllowed, fits
  <2> QED
    BY <1>4, <2>2, <2>3 DEF validateConfig
<1>7. getValidationErrors = {}
  BY <1>2 DEF getValidationErrors, fits
<1>8. wronglyTyped(converted) = {}
  <2>1. \A p \in SchemaPaths : ~wrongType(getField(p), converted[p])
    BY <1>1, ConversionFits DEF DocumentInv
  <2>2. \A p \in SchemaPaths : ~wrongType(getField(p), filledIn(converted, p))
    BY <1>3, <1>5, <2>1
  <2> QED
    BY <2>2 DEF wronglyTyped
<1>9. ASSUME validateConfig(document) = {}
      PROVE  /\ validateConfig(converted) = {}
             /\ \A p \in SchemaPaths : converted[p] = asJson(document[p])
             /\ validateJson(completed(document)) = {}
  <2>1. ASSUME NEW p \in SchemaPaths
        PROVE  /\ ~wrongType(getField(p), filledIn(document, p))
               /\ getField(p).type = "enum" =>
                     filledIn(document, p).text \in getField(p).enumValues
    <3>1. p \notin wronglyTyped(document) /\ p \notin notAllowed(document)
      BY <1>9 DEF validateConfig
    <3>2. ~absent(filledIn(document, p))
      BY <1>3
    <3> QED
      BY <3>1, <3>2 DEF wronglyTyped, notAllowed
  <2>2. ASSUME NEW p \in SchemaPaths PROVE converted[p] = asJson(document[p])
    <3>1. ~wrongType(getField(p), document[p])
      <4>1. CASE absent(document[p])
        BY <4>1 DEF wrongType
      <4>2. CASE ~absent(document[p])
        BY <1>3, <2>1, <4>2
      <4> QED
        BY <4>1, <4>2
    <3> QED
      BY <1>1, <3>1, ConversionFits DEF DocumentInv
  <2>3. notAllowed(converted) = {}
    <3>1. ASSUME NEW p \in SchemaPaths, getField(p).type = "enum"
          PROVE  filledIn(converted, p).text \in getField(p).enumValues
      <4>1. CASE absent(converted[p])
        BY <1>2, <1>3, <3>1, <4>1 DEF fits
      <4>2. CASE ~absent(converted[p])
        <5>1. converted[p] = asJson(document[p]) /\ ~absent(asJson(document[p]))
          BY <2>2, <4>2
        <5>2. asJson(document[p]) = document[p]
          BY <5>1 DEF asJson, absent
        <5>3. filledIn(converted, p) = document[p] /\ filledIn(document, p) = document[p]
          BY <1>3, <4>2, <5>1, <5>2
        <5> QED
          BY <2>1, <3>1, <5>3
      <4> QED
        BY <4>1, <4>2
    <3> QED
      BY <3>1 DEF notAllowed
  <2>4. validateJson(completed(document)) = {}
    <3>1. \A p \in SchemaPaths : completed(document)[p] = filledIn(document, p)
      BY DEF completed
    <3> QED
      BY <1>3, <2>1, <3>1 DEF validateJson
  <2> QED
    BY <1>4, <1>8, <2>2, <2>3, <2>4 DEF validateConfig
<1> QED
  BY <1>1, <1>6, <1>7, <1>8, <1>9 DEF EditorsAgree

LEMMA EditorTypes == FormInv /\ DocumentInv => EditorTypeOK
  BY DEF FormInv, DocumentInv, EditorTypeOK

-----------------------------------------------------------------------------
(***************************************************************************)
(* The types of every part, and what readers are told. The file of the     *)
(* first part is a JsonFile with any contents at all.                      *)
(***************************************************************************)
File == INSTANCE JsonFile_proofs

LEMMA FileSame ==
  /\ JsonInit <=> File!JsonInit
  /\ JsonNext <=> File!JsonNext
  /\ JsonTypeOK <=> File!JsonTypeOK
  BY DEF JsonInit, File!JsonInit, JsonNext, File!JsonNext, JsonTypeOK, File!JsonTypeOK,
     Restart, File!Restart, BeginWrite, File!BeginWrite, EndWrite, File!EndWrite,
     FailWrite, File!FailWrite, BeginRead, File!BeginRead, EndRead, File!EndRead,
     Change, File!Change, Replace, File!Replace, WriteOther, File!WriteOther,
     Call, File!Call, IdleCall, File!IdleCall, At, File!At, content, File!content,
     frozen, File!frozen, touched, File!touched, readJsonFile, File!readJsonFile

LEMMA FileStaysTyped == JsonInit /\ [][JsonNext]_jsonVars => []JsonTypeOK
<1>1. JsonInit => File!FollowInv
  BY FileSame, ContentsAssumption, File!InitFollows
<1>2. File!FollowInv /\ [JsonNext]_jsonVars => File!FollowInv'
  BY FileSame, ContentsAssumption, File!NextFollows DEF jsonVars, File!jsonVars
<1>3. File!FollowInv => JsonTypeOK
  BY FileSame DEF File!FollowInv
<1> QED
  BY <1>1, <1>2, <1>3, PTL

LEMMA EngineStaysTyped == EngineSpec => []EngineTypeOK
<1>1. EngineSpec => [](GlobalFile!FollowInv /\ ProjectFile!FollowInv)
  BY InitBoth, NextBoth, PTL DEF EngineSpec
<1>2. GlobalFile!FollowInv /\ ProjectFile!FollowInv => EngineTypeOK
  BY DEF EngineTypeOK, GlobalFile!FollowInv, ProjectFile!FollowInv,
     GlobalFile!JsonTypeOK, Global!JsonTypeOK, ProjectFile!JsonTypeOK, Project!JsonTypeOK
<1> QED
  BY <1>1, <1>2, PTL

LEMMA AllStart ==
  AllInit => /\ JsonInit /\ EngineInit /\ VersioningInit /\ HistoryInit /\ ContextInit
             /\ OrgInit /\ EnvInit /\ ComplianceInit /\ FormInit /\ DocumentInit
  BY DEF AllInit

(***************************************************************************)
(* Every component of the configuration stays in its types, whatever the   *)
(* others do and for every value of the constants.                         *)
(***************************************************************************)
THEOREM ConfigStaysTyped == MCSpec => []AllTypesOK
<1>1. MCSpec => /\ JsonInit /\ [][JsonNext]_jsonVars
                /\ EngineSpec
                /\ VersioningInit /\ [][VersioningNext]_versioningVars
                /\ HistoryInit /\ [][HistoryNext]_historyVars
  BY AllStart, EachTakesItsSteps, PTL DEF MCSpec, EngineSpec
<1>2. MCSpec => /\ ContextInit /\ [][ContextNext]_contextVars
                /\ OrgInit /\ [][OrgNext]_orgVars
                /\ EnvInit /\ [][EnvNext]_envVars
                /\ ComplianceInit /\ [][ComplianceNext]_complianceVars
  BY AllStart, EachTakesItsSteps, PTL DEF MCSpec
<1>3. MCSpec => /\ FormInit /\ [][FormNext]_formVars
                /\ DocumentInit /\ [][DocumentNext]_documentVars
  BY AllStart, EachTakesItsSteps, PTL DEF MCSpec
<1>4. MCSpec => [](JsonTypeOK /\ EngineTypeOK /\ VersioningTypeOK)
  BY <1>1, FileStaysTyped, EngineStaysTyped, VersioningStaysTyped, PTL
<1>5. HistoryInv => HistoryTypeOK
  BY DEF HistoryInv
<1>6. ContextInv => ContextTypeOK
  BY DEF ContextInv
<1>7. MCSpec => [](HistoryTypeOK /\ ContextTypeOK)
  BY <1>1, <1>2, <1>5, <1>6, InitHistory, NextHistory, InitContext, NextContext, PTL
<1>8. MCSpec => []OrgTypeOK
  BY <1>2, OrgStarts, OrgStepsKeepInv, OrgInvHolds, PTL
<1>9. EnvInv => EnvTypeOK
  BY DEF EnvInv
<1>10. ComplianceInv => ComplianceTypeOK
  BY DEF ComplianceInv
<1>11. MCSpec => [](EnvTypeOK /\ ComplianceTypeOK)
  BY <1>2, <1>9, <1>10, EnvStarts, EnvStepsKeepInv, ComplianceStarts, ComplianceStepsKeepInv,
     PTL
<1>12. MCSpec => []EditorTypeOK
  BY <1>3, FormStarts, FormStepsKeepInv, DocumentStarts, DocumentStepsKeepInv, EditorTypes, PTL
<1>13. (JsonTypeOK /\ EngineTypeOK /\ VersioningTypeOK) /\ (HistoryTypeOK /\ ContextTypeOK)
       /\ OrgTypeOK /\ (EnvTypeOK /\ ComplianceTypeOK) /\ EditorTypeOK => AllTypesOK
  BY DEF AllTypesOK
<1> QED
  BY <1>4, <1>7, <1>8, <1>11, <1>12, <1>13, PTL

(***************************************************************************)
(* A key has its first value whatever env files are read and however many  *)
(* lines they have, the two readers of the environment agree, a score adds *)
(* up whatever controls there are, the chain of evidence verifies while    *)
(* nothing in it is rewritten, and the editors show and accept what is in  *)
(* them: for every value of the constants.                                 *)
(***************************************************************************)
THEOREM ReadersStayRight == MCSpec => []ReadersAndScores
<1>1. MCSpec => /\ EnvInit /\ [][EnvNext]_envVars
                /\ ComplianceInit /\ [][ComplianceNext]_complianceVars
                /\ FormInit /\ [][FormNext]_formVars
                /\ DocumentInit /\ [][DocumentNext]_documentVars
  BY AllStart, EachTakesItsSteps, PTL DEF MCSpec
<1>2. EnvInv => FirstValueWins /\ ReadersAgree
  BY FirstValueSettles, ReadersStayAgreed DEF EnvInv
<1>3. MCSpec => [](FirstValueWins /\ ReadersAgree)
  BY <1>1, <1>2, EnvStarts, EnvStepsKeepInv, PTL
<1>4. MCSpec => []ScoresAddUp
  BY <1>1, ComplianceStarts, ComplianceStepsKeepInv, ScoresStayAddedUp, PTL
<1>5. MCSpec => [](MarksAreChanges /\ EditorsAgree)
  BY <1>1, FormStarts, FormStepsKeepInv, MarksStayChanges, DocumentStarts, DocumentStepsKeepInv,
     EditorsStayAgreed, PTL
<1>6. (FirstValueWins /\ ReadersAgree) /\ ScoresAddUp /\ (MarksAreChanges /\ EditorsAgree)
        => ReadersAndScores
  BY DEF ReadersAndScores
<1> QED
  BY <1>3, <1>4, <1>5, <1>6, PTL
=============================================================================
