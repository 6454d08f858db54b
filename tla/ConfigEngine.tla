---------------------------- MODULE ConfigEngine ----------------------------
(***************************************************************************)
(* packages/config-engine/src/config-engine.ts: the global and the project *)
(* configuration, each a JsonFile.  A configuration maps dotted paths to   *)
(* values; the security rules are the values they allow a path.            *)
(***************************************************************************)
EXTENDS Functions, FiniteSets

CONSTANTS
    Paths, Values, Unset,
    allowedValues,       \* path -> values the rules let set() store
    TornConfig, LiveConfig,
    EngineCalls

ASSUME ConfigAssumption ==
    /\ allowedValues \in [Paths -> SUBSET Values]
    /\ TornConfig \notin [Paths -> Values \cup {Unset}]
    /\ LiveConfig \notin [Paths -> Values \cup {Unset}]

Configs == [Paths -> Values \cup {Unset}]

NoConfig == [p \in Paths |-> Unset]

VARIABLES
    globalConfig, globalFile, globalCalls, globalDisturbed,
    projectConfig, projectFile, projectCalls, projectDisturbed

globalVars == <<globalConfig, globalFile, globalCalls, globalDisturbed>>
projectVars == <<projectConfig, projectFile, projectCalls, projectDisturbed>>
engineVars == <<globalVars, projectVars>>

Global == INSTANCE JsonFile WITH
    Contents <- Configs, Empty <- NoConfig, Torn <- TornConfig, Live <- LiveConfig,
    Writers <- EngineCalls, live <- globalConfig, file <- globalFile,
    calls <- globalCalls, disturbed <- globalDisturbed

Project == INSTANCE JsonFile WITH
    Contents <- Configs, Empty <- NoConfig, Torn <- TornConfig, Live <- LiveConfig,
    Writers <- EngineCalls, live <- projectConfig, file <- projectFile,
    calls <- projectCalls, disturbed <- projectDisturbed

EngineTypeOK == Global!JsonTypeOK /\ Project!JsonTypeOK

EngineInit == Global!JsonInit /\ Project!JsonInit

idleCall(w) == globalCalls[w].at = "idle" /\ projectCalls[w].at = "idle"

-----------------------------------------------------------------------------
\* The project's value of a path wins.
deepMerge(base, override) ==
    [p \in Paths |-> IF override[p] = Unset THEN base[p] ELSE override[p]]

checkSecurityRuleViolation(p, v) == v \notin allowedValues[p]

\* A value the rules forbid is refused before any change.
set(w, p, v) ==
    /\ idleCall(w)
    /\ ~checkSecurityRuleViolation(p, v)
    /\ Project!Change(w, [projectConfig EXCEPT ![p] = v])
    /\ UNCHANGED globalVars

\* Mutant: what setGlobal stores is never written.
setGlobal_MemoryOnly(w, p, v) ==
    /\ idleCall(w)
    /\ globalConfig' = [globalConfig EXCEPT ![p] = v]
    /\ UNCHANGED <<globalFile, globalCalls, globalDisturbed, projectVars>>

setGlobal(w, p, v) ==
    /\ idleCall(w)
    /\ Global!Change(w, [globalConfig EXCEPT ![p] = v])
    /\ UNCHANGED projectVars

resetAll(w) ==
    /\ idleCall(w)
    /\ Project!Replace(w, NoConfig, NoConfig)
    /\ UNCHANGED globalVars

reset(w, p) ==
    /\ idleCall(w)
    /\ Project!Change(w, [projectConfig EXCEPT ![p] = Unset])
    /\ UNCHANGED globalVars

\* importConfig sets one differing path after the other and removes none;
\* a dry run and a validation call set() as well.
importConfig(w, incoming) ==
    \E p \in Paths :
        /\ incoming[p] \notin {Unset, deepMerge(globalConfig, projectConfig)[p]}
        /\ set(w, p, incoming[p])

\* ConfigVersioning.rollback writes the project file behind the engine.
rollbackConfig(w, c) ==
    /\ idleCall(w)
    /\ Project!WriteOther(w, c)
    /\ UNCHANGED globalVars

\* Either call of writeJsonFile goes on, or rejects.
writeJsonFile(w) ==
    \/ /\ Global!BeginWrite(w) \/ Global!EndWrite(w) \/ Global!FailWrite(w)
       /\ UNCHANGED projectVars
    \/ /\ Project!BeginWrite(w) \/ Project!EndWrite(w) \/ Project!FailWrite(w)
       /\ UNCHANGED globalVars

\* load() reads the global file, then the project's.
load(w) ==
    \/ idleCall(w) /\ Global!BeginRead(w) /\ UNCHANGED projectVars
    \/ Global!EndRead(w) /\ Project!BeginRead(w)
    \/ Project!EndRead(w) /\ UNCHANGED globalVars

\* A new process has not loaded; its first call reads both files at once.
ensureLoaded == Global!Restart /\ Project!Restart

EngineNext ==
    \/ ensureLoaded
    \/ \E w \in EngineCalls :
          \/ writeJsonFile(w) \/ load(w) \/ resetAll(w)
          \/ \E p \in Paths :
                \/ reset(w, p)
                \/ \E v \in Values : set(w, p, v) \/ setGlobal(w, p, v)
          \/ \E c \in Configs : importConfig(w, c) \/ rollbackConfig(w, c)

EngineSpec == EngineInit /\ [][EngineNext]_engineVars

-----------------------------------------------------------------------------
(***************************************************************************)
(* Between calls each of the two files reads as the configuration the      *)
(* engine answers from, unless what QuietFileMatches names came about.     *)
(***************************************************************************)
ConfigOnDisk == Global!QuietFileMatches /\ Project!QuietFileMatches
=============================================================================
