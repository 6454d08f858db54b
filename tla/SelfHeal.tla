------------------------------ MODULE SelfHeal ------------------------------
(***************************************************************************)
(* SelfHealEngine of packages/resilience-engine/src/self-heal.ts: a timer  *)
(* runs probe cycles, and a cycle that takes longer than the interval is   *)
(* overtaken by the next.  A cycle reads the cooldowns with the time it    *)
(* began healing at and records a heal when its await is over.             *)
(*                                                                         *)
(* Probe results are reduced to the one question the code asks of them:    *)
(* all healthy, or not.  The heal log is left out.                         *)
(***************************************************************************)
EXTENDS Naturals, Sequences, FiniteSets

CONSTANTS
    Cycles,               \* runs of runCycle that may be in flight
    healActions,          \* the registered actions, in order
    undoable,             \* those with an undo
    healCooldown,         \* cooldownMs of each action
    maxConcurrentHeals,
    MaxHealTime           \* bound of the clock

ASSUME HealAssumption ==
    /\ IsFiniteSet(Cycles)
    /\ Len(healActions) \in Nat
    /\ DOMAIN healActions = 1..Len(healActions)
    /\ maxConcurrentHeals \in Nat
    /\ healCooldown \in Nat
    /\ MaxHealTime \in Nat
    /\ healCooldown <= MaxHealTime

VARIABLES
    healing,         \* running
    cycle,           \* per cycle: where it is, its time, its action's index
    lastHealTimes,   \* per action: 0 before the first success
    activeHeals,
    clock,
    overtaken        \* history: actions whose heals have overlapped

healVars == <<healing, cycle, lastHealTimes, activeHeals, clock, overtaken>>

HealActions == {healActions[i] : i \in DOMAIN healActions}

AtRest == [at |-> "rest", now |-> 0, i |-> 0]

HealTypeOK ==
    /\ healing \in BOOLEAN
    /\ cycle \in [Cycles -> [at : {"rest", "probing", "heal", "undo", "undoAgain"},
                             now : 0..MaxHealTime,
                             i : 0..Len(healActions)]]
    /\ lastHealTimes \in [HealActions -> 0..MaxHealTime]
    /\ activeHeals \in 0..maxConcurrentHeals
    /\ overtaken \subseteq HealActions

\* The clock begins past every cooldown, as Date.now() does.
HealInit ==
    /\ healing = FALSE
    /\ cycle = [c \in Cycles |-> AtRest]
    /\ lastHealTimes = [a \in HealActions |-> 0]
    /\ activeHeals = 0
    /\ clock = healCooldown
    /\ overtaken = {}

-----------------------------------------------------------------------------
healingOf(c) ==
    IF cycle[c].at \in {"heal", "undo", "undoAgain"} THEN {healActions[cycle[c].i]} ELSE {}

\* Mutant: the cooldown is not looked at.
due_Always(last, now) == TRUE

\* Whether the cooldown since last is over for a cycle that began at now.
due(last, now) == now >= last + healCooldown

\* From index i on, the actions that are due and wanted by their condition, and
\* the first of them.  times is lastHealTimes.
dueFrom(i, now, times, wanted) ==
    {j \in i..Len(healActions) :
        /\ due(times[healActions[j]], now)
        /\ healActions[j] \in wanted}

firstOf(hits) == CHOOSE j \in hits : \A h \in hits : j <= h

\* The action at j, if another cycle than c is healing by it.
overlapped(c, j) ==
    {healActions[j]} \cap
        {healActions[cycle[d].i] : d \in {d \in Cycles \ {c} : cycle[d].at = "heal"}}

\* The loop of applyHealActions from index i to its next await, `heals' being
\* in flight: the next action to heal by, or the end.
proceed(c, now, i, heals, times, wanted) ==
    LET hits == dueFrom(i, now, times, wanted)
    IN  IF heals >= maxConcurrentHeals \/ hits = {}
        THEN /\ cycle' = [cycle EXCEPT ![c] = AtRest]
             /\ activeHeals' = heals
             /\ UNCHANGED overtaken
        ELSE LET j == firstOf(hits) IN
             /\ cycle' = [cycle EXCEPT ![c] = [at |-> "heal", now |-> now, i |-> j]]
             /\ activeHeals' = heals + 1
             /\ overtaken' = overtaken \cup overlapped(c, j)

StartHealing ==
    /\ ~healing
    /\ healing' = TRUE
    /\ \E c \in Cycles :
          /\ cycle[c] = AtRest
          /\ cycle' = [cycle EXCEPT ![c].at = "probing"]
    /\ UNCHANGED <<lastHealTimes, activeHeals, clock, overtaken>>

StopHealing ==
    /\ healing
    /\ healing' = FALSE
    /\ UNCHANGED <<cycle, lastHealTimes, activeHeals, clock, overtaken>>

\* The interval fires.
Probe(c) ==
    /\ healing
    /\ cycle[c] = AtRest
    /\ cycle' = [cycle EXCEPT ![c].at = "probing"]
    /\ UNCHANGED <<healing, lastHealTimes, activeHeals, clock, overtaken>>

\* runProbes: every probe answers or times out.  The cycle goes on although
\* the engine may have been stopped since.
ProbesHealthy(c) ==
    /\ cycle[c].at = "probing"
    /\ cycle' = [cycle EXCEPT ![c] = AtRest]
    /\ UNCHANGED <<healing, lastHealTimes, activeHeals, clock, overtaken>>

ProbesUnhealthy(c) ==
    /\ cycle[c].at = "probing"
    /\ \E wanted \in SUBSET HealActions :
          proceed(c, clock, 1, activeHeals, lastHealTimes, wanted)
    /\ UNCHANGED <<healing, lastHealTimes, clock>>

-----------------------------------------------------------------------------
\* Mutant: the heal is not uncounted.
freed_Never == activeHeals

\* The finally block.
freed == activeHeals - 1

\* The rest of the loop once the heal of c is over for good.
moveOn(c, times) ==
    /\ lastHealTimes' = times
    /\ \E wanted \in SUBSET HealActions :
          proceed(c, cycle[c].now, cycle[c].i + 1, freed, times, wanted)

waitAt(c, where) ==
    /\ cycle' = [cycle EXCEPT ![c].at = where]
    /\ UNCHANGED <<activeHeals, overtaken>>

\* heal() answers: its time is the cycle's, whatever the outcome.
HealReturns(c) ==
    /\ cycle[c].at = "heal"
    /\ LET a     == healActions[cycle[c].i]
           times == [lastHealTimes EXCEPT ![a] = cycle[c].now]
       IN  \/ moveOn(c, times)                            \* success, or no undo
           \/ a \in undoable /\ lastHealTimes' = times /\ waitAt(c, "undo")
    /\ UNCHANGED <<healing, clock>>

UndoReturns(c) ==
    /\ cycle[c].at = "undo"
    /\ moveOn(c, lastHealTimes)
    /\ UNCHANGED <<healing, clock>>

\* heal() throws, or the undo after a failed heal does: the catch block undoes
\* (again), and records no time.
Throws(c) ==
    /\ cycle[c].at \in {"heal", "undo"}
    /\ IF healActions[cycle[c].i] \in undoable
       THEN waitAt(c, "undoAgain") /\ UNCHANGED lastHealTimes
       ELSE moveOn(c, lastHealTimes)
    /\ UNCHANGED <<healing, clock>>

\* The undo of the catch block ends; its own error is swallowed.
SecondUndoEnds(c) ==
    /\ cycle[c].at = "undoAgain"
    /\ moveOn(c, lastHealTimes)
    /\ UNCHANGED <<healing, clock>>

HealTick ==
    /\ clock < MaxHealTime
    /\ clock' = clock + 1
    /\ UNCHANGED <<healing, cycle, lastHealTimes, activeHeals, overtaken>>

HealStep(c) ==
    \/ ProbesHealthy(c)
    \/ ProbesUnhealthy(c)
    \/ HealReturns(c)
    \/ UndoReturns(c)
    \/ Throws(c)
    \/ SecondUndoEnds(c)

HealNext ==
    \/ StartHealing
    \/ StopHealing
    \/ HealTick
    \/ \E c \in Cycles : Probe(c) \/ HealStep(c)

-----------------------------------------------------------------------------
(***************************************************************************)
(* activeHeals counts the heals in flight, undone, thrown and undone again *)
(* ones included, and there are never more than maxConcurrentHeals of them *)
(* over all the cycles that overlap.                                       *)
(***************************************************************************)
HealsCounted ==
    /\ activeHeals = Cardinality({c \in Cycles : healingOf(c) # {}})
    /\ activeHeals <= maxConcurrentHeals

(***************************************************************************)
(* The times recorded for an action are a cooldown apart and never go      *)
(* back, although each is read before an await and written after it: an    *)
(* action is excepted once two heals of it have overlapped, when the later *)
(* write may record the earlier time.                                      *)
(***************************************************************************)
HealsSpaced ==
    [][\A a \in HealActions \ overtaken :
          lastHealTimes'[a] # lastHealTimes[a]
          => lastHealTimes'[a] >= lastHealTimes[a] + healCooldown]_healVars

-----------------------------------------------------------------------------
(***************************************************************************)
(* ChaosTestEngine of packages/resilience-engine/src/chaos-test.ts:        *)
(* experiments replace functions of shared modules by wrappers, wait, and  *)
(* put the functions they saved back.  Experiments overlap: runAll() and   *)
(* runExperiment() may be called again before an earlier call has ended.   *)
(*                                                                         *)
(* An experiment is the key the engine knows it by, its target and action. *)
(* A function is the sequence of experiments whose wrappers are around the *)
(* original.  Left out: dryRun, which counts an experiment and uncounts it *)
(* at once, and what a wrapper does when it is called.                     *)
(***************************************************************************)
CONSTANTS
    ChaosRunners,               \* callers of runAll or of runExperiment
    Experiments,                \* records [target, action]
    registered,                 \* the experiments registered, in order
    maxConcurrentExperiments,
    MaxLayers                   \* bound of the wrappers left on one function

FaultTargets == {"http", "event-bus", "database", "cache", "filesystem"}

ASSUME ChaosAssumption ==
    /\ IsFiniteSet(ChaosRunners)
    /\ \A e \in Experiments : e.target \in FaultTargets
    /\ registered \in Seq(Experiments)

VARIABLES
    activeExperiments,
    interceptor,    \* per key: the functions its restore puts back
    layers,         \* per function: the wrappers around it
    runner,         \* per caller: where it is, its experiment, those left
    mixed           \* history: targets faulted by two actions at once

chaosVars == <<activeExperiments, interceptor, layers, runner, mixed>>

Patchable ==
    {"request", "publish", "emit", "query", "get", "set", "readFile", "writeFile"}

NoFault == <<>>
Idle == [at |-> "idle"]

ChaosTypeOK ==
    /\ activeExperiments \in 0..Cardinality(ChaosRunners)
    /\ DOMAIN interceptor = Experiments
    /\ DOMAIN layers = Patchable
    /\ \A f \in Patchable : layers[f] \in Seq(Experiments)
    /\ \A r \in ChaosRunners :
          runner[r] = Idle \/
          /\ runner[r].at \in {"fault", "measured", "next"}
          /\ runner[r].exp \in Experiments
          /\ runner[r].left \in Seq(Experiments)
    /\ mixed \subseteq {e.target : e \in Experiments}

ChaosInit ==
    /\ activeExperiments = 0
    /\ interceptor = [e \in Experiments |-> NoFault]
    /\ layers = [f \in Patchable |-> <<>>]
    /\ runner = [r \in ChaosRunners |-> Idle]
    /\ mixed = {}

-----------------------------------------------------------------------------
\* The functions each kind of fault replaces, by its action.  The injection
\* succeeds only where the shared module can be loaded, which it is here.
httpFault(action) == {"request"}

eventBusFault(action) ==
    CASE action = "latency" -> {"publish"}
      [] action = "error"   -> {"emit"}
      [] OTHER              -> {}

databaseFault(action) == IF action \in {"latency", "error"} THEN {"query"} ELSE {}

cacheFault(action) ==
    CASE action = "latency" -> {"get"}
      [] action = "error"   -> {"set"}
      [] OTHER              -> {}

filesystemFault(action) ==
    CASE action \in {"latency", "resource-exhaustion"} -> {"readFile"}
      [] action = "error"                              -> {"writeFile"}
      [] OTHER                                         -> {}

wraps(e) ==
    CASE e.target = "http"       -> httpFault(e.action)
      [] e.target = "event-bus"  -> eventBusFault(e.action)
      [] e.target = "database"   -> databaseFault(e.action)
      [] e.target = "cache"      -> cacheFault(e.action)
      [] e.target = "filesystem" -> filesystemFault(e.action)

\* The functions its restore assigns.
restores(e) ==
    IF e.target = "filesystem" THEN {"readFile", "writeFile"} ELSE wraps(e)

\* injectFault: nothing if the key has an interceptor already.
injectFault(e) ==
    IF interceptor[e] # NoFault
    THEN UNCHANGED <<interceptor, layers>>
    ELSE /\ interceptor' = [interceptor EXCEPT ![e] =
                                [at |-> "set", saved |-> [f \in restores(e) |-> layers[f]]]]
         /\ layers' = [f \in Patchable |->
                          IF f \in wraps(e) THEN Append(layers[f], e) ELSE layers[f]]

\* Mutant: the interceptor stays in the map.
deleted_Kept(e) == interceptor

deleted(e) == [interceptor EXCEPT ![e] = NoFault]

\* removeFault: whoever ends first under a key removes its fault.
removeFault(e) ==
    IF interceptor[e] = NoFault
    THEN UNCHANGED <<interceptor, layers>>
    ELSE /\ layers' = [f \in Patchable |->
                          IF f \in restores(e) THEN interceptor[e].saved[f] ELSE layers[f]]
         /\ interceptor' = deleted(e)

\* Targets with e's fault and the fault of another action in effect.
mixes(e) ==
    {e.target : d \in {d \in Experiments : d.target = e.target /\ d # e
                                           /\ interceptor[d] # NoFault}}

\* runExperiment up to its delay.
Begin(r, e, left) ==
    /\ \A f \in wraps(e) : Len(layers[f]) < MaxLayers
    /\ activeExperiments' = activeExperiments + 1
    /\ injectFault(e)
    /\ mixed' = mixed \cup mixes(e)
    /\ runner' = [runner EXCEPT ![r] = [at |-> "fault", exp |-> e, left |-> left]]

RunExperiment(r) ==
    /\ runner[r] = Idle
    /\ \E e \in Experiments : Begin(r, e, <<>>)

\* runAll: the loop looks at the bound before each experiment.
RunAll(r) ==
    /\ runner[r] = Idle
    /\ registered # <<>>
    /\ activeExperiments < maxConcurrentExperiments
    /\ Begin(r, Head(registered), Tail(registered))

RunNext(r) ==
    /\ runner[r].at = "next"
    /\ runner[r].left # <<>>
    /\ activeExperiments < maxConcurrentExperiments
    /\ Begin(r, Head(runner[r].left), Tail(runner[r].left))

\* The delay is over: the fault goes, and measureImpact is awaited.
EndFault(r) ==
    /\ runner[r].at = "fault"
    /\ removeFault(runner[r].exp)
    /\ runner' = [runner EXCEPT ![r].at = "measured"]
    /\ UNCHANGED <<activeExperiments, mixed>>

\* The rest of runExperiment; its caller resumes in a later microtask.
EndExperiment(r) ==
    /\ runner[r].at = "measured"
    /\ activeExperiments' = activeExperiments - 1
    /\ runner' = [runner EXCEPT ![r].at = "next"]
    /\ UNCHANGED <<interceptor, layers, mixed>>

\* The last experiment is over, or the bound breaks the loop.
Return(r) ==
    /\ runner[r].at = "next"
    /\ runner[r].left = <<>> \/ activeExperiments >= maxConcurrentExperiments
    /\ runner' = [runner EXCEPT ![r] = Idle]
    /\ UNCHANGED <<activeExperiments, interceptor, layers, mixed>>

ChaosNext ==
    \E r \in ChaosRunners :
        \/ RunExperiment(r)
        \/ RunAll(r)
        \/ RunNext(r)
        \/ EndFault(r)
        \/ EndExperiment(r)
        \/ Return(r)

-----------------------------------------------------------------------------
(***************************************************************************)
(* A wrapper is in place only while its interceptor is, and an interceptor *)
(* only while an experiment of its key runs: when the experiments are over *)
(* every function is the original again, also when several overlapped      *)
(* under one key.  Two actions on one target are excepted: the second      *)
(* saves the first one's wrapper as the original, and ending in the order  *)
(* they began they leave it in place for ever.                             *)
(***************************************************************************)
FaultsUndone ==
    /\ \A f \in Patchable : \A i \in DOMAIN layers[f] :
          LET e == layers[f][i] IN
          interceptor[e] # NoFault \/ e.target \in mixed
    /\ \A e \in Experiments :
          interceptor[e] # NoFault
          => \E r \in ChaosRunners : runner[r].at = "fault" /\ runner[r].exp = e
    /\ activeExperiments =
          Cardinality({r \in ChaosRunners : runner[r].at \in {"fault", "measured"}})
=============================================================================
