-------------------------- MODULE ResourceManager ---------------------------
(***************************************************************************)
(* packages/resource-manager/src/resource-manager.ts: start() runs a cycle *)
(* and arms a timer, whose callback runs a cycle and arms the next.  A     *)
(* cycle awaits the safety circuit and the healer, so stop() and start()   *)
(* may come in the middle of one, and a second loop may begin.             *)
(*                                                                         *)
(* A loop is what one start() set going.  The monitor's numbers are        *)
(* reduced to the comparisons the manager makes.  With autoDegrade,        *)
(* self-healing, a safety circuit and a DegradationManager present.        *)
(***************************************************************************)
EXTENDS Naturals, Sequences, FiniteSets

CONSTANTS
    Loops,
    NoLoop

ASSUME LoopsAssumption == NoLoop \notin Loops

VARIABLES
    managing,      \* running
    loop,          \* per loop: where it is, and what its cycle measured
    intervalId,    \* the loop whose timer the manager remembers
    managedMode,   \* the mode of the DegradationManager
    headless,      \* history: start() failed in its first cycle
    doubled        \* history: start() came while a loop was alive

managerVars == <<managing, loop, intervalId, managedMode, headless, doubled>>

\* Within the budget, only the heap over it, memory or CPU over it, over 95%.
Usage == {"ok", "heap", "over", "critical"}

\* Rates: below the threshold, above it, above twice the threshold.
Leak == {"none", "leak", "critical"}

Off == [at |-> "off", first |-> FALSE, usage |-> "ok", leak |-> "none"]

ManagerTypeOK ==
    /\ managing \in BOOLEAN
    /\ loop \in [Loops -> [at : {"off", "timer", "budgetTrip", "budgetHeal",
                                 "leakHeal", "leakTrip", "end"},
                           first : BOOLEAN, usage : Usage, leak : Leak]]
    /\ intervalId \in Loops \cup {NoLoop}
    /\ managedMode \in {"normal", "degraded", "emergency"}
    /\ headless \in BOOLEAN
    /\ doubled \in BOOLEAN

ManagerInit ==
    /\ managing = FALSE
    /\ loop = [l \in Loops |-> Off]
    /\ intervalId = NoLoop
    /\ managedMode = "normal"
    /\ headless = FALSE
    /\ doubled = FALSE

-----------------------------------------------------------------------------
goesTo(l, where) == loop' = [loop EXCEPT ![l].at = where]

\* cycle() to its first await: the snapshot, and a budget that is violated
\* degrades and trips the circuit.
beginCycle(l, isFirst) ==
    \E usage \in Usage, leak \in Leak :
        /\ loop' = [loop EXCEPT ![l] =
              [at |-> IF usage # "ok" THEN "budgetTrip"
                      ELSE IF leak # "none" THEN "leakHeal" ELSE "end",
               first |-> isFirst, usage |-> usage, leak |-> leak]]
        /\ managedMode' = IF usage # "ok" THEN "degraded" ELSE managedMode

StartManager ==
    /\ ~managing
    /\ managing' = TRUE
    /\ doubled' = (doubled \/ \E l \in Loops : loop[l] # Off)
    /\ headless' = FALSE
    /\ \E l \in Loops : loop[l] = Off /\ beginCycle(l, TRUE)
    /\ UNCHANGED intervalId

\* stop() clears the timer it remembers; a cycle in flight goes on.
StopManager ==
    /\ managing
    /\ managing' = FALSE
    /\ intervalId' = NoLoop
    /\ loop' = [l \in Loops |->
                   IF l = intervalId /\ loop[l].at = "timer" THEN Off ELSE loop[l]]
    /\ UNCHANGED <<managedMode, headless, doubled>>

\* The timer fires, whether the manager runs or not.
TimerFires(l) ==
    /\ loop[l].at = "timer"
    /\ beginCycle(l, FALSE)
    /\ UNCHANGED <<managing, intervalId, headless, doubled>>

\* safetyCircuit.evaluate answers.
Tripped(l) ==
    /\ \/ loop[l].at = "budgetTrip" /\ goesTo(l, "budgetHeal")
       \/ loop[l].at = "leakTrip" /\ goesTo(l, "end")
    /\ UNCHANGED <<managing, intervalId, managedMode, headless, doubled>>

\* It throws: a timer's cycle is caught and its loop goes on, start() fails
\* and nothing arms a timer.
TripFails(l) ==
    /\ loop[l].at \in {"budgetTrip", "leakTrip"}
    /\ IF loop[l].first
       THEN /\ loop' = [loop EXCEPT ![l] = Off]
            /\ headless' = (managing /\ \A k \in Loops \ {l} : loop[k] = Off)
            /\ UNCHANGED intervalId
       ELSE /\ IF managing
               THEN /\ loop' = [loop EXCEPT ![l] = [Off EXCEPT !.at = "timer"]]
                    /\ intervalId' = l
               ELSE /\ loop' = [loop EXCEPT ![l] = Off]
                    /\ UNCHANGED intervalId
            /\ UNCHANGED headless
    /\ UNCHANGED <<managing, managedMode, doubled>>

\* executeAction answers, with success or not.
Healed(l) ==
    /\ \/ /\ loop[l].at = "budgetHeal"
          /\ goesTo(l, IF loop[l].leak = "none" THEN "end" ELSE "leakHeal")
       \/ /\ loop[l].at = "leakHeal"
          /\ goesTo(l, IF loop[l].leak = "critical" THEN "leakTrip" ELSE "end")
    /\ UNCHANGED <<managing, intervalId, managedMode, headless, doubled>>

\* Mutant: the loop is scheduled whether the manager runs or not.
schedules_Always == TRUE

\* scheduleNextCycle.
schedules == managing

\* handleAutoDegradation, with the snapshot of the beginning, and the next
\* timer.
EndCycle(l) ==
    /\ loop[l].at = "end"
    /\ managedMode' = CASE loop[l].usage = "critical" -> "emergency"
                        [] loop[l].usage = "over"     -> "degraded"
                        [] OTHER                      -> managedMode
    /\ IF schedules
       THEN /\ loop' = [loop EXCEPT ![l] = [Off EXCEPT !.at = "timer"]]
            /\ intervalId' = l
       ELSE /\ loop' = [loop EXCEPT ![l] = Off]
            /\ UNCHANGED intervalId
    /\ UNCHANGED <<managing, headless, doubled>>

\* What runs by itself: timers and results that are there.  The safety circuit
\* has no timeout.
LoopRuns(l) == TimerFires(l) \/ Healed(l) \/ EndCycle(l)

ManagerNext ==
    \/ StartManager
    \/ StopManager
    \/ \E l \in Loops : LoopRuns(l) \/ Tripped(l) \/ TripFails(l)

ManagerFairness == \A l \in Loops : WF_managerVars(LoopRuns(l))

-----------------------------------------------------------------------------
(***************************************************************************)
(* A manager that runs has a loop, unless start() failed in its first      *)
(* cycle; and it has one loop, unless start() came while a cycle of the    *)
(* previous start() was still in flight.  The timer it remembers is then   *)
(* the only one, and stop() leaves none behind.                            *)
(***************************************************************************)
RunningHasOneLoop ==
    LET alive == {l \in Loops : loop[l] # Off} IN
    /\ managing /\ ~headless => alive # {}
    /\ ~doubled => /\ Cardinality(alive) <= 1
                   /\ \A l \in alive : loop[l].at = "timer" => intervalId = l /\ managing

(***************************************************************************)
(* After stop() every loop ends, those stop() has no timer for included,   *)
(* unless the manager is started again or the safety circuit never         *)
(* answers.                                                                *)
(***************************************************************************)
StopEndsLoops ==
    ~managing ~> \/ managing
                 \/ \A l \in Loops : loop[l].at \in {"off", "budgetTrip", "leakTrip"}

-----------------------------------------------------------------------------
(***************************************************************************)
(* SelfHealer of packages/resource-manager/src/self-healing.ts.            *)
(* executeAction looks at the cooldown, does its action, awaits the result *)
(* and only then writes the cooldown: calls may overlap.  What an action   *)
(* does to the system (signals, garbage collection) is reduced to whether  *)
(* it succeeds; the record of restarts is kept.                            *)
(***************************************************************************)

CONSTANTS
    HealClients,             \* concurrent callers of executeAction
    Targets,
    allowedActions,          \* config.actions
    maxRestartsPerMinute,
    healerCooldown,
    Minute,                  \* 60000 ms in clock ticks
    MaxHealerTime            \* bound of the clock

ASSUME HealerAssumption ==
    /\ maxRestartsPerMinute \in Nat
    /\ Minute \in Nat
    /\ MaxHealerTime \in Nat \ {0}

VARIABLES
    restarts,           \* [timestamp, target], never pruned
    actionCooldowns,    \* per action and target: last success, 0 before it
    executing,          \* per client: what its call awaits
    healerClock

healerVars == <<restarts, actionCooldowns, executing, healerClock>>

Resting == [at |-> "rest"]

HealerTypeOK ==
    /\ restarts \in Seq([timestamp : 0..MaxHealerTime, target : Targets])
    /\ actionCooldowns \in [allowedActions \X Targets -> 0..MaxHealerTime]
    /\ \A h \in HealClients :
          \/ executing[h] = Resting
          \/ /\ executing[h].key \in allowedActions \X Targets
             /\ executing[h].ok \in BOOLEAN
    /\ healerClock \in 1..MaxHealerTime

HealerInit ==
    /\ restarts = <<>>
    /\ actionCooldowns = [key \in allowedActions \X Targets |-> 0]
    /\ executing = [h \in HealClients |-> Resting]
    /\ healerClock = 1

-----------------------------------------------------------------------------
cooling(key) ==
    /\ actionCooldowns[key] # 0
    /\ healerClock - actionCooldowns[key] < healerCooldown

\* The restarts of t within the minute before now.
recentRestarts(t) ==
    {i \in DOMAIN restarts :
        restarts[i].target = t /\ restarts[i].timestamp + Minute > healerClock}

limited(t) == Cardinality(recentRestarts(t)) >= maxRestartsPerMinute

awaits(h, key, ok) ==
    executing' = [executing EXCEPT ![h] = [at |-> "await", key |-> key, ok |-> ok]]

\* clear_cache may throw in gc(), kill_process finds no process, reconnect
\* always succeeds.
Execute(h, action, t) ==
    /\ executing[h] = Resting
    /\ ~cooling(<<action, t>>)
    /\ action # "restart"
    /\ \E ok \in BOOLEAN :
          /\ action = "reconnect" => ok
          /\ awaits(h, <<action, t>>, ok)
    /\ UNCHANGED <<restarts, actionCooldowns, healerClock>>

\* restartService runs to its end before the caller's await.
Restart(h, t) ==
    /\ "restart" \in allowedActions
    /\ executing[h] = Resting
    /\ ~cooling(<<"restart", t>>)
    /\ IF limited(t)
       THEN awaits(h, <<"restart", t>>, FALSE) /\ UNCHANGED restarts
       ELSE /\ restarts' = Append(restarts, [timestamp |-> healerClock, target |-> t])
            /\ awaits(h, <<"restart", t>>, TRUE)
    /\ UNCHANGED <<actionCooldowns, healerClock>>

\* The result is in: a success writes the cooldown with the time it is now.
Executed(h) ==
    /\ executing[h] # Resting
    /\ actionCooldowns' = IF executing[h].ok
                          THEN [actionCooldowns EXCEPT ![executing[h].key] = healerClock]
                          ELSE actionCooldowns
    /\ executing' = [executing EXCEPT ![h] = Resting]
    /\ UNCHANGED <<restarts, healerClock>>

\* The await of a result that is there lasts one microtask: no time passes.
HealerTick ==
    /\ healerClock < MaxHealerTime
    /\ \A h \in HealClients : executing[h] = Resting
    /\ healerClock' = healerClock + 1
    /\ UNCHANGED <<restarts, actionCooldowns, executing>>

HealerNext ==
    \/ HealerTick
    \/ \E h \in HealClients :
          \/ Executed(h)
          \/ \E t \in Targets :
                \/ Restart(h, t)
                \/ \E action \in allowedActions : Execute(h, action, t)

-----------------------------------------------------------------------------
(***************************************************************************)
(* In no minute, wherever it begins, is a target restarted more than       *)
(* maxRestartsPerMinute times, whichever callers overlap: those that come  *)
(* before the first has written the cooldown are held by this limit only.  *)
(* (updateConfig of the manager makes a new healer, which has forgotten.)  *)
(***************************************************************************)
RestartsLimited ==
    \A t \in Targets : \A i \in DOMAIN restarts :
        Cardinality({j \in DOMAIN restarts :
            /\ restarts[j].target = t
            /\ restarts[j].timestamp >= restarts[i].timestamp
            /\ restarts[j].timestamp < restarts[i].timestamp + Minute})
        <= maxRestartsPerMinute
=============================================================================
