SPECIFICATION MCSpec
CONSTANTS
    Breakers = {b1}
    Calls = {c1, c2, c3, c4, c5}
    failureThreshold = 2
    successThreshold = 2
    halfOpenMaxCalls = 2
    Callers = {q1, q2, q3, q4}
    maxConcurrent = 1
    QueueLimit = 2
    maxRetries = 1
    Cycles = {y1, y2}
    h1 = h1
    h2 = h2
    healActions <- MChealActions
    undoable = {h1}
    healCooldown = 2
    maxConcurrentHeals = 2
    MaxHealTime = 4
    ChaosRunners = {u1, u2, u3}
    Experiments <- MCExperiments
    registered <- MCregistered
    maxConcurrentExperiments = 2
    MaxLayers = 2
    HealClients = {k1, k2}
    Targets = {t1}
    allowedActions = {"clear_cache", "restart"}
    maxRestartsPerMinute = 2
    healerCooldown = 1
    Minute = 3
    MaxHealerTime = 5
    Loops = {l1, l2}
    NoLoop = NoLoop
INVARIANTS
    AllTypesOK
    NeverStuckHalfOpen
    TrippedIsDegraded
    LimitsCounted
PROPERTIES
    NothingHangs
    HealsSpaced
CHECK_DEADLOCK FALSE
