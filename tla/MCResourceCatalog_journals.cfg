SPECIFICATION MCSpec
CONSTANTS
    Reservations = {r1}
    Artifacts = {a1}
    Terminal = {"consumed", "expired"}
    Fingerprints = {f1, f2, f3}
    Times = {1, 2}
    MaxJournal = 3
    NULL = NULL
    EffectTasks = {t1}
    EffectCalls = {c1, c2}
    RequestFingerprints = {q1, q2}
    DecisionIds = {d1, d2}
    ApprovalIds = {p1}
    IntentIds = {i1, i2}
    NoApproval = NoApproval
    s1 = s1
    s2 = s2
    e1 = e1
    e2 = e2
    e3 = e3
    e4 = e4
    u1 = u1
    u2 = u2
    w1 = w1
    w2 = w2
    BudgetSets = {s1, s2}
    LedgerEvents = {e1, e2, e3, e4}
    LedgerReservations = {w1, w2}
    LedgerUsages = {u1, u2}
    taskOfSet <- MCtaskOfSet
    taskOfEvent <- MCtaskOfEvent
    setOfReservation <- MCsetOfReservation
    taskOfUsage <- MCtaskOfUsage
    EntryFingerprints = {n1, n2, n3}
    MaxSequence = 3
    NoReference = NoReference
    MAX_SAFE_INTEGER = 3
    Amounts <- MCAmounts
    NotIntegers = {nan}
    InvalidBudget = InvalidBudget
    RunTasks = {"t1", "t2"}
    RunIds = {o1, o2}
    ReservationIds = {w1, w2}
    setOfReservationId <- MCsetOfRunReservation
    taskOfArtifact <- MCtaskOfArtifact
    x1 = x1
    x2 = x2
    o1 = o1
    o2 = o2
    NoId = NoId
    MaxSent = 5
INVARIANT
    JournalsFollowEdges
CHECK_DEADLOCK FALSE
SYMMETRY Symmetry
