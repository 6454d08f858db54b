SPECIFICATION MCSpec
CONSTANTS
    t1 = t1
    t2 = t2
    e1 = e1
    e2 = e2
    e3 = e3
    e4 = e4
    d1 = d1
    d2 = d2
    d3 = d3
    d4 = d4
    NULL = NULL
    Tasks <- MCTasks
    EventIds <- MCEventIds
    Digests <- MCDigests
    Submissions <- MCSubmissions
    MaxSequence = 4
    Events <- MCEvents
    MaxEvents = 4
INVARIANTS
    CreatedIsFirst
CHECK_DEADLOCK FALSE
