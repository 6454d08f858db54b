SPECIFICATION MCSpec
CONSTANTS
    Keys = {k1, k2}
    Values = {v1, v2}
    Getters = {g1, g2}
    l1MaxSize = 1
    NONE = NONE
    CacheKeys = {e0, e1, e2}
    EmptyKey = e0
    maxSize = 2
    MaxAccess = 4
    a1 = a1
    a2 = a2
    Agents = {a1, a2}
    skill <- MCskill
    maxLoad = 2
    historyWindow = 1
    MaxOutstanding = 3
    LoadCalls = {w1, w2}
    MaxVersion = 3
    NOTHING = NOTHING
    IMPORTING = IMPORTING
    Plugins = {p1, p2, p3}
    MaxCalls = 4
    workingMaxEntries = 2
    MaxStored = 3
    MaxAccesses <- MCMaxAccesses
    MaxInstant = 1
    Nodes = {n1, n2}
    maxEntries = 2
    MaxRecords = 4
    MaxLeaves = 9
    str_a = str_a
    str_aa = str_aa
    str_b = str_b
    str_bad = str_bad
    str_long = str_long
    Strings = {str_a, str_aa, str_b, str_bad, str_long}
    decode <- MCdecode
    maxDepth = 2
    maxMembers = 2
    maxStringLength = 2
    MaxTokens = 9
    Objects = {o1, o2, o3}
    root = o1
    NotString = NotString
    InvalidId = InvalidId
    MaxSignals = 2
    MaxNesting = 2
    MaxRecorded = 2
INVARIANTS
    AllTypesOK
    CachesCorrect
    LoadsAreTasks
    PluginsConsistent
    ProvenanceHolds
    FormsAndProofs
    EdgesAgree
CHECK_DEADLOCK FALSE
