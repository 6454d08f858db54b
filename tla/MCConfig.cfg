SPECIFICATION MCSpec
CONSTANTS
    Contents = {e, a}
    Empty = e
    Torn = Torn
    Live = Live
    Writers = {w1, w2, w3}
    Paths = {path}
    path = path
    allowed = allowed
    other = other
    Values = {allowed, other}
    Unset = Unset
    allowedValues <- MCallowedValues
    TornConfig = TornConfig
    LiveConfig = LiveConfig
    EngineCalls = {w1, w2}
    MaxSnapshots = 2
    TornIndex = TornIndex
    LiveIndex = LiveIndex
    VersioningCalls = {w1, w2}
    MaxVersions = 2
    MaxRecorded = 4
    UserContexts = {"unknown", "coding", "debugging"}
    listenerCount = 2
    MaxSwitches = 3
    MaxDepth = 2
    Members = {member}
    member = member
    Own = own
    own = own
    EditedIds <- MCEditedIds
    EditedRules <- MCEditedRules
    MaxEdits = 2
    MaxActive = 2
    EnvLines <- MCEnvLines
    EnvAssigned <- MCEnvAssigned
    MaxEnvLines = 2
    MaxEnvSets = 2
    MaxRegistered = 1
    MaxEvidence = 3
    Keys <- MCKeys
    FormValues <- MCFormValues
    Numerals = {"0", "1", "5", "10", "60"}
    EditedPaths <- MCEditedPaths
    EditedValues <- MCEditedValues
INVARIANTS
    AllTypesOK
    ConfigOnDisk
    VersionsOnDisk
    SwitchesChain
    ReadersAndScores
PROPERTIES
    VerdictsFollowTemplates
CHECK_DEADLOCK FALSE
