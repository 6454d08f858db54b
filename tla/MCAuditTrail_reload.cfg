SPECIFICATION Spec
CONSTANTS
    MaxEvents = 3
    MAX_BYTES = 5
    MaxCrashes = 1
INVARIANT
    AppendsVerify
CHECK_DEADLOCK FALSE
