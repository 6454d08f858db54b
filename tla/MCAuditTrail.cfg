SPECIFICATION Spec
CONSTANTS
    MaxEvents = 4
    MAX_BYTES = 1
    MaxCrashes = 1
INVARIANTS
    TypeOK
    DiskInOrder
    FilesVerify
PROPERTY
    QueueDrains
CHECK_DEADLOCK FALSE
