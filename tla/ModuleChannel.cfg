SPECIFICATION ModuleSpec
CONSTANTS
    Positions = {1, 2, 3, 4, 5}
    Lines = {1, 2, 3, 4}
    StaleLimit = 4
    KeepAlive = 2
    MaxDrop = 3
    Values = {1, 2}
    Retries = 1
    MaxSets = 2
    MaxFaults = 1
    MaxInbox = 1
    MaxWire = 1
CHECK_DEADLOCK FALSE
INVARIANTS VerifiedIsThere WorkingSucceeds
PROPERTIES ReportsNeverJump ReportsFollow SetEnds
