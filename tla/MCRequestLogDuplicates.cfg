CONSTANTS
    BackupCount = 2
    LinesPerFile = 1
    MaxRecords = 4
    MaxCrashes = 1
    Logged <- LoggedRecords
    Now = 10
    Windows <- TwoWindows
SPECIFICATION Spec
INVARIANTS
    NoDuplicates
CHECK_DEADLOCK FALSE
