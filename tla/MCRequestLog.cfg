CONSTANTS
    BackupCount = 2
    LinesPerFile = 2
    MaxRecords = 8
    MaxCrashes = 1
    Logged <- LoggedRecords
    Now = 10
    Windows <- TwoWindows
SPECIFICATION Spec
INVARIANTS
    TypeOK
    CleanSnapshotsOrdered
    NothingElseLost
    SummaryAccountsForAll
CHECK_DEADLOCK FALSE
