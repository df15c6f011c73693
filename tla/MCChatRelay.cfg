SPECIFICATION FairSpec
CONSTANTS
    Requests = {r1, r2}
    Eligible = {chat, vision}
    LocalOnly = {notes}
    LocalLimit = 2
    TotalLimit = 3
    KeyConfigured = TRUE
    FailureThreshold = 1
    OpenSeconds = 1
CHECK_DEADLOCK FALSE
INVARIANTS
    TypeOK
    ProvidersKeptApart
    NothingLeaks
    FallbackTried
PROPERTIES
    BudgetsKept
    KeepsBreakerPromise
    WaitsAreBounded
