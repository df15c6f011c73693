SPECIFICATION Spec
CONSTANTS
    TaskNames <- TaskAndWatchdog
    Watchdog = "Watchdog"
    MaxUpdates = 2
    MaxReboots = 2
CHECK_DEADLOCK FALSE
INVARIANTS
    TypeOK
    PlaceSafe
    TasksAsTheyWere
