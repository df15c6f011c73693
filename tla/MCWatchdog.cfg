SPECIFICATION FairSpec
CONSTANTS
    TargetCount = 2
    Services = {2}
    Authenticated = {1}
    FailureThreshold = 2
    InitialCooldown = 1
    MaximumCooldown = 2
INVARIANTS
    WatchdogTypeOK
    RestartsJustified
PROPERTIES
    StoppedAreStarted
