SPECIFICATION FairSpec
CONSTANTS
    Requests = {r1, r2, r3, r4}
    FailureThreshold = 2
    OpenSeconds = 2
    MaxFaults = 6
INVARIANTS
    TypeOK
    ProbeSlotOwned
PROPERTIES
    OnlyProbeDecides
    KeepsPromise
    RecoversForGood
