SPECIFICATION StreamSpec
CONSTANTS
    Chunks <- LongChunks
    InspectionLimit = 3
    MaxLength = 10
CHECK_DEADLOCK FALSE
INVARIANTS
    TruncatedWithoutDone
