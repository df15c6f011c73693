SPECIFICATION StreamSpec
CONSTANTS
    Chunks <- ShortChunks
    InspectionLimit = 5
    MaxLength = 8
CHECK_DEADLOCK FALSE
INVARIANTS
    StreamTypeOK
    CommitsOnFirstEvent
    EndedAsItsText
