SPECIFICATION FairSpec
CONSTANTS
    BodyLimit = 2
    MaxParts = 2
    NativeDimensions = 2
    CompatDimensions = 3
    RoutingDocuments <- Documents
    Bodies <- RouteBodies
    NativeBodies <- NativeAnswers
    ChatBodies <- ChatAnswers
CHECK_DEADLOCK FALSE
INVARIANTS
    TypeOK
    OneTruthfulExchange
    EmbeddingsMatchInputs
    ResponsesMatchProvider
PROPERTIES
    EveryEndRecorded
