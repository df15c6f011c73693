SPECIFICATION SuiteSpec
CONSTANTS
    RequiredLevel = 2
    HighLevel = 3
    TtftLimit = 2
    Tariff = 1
    Prices <- PricesInKrw
    LocalModel = "local"
    LocalSystem = "local-none"
    Counterpart <- SystemOf
    Configs <- SomeRuns
    Models = {"mini", "nano"}
    Ids = {"rag-01", "rag-02", "vis-01", "cls-01"}
    Items <- TwoDatasets
    LoadPrompts = 2
    Answers <- SixAnswers
    UsualAnswer <- Good
    BadRequest <- NotKnown
    Works <- SomeWorks
    UsualWork <- FirstHalf
    StageSeconds = 3
    Snapshots <- SomeSnapshots
    Commands <- SomeCommands
    Systems = {"local-none", "mini-minimal", "nano-none"}
    LocalSystems = {"local-none"}
    Questions = {"kmmlu-Law-00", "trap-01", "format-01"}
    JudgedItems <- TwoJudged
    Texts = {"good", "poor"}
    UsualText = "good"
    ScoreOf <- ScoreOfText
    FailedScore = 1
    RetryRounds = 3
    JudgePasses = 2
    StrongModels = {"strong"}
    All = All
    MaxRuns = 3
    MaxTroubles = 1
CHECK_DEADLOCK FALSE
INVARIANTS
    SuiteTypeOK
    ReportOfOneMeasurement
    VerdictsEarned
    RunsEndClean
    EvaluationOfOwnAnswers
PROPERTIES
    ResultsKept
