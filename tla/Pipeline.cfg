SPECIFICATION Spec
CONSTANTS
    Null = Null
    x = x
    y = y
    Jobs <- MCJobs
    LargeFiles = {"e"}
    MaxEpsilon = 8
    TotalEps = 6
    TotalDelta = 6
    Mode = "zcdp"
    LogInvDelta = 2
    Timeout = 1
    Analyze <- AnalyzeProgram
    Optimized <- OptimizeProgram
    Lowered <- LowerData
INVARIANTS ResultIsMeaning CheckedColumnsExist NoUnpaidNoise FailClosed ImportsOnce AnswerIsTrue EmittedIsMeaning
PROPERTY Answers
CHECK_DEADLOCK FALSE
