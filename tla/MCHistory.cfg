SPECIFICATION HistorySpec
CONSTANTS
    Bounds <- MCBounds
    MaximumAttempts = 2
    MaxBuilds = 2
    Lookback = 5
    ClockSkew = 1
    HighWait = 1
    ExtremeWait = 2
    HighPre = 1
    HighPost = 1
    ExtremePre = 2
    ExtremePost = 2
    ContradictionSpan = 3
    Calendar <- MCCalendar
    NewsSource = {"fed", "sec"}
    Schedules <- MCSchedules
    Headlines <- MCHeadlines
    Retrieved = 12
    IntervalMinutes <- MCIntervals
    Histories <- MCHistories
    NativeRanges <- MCNativeRanges
    Limits = {2}
    SimulatedExpiry = 3
    PartialTrigger = 0
    TrainSize = 1
    TestSize = 1
    PurgeSize = 0
    Thresholds = {1, 2}
    PrimaryThreshold = 1
    Setups <- MCSetups
    Scores = {1, 2}
    RunRanges <- MCRunRanges
    RunLookback = 2
    ReplayCooldown = 2
INVARIANTS
    InspectedIsLoadable
    PublishedIsComplete
    DecidedAsOfThen
    RiskNeverSilent
    DerivedIsImportable
    CacheIsInvisible
    ResampledFromWholeIntervals
    BacktestIsLive
    RunIsEvaluated
    PrimaryRowIsTheSample
CHECK_DEADLOCK FALSE
