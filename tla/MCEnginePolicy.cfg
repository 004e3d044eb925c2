SPECIFICATION EngineSpec
CONSTANTS
    Null = Null
    MaxSequence = 2
    BusinessDate = {1}
    SignalId <- MCSignalId
    DedupeKey <- MCKey
    NoticeKey <- MCNotice
    CheckpointKey <- MCCheckpointKey
    Time <- MCTime
    Decimal <- MCDecimal
    Term <- MCTerm
    Closing <- MCClosing
    Adjustment <- MCAdjustment
    Payload <- MCPayload
    PartialTrigger = 3
    MaxMinute = 5
    Candles <- MirrorMarket
    Setup <- MCShorts
    DateOf <- MCDateOf
    Window = 3
    Cooldown = 2
    Expiry = 2
    StartsAligned = {FALSE, TRUE}
    ReportMinutes = {1}
    RefusedOps = {}
    LateOps = {}
    MaxFaults = 1
    MaxToggles = 0
INVARIANTS
    NoCommandRefused
    StatisticsComplete
    SuccessMeansCaughtUp
    OutcomesTruthful
