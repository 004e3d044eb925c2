SPECIFICATION EngineSpec
CONSTANTS
    Null = Null
    MaxSequence = 1
    BusinessDate = {1}
    SignalId <- MCSignalId
    DedupeKey <- MCKey
    NoticeKey <- MCNotice
    CheckpointKey <- MCCheckpointKey
    Time <- MCTime
    Decimal <- MCDecimal
    Term <- MCTerm
    Closing <- MCClosing
    Adjustment <- MCAdjustment
    Payload <- MCPayload
    PartialTrigger = 0
    MaxMinute = 5
    Candles <- GapMarket
    Setup <- MCLongs
    DateOf <- MCDateOf
    Window = 2
    Cooldown = 3
    Expiry = 3
    StartsAligned = {FALSE}
    ReportMinutes = {}
    RefusedOps = {}
    LateOps = {}
    MaxFaults = 1
    MaxToggles = 0
INVARIANTS
    BookedAsReplayed
