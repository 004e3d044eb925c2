SPECIFICATION FairSpec
CONSTANTS
    Null = Null
    MaxSequence = 1
    BusinessDate = {1}
    SignalId <- MCSignalId
    DedupeKey <- MCKey
    NoticeKey <- MCNotice
    CheckpointKey <- MCCheckpointKey
    Time <- MCTime
    Decimal <- MCDecimal
    Term <- MCTerm
    Closing <- MCClosing
    Adjustment <- MCAdjustment
    Payload <- MCPayload
    PartialTrigger = 0
    MaxMinute = 4
    Candles <- ShortMarket
    Setup <- MCLongs
    DateOf <- MCDateOf
    Window = 4
    Cooldown = 3
    Expiry = 3
    StartsAligned = {FALSE}
    ReportMinutes = {}
    RefusedOps = {"close_track"}
    LateOps = {}
    MaxFaults = 0
    MaxToggles = 0
PROPERTIES
    ReplayCatchesUp
