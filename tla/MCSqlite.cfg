SPECIFICATION Spec
CONSTANTS
    SignalId <- MCSignalId
    BusinessDate = {d1}
    Time = {1}
    Decimal <- MCDecimal
    Term <- MCTerm
    Closing <- MCClosing
    Adjustment <- MCAdjustment
    DedupeKey <- MCKey
    KeyOp <- MCKeyOp
    NoticeKey <- MCNotice
    CreationNotice <- MCCreationNotice
    AlertKey = {"alert"}
    ExtraKey = {"x1"}
    ExtraEvent = {"TP1_HIT", "CLOSED"}
    CheckpointKey = {c1}
    Payload = {p1}
    MaxSequence = 1
    SettingKey = {"PAUSED", "TOKEN"}
    Sensitive = {"TOKEN"}
    SettingValue = {"true"}
    Null = Null
INVARIANTS
    TakesWhatD1Takes
PROPERTIES
    ImplementsLedger
CHECK_DEADLOCK FALSE
