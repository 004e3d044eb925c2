SPECIFICATION Spec
CONSTANTS
    SignalId <- MCSignalId
    BusinessDate <- MCBusinessDate
    Time <- MCTime
    Decimal <- MCDecimal
    Term <- MCTerm
    Closing <- MCClosing
    Adjustment <- MCAdjustment
    DedupeKey = {k1, k2, k3, k4}
    NoticeKey = {n1, n2}
    CheckpointKey = {c1}
    Payload = {p1}
    MaxSequence = 1
    Null = Null
SYMMETRY Symmetry
INVARIANTS
    TypeOK
    StatusMatchesRows
    ClosedTracksHaveOutcomes
    FixedTrackUntouched
    JournalTellsStatus
PROPERTIES
    OneReceiptPerTradeChange
    ImplementsLifecycle
CHECK_DEADLOCK FALSE
