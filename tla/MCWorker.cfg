SPECIFICATION WorkerSpec
CONSTANTS
    Message <- Messages
    Handler = {h1, h2}
    DrainLimit = 1
    MaxStarts = 2
    MaxCrashes = 1
    Update <- Updates
    Command <- Commands
    Lease = 0
    MaxNow = 1
    MaxDeliveries = 2
    Instant = {t1, t2}
    Invocation = {i1, i2, i3}
    DispatchEnabled = TRUE
SYMMETRY Symmetry
INVARIANTS
    TypeOK
    PendingMeansUnsent
    OneAttemptCounted
    CompletedMeansAnswered
    LostOnlyByDeath
    DispatchedOnce
    DispatchRecordIsTrue
PROPERTIES
    StatusMovesForward
    FinishedStaysFinished
CHECK_DEADLOCK FALSE
