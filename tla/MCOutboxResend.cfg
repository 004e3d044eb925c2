SPECIFICATION Spec
CONSTANTS
    Message <- TwoMessages
    Handler = {h1, h2}
    DrainLimit = 2
    MaxStarts = 2
    MaxCrashes = 0
INVARIANTS
    NeverResent
CHECK_DEADLOCK FALSE
