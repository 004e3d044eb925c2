SPECIFICATION FairSpec
CONSTANTS
    Message <- Messages
    Handler = {h1}
    DrainLimit = 2
    MaxStarts = 2
    MaxCrashes = 2
INVARIANTS
    NeverResent
    StatusIsTrue
PROPERTIES
    EveryMessageTaken
CHECK_DEADLOCK FALSE
