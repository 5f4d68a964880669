SPECIFICATION FairLoops
CONSTANTS
    Items = {i1, i2}
    Capacity = 1
    PollLimit = 2
    PageLimit = 1
    Former = {i2}
INVARIANTS
    LoopsSafety
    IdleOwesNothing
PROPERTIES
    ShutdownEnds
    CommandsAreAudited
CHECK_DEADLOCK FALSE
