SPECIFICATION FairSpec
CONSTANTS
    Systems = {0, 1, 2, 3}
    Workers = {w1, w2}
    DepGraphs <- AllDepGraphs
    MaxPanics = 1
CHECK_DEADLOCK FALSE
INVARIANTS
    DepsExecutedFirst
    NoneLost
    CleanReturn
PROPERTIES
    ImplementsScheduleRun
    Returns
