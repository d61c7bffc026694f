SPECIFICATION Spec
CONSTANTS
    Systems = {0, 1, 2}
    Workers = {w1, w2}
    DepGraphs <- AllDepGraphs
    MaxPanics = 0
CHECK_DEADLOCK FALSE
INVARIANTS
    ConflictsNotConcurrent
