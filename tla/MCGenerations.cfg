SPECIFICATION Spec
CONSTANTS
    NFiles = 1
    NWorkers = 1
    Columns = {c}
    Ids <- ThreeIds
    strict = strict
    partial = partial
    Requests <- Strict
    Partial <- None
    MaxTorn = 1
INVARIANT CurrentIsComplete
PROPERTIES ImplementsGenerations LockIsReleased
CHECK_DEADLOCK FALSE
