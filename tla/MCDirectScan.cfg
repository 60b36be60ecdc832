SPECIFICATION Spec
CONSTANTS
    Threads = {t1, t2}
    Queries <- MCQueries
    Capacity = 2
    Batch = 2
    Attempts = 2
CHECK_DEADLOCK FALSE
INVARIANTS TypeOK RowsAtMostOnce ResultIsComplete EveryFileIsAccounted FinishedIsQuiet
PROPERTY ScanEnds
