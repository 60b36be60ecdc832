SPECIFICATION Spec
CONSTANTS
    Largest = 3
    MaxWord = 15
    Hash <- MCHash
    Mix <- MCMix
    HashLimit = 2
    SmallBits = 4
    StreamBits = 8
    Workers = {1, 2}
    VectorSize = 2
    Queries <- MCQueries
INVARIANTS TypeOK RowsAtMostOnce ResultIsComplete LimitIsExact
PROPERTY ScanEnds
