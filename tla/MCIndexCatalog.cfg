SPECIFICATION Spec
CONSTANTS
    NFiles = 2
    NWorkers = 1
    Columns = {c}
    Ids <- TwoIds
    strict = strict
    partial = partial
    Requests <- Both
    Partial <- Partials
    MaxTorn = 1
INVARIANTS
    CatalogTypeOK
    CurrentIsWhole
    NoDuplicateRows
    EventRangesDisjoint
    NoCheckpointCollision
CHECK_DEADLOCK FALSE
