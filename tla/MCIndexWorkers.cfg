SPECIFICATION BuildSpec
CONSTANTS
    NFiles = 3
    NWorkers = 2
    Columns = {c}
    Ids <- OneId
INVARIANTS
    BuildTypeOK
    ExactlyOnce
    OKIsDurable
    SchemaCovered
PROPERTY BuildTerminates
CHECK_DEADLOCK FALSE
