SPECIFICATION Spec
CONSTANTS
    Columns = {"a", "b", "s"}
    Strings = {"s"}
    Representative = "a"
    PageSize = 2
    Options <- MCOptions
    Fails = Fails
    Null = Null
CHECK_DEADLOCK FALSE
INVARIANTS TypeOK EntryIsComplete SerializedRowsAgree ValidatedRowsAreReference
PROPERTY ScanEnds
