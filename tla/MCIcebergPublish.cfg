SPECIFICATION Spec
CONSTANTS
    p = p
    q = q
    Paths = {p, q}
    Base <- MCBase
    Ids <- MCIds
    Requests <- MCRequests
    Sources = {1, 2}
    MaxTime = 3
    MaxStops = 2
    Nothing = Nothing
INVARIANTS TypeOK AppendedOnce CommittedIsReadable
PROPERTIES ExtensionKeepsPaths ImplementsGenerations
CHECK_DEADLOCK FALSE
