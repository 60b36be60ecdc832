SPECIFICATION Spec
CONSTANTS
    Types <- MCTypes
    Streamers <- MCStreamers
    Spelling <- MCSpelling
    Root = "Event"
    Queries <- MCQueries
    Files <- MCFiles
    Blank <- MCBlank
INVARIANTS TypeOK EntryIsReference SiblingsShareIndices
CHECK_DEADLOCK FALSE
