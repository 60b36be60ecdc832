CONSTANTS
    Types <- MCTypes
    Streamers <- MCStreamers
    Root = "Event"
    OnFile <- MCOnFile
    Current <- MCCurrent
    Unversioned <- MCUnversioned
    Scenarios <- MCScenarios
    Damages <- MCDamages
    MaxValues = 6
    MaxCells = 200
    PageRows = 3
SPECIFICATION Spec
INVARIANTS
    TypeOK
    DecodedIsStored
    DamageIsContained
CHECK_DEADLOCK FALSE
