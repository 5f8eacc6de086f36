SPECIFICATION SourcesSpec
CONSTANTS
    MaxMessage = 2
    MaxOutage = 2
    MaxVersion = 3
    MaxOther = 1
    Pod = {"a", "b"}
    MaxChange = 2
    MaxBreak = 1
    MaxStream = 3
CHECK_DEADLOCK FALSE
INVARIANTS
    SourcesTypeOK
    NoOrphanStream
PROPERTIES
    GraceRespected
    FleetInSync
    AppliedOnceInOrder
    EngineFollowsMap
    RunningPodIsTailed
    AllStop
