SPECIFICATION TrafficSpec
CONSTANTS
    Entry = {"latency", "error"}
    Size = 3
    Command = {"get", "set", "ping"}
    Snapshots <- Mixed
    Method = {"get", "list"}
    Header = {"x"}
    GrpcConfigs <- AllGrpc
    Services <- ThreeServices
INVARIANTS
    TrafficTypeOK
    FaultIsNotExecuted
    FaultStaysOnRecord
    ShelteredIsSpared
    FateIsKept
PROPERTIES
    SnapshotIsRecent
    DirectionsIndependent
