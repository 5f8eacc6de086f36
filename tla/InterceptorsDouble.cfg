SPECIFICATION ChaosSpec
CONSTANTS
    Entry = {"latency", "error"}
    Size = 1
    Command = {"get"}
    Snapshots <- OnlySlow
INVARIANT NoDoubleChaos
