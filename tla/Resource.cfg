SPECIFICATION FairSpec
CONSTANTS
    Configs <- Contended
    Ceiling = 4
    MaxLen = 2
    MaxGen = 3
    MaxChange = 2
INVARIANTS
    CeilingHonoured
    PoolBalanced
    OneGeneration
    QuietAfterReturn
PROPERTIES
    SabotageFollowsConfig
    SabotageEnds
