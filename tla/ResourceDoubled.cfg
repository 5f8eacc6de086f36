SPECIFICATION FairSpec
CONSTANTS
    Configs <- Doubled
    Ceiling = 3
    MaxLen = 2
    MaxGen = 3
    MaxChange = 2
PROPERTY SabotageIsCleanedUp
