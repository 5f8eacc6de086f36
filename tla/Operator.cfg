SPECIFICATION FairSpec
CONSTANTS
    p1 = p1
    p2 = p2
    Policy = {p1, p2}
    Name <- MCName
    Specs <- Mixed
    None = None
    MaxTrouble = 1
CHECK_DEADLOCK FALSE
INVARIANTS
    TypeOK
    AppliedIsLoaded
PROPERTIES
    ReleasedIsFlushed
    DeletionCompletes
    CreatedIsApplied
