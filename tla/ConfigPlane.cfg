SPECIFICATION FairSpec
CONSTANTS
    Caller = {c1, c2}
    Request = {r1}
    Path = {"api", "health"}
    Fleets <- UniformOrBare
    None = None
    MaxUpdate = 3
CHECK_DEADLOCK FALSE
INVARIANT TypeOK
PROPERTIES
    Atomic
    EveryoneReturns
