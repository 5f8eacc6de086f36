SPECIFICATION CtlSpec
CONSTANTS
    Nodes <- SomeNodes
    Files <- Oversized
    Drafts <- NoDrafts
    Strikes = {}
    Step = 50
    Limit = 0
    Threshold = 1
    MaxProbes = 1
    Baseline <- Already
CHECK_DEADLOCK FALSE
INVARIANT OversizedIsRefused
