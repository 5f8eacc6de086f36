SPECIFICATION CtlSpec
CONSTANTS
    Nodes <- SomeNodes
    Files <- SomeFiles
    Drafts <- SomeDrafts
    Strikes <- SomeStrikes
    Step = 50
    Limit = 110
    Threshold = 2
    MaxProbes = 3
    Baseline <- Already
CHECK_DEADLOCK FALSE
INVARIANTS
    CtlTypeOK
    QuietAfterExit
    SuccessIsEarned
    ValidateSpeaksForEngine
    PlanRiskGrows
PROPERTY CommandEnds
