SPECIFICATION FairSpec
CONSTANTS
    Body = {b1, b2}
    None = None
    MaxVersion = 2
    MaxAttempts = 2
    MayVanish = TRUE
INVARIANTS
    QuietAfterCancel
    OneTimerArmed
PROPERTIES
    NoReloadAfterCancel
    CancelReturns
    PatientEngineFollows
