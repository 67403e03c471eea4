SPECIFICATION FairSpec
CONSTANTS
    NumSteps = 2
    Outputs = {"pass"}
    Definitions <- RetryDefinitions
    StoreMayFail = TRUE
INVARIANT TypeOK
INVARIANT ReportsAgree
INVARIANT PersistedIsTrue
PROPERTY Termination
