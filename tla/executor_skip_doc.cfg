SPECIFICATION Spec
CONSTANTS
    NumSteps = 2
    Outputs = {"pass"}
    Definitions <- RetryDefinitions
    StoreMayFail = FALSE
INVARIANT SkipMarksSkipped
