SPECIFICATION Spec
CONSTANTS
    NumSteps = 3
    Outputs = {"pass", "fail"}
    Definitions <- GraphDefinitions
    StoreMayFail = TRUE
INVARIANT DependenciesSettled
INVARIANT CompletedCoversAll
INVARIANT NeverUnreachable
INVARIANT AbortIsFinal
INVARIANT CheckpointClosed
INVARIANT OutputsVisible
INVARIANT OwnInputsRender
INVARIANT DecisionsStand
PROPERTY SettledOnce
PROPERTY ImplementsSchedule
