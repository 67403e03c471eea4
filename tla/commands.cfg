SPECIFICATION UserSpec
CONSTANTS
    MaxPanes = 5
    RemoteBase = 10
    MaxLocal = 6
    MaxRemote = 1
    X10Limit = 4
    Screen <- SmallScreen
    Keyboards <- SomeKeyboards
    Workflows <- ReviewWorkflow
CHECK_DEADLOCK FALSE
INVARIANT EditsAreSafe
INVARIANT QuotedArgumentsSurvive
INVARIANT KeysReachFocus
INVARIANT PanesTile
INVARIANT PressesAreAimed
