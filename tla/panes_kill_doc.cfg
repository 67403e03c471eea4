SPECIFICATION Spec
CONSTANT MaxPanes = 3
CONSTANT RemoteBase = 10
CONSTANT MaxLocal = 4
CONSTANT MaxRemote = 2
CHECK_DEADLOCK FALSE
INVARIANT PanesCanBeKilled
