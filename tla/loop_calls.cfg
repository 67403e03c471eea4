SPECIFICATION Spec
CONSTANT c1 = c1
CONSTANT c2 = c2
CONSTANT Clients <- TwoSteps
CONSTANT SidebandClients = {}
CONSTANT MaxRounds = 1
CONSTANT MaxPanes = 2
CONSTANT RemoteBase = 10
CONSTANT MaxLocal = 3
CONSTANT MaxRemote = 0
SYMMETRY Symmetry
INVARIANT TypeOK
INVARIANT CallsTracked
INVARIANT OwnersDistinct
INVARIANT PendingsAreLive
