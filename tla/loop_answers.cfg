SPECIFICATION FairSpec
CONSTANT c1 = c1
CONSTANT c2 = c2
CONSTANT Clients <- TwoSteps
CONSTANT SidebandClients <- OneSideband
CONSTANT MaxRounds = 1
CONSTANT MaxPanes = 2
CONSTANT RemoteBase = 10
CONSTANT MaxLocal = 1
CONSTANT MaxRemote = 1
INVARIANT ResultsHaveSlots
PROPERTY ImplementsRuntime
PROPERTY RemoteSpawnSettles
