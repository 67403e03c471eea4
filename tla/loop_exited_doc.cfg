SPECIFICATION Spec
CONSTANT c1 = c1
CONSTANT c2 = c2
CONSTANT Clients <- OneStep
CONSTANT SidebandClients = {}
CONSTANT MaxRounds = 1
CONSTANT MaxPanes = 1
CONSTANT RemoteBase = 10
CONSTANT MaxLocal = 1
CONSTANT MaxRemote = 0
INVARIANT NoWaitOnExited
