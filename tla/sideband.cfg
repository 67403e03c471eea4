SPECIFICATION FairSpec
CONSTANTS
    prompt = prompt
    check = check
    p1 = p1
    p2 = p2
    p3 = p3
    i1 = i1
    i2 = i2
    None = None
    Callers <- TwoCallers
    Checkers <- OneCheck
    Processes <- ThreeProcesses
    Ids <- TwoIds
INVARIANT OneChild
INVARIANT AnswersFindCallers
PROPERTY EveryCallEnds
