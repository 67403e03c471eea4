SPECIFICATION ServicesSpec
CONSTANTS
    MaxPanes = 2
    RemoteBase = 10
    MaxLocal = 2
    MaxRemote = 1
    Rows = 3
    ChannelCapacity = 1
    TtyRoom = 1
    FrameCapacity = 2
    InputCapacity = 1
    InputBatch = 1
    MaxKeys = 2
    MaxClock = 2
    v1 = v1
    Viewers = {v1}
    Script <- Says
    Host <- Hosts
    Configured <- InConfig
    Libraries <- Files
    WorkflowFiles <- Loadable
    Launches <- Chosen
CHECK_DEADLOCK FALSE
INVARIANTS
    RepliesMatch
    RestoresAreFaithful
PROPERTIES
    OutputIsShown
    StepsAreAnswered
    EveryTaskStops
    ViewersCatchUp
