SPECIFICATION FairSpec
CONSTANTS
    NumWorkers = 2
    Pids = {p1}
    NoPid = NoPid
    MessagePids = {}
    TimerPids = {p1}
    IoPids = {}
    MaxDelay = 1
    CanShutDown = TRUE
PROPERTIES
    EventsGetASlice
    TimersFire
    ShutdownStopsAll
CHECK_DEADLOCK FALSE
