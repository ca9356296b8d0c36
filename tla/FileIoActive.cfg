SPECIFICATION ServicesSpec
CONSTANTS
    proc = proc
    other = other
    host = host
    NumBuckets = 2
    Resolution = 2
    MaxSkew = 1
    MaxRefs = 3
    MaxDelay = 3
    MaxClock = 4
    Owner = o
    NoMarker = NoMarker
    Correspondents = {proc, host}
    LaneOf <- LocalAndHost
    DeathLane <- LocalLinked
    Quota <- SmallQuota
    MaxReceives = 2
    MaxDropped = 1
    Exiting = {p1, p2}
    Stranger = p0
    Cleaners = {"c1", "c2"}
    Watchers = {"w"}
    Watchable = {p0, p1}
    TombstoneCap = 1
    EventCap = 1
    MaxCleanups = 3
    IoProcs = {proc, other}
    OnWorkerZero = {proc, other}
    CallKinds <- TimedCalls
    SocketHolder = proc
    Modes = {"once"}
    Mortal = {proc}
    MaxIoCalls <- TwoCalls
    MaxIoOps = 3
    Spaces = {"default"}
    DefaultSpace = "default"
    Runners = {proc}
    CodeServers = {}
    HomeStarts = FALSE
    CodeOps = {}
    MaxLoads = 1
    MaxEpochs = 1
    MaxStack = 0
INVARIANTS
    ActiveKeepsReading
CHECK_DEADLOCK FALSE
