SPECIFICATION ServicesSpec
CONSTANTS
    proc = proc
    other = other
    host = host
    NumBuckets = 2
    Resolution = 2
    MaxSkew = 1
    MaxRefs = 3
    MaxDelay = 3
    MaxClock = 4
    Owner = o
    NoMarker = NoMarker
    Correspondents = {proc, host}
    LaneOf <- LocalAndHost
    DeathLane <- LocalLinked
    Quota <- SmallQuota
    MaxReceives = 2
    MaxDropped = 1
    Exiting = {p1, p2}
    Stranger = p0
    Cleaners = {"c1", "c2"}
    Watchers = {"w"}
    Watchable = {p0, p1}
    TombstoneCap = 1
    EventCap = 1
    MaxCleanups = 3
    IoProcs = {proc, other}
    OnWorkerZero = {proc}
    CallKinds <- TimedCalls
    SocketHolder = other
    Modes = {"once"}
    Mortal = {proc}
    MaxIoCalls <- TwoCalls
    MaxIoOps = 3
    Spaces = {"default"}
    DefaultSpace = "default"
    Runners = {proc}
    CodeServers = {"c1"}
    HomeStarts = FALSE
    CodeOps = {"load", "purge", "force", "delete"}
    MaxLoads = 3
    MaxEpochs = 2
    MaxStack = 1
INVARIANTS
    ServicesTypeOK
    
    ReceiveSkipsNothing
    ExitExactlyOnce
    WatchNeverLost
    NoExitForgotten
    
    
    NoResultForDead
    NativeCodeIsOwn
    UsedCodeIsRetained
PROPERTIES
    WheelIsATimerSet
CHECK_DEADLOCK FALSE
