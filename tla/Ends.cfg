SPECIFICATION EndsSpec
CONSTANTS
    a1 = a1
    b1 = b1
    old = old
    new = new
    k1 = k1
    k2 = k2
    Low = low
    High = high
    Sockets = {a1, b1}
    Dialer <- OneEach
    Envelope = 2
    Stepwise = {high}
    Watched = {high}
    MaxFaults = 1
    MaxSessions = 2
    LaneCap = 1
    LinkCallers = {"a"}
    MaxLinkCalls = 2
    MaxLinkFaults = 1
    Crew = {k1, k2}
    Residents = {old}
    Newcomers = {new}
    Scripts <- Plots
    NoOne = NoOne
SYMMETRY CrewSymmetry
INVARIANTS
    EndsTypeOK
    EventContract
    SameSocket
    
    PermitsAccounted
    ExitOncePerLink
    
    ShutdownLeavesNobody
    NoBridgeOutlivesShutdown
    FailureToldOnce
CHECK_DEADLOCK FALSE
