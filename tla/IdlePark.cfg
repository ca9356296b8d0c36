SPECIFICATION Spec
CONSTANTS
    NumWorkers = 2
    Pids = {p1, p2, p3}
    NoPid = NoPid
    MessagePids = {p1, p2}
    TimerPids = {p3}
    IoPids = {p3}
    MaxDelay = 2
    CanShutDown = FALSE
SYMMETRY PidSymmetry
ACTION_CONSTRAINT KeepsScene
INVARIANTS
    NoLostWake
    ScheduledExactlyOnce
    
    WorkerZeroNeverOversleeps
CHECK_DEADLOCK FALSE
