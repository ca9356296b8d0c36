SPECIFICATION Spec
CONSTANTS
    NumWorkers = 2
    NumKillers = 2
    Parks = {"receive", "await"}
    Kills = {"exit", "cascade"}
    MaxCalls = 1
    MaxMessages = 0
    MaxTimers = 1
    MaxResumes = 0
INVARIANTS
    NeverParkedOnAnEvent
    
    DeadPidLeavesNothing
CHECK_DEADLOCK FALSE
