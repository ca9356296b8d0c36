SPECIFICATION Spec
CONSTANTS
    NumWorkers = 2
    NumKillers = 0
    Parks = {"dirty"}
    Kills = {}
    MaxCalls = 2
    MaxMessages = 0
    MaxTimers = 0
    MaxResumes = 0
INVARIANTS
    NeverParkedOnAnEvent
CHECK_DEADLOCK FALSE
