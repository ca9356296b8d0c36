SPECIFICATION Spec
CONSTANTS
    NumWorkers = 2
    NumKillers = 0
    Parks = {"dirty", "hook", "await"}
    Kills = {}
    MaxCalls = 2
    MaxMessages = 1
    MaxTimers = 0
    MaxResumes = 1
INVARIANTS
    ScheduledOnce
    GatedCallEndsByItsOwnEvent
    PublishedResultSurvives
CHECK_DEADLOCK FALSE
