SPECIFICATION FairSpec
CONSTANTS
    NumWorkers = 2
    NumKillers = 1
    Parks = {"receive", "await", "select"}
    Kills = {"terminate"}
    MaxCalls = 1
    MaxMessages = 1
    MaxTimers = 0
    MaxResumes = 0
PROPERTIES
    PublishedCallEnds
CHECK_DEADLOCK FALSE
