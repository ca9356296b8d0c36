SPECIFICATION HcSpec
CONSTANTS
    Spaces = {"default"}
    DefaultSpace = "default"
    Runners = {r1}
    CodeServers = {"c1"}
    HomeStarts = TRUE
    CodeOps = {"load", "purge"}
    MaxLoads = 2
    MaxEpochs = 2
    MaxStack = 1
INVARIANTS
    ResumesInItsVersion
CHECK_DEADLOCK FALSE
