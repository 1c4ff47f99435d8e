SPECIFICATION FairSpec
CONSTANTS
    WorkerCount = 1
    InputCapacity = 1
    OutputCapacity = 1
    Escalate = TRUE
    MaxSignals = 2
    MaxStalls = 1
    MaxFaults = 1
PROPERTIES ShutdownCompletes DrainTerminates
