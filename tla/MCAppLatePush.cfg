SPECIFICATION Spec
CONSTANTS
    WorkerCount = 1
    InputCapacity = 1
    OutputCapacity = 1
    Escalate = FALSE
    MaxSignals = 1
    MaxStalls = 1
    MaxFaults = 0
INVARIANT NoPushAfterOutputClose
