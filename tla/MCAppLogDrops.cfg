SPECIFICATION Spec
CONSTANTS
    WorkerCount = 2
    InputCapacity = 1
    OutputCapacity = 1
    Escalate = FALSE
    MaxSignals = 3
    MaxStalls = 0
    MaxFaults = 0
INVARIANT LogDropsReported
