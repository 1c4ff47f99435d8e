SPECIFICATION Spec
CONSTANTS
    WorkerCount = 2
    InputCapacity = 1
    OutputCapacity = 1
    Escalate = FALSE
    MaxSignals = 2
    MaxStalls = 1
    MaxFaults = 1
INVARIANTS TypeOK DrainLosesNothing LossBoundedByExceptions DspRecordsNeverRejected NoThreadOutlivesRun
