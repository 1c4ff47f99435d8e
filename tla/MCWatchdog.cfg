SPECIFICATION Spec
CONSTANTS
    WorkerCount = 2
    Timeout = 1
    MaxTime = 4
INVARIANTS TypeOK NoFalseStall NoMissedStall
