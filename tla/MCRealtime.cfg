SPECIFICATION FairSpec
CONSTANTS
    Threads <- MCThreads
    Users <- MCUsers
    Priority <- MCPriority
    Pinned = {"watchdog"}
    Page = 4
    DefaultPage = 2
    StackBytes = 8
    HeapBytes = 16
    Cpus = 1
    NoThread = NoThread
INVARIANTS
    TypeOK
    ConstructorLeavesNothing
    PrefaultReachesPages
    WarningsAreTruthful
    InversionBounded
PROPERTIES
    UrgentThreadServed
\* The program ends when a constructor throws.
CHECK_DEADLOCK FALSE
