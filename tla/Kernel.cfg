SPECIFICATION Spec
CONSTANTS
    MAX_TASKS = 4
    TIME_SLICE_TICKS = 1
    BOOT_PAGES = 7
    FORK_PAGES = 2
    UserIds <- AllIds
    Faults = TRUE
INVARIANTS
    TypeOK
    FreeListExact
    OneTaskRuns
    RunnableIsResumable
    NoLostWakeup
    NoMissedRendezvous
    WokenWaiterReaps
    SpinOnlyInDeadlock
PROPERTY DeadStaysDead
CHECK_DEADLOCK FALSE
