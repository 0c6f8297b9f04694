SPECIFICATION FairMachineSpec
CONSTANTS
    MAX_TASKS = 4
    TIME_SLICE_TICKS = 2
    BOOT_PAGES = 2
    FORK_PAGES = 1
    UserIds <- TreeIds
    Faults = FALSE
    Lines = {0, 1}
INVARIANTS
    NothingLeftInService
    OnlyTimerInterrupts
PROPERTIES
    ImplementsKernel
    RunnableRuns
