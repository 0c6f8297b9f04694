SPECIFICATION FairSpec
CONSTANTS
    MAX_TASKS = 4
    TIME_SLICE_TICKS = 1
    BOOT_PAGES = 1
    FORK_PAGES = 1
    UserIds <- TreeIds
    Faults = TRUE
PROPERTY FaultContained
CHECK_DEADLOCK FALSE
