SPECIFICATION Spec
CONSTANTS
    MAX_TASKS = 4
    TIME_SLICE_TICKS = 1
    BOOT_PAGES = 3
    FORK_PAGES = 1
    UserIds <- TreeIds
    Faults = FALSE
INVARIANT ReapedPagesReturn
