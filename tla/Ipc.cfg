SPECIFICATION IpcSpec
CONSTANTS
    MAX_TASKS = 4
    TIME_SLICE_TICKS = 1
    BOOT_PAGES = 2
    FORK_PAGES = 1
    UserIds <- TalkIds
    Faults = TRUE
    IPC_MAX = 1
    BUF = 2
    Bytes = {a, b}
    UserLens = {0, 2}
INVARIANTS
    SendReturns
    RecvReturns
    MessageKept
SYMMETRY ByteSymmetry
CHECK_DEADLOCK FALSE
