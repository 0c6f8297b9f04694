SPECIFICATION ProgramsSpec
CONSTANT NFRAMES = 24
CONSTANT DEPTH = 3
CONSTANT RADIX = 3
CONSTANT KERNEL_START = 1
CONSTANT Tasks = {1, 2}
CONSTANT StackPage = 8
CONSTANT StorePages = {1, 8}
CONSTANT Data = {1}
CONSTANT Images <- TestImages
CONSTRAINT Explored
INVARIANT SuccessMeansLoaded
CHECK_DEADLOCK FALSE
