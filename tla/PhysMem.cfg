SPECIFICATION PhysSpec
CONSTANT NPAGES = 5
CONSTANT PGSIZE = 4
CONSTANT PAGEINFO = 1
CONSTANT MemMaps <- SmallMaps
CONSTANT Requests = {1, 4}
INVARIANT PhysTypeOK
INVARIANT BootAllocDisjoint
INVARIANT FramesSafe
INVARIANT FramesKept
INVARIANT FreeListEnds
PROPERTY ImplementsPool
