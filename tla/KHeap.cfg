SPECIFICATION Spec
CONSTANT PGSIZE = 16
CONSTANT HDR = 3
CONSTANT ALIGN = 2
CONSTANT KHEAP_PAGES = 3
CONSTANT FRAMES = 8
CONSTANT UPPER = 2
CONSTANT PTENTRIES = 2
CONSTANT Sizes = {2, 7, 13, 26}
INVARIANT TypeOK
INVARIANT HeapSound
INVARIANT HeapMapped
INVARIANT FreeMerged
INVARIANT WholeAgain
CHECK_DEADLOCK FALSE
