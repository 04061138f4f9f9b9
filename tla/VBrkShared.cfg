SPECIFICATION MemSpec
CONSTANTS
    FirstFrame = 1
    EndFrame = 11
    MaxRegions = 32
    MaxRefcount = 65535
    MaxPage = 12
    PagesPerTable = 8
    KernelRanges <- MCKernelRanges
    BootInfoFrames = {1}
    L4Frames = {1}
    HeapFrames = 1
    Image <- MCImage
    HeapStart = 3
    HeapLimit = 4
    MmapTop = 4
    StackTop = 8
    StackPages = 1
    Touched = {1, 7, 8}
    MmapHints = {2, 5}
    MaxMmap = 1
    MmapFloor = 3
    MaxProc = 2
INVARIANT NoDanglingFrame
CHECK_DEADLOCK FALSE
