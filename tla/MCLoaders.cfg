SPECIFICATION Spec
CONSTANTS
    FatSectorSize = 2
    MaxChainLength = 5
    DiskSectorSize = 8
    InodesPerSector = 2
    MaxDirectBlocks = 3
    PageSize = 4
    HeaderLen = 2
    PhdrLen = 1
    MaxPhdrs = 8
    StackSize = 272
    MaxArgc = 3
    MaxStrLen = 4
    MaxTotalBytes = 8
    PathTasks <- MCPaths
    ChainTasks <- MCChains
    FatReadTasks <- MCFatReads
    FatListTasks <- MCFatLists
    FatPathTasks <- MCFatPaths
    DiskReadTasks <- MCDiskReads
    DiskListTasks <- MCDiskLists
    StackTasks <- MCStacks
    LoadTasks <- MCLoads
    ExecTasks <- MCExecs
INVARIANTS
    PathsResolve
    ChainFollowsFat
    FilesReadWhole
    ListingsAsWritten
    StackAsPassed
    ImageInPlace
    ExecFailsCleanly
