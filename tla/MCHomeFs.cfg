CONSTANTS
    Names = {"a", "b"}
    MaxInodes = 4
    MaxDataBlocks = 7
    BitsPerByte = 2
    FirstDataBlock = 4
    MaxDirect = 2
    MaxFaults = 1
    MaxCalls = 4
SPECIFICATION Spec
INVARIANTS NamesLeadToInodes BlocksApart EveryInodeNamedOnce CacheAgrees
