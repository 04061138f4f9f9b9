CONSTANTS
    Names = {"a"}
    MaxInodes = 3
    MaxDataBlocks = 5
    BitsPerByte = 2
    FirstDataBlock = 2
    MaxDirect = 2
    MaxFaults = 0
    MaxCalls = 2
SPECIFICATION Spec
INVARIANT RootKeepsItsBlock
