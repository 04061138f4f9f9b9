CONSTANTS
    Procs = {1, 2}
    Fds = {3, 4}
    NameOrder <- MCNameOrder
    BufferLen = 2
    MaxInode = 4
    MaxLen = 3
    Sessions <- MCSessions
SPECIFICATION Spec
INVARIANTS TreeSound DescriptorsKeepTheirFile WritesStayInRange FailedCallsChangeNothing ListingComplete
