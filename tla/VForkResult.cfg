CONSTANTS
    MaxPid = 2
    Calls = {"yield", "fork"}
    KillSignals = {}
    WaitOptions = {}
    GroupNumbers = {}
SPECIFICATION TrapSpec
INVARIANT ForkResultArrives
CHECK_DEADLOCK FALSE
