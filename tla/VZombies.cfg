CONSTANTS
    MaxPid = 2
    Calls = {"yield", "fork", "waitpid", "exit"}
    KillSignals = {}
    WaitOptions = {0}
    GroupNumbers = {}
SPECIFICATION Spec
PROPERTY ZombiesRemain
CHECK_DEADLOCK FALSE
