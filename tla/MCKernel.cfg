CONSTANTS
    MaxPid = 3
    Calls <- AllCalls
    KillSignals <- EndOrStop
    WaitOptions <- ZeroOrUntraced
    GroupNumbers <- OwnGroup
SPECIFICATION LiveSpec
INVARIANTS SchedulerConsistent CpuMatchesCurrent PidsFresh WorkConserving
PROPERTIES NobodyVanishes RunnableNotOvertaken WakeHasCause ImplementsLifecycle
    RunnableEventuallyRuns SigintEnds
CHECK_DEADLOCK FALSE
