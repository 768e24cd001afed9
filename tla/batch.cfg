SPECIFICATION Spec
CONSTANTS
    a = a
    b = b
    t1 = t1
    t2 = t2
    Files <- MCTwins
    Kinds <- MCKinds
    Tasks <- MCTasks
    TaskOf = t1
    NumWorkers = 2
    MaxCommands = 2
    MaxFaults = 1
INVARIANT BatchSafe
PROPERTIES PatchLosesNothing CommandsEnd
CHECK_DEADLOCK FALSE
