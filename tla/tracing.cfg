SPECIFICATION Spec
CONSTANTS
    a = a
    b = b
    r1 = r1
    r2 = r2
    None = None
    Sessions <- MCSessions
    Runs <- MCRuns
    RunOf <- MCRunOf
    Runners <- MCRunners
    MaxSteps = 1
    MaxCalls <- MCCalls
    MaxExporters = 2
INVARIANTS TracesSafe CallsTraced
CHECK_DEADLOCK FALSE
