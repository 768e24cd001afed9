SPECIFICATION Spec
CONSTANTS
    Sessions = {s1, s2}
    Reused = {r}
    None = None
    MaxSteps = 1
    MaxVisible = 1
INVARIANT EndsAgree
PROPERTY RunEnds
CHECK_DEADLOCK FALSE
