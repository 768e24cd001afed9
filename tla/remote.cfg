SPECIFICATION Spec
CONSTANTS
    Callers = {main, tool}
    Owner = main
    MaxCalls = 2
INVARIANT AnswersSafe
PROPERTIES CallsEnd Reaped
