SPECIFICATION Spec
CONSTANTS
    Installers = {i1, i2}
    Removers = {u}
    None = none
    MaxCalls = 2
    MaxFaults = 1
INVARIANT BuildsSafe
PROPERTY InstallsKeep
