\* Calls nested in both directions, errors, time-outs and a crash of the VM.
CONSTANTS
    MaxCalls = 2
    MaxAsks = 3
SPECIFICATION Spec
INVARIANTS
    ReturnsMatch
    NoMutualWait
    ShutdownRuns
PROPERTIES
    ErrorEndsInMenu
\* The VM is freed, or the engine has ended.
CHECK_DEADLOCK FALSE
