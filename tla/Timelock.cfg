SPECIFICATION Spec
CONSTANTS
    Calls <- MCCalls
    Delay = 1
    Window = 1
    MaxOps = 3
    MaxTime = 4
    MaxDepth = 2
    MaxBalance = 1
INVARIANTS
    RunsOnceInWindow
    FlagsTruthful
CHECK_DEADLOCK FALSE
