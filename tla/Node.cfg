SPECIFICATION FairSpec
CONSTANTS
    Order = 13
    Nodes = {1, 2, 3}
    Groups <- MCGroups
    Requests = {r1}
    Endpoints = {1, 2}
    Modes = {"local", "remote", "threshold"}
    MaxReorgs = 1
    MaxFaults = 1
    Fragile = {1}
    MaxWaiting = 1
    None = None
INVARIANTS NodeNeverEquivocates OneOutput ReleasedIsAudited RestartAccepted
PROPERTIES EveryRequestProved
CHECK_DEADLOCK FALSE
