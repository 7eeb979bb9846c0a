\* Events are taken without confirmation, so that a reorganisation reaches rows
\* that are already in the queue, also while an instance serves them.
SPECIFICATION LoopFairSpec
CONSTANTS
    w1 = w1
    w2 = w2
    j1 = j1
    None = None
    Dead = Dead
    Workers <- MCWorkers
    Teams <- MCTeams
    Jobs <- OneJob
    Deploy = 0
    Range = 3
    Lookback = 2
    Confirmations = 0
    MaxReorg = 1
    MaxLag = 1
    MaxBlock = 3
    MaxFails = 2
INVARIANTS
    NoRequestLost
    ScanCoversRows
    SavedCoversPending
    EvidenceComplete
PROPERTIES
    LeaseHonoured
    EveryRequestServed
CHECK_DEADLOCK FALSE
