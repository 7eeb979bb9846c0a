SPECIFICATION FairSpec
CONSTANTS
    BLOCKHASH_WINDOW = 3
    MaxBlock = 8
    Requests = {r1}
    Confirmations = 1
    Lookback = 6
    MaxGap = 2
    Skew = 1
    ArchiveAfter = 2
    Maxima = {2, 3}
    Costs = {1, 2}
    LastRequest = 0
    MaxFaults = 1
    None = None
INVARIANTS SpendWithinBudget NoSilentMiss
PROPERTIES EveryRequestSettled
