SPECIFICATION Spec
CONSTANTS
    w1 = w1
    w2 = w2
    j1 = j1
    j2 = j2
    r1 = r1
    r2 = r2
    None = None
    Workers <- MCWorkers
    Jobs <- MCJobs
    Rpcs <- MCRpcs
    Prices <- MCPricesAboveLane
    MaxGasPrice = 2
    MaxAttempts = 2
    ChecksFinal = FALSE
    MaxNonce = 2
    MaxFails = 2
    MaxLost = 0
    MaxForget = 0
    MaxReverts = 1
    MaxElsewhere = 1
    MaxMishaps = 4
SYMMETRY Symmetry
INVARIANTS
    JournalFirst
    NonceServesOneJob
    ReportedOwnTransaction
CHECK_DEADLOCK FALSE
