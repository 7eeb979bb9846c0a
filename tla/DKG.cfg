SPECIFICATION DKGSpec
CONSTANTS
    Order = 13
    a = a
    b = b
    c = c
    d = d
    None = None
    NewRoster <- MCNewRoster
    OldRoster <- MCOldRoster
    OldCoefficients <- MCOldCoefficients
    Draws <- MCDraws
    Threshold = 2
    OldThreshold = 2
    Faulty = {c}
    Cheated = {b}
    Stale = {a}
    MaxDeals = 2
    MaxResponses = 1
INVARIANTS SharesReconstruct FinalizableByAll HonestUnexposed HandoffAddsUp
CHECK_DEADLOCK FALSE
