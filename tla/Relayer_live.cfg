\* run-compact.mjs: one request and two of the things that can go wrong with
\* sending it, short of a crash: a lost lock connection, a forgetful pool, a
\* revert, another account that expires the request.  Two gas prices; two
\* nonces are enough for one revert and one success; maximumAttempts is 1 there.
SPECIFICATION FairSpec
CONSTANTS
    w1 = w1
    w2 = w2
    j1 = j1
    j2 = j2
    r1 = r1
    r2 = r2
    None = None
    Workers <- MCWorkers
    Jobs <- OneJob
    Rpcs <- MCRpcs
    Prices = {1, 2}
    MaxGasPrice = 2
    MaxAttempts = 1
    ChecksFinal = TRUE
    MaxNonce = 2
    MaxFails = 0
    MaxLost = 1
    MaxForget = 1
    MaxReverts = 1
    MaxElsewhere = 1
    MaxMishaps = 2
INVARIANT
    CompletedIsFinal
PROPERTY
    EveryJobFinal
CHECK_DEADLOCK FALSE
