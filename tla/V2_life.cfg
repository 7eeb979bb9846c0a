\* The life of two requests: confirmations, the block hash window, archived
\* hashes, expiry, retries and pruning, and the money: funding, withdrawals,
\* cancellation, a premium of its own, and charges that round or exceed the
\* reservation.
SPECIFICATION V2Spec
CONSTANTS
    k1 = k1  k2 = k2  op1 = op1  op2 = op2  a1 = a1  a2 = a2  c1 = c1  c2 = c2
    o1 = o1  o2 = o2  NoOne = NoOne  NoService = NoService  NoOutput = NoOutput
    MaxSubs = 1
    Consumers = {c1}
    Accounts = {a1}
    Admin = a1
    Operators = {op1, op2}
    Keys = {k1}
    PricingConfigs <- PricesOrShort
    KeyServices <- ServicesOrFree
    ConsumerLimits <- OneLimit
    SponsorPolicyConfigs <- NoPolicies
    PremiumOverrides = {2}
    Guardians = {}
    Pausers = {}
    NewOwners = {}
    ActiveFlags = {}
    StoreBlocks = {0, 1}
    FundAmounts = {4}
    WithdrawAmounts = {2}
    RequestParams <- Params
    MaxPayments = {6}
    Outputs = {o1}
    GasPrices = {1}
    GasUses = {1, 2, 3}
    L1Costs = {0}
    MAX_PREMIUM_BPS = 2
    MAX_CALLBACK_GAS_LIMIT = 1
    MAX_NUM_WORDS = 1
    MAX_CONSUMERS = 1
    MIN_VERIFICATION_GAS_LIMIT = 1
    MAX_VERIFICATION_GAS_LIMIT = 2
    MIN_REQUEST_TIMEOUT_BLOCKS = 3
    MAX_REQUEST_TIMEOUT_BLOCKS = 4
    MIN_OVERHEAD_GAS = 0
    MAX_OVERHEAD_GAS = 0
    MAX_PER_WORD_GAS = 0
    SPONSOR_EPOCH_SECONDS = 2
    BLOCKHASH_WINDOW = 2
    MIN_REQUEST_CONFIRMATIONS = 1
    MAX_REQUEST_CONFIRMATIONS = 2
    PRUNE_DELAY_BLOCKS = 1
    MaxUint64 = 9
    MaxBlock = 5
    MaxTime = 0
    MaxVersions = 1
    MaxEth = 4
    MaxNonce = 2
    MaxAttempts = 2
INVARIANTS
    ReadyWhenConfirmed
    Solvent
    ChargedOnce
PROPERTIES
    LifeSpec
CHECK_DEADLOCK FALSE
