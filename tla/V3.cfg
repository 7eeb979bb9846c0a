\* Two requests, sponsored or not, while policies and consumers change and
\* callers bring stale and altered witnesses to every function, through
\* fulfilment, retries, expiry and pruning.  MaxUint64 keeps every expiry
\* below MaxBlock, so that the fair worker always gets to it.
SPECIFICATION V3FairSpec
CONSTANTS
    k1 = k1  k2 = k2  op1 = op1  op2 = op2  a1 = a1  a2 = a2  c1 = c1  c2 = c2
    o1 = o1  o2 = o2  NoOne = NoOne  NoService = NoService  NoOutput = NoOutput
    MaxSubs = 1
    Consumers = {c1}
    Accounts = {a1}
    Admin = a1
    Operators = {op1, op2}
    Keys = {k1}
    PricingConfigs <- ShortPrice
    KeyServices <- OneService
    ConsumerLimits <- TwoPending
    SponsorPolicyConfigs <- Policies
    PremiumOverrides = {}
    Guardians = {}
    Pausers = {}
    NewOwners = {}
    ActiveFlags = {}
    StoreBlocks = {}
    FundAmounts = {6}
    WithdrawAmounts = {}
    RequestParams <- FastParams
    MaxPayments = {6}
    Outputs = {o1, o2}
    GasPrices = {1}
    GasUses = {1}
    L1Costs = {0}
    MAX_PREMIUM_BPS = 2
    MAX_CALLBACK_GAS_LIMIT = 1
    MAX_NUM_WORDS = 1
    MAX_CONSUMERS = 1
    MIN_VERIFICATION_GAS_LIMIT = 1
    MAX_VERIFICATION_GAS_LIMIT = 2
    MIN_REQUEST_TIMEOUT_BLOCKS = 1
    MAX_REQUEST_TIMEOUT_BLOCKS = 4
    MIN_OVERHEAD_GAS = 0
    MAX_OVERHEAD_GAS = 0
    MAX_PER_WORD_GAS = 0
    SPONSOR_EPOCH_SECONDS = 1
    BLOCKHASH_WINDOW = 1
    MIN_REQUEST_CONFIRMATIONS = 1
    MAX_REQUEST_CONFIRMATIONS = 1
    PRUNE_DELAY_BLOCKS = 1
    MaxUint64 = 2
    MaxBlock = 3
    MaxTime = 0
    MaxVersions = 1
    MaxEth = 6
    MaxNonce = 2
    MaxAttempts = 2
    Altered <- Forge
INVARIANTS
    WitnessRecoverable
    WitnessAccounting
    ChargedOnce
PROPERTIES
    LifeSpec
    ReservationsEnd
CHECK_DEADLOCK FALSE
