---------------------- MODULE VRFServiceCoordinatorBase ----------------------
(***************************************************************************)
(* contracts/VRFServiceCoordinatorBase.sol: subscriptions, consumers,      *)
(* sponsor policies, the append-only price and key versions, and the       *)
(* credits, shared by the V2 and V3 coordinators.                          *)
(*                                                                         *)
(* Transactions and re-entrancy.  A transaction that reverts is no step.   *)
(* Every function is one step except the two that call a consumer: they    *)
(* are a step up to the call and a step after it, and `frame' says which   *)
(* call is open in between.  While it is open, nonReentrant functions are  *)
(* refused (Unlocked) and all the others may run (Reenterable): the        *)
(* consumer may own a subscription, and VRFAdminTimelock.execute lets      *)
(* anybody, the consumer too, carry out a scheduled onlyOwner call.  A     *)
(* call that is going to fail takes no inner steps, because its revert     *)
(* undoes them.  The payouts also call out, but write nothing afterwards.  *)
(***************************************************************************)
EXTENDS BlockhashStore, Sequences, FiniteSets

CONSTANTS
    MaxSubs,                    \* bound: subscriptions that can be created
    Consumers,                  \* consumer contracts
    Accounts, NoOne,            \* subscription owners and guardians; address(0)
    Admin,                      \* owner(): the caller of the onlyOwner functions
    Operators,                  \* fulfiller and payee addresses
    Keys,                       \* key hashes
    PricingConfigs,             \* PricingConfig values an owner may try
    KeyServices, NoService,     \* (fulfiller, payee, prices) of a key; unset
    ConsumerLimits,             \* arguments of addConsumer and updateConsumer
    SponsorPolicyConfigs,       \* arguments of setSponsorPolicy
    PremiumOverrides,           \* values of a premium override
    FundAmounts, WithdrawAmounts,   \* values paid in and out
    Guardians, Pausers, NewOwners,  \* accounts named in setGuardian, calling
                                    \* (un)pauseRequests, offered a subscription
    ActiveFlags,                \* arguments of setKeyActive
    StoreBlocks,                \* arguments of BlockhashStore.store
    RequestParams,      \* (callbackGasLimit, numWords, confirmations) to try
    MaxPayments,        \* values of the request argument maxPayment
    Outputs, NoOutput,  \* random outputs; the unset output, 0 in the source
    GasPrices,          \* values of tx.gasprice
    GasUses,            \* gas measured between entry and settlement
    L1Costs,            \* values of l1FeeCalculator.currentTxL1CostWei()
    MIN_REQUEST_CONFIRMATIONS, MAX_REQUEST_CONFIRMATIONS,
    PRUNE_DELAY_BLOCKS,
    MaxUint64,          \* type(uint64).max
    MaxNonce,           \* bound: requests of a consumer on a subscription
    MaxAttempts,        \* bound: callback attempts of a request
    MAX_PREMIUM_BPS,            \* 10000: a premium share of 1
    MAX_CALLBACK_GAS_LIMIT, MAX_NUM_WORDS, MAX_CONSUMERS,
    MIN_VERIFICATION_GAS_LIMIT, MAX_VERIFICATION_GAS_LIMIT,
    MIN_REQUEST_TIMEOUT_BLOCKS, MAX_REQUEST_TIMEOUT_BLOCKS,
    MIN_OVERHEAD_GAS, MAX_OVERHEAD_GAS, MAX_PER_WORD_GAS,
    SPONSOR_EPOCH_SECONDS,      \* one day
    MaxTime,                    \* bound: the clock stops here
    MaxVersions,                \* bound: price versions, and key versions
    MaxEth                      \* bound: ether ever held by the contract

Subs == 1..MaxSubs

\* keccak256 is injective here: a request identifier is the tuple that is hashed
\* into its preSeed, <<subscription, consumer, nonce, key>>.
RequestIds == Subs \X Consumers \X (1..MaxNonce) \X Keys
SubOf(i) == i[1]
ConsumerOf(i) == i[2]
PairOf(i) == <<i[1], i[2]>>

PricingConfig == [fulfillmentOverheadGas : Nat, perWordGas : Nat,
                  publicPremiumBps : Nat, operatorPremiumShareBps : Nat,
                  minimumRequestFeeWei : Nat, l1FeeReserveWei : Nat,
                  requestTimeoutBlocks : Nat]
KeyService == [fulfiller : Operators, payee : Operators,
               maxGasPriceWei : Nat, verificationGasLimit : Nat]
SponsorPolicyConfig == [subscriptionId : Nat, validUntil : Nat,
                        requestsPerEpoch : Nat, maxPendingRequests : Nat,
                        maxCallbackGasLimit : Nat, premiumBps : Nat,
                        waiveMinimumFee : BOOLEAN]

ASSUME BaseAssumption ==
    /\ MaxSubs \in Nat /\ MaxTime \in Nat /\ MaxVersions \in Nat /\ MaxEth \in Nat
    /\ Admin \in Accounts /\ NoOne \notin Accounts /\ NoService \notin KeyServices
    /\ PricingConfigs \subseteq PricingConfig
    /\ KeyServices \subseteq KeyService
    /\ ConsumerLimits \subseteq [maxCallbackGasLimit : Nat, maxPendingRequests : Nat]
    /\ SponsorPolicyConfigs \subseteq SponsorPolicyConfig
    /\ PremiumOverrides \subseteq Nat /\ FundAmounts \subseteq Nat
    /\ WithdrawAmounts \subseteq Nat /\ StoreBlocks \subseteq Nat
    /\ Guardians \cup Pausers \cup NewOwners \subseteq Accounts
    /\ ActiveFlags \subseteq BOOLEAN
    /\ MAX_PREMIUM_BPS \in Nat \ {0} /\ SPONSOR_EPOCH_SECONDS \in Nat \ {0}
    /\ MIN_VERIFICATION_GAS_LIMIT \in Nat \ {0}
    /\ {MAX_CALLBACK_GAS_LIMIT, MAX_NUM_WORDS, MAX_CONSUMERS,
        MAX_VERIFICATION_GAS_LIMIT, MIN_REQUEST_TIMEOUT_BLOCKS,
        MAX_REQUEST_TIMEOUT_BLOCKS, MIN_OVERHEAD_GAS, MAX_OVERHEAD_GAS,
        MAX_PER_WORD_GAS} \subseteq Nat
    /\ RequestParams \subseteq [callbackGasLimit : Nat, numWords : Nat,
                                confirmations : Nat]
    /\ MaxPayments \subseteq Nat /\ NoOutput \notin Outputs
    /\ GasPrices \subseteq Nat /\ GasUses \subseteq Nat /\ L1Costs \subseteq Nat
    /\ {MIN_REQUEST_CONFIRMATIONS, MAX_REQUEST_CONFIRMATIONS, PRUNE_DELAY_BLOCKS,
        MaxUint64, MaxNonce, MaxAttempts} \subseteq Nat

\* The order of the limits in the source: 1, 200, 256 and 257.
ASSUME ConfirmationAssumption ==
    /\ 1 <= MIN_REQUEST_CONFIRMATIONS
    /\ MAX_REQUEST_CONFIRMATIONS <= BLOCKHASH_WINDOW
    /\ MAX_REQUEST_CONFIRMATIONS <= MIN_REQUEST_TIMEOUT_BLOCKS

VARIABLES
    timestamp,                  \* block.timestamp
    pricing, pricingVersions,   \* the current price; every price there was
    keys, keyVersions, currentKeyVersions,
    requestsPaused, guardian,
    nextSubscriptionId, subscriptions, consumers, consumerNonces,
    subscriptionPremiumOverrides, sponsorPolicies,
    operatorCredits, treasuryCredits,
    ethBalance,                 \* address(this).balance
    frame,                      \* the open consumer callback, if any
    sponsoredUse                \* history: sponsored requests of each consumer in
                                \* this epoch, since its policy was last removed

clockVars == <<chainVars, timestamp>>
priceVars == <<pricing, pricingVersions>>
keyVars == <<keys, keyVersions, currentKeyVersions>>
adminVars == <<priceVars, keyVars, requestsPaused, guardian>>
sponsorVars == <<sponsorPolicies, sponsoredUse>>
subVars == <<nextSubscriptionId, subscriptions, consumers, consumerNonces,
             subscriptionPremiumOverrides, sponsorVars>>
creditVars == <<operatorCredits, treasuryCredits, ethBalance>>
baseVars == <<clockVars, adminVars, subVars, creditVars, frame>>

NoConsumer == [maxCallbackGasLimit |-> 0, maxPendingRequests |-> 0,
               pendingRequests |-> 0, active |-> FALSE]
NoSubscription == [owner |-> NoOne, pendingOwner |-> NoOne, balance |-> 0,
                   reserved |-> 0, consumerCount |-> 0, active |-> FALSE]
NoPolicy == [subscriptionId |-> 0, validUntil |-> 0, epoch |-> 0,
             requestsPerEpoch |-> 0, requestsInEpoch |-> 0,
             maxPendingRequests |-> 0, pendingRequests |-> 0,
             maxCallbackGasLimit |-> 0, premiumBps |-> 0,
             waiveMinimumFee |-> FALSE, active |-> FALSE]
\* `arg' names the request: its identifier in V2, its witness in V3
Idle == [kind |-> "idle", arg |-> <<>>, success |-> FALSE, gasPrice |-> 0]

-----------------------------------------------------------------------------
(* Guards and pure functions *)

Unlocked == frame.kind = "idle"                     \* nonReentrant
Reenterable == Unlocked \/ frame.success

RequireSubscription(s) == s \in Subs /\ subscriptions[s].owner # NoOne
OnlySubscriptionOwner(s, caller) ==
    RequireSubscription(s) /\ subscriptions[s].owner = caller
ActiveKey(k) == keys[k].exists /\ keys[k].active

\* Mutant: the timeout is not validated.
ValidatePricingAnyTimeout(p) ==
    /\ p.fulfillmentOverheadGas \in MIN_OVERHEAD_GAS..MAX_OVERHEAD_GAS
    /\ p.perWordGas <= MAX_PER_WORD_GAS
    /\ p.publicPremiumBps <= MAX_PREMIUM_BPS
    /\ p.operatorPremiumShareBps <= MAX_PREMIUM_BPS

ValidatePricing(p) ==
    /\ p.fulfillmentOverheadGas \in MIN_OVERHEAD_GAS..MAX_OVERHEAD_GAS
    /\ p.perWordGas <= MAX_PER_WORD_GAS
    /\ p.publicPremiumBps <= MAX_PREMIUM_BPS
    /\ p.operatorPremiumShareBps <= MAX_PREMIUM_BPS
    /\ p.requestTimeoutBlocks \in
           MIN_REQUEST_TIMEOUT_BLOCKS..MAX_REQUEST_TIMEOUT_BLOCKS

ValidKeyService(ks) ==
    /\ ks.maxGasPriceWei # 0
    /\ ks.verificationGasLimit \in
           MIN_VERIFICATION_GAS_LIMIT..MAX_VERIFICATION_GAS_LIMIT

ValidateRequestBounds(p) ==
    /\ p.callbackGasLimit \in 1..MAX_CALLBACK_GAS_LIMIT
    /\ p.numWords \in 1..MAX_NUM_WORDS

\* Math.mulDiv(x, y, MAX_PREMIUM_BPS), rounded down
MulBps(x, y) == (x * y) \div MAX_PREMIUM_BPS

ApplyPrice(networkCost, premiumBps, minimumFee) ==
    LET priced == MulBps(networkCost, MAX_PREMIUM_BPS + premiumBps)
    IN IF priced < minimumFee THEN minimumFee ELSE priced

\* _quotePayment: the most a request may cost, for a key service `ks', request
\* parameters `p', billing `b' and price `config'
QuotePayment(ks, p, b, config) ==
    LET gasUnits == ks.verificationGasLimit + p.callbackGasLimit
                    + config.fulfillmentOverheadGas
                    + config.perWordGas * p.numWords
    IN ApplyPrice(gasUnits * ks.maxGasPriceWei + config.l1FeeReserveWei,
                  b.premiumBps,
                  IF b.waiveMinimumFee THEN 0 ELSE config.minimumRequestFeeWei)

QuoteMaxPayment(k, p, b) == QuotePayment(keys[k].service, p, b, pricing)

CurrentEpoch == timestamp \div SPONSOR_EPOCH_SECONDS

\* _resolveBilling: who pays, and at which premium
ResolveBilling(c, supplied) ==
    IF supplied = 0
    THEN [subscriptionId  |-> sponsorPolicies[c].subscriptionId,
          premiumBps      |-> sponsorPolicies[c].premiumBps,
          sponsored       |-> TRUE,
          waiveMinimumFee |-> sponsorPolicies[c].waiveMinimumFee]
    ELSE [subscriptionId  |-> supplied,
          premiumBps      |-> IF subscriptionPremiumOverrides[supplied].enabled
                              THEN subscriptionPremiumOverrides[supplied].premiumBps
                              ELSE pricing.publicPremiumBps,
          sponsored       |-> FALSE,
          waiveMinimumFee |-> FALSE]

\* The reverts of _resolveBilling
BillingAllowed(c, supplied, gas) ==
    LET policy == sponsorPolicies[c]
        s == ResolveBilling(c, supplied).subscriptionId
    IN /\ supplied = 0 => /\ policy.active /\ timestamp <= policy.validUntil
                          /\ gas <= policy.maxCallbackGasLimit
                          /\ policy.pendingRequests < policy.maxPendingRequests
       /\ RequireSubscription(s) /\ subscriptions[s].active
       /\ consumers[<<s, c>>].active
       /\ gas <= consumers[<<s, c>>].maxCallbackGasLimit

\* Mutant: the quota counts open requests only.
QuotaUsedOpen(policy) == policy.pendingRequests

\* _consumeSponsorQuota: the quota used so far in the present epoch, and the
\* policy after one more request
QuotaUsed(policy) ==
    IF policy.epoch = CurrentEpoch THEN policy.requestsInEpoch ELSE 0
ConsumeSponsorQuota(policy) ==
    [policy EXCEPT !.epoch = CurrentEpoch,
                   !.requestsInEpoch = QuotaUsed(policy) + 1,
                   !.pendingRequests = @ + 1]

-----------------------------------------------------------------------------
(* The constructor *)

\* A key version is what a request pins of its key.
KeyVersion(k, ks) == [keyHash |-> k, service |-> ks]

BaseInit ==
    /\ ChainInit
    /\ timestamp = 0
    /\ pricing \in {p \in PricingConfigs : ValidatePricing(p)}
    /\ pricingVersions = <<pricing>>
    /\ \E k \in Keys, ks \in {x \in KeyServices : ValidKeyService(x)} :
         /\ keys = [x \in Keys |->
               IF x = k THEN [service |-> ks, exists |-> TRUE, active |-> TRUE]
               ELSE [service |-> NoService, exists |-> FALSE, active |-> FALSE]]
         /\ keyVersions = <<KeyVersion(k, ks)>>
         /\ currentKeyVersions = [x \in Keys |-> IF x = k THEN 1 ELSE 0]
    /\ requestsPaused = FALSE
    /\ guardian \in Accounts
    /\ nextSubscriptionId = 1
    /\ subscriptions = [s \in Subs |-> NoSubscription]
    /\ consumers = [sc \in Subs \X Consumers |-> NoConsumer]
    /\ consumerNonces = [sc \in Subs \X Consumers |-> 0]
    /\ subscriptionPremiumOverrides =
           [s \in Subs |-> [premiumBps |-> 0, enabled |-> FALSE]]
    /\ sponsorPolicies = [c \in Consumers |-> NoPolicy]
    /\ operatorCredits = [a \in Operators |-> 0]
    /\ treasuryCredits = 0 /\ ethBalance = 0
    /\ frame = Idle
    /\ sponsoredUse = [c \in Consumers |-> 0]

-----------------------------------------------------------------------------
(* Owner and guardian functions; none is nonReentrant *)

SetPricing(p) ==
    /\ Reenterable
    /\ ValidatePricing(p)
    /\ Len(pricingVersions) < MaxVersions
    /\ pricing' = p
    /\ pricingVersions' = Append(pricingVersions, p)
    /\ UNCHANGED <<clockVars, keyVars, requestsPaused, guardian, subVars,
                   creditVars, frame>>

SetGuardian(a) ==
    /\ Reenterable
    /\ guardian' = a
    /\ UNCHANGED <<clockVars, priceVars, keyVars, requestsPaused, subVars,
                   creditVars, frame>>

PausedChanges(paused) ==
    /\ requestsPaused' = paused
    /\ UNCHANGED <<clockVars, priceVars, keyVars, guardian, subVars,
                   creditVars, frame>>

\* The guardian can stop new requests; only the owner can allow them again.
PauseRequests(caller) ==
    Reenterable /\ caller \in {guardian, Admin} /\ PausedChanges(TRUE)
UnpauseRequests(caller) ==
    Reenterable /\ caller = Admin /\ PausedChanges(FALSE)

\* Mutant: the current version of the key is overwritten.
OverwriteKeyVersion(k, ks) ==
    /\ keyVersions' = [keyVersions EXCEPT ![currentKeyVersions[k]] = KeyVersion(k, ks)]
    /\ UNCHANGED currentKeyVersions

AppendKeyVersion(k, ks) ==
    /\ Len(keyVersions) < MaxVersions
    /\ keyVersions' = Append(keyVersions, KeyVersion(k, ks))
    /\ currentKeyVersions' = [currentKeyVersions EXCEPT ![k] = Len(keyVersions) + 1]

RegisterKey(k, ks) ==
    /\ Reenterable
    /\ ~keys[k].exists
    /\ ValidKeyService(ks)
    /\ keys' = [keys EXCEPT ![k] =
                   [service |-> ks, exists |-> TRUE, active |-> TRUE]]
    /\ AppendKeyVersion(k, ks)
    /\ UNCHANGED <<clockVars, priceVars, requestsPaused, guardian, subVars,
                   creditVars, frame>>

SetKeyActive(k, active) ==
    /\ Reenterable
    /\ keys[k].exists
    /\ keys' = [keys EXCEPT ![k].active = active]
    /\ UNCHANGED <<clockVars, priceVars, keyVersions, currentKeyVersions,
                   requestsPaused, guardian, subVars, creditVars, frame>>

SetKeyService(k, ks) ==
    /\ Reenterable
    /\ ValidKeyService(ks)
    /\ keys[k].exists
    /\ keys' = [keys EXCEPT ![k].service = ks]
    /\ AppendKeyVersion(k, ks)
    /\ UNCHANGED <<clockVars, priceVars, requestsPaused, guardian, subVars,
                   creditVars, frame>>

SetSubscriptionPremiumOverride(s, premium, enabled) ==
    /\ Reenterable
    /\ RequireSubscription(s)
    /\ premium <= MAX_PREMIUM_BPS
    /\ subscriptionPremiumOverrides' = [subscriptionPremiumOverrides EXCEPT
           ![s] = [premiumBps |-> premium, enabled |-> enabled]]
    /\ UNCHANGED <<clockVars, adminVars, nextSubscriptionId, subscriptions,
                   consumers, consumerNonces, sponsorVars, creditVars, frame>>

\* Mutant: a policy with open requests moves to another subscription.
PolicyReplaceableElsewhere(old, policy) ==
    old.pendingRequests # 0 => policy.maxPendingRequests >= old.pendingRequests

\* A policy with open requests keeps its subscription and room for them.
PolicyReplaceable(old, policy) ==
    old.pendingRequests # 0 =>
        /\ old.subscriptionId = policy.subscriptionId
        /\ policy.maxPendingRequests >= old.pendingRequests

\* The reverts of setSponsorPolicy
SponsorPolicyAllowed(c, policy) ==
    LET s == policy.subscriptionId
    IN /\ RequireSubscription(s) /\ subscriptions[s].active
       /\ consumers[<<s, c>>].active
       /\ policy.validUntil > timestamp
       /\ policy.requestsPerEpoch # 0 /\ policy.maxPendingRequests # 0
       /\ policy.maxCallbackGasLimit \in 1..consumers[<<s, c>>].maxCallbackGasLimit
       /\ policy.premiumBps <= MAX_PREMIUM_BPS
       /\ PolicyReplaceable(sponsorPolicies[c], policy)

\* A replaced policy keeps the open requests and the quota used this epoch.
SetSponsorPolicy(c, policy) ==
    LET old == sponsorPolicies[c] IN
    /\ Reenterable
    /\ SponsorPolicyAllowed(c, policy)
    /\ sponsorPolicies' = [sponsorPolicies EXCEPT ![c] =
           [subscriptionId      |-> policy.subscriptionId,
            validUntil          |-> policy.validUntil,
            epoch               |-> CurrentEpoch,
            requestsPerEpoch    |-> policy.requestsPerEpoch,
            requestsInEpoch     |-> IF old.active THEN QuotaUsed(old) ELSE 0,
            maxPendingRequests  |-> policy.maxPendingRequests,
            pendingRequests     |-> old.pendingRequests,
            maxCallbackGasLimit |-> policy.maxCallbackGasLimit,
            premiumBps          |-> policy.premiumBps,
            waiveMinimumFee     |-> policy.waiveMinimumFee,
            active              |-> TRUE]]
    /\ UNCHANGED <<clockVars, adminVars, nextSubscriptionId, subscriptions,
                   consumers, consumerNonces, subscriptionPremiumOverrides,
                   sponsoredUse, creditVars, frame>>

RemoveSponsorPolicy(c) ==
    /\ Reenterable
    /\ sponsorPolicies[c].pendingRequests = 0
    /\ sponsorPolicies' = [sponsorPolicies EXCEPT ![c] = NoPolicy]
    /\ sponsoredUse' = [sponsoredUse EXCEPT ![c] = 0]
    /\ UNCHANGED <<clockVars, adminVars, nextSubscriptionId, subscriptions,
                   consumers, consumerNonces, subscriptionPremiumOverrides,
                   creditVars, frame>>

WithdrawTreasuryCredits(amount) ==
    /\ Unlocked
    /\ amount <= treasuryCredits
    /\ treasuryCredits' = treasuryCredits - amount
    /\ ethBalance' = ethBalance - amount
    /\ UNCHANGED <<clockVars, adminVars, subVars, operatorCredits, frame>>

-----------------------------------------------------------------------------
(* Subscription owners *)

OnlySubscriptionsChange ==
    UNCHANGED <<clockVars, adminVars, nextSubscriptionId, consumers,
                consumerNonces, subscriptionPremiumOverrides, sponsorVars,
                operatorCredits, treasuryCredits, frame>>

CreateSubscription(caller) ==
    /\ Reenterable
    /\ nextSubscriptionId <= MaxSubs
    /\ nextSubscriptionId' = nextSubscriptionId + 1
    /\ subscriptions' = [subscriptions EXCEPT ![nextSubscriptionId] =
           [NoSubscription EXCEPT !.owner = caller, !.active = TRUE]]
    /\ UNCHANGED <<clockVars, adminVars, consumers, consumerNonces,
                   subscriptionPremiumOverrides, sponsorVars, creditVars,
                   frame>>

FundSubscription(s, amount) ==
    /\ Unlocked
    /\ RequireSubscription(s) /\ subscriptions[s].active
    /\ amount # 0
    /\ ethBalance + amount <= MaxEth
    /\ subscriptions' = [subscriptions EXCEPT ![s].balance = @ + amount]
    /\ ethBalance' = ethBalance + amount
    /\ OnlySubscriptionsChange

WithdrawSubscription(s, caller, amount) ==
    /\ Unlocked
    /\ OnlySubscriptionOwner(s, caller)
    /\ amount <= subscriptions[s].balance - subscriptions[s].reserved
    /\ subscriptions' = [subscriptions EXCEPT ![s].balance = @ - amount]
    /\ ethBalance' = ethBalance - amount
    /\ OnlySubscriptionsChange

CancelSubscription(s, caller) ==
    /\ Unlocked
    /\ OnlySubscriptionOwner(s, caller)
    /\ subscriptions[s].reserved = 0
    /\ subscriptions' = [subscriptions EXCEPT ![s].balance = 0, ![s].active = FALSE]
    /\ ethBalance' = ethBalance - subscriptions[s].balance
    /\ OnlySubscriptionsChange

RequestSubscriptionOwnerTransfer(s, caller, newOwner) ==
    /\ Reenterable
    /\ OnlySubscriptionOwner(s, caller)
    /\ subscriptions' = [subscriptions EXCEPT ![s].pendingOwner = newOwner]
    /\ OnlySubscriptionsChange /\ UNCHANGED ethBalance

AcceptSubscriptionOwnerTransfer(s, caller) ==
    /\ Reenterable
    /\ RequireSubscription(s)
    /\ subscriptions[s].pendingOwner = caller
    /\ subscriptions' = [subscriptions EXCEPT ![s].owner = caller,
                                              ![s].pendingOwner = NoOne]
    /\ OnlySubscriptionsChange /\ UNCHANGED ethBalance

OnlyConsumersChange ==
    UNCHANGED <<clockVars, adminVars, nextSubscriptionId, consumerNonces,
                subscriptionPremiumOverrides, sponsorVars, creditVars, frame>>

ValidConsumerLimits(l) ==
    l.maxCallbackGasLimit \in 1..MAX_CALLBACK_GAS_LIMIT /\ l.maxPendingRequests # 0

\* addConsumer leaves the pendingRequests field as it finds it
AddConsumer(s, caller, c, l) ==
    /\ Reenterable
    /\ OnlySubscriptionOwner(s, caller) /\ subscriptions[s].active
    /\ ValidConsumerLimits(l)
    /\ ~consumers[<<s, c>>].active
    /\ subscriptions[s].consumerCount < MAX_CONSUMERS
    /\ consumers' = [consumers EXCEPT
           ![<<s, c>>].maxCallbackGasLimit = l.maxCallbackGasLimit,
           ![<<s, c>>].maxPendingRequests = l.maxPendingRequests,
           ![<<s, c>>].active = TRUE]
    /\ subscriptions' = [subscriptions EXCEPT ![s].consumerCount = @ + 1]
    /\ OnlyConsumersChange

UpdateConsumer(s, caller, c, l) ==
    /\ Reenterable
    /\ OnlySubscriptionOwner(s, caller)
    /\ consumers[<<s, c>>].active
    /\ ValidConsumerLimits(l)
    /\ l.maxPendingRequests >= consumers[<<s, c>>].pendingRequests
    /\ consumers' = [consumers EXCEPT
           ![<<s, c>>].maxCallbackGasLimit = l.maxCallbackGasLimit,
           ![<<s, c>>].maxPendingRequests = l.maxPendingRequests]
    /\ OnlyConsumersChange /\ UNCHANGED subscriptions

\* The nonce of the pair is not deleted.
RemoveConsumer(s, caller, c) ==
    /\ Reenterable
    /\ OnlySubscriptionOwner(s, caller)
    /\ consumers[<<s, c>>].active
    /\ consumers[<<s, c>>].pendingRequests = 0
    /\ subscriptions[s].consumerCount >= 1         \* checked subtraction
    /\ consumers' = [consumers EXCEPT ![<<s, c>>] = NoConsumer]
    /\ subscriptions' = [subscriptions EXCEPT ![s].consumerCount = @ - 1]
    /\ OnlyConsumersChange

WithdrawOperatorCredits(payee, amount) ==
    /\ Unlocked
    /\ amount <= operatorCredits[payee]
    /\ operatorCredits' = [operatorCredits EXCEPT ![payee] = @ - amount]
    /\ ethBalance' = ethBalance - amount
    /\ UNCHANGED <<clockVars, adminVars, subVars, treasuryCredits, frame>>

-----------------------------------------------------------------------------
(* What requestRandomWords, fulfillRandomWords and expireRequest do to the  *)
(* state of this contract; the text is the same in V2 and V3.               *)

\* The reverts of requestRandomWords, called by the consumer c
RequestAllowed(c, supplied, k, p, maxPayment) ==
    LET b == ResolveBilling(c, supplied)
        s == b.subscriptionId
        reserve == QuoteMaxPayment(k, p, b)
    IN
    /\ Unlocked /\ ~requestsPaused
    /\ p.confirmations \in MIN_REQUEST_CONFIRMATIONS..MAX_REQUEST_CONFIRMATIONS
    /\ ValidateRequestBounds(p)
    /\ ActiveKey(k)
    /\ BillingAllowed(c, supplied, p.callbackGasLimit)
    /\ maxPayment >= reserve
    /\ subscriptions[s].balance - subscriptions[s].reserved >= reserve
    /\ consumers[<<s, c>>].pendingRequests < consumers[<<s, c>>].maxPendingRequests
    /\ b.sponsored =>
           QuotaUsed(sponsorPolicies[c]) < sponsorPolicies[c].requestsPerEpoch
    /\ consumerNonces[<<s, c>>] < MaxNonce
    /\ blockNumber + pricing.requestTimeoutBlocks <= MaxUint64

\* Mutant: requests are numbered by the open ones.
NextRequestIdOpen(c, s, k) == <<s, c, consumers[<<s, c>>].pendingRequests + 1, k>>

\* The identifier of the next request
NextRequestId(c, s, k) == <<s, c, consumerNonces[<<s, c>>] + 1, k>>

\* Quota, nonce, reservation and pending counters
TakeReservation(c, b, reserve) ==
    LET s == b.subscriptionId IN
    /\ sponsorPolicies' = IF b.sponsored
                          THEN [sponsorPolicies EXCEPT ![c] = ConsumeSponsorQuota(@)]
                          ELSE sponsorPolicies
    /\ sponsoredUse' = IF b.sponsored THEN [sponsoredUse EXCEPT ![c] = @ + 1]
                       ELSE sponsoredUse
    /\ consumerNonces' = [consumerNonces EXCEPT ![<<s, c>>] = @ + 1]
    /\ subscriptions' = [subscriptions EXCEPT ![s].reserved = @ + reserve]
    /\ consumers' = [consumers EXCEPT ![<<s, c>>].pendingRequests = @ + 1]
    /\ UNCHANGED <<clockVars, adminVars, nextSubscriptionId,
                   subscriptionPremiumOverrides, creditVars, frame>>

\* The subtractions of a release are checked: a result below zero reverts.
CanRelease(i, reserve, sponsored) ==
    /\ subscriptions[SubOf(i)].reserved >= reserve
    /\ consumers[PairOf(i)].pendingRequests >= 1
    /\ sponsored => sponsorPolicies[ConsumerOf(i)].pendingRequests >= 1

DecrementPending(i, sponsored) ==
    /\ consumers' = [consumers EXCEPT ![PairOf(i)].pendingRequests = @ - 1]
    /\ sponsorPolicies' =
           IF sponsored
           THEN [sponsorPolicies EXCEPT ![ConsumerOf(i)].pendingRequests = @ - 1]
           ELSE sponsorPolicies

\* Give up a reservation; a settlement takes a charge at the same time.
ReleaseReservation(i, reserve, sponsored, charge) ==
    /\ CanRelease(i, reserve, sponsored)
    /\ subscriptions[SubOf(i)].balance >= charge
    /\ subscriptions' = [subscriptions EXCEPT ![SubOf(i)].reserved = @ - reserve,
                                              ![SubOf(i)].balance = @ - charge]
    /\ DecrementPending(i, sponsored)
    /\ UNCHANGED <<clockVars, adminVars, nextSubscriptionId, consumerNonces,
                   subscriptionPremiumOverrides, sponsoredUse>>

\* Mutants: the treasury's share is rounded down too; the operator's share is
\* one of the whole charge.
CreditChargeRounded(payee, networkCost, charge, operatorPremiumShareBps) ==
    LET premium == charge - networkCost
    IN /\ operatorCredits' = [operatorCredits EXCEPT ![payee] =
              @ + networkCost + MulBps(premium, operatorPremiumShareBps)]
       /\ treasuryCredits' = treasuryCredits
              + MulBps(premium, MAX_PREMIUM_BPS - operatorPremiumShareBps)
       /\ UNCHANGED ethBalance
CreditChargeOfAll(payee, networkCost, charge, operatorPremiumShareBps) ==
    LET operatorPayment == networkCost + MulBps(charge, operatorPremiumShareBps)
    IN /\ operatorCredits' = [operatorCredits EXCEPT ![payee] = @ + operatorPayment]
       /\ treasuryCredits' = treasuryCredits + (charge - operatorPayment)
       /\ UNCHANGED ethBalance

\* The operator gets the network cost and its share of the premium, the treasury
\* the rest of the charge.
CreditCharge(payee, networkCost, charge, operatorPremiumShareBps) ==
    LET operatorPayment ==
            networkCost + MulBps(charge - networkCost, operatorPremiumShareBps)
    IN /\ operatorCredits' = [operatorCredits EXCEPT ![payee] = @ + operatorPayment]
       /\ treasuryCredits' = treasuryCredits + (charge - operatorPayment)
       /\ UNCHANGED ethBalance

-----------------------------------------------------------------------------
(* Time, and hashes stored by anybody *)

MineBlock ==
    /\ Unlocked /\ Mine
    /\ UNCHANGED <<timestamp, adminVars, subVars, creditVars, frame>>

AdvanceTime ==
    /\ Unlocked /\ timestamp < MaxTime
    /\ timestamp' = timestamp + 1
    /\ sponsoredUse' = IF CurrentEpoch' = CurrentEpoch THEN sponsoredUse
                       ELSE [c \in Consumers |-> 0]
    /\ UNCHANGED <<chainVars, adminVars, nextSubscriptionId, subscriptions,
                   consumers, consumerNonces, subscriptionPremiumOverrides,
                   sponsorPolicies, creditVars, frame>>

StoreBlockhash(b) ==
    /\ Reenterable /\ Store(b)
    /\ UNCHANGED <<timestamp, adminVars, subVars, creditVars, frame>>

AdminNext ==
    \/ \E p \in PricingConfigs : SetPricing(p)
    \/ \E a \in Guardians : SetGuardian(a)
    \/ \E caller \in Pausers : PauseRequests(caller) \/ UnpauseRequests(caller)
    \/ \E k \in Keys, ks \in KeyServices : RegisterKey(k, ks) \/ SetKeyService(k, ks)
    \/ \E k \in Keys, active \in ActiveFlags : SetKeyActive(k, active)
    \/ \E s \in Subs, premium \in PremiumOverrides, enabled \in BOOLEAN :
           SetSubscriptionPremiumOverride(s, premium, enabled)
    \/ \E c \in Consumers :
           \/ \E policy \in SponsorPolicyConfigs : SetSponsorPolicy(c, policy)
           \/ RemoveSponsorPolicy(c)
    \/ \E amount \in WithdrawAmounts : WithdrawTreasuryCredits(amount)

SubscriptionNext ==
    \E caller \in Accounts :
        \/ CreateSubscription(caller)
        \/ \E s \in Subs :
            \/ \E amount \in FundAmounts : FundSubscription(s, amount)
            \/ \E amount \in WithdrawAmounts : WithdrawSubscription(s, caller, amount)
            \/ CancelSubscription(s, caller)
            \/ \E a \in NewOwners : RequestSubscriptionOwnerTransfer(s, caller, a)
            \/ AcceptSubscriptionOwnerTransfer(s, caller)
            \/ \E c \in Consumers :
                \/ \E l \in ConsumerLimits :
                       AddConsumer(s, caller, c, l) \/ UpdateConsumer(s, caller, c, l)
                \/ RemoveConsumer(s, caller, c)

BaseNext ==
    \/ AdminNext
    \/ SubscriptionNext
    \/ \E payee \in Operators, amount \in WithdrawAmounts : WithdrawOperatorCredits(payee, amount)
    \/ MineBlock
    \/ AdvanceTime
    \/ \E b \in StoreBlocks : StoreBlockhash(b)
-----------------------------------------------------------------------------
SubscriptionType == [owner : Accounts \cup {NoOne}, pendingOwner : Accounts \cup {NoOne},
                     balance : Nat, reserved : Nat, consumerCount : Nat, active : BOOLEAN]
ConsumerType == [maxCallbackGasLimit : Nat, maxPendingRequests : Nat,
                 pendingRequests : Nat, active : BOOLEAN]
PolicyType == [subscriptionId : Nat, validUntil : Nat, epoch : Nat,
               requestsPerEpoch : Nat, requestsInEpoch : Nat,
               maxPendingRequests : Nat, pendingRequests : Nat,
               maxCallbackGasLimit : Nat, premiumBps : Nat,
               waiveMinimumFee : BOOLEAN, active : BOOLEAN]

BaseTypeOK ==
    /\ ChainTypeOK /\ timestamp \in Nat
    /\ pricing \in PricingConfigs /\ pricingVersions \in Seq(PricingConfigs)
    /\ keys \in [Keys -> [service : KeyServices \cup {NoService},
                          exists : BOOLEAN, active : BOOLEAN]]
    /\ keyVersions \in Seq([keyHash : Keys, service : KeyServices])
    /\ currentKeyVersions \in [Keys -> Nat]
    /\ requestsPaused \in BOOLEAN /\ guardian \in Accounts
    /\ nextSubscriptionId \in 1..(MaxSubs + 1)
    /\ subscriptions \in [Subs -> SubscriptionType]
    /\ consumers \in [Subs \X Consumers -> ConsumerType]
    /\ consumerNonces \in [Subs \X Consumers -> 0..MaxNonce]
    /\ subscriptionPremiumOverrides \in
           [Subs -> [premiumBps : Nat, enabled : BOOLEAN]]
    /\ sponsorPolicies \in [Consumers -> PolicyType]
    /\ sponsoredUse \in [Consumers -> Nat]
    /\ operatorCredits \in [Operators -> Nat]
    /\ treasuryCredits \in Nat /\ ethBalance \in Int

\* The current price and the current service of each key are the ones a request
\* made now would pin, and every price version passed validation.
VersionsCurrent ==
    /\ Len(pricingVersions) # 0 /\ pricing = pricingVersions[Len(pricingVersions)]
    /\ \A v \in 1..Len(pricingVersions) : ValidatePricing(pricingVersions[v])
    /\ \A k \in Keys : keys[k].exists =>
           /\ currentKeyVersions[k] \in 1..Len(keyVersions)
           /\ keyVersions[currentKeyVersions[k]] = KeyVersion(k, keys[k].service)

\* The wei owed to subscriptions and to operators, one element <<x, n>> for each
\* wei of x
SubscriptionWei == UNION {{s} \X (1..subscriptions[s].balance) : s \in Subs}
OperatorWei == UNION {{a} \X (1..operatorCredits[a]) : a \in Operators}

\* The ether of the contract is what it owes to subscriptions, operators and
\* the treasury: rounding in the split of a charge neither loses nor mints wei.
Solvent == ethBalance = Cardinality(SubscriptionWei) + Cardinality(OperatorWei)
                        + treasuryCredits

=============================================================================
