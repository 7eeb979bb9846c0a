----------------------------- MODULE BaseProofs -----------------------------
(***************************************************************************)
(* Facts about VRFServiceCoordinatorBase that the proofs about V2 and V3   *)
(* share: types, prices and the version lists; the books, which count the  *)
(* open requests and their wei (Ledger); and the ether the contract owes   *)
(* (SolventInv).  Sums are cardinalities of sets of wei, so that adding a  *)
(* reservation and taking it away are facts about finite sets.             *)
(***************************************************************************)
EXTENDS VRFServiceCoordinatorBase, FiniteSetTheorems, TLAPS

\* A product of naturals is a natural.
LEMMA ProductNat == ASSUME NEW x \in Nat, NEW y \in Nat PROVE x * y \in Nat
  OBVIOUS

\* An element of a sequence over S is in S.
LEMMA SeqElement == ASSUME NEW S, NEW q \in Seq(S), NEW n \in 1..Len(q) PROVE q[n] \in S
  OBVIOUS

\* Rounding down a share y of x leaves a natural that is at most x.
LEMMA MulBpsBound ==
    ASSUME NEW x \in Nat, NEW y \in Nat
    PROVE  /\ MulBps(x, y) \in Nat
           /\ y <= MAX_PREMIUM_BPS => MulBps(x, y) <= x
           /\ y >= MAX_PREMIUM_BPS => MulBps(x, y) >= x
<1> DEFINE B == MAX_PREMIUM_BPS
           q == (x * y) \div B
<1>0. B \in Nat /\ B # 0
  BY BaseAssumption
<1> HIDE DEF B
<1>1. x * y \in Nat
  BY ProductNat
<1>2. q \in Nat /\ q * B <= x * y /\ x * y < (q + 1) * B
  BY <1>0, <1>1
<1> HIDE DEF q
<1>3. ASSUME y <= B PROVE q <= x
  <2>1. x * y <= x * B
    BY <1>3, <1>0
  <2>2. q * B <= x * B
    BY <2>1, <1>2, <1>0
  <2>3. QED
    BY <2>2, <1>0, <1>2
<1>4. ASSUME y >= B PROVE q >= x
  <2>1. x * B <= x * y
    BY <1>4, <1>0
  <2>2. x * B < (q + 1) * B
    BY <2>1, <1>2, <1>0
  <2>3. QED
    BY <2>2, <1>0, <1>2
<1>5. QED
  BY <1>2, <1>3, <1>4 DEF MulBps, q, B

\* Every operation of the base contract keeps the types of its variables.
LEMMA BaseStepTypes == ASSUME BaseTypeOK, BaseNext PROVE BaseTypeOK'
<1> USE DEF clockVars, chainVars, adminVars, priceVars, keyVars, subVars,
            sponsorVars, creditVars
<1>a. /\ FundAmounts \subseteq Nat /\ WithdrawAmounts \subseteq Nat
      /\ PremiumOverrides \subseteq Nat /\ StoreBlocks \subseteq Nat
      /\ ActiveFlags \subseteq BOOLEAN
      /\ Guardians \subseteq Accounts /\ NewOwners \subseteq Accounts
  BY BaseAssumption
<1>c. ConsumerLimits \subseteq [maxCallbackGasLimit : Nat, maxPendingRequests : Nat]
  BY BaseAssumption
<1>d. SponsorPolicyConfigs \subseteq SponsorPolicyConfig
  BY BaseAssumption
<1>e. timestamp \in Nat /\ CurrentEpoch \in Nat
  <2>1. SPONSOR_EPOCH_SECONDS \in Nat \ {0}
    BY BaseAssumption
  <2>2. timestamp \in Nat
    BY DEF BaseTypeOK
  <2>3. QED
    BY <2>1, <2>2 DEF CurrentEpoch
<1>k. keys \in [Keys -> [service : KeyServices \cup {NoService},
                         exists : BOOLEAN, active : BOOLEAN]]
  BY DEF BaseTypeOK
<1>v. keyVersions \in Seq([keyHash : Keys, service : KeyServices])
  BY DEF BaseTypeOK
<1>s. subscriptions \in [Subs -> SubscriptionType]
  BY DEF BaseTypeOK
<1>m. consumers \in [Subs \X Consumers -> ConsumerType]
  BY DEF BaseTypeOK
<1>p. sponsorPolicies \in [Consumers -> PolicyType]
  BY DEF BaseTypeOK
<1>w. /\ operatorCredits \in [Operators -> Nat] /\ treasuryCredits \in Nat
      /\ ethBalance \in Int
  BY DEF BaseTypeOK
<1>1. ASSUME NEW p \in PricingConfigs, SetPricing(p) PROVE BaseTypeOK'
  BY <1>1 DEF SetPricing, BaseTypeOK, ChainTypeOK
<1>2. ASSUME NEW a \in Guardians, SetGuardian(a) PROVE BaseTypeOK'
  BY <1>2, <1>a DEF SetGuardian, BaseTypeOK, ChainTypeOK
<1>3. ASSUME NEW caller \in Pausers, PauseRequests(caller) \/ UnpauseRequests(caller)
      PROVE  BaseTypeOK'
  BY <1>3 DEF PauseRequests, UnpauseRequests, PausedChanges, BaseTypeOK, ChainTypeOK
<1>4. ASSUME NEW k \in Keys, NEW ks \in KeyServices, RegisterKey(k, ks)
      PROVE  BaseTypeOK'
  <2>1. keys' \in [Keys -> [service : KeyServices \cup {NoService},
                            exists : BOOLEAN, active : BOOLEAN]]
    BY <1>4, <1>k DEF RegisterKey
  <2>2. keyVersions' \in Seq([keyHash : Keys, service : KeyServices])
    BY <1>4, <1>v DEF RegisterKey, AppendKeyVersion, KeyVersion
  <2>3. currentKeyVersions' \in [Keys -> Nat]
    BY <1>4, <1>v DEF RegisterKey, AppendKeyVersion, BaseTypeOK
  <2>4. QED
    BY <1>4, <2>1, <2>2, <2>3 DEF RegisterKey, AppendKeyVersion, BaseTypeOK, ChainTypeOK
<1>5. ASSUME NEW k \in Keys, NEW ks \in KeyServices, SetKeyService(k, ks)
      PROVE  BaseTypeOK'
  <2>1. keys' \in [Keys -> [service : KeyServices \cup {NoService},
                            exists : BOOLEAN, active : BOOLEAN]]
    BY <1>5, <1>k DEF SetKeyService
  <2>2. keyVersions' \in Seq([keyHash : Keys, service : KeyServices])
    BY <1>5, <1>v DEF SetKeyService, AppendKeyVersion, KeyVersion
  <2>3. currentKeyVersions' \in [Keys -> Nat]
    BY <1>5, <1>v DEF SetKeyService, AppendKeyVersion, BaseTypeOK
  <2>4. QED
    BY <1>5, <2>1, <2>2, <2>3 DEF SetKeyService, AppendKeyVersion, BaseTypeOK, ChainTypeOK
<1>6. ASSUME NEW k \in Keys, NEW active \in ActiveFlags, SetKeyActive(k, active)
      PROVE  BaseTypeOK'
  <2>1. keys' \in [Keys -> [service : KeyServices \cup {NoService},
                            exists : BOOLEAN, active : BOOLEAN]]
    BY <1>6, <1>k, <1>a DEF SetKeyActive
  <2>2. QED
    BY <1>6, <2>1 DEF SetKeyActive, BaseTypeOK, ChainTypeOK
<1>7. ASSUME NEW s \in Subs, NEW premium \in PremiumOverrides, NEW enabled \in BOOLEAN,
             SetSubscriptionPremiumOverride(s, premium, enabled)
      PROVE  BaseTypeOK'
  BY <1>7, <1>a DEF SetSubscriptionPremiumOverride, BaseTypeOK, ChainTypeOK
<1>8. ASSUME NEW c \in Consumers, NEW policy \in SponsorPolicyConfigs,
             SetSponsorPolicy(c, policy)
      PROVE  BaseTypeOK'
  <2>1. sponsorPolicies[c] \in PolicyType /\ QuotaUsed(sponsorPolicies[c]) \in Nat
    BY <1>p DEF QuotaUsed, PolicyType
  <2>2. sponsorPolicies' \in [Consumers -> PolicyType]
    BY <1>8, <1>d, <1>e, <1>p, <2>1 DEF SetSponsorPolicy, SponsorPolicyConfig, PolicyType
  <2>3. QED
    BY <1>8, <2>2 DEF SetSponsorPolicy, BaseTypeOK, ChainTypeOK
<1>9. ASSUME NEW c \in Consumers, RemoveSponsorPolicy(c) PROVE BaseTypeOK'
  <2>1. sponsorPolicies' \in [Consumers -> PolicyType]
    BY <1>9, <1>p DEF RemoveSponsorPolicy, NoPolicy, PolicyType
  <2>2. QED
    BY <1>9, <2>1 DEF RemoveSponsorPolicy, BaseTypeOK, ChainTypeOK
<1>10. ASSUME NEW amount \in WithdrawAmounts, WithdrawTreasuryCredits(amount)
       PROVE  BaseTypeOK'
  <2>1. treasuryCredits' \in Nat /\ ethBalance' \in Int
    BY <1>10, <1>a, <1>w DEF WithdrawTreasuryCredits
  <2>2. QED
    BY <1>10, <2>1 DEF WithdrawTreasuryCredits, BaseTypeOK, ChainTypeOK
<1>11. ASSUME NEW caller \in Accounts, CreateSubscription(caller) PROVE BaseTypeOK'
  <2>1. subscriptions' \in [Subs -> SubscriptionType]
    BY <1>11, <1>s DEF CreateSubscription, NoSubscription, SubscriptionType
  <2>2. nextSubscriptionId' \in 1..(MaxSubs + 1)
    <3>1. MaxSubs \in Nat
      BY BaseAssumption
    <3>2. nextSubscriptionId \in 1..(MaxSubs + 1)
      BY DEF BaseTypeOK
    <3>3. QED
      BY <1>11, <3>1, <3>2 DEF CreateSubscription
  <2>3. QED
    BY <1>11, <2>1, <2>2 DEF CreateSubscription, BaseTypeOK, ChainTypeOK
<1>12. ASSUME NEW s \in Subs, NEW amount \in FundAmounts, FundSubscription(s, amount)
       PROVE  BaseTypeOK'
  <2>1. subscriptions' \in [Subs -> SubscriptionType]
    BY <1>12, <1>s, <1>a DEF FundSubscription, SubscriptionType
  <2>2. ethBalance' \in Int
    BY <1>12, <1>s, <1>a, <1>w DEF FundSubscription, SubscriptionType
  <2>3. QED
    BY <1>12, <2>1, <2>2 DEF FundSubscription, OnlySubscriptionsChange, BaseTypeOK, ChainTypeOK
<1>13. ASSUME NEW s \in Subs, NEW caller \in Accounts, NEW amount \in WithdrawAmounts,
              WithdrawSubscription(s, caller, amount)
       PROVE  BaseTypeOK'
  <2>1. subscriptions' \in [Subs -> SubscriptionType]
    BY <1>13, <1>s, <1>a DEF WithdrawSubscription, SubscriptionType
  <2>2. ethBalance' \in Int
    BY <1>13, <1>s, <1>a, <1>w DEF WithdrawSubscription, SubscriptionType
  <2>3. QED
    BY <1>13, <2>1, <2>2 DEF WithdrawSubscription, OnlySubscriptionsChange, BaseTypeOK, ChainTypeOK
<1>14. ASSUME NEW s \in Subs, NEW caller \in Accounts, CancelSubscription(s, caller)
       PROVE  BaseTypeOK'
  <2>1. subscriptions' \in [Subs -> SubscriptionType]
    BY <1>14, <1>s, ZenonT(60) DEF CancelSubscription, SubscriptionType
  <2>2. ethBalance' \in Int
    BY <1>14, <1>s, <1>a, <1>w DEF CancelSubscription, SubscriptionType
  <2>3. QED
    BY <1>14, <2>1, <2>2 DEF CancelSubscription, OnlySubscriptionsChange, BaseTypeOK, ChainTypeOK
<1>15. ASSUME NEW s \in Subs, NEW caller \in Accounts, NEW a \in NewOwners,
              RequestSubscriptionOwnerTransfer(s, caller, a)
       PROVE  BaseTypeOK'
  <2>1. subscriptions' \in [Subs -> SubscriptionType]
    BY <1>15, <1>s, <1>a DEF RequestSubscriptionOwnerTransfer, SubscriptionType
  <2>2. QED
    BY <1>15, <2>1 DEF RequestSubscriptionOwnerTransfer, OnlySubscriptionsChange, BaseTypeOK, ChainTypeOK
<1>16. ASSUME NEW s \in Subs, NEW caller \in Accounts,
              AcceptSubscriptionOwnerTransfer(s, caller)
       PROVE  BaseTypeOK'
  <2>1. subscriptions' \in [Subs -> SubscriptionType]
    BY <1>16, <1>s, ZenonT(60) DEF AcceptSubscriptionOwnerTransfer, SubscriptionType
  <2>2. QED
    BY <1>16, <2>1 DEF AcceptSubscriptionOwnerTransfer, OnlySubscriptionsChange, BaseTypeOK, ChainTypeOK
<1>17. ASSUME NEW s \in Subs, NEW caller \in Accounts, NEW c \in Consumers,
              NEW l \in ConsumerLimits, AddConsumer(s, caller, c, l)
       PROVE  BaseTypeOK'
  <2>1. subscriptions' \in [Subs -> SubscriptionType]
    BY <1>17, <1>s DEF AddConsumer, SubscriptionType
  <2>2. consumers' \in [Subs \X Consumers -> ConsumerType]
    BY <1>17, <1>m, <1>c, SMTT(60) DEF AddConsumer, ConsumerType, NoConsumer
  <2>3. QED
    BY <1>17, <2>1, <2>2 DEF AddConsumer, OnlyConsumersChange, BaseTypeOK, ChainTypeOK
<1>18. ASSUME NEW s \in Subs, NEW caller \in Accounts, NEW c \in Consumers,
              NEW l \in ConsumerLimits, UpdateConsumer(s, caller, c, l)
       PROVE  BaseTypeOK'
  <2>1. consumers' \in [Subs \X Consumers -> ConsumerType]
    BY <1>18, <1>m, <1>c DEF UpdateConsumer, ConsumerType, NoConsumer
  <2>2. QED
    BY <1>18, <2>1 DEF UpdateConsumer, OnlyConsumersChange, BaseTypeOK, ChainTypeOK
<1>19. ASSUME NEW s \in Subs, NEW caller \in Accounts, NEW c \in Consumers,
              RemoveConsumer(s, caller, c)
       PROVE  BaseTypeOK'
  <2>1. subscriptions' \in [Subs -> SubscriptionType]
    BY <1>19, <1>s DEF RemoveConsumer, SubscriptionType
  <2>2. consumers' \in [Subs \X Consumers -> ConsumerType]
    BY <1>19, <1>m, <1>c DEF RemoveConsumer, ConsumerType, NoConsumer
  <2>3. QED
    BY <1>19, <2>1, <2>2 DEF RemoveConsumer, OnlyConsumersChange, BaseTypeOK, ChainTypeOK
<1>20. ASSUME NEW payee \in Operators, NEW amount \in WithdrawAmounts,
              WithdrawOperatorCredits(payee, amount)
       PROVE  BaseTypeOK'
  <2>1. operatorCredits' \in [Operators -> Nat] /\ ethBalance' \in Int
    BY <1>20, <1>a, <1>w DEF WithdrawOperatorCredits
  <2>2. QED
    BY <1>20, <2>1 DEF WithdrawOperatorCredits, BaseTypeOK, ChainTypeOK
<1>21. CASE MineBlock
  <2>1. ChainTypeOK'
    BY <1>21, BlockhashAssumption DEF MineBlock, Mine, Blocks, BaseTypeOK, ChainTypeOK
  <2>2. QED
    BY <1>21, <2>1 DEF MineBlock, BaseTypeOK
<1>22. CASE AdvanceTime
  BY <1>22, <1>e DEF AdvanceTime, BaseTypeOK, ChainTypeOK
<1>23. ASSUME NEW b \in StoreBlocks, StoreBlockhash(b) PROVE BaseTypeOK'
  <2>1. ChainTypeOK'
    BY <1>23, <1>a, BlockhashAssumption
    DEF StoreBlockhash, Store, Blocks, BaseTypeOK, ChainTypeOK
  <2>2. QED
    BY <1>23, <2>1 DEF StoreBlockhash, BaseTypeOK
<1>24. QED
  BY <1>1, <1>2, <1>3, <1>4, <1>5, <1>6, <1>7, <1>8, <1>9, <1>10, <1>11, <1>12,
     <1>13, <1>14, <1>15, <1>16, <1>17, <1>18, <1>19, <1>20, <1>21, <1>22, <1>23
  DEF BaseNext, AdminNext, SubscriptionNext
-----------------------------------------------------------------------------
(* Prices *)

\* A price is a natural and never less than the network cost it is made from.
LEMMA ApplyPriceBound ==
    ASSUME NEW cost \in Nat, NEW premium \in Nat, NEW minimum \in Nat
    PROVE  /\ ApplyPrice(cost, premium, minimum) \in Nat
           /\ ApplyPrice(cost, premium, minimum) >= cost
<1>1. MAX_PREMIUM_BPS \in Nat
  BY BaseAssumption
<1>2. /\ MulBps(cost, MAX_PREMIUM_BPS + premium) \in Nat
      /\ MulBps(cost, MAX_PREMIUM_BPS + premium) >= cost
  BY <1>1, MulBpsBound
<1>3. QED
  BY <1>2 DEF ApplyPrice

\* The reservation of a request is a natural.
LEMMA QuoteNat ==
    ASSUME NEW ks \in KeyService, NEW config \in PricingConfig,
           NEW p \in [callbackGasLimit : Nat, numWords : Nat, confirmations : Nat],
           NEW b, b.premiumBps \in Nat
    PROVE  QuotePayment(ks, p, b, config) \in Nat
<1> DEFINE gasUnits == ks.verificationGasLimit + p.callbackGasLimit
                       + config.fulfillmentOverheadGas
                       + config.perWordGas * p.numWords
           cost == gasUnits * ks.maxGasPriceWei + config.l1FeeReserveWei
           minimum == IF b.waiveMinimumFee THEN 0 ELSE config.minimumRequestFeeWei
<1>1. /\ ks.verificationGasLimit \in Nat /\ ks.maxGasPriceWei \in Nat
      /\ config.fulfillmentOverheadGas \in Nat /\ config.perWordGas \in Nat
      /\ config.l1FeeReserveWei \in Nat /\ config.minimumRequestFeeWei \in Nat
      /\ p.callbackGasLimit \in Nat /\ p.numWords \in Nat
  BY DEF KeyService, PricingConfig
<1>2. config.perWordGas * p.numWords \in Nat
  BY <1>1, ProductNat
<1>3. gasUnits \in Nat
  BY <1>1, <1>2
<1>4. gasUnits * ks.maxGasPriceWei \in Nat
  BY <1>1, <1>3, ProductNat
<1>5. cost \in Nat /\ minimum \in Nat
  BY <1>1, <1>4
<1> HIDE DEF cost, minimum
<1>6. ApplyPrice(cost, b.premiumBps, minimum) \in Nat
  BY <1>5, ApplyPriceBound
<1>7. QED
  BY <1>6 DEF QuotePayment, cost, minimum
-----------------------------------------------------------------------------
(* Versions *)

\* Of the operations of the base contract, only these four touch the versions,
\* the current price and the keys; none touches the open callback.
LEMMA WhoChangesVersions ==
    ASSUME BaseNext
    PROVE  /\ frame' = frame
           /\ \/ \E p \in PricingConfigs : SetPricing(p)
              \/ \E k \in Keys, ks \in KeyServices :
                     RegisterKey(k, ks) \/ SetKeyService(k, ks)
              \/ \E k \in Keys, active \in ActiveFlags : SetKeyActive(k, active)
              \/ UNCHANGED <<priceVars, keyVars>>
<1> USE DEF adminVars
<1>1. CASE AdminNext
  <2>1. ASSUME NEW p \in PricingConfigs, SetPricing(p) PROVE frame' = frame
    BY <2>1 DEF SetPricing
  <2>2. ASSUME NEW k \in Keys, NEW ks \in KeyServices,
               RegisterKey(k, ks) \/ SetKeyService(k, ks)
        PROVE  frame' = frame
    BY <2>2 DEF RegisterKey, SetKeyService
  <2>3. ASSUME NEW k \in Keys, NEW active \in ActiveFlags, SetKeyActive(k, active)
        PROVE  frame' = frame
    BY <2>3 DEF SetKeyActive
  <2>4. ASSUME NEW a \in Guardians, SetGuardian(a)
        PROVE  frame' = frame /\ UNCHANGED <<priceVars, keyVars>>
    BY <2>4 DEF SetGuardian
  <2>5. ASSUME NEW caller \in Pausers, PauseRequests(caller) \/ UnpauseRequests(caller)
        PROVE  frame' = frame /\ UNCHANGED <<priceVars, keyVars>>
    BY <2>5 DEF PauseRequests, UnpauseRequests, PausedChanges
  <2>6. ASSUME NEW s \in Subs, NEW premium \in PremiumOverrides, NEW enabled \in BOOLEAN,
               SetSubscriptionPremiumOverride(s, premium, enabled)
        PROVE  frame' = frame /\ UNCHANGED <<priceVars, keyVars>>
    BY <2>6 DEF SetSubscriptionPremiumOverride
  <2>7. ASSUME NEW c \in Consumers, NEW policy \in SponsorPolicyConfigs,
               SetSponsorPolicy(c, policy)
        PROVE  frame' = frame /\ UNCHANGED <<priceVars, keyVars>>
    BY <2>7 DEF SetSponsorPolicy
  <2>8. ASSUME NEW c \in Consumers, RemoveSponsorPolicy(c)
        PROVE  frame' = frame /\ UNCHANGED <<priceVars, keyVars>>
    BY <2>8 DEF RemoveSponsorPolicy
  <2>9. ASSUME NEW amount \in WithdrawAmounts, WithdrawTreasuryCredits(amount)
        PROVE  frame' = frame /\ UNCHANGED <<priceVars, keyVars>>
    BY <2>9 DEF WithdrawTreasuryCredits
  <2>10. QED
    BY <1>1, <2>1, <2>2, <2>3, <2>4, <2>5, <2>6, <2>7, <2>8, <2>9 DEF AdminNext
<1>2. CASE SubscriptionNext
  <2>1. ASSUME NEW caller \in Accounts, CreateSubscription(caller)
        PROVE  frame' = frame /\ UNCHANGED <<priceVars, keyVars>>
    BY <2>1 DEF CreateSubscription
  <2>2. OnlySubscriptionsChange => frame' = frame /\ UNCHANGED <<priceVars, keyVars>>
    BY DEF OnlySubscriptionsChange
  <2>3. OnlyConsumersChange => frame' = frame /\ UNCHANGED <<priceVars, keyVars>>
    BY DEF OnlyConsumersChange
  <2>4. ASSUME NEW s \in Subs, NEW caller \in Accounts,
               \/ \E amount \in FundAmounts : FundSubscription(s, amount)
               \/ \E amount \in WithdrawAmounts : WithdrawSubscription(s, caller, amount)
               \/ CancelSubscription(s, caller)
               \/ \E a \in NewOwners : RequestSubscriptionOwnerTransfer(s, caller, a)
               \/ AcceptSubscriptionOwnerTransfer(s, caller)
        PROVE  OnlySubscriptionsChange
    BY <2>4, Zenon DEF FundSubscription, WithdrawSubscription, CancelSubscription,
       RequestSubscriptionOwnerTransfer, AcceptSubscriptionOwnerTransfer
  <2>5. ASSUME NEW s \in Subs, NEW caller \in Accounts, NEW c \in Consumers,
               \/ \E l \in ConsumerLimits :
                      AddConsumer(s, caller, c, l) \/ UpdateConsumer(s, caller, c, l)
               \/ RemoveConsumer(s, caller, c)
        PROVE  OnlyConsumersChange
    BY <2>5, Zenon DEF AddConsumer, UpdateConsumer, RemoveConsumer
  <2>6. QED
    BY <1>2, <2>1, <2>2, <2>3, <2>4, <2>5 DEF SubscriptionNext
<1>3. ASSUME NEW payee \in Operators, NEW amount \in WithdrawAmounts,
             WithdrawOperatorCredits(payee, amount)
      PROVE  frame' = frame /\ UNCHANGED <<priceVars, keyVars>>
  BY <1>3 DEF WithdrawOperatorCredits
<1>4. ASSUME MineBlock \/ AdvanceTime \/ \E b \in StoreBlocks : StoreBlockhash(b)
      PROVE  frame' = frame /\ UNCHANGED <<priceVars, keyVars>>
  BY <1>4 DEF MineBlock, AdvanceTime, StoreBlockhash
<1>5. QED
  BY <1>1, <1>2, <1>3, <1>4 DEF BaseNext

\* Versions are only appended.
LEMMA VersionsGrow ==
    ASSUME BaseTypeOK, BaseNext
    PROVE  /\ Len(pricingVersions) <= Len(pricingVersions')
           /\ \A v \in 1..Len(pricingVersions) : pricingVersions'[v] = pricingVersions[v]
           /\ Len(keyVersions) <= Len(keyVersions')
           /\ \A v \in 1..Len(keyVersions) : keyVersions'[v] = keyVersions[v]
<1> USE DEF priceVars, keyVars
<1>p. pricingVersions \in Seq(PricingConfigs)
  BY DEF BaseTypeOK
<1>v. keyVersions \in Seq([keyHash : Keys, service : KeyServices])
  BY DEF BaseTypeOK
<1>1. CASE \E p \in PricingConfigs : SetPricing(p)
  BY <1>1, <1>p, <1>v DEF SetPricing
<1>2. CASE \E k \in Keys, ks \in KeyServices : RegisterKey(k, ks) \/ SetKeyService(k, ks)
  <2>1. PICK k \in Keys, ks \in KeyServices : RegisterKey(k, ks) \/ SetKeyService(k, ks)
    BY <1>2
  <2>2. keyVersions' = Append(keyVersions, KeyVersion(k, ks))
    BY <2>1 DEF RegisterKey, SetKeyService, AppendKeyVersion
  <2>3. pricingVersions' = pricingVersions
    BY <2>1 DEF RegisterKey, SetKeyService
  <2>4. QED
    BY <2>2, <2>3, <1>p, <1>v DEF KeyVersion
<1>3. CASE UNCHANGED <<pricingVersions, keyVersions>>
  BY <1>3, <1>p, <1>v
<1>4. QED
  BY <1>1, <1>2, <1>3, WhoChangesVersions DEF SetKeyActive

\* The current price and key services stay the newest versions, and no price
\* that fails validation becomes a version.
LEMMA VersionsStayCurrent ==
    ASSUME BaseTypeOK, VersionsCurrent, BaseNext
    PROVE  VersionsCurrent'
<1> USE DEF priceVars, keyVars
<1>p. pricingVersions \in Seq(PricingConfigs)
  BY DEF BaseTypeOK
<1>v. keyVersions \in Seq([keyHash : Keys, service : KeyServices])
  BY DEF BaseTypeOK
<1>k. keys \in [Keys -> [service : KeyServices \cup {NoService},
                         exists : BOOLEAN, active : BOOLEAN]]
      /\ currentKeyVersions \in [Keys -> Nat]
  BY DEF BaseTypeOK
<1>1. CASE \E p \in PricingConfigs : SetPricing(p)
  <2>1. PICK p \in PricingConfigs : SetPricing(p)
    BY <1>1
  <2>2. pricingVersions' = Append(pricingVersions, p) /\ pricing' = p /\ ValidatePricing(p)
    BY <2>1 DEF SetPricing
  <2>3. /\ Len(pricingVersions') # 0 /\ pricing' = pricingVersions'[Len(pricingVersions')]
        /\ \A v \in 1..Len(pricingVersions') : ValidatePricing(pricingVersions'[v])
    BY <2>2, <1>p DEF VersionsCurrent
  <2>4. UNCHANGED keyVars
    BY <2>1 DEF SetPricing
  <2>5. QED
    BY <2>3, <2>4 DEF VersionsCurrent, ValidatePricing
<1>2. CASE \E k \in Keys, ks \in KeyServices : RegisterKey(k, ks) \/ SetKeyService(k, ks)
  <2>1. PICK k \in Keys, ks \in KeyServices : RegisterKey(k, ks) \/ SetKeyService(k, ks)
    BY <1>2
  <2>2. /\ keyVersions' = Append(keyVersions, KeyVersion(k, ks))
        /\ currentKeyVersions' = [currentKeyVersions EXCEPT ![k] = Len(keyVersions) + 1]
    BY <2>1 DEF RegisterKey, SetKeyService, AppendKeyVersion
  <2>3. keys'[k].service = ks /\ \A x \in Keys \ {k} : keys'[x] = keys[x]
    BY <2>1, <1>k DEF RegisterKey, SetKeyService
  <2>4. UNCHANGED priceVars
    BY <2>1 DEF RegisterKey, SetKeyService
  <2>5. ASSUME NEW x \in Keys, keys'[x].exists
        PROVE  /\ currentKeyVersions'[x] \in 1..Len(keyVersions')
               /\ keyVersions'[currentKeyVersions'[x]] = KeyVersion(x, keys'[x].service)
    <3>1. CASE x = k
      BY <3>1, <2>2, <2>3, <1>v, <1>k DEF KeyVersion
    <3>2. CASE x # k
      <4>1. /\ currentKeyVersions[x] \in 1..Len(keyVersions)
            /\ keyVersions[currentKeyVersions[x]] = KeyVersion(x, keys[x].service)
        BY <3>2, <2>3, <2>5 DEF VersionsCurrent
      <4>2. currentKeyVersions'[x] = currentKeyVersions[x] /\ keys'[x] = keys[x]
        BY <3>2, <2>2, <2>3, <1>k
      <4>3. QED
        BY <4>1, <4>2, <2>2, <1>v DEF KeyVersion
    <3>3. QED
      BY <3>1, <3>2
  <2>6. QED
    BY <2>4, <2>5 DEF VersionsCurrent, ValidatePricing
<1>3. CASE \E k \in Keys, active \in ActiveFlags : SetKeyActive(k, active)
  BY <1>3, <1>k DEF SetKeyActive, VersionsCurrent, ValidatePricing, KeyVersion
<1>4. CASE UNCHANGED <<priceVars, keyVars>>
  BY <1>4 DEF VersionsCurrent, ValidatePricing
<1>5. QED
  BY <1>1, <1>2, <1>3, <1>4, WhoChangesVersions
-----------------------------------------------------------------------------
(* The parts of requestRandomWords, fulfillRandomWords and expireRequest *)

\* A request that is accepted is billed to an existing subscription, priced from
\* an existing key, and gets an identifier of the declared set.
LEMMA AcceptedRequest ==
    ASSUME BaseTypeOK, VersionsCurrent,
           NEW c \in Consumers, NEW supplied \in {0} \cup Subs, NEW k \in Keys,
           NEW p \in RequestParams, NEW maxPayment,
           RequestAllowed(c, supplied, k, p, maxPayment)
    PROVE  LET b == ResolveBilling(c, supplied) IN
           /\ b.subscriptionId \in Subs /\ b.premiumBps \in Nat
           /\ b.sponsored \in BOOLEAN /\ b.waiveMinimumFee \in BOOLEAN
           /\ keys[k].exists /\ keys[k].service \in KeyServices
           /\ QuoteMaxPayment(k, p, b) \in Nat
           /\ NextRequestId(c, b.subscriptionId, k) \in RequestIds
           /\ consumerNonces[<<b.subscriptionId, c>>] + 1 \in 0..MaxNonce
           /\ b.sponsored => b.subscriptionId = sponsorPolicies[c].subscriptionId
<1> DEFINE b == ResolveBilling(c, supplied)
           s == b.subscriptionId
<1>1. s \in Subs
  BY DEF RequestAllowed, BillingAllowed, RequireSubscription
<1>2. /\ b.premiumBps \in Nat /\ b.sponsored \in BOOLEAN /\ b.waiveMinimumFee \in BOOLEAN
      /\ b.sponsored => s = sponsorPolicies[c].subscriptionId
  <2>1. sponsorPolicies[c] \in PolicyType /\ pricing \in PricingConfig
    BY BaseAssumption DEF BaseTypeOK
  <2>2. ASSUME supplied \in Subs
        PROVE  subscriptionPremiumOverrides[supplied].premiumBps \in Nat
    BY <2>2 DEF BaseTypeOK
  <2>3. CASE supplied = 0
    BY <2>1, <2>3 DEF ResolveBilling, PolicyType
  <2>4. CASE supplied # 0
    BY <2>1, <2>2, <2>4 DEF ResolveBilling, PricingConfig
  <2>5. QED
    BY <2>3, <2>4
<1>3. keys[k].exists
  BY DEF RequestAllowed, ActiveKey
<1>4. keys[k].service \in KeyServices
  <2>1. keyVersions[currentKeyVersions[k]] = KeyVersion(k, keys[k].service)
        /\ currentKeyVersions[k] \in 1..Len(keyVersions)
    BY <1>3 DEF VersionsCurrent
  <2>2. keyVersions \in Seq([keyHash : Keys, service : KeyServices])
    BY DEF BaseTypeOK
  <2>3. keyVersions[currentKeyVersions[k]] \in [keyHash : Keys, service : KeyServices]
    BY <2>1, <2>2, SeqElement
  <2>4. QED
    BY <2>1, <2>3 DEF KeyVersion
<1>5. QuoteMaxPayment(k, p, b) \in Nat
  <2>1. /\ keys[k].service \in KeyService /\ pricing \in PricingConfig
        /\ p \in [callbackGasLimit : Nat, numWords : Nat, confirmations : Nat]
    BY <1>4, BaseAssumption DEF BaseTypeOK
  <2>2. QED
    BY <2>1, <1>2, QuoteNat DEF QuoteMaxPayment
<1>6. consumerNonces[<<s, c>>] \in Nat /\ consumerNonces[<<s, c>>] < MaxNonce
      /\ MaxNonce \in Nat
  <2>1. consumerNonces[<<s, c>>] \in 0..MaxNonce
    BY <1>1 DEF BaseTypeOK
  <2>2. consumerNonces[<<s, c>>] < MaxNonce
    BY DEF RequestAllowed
  <2>3. MaxNonce \in Nat
    BY BaseAssumption
  <2>4. QED
    BY <2>1, <2>2, <2>3
<1>7. NextRequestId(c, s, k) \in RequestIds
  BY <1>1, <1>6 DEF NextRequestId, RequestIds
<1>8. QED
  BY <1>1, <1>2, <1>3, <1>4, <1>5, <1>6, <1>7

\* Taking a reservation keeps the types.
LEMMA TakeReservationTypes ==
    ASSUME BaseTypeOK, NEW c \in Consumers, NEW b, NEW reserve \in Nat,
           b.subscriptionId \in Subs,
           consumerNonces[<<b.subscriptionId, c>>] + 1 \in 0..MaxNonce,
           TakeReservation(c, b, reserve)
    PROVE  BaseTypeOK'
<1> DEFINE s == b.subscriptionId
<1>1. subscriptions' \in [Subs -> SubscriptionType]
  <2>1. subscriptions \in [Subs -> SubscriptionType]
    BY DEF BaseTypeOK
  <2>2. QED
    BY <2>1 DEF TakeReservation, SubscriptionType
<1>2. consumers' \in [Subs \X Consumers -> ConsumerType]
  <2>1. consumers \in [Subs \X Consumers -> ConsumerType]
    BY DEF BaseTypeOK
  <2>2. QED
    BY <2>1 DEF TakeReservation, ConsumerType
<1>3. sponsorPolicies' \in [Consumers -> PolicyType]
  <2>1. sponsorPolicies \in [Consumers -> PolicyType] /\ sponsorPolicies[c] \in PolicyType
    BY DEF BaseTypeOK
  <2>2. SPONSOR_EPOCH_SECONDS \in Nat \ {0} /\ timestamp \in Nat
    BY BaseAssumption DEF BaseTypeOK
  <2>3. CurrentEpoch \in Nat /\ QuotaUsed(sponsorPolicies[c]) \in Nat
    BY <2>1, <2>2 DEF CurrentEpoch, QuotaUsed, PolicyType
  <2>4. ConsumeSponsorQuota(sponsorPolicies[c]) \in PolicyType
    <3>1. ASSUME NEW policy \in PolicyType, NEW epoch \in Nat, NEW used \in Nat
          PROVE  [policy EXCEPT !.epoch = epoch, !.requestsInEpoch = used + 1,
                                !.pendingRequests = @ + 1] \in PolicyType
      <4>1. ASSUME NEW r \in PolicyType, NEW n \in Nat
            PROVE  [r EXCEPT !.epoch = n] \in PolicyType
        BY DEF PolicyType
      <4>2. ASSUME NEW r \in PolicyType, NEW n \in Nat
            PROVE  [r EXCEPT !.requestsInEpoch = n] \in PolicyType
        BY DEF PolicyType
      <4>3. ASSUME NEW r \in PolicyType
            PROVE  [r EXCEPT !.pendingRequests = @ + 1] \in PolicyType
        BY DEF PolicyType
      <4> DEFINE r1 == [policy EXCEPT !.epoch = epoch]
                 r2 == [r1 EXCEPT !.requestsInEpoch = used + 1]
      <4>4. r1 \in PolicyType
        BY <4>1
      <4>5. r2 \in PolicyType
        <5> HIDE DEF r1
        <5> QED BY <4>2, <4>4
      <4>6. [r2 EXCEPT !.pendingRequests = @ + 1] \in PolicyType
        <5> HIDE DEF r2
        <5> QED BY <4>3, <4>5
      <4>7. QED
        BY <4>6
    <3>2. QED
      BY <3>1, <2>1, <2>3 DEF ConsumeSponsorQuota
  <2>5. QED
    BY <2>1, <2>4 DEF TakeReservation
<1>4. consumerNonces' \in [Subs \X Consumers -> 0..MaxNonce]
  BY DEF TakeReservation, BaseTypeOK
<1>5. sponsoredUse' \in [Consumers -> Nat]
  BY SMTT(60) DEF TakeReservation, BaseTypeOK
<1>6. QED
  BY <1>1, <1>2, <1>3, <1>4, <1>5
  DEF TakeReservation, clockVars, chainVars, adminVars, priceVars, keyVars, creditVars,
      BaseTypeOK, ChainTypeOK

\* Giving a reservation up keeps the types of everything but the credits.
LEMMA ReleaseTypes ==
    ASSUME BaseTypeOK, NEW i \in RequestIds, NEW reserve \in Nat, NEW charge \in Nat,
           NEW sponsored \in BOOLEAN,
           ReleaseReservation(i, reserve, sponsored, charge)
    PROVE  (/\ operatorCredits \in [Operators -> Nat]
            /\ treasuryCredits \in Nat /\ ethBalance \in Int)' => BaseTypeOK'
<1>1. SubOf(i) \in Subs /\ ConsumerOf(i) \in Consumers /\ PairOf(i) \in Subs \X Consumers
  BY DEF RequestIds, SubOf, ConsumerOf, PairOf
<1>2. subscriptions' \in [Subs -> SubscriptionType]
  <2>1. subscriptions \in [Subs -> SubscriptionType]
    BY DEF BaseTypeOK
  <2>2. ASSUME NEW old \in SubscriptionType, old.reserved >= reserve, old.balance >= charge
        PROVE  [old EXCEPT !.reserved = @ - reserve, !.balance = @ - charge]
                   \in SubscriptionType
    <3>1. old.reserved - reserve \in Nat /\ old.balance - charge \in Nat
      BY <2>2 DEF SubscriptionType
    <3>2. QED
      BY <3>1 DEF SubscriptionType
  <2>3. \A s \in Subs : subscriptions'[s] = IF s = SubOf(i)
            THEN [subscriptions[s] EXCEPT !.reserved = @ - reserve, !.balance = @ - charge]
            ELSE subscriptions[s]
    BY <1>1, <2>1 DEF ReleaseReservation
  <2>4. subscriptions[SubOf(i)].reserved >= reserve /\ subscriptions[SubOf(i)].balance >= charge
    BY DEF ReleaseReservation, CanRelease
  <2>5. \A s \in Subs : subscriptions'[s] \in SubscriptionType
    BY <1>1, <2>1, <2>2, <2>3, <2>4
  <2>6. DOMAIN subscriptions' = Subs /\ subscriptions' = [s \in Subs |-> subscriptions'[s]]
    BY <2>1 DEF ReleaseReservation
  <2>7. QED
    BY <2>5, <2>6
<1>3. consumers' \in [Subs \X Consumers -> ConsumerType]
  <2>1. consumers \in [Subs \X Consumers -> ConsumerType]
    BY DEF BaseTypeOK
  <2>2. QED
    BY <1>1, <2>1 DEF ReleaseReservation, CanRelease, DecrementPending, ConsumerType
<1>4. sponsorPolicies' \in [Consumers -> PolicyType]
  <2>1. sponsorPolicies \in [Consumers -> PolicyType]
    BY DEF BaseTypeOK
  <2>2. QED
    BY <1>1, <2>1 DEF ReleaseReservation, CanRelease, DecrementPending, PolicyType
<1>5. QED
  BY <1>2, <1>3, <1>4
  DEF ReleaseReservation, DecrementPending, clockVars, chainVars, adminVars, priceVars,
      keyVars, BaseTypeOK, ChainTypeOK

\* Splitting a charge never makes a negative credit, for a validated share.
LEMMA CreditTypes ==
    ASSUME BaseTypeOK, NEW payee \in Operators, NEW networkCost \in Nat,
           NEW charge \in Nat, charge >= networkCost,
           NEW share \in Nat, share <= MAX_PREMIUM_BPS,
           CreditCharge(payee, networkCost, charge, share)
    PROVE  (/\ operatorCredits \in [Operators -> Nat]
            /\ treasuryCredits \in Nat /\ ethBalance \in Int)'
<1> DEFINE premium == charge - networkCost
           part == MulBps(premium, share)
<1>1. premium \in Nat
  OBVIOUS
<1>2. part \in Nat /\ part <= premium
  BY <1>1, MulBpsBound
<1>3. /\ networkCost + part \in Nat
      /\ charge - (networkCost + part) \in Nat
  BY <1>2
<1>4. /\ operatorCredits \in [Operators -> Nat] /\ treasuryCredits \in Nat
      /\ ethBalance \in Int
  BY DEF BaseTypeOK
<1> HIDE DEF part
<1>5. /\ operatorCredits' = [operatorCredits EXCEPT ![payee] = @ + (networkCost + part)]
      /\ treasuryCredits' = treasuryCredits + (charge - (networkCost + part))
      /\ ethBalance' = ethBalance
  BY DEF CreditCharge, part
<1>6. QED
  BY <1>3, <1>4, <1>5

\* What the constructor leaves is well typed, and the versions are current.
LEMMA BaseInitTypes == BaseInit => BaseTypeOK /\ VersionsCurrent
<1> SUFFICES ASSUME BaseInit PROVE BaseTypeOK /\ VersionsCurrent
  OBVIOUS
<1>1. BaseTypeOK
  <2>1. PICK k \in Keys, ks \in {x \in KeyServices : ValidKeyService(x)} :
         /\ keys = [x \in Keys |->
               IF x = k THEN [service |-> ks, exists |-> TRUE, active |-> TRUE]
               ELSE [service |-> NoService, exists |-> FALSE, active |-> FALSE]]
         /\ keyVersions = <<KeyVersion(k, ks)>>
         /\ currentKeyVersions = [x \in Keys |-> IF x = k THEN 1 ELSE 0]
    BY DEF BaseInit
  <2>2. /\ keys \in [Keys -> [service : KeyServices \cup {NoService},
                              exists : BOOLEAN, active : BOOLEAN]]
        /\ currentKeyVersions \in [Keys -> Nat]
    BY <2>1
  <2>3. keyVersions \in Seq([keyHash : Keys, service : KeyServices])
    BY <2>1 DEF KeyVersion
  <2>4. pricing \in PricingConfigs /\ pricingVersions \in Seq(PricingConfigs)
    BY DEF BaseInit
  <2>5. ChainTypeOK /\ timestamp \in Nat
    BY BlockhashAssumption DEF BaseInit, ChainInit, ChainTypeOK, Blocks
  <2>6. MaxSubs \in Nat /\ MaxNonce \in Nat
    BY BaseAssumption
  <2>7. nextSubscriptionId \in 1..(MaxSubs + 1)
    BY <2>6 DEF BaseInit
  <2>8. subscriptions \in [Subs -> SubscriptionType]
    BY DEF BaseInit, NoSubscription, SubscriptionType
  <2>9. /\ consumers \in [Subs \X Consumers -> ConsumerType]
        /\ consumerNonces \in [Subs \X Consumers -> 0..MaxNonce]
    BY <2>6 DEF BaseInit, NoConsumer, ConsumerType
  <2>10. sponsorPolicies \in [Consumers -> PolicyType] /\ sponsoredUse \in [Consumers -> Nat]
    BY DEF BaseInit, NoPolicy, PolicyType
  <2>11. /\ subscriptionPremiumOverrides \in [Subs -> [premiumBps : Nat, enabled : BOOLEAN]]
         /\ operatorCredits \in [Operators -> Nat]
         /\ treasuryCredits \in Nat /\ ethBalance \in Int
    BY DEF BaseInit
  <2>12. requestsPaused \in BOOLEAN /\ guardian \in Accounts
    BY DEF BaseInit
  <2>13. QED
    BY <2>2, <2>3, <2>4, <2>5, <2>7, <2>8, <2>9, <2>10, <2>11, <2>12 DEF BaseTypeOK
<1>2. VersionsCurrent
  <2>1. pricingVersions = <<pricing>> /\ ValidatePricing(pricing)
    BY DEF BaseInit
  <2>2. \A k \in Keys : keys[k].exists =>
           /\ currentKeyVersions[k] \in 1..Len(keyVersions)
           /\ keyVersions[currentKeyVersions[k]] = KeyVersion(k, keys[k].service)
    BY DEF BaseInit
  <2>3. QED
    BY <2>1, <2>2 DEF VersionsCurrent
<1> QED BY <1>1, <1>2

\* What an owner may do to a subscription, and to its consumers.
SubscriptionCall(s, caller) ==
    \/ \E amount \in FundAmounts : FundSubscription(s, amount)
    \/ \E amount \in WithdrawAmounts : WithdrawSubscription(s, caller, amount)
    \/ CancelSubscription(s, caller)
    \/ \E a \in NewOwners : RequestSubscriptionOwnerTransfer(s, caller, a)
    \/ AcceptSubscriptionOwnerTransfer(s, caller)
ConsumerCall(s, caller) == \E c \in Consumers :
    \/ \E l \in ConsumerLimits : AddConsumer(s, caller, c, l) \/ UpdateConsumer(s, caller, c, l)
    \/ RemoveConsumer(s, caller, c)

LEMMA BaseKeepsNonces == ASSUME BaseNext PROVE UNCHANGED consumerNonces
<1>1. AdminNext => UNCHANGED consumerNonces
  BY DEF AdminNext, SetPricing, SetGuardian, PauseRequests, UnpauseRequests, PausedChanges,
         RegisterKey, SetKeyService, SetKeyActive, SetSubscriptionPremiumOverride,
         SetSponsorPolicy, RemoveSponsorPolicy, WithdrawTreasuryCredits, subVars
<1>2. SubscriptionNext => UNCHANGED consumerNonces
  <2> SUFFICES ASSUME NEW caller \in Accounts,
                      \/ CreateSubscription(caller)
                      \/ \E s \in Subs : SubscriptionCall(s, caller) \/ ConsumerCall(s, caller)
               PROVE  UNCHANGED consumerNonces
    BY DEF SubscriptionNext, SubscriptionCall, ConsumerCall
  <2>1. CASE CreateSubscription(caller)
    BY <2>1 DEF CreateSubscription
  <2>2. ASSUME NEW s \in Subs, SubscriptionCall(s, caller) PROVE UNCHANGED consumerNonces
    BY <2>2 DEF SubscriptionCall, FundSubscription, WithdrawSubscription, CancelSubscription,
         RequestSubscriptionOwnerTransfer, AcceptSubscriptionOwnerTransfer, OnlySubscriptionsChange
  <2>3. ASSUME NEW s \in Subs, ConsumerCall(s, caller) PROVE UNCHANGED consumerNonces
    BY <2>3 DEF ConsumerCall, AddConsumer, UpdateConsumer, RemoveConsumer, OnlyConsumersChange
  <2> QED BY <2>1, <2>2, <2>3
<1> QED BY <1>1, <1>2 DEF BaseNext, WithdrawOperatorCredits, MineBlock, AdvanceTime,
           StoreBlockhash, subVars

-----------------------------------------------------------------------------
(* What the functions without a request leave of the books *)

\* A subscription that was not created yet has nothing.
UnusedEmpty == \A s \in Subs : s >= nextSubscriptionId => subscriptions[s] = NoSubscription

\* The open requests stay counted, and their wei reserved and backed.
BooksKept ==
    /\ UNCHANGED consumerNonces
    /\ \A s \in Subs :
           /\ subscriptions'[s].reserved = subscriptions[s].reserved
           /\ subscriptions[s].reserved <= subscriptions[s].balance =>
                  subscriptions'[s].reserved <= subscriptions'[s].balance
    /\ \A sc \in Subs \X Consumers :
           consumers'[sc].pendingRequests = consumers[sc].pendingRequests
    /\ \A c \in Consumers :
           /\ sponsorPolicies'[c].pendingRequests = sponsorPolicies[c].pendingRequests
           /\ sponsorPolicies[c].pendingRequests # 0 =>
                  sponsorPolicies'[c].subscriptionId = sponsorPolicies[c].subscriptionId

\* Replacing or removing a policy keeps its open requests, and with any the
\* subscription that pays for them.
LEMMA PolicyBooks ==
    ASSUME BaseTypeOK, NEW c \in Consumers,
           \/ \E policy \in SponsorPolicyConfigs : SetSponsorPolicy(c, policy)
           \/ RemoveSponsorPolicy(c)
    PROVE  /\ UNCHANGED <<nextSubscriptionId, subscriptions, consumers, consumerNonces>>
           /\ \A d \in Consumers :
                  /\ sponsorPolicies'[d].pendingRequests = sponsorPolicies[d].pendingRequests
                  /\ sponsorPolicies[d].pendingRequests # 0 =>
                         sponsorPolicies'[d].subscriptionId = sponsorPolicies[d].subscriptionId
<1>1. sponsorPolicies \in [Consumers -> PolicyType]
  BY DEF BaseTypeOK
<1>2. CASE RemoveSponsorPolicy(c)
  BY <1>1, <1>2 DEF RemoveSponsorPolicy, NoPolicy
<1>3. ASSUME NEW policy \in SponsorPolicyConfigs, SetSponsorPolicy(c, policy)
      PROVE  /\ UNCHANGED <<nextSubscriptionId, subscriptions, consumers, consumerNonces>>
             /\ \A d \in Consumers :
                  /\ sponsorPolicies'[d].pendingRequests = sponsorPolicies[d].pendingRequests
                  /\ sponsorPolicies[d].pendingRequests # 0 =>
                         sponsorPolicies'[d].subscriptionId = sponsorPolicies[d].subscriptionId
  <2>1. PolicyReplaceable(sponsorPolicies[c], policy)
    BY <1>3 DEF SetSponsorPolicy, SponsorPolicyAllowed
  <2>2. /\ sponsorPolicies'[c].pendingRequests = sponsorPolicies[c].pendingRequests
        /\ sponsorPolicies'[c].subscriptionId = policy.subscriptionId
        /\ \A d \in Consumers \ {c} : sponsorPolicies'[d] = sponsorPolicies[d]
    BY <1>1, <1>3 DEF SetSponsorPolicy
  <2>3. UNCHANGED <<nextSubscriptionId, subscriptions, consumers, consumerNonces>>
    BY <1>3 DEF SetSponsorPolicy
  <2> QED BY <2>1, <2>2, <2>3 DEF PolicyReplaceable
<1> QED BY <1>2, <1>3

\* Payments in and out of a subscription, its owners and its consumer count.
LEMMA SubscriptionBooks ==
    ASSUME BaseTypeOK, UnusedEmpty, NEW s \in Subs, NEW caller \in Accounts,
           \/ \E amount \in FundAmounts : FundSubscription(s, amount)
           \/ \E amount \in WithdrawAmounts : WithdrawSubscription(s, caller, amount)
           \/ CancelSubscription(s, caller)
           \/ \E a \in NewOwners : RequestSubscriptionOwnerTransfer(s, caller, a)
           \/ AcceptSubscriptionOwnerTransfer(s, caller)
    PROVE  BooksKept /\ UnusedEmpty'
<1>1. subscriptions \in [Subs -> SubscriptionType] /\ subscriptions[s] \in SubscriptionType
  BY DEF BaseTypeOK
<1>2. OnlySubscriptionsChange /\ subscriptions[s].owner # NoOne
  BY DEF FundSubscription, WithdrawSubscription, CancelSubscription, RequireSubscription,
         RequestSubscriptionOwnerTransfer, AcceptSubscriptionOwnerTransfer, OnlySubscriptionOwner
<1>3. /\ UNCHANGED <<nextSubscriptionId, consumers, consumerNonces, sponsorPolicies>>
  BY <1>2 DEF OnlySubscriptionsChange, sponsorVars
<1>4. ~(s >= nextSubscriptionId)
  BY <1>2 DEF UnusedEmpty, NoSubscription
<1>5. /\ \A x \in Subs \ {s} : subscriptions'[x] = subscriptions[x]
      /\ subscriptions'[s].reserved = subscriptions[s].reserved
      /\ subscriptions[s].reserved <= subscriptions[s].balance =>
             subscriptions[s].reserved <= subscriptions'[s].balance
  <2>1. subscriptions[s].balance \in Nat /\ subscriptions[s].reserved \in Nat
    BY <1>1 DEF SubscriptionType
  <2>2. ASSUME NEW amount \in FundAmounts, FundSubscription(s, amount)
        PROVE  /\ \A x \in Subs \ {s} : subscriptions'[x] = subscriptions[x]
               /\ subscriptions'[s].reserved = subscriptions[s].reserved
               /\ subscriptions'[s].balance = subscriptions[s].balance + amount
               /\ amount \in Nat
    BY <1>1, <2>2, BaseAssumption DEF FundSubscription, SubscriptionType
  <2>3. ASSUME NEW amount \in WithdrawAmounts, WithdrawSubscription(s, caller, amount)
        PROVE  /\ \A x \in Subs \ {s} : subscriptions'[x] = subscriptions[x]
               /\ subscriptions'[s].reserved = subscriptions[s].reserved
               /\ subscriptions'[s].balance = subscriptions[s].balance - amount
               /\ amount <= subscriptions[s].balance - subscriptions[s].reserved
               /\ amount \in Nat
    BY <1>1, <2>3, BaseAssumption DEF WithdrawSubscription, SubscriptionType
  <2>4. CASE CancelSubscription(s, caller)
    BY <1>1, <2>4 DEF CancelSubscription, SubscriptionType
  <2>5. CASE \E a \in NewOwners : RequestSubscriptionOwnerTransfer(s, caller, a)
    BY <1>1, <2>5 DEF RequestSubscriptionOwnerTransfer, SubscriptionType
  <2>6. CASE AcceptSubscriptionOwnerTransfer(s, caller)
    BY <1>1, <2>6 DEF AcceptSubscriptionOwnerTransfer, SubscriptionType
  <2> QED BY <2>1, <2>2, <2>3, <2>4, <2>5, <2>6
<1>6. UnusedEmpty'
  BY <1>3, <1>4, <1>5 DEF UnusedEmpty
<1> QED BY <1>3, <1>5, <1>6 DEF BooksKept

\* Consumers are only removed without open requests, and addConsumer leaves the
\* count as it is.
LEMMA ConsumerBooks ==
    ASSUME BaseTypeOK, UnusedEmpty, NEW s \in Subs, NEW caller \in Accounts, NEW c \in Consumers,
           \/ \E l \in ConsumerLimits : AddConsumer(s, caller, c, l) \/ UpdateConsumer(s, caller, c, l)
           \/ RemoveConsumer(s, caller, c)
    PROVE  BooksKept /\ UnusedEmpty'
<1>1. /\ subscriptions \in [Subs -> SubscriptionType] /\ subscriptions[s] \in SubscriptionType
      /\ consumers \in [Subs \X Consumers -> ConsumerType] /\ <<s, c>> \in Subs \X Consumers
      /\ consumers[<<s, c>>] \in ConsumerType
  BY DEF BaseTypeOK
<1>2. OnlyConsumersChange /\ subscriptions[s].owner # NoOne
  BY DEF AddConsumer, UpdateConsumer, RemoveConsumer, OnlySubscriptionOwner, RequireSubscription
<1>3. UNCHANGED <<nextSubscriptionId, consumerNonces, sponsorPolicies>>
  BY <1>2 DEF OnlyConsumersChange, sponsorVars
<1>4. ~(s >= nextSubscriptionId)
  BY <1>2 DEF UnusedEmpty, NoSubscription
<1>5. PICK sc \in Subs \X Consumers : sc = <<s, c>>
  BY <1>1
<1>6. \A x \in Subs \X Consumers : consumers'[x].pendingRequests = consumers[x].pendingRequests
  <2>1. ASSUME NEW l \in ConsumerLimits, AddConsumer(s, caller, c, l)
        PROVE  \A x \in Subs \X Consumers : consumers'[x].pendingRequests = consumers[x].pendingRequests
    BY <1>1, <1>5, <2>1 DEF AddConsumer, ConsumerType
  <2>2. ASSUME NEW l \in ConsumerLimits, UpdateConsumer(s, caller, c, l)
        PROVE  \A x \in Subs \X Consumers : consumers'[x].pendingRequests = consumers[x].pendingRequests
    BY <1>1, <1>5, <2>2 DEF UpdateConsumer, ConsumerType
  <2>3. CASE RemoveConsumer(s, caller, c)
    BY <1>1, <1>5, <2>3 DEF RemoveConsumer, NoConsumer
  <2> QED BY <2>1, <2>2, <2>3
<1>7. /\ \A x \in Subs \ {s} : subscriptions'[x] = subscriptions[x]
      /\ subscriptions'[s].reserved = subscriptions[s].reserved
      /\ subscriptions'[s].balance = subscriptions[s].balance
  BY <1>1, ZenonT(60) DEF AddConsumer, UpdateConsumer, RemoveConsumer, SubscriptionType
<1>8. UnusedEmpty'
  BY <1>3, <1>4, <1>7 DEF UnusedEmpty
<1> QED BY <1>3, <1>6, <1>7, <1>8 DEF BooksKept

\* What a step leaves alone it keeps in the books.
LEMMA SubsUnchanged ==
    ASSUME UnusedEmpty, UNCHANGED subVars
    PROVE  BooksKept /\ UnusedEmpty'
BY DEF subVars, sponsorVars, BooksKept, UnusedEmpty

\* Every step of the base contract keeps the books of the open requests.
LEMMA BaseBooks ==
    ASSUME BaseTypeOK, UnusedEmpty, BaseNext
    PROVE  BooksKept /\ UnusedEmpty'
<1>0. CASE UNCHANGED <<nextSubscriptionId, subscriptions, consumers, consumerNonces, sponsorPolicies>>
  BY <1>0 DEF BooksKept, UnusedEmpty
<1>1. CASE AdminNext
  <2>1. ASSUME NEW c \in Consumers,
               \/ \E policy \in SponsorPolicyConfigs : SetSponsorPolicy(c, policy)
               \/ RemoveSponsorPolicy(c)
        PROVE  BooksKept /\ UnusedEmpty'
    BY <2>1, PolicyBooks DEF BooksKept, UnusedEmpty
  <2> QED BY <1>0, <1>1, <2>1 DEF AdminNext, SetPricing, SetGuardian, PauseRequests,
         UnpauseRequests, PausedChanges, RegisterKey, SetKeyService, SetKeyActive,
         SetSubscriptionPremiumOverride, WithdrawTreasuryCredits, subVars, sponsorVars
<1>2. CASE SubscriptionNext
  <2>1. ASSUME NEW caller \in Accounts, CreateSubscription(caller)
        PROVE  BooksKept /\ UnusedEmpty'
    <3>1. subscriptions \in [Subs -> SubscriptionType] /\ nextSubscriptionId \in Subs
      BY <2>1, BaseAssumption DEF BaseTypeOK, CreateSubscription, Subs
    <3>2. PICK n \in Subs : n = nextSubscriptionId
      BY <3>1
    <3>3. subscriptions[n] = NoSubscription
      BY <3>1, <3>2, BaseAssumption, SMTT(60) DEF UnusedEmpty, Subs
    <3>4. /\ \A x \in Subs \ {n} : subscriptions'[x] = subscriptions[x]
          /\ subscriptions'[n].reserved = 0 /\ subscriptions'[n].balance = 0
          /\ nextSubscriptionId' = n + 1
          /\ UNCHANGED <<consumers, consumerNonces, sponsorPolicies>>
      BY <2>1, <3>1, <3>2 DEF CreateSubscription, NoSubscription, sponsorVars
    <3>5. UnusedEmpty'
      BY <3>2, <3>4, BaseAssumption DEF UnusedEmpty, Subs
    <3> QED BY <3>3, <3>4, <3>5 DEF BooksKept, NoSubscription
  <2> QED BY <1>2, <2>1, SubscriptionBooks, ConsumerBooks DEF SubscriptionNext
<1>3. CASE \/ \E payee \in Operators, amount \in WithdrawAmounts : WithdrawOperatorCredits(payee, amount)
           \/ MineBlock \/ AdvanceTime \/ \E b \in StoreBlocks : StoreBlockhash(b)
  BY <1>0, <1>3 DEF WithdrawOperatorCredits, MineBlock, AdvanceTime, StoreBlockhash, subVars,
                    sponsorVars
<1> QED BY <1>1, <1>2, <1>3 DEF BaseNext

-----------------------------------------------------------------------------
(* The books: counters and amounts against the set of open requests *)

\* The r elements <<i, n>>, and adding them.
LEMMA RowOfWei ==
    ASSUME NEW i, NEW r \in Nat
    PROVE  IsFiniteSet({i} \X (1..r)) /\ Cardinality({i} \X (1..r)) = r
<1>1. PICK I : I = 1..r
  OBVIOUS
<1>2. IsFiniteSet(I) /\ Cardinality(I) = r
  BY <1>1, FS_Interval
<1>3. PICK S : S = {i}
  OBVIOUS
<1>4. IsFiniteSet(S) /\ Cardinality(S) = 1
  BY <1>3, FS_Singleton
<1>5. IsFiniteSet(S \X I) /\ Cardinality(S \X I) = Cardinality(S) * Cardinality(I)
  BY <1>2, <1>4, FS_Product
<1>6. Cardinality(S \X I) = r
  BY <1>2, <1>4, <1>5
<1> QED BY <1>1, <1>3, <1>5, <1>6

LEMMA AddWei ==
    ASSUME NEW W, IsFiniteSet(W), NEW i, NEW r \in Nat, \A n : <<i, n>> \notin W
    PROVE  /\ IsFiniteSet(W \cup ({i} \X (1..r)))
           /\ Cardinality(W \cup ({i} \X (1..r))) = Cardinality(W) + r
<1>3. PICK T : T = {i} \X (1..r)
  OBVIOUS
<1>4. IsFiniteSet(T) /\ Cardinality(T) = r
  BY <1>3, RowOfWei
<1>5. W \cap T = {}
  BY <1>3
<1>6. Cardinality(W \cap T) = 0
  BY <1>5, FS_EmptySet
<1>7. Cardinality(W) \in Nat
  BY FS_CardinalityType
<1>8. /\ IsFiniteSet(W \cup T)
      /\ Cardinality(W \cup T) = Cardinality(W) + Cardinality(T) - Cardinality(W \cap T)
  BY <1>4, FS_Union
<1>9. Cardinality(W \cup T) = Cardinality(W) + r
  <2>1. Cardinality(W \cup T) = Cardinality(W) + r - 0
    BY <1>4, <1>6, <1>8
  <2> QED BY <1>7, <2>1
<1> QED BY <1>3, <1>8, <1>9

\* The wei of the requests in H on subscription s, amount[i] for each, the
\* requests of a consumer on a subscription and the sponsored ones of a consumer
WeiOf(H, amount, s) == UNION {{i} \X (1..amount[i]) : i \in {j \in H : SubOf(j) = s}}
RequestsOf(H, sc) == {i \in H : PairOf(i) = sc}
SponsoredOf(H, free, c) == {i \in H : ConsumerOf(i) = c /\ i \in free}

\* The books are exact for the set H of open requests, the amounts reserved and
\* the set of sponsored ones.
Ledger(H, amount, free) ==
    /\ \A s \in Subs :
           /\ IsFiniteSet(WeiOf(H, amount, s))
           /\ subscriptions[s].reserved = Cardinality(WeiOf(H, amount, s))
           /\ subscriptions[s].reserved <= subscriptions[s].balance
    /\ \A sc \in Subs \X Consumers :
           /\ IsFiniteSet(RequestsOf(H, sc))
           /\ consumers[sc].pendingRequests = Cardinality(RequestsOf(H, sc))
    /\ \A c \in Consumers :
           /\ IsFiniteSet(SponsoredOf(H, free, c))
           /\ sponsorPolicies[c].pendingRequests = Cardinality(SponsoredOf(H, free, c))
           /\ \A i \in SponsoredOf(H, free, c) : sponsorPolicies[c].subscriptionId = SubOf(i)

\* Only what is open counts.
LEMMA SameLedger ==
    ASSUME NEW H, NEW amount, NEW free, NEW amount2, NEW free2,
           \A i \in H : amount2[i] = amount[i] /\ (i \in free2 <=> i \in free)
    PROVE  /\ \A s : WeiOf(H, amount2, s) = WeiOf(H, amount, s)
           /\ \A c : SponsoredOf(H, free2, c) = SponsoredOf(H, free, c)
<1>1. ASSUME NEW s PROVE WeiOf(H, amount2, s) = WeiOf(H, amount, s)
  <2>1. \A x : x \in WeiOf(H, amount2, s) <=> x \in WeiOf(H, amount, s)
    BY DEF WeiOf
  <2> QED BY <2>1
<1> QED BY <1>1 DEF SponsoredOf

\* With no request open all the counters are zero.
LEMMA LedgerEmpty ==
    ASSUME NEW amount, NEW free,
           subscriptions = [s \in Subs |-> NoSubscription],
           consumers = [sc \in Subs \X Consumers |-> NoConsumer],
           sponsorPolicies = [c \in Consumers |-> NoPolicy]
    PROVE  Ledger({}, amount, free)
<1>1. /\ \A s \in Subs : WeiOf({}, amount, s) = {}
      /\ \A sc \in Subs \X Consumers : RequestsOf({}, sc) = {}
      /\ \A c \in Consumers : SponsoredOf({}, free, c) = {}
  BY DEF WeiOf, RequestsOf, SponsoredOf
<1>2. /\ \A s \in Subs : subscriptions[s].reserved = 0 /\ subscriptions[s].balance = 0
      /\ \A sc \in Subs \X Consumers : consumers[sc].pendingRequests = 0
      /\ \A c \in Consumers : sponsorPolicies[c].pendingRequests = 0
  BY DEF NoSubscription, NoConsumer, NoPolicy
<1>3. IsFiniteSet({}) /\ Cardinality({}) = 0
  BY FS_EmptySet
<1>4. ASSUME NEW s \in Subs
      PROVE  /\ IsFiniteSet(WeiOf({}, amount, s))
             /\ subscriptions[s].reserved = Cardinality(WeiOf({}, amount, s))
             /\ subscriptions[s].reserved <= subscriptions[s].balance
  <2>1. WeiOf({}, amount, s) = {}
    BY <1>1
  <2>2. subscriptions[s].reserved = 0 /\ subscriptions[s].balance = 0
    BY <1>2
  <2>3. subscriptions[s].reserved <= subscriptions[s].balance
    BY <2>2
  <2> QED BY <1>3, <2>1, <2>2, <2>3
<1>5. ASSUME NEW sc \in Subs \X Consumers
      PROVE  /\ IsFiniteSet(RequestsOf({}, sc))
             /\ consumers[sc].pendingRequests = Cardinality(RequestsOf({}, sc))
  BY <1>1, <1>2, <1>3
<1>6. ASSUME NEW c \in Consumers
      PROVE  /\ IsFiniteSet(SponsoredOf({}, free, c))
             /\ sponsorPolicies[c].pendingRequests = Cardinality(SponsoredOf({}, free, c))
             /\ \A i \in SponsoredOf({}, free, c) : sponsorPolicies[c].subscriptionId = SubOf(i)
  BY <1>1, <1>2, <1>3
<1> QED BY <1>4, <1>5, <1>6 DEF Ledger

\* A function without a request keeps the books.
LEMMA LedgerKept ==
    ASSUME NEW H, NEW amount, NEW free, NEW amount2, NEW free2,
           \A i \in H : amount2[i] = amount[i] /\ (i \in free2 <=> i \in free),
           Ledger(H, amount, free), BooksKept
    PROVE  Ledger(H, amount2, free2)'
<1>1. \A s \in Subs : /\ IsFiniteSet(WeiOf(H, amount2, s))
                      /\ subscriptions'[s].reserved = Cardinality(WeiOf(H, amount2, s))
                      /\ subscriptions'[s].reserved <= subscriptions'[s].balance
  BY SameLedger DEF Ledger, BooksKept
<1>2. \A sc \in Subs \X Consumers :
           /\ IsFiniteSet(RequestsOf(H, sc))
           /\ consumers'[sc].pendingRequests = Cardinality(RequestsOf(H, sc))
  BY DEF Ledger, BooksKept
<1>3. ASSUME NEW c \in Consumers
      PROVE  /\ IsFiniteSet(SponsoredOf(H, free2, c))
             /\ sponsorPolicies'[c].pendingRequests = Cardinality(SponsoredOf(H, free2, c))
             /\ \A i \in SponsoredOf(H, free2, c) : sponsorPolicies'[c].subscriptionId = SubOf(i)
  <2>1. SponsoredOf(H, free2, c) = SponsoredOf(H, free, c)
    BY SameLedger
  <2>2. sponsorPolicies[c].pendingRequests = 0 => SponsoredOf(H, free, c) = {}
    BY FS_EmptySet DEF Ledger
  <2> QED BY <2>1, <2>2 DEF Ledger, BooksKept
<1> QED BY <1>1, <1>2, <1>3 DEF Ledger

\* What taking a reservation of r wei for request i does to the books, and what
\* giving it up does.
TakenBooks(i, r, sponsored) ==
    /\ \A s \in Subs \ {SubOf(i)} : subscriptions'[s] = subscriptions[s]
    /\ subscriptions'[SubOf(i)].reserved = subscriptions[SubOf(i)].reserved + r
    /\ subscriptions'[SubOf(i)].reserved <= subscriptions'[SubOf(i)].balance
    /\ \A sc \in (Subs \X Consumers) \ {PairOf(i)} : consumers'[sc] = consumers[sc]
    /\ consumers'[PairOf(i)].pendingRequests = consumers[PairOf(i)].pendingRequests + 1
    /\ \A c \in Consumers : c # ConsumerOf(i) \/ ~sponsored =>
           sponsorPolicies'[c] = sponsorPolicies[c]
    /\ sponsored =>
           /\ sponsorPolicies'[ConsumerOf(i)].pendingRequests =
                  sponsorPolicies[ConsumerOf(i)].pendingRequests + 1
           /\ sponsorPolicies'[ConsumerOf(i)].subscriptionId =
                  sponsorPolicies[ConsumerOf(i)].subscriptionId
           /\ sponsorPolicies[ConsumerOf(i)].subscriptionId = SubOf(i)
GivenBooks(i, r, sponsored, charge) ==
    /\ \A s \in Subs \ {SubOf(i)} : subscriptions'[s] = subscriptions[s]
    /\ subscriptions'[SubOf(i)].reserved = subscriptions[SubOf(i)].reserved - r
    /\ subscriptions'[SubOf(i)].balance = subscriptions[SubOf(i)].balance - charge
    /\ \A sc \in (Subs \X Consumers) \ {PairOf(i)} : consumers'[sc] = consumers[sc]
    /\ consumers'[PairOf(i)].pendingRequests = consumers[PairOf(i)].pendingRequests - 1
    /\ \A c \in Consumers : c # ConsumerOf(i) \/ ~sponsored =>
           sponsorPolicies'[c] = sponsorPolicies[c]
    /\ sponsored =>
           /\ sponsorPolicies'[ConsumerOf(i)].pendingRequests =
                  sponsorPolicies[ConsumerOf(i)].pendingRequests - 1
           /\ sponsorPolicies'[ConsumerOf(i)].subscriptionId =
                  sponsorPolicies[ConsumerOf(i)].subscriptionId

\* The sets the books count, with and without one request i.
OneMore(H, i, amount, free) ==
    /\ \A s : s # SubOf(i) => WeiOf(H \cup {i}, amount, s) = WeiOf(H, amount, s)
    /\ WeiOf(H \cup {i}, amount, SubOf(i)) =
           WeiOf(H, amount, SubOf(i)) \cup ({i} \X (1..amount[i]))
    /\ \A n, s : <<i, n>> \notin WeiOf(H, amount, s)
    /\ \A sc : sc # PairOf(i) => RequestsOf(H \cup {i}, sc) = RequestsOf(H, sc)
    /\ RequestsOf(H \cup {i}, PairOf(i)) = RequestsOf(H, PairOf(i)) \cup {i}
    /\ \A c : c # ConsumerOf(i) \/ i \notin free =>
           SponsoredOf(H \cup {i}, free, c) = SponsoredOf(H, free, c)
    /\ i \in free => SponsoredOf(H \cup {i}, free, ConsumerOf(i)) =
                         SponsoredOf(H, free, ConsumerOf(i)) \cup {i}

LEMMA OneRequest ==
    ASSUME NEW H, NEW i \in RequestIds, i \notin H, NEW amount, NEW free
    PROVE  /\ SubOf(i) \in Subs /\ ConsumerOf(i) \in Consumers /\ PairOf(i) \in Subs \X Consumers
           /\ OneMore(H, i, amount, free)
<1>1. SubOf(i) \in Subs /\ ConsumerOf(i) \in Consumers /\ PairOf(i) \in Subs \X Consumers
  BY DEF RequestIds, SubOf, ConsumerOf, PairOf
<1>2. ASSUME NEW s, s # SubOf(i) PROVE WeiOf(H \cup {i}, amount, s) = WeiOf(H, amount, s)
  <2>1. {j \in H \cup {i} : SubOf(j) = s} = {j \in H : SubOf(j) = s}
    BY <1>2
  <2> QED BY <2>1 DEF WeiOf
<1>3. WeiOf(H \cup {i}, amount, SubOf(i)) =
          WeiOf(H, amount, SubOf(i)) \cup ({i} \X (1..amount[i]))
  <2>1. ASSUME NEW x
        PROVE  x \in WeiOf(H \cup {i}, amount, SubOf(i)) <=>
                   x \in WeiOf(H, amount, SubOf(i)) \/ x \in {i} \X (1..amount[i])
    BY DEF WeiOf
  <2> QED BY <2>1
<1>4. \A n, s : <<i, n>> \notin WeiOf(H, amount, s)
  BY DEF WeiOf
<1>5. /\ \A sc : sc # PairOf(i) => RequestsOf(H \cup {i}, sc) = RequestsOf(H, sc)
      /\ RequestsOf(H \cup {i}, PairOf(i)) = RequestsOf(H, PairOf(i)) \cup {i}
  BY DEF RequestsOf
<1>6. /\ \A c : c # ConsumerOf(i) \/ i \notin free =>
             SponsoredOf(H \cup {i}, free, c) = SponsoredOf(H, free, c)
      /\ i \in free => SponsoredOf(H \cup {i}, free, ConsumerOf(i)) =
                           SponsoredOf(H, free, ConsumerOf(i)) \cup {i}
  BY DEF SponsoredOf
<1> QED BY <1>1, <1>2, <1>3, <1>4, <1>5, <1>6 DEF OneMore

LEMMA LedgerTaken ==
    ASSUME NEW H, NEW amount, NEW free, NEW amount2, NEW free2,
           NEW i \in RequestIds, i \notin H, amount2[i] \in Nat,
           \A j \in H : amount2[j] = amount[j] /\ (j \in free2 <=> j \in free),
           Ledger(H, amount, free), TakenBooks(i, amount2[i], i \in free2)
    PROVE  Ledger(H \cup {i}, amount2, free2)'
<1>1. /\ \A s : WeiOf(H, amount2, s) = WeiOf(H, amount, s)
      /\ \A c : SponsoredOf(H, free2, c) = SponsoredOf(H, free, c)
  BY SameLedger
<1>2. PICK s \in Subs, c \in Consumers, sc \in Subs \X Consumers :
          s = SubOf(i) /\ c = ConsumerOf(i) /\ sc = PairOf(i)
  BY OneRequest
<1>0. OneMore(H, i, amount2, free2)
  BY OneRequest
<1>3. ASSUME NEW x \in Subs
      PROVE  /\ IsFiniteSet(WeiOf(H \cup {i}, amount2, x))
             /\ subscriptions'[x].reserved = Cardinality(WeiOf(H \cup {i}, amount2, x))
             /\ subscriptions'[x].reserved <= subscriptions'[x].balance
  <2>1. CASE x # s
    <3>1. /\ subscriptions'[x] = subscriptions[x]
          /\ WeiOf(H \cup {i}, amount2, x) = WeiOf(H, amount, x)
      BY <1>1, <1>2, <2>1, <1>0 DEF TakenBooks, OneMore
    <3> QED BY <3>1 DEF Ledger
  <2>2. CASE x = s
    <3>1. PICK W : W = WeiOf(H, amount, s)
      OBVIOUS
    <3>2. IsFiniteSet(W) /\ subscriptions[s].reserved = Cardinality(W)
      BY <3>1 DEF Ledger
    <3>3. /\ WeiOf(H \cup {i}, amount2, s) = W \cup ({i} \X (1..amount2[i]))
          /\ \A n : <<i, n>> \notin W
      BY <1>1, <1>2, <3>1, <1>0 DEF OneMore
    <3>4. PICK r \in Nat : r = amount2[i]
      OBVIOUS
    <3>5. /\ IsFiniteSet(W \cup ({i} \X (1..r)))
          /\ Cardinality(W \cup ({i} \X (1..r))) = Cardinality(W) + r
      BY <3>2, <3>3, AddWei, ZenonT(60)
    <3>6. /\ subscriptions'[s].reserved = subscriptions[s].reserved + r
          /\ subscriptions'[s].reserved <= subscriptions'[s].balance
      BY <1>2, <3>4 DEF TakenBooks
    <3> QED BY <2>2, <3>2, <3>3, <3>4, <3>5, <3>6
  <2> QED BY <2>1, <2>2
<1>4. ASSUME NEW x \in Subs \X Consumers
      PROVE  /\ IsFiniteSet(RequestsOf(H \cup {i}, x))
             /\ consumers'[x].pendingRequests = Cardinality(RequestsOf(H \cup {i}, x))
  <2>1. CASE x # sc
    <3>1. consumers'[x] = consumers[x] /\ RequestsOf(H \cup {i}, x) = RequestsOf(H, x)
      BY <1>2, <2>1, <1>0 DEF TakenBooks, OneMore
    <3> QED BY <3>1 DEF Ledger
  <2>2. CASE x = sc
    <3>1. PICK R : R = RequestsOf(H, sc)
      OBVIOUS
    <3>2. IsFiniteSet(R) /\ consumers[sc].pendingRequests = Cardinality(R) /\ i \notin R
      BY <3>1 DEF Ledger, RequestsOf
    <3>3. IsFiniteSet(R \cup {i}) /\ Cardinality(R \cup {i}) = Cardinality(R) + 1
      BY <3>2, FS_AddElement
    <3>4. RequestsOf(H \cup {i}, sc) = R \cup {i}
      BY <1>2, <3>1, <1>0 DEF OneMore
    <3>5. consumers'[sc].pendingRequests = consumers[sc].pendingRequests + 1
      BY <1>2 DEF TakenBooks
    <3> QED BY <2>2, <3>2, <3>3, <3>4, <3>5
  <2> QED BY <2>1, <2>2
<1>5. ASSUME NEW x \in Consumers
      PROVE  /\ IsFiniteSet(SponsoredOf(H \cup {i}, free2, x))
             /\ sponsorPolicies'[x].pendingRequests =
                    Cardinality(SponsoredOf(H \cup {i}, free2, x))
             /\ \A j \in SponsoredOf(H \cup {i}, free2, x) :
                    sponsorPolicies'[x].subscriptionId = SubOf(j)
  <2>1. CASE x # c \/ i \notin free2
    <3>1. /\ sponsorPolicies'[x] = sponsorPolicies[x]
          /\ SponsoredOf(H \cup {i}, free2, x) = SponsoredOf(H, free, x)
      BY <1>1, <1>2, <2>1, <1>0 DEF TakenBooks, OneMore
    <3> QED BY <3>1 DEF Ledger
  <2>2. CASE x = c /\ i \in free2
    <3>1. PICK R : R = SponsoredOf(H, free, c)
      OBVIOUS
    <3>2. /\ IsFiniteSet(R) /\ sponsorPolicies[c].pendingRequests = Cardinality(R) /\ i \notin R
          /\ \A j \in R : sponsorPolicies[c].subscriptionId = SubOf(j)
      BY <3>1 DEF Ledger, SponsoredOf
    <3>3. IsFiniteSet(R \cup {i}) /\ Cardinality(R \cup {i}) = Cardinality(R) + 1
      BY <3>2, FS_AddElement
    <3>4. SponsoredOf(H \cup {i}, free2, c) = R \cup {i}
      BY <1>1, <1>2, <2>2, <3>1, <1>0 DEF OneMore
    <3>5. /\ sponsorPolicies'[c].pendingRequests = sponsorPolicies[c].pendingRequests + 1
          /\ sponsorPolicies'[c].subscriptionId = sponsorPolicies[c].subscriptionId
          /\ sponsorPolicies[c].subscriptionId = SubOf(i)
      BY <1>2, <2>2 DEF TakenBooks
    <3> QED BY <2>2, <3>2, <3>3, <3>4, <3>5
  <2> QED BY <2>1, <2>2
<1> QED BY <1>3, <1>4, <1>5 DEF Ledger

LEMMA LedgerGiven ==
    ASSUME NEW K, NEW amount, NEW free, NEW amount2, NEW free2,
           NEW i \in RequestIds, i \notin K, NEW r \in Nat, r = amount[i],
           NEW charge \in Nat, charge <= r,
           \A j \in K : amount2[j] = amount[j] /\ (j \in free2 <=> j \in free),
           BaseTypeOK, Ledger(K \cup {i}, amount, free), GivenBooks(i, r, i \in free, charge)
    PROVE  Ledger(K, amount2, free2)'
<1>0. OneMore(K, i, amount, free)
  BY OneRequest
<1>1. /\ \A s : WeiOf(K, amount2, s) = WeiOf(K, amount, s)
      /\ \A c : SponsoredOf(K, free2, c) = SponsoredOf(K, free, c)
  BY SameLedger
<1>2. PICK s \in Subs, c \in Consumers, sc \in Subs \X Consumers :
          s = SubOf(i) /\ c = ConsumerOf(i) /\ sc = PairOf(i)
  BY OneRequest
<1>3. ASSUME NEW x \in Subs
      PROVE  /\ IsFiniteSet(WeiOf(K, amount2, x))
             /\ subscriptions'[x].reserved = Cardinality(WeiOf(K, amount2, x))
             /\ subscriptions'[x].reserved <= subscriptions'[x].balance
  <2>1. CASE x # s
    <3>1. /\ subscriptions'[x] = subscriptions[x]
          /\ WeiOf(K \cup {i}, amount, x) = WeiOf(K, amount2, x)
      BY <1>0, <1>1, <1>2, <2>1 DEF GivenBooks, OneMore
    <3> QED BY <3>1 DEF Ledger
  <2>2. CASE x = s
    <3>1. PICK W, W2 : W = WeiOf(K \cup {i}, amount, s) /\ W2 = WeiOf(K, amount, s)
      OBVIOUS
    <3>2. /\ IsFiniteSet(W) /\ subscriptions[s].reserved = Cardinality(W)
          /\ subscriptions[s].reserved <= subscriptions[s].balance
      BY <3>1 DEF Ledger
    <3>3. W = W2 \cup ({i} \X (1..r)) /\ \A n : <<i, n>> \notin W2
      BY <1>0, <1>2, <3>1 DEF OneMore
    <3>5. IsFiniteSet(W2) /\ Cardinality(W2) = Cardinality(W) - r
      <4>1. W2 \in SUBSET W
        BY <3>3
      <4>2. IsFiniteSet(W2)
        BY <3>2, <4>1, FS_Subset
      <4>3. Cardinality(W2) \in Nat
        BY <4>2, FS_CardinalityType
      <4>4. Cardinality(W2 \cup ({i} \X (1..r))) = Cardinality(W2) + r
        BY <3>3, <4>2, AddWei
      <4> QED BY <3>3, <4>2, <4>3, <4>4
    <3>6. /\ subscriptions'[s].reserved = subscriptions[s].reserved - r
          /\ subscriptions'[s].balance = subscriptions[s].balance - charge
      BY <1>2 DEF GivenBooks
    <3>7. subscriptions[s].reserved \in Nat /\ subscriptions[s].balance \in Nat
      BY DEF BaseTypeOK, SubscriptionType
    <3>8. subscriptions'[s].reserved <= subscriptions'[s].balance
      BY <3>2, <3>6, <3>7
    <3> QED BY <1>1, <2>2, <3>1, <3>2, <3>5, <3>6, <3>8
  <2> QED BY <2>1, <2>2
<1>4. ASSUME NEW x \in Subs \X Consumers
      PROVE  /\ IsFiniteSet(RequestsOf(K, x))
             /\ consumers'[x].pendingRequests = Cardinality(RequestsOf(K, x))
  <2>1. CASE x # sc
    <3>1. consumers'[x] = consumers[x] /\ RequestsOf(K \cup {i}, x) = RequestsOf(K, x)
      BY <1>0, <1>2, <2>1 DEF GivenBooks, OneMore
    <3> QED BY <3>1 DEF Ledger
  <2>2. CASE x = sc
    <3>1. PICK R : R = RequestsOf(K \cup {i}, sc)
      OBVIOUS
    <3>2. IsFiniteSet(R) /\ consumers[sc].pendingRequests = Cardinality(R)
      BY <3>1 DEF Ledger
    <3>3. R = RequestsOf(K, sc) \cup {i} /\ i \notin RequestsOf(K, sc)
      <4>1. i \notin RequestsOf(K, sc)
        BY DEF RequestsOf
      <4> QED BY <1>0, <1>2, <3>1, <4>1 DEF OneMore
    <3>4. i \in R /\ R \ {i} = RequestsOf(K, sc)
      BY <3>3
    <3>5. IsFiniteSet(R \ {i}) /\ Cardinality(R \ {i}) = Cardinality(R) - 1
      BY <3>2, <3>4, FS_RemoveElement
    <3>6. consumers'[sc].pendingRequests = consumers[sc].pendingRequests - 1
      BY <1>2 DEF GivenBooks
    <3> QED BY <2>2, <3>2, <3>4, <3>5, <3>6
  <2> QED BY <2>1, <2>2
<1>5. ASSUME NEW x \in Consumers
      PROVE  /\ IsFiniteSet(SponsoredOf(K, free2, x))
             /\ sponsorPolicies'[x].pendingRequests = Cardinality(SponsoredOf(K, free2, x))
             /\ \A j \in SponsoredOf(K, free2, x) :
                    sponsorPolicies'[x].subscriptionId = SubOf(j)
  <2>1. CASE x # c \/ i \notin free
    <3>1. /\ sponsorPolicies'[x] = sponsorPolicies[x]
          /\ SponsoredOf(K \cup {i}, free, x) = SponsoredOf(K, free2, x)
      BY <1>0, <1>1, <1>2, <2>1 DEF GivenBooks, OneMore
    <3> QED BY <3>1 DEF Ledger
  <2>2. CASE x = c /\ i \in free
    <3>1. PICK R, R2 : R = SponsoredOf(K \cup {i}, free, c) /\ R2 = SponsoredOf(K, free, c)
      OBVIOUS
    <3>2. /\ IsFiniteSet(R) /\ sponsorPolicies[c].pendingRequests = Cardinality(R)
          /\ \A j \in R : sponsorPolicies[c].subscriptionId = SubOf(j)
      BY <3>1 DEF Ledger
    <3>3. R = R2 \cup {i} /\ i \notin R2
      BY <1>0, <1>2, <2>2, <3>1 DEF OneMore, SponsoredOf
    <3>4. i \in R /\ R \ {i} = R2
      BY <3>3
    <3>5. IsFiniteSet(R \ {i}) /\ Cardinality(R \ {i}) = Cardinality(R) - 1
      BY <3>2, <3>4, FS_RemoveElement
    <3>6. /\ sponsorPolicies'[c].pendingRequests = sponsorPolicies[c].pendingRequests - 1
          /\ sponsorPolicies'[c].subscriptionId = sponsorPolicies[c].subscriptionId
      BY <1>2, <2>2 DEF GivenBooks
    <3>7. SponsoredOf(K, free2, x) = R2
      BY <1>1, <2>2, <3>1
    <3> QED BY <2>2, <3>2, <3>4, <3>5, <3>6, <3>7
  <2> QED BY <2>1, <2>2
<1> QED BY <1>3, <1>4, <1>5 DEF Ledger

\* Exact books cover every open request: none of the checked subtractions of a
\* release can revert.
LEMMA LedgerCovers ==
    ASSUME NEW H, NEW amount, NEW free, Ledger(H, amount, free), BaseTypeOK,
           NEW i \in RequestIds, i \in H, NEW r \in Nat, r = amount[i]
    PROVE  /\ subscriptions[SubOf(i)].reserved >= r /\ subscriptions[SubOf(i)].balance >= r
           /\ consumers[PairOf(i)].pendingRequests >= 1
           /\ i \in free => sponsorPolicies[ConsumerOf(i)].pendingRequests >= 1
<1>1. PICK s \in Subs, c \in Consumers, sc \in Subs \X Consumers :
          s = SubOf(i) /\ c = ConsumerOf(i) /\ sc = PairOf(i)
  BY DEF RequestIds, SubOf, ConsumerOf, PairOf
<1>2. PICK W, R, P : /\ W = WeiOf(H, amount, s) /\ R = RequestsOf(H, sc)
                     /\ P = SponsoredOf(H, free, c)
  OBVIOUS
<1>3. /\ IsFiniteSet(W) /\ subscriptions[s].reserved = Cardinality(W)
      /\ subscriptions[s].reserved <= subscriptions[s].balance
      /\ IsFiniteSet(R) /\ consumers[sc].pendingRequests = Cardinality(R)
      /\ IsFiniteSet(P) /\ sponsorPolicies[c].pendingRequests = Cardinality(P)
  BY <1>2 DEF Ledger
<1>4. subscriptions[s].reserved >= r /\ subscriptions[s].balance >= r
  <2>1. PICK T : T = {i} \X (1..r)
    OBVIOUS
  <2>2. T \in SUBSET W
    BY <1>1, <1>2, <2>1 DEF WeiOf
  <2>3. Cardinality(T) = r
    BY <2>1, RowOfWei
  <2>4. r <= Cardinality(W)
    BY <1>3, <2>2, <2>3, FS_Subset
  <2>5. subscriptions[s].reserved \in Nat /\ subscriptions[s].balance \in Nat
    BY DEF BaseTypeOK, SubscriptionType
  <2> QED BY <1>3, <2>4, <2>5
<1>5. ASSUME NEW S, IsFiniteSet(S), i \in S PROVE Cardinality(S) >= 1
  <2>1. Cardinality(S) \in Nat
    BY <1>5, FS_CardinalityType
  <2>2. Cardinality(S) # 0
    BY <1>5, FS_EmptySet
  <2> QED BY <2>1, <2>2
<1>6. i \in R /\ (i \in free => i \in P)
  BY <1>1, <1>2 DEF RequestsOf, SponsoredOf
<1> QED BY <1>1, <1>3, <1>4, <1>5, <1>6

\* An accepted request changes the books by its reservation.
LEMMA TakeReservationBooks ==
    ASSUME BaseTypeOK, UnusedEmpty, NEW c \in Consumers, NEW b, NEW reserve \in Nat,
           NEW s \in Subs, s = b.subscriptionId, NEW k,
           NEW i \in RequestIds, i = NextRequestId(c, s, k),
           NEW sponsored \in BOOLEAN, sponsored <=> b.sponsored,
           RequireSubscription(s), subscriptions[s].balance - subscriptions[s].reserved >= reserve,
           b.sponsored => s = sponsorPolicies[c].subscriptionId,
           TakeReservation(c, b, reserve)
    PROVE  TakenBooks(i, reserve, sponsored) /\ UnusedEmpty'
<1>1. SubOf(i) = s /\ ConsumerOf(i) = c /\ PairOf(i) = <<s, c>> /\ <<s, c>> \in Subs \X Consumers
  BY DEF NextRequestId, SubOf, ConsumerOf, PairOf
<1>2. /\ subscriptions \in [Subs -> SubscriptionType] /\ subscriptions[s] \in SubscriptionType
      /\ consumers \in [Subs \X Consumers -> ConsumerType]
      /\ sponsorPolicies \in [Consumers -> PolicyType] /\ sponsorPolicies[c] \in PolicyType
  BY DEF BaseTypeOK
<1>3. /\ subscriptions[s].reserved \in Nat /\ subscriptions[s].balance \in Nat
      /\ \A x \in Subs \ {s} : subscriptions'[x] = subscriptions[x]
      /\ subscriptions'[s].reserved = subscriptions[s].reserved + reserve
      /\ subscriptions'[s].balance = subscriptions[s].balance
  BY <1>2 DEF TakeReservation, SubscriptionType
<1>4. subscriptions'[s].reserved <= subscriptions'[s].balance
  BY <1>3
<1>5. PICK sc \in Subs \X Consumers : sc = <<s, c>>
  BY <1>1
<1>6. /\ \A x \in (Subs \X Consumers) \ {sc} : consumers'[x] = consumers[x]
      /\ consumers'[sc].pendingRequests = consumers[sc].pendingRequests + 1
  BY <1>2, <1>5 DEF TakeReservation, ConsumerType
<1>7. /\ \A x \in Consumers : x # c \/ ~sponsored => sponsorPolicies'[x] = sponsorPolicies[x]
      /\ sponsored => sponsorPolicies'[c] = ConsumeSponsorQuota(sponsorPolicies[c])
  BY <1>2 DEF TakeReservation
<1>8. /\ ConsumeSponsorQuota(sponsorPolicies[c]).pendingRequests =
             sponsorPolicies[c].pendingRequests + 1
      /\ ConsumeSponsorQuota(sponsorPolicies[c]).subscriptionId =
             sponsorPolicies[c].subscriptionId
  BY <1>2 DEF ConsumeSponsorQuota, PolicyType
<1>9. ~(s >= nextSubscriptionId) /\ nextSubscriptionId' = nextSubscriptionId
  BY DEF UnusedEmpty, NoSubscription, RequireSubscription, TakeReservation
<1>10. UnusedEmpty'
  BY <1>3, <1>9 DEF UnusedEmpty
<1> QED BY <1>1, <1>3, <1>4, <1>5, <1>6, <1>7, <1>8, <1>10 DEF TakenBooks

\* So does giving it up.
LEMMA ReleaseBooks ==
    ASSUME BaseTypeOK, UnusedEmpty, NEW i \in RequestIds, NEW reserve \in Nat, NEW charge \in Nat,
           NEW sponsored \in BOOLEAN,
           ReleaseReservation(i, reserve, sponsored, charge)
    PROVE  GivenBooks(i, reserve, sponsored, charge) /\ UnusedEmpty'
<1>1. PICK s \in Subs, c \in Consumers, sc \in Subs \X Consumers :
          s = SubOf(i) /\ c = ConsumerOf(i) /\ sc = PairOf(i)
  BY DEF RequestIds, SubOf, ConsumerOf, PairOf
<1>2. /\ subscriptions \in [Subs -> SubscriptionType] /\ subscriptions[s] \in SubscriptionType
      /\ consumers \in [Subs \X Consumers -> ConsumerType]
      /\ sponsorPolicies \in [Consumers -> PolicyType] /\ sponsorPolicies[c] \in PolicyType
  BY DEF BaseTypeOK
<1>3. /\ \A x \in Subs \ {s} : subscriptions'[x] = subscriptions[x]
      /\ subscriptions'[s].reserved = subscriptions[s].reserved - reserve
      /\ subscriptions'[s].balance = subscriptions[s].balance - charge
  BY <1>1, <1>2 DEF ReleaseReservation, SubscriptionType
<1>4. /\ \A x \in (Subs \X Consumers) \ {sc} : consumers'[x] = consumers[x]
      /\ consumers'[sc].pendingRequests = consumers[sc].pendingRequests - 1
  BY <1>1, <1>2 DEF ReleaseReservation, DecrementPending, ConsumerType
<1>5. /\ \A x \in Consumers : x # c \/ ~sponsored => sponsorPolicies'[x] = sponsorPolicies[x]
      /\ sponsored =>
             /\ sponsorPolicies'[c].pendingRequests = sponsorPolicies[c].pendingRequests - 1
             /\ sponsorPolicies'[c].subscriptionId = sponsorPolicies[c].subscriptionId
  BY <1>1, <1>2 DEF ReleaseReservation, DecrementPending, PolicyType
<1>6. nextSubscriptionId' = nextSubscriptionId
  BY DEF ReleaseReservation
<1>7. UnusedEmpty'
  <2>1. CASE subscriptions[s] # NoSubscription
    BY <1>3, <1>6, <2>1 DEF UnusedEmpty
  <2>2. CASE subscriptions[s] = NoSubscription
    <3>1. reserve = 0 /\ charge = 0
      BY <1>1, <2>2 DEF ReleaseReservation, CanRelease, NoSubscription
    <3>2. subscriptions'[s] = subscriptions[s]
      <4>1. subscriptions'[s] = [[subscriptions[s] EXCEPT !.reserved = @ - reserve]
                                     EXCEPT !.balance = @ - charge]
        BY <1>1, <1>2 DEF ReleaseReservation
      <4>2. /\ NoSubscription.reserved - 0 = NoSubscription.reserved
            /\ NoSubscription.balance - 0 = NoSubscription.balance
        BY DEF NoSubscription
      <4>3. [[NoSubscription EXCEPT !.reserved = @ - 0] EXCEPT !.balance = @ - 0] = NoSubscription
        BY <4>2 DEF NoSubscription
      <4> QED BY <2>2, <3>1, <4>1, <4>3
    <3> QED BY <1>3, <1>6, <3>2 DEF UnusedEmpty
  <2> QED BY <2>1, <2>2
<1> QED BY <1>1, <1>3, <1>4, <1>5, <1>7 DEF GivenBooks

-----------------------------------------------------------------------------
(* Ether is conserved *)

\* The wei of a table of amounts, and writing one entry of it.
Wei(f, S) == UNION {{x} \X (1..f[x]) : x \in S}

LEMMA WriteEntry ==
    ASSUME NEW S, NEW f \in [S -> Nat], NEW g \in [S -> Nat], NEW x \in S,
           \A y \in S \ {x} : g[y] = f[y], IsFiniteSet(Wei(f, S))
    PROVE  /\ IsFiniteSet(Wei(g, S))
           /\ Cardinality(Wei(g, S)) = Cardinality(Wei(f, S)) - f[x] + g[x]
<1>1. PICK W : W = Wei(f, S \ {x})
  OBVIOUS
<1>2. W = Wei(g, S \ {x})
  <2>1. \A z : z \in Wei(g, S \ {x}) <=> z \in Wei(f, S \ {x})
    BY DEF Wei
  <2> QED BY <1>1, <2>1
<1>3. \A n : <<x, n>> \notin W
  BY <1>1 DEF Wei
<1>4. Wei(f, S) = W \cup ({x} \X (1..f[x]))
  <2>1. \A z : z \in Wei(f, S) <=> z \in Wei(f, S \ {x}) \/ z \in {x} \X (1..f[x])
    BY DEF Wei
  <2> QED BY <1>1, <2>1
<1>5. Wei(g, S) = W \cup ({x} \X (1..g[x]))
  <2>1. \A z : z \in Wei(g, S) <=> z \in Wei(g, S \ {x}) \/ z \in {x} \X (1..g[x])
    BY DEF Wei
  <2> QED BY <1>2, <2>1
<1>6. IsFiniteSet(W) /\ Cardinality(W) \in Nat
  <2>1. W \in SUBSET Wei(f, S)
    BY <1>4
  <2>2. IsFiniteSet(W)
    BY <2>1, FS_Subset
  <2> QED BY <2>2, FS_CardinalityType
<1>7. PICK n \in Nat, m \in Nat : n = f[x] /\ m = g[x]
  OBVIOUS
<1>8. Cardinality(W \cup ({x} \X (1..n))) = Cardinality(W) + n
  BY <1>3, <1>6, AddWei
<1>9. /\ IsFiniteSet(W \cup ({x} \X (1..m)))
      /\ Cardinality(W \cup ({x} \X (1..m))) = Cardinality(W) + m
  BY <1>3, <1>6, AddWei
<1> QED BY <1>4, <1>5, <1>6, <1>7, <1>8, <1>9

\* The balances of the subscriptions.
balances == [s \in Subs |-> subscriptions[s].balance]

\* The inductive invariant.
SolventInv == /\ Solvent
              /\ IsFiniteSet(Wei(balances, Subs)) /\ IsFiniteSet(Wei(operatorCredits, Operators))

LEMMA OwedWei ==
    /\ SubscriptionWei = Wei(balances, Subs)
    /\ OperatorWei = Wei(operatorCredits, Operators)
<1>1. \A z : z \in SubscriptionWei <=> z \in Wei(balances, Subs)
  BY DEF SubscriptionWei, Wei, balances
<1>2. SubscriptionWei = Wei(balances, Subs)
  BY <1>1
<1> QED BY <1>2 DEF OperatorWei, Wei

LEMMA SolventTypes ==
    ASSUME BaseTypeOK, SolventInv
    PROVE  /\ balances \in [Subs -> Nat] /\ operatorCredits \in [Operators -> Nat]
           /\ treasuryCredits \in Nat
           /\ Cardinality(Wei(balances, Subs)) \in Nat
           /\ Cardinality(Wei(operatorCredits, Operators)) \in Nat
           /\ ethBalance = Cardinality(Wei(balances, Subs))
                           + Cardinality(Wei(operatorCredits, Operators)) + treasuryCredits
<1>1. /\ balances \in [Subs -> Nat] /\ operatorCredits \in [Operators -> Nat]
      /\ treasuryCredits \in Nat
  BY DEF BaseTypeOK, balances, SubscriptionType
<1>2. /\ Cardinality(Wei(balances, Subs)) \in Nat
      /\ Cardinality(Wei(operatorCredits, Operators)) \in Nat
  BY FS_CardinalityType DEF SolventInv
<1> QED BY <1>1, <1>2, OwedWei DEF SolventInv, Solvent

\* The balances grow by d in all, and the credits of the operators.
BalancesMove(d) ==
    /\ IsFiniteSet(Wei(balances, Subs))'
    /\ Cardinality(Wei(balances, Subs))' = Cardinality(Wei(balances, Subs)) + d
CreditsMove(d) ==
    /\ IsFiniteSet(Wei(operatorCredits, Operators))'
    /\ Cardinality(Wei(operatorCredits, Operators))' =
           Cardinality(Wei(operatorCredits, Operators)) + d

LEMMA OneBalance ==
    ASSUME BaseTypeOK, BaseTypeOK', SolventInv, NEW s \in Subs,
           \A x \in Subs \ {s} : subscriptions'[x].balance = subscriptions[x].balance
    PROVE  BalancesMove(subscriptions'[s].balance - subscriptions[s].balance)
<1>1. PICK f, g : f = balances /\ g = balances'
  OBVIOUS
<1>2. f \in [Subs -> Nat] /\ g \in [Subs -> Nat]
  BY <1>1 DEF BaseTypeOK, balances, SubscriptionType
<1>3. /\ \A x \in Subs \ {s} : g[x] = f[x]
      /\ f[s] = subscriptions[s].balance /\ g[s] = subscriptions'[s].balance
  BY <1>1 DEF balances
<1>4. IsFiniteSet(Wei(f, Subs)) /\ Cardinality(Wei(f, Subs)) \in Nat
  BY <1>1, SolventTypes DEF SolventInv
<1>5. /\ IsFiniteSet(Wei(g, Subs))
      /\ Cardinality(Wei(g, Subs)) = Cardinality(Wei(f, Subs)) - f[s] + g[s]
  BY <1>2, <1>3, <1>4, WriteEntry
<1>6. f[s] \in Nat /\ g[s] \in Nat
  BY <1>2
<1>7. Cardinality(Wei(g, Subs)) = Cardinality(Wei(f, Subs)) + (g[s] - f[s])
  BY <1>4, <1>5, <1>6
<1> QED BY <1>1, <1>3, <1>5, <1>7 DEF BalancesMove

LEMMA SameBalances ==
    ASSUME BaseTypeOK, SolventInv,
           \A x \in Subs : subscriptions'[x].balance = subscriptions[x].balance
    PROVE  BalancesMove(0)
<1>1. balances' = balances
  BY DEF balances
<1>2. Cardinality(Wei(balances, Subs)) \in Nat
  BY SolventTypes
<1>3. Cardinality(Wei(balances, Subs)) = Cardinality(Wei(balances, Subs)) + 0
  BY <1>2
<1> QED BY <1>1, <1>3 DEF BalancesMove, SolventInv

LEMMA OneCredit ==
    ASSUME BaseTypeOK, BaseTypeOK', SolventInv, NEW a \in Operators,
           \A x \in Operators \ {a} : operatorCredits'[x] = operatorCredits[x]
    PROVE  CreditsMove(operatorCredits'[a] - operatorCredits[a])
<1>1. PICK f, g : f = operatorCredits /\ g = operatorCredits'
  OBVIOUS
<1>2. f \in [Operators -> Nat] /\ g \in [Operators -> Nat]
  BY <1>1 DEF BaseTypeOK
<1>3. IsFiniteSet(Wei(f, Operators)) /\ Cardinality(Wei(f, Operators)) \in Nat
  BY <1>1, SolventTypes DEF SolventInv
<1>4. /\ IsFiniteSet(Wei(g, Operators))
      /\ Cardinality(Wei(g, Operators)) = Cardinality(Wei(f, Operators)) - f[a] + g[a]
  BY <1>1, <1>2, <1>3, WriteEntry
<1>5. f[a] \in Nat /\ g[a] \in Nat
  BY <1>2
<1>6. Cardinality(Wei(g, Operators)) = Cardinality(Wei(f, Operators)) + (g[a] - f[a])
  BY <1>3, <1>4, <1>5
<1> QED BY <1>1, <1>4, <1>6 DEF CreditsMove

LEMMA SameCredits ==
    ASSUME BaseTypeOK, SolventInv, UNCHANGED operatorCredits
    PROVE  CreditsMove(0)
<1>1. Cardinality(Wei(operatorCredits, Operators)) \in Nat
  BY SolventTypes
<1>2. Cardinality(Wei(operatorCredits, Operators)) = Cardinality(Wei(operatorCredits, Operators)) + 0
  BY <1>1
<1> QED BY <1>2 DEF CreditsMove, SolventInv

\* A step moves ether by what it adds to the balances, the credits and the
\* treasury.
LEMMA SolventMove ==
    ASSUME BaseTypeOK, BaseTypeOK', SolventInv, NEW d \in Int, NEW e \in Int,
           BalancesMove(d), CreditsMove(e),
           ethBalance' = ethBalance + d + e + (treasuryCredits' - treasuryCredits)
    PROVE  SolventInv'
<1>1. treasuryCredits \in Nat /\ treasuryCredits' \in Nat
  BY DEF BaseTypeOK
<1>2. PICK n \in Nat, m \in Nat : n = Cardinality(Wei(balances, Subs))
                                  /\ m = Cardinality(Wei(operatorCredits, Operators))
  BY SolventTypes
<1>3. ethBalance = n + m + treasuryCredits
  BY <1>2, SolventTypes
<1>4. ethBalance' = (n + d) + (m + e) + treasuryCredits'
  BY <1>1, <1>3
<1>5. (/\ SubscriptionWei = Wei(balances, Subs)
       /\ OperatorWei = Wei(operatorCredits, Operators))'
  <2>1. \A z : (z \in SubscriptionWei <=> z \in Wei(balances, Subs))'
    BY DEF SubscriptionWei, Wei, balances
  <2>2. (SubscriptionWei = Wei(balances, Subs))'
    BY <2>1
  <2> QED BY <2>2 DEF OperatorWei, Wei
<1> QED BY <1>2, <1>4, <1>5 DEF SolventInv, Solvent, BalancesMove, CreditsMove

LEMMA SolventSame ==
    ASSUME BaseTypeOK, BaseTypeOK', SolventInv,
           \A x \in Subs : subscriptions'[x].balance = subscriptions[x].balance,
           UNCHANGED creditVars
    PROVE  SolventInv'
<1>1. UNCHANGED <<operatorCredits, treasuryCredits, ethBalance>>
  BY DEF creditVars
<1>2. ethBalance \in Int /\ treasuryCredits \in Nat
  BY DEF BaseTypeOK
<1>3. ethBalance' = ethBalance + 0 + 0 + (treasuryCredits' - treasuryCredits)
  BY <1>1, <1>2
<1> QED BY <1>1, <1>3, SameBalances, SameCredits, SolventMove

\* A settlement moves the charge from the subscription to the operator and the
\* treasury, whatever the rounding of the operator's share.
LEMMA SettleSolvent ==
    ASSUME BaseTypeOK, BaseTypeOK', SolventInv, NEW i \in RequestIds, NEW reserve \in Nat,
           NEW sponsored, NEW payee \in Operators, NEW networkCost \in Nat, NEW charge \in Nat,
           charge >= networkCost, NEW share \in Nat,
           ReleaseReservation(i, reserve, sponsored, charge),
           CreditCharge(payee, networkCost, charge, share)
    PROVE  SolventInv'
<1>1. PICK s \in Subs : s = SubOf(i)
  BY DEF RequestIds, SubOf
<1>2. subscriptions \in [Subs -> SubscriptionType] /\ subscriptions[s].balance \in Nat
  BY DEF BaseTypeOK, SubscriptionType
<1>3. /\ \A x \in Subs \ {s} : subscriptions'[x].balance = subscriptions[x].balance
      /\ subscriptions'[s].balance = subscriptions[s].balance - charge
  BY <1>1, <1>2 DEF ReleaseReservation, SubscriptionType
<1>4. PICK pay : pay = networkCost + MulBps(charge - networkCost, share)
  OBVIOUS
<1>5. /\ operatorCredits' = [operatorCredits EXCEPT ![payee] = @ + pay]
      /\ treasuryCredits' = treasuryCredits + (charge - pay) /\ ethBalance' = ethBalance
  BY <1>4 DEF CreditCharge
<1>6. /\ operatorCredits \in [Operators -> Nat] /\ operatorCredits[payee] \in Nat
      /\ treasuryCredits \in Nat /\ ethBalance \in Int
  BY DEF BaseTypeOK
<1>7. pay \in Int
  <2>1. MulBps(charge - networkCost, share) \in Int
    BY ProductNat, BaseAssumption DEF MulBps
  <2> QED BY <1>4, <2>1
<1>8. /\ \A x \in Operators \ {payee} : operatorCredits'[x] = operatorCredits[x]
      /\ operatorCredits'[payee] = operatorCredits[payee] + pay
  BY <1>5, <1>6
<1>9. /\ subscriptions'[s].balance - subscriptions[s].balance = -charge
      /\ operatorCredits'[payee] - operatorCredits[payee] = pay
  BY <1>2, <1>3, <1>6, <1>7, <1>8
<1>10. BalancesMove(-charge) /\ CreditsMove(pay)
  BY <1>3, <1>8, <1>9, OneBalance, OneCredit
<1>11. ethBalance' = ethBalance + (-charge) + pay + (treasuryCredits' - treasuryCredits)
  BY <1>5, <1>6, <1>7
<1>12. -charge \in Int
  OBVIOUS
<1> QED BY <1>7, <1>10, <1>11, <1>12, SolventMove

\* Payments in and out of a subscription.
LEMMA PaymentSolvent ==
    ASSUME BaseTypeOK, BaseTypeOK', SolventInv, NEW s \in Subs, NEW caller \in Accounts,
           \/ \E amount \in FundAmounts : FundSubscription(s, amount)
           \/ \E amount \in WithdrawAmounts : WithdrawSubscription(s, caller, amount)
           \/ CancelSubscription(s, caller)
    PROVE  SolventInv'
<1>1. /\ subscriptions \in [Subs -> SubscriptionType] /\ subscriptions[s].balance \in Nat
      /\ ethBalance \in Int /\ treasuryCredits \in Nat
  BY DEF BaseTypeOK, SubscriptionType
<1>2. OnlySubscriptionsChange
  BY DEF FundSubscription, WithdrawSubscription, CancelSubscription
<1>3. UNCHANGED <<operatorCredits, treasuryCredits>>
  BY <1>2 DEF OnlySubscriptionsChange
<1>4. /\ \A x \in Subs \ {s} : subscriptions'[x].balance = subscriptions[x].balance
      /\ \E d \in Int : /\ subscriptions'[s].balance = subscriptions[s].balance + d
                        /\ ethBalance' = ethBalance + d
  <2>1. ASSUME NEW amount \in FundAmounts, FundSubscription(s, amount)
        PROVE  /\ \A x \in Subs \ {s} : subscriptions'[x].balance = subscriptions[x].balance
               /\ amount \in Int
               /\ subscriptions'[s].balance = subscriptions[s].balance + amount
               /\ ethBalance' = ethBalance + amount
    BY <1>1, <2>1, BaseAssumption DEF FundSubscription, SubscriptionType
  <2>2. ASSUME NEW amount \in WithdrawAmounts, WithdrawSubscription(s, caller, amount)
        PROVE  /\ \A x \in Subs \ {s} : subscriptions'[x].balance = subscriptions[x].balance
               /\ -amount \in Int
               /\ subscriptions'[s].balance = subscriptions[s].balance + (-amount)
               /\ ethBalance' = ethBalance + (-amount)
    <3>1. amount \in Nat
      BY BaseAssumption
    <3>2. /\ \A x \in Subs \ {s} : subscriptions'[x].balance = subscriptions[x].balance
          /\ subscriptions'[s].balance = subscriptions[s].balance - amount
          /\ ethBalance' = ethBalance - amount
      BY <1>1, <2>2 DEF WithdrawSubscription, SubscriptionType
    <3> QED BY <1>1, <3>1, <3>2
  <2>3. ASSUME CancelSubscription(s, caller)
        PROVE  /\ \A x \in Subs \ {s} : subscriptions'[x].balance = subscriptions[x].balance
               /\ -subscriptions[s].balance \in Int
               /\ subscriptions'[s].balance = subscriptions[s].balance + (-subscriptions[s].balance)
               /\ ethBalance' = ethBalance + (-subscriptions[s].balance)
    <3>1. /\ \A x \in Subs \ {s} : subscriptions'[x].balance = subscriptions[x].balance
          /\ subscriptions'[s].balance = 0
          /\ ethBalance' = ethBalance - subscriptions[s].balance
      BY <1>1, <2>3 DEF CancelSubscription, SubscriptionType
    <3> QED BY <1>1, <3>1
  <2> QED BY <2>1, <2>2, <2>3
<1>5. PICK d \in Int : /\ subscriptions'[s].balance = subscriptions[s].balance + d
                       /\ ethBalance' = ethBalance + d
  BY <1>4
<1>6. BalancesMove(subscriptions'[s].balance - subscriptions[s].balance) /\ CreditsMove(0)
  BY <1>3, <1>4, OneBalance, SameCredits
<1>7. subscriptions'[s].balance - subscriptions[s].balance = d
  BY <1>1, <1>5
<1>8. BalancesMove(d)
  BY <1>6, <1>7
<1>9. ethBalance' = ethBalance + d + 0 + (treasuryCredits' - treasuryCredits)
  BY <1>1, <1>3, <1>5
<1> QED BY <1>6, <1>8, <1>9, SolventMove

\* Credits are paid out.
LEMMA PayoutSolvent ==
    ASSUME BaseTypeOK, BaseTypeOK', SolventInv, NEW amount \in WithdrawAmounts,
           WithdrawTreasuryCredits(amount) \/ \E payee \in Operators : WithdrawOperatorCredits(payee, amount)
    PROVE  SolventInv'
<1>1. /\ amount \in Nat /\ ethBalance \in Int /\ treasuryCredits \in Nat
      /\ operatorCredits \in [Operators -> Nat]
  BY BaseAssumption DEF BaseTypeOK
<1>2. UNCHANGED subscriptions
  BY DEF WithdrawTreasuryCredits, WithdrawOperatorCredits, subVars
<1>3. BalancesMove(0)
  BY <1>2, SameBalances
<1>4. CASE WithdrawTreasuryCredits(amount)
  <2>1. /\ operatorCredits' = operatorCredits /\ treasuryCredits' = treasuryCredits - amount
        /\ ethBalance' = ethBalance - amount
    BY <1>4 DEF WithdrawTreasuryCredits
  <2>2. ethBalance' = ethBalance + 0 + 0 + (treasuryCredits' - treasuryCredits)
    BY <1>1, <2>1
  <2> QED BY <1>3, <2>1, <2>2, SameCredits, SolventMove
<1>5. ASSUME NEW payee \in Operators, WithdrawOperatorCredits(payee, amount)
      PROVE  SolventInv'
  <2>1. /\ \A x \in Operators \ {payee} : operatorCredits'[x] = operatorCredits[x]
        /\ operatorCredits'[payee] = operatorCredits[payee] - amount
        /\ treasuryCredits' = treasuryCredits /\ ethBalance' = ethBalance - amount
        /\ operatorCredits[payee] \in Nat
    BY <1>1, <1>5 DEF WithdrawOperatorCredits
  <2>2. operatorCredits'[payee] - operatorCredits[payee] = -amount
    BY <1>1, <2>1
  <2>3. CreditsMove(-amount)
    BY <2>1, <2>2, OneCredit
  <2>4. -amount \in Int /\ ethBalance' = ethBalance + 0 + (-amount) + (treasuryCredits' - treasuryCredits)
    BY <1>1, <2>1
  <2> QED BY <1>3, <2>3, <2>4, SolventMove
<1> QED BY <1>4, <1>5

\* Every step of the base contract conserves ether.
LEMMA BaseSolvent ==
    ASSUME BaseTypeOK, BaseTypeOK', UnusedEmpty, SolventInv, BaseNext
    PROVE  SolventInv'
<1>0. CASE UNCHANGED <<subscriptions, creditVars>>
  BY <1>0, SolventSame
<1>1. CASE AdminNext
  <2>1. ASSUME NEW amount \in WithdrawAmounts, WithdrawTreasuryCredits(amount) PROVE SolventInv'
    BY <2>1, PayoutSolvent
  <2> QED BY <1>0, <1>1, <2>1 DEF AdminNext, SetPricing, SetGuardian, PauseRequests,
         UnpauseRequests, PausedChanges, RegisterKey, SetKeyService, SetKeyActive,
         SetSubscriptionPremiumOverride, SetSponsorPolicy, RemoveSponsorPolicy, subVars, sponsorVars
<1>2. CASE SubscriptionNext
  <2>1. ASSUME NEW caller \in Accounts, CreateSubscription(caller)
        PROVE  SolventInv'
    <3>1. subscriptions \in [Subs -> SubscriptionType] /\ nextSubscriptionId \in Subs
      BY <2>1, BaseAssumption DEF BaseTypeOK, CreateSubscription, Subs
    <3>2. PICK n \in Subs : n = nextSubscriptionId
      BY <3>1
    <3>3. subscriptions[n] = NoSubscription
      BY <3>1, <3>2, BaseAssumption DEF UnusedEmpty, Subs
    <3>4. /\ \A x \in Subs \ {n} : subscriptions'[x] = subscriptions[x]
          /\ subscriptions'[n].balance = 0 /\ UNCHANGED creditVars
      BY <2>1, <3>1, <3>2 DEF CreateSubscription, NoSubscription
    <3>5. \A x \in Subs : subscriptions'[x].balance = subscriptions[x].balance
      BY <3>3, <3>4 DEF NoSubscription
    <3> QED BY <3>4, <3>5, SolventSame
  <2>2. ASSUME NEW s \in Subs, NEW caller \in Accounts,
               \/ \E a \in NewOwners : RequestSubscriptionOwnerTransfer(s, caller, a)
               \/ AcceptSubscriptionOwnerTransfer(s, caller)
               \/ \E c \in Consumers :
                     \/ \E l \in ConsumerLimits : AddConsumer(s, caller, c, l) \/ UpdateConsumer(s, caller, c, l)
                     \/ RemoveConsumer(s, caller, c)
        PROVE  SolventInv'
    <3>1. subscriptions \in [Subs -> SubscriptionType]
      BY DEF BaseTypeOK
    <3>2. CASE \/ \E a \in NewOwners : RequestSubscriptionOwnerTransfer(s, caller, a)
               \/ AcceptSubscriptionOwnerTransfer(s, caller)
      <4>1. UNCHANGED creditVars
        BY <3>2 DEF RequestSubscriptionOwnerTransfer, AcceptSubscriptionOwnerTransfer,
           OnlySubscriptionsChange, creditVars
      <4>2. \A x \in Subs : subscriptions'[x].balance = subscriptions[x].balance
        BY <3>1, <3>2 DEF RequestSubscriptionOwnerTransfer, AcceptSubscriptionOwnerTransfer,
           SubscriptionType
      <4> QED BY <4>1, <4>2, SolventSame
    <3>3. ASSUME NEW c \in Consumers,
                 \/ \E l \in ConsumerLimits : AddConsumer(s, caller, c, l) \/ UpdateConsumer(s, caller, c, l)
                 \/ RemoveConsumer(s, caller, c)
          PROVE  SolventInv'
      <4>1. UNCHANGED creditVars
        BY <3>3 DEF AddConsumer, UpdateConsumer, RemoveConsumer, OnlyConsumersChange
      <4>2. subscriptions[s] \in SubscriptionType
        BY <3>1
      <4>3. /\ \A x \in Subs \ {s} : subscriptions'[x] = subscriptions[x]
            /\ subscriptions'[s].balance = subscriptions[s].balance
        <5>1. CASE \E l \in ConsumerLimits : AddConsumer(s, caller, c, l)
          BY <3>1, <4>2, <5>1 DEF AddConsumer, SubscriptionType
        <5>2. CASE \E l \in ConsumerLimits : UpdateConsumer(s, caller, c, l)
          BY <3>1, <4>2, <5>2 DEF UpdateConsumer
        <5>3. CASE RemoveConsumer(s, caller, c)
          BY <3>1, <4>2, <5>3 DEF RemoveConsumer, SubscriptionType
        <5> QED BY <3>3, <5>1, <5>2, <5>3
      <4> QED BY <4>1, <4>3, SolventSame
    <3> QED BY <2>2, <3>2, <3>3
  <2> QED BY <1>2, <2>1, <2>2, PaymentSolvent DEF SubscriptionNext
<1>3. CASE MineBlock \/ AdvanceTime \/ \E b \in StoreBlocks : StoreBlockhash(b)
  BY <1>0, <1>3 DEF MineBlock, AdvanceTime, StoreBlockhash, subVars
<1> QED BY <1>1, <1>2, <1>3, PayoutSolvent DEF BaseNext

\* Taking a reservation, or giving it up without a charge, moves no ether.
LEMMA ReserveSolvent ==
    ASSUME BaseTypeOK, BaseTypeOK', SolventInv,
           \/ \E c \in Consumers : \E b, reserve : TakeReservation(c, b, reserve)
           \/ /\ \E i \in RequestIds : \E reserve, sponsored : ReleaseReservation(i, reserve, sponsored, 0)
              /\ UNCHANGED creditVars
    PROVE  SolventInv'
<1>1. subscriptions \in [Subs -> SubscriptionType]
  BY DEF BaseTypeOK
<1>2. ASSUME NEW c \in Consumers, NEW b, NEW reserve, TakeReservation(c, b, reserve)
      PROVE  SolventInv'
  <2>1. \A x \in Subs : subscriptions'[x].balance = subscriptions[x].balance
    BY <1>1, <1>2 DEF TakeReservation, SubscriptionType
  <2> QED BY <1>2, <2>1, SolventSame DEF TakeReservation
<1>3. ASSUME NEW i \in RequestIds, NEW reserve, NEW sponsored, UNCHANGED creditVars,
             ReleaseReservation(i, reserve, sponsored, 0)
      PROVE  SolventInv'
  <2>1. \A x \in Subs : subscriptions'[x].balance = subscriptions[x].balance
    BY <1>1, <1>3 DEF ReleaseReservation, SubscriptionType
  <2> QED BY <1>3, <2>1, SolventSame
<1> QED BY <1>2, <1>3

LEMMA SolventInit == BaseInit => SolventInv
<1> SUFFICES ASSUME BaseInit PROVE SolventInv
  OBVIOUS
<1>1. \A z : z \notin Wei(balances, Subs) /\ z \notin Wei(operatorCredits, Operators)
  BY DEF Wei, balances, BaseInit, NoSubscription
<1>2. Wei(balances, Subs) = {} /\ Wei(operatorCredits, Operators) = {}
  BY <1>1
<1>3. ethBalance = 0 /\ treasuryCredits = 0
  BY DEF BaseInit
<1> QED BY <1>2, <1>3, OwedWei, FS_EmptySet DEF SolventInv, Solvent
=============================================================================
