------------------------------ MODULE V2Proofs ------------------------------
(***************************************************************************)
(* Theorems about VRFServiceCoordinatorV2, for every value of the          *)
(* constants, in four layers.                                              *)
(*                                                                         *)
(* V2Inv: types, versions and pinned terms.  The types of a settlement     *)
(* need a validated price and a key service that exists, which             *)
(* VersionsInSync gives; the pinned terms are those of versions that never *)
(* change once they are appended.                                          *)
(*                                                                         *)
(* HistoryInv adds what each request has behind it: identifiers are spent  *)
(* once, results and charges come once.  From it follow ChargedOnce, the   *)
(* refinement of the life cycle and ReadyWhenConfirmed.                    *)
(*                                                                         *)
(* BooksInv adds that reservations and counters are exact (the Ledger of   *)
(* BaseProofs over the requests that hold a reservation).                  *)
(*                                                                         *)
(* SolventInv: the ether of the contract is what it owes.                  *)
(***************************************************************************)
EXTENDS VRFServiceCoordinatorV2, BaseProofs

V2Inv == TypeOK /\ VersionsInSync /\ PinnedTerms

\* A stored request pins a valid price and the service of an existing key.
LEMMA PinnedTypes ==
    ASSUME TypeOK, VersionsInSync, NEW i \in RequestIds, requests[i].status # "none"
    PROVE  /\ PriceOf(i) \in PricingConfig /\ ValidatePricing(PriceOf(i))
           /\ ServiceOf(i) \in KeyServices /\ ServiceOf(i) \in KeyService
           /\ ReservedPayment(i) \in Nat
           /\ ExpiresAtBlock(i) \in Nat
           /\ Sponsored(i) \in BOOLEAN
<1>1. /\ requests[i].pricingVersion \in 1..Len(pricingVersions)
      /\ requests[i].keyVersion \in 1..Len(keyVersions)
  BY DEF VersionsInSync
<1>2. pricingVersions \in Seq(PricingConfigs)
      /\ keyVersions \in Seq([keyHash : Keys, service : KeyServices])
  BY DEF TypeOK, BaseTypeOK
<1>3. PricingConfigs \subseteq PricingConfig /\ KeyServices \subseteq KeyService
  BY BaseAssumption
<1>4. PriceOf(i) \in PricingConfig
  BY <1>1, <1>2, <1>3, SeqElement DEF PriceOf
<1>5. ValidatePricing(PriceOf(i))
  BY <1>1 DEF VersionsInSync, VersionsCurrent, PriceOf
<1>6. keyVersions[requests[i].keyVersion] \in [keyHash : Keys, service : KeyServices]
  BY <1>1, <1>2, SeqElement
<1>7. ServiceOf(i) \in KeyServices
  BY <1>6 DEF ServiceOf
<1>8. requests[i] \in RequestType
  BY DEF TypeOK
<1>9. /\ requests[i].billing.premiumBps \in Nat /\ Sponsored(i) \in BOOLEAN
      /\ requests[i].params \in [callbackGasLimit : Nat, numWords : Nat, confirmations : Nat]
      /\ requests[i].requestBlock \in Nat
  BY <1>8 DEF RequestType, Sponsored
<1>10. ReservedPayment(i) \in Nat
  BY <1>3, <1>4, <1>7, <1>9, QuoteNat DEF ReservedPayment
<1>11. ExpiresAtBlock(i) \in Nat
  BY <1>4, <1>9 DEF ExpiresAtBlock, PricingConfig
<1>12. QED
  BY <1>3, <1>4, <1>5, <1>7, <1>9, <1>10, <1>11

\* The constructor establishes the invariant.
LEMMA V2InitInv == V2Init => V2Inv
<1> SUFFICES ASSUME V2Init PROVE V2Inv
  OBVIOUS
<1>1. BaseTypeOK /\ VersionsCurrent
  BY BaseInitTypes DEF V2Init
<1>2. TypeOK
  <2>1. requests \in [RequestIds -> RequestType]
    BY DEF V2Init, NoRequest, RequestType
  <2>2. terms \in [RequestIds -> TermsType] /\ charged \in [RequestIds -> Nat]
    BY DEF V2Init, NoTerms, TermsType
  <2>3. frame \in FrameType \cup {Idle}
    BY DEF V2Init, BaseInit
  <2>4. QED
    BY <1>1, <2>1, <2>2, <2>3 DEF TypeOK
<1>4. \A i \in RequestIds : requests[i].status = "none"
  BY DEF V2Init, NoRequest
<1>5. frame.kind = "idle"
  BY DEF V2Init, BaseInit, Idle
<1>6. QED
  BY <1>1, <1>2, <1>4, <1>5 DEF V2Inv, VersionsInSync, PinnedTerms
-----------------------------------------------------------------------------
(* Pinned terms *)

\* The version lists keep every entry.
Extends == /\ Len(pricingVersions) <= Len(pricingVersions')
           /\ \A v \in 1..Len(pricingVersions) : pricingVersions'[v] = pricingVersions[v]
           /\ Len(keyVersions) <= Len(keyVersions')
           /\ \A v \in 1..Len(keyVersions) : keyVersions'[v] = keyVersions[v]

\* The step leaves alone what request i pins.
SamePins(i) == /\ requests'[i].pricingVersion = requests[i].pricingVersion
               /\ requests'[i].keyVersion = requests[i].keyVersion
               /\ requests'[i].params = requests[i].params
               /\ requests'[i].billing = requests[i].billing
               /\ requests'[i].requestBlock = requests[i].requestBlock

\* If versions are only appended, what is recomputed for a request does not move.
LEMMA PinsDetermine ==
    ASSUME TypeOK, VersionsInSync, Extends, NEW i \in RequestIds,
           requests[i].status # "none", SamePins(i)
    PROVE  /\ requests'[i].pricingVersion \in 1..Len(pricingVersions')
           /\ requests'[i].keyVersion \in 1..Len(keyVersions')
           /\ ReservedPayment(i)' = ReservedPayment(i)
           /\ ExpiresAtBlock(i)' = ExpiresAtBlock(i)
           /\ ServiceOf(i)' = ServiceOf(i)
<1>1. /\ requests[i].pricingVersion \in 1..Len(pricingVersions)
      /\ requests[i].keyVersion \in 1..Len(keyVersions)
  BY DEF VersionsInSync
<1>2. pricingVersions \in Seq(PricingConfigs)
      /\ keyVersions \in Seq([keyHash : Keys, service : KeyServices])
  BY DEF TypeOK, BaseTypeOK
<1>3. PriceOf(i)' = PriceOf(i) /\ ServiceOf(i)' = ServiceOf(i)
  BY <1>1, <1>2 DEF PriceOf, ServiceOf, SamePins, Extends
<1>4. requests'[i].pricingVersion \in 1..Len(pricingVersions')
      /\ requests'[i].keyVersion \in 1..Len(keyVersions')
  BY <1>1, <1>2 DEF SamePins, Extends
<1>5. QED
  BY <1>3, <1>4 DEF ReservedPayment, ExpiresAtBlock, QuotePayment, ApplyPrice, MulBps,
     SamePins

\* A step that makes no request and changes no pin keeps the terms.
LEMMA TermsKept ==
    ASSUME V2Inv, Extends, UNCHANGED terms,
           \A i \in RequestIds : requests'[i].status # "none" =>
               requests[i].status # "none" /\ SamePins(i)
    PROVE  /\ PinnedTerms'
           /\ \A i \in RequestIds : requests'[i].status # "none" =>
                  /\ requests'[i].pricingVersion \in 1..Len(pricingVersions')
                  /\ requests'[i].keyVersion \in 1..Len(keyVersions')
<1>1. ASSUME NEW i \in RequestIds, requests'[i].status # "none"
      PROVE  /\ requests'[i].pricingVersion \in 1..Len(pricingVersions')
             /\ requests'[i].keyVersion \in 1..Len(keyVersions')
             /\ terms'[i].issued
             /\ ReservedPayment(i)' = terms'[i].reserve
             /\ ExpiresAtBlock(i)' = terms'[i].expiresAt
             /\ ServiceOf(i)' = terms'[i].service
  <2>1. requests[i].status # "none" /\ SamePins(i)
    BY <1>1
  <2>2. /\ terms[i].issued /\ ReservedPayment(i) = terms[i].reserve
        /\ ExpiresAtBlock(i) = terms[i].expiresAt /\ ServiceOf(i) = terms[i].service
    BY <2>1 DEF V2Inv, PinnedTerms
  <2>3. QED
    BY <2>1, <2>2, PinsDetermine DEF V2Inv
<1>2. QED
  BY <1>1 DEF PinnedTerms
-----------------------------------------------------------------------------
(* The invariant is inductive: one lemma for each kind of step *)

\* Steps of the base contract.
LEMMA BaseStepInv == ASSUME V2Inv, BaseNext, UNCHANGED reqVars PROVE V2Inv'
<1>1. BaseTypeOK /\ VersionsCurrent
  BY DEF V2Inv, TypeOK, VersionsInSync
<1>2. frame' = frame
  BY WhoChangesVersions
<1>3. Extends
  BY <1>1, VersionsGrow DEF Extends
<1>4. requests' = requests /\ terms' = terms /\ charged' = charged
  BY DEF reqVars
<1>5. TypeOK'
  BY <1>1, <1>2, <1>4, BaseStepTypes DEF V2Inv, TypeOK
<1>6. VersionsCurrent'
  BY <1>1, VersionsStayCurrent
<1>7. \A i \in RequestIds : requests'[i].status # "none" =>
          requests[i].status # "none" /\ SamePins(i)
  BY <1>4 DEF SamePins
<1>8. QED
  BY <1>2, <1>3, <1>4, <1>5, <1>6, <1>7, TermsKept DEF V2Inv, VersionsInSync

\* A step of the request functions leaves the versions alone.
LEMMA SameVersions ==
    ASSUME V2Inv, UNCHANGED adminVars
    PROVE  Extends /\ VersionsCurrent'
<1>1. UNCHANGED <<pricing, pricingVersions, keys, keyVersions, currentKeyVersions>>
  BY DEF adminVars, priceVars, keyVars
<1>2. VersionsCurrent
  BY DEF V2Inv, VersionsInSync
<1>3. VersionsCurrent'
  BY <1>1, <1>2 DEF VersionsCurrent, ValidatePricing
<1>4. pricingVersions \in Seq(PricingConfigs)
      /\ keyVersions \in Seq([keyHash : Keys, service : KeyServices])
  BY DEF V2Inv, TypeOK, BaseTypeOK
<1>5. QED
  BY <1>1, <1>3, <1>4 DEF Extends

\* Making a request.
LEMMA RequestInv ==
    ASSUME V2Inv, NEW c \in Consumers, NEW supplied \in {0} \cup Subs, NEW k \in Keys,
           NEW p \in RequestParams, NEW maxPayment,
           RequestRandomWords(c, supplied, k, p, maxPayment)
    PROVE  V2Inv'
<1> DEFINE b == ResolveBilling(c, supplied)
           s == b.subscriptionId
           reserve == QuoteMaxPayment(k, p, b)
           id == NextRequestId(c, s, k)
           new == [status |-> "pending", requestBlock |-> blockNumber,
                   pricingVersion |-> Len(pricingVersions),
                   keyVersion |-> currentKeyVersions[k], params |-> p,
                   billing |-> [premiumBps |-> b.premiumBps, sponsored |-> b.sponsored,
                                waiveMinimumFee |-> b.waiveMinimumFee],
                   randomness |-> NoOutput, callbackAttempts |-> 0,
                   callbackSucceeded |-> FALSE]
           agreed == [issued |-> TRUE, reserve |-> reserve,
                      expiresAt |-> blockNumber + pricing.requestTimeoutBlocks,
                      service |-> keys[k].service]
<1>1. BaseTypeOK /\ VersionsCurrent
  BY DEF V2Inv, TypeOK, VersionsInSync
<1>2. RequestAllowed(c, supplied, k, p, maxPayment) /\ TakeReservation(c, b, reserve)
  BY DEF RequestRandomWords
<1>3. /\ requests' = [requests EXCEPT ![id] = new]
      /\ terms' = [terms EXCEPT ![id] = agreed] /\ charged' = charged
  BY DEF RequestRandomWords
<1>4. /\ s \in Subs /\ b.premiumBps \in Nat
      /\ b.sponsored \in BOOLEAN /\ b.waiveMinimumFee \in BOOLEAN
      /\ keys[k].exists /\ keys[k].service \in KeyServices
      /\ reserve \in Nat /\ id \in RequestIds
      /\ consumerNonces[<<s, c>>] + 1 \in 0..MaxNonce
  BY <1>1, <1>2, AcceptedRequest
<1>5. UNCHANGED <<adminVars, frame>>
  BY <1>2 DEF TakeReservation
<1>6. /\ requests \in [RequestIds -> RequestType] /\ terms \in [RequestIds -> TermsType]
      /\ charged \in [RequestIds -> Nat] /\ frame \in FrameType \cup {Idle}
  BY DEF V2Inv, TypeOK
<1>7. /\ blockNumber \in Nat /\ pricing \in PricingConfig /\ pricing.requestTimeoutBlocks \in Nat
      /\ p \in [callbackGasLimit : Nat, numWords : Nat, confirmations : Nat]
      /\ currentKeyVersions[k] \in Nat /\ Len(pricingVersions) \in Nat
  <2>1. blockNumber \in Nat
    BY <1>1, BlockhashAssumption DEF BaseTypeOK, ChainTypeOK, Blocks
  <2>2. pricing \in PricingConfig
        /\ p \in [callbackGasLimit : Nat, numWords : Nat, confirmations : Nat]
    BY <1>1, BaseAssumption DEF BaseTypeOK
  <2>3. currentKeyVersions[k] \in Nat /\ Len(pricingVersions) \in Nat
    BY <1>1 DEF BaseTypeOK
  <2>4. QED
    BY <2>1, <2>2, <2>3 DEF PricingConfig
<1>8. PICK n \in RequestIds : n = id
  BY <1>4
<1> HIDE DEF b, s, reserve, id, new, agreed
<1>9. new \in RequestType
  BY <1>4, <1>7 DEF RequestType, new
<1>10. agreed \in TermsType
  BY <1>4, <1>7 DEF TermsType, agreed
<1>11. BaseTypeOK'
  BY <1>1, <1>2, <1>4, TakeReservationTypes DEF s
<1>12. TypeOK'
  BY <1>3, <1>5, <1>6, <1>9, <1>10, <1>11 DEF TypeOK
<1>13. Extends /\ VersionsCurrent'
  BY <1>5, SameVersions
<1>14. UNCHANGED <<pricing, pricingVersions, keys, keyVersions, currentKeyVersions>>
  BY <1>5 DEF adminVars, priceVars, keyVars
<1>15. requests'[n] = new /\ terms'[n] = agreed
  BY <1>3, <1>6, <1>8
<1>16. /\ requests'[n].pricingVersion \in 1..Len(pricingVersions')
       /\ requests'[n].keyVersion \in 1..Len(keyVersions')
       /\ PriceOf(n)' = pricing /\ ServiceOf(n)' = keys[k].service
  <2>1. new.pricingVersion = Len(pricingVersions) /\ new.keyVersion = currentKeyVersions[k]
    BY DEF new
  <2>2. Len(pricingVersions) # 0 /\ pricingVersions[Len(pricingVersions)] = pricing
    BY <1>1 DEF VersionsCurrent
  <2>3. /\ currentKeyVersions[k] \in 1..Len(keyVersions)
        /\ keyVersions[currentKeyVersions[k]] = KeyVersion(k, keys[k].service)
    BY <1>1, <1>4 DEF VersionsCurrent
  <2>4. QED
    BY <1>7, <1>14, <1>15, <2>1, <2>2, <2>3 DEF PriceOf, ServiceOf, KeyVersion
<1>17. /\ ReservedPayment(n)' = agreed.reserve
       /\ ExpiresAtBlock(n)' = agreed.expiresAt
       /\ ServiceOf(n)' = agreed.service /\ agreed.issued
  <2>1. /\ new.params = p /\ new.requestBlock = blockNumber
        /\ new.billing.premiumBps = b.premiumBps
        /\ new.billing.waiveMinimumFee = b.waiveMinimumFee
    BY DEF new
  <2>2. reserve = QuotePayment(keys[k].service, p, b, pricing)
    BY DEF reserve, QuoteMaxPayment
  <2>3. ReservedPayment(n)' = reserve
    BY <1>15, <1>16, <2>1, <2>2 DEF ReservedPayment, QuotePayment, ApplyPrice, MulBps
  <2>4. QED
    BY <1>15, <1>16, <2>1, <2>3 DEF ExpiresAtBlock, agreed
<1>18. ASSUME NEW i \in RequestIds, requests'[i].status # "none"
       PROVE  /\ requests'[i].pricingVersion \in 1..Len(pricingVersions')
              /\ requests'[i].keyVersion \in 1..Len(keyVersions')
              /\ terms'[i].issued
              /\ ReservedPayment(i)' = terms'[i].reserve
              /\ ExpiresAtBlock(i)' = terms'[i].expiresAt
              /\ ServiceOf(i)' = terms'[i].service
  <2>1. CASE i = n
    BY <1>15, <1>16, <1>17, <2>1
  <2>2. CASE i # n
    <3>1. requests'[i] = requests[i] /\ terms'[i] = terms[i]
      BY <1>3, <1>6, <1>8, <2>2
    <3>2. requests[i].status # "none" /\ SamePins(i)
      BY <1>18, <3>1 DEF SamePins
    <3>3. /\ terms[i].issued /\ ReservedPayment(i) = terms[i].reserve
          /\ ExpiresAtBlock(i) = terms[i].expiresAt /\ ServiceOf(i) = terms[i].service
      BY <3>2 DEF V2Inv, PinnedTerms
    <3>4. QED
      BY <1>13, <3>1, <3>2, <3>3, PinsDetermine DEF V2Inv
  <2>3. QED
    BY <2>1, <2>2
<1>19. (frame.kind # "idle" => requests[frame.arg].status = "fulfilled")'
  <2>1. frame' = frame
    BY <1>5
  <2>2. frame.kind = "idle"
    BY <1>2 DEF RequestAllowed, Unlocked
  <2>3. QED
    BY <2>1, <2>2
<1>20. QED
  BY <1>12, <1>13, <1>18, <1>19 DEF V2Inv, VersionsInSync, PinnedTerms

\* A step that writes the stage, result or callback fields of one stored request.
LEMMA ProgressInv ==
    ASSUME V2Inv, NEW i \in RequestIds, requests[i].status # "none",
           UNCHANGED <<adminVars, terms>>, BaseTypeOK', charged' \in [RequestIds -> Nat],
           NEW r \in RequestType, requests' = [requests EXCEPT ![i] = r],
           /\ r.pricingVersion = requests[i].pricingVersion
           /\ r.keyVersion = requests[i].keyVersion
           /\ r.params = requests[i].params /\ r.billing = requests[i].billing
           /\ r.requestBlock = requests[i].requestBlock,
           frame' \in FrameType \cup {Idle},
           frame'.kind # "idle" => frame'.arg = i /\ r.status = "fulfilled"
    PROVE  V2Inv'
<1>1. /\ requests \in [RequestIds -> RequestType] /\ terms \in [RequestIds -> TermsType]
  BY DEF V2Inv, TypeOK
<1>2. Extends /\ VersionsCurrent'
  BY SameVersions
<1>3. \A j \in RequestIds : requests'[j].status # "none" =>
          requests[j].status # "none" /\ SamePins(j)
  BY <1>1 DEF SamePins
<1>4. TypeOK'
  BY <1>1 DEF TypeOK
<1>5. (frame.kind # "idle" => requests[frame.arg].status = "fulfilled")'
  BY <1>1
<1>6. QED
  BY <1>2, <1>3, <1>4, <1>5, TermsKept DEF V2Inv, VersionsInSync

\* A callback is opened.
LEMMA FulfillInv ==
    ASSUME V2Inv, NEW i \in RequestIds, NEW caller \in Operators, NEW gasPrice \in GasPrices,
           NEW randomness \in Outputs, NEW success \in BOOLEAN,
           FulfillRandomWords(i, caller, gasPrice, randomness, success)
    PROVE  V2Inv'
<1> DEFINE r == [requests[i] EXCEPT !.status = "fulfilled", !.randomness = randomness,
                                    !.callbackAttempts = @ + 1]
<1>1. requests \in [RequestIds -> RequestType] /\ requests[i] \in RequestType
  BY DEF V2Inv, TypeOK
<1>2. requests' = [requests EXCEPT ![i] = r]
  BY <1>1 DEF FulfillRandomWords
<1>3. r \in RequestType
  <2>1. ASSUME NEW q \in RequestType PROVE [q EXCEPT !.status = "fulfilled"] \in RequestType
    BY DEF RequestType
  <2>2. ASSUME NEW q \in RequestType PROVE [q EXCEPT !.randomness = randomness] \in RequestType
    BY DEF RequestType
  <2>3. ASSUME NEW q \in RequestType PROVE [q EXCEPT !.callbackAttempts = @ + 1] \in RequestType
    BY DEF RequestType
  <2> DEFINE q1 == [requests[i] EXCEPT !.status = "fulfilled"]
             q2 == [q1 EXCEPT !.randomness = randomness]
  <2>4. q1 \in RequestType
    BY <1>1, <2>1
  <2>5. q2 \in RequestType
    <3> HIDE DEF q1
    <3> QED BY <2>2, <2>4
  <2>6. [q2 EXCEPT !.callbackAttempts = @ + 1] \in RequestType
    <3> HIDE DEF q2
    <3> QED BY <2>3, <2>5
  <2>7. QED
    BY <2>6
<1>4. /\ r.pricingVersion = requests[i].pricingVersion
      /\ r.keyVersion = requests[i].keyVersion
      /\ r.params = requests[i].params /\ r.billing = requests[i].billing
      /\ r.requestBlock = requests[i].requestBlock /\ r.status = "fulfilled"
  BY <1>1 DEF RequestType
<1>5. gasPrice \in Nat
  BY BaseAssumption
<1>6. /\ frame' = [kind |-> "fulfill", arg |-> i, success |-> success, gasPrice |-> gasPrice]
      /\ frame' \in FrameType
  BY <1>5 DEF FulfillRandomWords, FrameType
<1>7. /\ UNCHANGED <<clockVars, adminVars, subVars, creditVars, terms, charged>>
      /\ requests[i].status # "none"
  BY DEF FulfillRandomWords
<1>8. BaseTypeOK' /\ charged' \in [RequestIds -> Nat]
  BY <1>7 DEF V2Inv, TypeOK, BaseTypeOK, ChainTypeOK, clockVars, chainVars, adminVars,
     priceVars, keyVars, subVars, sponsorVars, creditVars
<1> HIDE DEF r
<1>9. QED
  BY <1>2, <1>3, <1>4, <1>6, <1>7, <1>8, ProgressInv

\* A retry is opened.
LEMMA RetryInv ==
    ASSUME V2Inv, NEW i \in RequestIds, NEW success \in BOOLEAN, RetryCallback(i, success)
    PROVE  V2Inv'
<1> DEFINE r == [requests[i] EXCEPT !.callbackAttempts = @ + 1]
<1>1. requests \in [RequestIds -> RequestType] /\ requests[i] \in RequestType
  BY DEF V2Inv, TypeOK
<1>2. requests' = [requests EXCEPT ![i] = r] /\ requests[i].status = "fulfilled"
  BY <1>1 DEF RetryCallback
<1>3. r \in RequestType
  BY <1>1 DEF RequestType
<1>4. /\ r.pricingVersion = requests[i].pricingVersion
      /\ r.keyVersion = requests[i].keyVersion
      /\ r.params = requests[i].params /\ r.billing = requests[i].billing
      /\ r.requestBlock = requests[i].requestBlock /\ r.status = "fulfilled"
  BY <1>1, <1>2 DEF RequestType
<1>5. /\ frame' = [kind |-> "retry", arg |-> i, success |-> success, gasPrice |-> 0]
      /\ frame' \in FrameType
  BY DEF RetryCallback, FrameType
<1>6. UNCHANGED <<clockVars, adminVars, subVars, creditVars, terms, charged>>
  BY DEF RetryCallback
<1>7. BaseTypeOK' /\ charged' \in [RequestIds -> Nat]
  BY <1>6 DEF V2Inv, TypeOK, BaseTypeOK, ChainTypeOK, clockVars, chainVars, adminVars,
     priceVars, keyVars, subVars, sponsorVars, creditVars
<1> HIDE DEF r
<1>8. QED
  BY <1>2, <1>3, <1>4, <1>5, <1>6, <1>7, ProgressInv

\* A retry ends.
LEMMA FinishRetryInv == ASSUME V2Inv, FinishRetry PROVE V2Inv'
<1>1. PICK i \in RequestIds : frame.arg = i /\ frame.success \in BOOLEAN
  BY DEF V2Inv, TypeOK, FinishRetry, FrameType, Idle
<1> DEFINE r == [requests[i] EXCEPT !.callbackSucceeded = frame.success]
<1>2. requests \in [RequestIds -> RequestType] /\ requests[i] \in RequestType
  BY DEF V2Inv, TypeOK
<1>3. requests' = [requests EXCEPT ![i] = r] /\ frame' = Idle
  BY <1>1, <1>2 DEF FinishRetry
<1>4. requests[i].status # "none"
  BY <1>1 DEF V2Inv, VersionsInSync, FinishRetry
<1>5. r \in RequestType
  BY <1>1, <1>2 DEF RequestType
<1>6. /\ r.pricingVersion = requests[i].pricingVersion
      /\ r.keyVersion = requests[i].keyVersion
      /\ r.params = requests[i].params /\ r.billing = requests[i].billing
      /\ r.requestBlock = requests[i].requestBlock
  BY <1>2 DEF RequestType
<1>7. UNCHANGED <<clockVars, adminVars, subVars, creditVars, terms, charged>>
  BY DEF FinishRetry
<1>8. BaseTypeOK' /\ charged' \in [RequestIds -> Nat]
  BY <1>7 DEF V2Inv, TypeOK, BaseTypeOK, ChainTypeOK, clockVars, chainVars, adminVars,
     priceVars, keyVars, subVars, sponsorVars, creditVars
<1>9. frame'.kind = "idle" /\ frame' \in FrameType \cup {Idle}
  BY <1>3 DEF Idle
<1> HIDE DEF r
<1>10. QED
  BY <1>3, <1>4, <1>5, <1>6, <1>7, <1>8, <1>9, ProgressInv

\* What the settlement of a fulfilment charges and writes.
LEMMA SettleCharge ==
    ASSUME V2Inv, NEW gasUsed \in GasUses, NEW l1Cost \in L1Costs,
           SettleFulfillment(gasUsed, l1Cost)
    PROVE  \E i \in RequestIds, networkCost \in Nat, charge \in Nat :
               /\ frame.arg = i /\ frame.kind = "fulfill" /\ frame \in FrameType
               /\ requests[i].status = "fulfilled"
               /\ charge >= networkCost /\ charge <= ReservedPayment(i)
               /\ ReleaseReservation(i, ReservedPayment(i), Sponsored(i), charge)
               /\ CreditCharge(ServiceOf(i).payee, networkCost, charge,
                               PriceOf(i).operatorPremiumShareBps)
               /\ requests' = [requests EXCEPT ![i].callbackSucceeded = frame.success]
               /\ charged' = [charged EXCEPT ![i] = @ + charge]
               /\ frame' = Idle /\ terms' = terms
<1>1. frame \in FrameType
  BY DEF V2Inv, TypeOK, SettleFulfillment, Idle
<1>2. PICK i \in RequestIds : frame.arg = i
  BY <1>1 DEF FrameType
<1> DEFINE config == PriceOf(i)
           bill == requests[i].billing
           networkCost == (gasUsed + config.fulfillmentOverheadGas) * frame.gasPrice + l1Cost
           minimum == IF bill.waiveMinimumFee THEN 0 ELSE config.minimumRequestFeeWei
           charge == ApplyPrice(networkCost, bill.premiumBps, minimum)
<1>3. requests[i] \in RequestType /\ requests[i].status = "fulfilled"
  BY <1>2 DEF V2Inv, TypeOK, VersionsInSync, SettleFulfillment
<1>4. config \in PricingConfig
  BY <1>3, PinnedTypes DEF V2Inv
<1>5. /\ frame.kind = "fulfill" /\ charge <= ReservedPayment(i)
      /\ ReleaseReservation(i, ReservedPayment(i), Sponsored(i), charge)
      /\ CreditCharge(ServiceOf(i).payee, networkCost, charge, config.operatorPremiumShareBps)
      /\ requests' = [requests EXCEPT ![i].callbackSucceeded = frame.success]
      /\ charged' = [charged EXCEPT ![i] = @ + charge]
      /\ frame' = Idle /\ terms' = terms
  BY <1>2 DEF SettleFulfillment, ChargeAllowed
<1>6. networkCost \in Nat
  <2>1. gasUsed \in Nat /\ l1Cost \in Nat
    BY BaseAssumption
  <2>2. config.fulfillmentOverheadGas \in Nat /\ frame.gasPrice \in Nat
    BY <1>1, <1>4 DEF PricingConfig, FrameType
  <2> HIDE DEF config
  <2>3. gasUsed + config.fulfillmentOverheadGas \in Nat
    BY <2>1, <2>2
  <2>4. (gasUsed + config.fulfillmentOverheadGas) * frame.gasPrice \in Nat
    BY <2>2, <2>3, ProductNat
  <2>5. QED
    BY <2>1, <2>4
<1>7. bill.premiumBps \in Nat /\ minimum \in Nat
  BY <1>3, <1>4 DEF RequestType, PricingConfig
<1>8. charge \in Nat /\ charge >= networkCost
  <2> HIDE DEF networkCost, minimum, bill
  <2> QED BY <1>6, <1>7, ApplyPriceBound
<1>9. QED
  <2> HIDE DEF networkCost, charge
  <2> QED BY <1>1, <1>2, <1>3, <1>5, <1>6, <1>8

\* A fulfilment is settled.
LEMMA SettleInv ==
    ASSUME V2Inv, NEW gasUsed \in GasUses, NEW l1Cost \in L1Costs,
           SettleFulfillment(gasUsed, l1Cost)
    PROVE  V2Inv'
<1>1. PICK i \in RequestIds, networkCost \in Nat, charge \in Nat :
               /\ frame.arg = i /\ frame.kind = "fulfill" /\ frame \in FrameType
               /\ requests[i].status = "fulfilled"
               /\ charge >= networkCost /\ charge <= ReservedPayment(i)
               /\ ReleaseReservation(i, ReservedPayment(i), Sponsored(i), charge)
               /\ CreditCharge(ServiceOf(i).payee, networkCost, charge,
                               PriceOf(i).operatorPremiumShareBps)
               /\ requests' = [requests EXCEPT ![i].callbackSucceeded = frame.success]
               /\ charged' = [charged EXCEPT ![i] = @ + charge]
               /\ frame' = Idle /\ terms' = terms
  BY SettleCharge
<1> DEFINE r == [requests[i] EXCEPT !.callbackSucceeded = frame.success]
<1>2. requests \in [RequestIds -> RequestType] /\ requests[i] \in RequestType
      /\ charged \in [RequestIds -> Nat]
  BY DEF V2Inv, TypeOK
<1>3. /\ PriceOf(i) \in PricingConfig /\ ValidatePricing(PriceOf(i))
      /\ ServiceOf(i) \in KeyService /\ ReservedPayment(i) \in Nat /\ Sponsored(i) \in BOOLEAN
  BY <1>1, PinnedTypes DEF V2Inv
<1>4. /\ PriceOf(i).operatorPremiumShareBps \in Nat
      /\ PriceOf(i).operatorPremiumShareBps <= MAX_PREMIUM_BPS
      /\ ServiceOf(i).payee \in Operators
  BY <1>3 DEF PricingConfig, KeyService, ValidatePricing
<1>5. BaseTypeOK'
  <2>1. BaseTypeOK
    BY DEF V2Inv, TypeOK
  <2>2. (/\ operatorCredits \in [Operators -> Nat]
         /\ treasuryCredits \in Nat /\ ethBalance \in Int)'
    BY <2>1, <1>1, <1>4, CreditTypes
  <2>3. QED
    BY <2>1, <2>2, <1>1, <1>3, ReleaseTypes
<1>6. charged' \in [RequestIds -> Nat]
  BY <1>1, <1>2
<1>7. requests' = [requests EXCEPT ![i] = r] /\ r \in RequestType
  BY <1>1, <1>2 DEF RequestType, FrameType
<1>8. /\ r.pricingVersion = requests[i].pricingVersion
      /\ r.keyVersion = requests[i].keyVersion
      /\ r.params = requests[i].params /\ r.billing = requests[i].billing
      /\ r.requestBlock = requests[i].requestBlock
  BY <1>2 DEF RequestType
<1>9. UNCHANGED adminVars
  BY <1>1 DEF ReleaseReservation
<1>10. frame'.kind = "idle" /\ frame' \in FrameType \cup {Idle}
  BY <1>1 DEF Idle
<1> HIDE DEF r
<1>11. QED
  BY <1>1, <1>5, <1>6, <1>7, <1>8, <1>9, <1>10, ProgressInv

\* A request expires.
LEMMA ExpireInv == ASSUME V2Inv, NEW i \in RequestIds, ExpireRequest(i) PROVE V2Inv'
<1> DEFINE r == [requests[i] EXCEPT !.status = "expired"]
<1>1. requests \in [RequestIds -> RequestType] /\ requests[i] \in RequestType
  BY DEF V2Inv, TypeOK
<1>2. /\ requests[i].status = "pending" /\ requests' = [requests EXCEPT ![i] = r]
      /\ ReleaseReservation(i, ReservedPayment(i), Sponsored(i), 0)
      /\ frame' = frame /\ terms' = terms /\ charged' = charged
      /\ UNCHANGED creditVars /\ frame.kind = "idle"
  BY <1>1 DEF ExpireRequest, Unlocked
<1>3. BaseTypeOK'
  <2>1. BaseTypeOK
    BY DEF V2Inv, TypeOK
  <2>2. ReservedPayment(i) \in Nat /\ Sponsored(i) \in BOOLEAN
    BY <1>2, PinnedTypes DEF V2Inv
  <2>3. (/\ operatorCredits \in [Operators -> Nat]
         /\ treasuryCredits \in Nat /\ ethBalance \in Int)'
    BY <2>1, <1>2 DEF BaseTypeOK, creditVars
  <2>4. QED
    BY <2>1, <2>2, <2>3, <1>2, ReleaseTypes
<1>4. /\ r.pricingVersion = requests[i].pricingVersion
      /\ r.keyVersion = requests[i].keyVersion
      /\ r.params = requests[i].params /\ r.billing = requests[i].billing
      /\ r.requestBlock = requests[i].requestBlock
  BY <1>1 DEF RequestType
<1>5. r \in RequestType
  BY <1>1 DEF RequestType
<1>6. UNCHANGED adminVars
  BY <1>2 DEF ReleaseReservation
<1>7. frame' \in FrameType \cup {Idle} /\ charged' \in [RequestIds -> Nat]
  BY <1>2 DEF V2Inv, TypeOK
<1> HIDE DEF r
<1>8. QED
  BY <1>2, <1>3, <1>4, <1>5, <1>6, <1>7, ProgressInv

\* A request is forgotten.
LEMMA PruneInv == ASSUME V2Inv, NEW i \in RequestIds, PruneRequest(i) PROVE V2Inv'
<1>1. /\ requests \in [RequestIds -> RequestType] /\ NoRequest \in RequestType
  BY DEF V2Inv, TypeOK, NoRequest, RequestType
<1>2. /\ requests' = [requests EXCEPT ![i] = NoRequest] /\ frame.kind = "idle"
      /\ UNCHANGED <<clockVars, adminVars, subVars, creditVars, frame, terms, charged>>
  BY DEF PruneRequest, Unlocked, baseVars
<1>3. BaseTypeOK'
  BY <1>2 DEF V2Inv, TypeOK, BaseTypeOK, ChainTypeOK, clockVars, chainVars, adminVars,
     priceVars, keyVars, subVars, sponsorVars, creditVars
<1>4. TypeOK'
  BY <1>1, <1>2, <1>3 DEF V2Inv, TypeOK
<1>5. Extends /\ VersionsCurrent'
  BY <1>2, SameVersions
<1>6. \A j \in RequestIds : requests'[j].status # "none" =>
          requests[j].status # "none" /\ SamePins(j)
  BY <1>1, <1>2 DEF SamePins, NoRequest
<1>7. frame'.kind = "idle"
  BY <1>2
<1>8. QED
  BY <1>2, <1>4, <1>5, <1>6, <1>7, TermsKept DEF V2Inv, VersionsInSync
-----------------------------------------------------------------------------
(* The theorems *)

\* The invariant is preserved by every step of the coordinator.
LEMMA V2StepInv == ASSUME V2Inv, [V2Next]_vars PROVE V2Inv'
<1>1. ASSUME BaseNext, UNCHANGED reqVars PROVE V2Inv'
  BY <1>1, BaseStepInv
<1>2. CASE RequestNext
  BY <1>2, RequestInv, FulfillInv, RetryInv, ExpireInv, PruneInv, SettleInv, FinishRetryInv
  DEF RequestNext
<1>3. CASE UNCHANGED vars
  <2>1. TypeOK'
    BY <1>3 DEF V2Inv, TypeOK, BaseTypeOK, ChainTypeOK, vars, baseVars, reqVars, clockVars,
       chainVars, adminVars, priceVars, keyVars, subVars, sponsorVars, creditVars
  <2>2. UNCHANGED <<adminVars, frame, requests, terms>>
    BY <1>3 DEF vars, baseVars, reqVars
  <2>3. Extends /\ VersionsCurrent'
    BY <2>2, SameVersions
  <2>4. \A j \in RequestIds : requests'[j].status # "none" =>
            requests[j].status # "none" /\ SamePins(j)
    BY <2>2 DEF SamePins
  <2>5. QED
    BY <2>1, <2>2, <2>3, <2>4, TermsKept DEF V2Inv, VersionsInSync
<1>4. QED
  BY <1>1, <1>2, <1>3 DEF V2Next

\* In every reachable state the types, the versions and the pinned terms are right.
THEOREM V2Invariant == V2Spec => []V2Inv
<1>1. V2Init => V2Inv
  BY V2InitInv
<1>2. V2Inv /\ [V2Next]_vars => V2Inv'
  BY V2StepInv
<1>3. QED
  BY <1>1, <1>2, PTL DEF V2Spec

\* No balance, reservation, counter or credit of the contract ever leaves the
\* naturals, although solidity subtracts them in many places.
THEOREM V2TypeCorrect == V2Spec => []TypeOK
<1>1. V2Inv => TypeOK
  BY DEF V2Inv
<1>2. QED
  BY <1>1, V2Invariant, PTL

\* The owner's changes never reach a stored request: its reservation, expiry,
\* fulfiller and payee are recomputed as they were agreed, whatever
\* setPricing, setKeyService and re-entrant callbacks do.
THEOREM V2PinnedTerms == V2Spec => [](VersionsInSync /\ PinnedTerms)
<1>1. V2Inv => VersionsInSync /\ PinnedTerms
  BY DEF V2Inv
<1>2. QED
  BY <1>1, V2Invariant, PTL

-----------------------------------------------------------------------------
(* One request, one result, one charge *)

\* What holds of the history of one request: its identifier is spent, it has a
\* result only once it is fulfilled, it was charged at most its reservation and
\* only after its fulfilment, and its confirmations are within the limits.
RequestHistory(i) ==
    /\ terms[i].issued => i[3] <= consumerNonces[PairOf(i)]
    /\ requests[i].status # "fulfilled" =>
           requests[i].randomness = NoOutput /\ ~requests[i].callbackSucceeded
    /\ charged[i] <= terms[i].reserve
    /\ requests[i].status \in {"pending", "expired"} \/ ~terms[i].issued => charged[i] = 0
    /\ requests[i].status # "none" =>
           requests[i].params.confirmations \in
               MIN_REQUEST_CONFIRMATIONS..MAX_REQUEST_CONFIRMATIONS

\* The request whose callback is open has not had a successful one, and has not
\* been charged while its fulfilment is not settled.
OpenCallback ==
    /\ frame.kind # "idle" => ~requests[frame.arg].callbackSucceeded
    /\ frame.kind = "fulfill" => charged[frame.arg] = 0

\* The inductive invariant.
HistoryInv == V2Inv /\ (\A i \in RequestIds : RequestHistory(i)) /\ OpenCallback

\* A step that writes one request.
LEMMA HistoryLocal ==
    ASSUME HistoryInv, V2Inv', NEW i \in RequestIds,
           \A j \in RequestIds \ {i} : /\ requests'[j] = requests[j]
                                       /\ terms'[j] = terms[j] /\ charged'[j] = charged[j],
           \A sc \in Subs \X Consumers : consumerNonces[sc] <= consumerNonces'[sc],
           RequestHistory(i)', OpenCallback'
    PROVE  HistoryInv'
<1> SUFFICES ASSUME NEW j \in RequestIds, j # i PROVE RequestHistory(j)'
  BY DEF HistoryInv
<1>1. RequestHistory(j)
  BY DEF HistoryInv
<1>2. /\ PairOf(j) \in Subs \X Consumers /\ j[3] \in Nat
      /\ consumerNonces \in [Subs \X Consumers -> 0..MaxNonce]
      /\ consumerNonces' \in [Subs \X Consumers -> 0..MaxNonce]
  <2>1. PairOf(j) \in Subs \X Consumers /\ j[3] \in Nat
    BY DEF RequestIds, PairOf
  <2> QED BY <2>1 DEF HistoryInv, V2Inv, TypeOK, BaseTypeOK
<1>3. terms'[j].issued => j[3] <= consumerNonces'[PairOf(j)]
  <2>1. PICK sc \in Subs \X Consumers : sc = PairOf(j)
    BY <1>2
  <2>2. /\ consumerNonces[sc] \in Nat /\ consumerNonces'[sc] \in Nat
        /\ consumerNonces[sc] <= consumerNonces'[sc]
    BY <1>2, BaseAssumption
  <2>3. terms[j].issued => j[3] <= consumerNonces[sc]
    BY <1>1, <2>1 DEF RequestHistory
  <2>4. terms'[j] = terms[j]
    OBVIOUS
  <2> QED BY <1>2, <2>1, <2>2, <2>3, <2>4
<1> QED BY <1>1, <1>3 DEF RequestHistory

\* The next identifier was never used: nonces only grow.
LEMMA FreshId ==
    ASSUME HistoryInv, NEW c \in Consumers, NEW s \in Subs, NEW k \in Keys,
           NEW n \in RequestIds, n = NextRequestId(c, s, k)
    PROVE  ~terms[n].issued /\ requests[n].status = "none" /\ charged[n] = 0
<1>1. n[3] = consumerNonces[<<s, c>>] + 1 /\ PairOf(n) = <<s, c>>
  BY DEF NextRequestId, PairOf
<1>2. consumerNonces[<<s, c>>] \in Nat
  BY BaseAssumption DEF HistoryInv, V2Inv, TypeOK, BaseTypeOK
<1>3. ~(n[3] <= consumerNonces[PairOf(n)])
  BY <1>1, <1>2
<1>4. ~terms[n].issued
  BY <1>3 DEF HistoryInv, RequestHistory
<1>5. requests[n].status = "none"
  BY <1>4 DEF HistoryInv, V2Inv, PinnedTerms
<1> QED BY <1>4, <1>5 DEF HistoryInv, RequestHistory

LEMMA HistoryRequest ==
    ASSUME HistoryInv, V2Inv', NEW c \in Consumers, NEW supplied \in {0} \cup Subs, NEW k \in Keys,
           NEW p \in RequestParams, NEW maxPayment,
           RequestRandomWords(c, supplied, k, p, maxPayment)
    PROVE  HistoryInv'
<1>1. PICK s : s = ResolveBilling(c, supplied).subscriptionId
  OBVIOUS
<1>2. BaseTypeOK /\ VersionsCurrent
  BY DEF HistoryInv, V2Inv, TypeOK, VersionsInSync
<1>3. /\ RequestAllowed(c, supplied, k, p, maxPayment)
      /\ consumerNonces' = [consumerNonces EXCEPT ![<<s, c>>] = @ + 1]
      /\ frame' = frame /\ charged' = charged
  BY <1>1 DEF RequestRandomWords, TakeReservation
<1>4. s \in Subs /\ NextRequestId(c, s, k) \in RequestIds
  BY <1>1, <1>2, <1>3, AcceptedRequest
<1>5. PICK n \in RequestIds : n = NextRequestId(c, s, k)
  BY <1>4
<1>6. /\ requests \in [RequestIds -> RequestType] /\ terms \in [RequestIds -> TermsType]
      /\ charged \in [RequestIds -> Nat] /\ terms' \in [RequestIds -> TermsType]
      /\ consumerNonces \in [Subs \X Consumers -> 0..MaxNonce]
  BY DEF HistoryInv, V2Inv, TypeOK, BaseTypeOK
<1>7. /\ \A j \in RequestIds \ {n} : requests'[j] = requests[j] /\ terms'[j] = terms[j]
      /\ requests'[n].status = "pending" /\ requests'[n].params = p
      /\ requests'[n].randomness = NoOutput /\ ~requests'[n].callbackSucceeded
      /\ terms'[n].issued
  BY <1>1, <1>5, <1>6 DEF RequestRandomWords
<1>8. ~terms[n].issued /\ charged[n] = 0
  BY <1>4, <1>5, FreshId
<1>9. \A sc \in Subs \X Consumers : consumerNonces[sc] <= consumerNonces'[sc]
  BY <1>3, <1>6, BaseAssumption
<1>10. n[3] <= consumerNonces'[PairOf(n)]
  <2>1. n[3] = consumerNonces[<<s, c>>] + 1 /\ PairOf(n) = <<s, c>>
    BY <1>5 DEF NextRequestId, PairOf
  <2>2. consumerNonces'[<<s, c>>] = consumerNonces[<<s, c>>] + 1
        /\ consumerNonces[<<s, c>>] \in Nat
    BY <1>3, <1>4, <1>6, BaseAssumption
  <2> QED BY <2>1, <2>2
<1>11. p.confirmations \in MIN_REQUEST_CONFIRMATIONS..MAX_REQUEST_CONFIRMATIONS
  BY <1>3 DEF RequestAllowed
<1>12. RequestHistory(n)'
  <2>1. charged'[n] = 0 /\ terms'[n].reserve \in Nat
    BY <1>3, <1>6, <1>8 DEF TermsType
  <2> QED BY <1>7, <1>10, <1>11, <2>1 DEF RequestHistory
<1>13. OpenCallback'
  BY <1>3 DEF OpenCallback, RequestAllowed, Unlocked
<1> QED BY <1>3, <1>7, <1>9, <1>12, <1>13, HistoryLocal

\* A step that writes the record r for request i and issues nothing.
LEMMA HistoryProgress ==
    ASSUME HistoryInv, V2Inv', NEW i \in RequestIds, NEW r,
           requests' = [requests EXCEPT ![i] = r],
           UNCHANGED <<terms, charged, consumerNonces>>,
           r.params = requests[i].params \/ r.status = "none",
           requests[i].status # "none",
           r.status # "fulfilled" => r.randomness = NoOutput /\ ~r.callbackSucceeded,
           r.status \in {"pending", "expired"} => requests[i].status \in {"pending", "expired"},
           OpenCallback'
    PROVE  HistoryInv'
<1>1. requests \in [RequestIds -> RequestType] /\ RequestHistory(i)
      /\ consumerNonces \in [Subs \X Consumers -> 0..MaxNonce]
  BY DEF HistoryInv, V2Inv, TypeOK, BaseTypeOK
<1>2. requests'[i] = r /\ \A j \in RequestIds \ {i} : requests'[j] = requests[j]
  BY <1>1
<1>3. RequestHistory(i)'
  BY <1>1, <1>2 DEF RequestHistory
<1>4. \A sc \in Subs \X Consumers : consumerNonces[sc] <= consumerNonces'[sc]
  BY <1>1, BaseAssumption
<1> QED BY <1>2, <1>3, <1>4, HistoryLocal

\* A callback is opened: the result is stored before the consumer runs.
LEMMA HistoryFulfill ==
    ASSUME HistoryInv, V2Inv', NEW i \in RequestIds, NEW caller, NEW gasPrice,
           NEW randomness \in Outputs, NEW success,
           FulfillRandomWords(i, caller, gasPrice, randomness, success)
    PROVE  HistoryInv'
<1> DEFINE r == [requests[i] EXCEPT !.status = "fulfilled", !.randomness = randomness,
                                    !.callbackAttempts = @ + 1]
<1>1. requests \in [RequestIds -> RequestType] /\ requests[i] \in RequestType
  BY DEF HistoryInv, V2Inv, TypeOK
<1>2. /\ requests' = [requests EXCEPT ![i] = r] /\ requests[i].status = "pending"
      /\ frame' = [kind |-> "fulfill", arg |-> i, success |-> success, gasPrice |-> gasPrice]
      /\ UNCHANGED <<terms, charged, consumerNonces>>
  BY <1>1 DEF FulfillRandomWords, subVars
<1>3. /\ r.status = "fulfilled" /\ r.params = requests[i].params
      /\ r.callbackSucceeded = requests[i].callbackSucceeded
  BY <1>1 DEF RequestType
<1> HIDE DEF r
<1>4. ~requests[i].callbackSucceeded /\ charged[i] = 0
  BY <1>2 DEF HistoryInv, RequestHistory
<1>5. requests'[i] = r
  BY <1>1, <1>2
<1>6. OpenCallback'
  BY <1>2, <1>3, <1>4, <1>5 DEF OpenCallback
<1> QED BY <1>2, <1>3, <1>6, HistoryProgress

LEMMA HistoryRetry ==
    ASSUME HistoryInv, V2Inv', NEW i \in RequestIds, NEW success, RetryCallback(i, success)
    PROVE  HistoryInv'
<1> DEFINE r == [requests[i] EXCEPT !.callbackAttempts = @ + 1]
<1>1. requests \in [RequestIds -> RequestType] /\ requests[i] \in RequestType
  BY DEF HistoryInv, V2Inv, TypeOK
<1>2. /\ requests' = [requests EXCEPT ![i] = r] /\ requests[i].status = "fulfilled"
      /\ ~requests[i].callbackSucceeded
      /\ frame' = [kind |-> "retry", arg |-> i, success |-> success, gasPrice |-> 0]
      /\ UNCHANGED <<terms, charged, consumerNonces>>
  BY <1>1 DEF RetryCallback, subVars
<1>3. /\ r.status = "fulfilled" /\ r.params = requests[i].params
      /\ r.callbackSucceeded = requests[i].callbackSucceeded
  BY <1>1, <1>2 DEF RequestType
<1> HIDE DEF r
<1>4. requests'[i] = r
  BY <1>1, <1>2
<1>5. OpenCallback'
  BY <1>2, <1>3, <1>4 DEF OpenCallback
<1> QED BY <1>2, <1>3, <1>5, HistoryProgress

LEMMA HistoryFinishRetry ==
    ASSUME HistoryInv, V2Inv', FinishRetry
    PROVE  HistoryInv'
<1>1. PICK i \in RequestIds : frame.arg = i
  BY DEF HistoryInv, V2Inv, TypeOK, FinishRetry, FrameType, Idle
<1> DEFINE r == [requests[i] EXCEPT !.callbackSucceeded = frame.success]
<1>2. requests \in [RequestIds -> RequestType] /\ requests[i] \in RequestType
  BY DEF HistoryInv, V2Inv, TypeOK
<1>3. /\ requests' = [requests EXCEPT ![i] = r] /\ frame' = Idle
      /\ UNCHANGED <<terms, charged, consumerNonces>>
  BY <1>1, <1>2 DEF FinishRetry, subVars
<1>4. requests[i].status = "fulfilled"
  BY <1>1 DEF HistoryInv, V2Inv, VersionsInSync, FinishRetry
<1>5. r.status = "fulfilled" /\ r.params = requests[i].params
  BY <1>2, <1>4 DEF RequestType
<1> HIDE DEF r
<1>6. OpenCallback'
  BY <1>3 DEF OpenCallback, Idle
<1> QED BY <1>3, <1>4, <1>5, <1>6, HistoryProgress

LEMMA HistoryExpire ==
    ASSUME HistoryInv, V2Inv', NEW i \in RequestIds, ExpireRequest(i)
    PROVE  HistoryInv'
<1> DEFINE r == [requests[i] EXCEPT !.status = "expired"]
<1>1. requests \in [RequestIds -> RequestType] /\ requests[i] \in RequestType
  BY DEF HistoryInv, V2Inv, TypeOK
<1>2. /\ requests' = [requests EXCEPT ![i] = r] /\ requests[i].status = "pending"
      /\ frame' = frame /\ frame.kind = "idle"
      /\ UNCHANGED <<terms, charged, consumerNonces>>
  BY <1>1 DEF ExpireRequest, Unlocked, ReleaseReservation
<1>3. /\ r.status = "expired" /\ r.params = requests[i].params
      /\ r.callbackSucceeded = requests[i].callbackSucceeded
      /\ r.randomness = requests[i].randomness
  BY <1>1 DEF RequestType
<1> HIDE DEF r
<1>4. ~requests[i].callbackSucceeded /\ requests[i].randomness = NoOutput
  BY <1>2 DEF HistoryInv, RequestHistory
<1>5. OpenCallback'
  BY <1>2 DEF OpenCallback
<1> QED BY <1>2, <1>3, <1>4, <1>5, HistoryProgress

LEMMA HistoryPrune ==
    ASSUME HistoryInv, V2Inv', NEW i \in RequestIds, PruneRequest(i)
    PROVE  HistoryInv'
<1>1. /\ requests' = [requests EXCEPT ![i] = NoRequest] /\ requests[i].status # "none"
      /\ frame' = frame /\ frame.kind = "idle" /\ UNCHANGED <<terms, charged, consumerNonces>>
  BY DEF PruneRequest, Unlocked, baseVars, subVars
<1>2. /\ NoRequest.status = "none" /\ NoRequest.randomness = NoOutput
      /\ ~NoRequest.callbackSucceeded
  BY DEF NoRequest
<1>3. OpenCallback'
  BY <1>1 DEF OpenCallback
<1> QED BY <1>1, <1>2, <1>3, HistoryProgress

\* The settlement charges what was not charged before, within the reservation
\* that was agreed.
LEMMA HistorySettle ==
    ASSUME HistoryInv, V2Inv', NEW gasUsed \in GasUses, NEW l1Cost \in L1Costs,
           SettleFulfillment(gasUsed, l1Cost)
    PROVE  HistoryInv'
<1>1. PICK i \in RequestIds, charge \in Nat :
               /\ frame.arg = i /\ frame.kind = "fulfill"
               /\ requests[i].status = "fulfilled"
               /\ charge <= ReservedPayment(i)
               /\ ReleaseReservation(i, ReservedPayment(i), Sponsored(i), charge)
               /\ requests' = [requests EXCEPT ![i].callbackSucceeded = frame.success]
               /\ charged' = [charged EXCEPT ![i] = @ + charge]
               /\ frame' = Idle /\ terms' = terms
  BY SettleCharge DEF HistoryInv
<1> DEFINE r == [requests[i] EXCEPT !.callbackSucceeded = frame.success]
<1>3. /\ requests \in [RequestIds -> RequestType] /\ requests[i] \in RequestType
      /\ charged \in [RequestIds -> Nat] /\ charged' \in [RequestIds -> Nat]
      /\ terms \in [RequestIds -> TermsType]
      /\ consumerNonces \in [Subs \X Consumers -> 0..MaxNonce]
  BY DEF HistoryInv, V2Inv, TypeOK, BaseTypeOK
<1>4. /\ requests' = [requests EXCEPT ![i] = r] /\ frame' = Idle /\ frame.kind = "fulfill"
      /\ UNCHANGED <<terms, consumerNonces>>
  BY <1>1, <1>3 DEF ReleaseReservation
<1>5. requests[i].status = "fulfilled"
  BY <1>1
<1>6. r.status = "fulfilled" /\ r.params = requests[i].params
  BY <1>3, <1>5 DEF RequestType
<1> HIDE DEF r
<1>7. /\ \A j \in RequestIds \ {i} : requests'[j] = requests[j] /\ charged'[j] = charged[j]
      /\ requests'[i] = r /\ charged'[i] = charged[i] + charge
  BY <1>1, <1>3, <1>4
<1>8. charged[i] = 0
  BY <1>1, <1>4 DEF HistoryInv, OpenCallback
<1>9. ReservedPayment(i) = terms[i].reserve /\ terms[i].issued
  BY <1>5 DEF HistoryInv, V2Inv, PinnedTerms
<1>10. charged'[i] <= terms[i].reserve
  BY <1>1, <1>7, <1>8, <1>9
<1>11. RequestHistory(i)
  BY DEF HistoryInv
<1>12. RequestHistory(i)'
  BY <1>4, <1>5, <1>6, <1>7, <1>9, <1>10, <1>11 DEF RequestHistory
<1>13. OpenCallback'
  BY <1>4 DEF OpenCallback, Idle
<1>14. \A sc \in Subs \X Consumers : consumerNonces[sc] <= consumerNonces'[sc]
  BY <1>3, <1>4, BaseAssumption
<1> QED BY <1>4, <1>7, <1>12, <1>13, <1>14, HistoryLocal

LEMMA HistoryInit == V2Init => HistoryInv
<1> SUFFICES ASSUME V2Init PROVE HistoryInv
  OBVIOUS
<1>1. V2Inv
  BY V2InitInv
<1>2. ASSUME NEW i \in RequestIds PROVE RequestHistory(i)
  <2>1. requests[i] = NoRequest /\ terms[i] = NoTerms /\ charged[i] = 0
    BY DEF V2Init
  <2> QED BY <2>1 DEF RequestHistory, NoRequest, NoTerms
<1>3. OpenCallback
  BY DEF V2Init, BaseInit, OpenCallback, Idle
<1> QED BY <1>1, <1>2, <1>3 DEF HistoryInv

\* The functions without a request leave every history alone.
LEMMA HistoryQuiet ==
    ASSUME HistoryInv, V2Inv', UNCHANGED <<requests, terms, charged, frame, consumerNonces>>
    PROVE  HistoryInv'
BY DEF HistoryInv, RequestHistory, OpenCallback, PairOf

LEMMA HistoryStep == HistoryInv /\ [V2Next]_vars => HistoryInv'
<1> SUFFICES ASSUME HistoryInv, [V2Next]_vars PROVE HistoryInv'
  OBVIOUS
<1>1. V2Inv'
  BY V2StepInv DEF HistoryInv
<1>2. CASE BaseNext /\ UNCHANGED reqVars
  BY <1>1, <1>2, BaseKeepsNonces, WhoChangesVersions, HistoryQuiet DEF reqVars
<1>3. CASE UNCHANGED vars
  BY <1>1, <1>3, HistoryQuiet DEF vars, reqVars, baseVars, subVars
<1>4. CASE RequestNext
  BY <1>1, <1>4, HistoryRequest, HistoryFulfill, HistoryRetry, HistoryExpire, HistoryPrune,
     HistorySettle, HistoryFinishRetry DEF RequestNext
<1> QED BY <1>2, <1>3, <1>4 DEF V2Next

\* Every reachable state satisfies the invariant of the request histories.
THEOREM V2History == V2Spec => []HistoryInv
BY HistoryInit, HistoryStep, PTL DEF V2Spec

\* A request is charged at most the reservation agreed for it, over the
\* fulfilment and all retries, and nothing unless it was fulfilled and its
\* reservation given up: _settle runs once for an identifier, and no identifier
\* is used twice although requests are pruned and consumers removed.
THEOREM V2ChargedOnce == V2Spec => []ChargedOnce
<1>1. HistoryInv => ChargedOnce
  <2> SUFFICES ASSUME HistoryInv, NEW i \in RequestIds
               PROVE  /\ charged[i] <= terms[i].reserve
                      /\ charged[i] # 0 =>
                             requests[i].status \in {"fulfilled", "none"} /\ ~Holds(i)
    BY DEF ChargedOnce
  <2>1. RequestHistory(i) /\ OpenCallback /\ requests[i] \in RequestType
    BY DEF HistoryInv, V2Inv, TypeOK
  <2> QED BY <2>1 DEF RequestHistory, OpenCallback, RequestType, Holds
<1> QED BY <1>1, V2History, PTL

\* A pending request can be fulfilled when its last confirmation arrives: the
\* limits on confirmations and timeouts keep the block hash in the window and
\* the request alive, whatever price was current when it was made.
THEOREM V2ReadyWhenConfirmed == V2Spec => []ReadyWhenConfirmed
<1>1. HistoryInv => ReadyWhenConfirmed
  <2> SUFFICES ASSUME HistoryInv, NEW i \in RequestIds, requests[i].status = "pending",
                      blockNumber = requests[i].requestBlock + requests[i].params.confirmations
               PROVE  SeedReady(i)
    BY DEF ReadyWhenConfirmed
  <2>1. PICK b \in Nat, n \in Nat, t \in Nat :
            /\ b = requests[i].requestBlock /\ n = requests[i].params.confirmations
            /\ t = PriceOf(i).requestTimeoutBlocks
    <3>1. requests[i] \in RequestType /\ PriceOf(i) \in PricingConfig
      BY PinnedTypes DEF HistoryInv, V2Inv, TypeOK
    <3> QED BY <3>1 DEF RequestType, PricingConfig
  <2>2. n \in MIN_REQUEST_CONFIRMATIONS..MAX_REQUEST_CONFIRMATIONS
    BY <2>1 DEF HistoryInv, RequestHistory
  <2>3. t >= MIN_REQUEST_TIMEOUT_BLOCKS
    BY <2>1, PinnedTypes, BaseAssumption DEF HistoryInv, V2Inv, ValidatePricing
  <2>4. 1 <= n /\ n <= BLOCKHASH_WINDOW /\ n <= t
    BY <2>2, <2>3, ConfirmationAssumption, BaseAssumption, BlockhashAssumption
  <2>5. HashAvailable(b)
    BY <2>1, <2>4, BlockhashAssumption DEF HashAvailable, ContextHasHash
  <2> QED BY <2>1, <2>4, <2>5 DEF SeedReady, ExpiresAtBlock
<1> QED BY <1>1, V2History, PTL

-----------------------------------------------------------------------------
(* The coordinator implements the request life cycle *)

\* The refinement mapping, variable by variable.
phaseMap == [i \in RequestIds |-> PhaseOf(i)]
resultMap == [i \in RequestIds |-> requests[i].randomness]
deliveredMap == [i \in RequestIds |-> requests[i].callbackSucceeded]
heldMap == [i \in RequestIds |-> Holds(i)]

\* What a step that leaves all requests but i alone does to the mapping.
LEMMA MapLocal ==
    ASSUME NEW i \in RequestIds,
           \A j \in RequestIds \ {i} : requests'[j] = requests[j] /\ terms'[j] = terms[j],
           \A j \in RequestIds \ {i} : (Holds(j)' <=> Holds(j))
    PROVE  /\ phaseMap' = [phaseMap EXCEPT ![i] = PhaseOf(i)']
           /\ resultMap' = [resultMap EXCEPT ![i] = requests'[i].randomness]
           /\ deliveredMap' = [deliveredMap EXCEPT ![i] = requests'[i].callbackSucceeded]
           /\ heldMap' = [heldMap EXCEPT ![i] = Holds(i)']
           /\ phaseMap[i] = PhaseOf(i) /\ resultMap[i] = requests[i].randomness
           /\ deliveredMap[i] = requests[i].callbackSucceeded /\ heldMap[i] = Holds(i)
<1>1. \A j \in RequestIds \ {i} : PhaseOf(j)' = PhaseOf(j)
  BY DEF PhaseOf
<1>2. \A j \in RequestIds : Holds(j) \in BOOLEAN /\ Holds(j)' \in BOOLEAN
  BY DEF Holds
<1>3. heldMap' = [heldMap EXCEPT ![i] = Holds(i)']
  <2> DEFINE h(j) == Holds(j)
             g(j) == Holds(j)'
  <2>1. \A j \in RequestIds \ {i} : g(j) = h(j)
    BY <1>2
  <2>2. heldMap = [j \in RequestIds |-> h(j)] /\ heldMap' = [j \in RequestIds |-> g(j)]
    BY DEF heldMap
  <2> HIDE DEF h, g
  <2>3. heldMap' = [heldMap EXCEPT ![i] = g(i)]
    BY <2>1, <2>2
  <2> QED BY <2>3 DEF g
<1> QED BY <1>1, <1>3 DEF phaseMap, resultMap, deliveredMap, heldMap

LEMMA HeldSame ==
    ASSUME \A j \in RequestIds : (Holds(j)' <=> Holds(j))
    PROVE  heldMap' = heldMap
<1> DEFINE h(j) == Holds(j)
           g(j) == Holds(j)'
<1>1. \A j \in RequestIds : g(j) = h(j)
  BY DEF Holds
<1>2. heldMap = [j \in RequestIds |-> h(j)] /\ heldMap' = [j \in RequestIds |-> g(j)]
  BY DEF heldMap
<1> HIDE DEF h, g
<1> QED BY <1>1, <1>2

\* A step that shows nothing of a request.
LEMMA MapSame ==
    ASSUME \A j \in RequestIds :
               /\ PhaseOf(j)' = PhaseOf(j) /\ (Holds(j)' <=> Holds(j))
               /\ requests'[j].randomness = requests[j].randomness
               /\ requests'[j].callbackSucceeded = requests[j].callbackSucceeded
    PROVE  UNCHANGED Life!lifeVars
<1>1. heldMap' = heldMap
  BY HeldSame
<1>2. phaseMap' = phaseMap /\ resultMap' = resultMap /\ deliveredMap' = deliveredMap
  BY DEF phaseMap, resultMap, deliveredMap
<1> QED BY <1>1, <1>2 DEF Life!lifeVars, phaseMap, resultMap, deliveredMap, heldMap

\* A request is made under an identifier that was never used.
LEMMA LifeRequest ==
    ASSUME HistoryInv, HistoryInv', NEW c \in Consumers, NEW supplied \in {0} \cup Subs,
           NEW k \in Keys, NEW p \in RequestParams, NEW maxPayment,
           RequestRandomWords(c, supplied, k, p, maxPayment)
    PROVE  Life!LifeNext
<1>1. PICK s : s = ResolveBilling(c, supplied).subscriptionId
  OBVIOUS
<1>2. RequestAllowed(c, supplied, k, p, maxPayment) /\ frame' = frame
  BY DEF RequestRandomWords, TakeReservation
<1>3. s \in Subs /\ NextRequestId(c, s, k) \in RequestIds
  BY <1>1, <1>2, AcceptedRequest DEF HistoryInv, V2Inv, TypeOK, VersionsInSync
<1>4. PICK n \in RequestIds : n = NextRequestId(c, s, k)
  BY <1>3
<1>5. ~terms[n].issued /\ requests[n].status = "none"
  BY <1>3, <1>4, FreshId
<1>6. requests \in [RequestIds -> RequestType] /\ terms \in [RequestIds -> TermsType]
  BY DEF HistoryInv, V2Inv, TypeOK
<1>7. /\ \A j \in RequestIds \ {n} : requests'[j] = requests[j] /\ terms'[j] = terms[j]
      /\ requests'[n].status = "pending"
      /\ requests'[n].randomness = NoOutput /\ requests'[n].callbackSucceeded = FALSE
  BY <1>1, <1>4, <1>6 DEF RequestRandomWords
<1>8. requests[n].randomness = NoOutput /\ requests[n].callbackSucceeded = FALSE
  BY <1>5, <1>6 DEF HistoryInv, RequestHistory, RequestType
<1>9. \A j \in RequestIds \ {n} : (Holds(j)' <=> Holds(j))
  BY <1>2, <1>7 DEF Holds
<1>10. /\ PhaseOf(n) = "none" /\ PhaseOf(n)' = "pending" /\ Holds(n)' = TRUE
  BY <1>5, <1>7 DEF PhaseOf, Holds
<1>11. /\ phaseMap' = [phaseMap EXCEPT ![n] = "pending"] /\ phaseMap[n] = "none"
       /\ heldMap' = [heldMap EXCEPT ![n] = TRUE]
       /\ resultMap' = resultMap /\ deliveredMap' = deliveredMap
  <2>1. /\ resultMap' = [resultMap EXCEPT ![n] = resultMap[n]]
        /\ deliveredMap' = [deliveredMap EXCEPT ![n] = deliveredMap[n]]
    BY <1>7, <1>8, <1>9, MapLocal
  <2> QED BY <1>7, <1>9, <1>10, <2>1, MapLocal DEF resultMap, deliveredMap
<1>12. Life!Open(n)
  BY <1>11 DEF Life!Open, phaseMap, resultMap, deliveredMap, heldMap
<1> QED BY <1>12 DEF Life!LifeNext

\* The result is fixed when the callback is opened.
LEMMA LifeFulfill ==
    ASSUME HistoryInv, HistoryInv', NEW i \in RequestIds, NEW caller, NEW gasPrice,
           NEW randomness \in Outputs, NEW success,
           FulfillRandomWords(i, caller, gasPrice, randomness, success)
    PROVE  Life!LifeNext
<1>1. requests \in [RequestIds -> RequestType] /\ requests[i] \in RequestType
  BY DEF HistoryInv, V2Inv, TypeOK
<1>2. /\ requests[i].status = "pending" /\ frame.kind = "idle"
      /\ frame' = [kind |-> "fulfill", arg |-> i, success |-> success, gasPrice |-> gasPrice]
      /\ terms' = terms
      /\ \A j \in RequestIds \ {i} : requests'[j] = requests[j]
      /\ requests'[i].status = "fulfilled" /\ requests'[i].randomness = randomness
      /\ requests'[i].callbackSucceeded = requests[i].callbackSucceeded
  BY <1>1 DEF FulfillRandomWords, Unlocked, RequestType
<1>3. \A j \in RequestIds \ {i} : (Holds(j)' <=> Holds(j))
  BY <1>2 DEF Holds
<1>4. /\ PhaseOf(i) = "pending" /\ PhaseOf(i)' = "fulfilled" /\ Holds(i) = TRUE /\ Holds(i)' = TRUE
  BY <1>2 DEF PhaseOf, Holds
<1>5. /\ phaseMap' = [phaseMap EXCEPT ![i] = "fulfilled"] /\ phaseMap[i] = "pending"
      /\ resultMap' = [resultMap EXCEPT ![i] = randomness]
      /\ heldMap' = heldMap /\ deliveredMap' = deliveredMap
  <2>1. /\ heldMap' = [heldMap EXCEPT ![i] = heldMap[i]]
        /\ deliveredMap' = [deliveredMap EXCEPT ![i] = deliveredMap[i]]
    BY <1>2, <1>3, <1>4, MapLocal
  <2> QED BY <1>2, <1>3, <1>4, <2>1, MapLocal, ZenonT(60) DEF heldMap, deliveredMap
<1>6. Life!Fulfil(i, randomness)
  BY <1>5 DEF Life!Fulfil, phaseMap, resultMap, deliveredMap, heldMap
<1> QED BY <1>6 DEF Life!LifeNext

\* The settlement gives up the reservation and records the callback's outcome.
LEMMA LifeSettle ==
    ASSUME HistoryInv, HistoryInv', NEW gasUsed \in GasUses, NEW l1Cost \in L1Costs,
           SettleFulfillment(gasUsed, l1Cost)
    PROVE  Life!LifeNext
<1>1. PICK i \in RequestIds :
               /\ frame.arg = i /\ frame.kind = "fulfill" /\ frame \in FrameType
               /\ requests[i].status = "fulfilled"
               /\ requests' = [requests EXCEPT ![i].callbackSucceeded = frame.success]
               /\ frame' = Idle /\ terms' = terms
  BY SettleCharge DEF HistoryInv
<1>2. PICK ok \in BOOLEAN : ok = frame.success
  BY <1>1 DEF FrameType
<1>3. requests \in [RequestIds -> RequestType] /\ requests[i] \in RequestType
  BY DEF HistoryInv, V2Inv, TypeOK
<1>4. /\ \A j \in RequestIds \ {i} : requests'[j] = requests[j]
      /\ requests'[i].status = "fulfilled" /\ requests'[i].randomness = requests[i].randomness
      /\ requests'[i].callbackSucceeded = ok
  BY <1>1, <1>2, <1>3 DEF RequestType
<1>5. requests[i].callbackSucceeded = FALSE
  BY <1>1, <1>3 DEF HistoryInv, OpenCallback, RequestType
<1>6. \A j \in RequestIds \ {i} : (Holds(j)' <=> Holds(j))
  BY <1>1, <1>4 DEF Holds, Idle
<1>7. /\ PhaseOf(i) = "fulfilled" /\ PhaseOf(i)' = "fulfilled"
      /\ Holds(i) = TRUE /\ Holds(i)' = FALSE
  BY <1>1, <1>4 DEF PhaseOf, Holds, Idle
<1>8. /\ phaseMap[i] = "fulfilled" /\ heldMap[i] = TRUE /\ deliveredMap[i] = FALSE
      /\ heldMap' = [heldMap EXCEPT ![i] = FALSE]
      /\ deliveredMap' = [deliveredMap EXCEPT ![i] = ok]
      /\ phaseMap' = phaseMap /\ resultMap' = resultMap
  <2>1. /\ phaseMap' = [phaseMap EXCEPT ![i] = phaseMap[i]]
        /\ resultMap' = [resultMap EXCEPT ![i] = resultMap[i]]
    BY <1>1, <1>4, <1>6, <1>7, MapLocal
  <2>2. /\ phaseMap[i] = "fulfilled" /\ deliveredMap[i] = FALSE
        /\ deliveredMap' = [deliveredMap EXCEPT ![i] = ok]
    BY <1>1, <1>4, <1>5, <1>6, <1>7, MapLocal
  <2>3. heldMap[i] = TRUE /\ heldMap' = [heldMap EXCEPT ![i] = FALSE]
    BY <1>1, <1>4, <1>6, <1>7, MapLocal
  <2>4. phaseMap' = phaseMap /\ resultMap' = resultMap
    BY <2>1 DEF phaseMap, resultMap
  <2> QED BY <2>2, <2>3, <2>4
<1>9. Life!Settle(i, ok)
  BY <1>8 DEF Life!Settle, phaseMap, resultMap, deliveredMap, heldMap
<1> QED BY <1>9 DEF Life!LifeNext

\* A retry that succeeds delivers; one that fails shows nothing.
LEMMA LifeFinishRetry ==
    ASSUME HistoryInv, HistoryInv', FinishRetry
    PROVE  Life!LifeNext \/ UNCHANGED Life!lifeVars
<1>1. frame \in FrameType /\ frame.kind = "retry"
  BY DEF HistoryInv, V2Inv, TypeOK, FinishRetry, Idle
<1>2. PICK i \in RequestIds : frame.arg = i
  BY <1>1 DEF FrameType
<1>3. PICK ok \in BOOLEAN : ok = frame.success
  BY <1>1 DEF FrameType
<1>4. requests \in [RequestIds -> RequestType] /\ requests[i] \in RequestType
  BY DEF HistoryInv, V2Inv, TypeOK
<1>5. /\ requests[i].status = "fulfilled" /\ frame' = Idle /\ terms' = terms
      /\ \A j \in RequestIds \ {i} : requests'[j] = requests[j]
      /\ requests'[i].status = requests[i].status
      /\ requests'[i].randomness = requests[i].randomness
      /\ requests'[i].callbackSucceeded = ok
  <2>1. requests[i].status = "fulfilled"
    BY <1>1, <1>2 DEF HistoryInv, V2Inv, VersionsInSync
  <2> QED BY <1>2, <1>3, <1>4, <2>1 DEF FinishRetry, RequestType
<1>6. requests[i].callbackSucceeded = FALSE
  BY <1>1, <1>2, <1>4 DEF HistoryInv, OpenCallback, RequestType
<1>7. \A j \in RequestIds : (Holds(j)' <=> Holds(j))
  BY <1>1, <1>5 DEF Holds, Idle
<1>8. PhaseOf(i) = "fulfilled" /\ PhaseOf(i)' = "fulfilled" /\ Holds(i) = FALSE /\ Holds(i)' = FALSE
  BY <1>1, <1>5 DEF PhaseOf, Holds, Idle
<1>9. CASE ok = FALSE
  BY <1>5, <1>6, <1>7, <1>9, MapSame DEF PhaseOf
<1>10. CASE ok = TRUE
  <2>1. /\ phaseMap' = [phaseMap EXCEPT ![i] = phaseMap[i]]
        /\ resultMap' = [resultMap EXCEPT ![i] = resultMap[i]]
    BY <1>5, <1>7, <1>8, MapLocal
  <2>2. /\ phaseMap[i] = "fulfilled" /\ deliveredMap[i] = FALSE
        /\ deliveredMap' = [deliveredMap EXCEPT ![i] = TRUE]
    BY <1>5, <1>6, <1>7, <1>8, <1>10, MapLocal
  <2>3. heldMap[i] = FALSE
    BY <1>8 DEF heldMap
  <2>4. phaseMap' = phaseMap /\ resultMap' = resultMap
    BY <2>1 DEF phaseMap, resultMap
  <2>5. heldMap' = heldMap
    BY <1>7, HeldSame
  <2>6. Life!Deliver(i)
    BY <2>2, <2>3, <2>4, <2>5 DEF Life!Deliver, phaseMap, resultMap, deliveredMap, heldMap
  <2> QED BY <2>6 DEF Life!LifeNext
<1> QED BY <1>9, <1>10

LEMMA LifeRetry ==
    ASSUME HistoryInv, HistoryInv', NEW i \in RequestIds, NEW success, RetryCallback(i, success)
    PROVE  UNCHANGED Life!lifeVars
<1>1. requests \in [RequestIds -> RequestType] /\ requests[i] \in RequestType
  BY DEF HistoryInv, V2Inv, TypeOK
<1>2. /\ frame.kind = "idle" /\ frame'.kind = "retry" /\ terms' = terms
      /\ \A j \in RequestIds \ {i} : requests'[j] = requests[j]
      /\ requests'[i].status = requests[i].status
      /\ requests'[i].randomness = requests[i].randomness
      /\ requests'[i].callbackSucceeded = requests[i].callbackSucceeded
  BY <1>1 DEF RetryCallback, Unlocked, RequestType
<1> QED BY <1>2, MapSame DEF PhaseOf, Holds

LEMMA LifeExpire ==
    ASSUME HistoryInv, HistoryInv', NEW i \in RequestIds, ExpireRequest(i)
    PROVE  Life!LifeNext
<1>1. requests \in [RequestIds -> RequestType] /\ requests[i] \in RequestType
  BY DEF HistoryInv, V2Inv, TypeOK
<1>2. /\ requests[i].status = "pending" /\ frame.kind = "idle" /\ frame' = frame /\ terms' = terms
      /\ \A j \in RequestIds \ {i} : requests'[j] = requests[j]
      /\ requests'[i].status = "expired" /\ requests'[i].randomness = requests[i].randomness
      /\ requests'[i].callbackSucceeded = requests[i].callbackSucceeded
  BY <1>1 DEF ExpireRequest, Unlocked, RequestType
<1>3. \A j \in RequestIds \ {i} : (Holds(j)' <=> Holds(j))
  BY <1>2 DEF Holds
<1>4. PhaseOf(i) = "pending" /\ PhaseOf(i)' = "expired" /\ Holds(i)' = FALSE
  BY <1>2 DEF PhaseOf, Holds
<1>5. /\ phaseMap' = [phaseMap EXCEPT ![i] = "expired"] /\ phaseMap[i] = "pending"
      /\ heldMap' = [heldMap EXCEPT ![i] = FALSE]
      /\ resultMap' = resultMap /\ deliveredMap' = deliveredMap
  <2>1. /\ resultMap' = [resultMap EXCEPT ![i] = resultMap[i]]
        /\ deliveredMap' = [deliveredMap EXCEPT ![i] = deliveredMap[i]]
    BY <1>2, <1>3, MapLocal
  <2> QED BY <1>2, <1>3, <1>4, <2>1, MapLocal DEF resultMap, deliveredMap
<1>6. Life!Expire(i)
  BY <1>5 DEF Life!Expire, phaseMap, resultMap, deliveredMap, heldMap
<1> QED BY <1>6 DEF Life!LifeNext

LEMMA LifePrune ==
    ASSUME HistoryInv, HistoryInv', NEW i \in RequestIds, PruneRequest(i)
    PROVE  Life!LifeNext
<1>1. requests \in [RequestIds -> RequestType]
  BY DEF HistoryInv, V2Inv, TypeOK
<1>2. /\ requests[i].status \in {"fulfilled", "expired"} /\ frame.kind = "idle"
      /\ frame' = frame /\ terms' = terms
      /\ \A j \in RequestIds \ {i} : requests'[j] = requests[j]
      /\ requests'[i].status = "none" /\ requests'[i].randomness = NoOutput
      /\ requests'[i].callbackSucceeded = FALSE
  BY <1>1 DEF PruneRequest, Unlocked, NoRequest, baseVars
<1>3. terms[i].issued
  BY <1>2 DEF HistoryInv, V2Inv, PinnedTerms
<1>4. \A j \in RequestIds : (Holds(j)' <=> Holds(j))
  BY <1>2 DEF Holds
<1>5. /\ PhaseOf(i) \in {"fulfilled", "expired"} /\ PhaseOf(i)' = "pruned"
      /\ Holds(i) = FALSE /\ Holds(i)' = FALSE
  BY <1>2, <1>3 DEF PhaseOf, Holds
<1>6. /\ phaseMap' = [phaseMap EXCEPT ![i] = "pruned"] /\ phaseMap[i] \in {"fulfilled", "expired"}
      /\ resultMap' = [resultMap EXCEPT ![i] = NoOutput]
      /\ deliveredMap' = [deliveredMap EXCEPT ![i] = FALSE]
  BY <1>2, <1>4, <1>5, MapLocal
<1>7. heldMap[i] = FALSE /\ heldMap' = heldMap
  <2>1. heldMap[i] = FALSE
    BY <1>5 DEF heldMap
  <2> QED BY <1>4, <2>1, HeldSame
<1>8. Life!Prune(i)
  BY <1>6, <1>7 DEF Life!Prune, phaseMap, resultMap, deliveredMap, heldMap
<1> QED BY <1>8 DEF Life!LifeNext

LEMMA LifeInitial == V2Init => Life!LifeInit
<1> SUFFICES ASSUME V2Init PROVE Life!LifeInit
  OBVIOUS
<1>1. /\ requests = [i \in RequestIds |-> NoRequest] /\ terms = [i \in RequestIds |-> NoTerms]
      /\ frame = Idle
  BY DEF V2Init, BaseInit
<1>2. \A i \in RequestIds :
          /\ PhaseOf(i) = "none" /\ requests[i].randomness = NoOutput
          /\ requests[i].callbackSucceeded = FALSE /\ Holds(i) = FALSE
  BY <1>1 DEF PhaseOf, NoRequest, NoTerms, Holds, Idle
<1> QED BY <1>2 DEF Life!LifeInit

LEMMA LifeStep ==
    ASSUME HistoryInv, HistoryInv', [V2Next]_vars
    PROVE  [Life!LifeNext]_(Life!lifeVars)
<1>1. CASE UNCHANGED <<requests, terms, frame>>
  BY <1>1, MapSame DEF PhaseOf, Holds
<1>2. CASE BaseNext /\ UNCHANGED reqVars
  BY <1>1, <1>2, WhoChangesVersions DEF reqVars
<1>3. CASE UNCHANGED vars
  BY <1>1, <1>3 DEF vars, reqVars, baseVars
<1>4. CASE RequestNext
  BY <1>4, LifeRequest, LifeFulfill, LifeRetry, LifeExpire, LifePrune, LifeSettle,
     LifeFinishRetry DEF RequestNext
<1> QED BY <1>2, <1>3, <1>4 DEF V2Next

\* The V2 coordinator implements the request life cycle for any number of
\* requests: one identifier, one request, one result, at most one successful
\* callback, one release of the reservation, whatever a callback re-enters,
\* whatever versions change and whatever is pruned.
THEOREM V2Lifecycle == V2Spec => LifeSpec
<1>1. HistoryInv /\ HistoryInv' /\ [V2Next]_vars => [Life!LifeNext]_(Life!lifeVars)
  BY LifeStep
<1> QED BY <1>1, LifeInitial, V2History, PTL DEF V2Spec, LifeSpec, Life!LifeSpec

-----------------------------------------------------------------------------
(* The quota of a sponsor *)

\* The contract counts at least the sponsored requests of the present epoch,
\* and a consumer without a policy has none.
QuotaTracked == \A c \in Consumers :
    /\ sponsoredUse[c] <= QuotaUsed(sponsorPolicies[c])
    /\ ~sponsorPolicies[c].active => sponsoredUse[c] = 0

LEMMA QuotaTypes ==
    ASSUME BaseTypeOK, NEW c \in Consumers
    PROVE  /\ sponsoredUse[c] \in Nat /\ QuotaUsed(sponsorPolicies[c]) \in Nat
           /\ sponsorPolicies[c] \in PolicyType
           /\ sponsorPolicies[c].requestsPerEpoch \in Nat
BY DEF BaseTypeOK, PolicyType, QuotaUsed

\* Steps that leave the quota fields, the use and the time alone.
LEMMA QuotaKept ==
    ASSUME QuotaTracked, UNCHANGED <<sponsoredUse, timestamp>>,
           \A c \in Consumers : /\ sponsorPolicies'[c].epoch = sponsorPolicies[c].epoch
                                /\ sponsorPolicies'[c].requestsInEpoch = sponsorPolicies[c].requestsInEpoch
                                /\ sponsorPolicies'[c].active = sponsorPolicies[c].active
    PROVE  QuotaTracked'
BY DEF QuotaTracked, QuotaUsed, CurrentEpoch

LEMMA QuotaBase ==
    ASSUME BaseTypeOK, BaseTypeOK', QuotaTracked, BaseNext
    PROVE  /\ QuotaTracked'
           /\ \A c \in Consumers : ~(sponsoredUse'[c] > sponsoredUse[c])
<1>0. /\ sponsoredUse \in [Consumers -> Nat] /\ sponsorPolicies \in [Consumers -> PolicyType]
  BY DEF BaseTypeOK
<1>1. CASE UNCHANGED <<sponsorPolicies, sponsoredUse, timestamp>>
  BY <1>0, <1>1, QuotaKept
<1>2. ASSUME NEW c \in Consumers, NEW policy \in SponsorPolicyConfigs, SetSponsorPolicy(c, policy)
      PROVE  /\ QuotaTracked'
             /\ \A d \in Consumers : ~(sponsoredUse'[d] > sponsoredUse[d])
  <2>1. UNCHANGED <<sponsoredUse, timestamp>>
    BY <1>2 DEF SetSponsorPolicy, clockVars
  <2>2. /\ \A d \in Consumers \ {c} : sponsorPolicies'[d] = sponsorPolicies[d]
        /\ sponsorPolicies'[c].epoch = CurrentEpoch /\ sponsorPolicies'[c].active
        /\ sponsorPolicies'[c].requestsInEpoch =
               IF sponsorPolicies[c].active THEN QuotaUsed(sponsorPolicies[c]) ELSE 0
    BY <1>0, <1>2 DEF SetSponsorPolicy
  <2>3. sponsoredUse[c] <= sponsorPolicies'[c].requestsInEpoch
    BY <2>2 DEF QuotaTracked
  <2>4. QuotaTracked'
    BY <2>1, <2>2, <2>3 DEF QuotaTracked, QuotaUsed, CurrentEpoch
  <2> QED BY <1>0, <2>1, <2>4
<1>3. ASSUME NEW c \in Consumers, RemoveSponsorPolicy(c)
      PROVE  /\ QuotaTracked'
             /\ \A d \in Consumers : ~(sponsoredUse'[d] > sponsoredUse[d])
  <2>1. /\ \A d \in Consumers \ {c} : /\ sponsorPolicies'[d] = sponsorPolicies[d]
                                      /\ sponsoredUse'[d] = sponsoredUse[d]
        /\ sponsoredUse'[c] = 0 /\ timestamp' = timestamp
    BY <1>0, <1>3 DEF RemoveSponsorPolicy, clockVars
  <2>2. QuotaUsed(sponsorPolicies[c])' \in Nat
    BY DEF BaseTypeOK, PolicyType, QuotaUsed
  <2>3. QuotaTracked'
    BY <2>1, <2>2 DEF QuotaTracked, QuotaUsed, CurrentEpoch
  <2> QED BY <1>0, <2>1, <2>3
<1>4. CASE AdvanceTime
  <2>1. /\ sponsorPolicies' = sponsorPolicies
        /\ sponsoredUse' = IF CurrentEpoch' = CurrentEpoch THEN sponsoredUse
                           ELSE [c \in Consumers |-> 0]
    BY <1>4 DEF AdvanceTime
  <2>2. CASE CurrentEpoch' = CurrentEpoch
    BY <1>0, <2>1, <2>2 DEF QuotaTracked, QuotaUsed
  <2>3. CASE CurrentEpoch' # CurrentEpoch
    <3>1. \A c \in Consumers : QuotaUsed(sponsorPolicies[c])' \in Nat /\ sponsoredUse'[c] = 0
      BY <2>1, <2>3 DEF BaseTypeOK, PolicyType, QuotaUsed
    <3> QED BY <1>0, <3>1 DEF QuotaTracked
  <2> QED BY <2>2, <2>3
<1>5. \/ UNCHANGED <<sponsorPolicies, sponsoredUse, timestamp>>
      \/ \E c \in Consumers, policy \in SponsorPolicyConfigs : SetSponsorPolicy(c, policy)
      \/ \E c \in Consumers : RemoveSponsorPolicy(c)
      \/ AdvanceTime
  <2>1. AdminNext => \/ UNCHANGED <<sponsorPolicies, sponsoredUse, timestamp>>
                     \/ \E c \in Consumers, policy \in SponsorPolicyConfigs : SetSponsorPolicy(c, policy)
                     \/ \E c \in Consumers : RemoveSponsorPolicy(c)
    BY DEF AdminNext, SetPricing, SetGuardian, PauseRequests, UnpauseRequests, PausedChanges,
           RegisterKey, SetKeyService, SetKeyActive, SetSubscriptionPremiumOverride,
           WithdrawTreasuryCredits, subVars, sponsorVars, clockVars
  <2>2. SubscriptionNext => UNCHANGED <<sponsorPolicies, sponsoredUse, timestamp>>
    <3>1. ASSUME NEW s \in Subs, NEW caller \in Accounts,
                 \/ \E amount \in FundAmounts : FundSubscription(s, amount)
                 \/ \E amount \in WithdrawAmounts : WithdrawSubscription(s, caller, amount)
                 \/ CancelSubscription(s, caller)
                 \/ \E a \in NewOwners : RequestSubscriptionOwnerTransfer(s, caller, a)
                 \/ AcceptSubscriptionOwnerTransfer(s, caller)
          PROVE  OnlySubscriptionsChange
      BY <3>1, Zenon DEF FundSubscription, WithdrawSubscription, CancelSubscription,
         RequestSubscriptionOwnerTransfer, AcceptSubscriptionOwnerTransfer
    <3>2. ASSUME NEW s \in Subs, NEW caller \in Accounts, NEW c \in Consumers,
                 \/ \E l \in ConsumerLimits :
                        AddConsumer(s, caller, c, l) \/ UpdateConsumer(s, caller, c, l)
                 \/ RemoveConsumer(s, caller, c)
          PROVE  OnlyConsumersChange
      BY <3>2, Zenon DEF AddConsumer, UpdateConsumer, RemoveConsumer
    <3>3. SubscriptionNext => \/ \E caller \in Accounts : CreateSubscription(caller)
                              \/ OnlySubscriptionsChange \/ OnlyConsumersChange
      BY <3>1, <3>2 DEF SubscriptionNext
    <3> QED BY <3>3 DEF CreateSubscription, OnlySubscriptionsChange, OnlyConsumersChange,
               sponsorVars, clockVars
  <2> QED BY <2>1, <2>2 DEF BaseNext, WithdrawOperatorCredits, MineBlock, StoreBlockhash,
             subVars, sponsorVars, clockVars
<1> QED BY <1>1, <1>2, <1>3, <1>4, <1>5

\* A sponsored request is taken within the quota and counted.
LEMMA QuotaRequest ==
    ASSUME BaseTypeOK, QuotaTracked, NEW c \in Consumers, NEW supplied, NEW k, NEW p, NEW maxPayment,
           RequestRandomWords(c, supplied, k, p, maxPayment)
    PROVE  /\ QuotaTracked'
           /\ \A d \in Consumers : sponsoredUse'[d] > sponsoredUse[d] =>
                  sponsoredUse'[d] <= sponsorPolicies[d].requestsPerEpoch
<1>0. /\ sponsoredUse \in [Consumers -> Nat] /\ sponsorPolicies \in [Consumers -> PolicyType]
  BY DEF BaseTypeOK
<1>1. timestamp' = timestamp
  BY DEF RequestRandomWords, TakeReservation, clockVars
<1>2. CASE supplied # 0
  <2>1. UNCHANGED <<sponsorPolicies, sponsoredUse>>
    BY <1>2 DEF RequestRandomWords, TakeReservation, ResolveBilling
  <2> QED BY <1>0, <1>1, <2>1, QuotaKept
<1>3. CASE supplied = 0
  <2>1. /\ sponsorPolicies' = [sponsorPolicies EXCEPT ![c] = ConsumeSponsorQuota(sponsorPolicies[c])]
        /\ sponsoredUse' = [sponsoredUse EXCEPT ![c] = @ + 1]
        /\ QuotaUsed(sponsorPolicies[c]) < sponsorPolicies[c].requestsPerEpoch
    BY <1>3 DEF RequestRandomWords, TakeReservation, ResolveBilling, RequestAllowed
  <2>2. PICK q \in PolicyType : q = sponsorPolicies[c]
    BY <1>0
  <2>3. /\ ConsumeSponsorQuota(q).epoch = CurrentEpoch
        /\ ConsumeSponsorQuota(q).requestsInEpoch = QuotaUsed(q) + 1
        /\ ConsumeSponsorQuota(q).active = q.active
    BY DEF ConsumeSponsorQuota, PolicyType
  <2>4. /\ \A d \in Consumers \ {c} : /\ sponsorPolicies'[d] = sponsorPolicies[d]
                                      /\ sponsoredUse'[d] = sponsoredUse[d]
        /\ sponsorPolicies'[c].epoch = CurrentEpoch
        /\ sponsorPolicies'[c].requestsInEpoch = QuotaUsed(sponsorPolicies[c]) + 1
        /\ sponsoredUse'[c] = sponsoredUse[c] + 1
    BY <1>0, <2>1, <2>2, <2>3
  <2>5. sponsorPolicies'[c].active
    <3>1. sponsorPolicies[c].active
      BY <1>3 DEF RequestRandomWords, RequestAllowed, BillingAllowed
    <3> QED BY <1>0, <2>1, <2>2, <2>3, <3>1
  <2>6. /\ sponsoredUse[c] \in Nat /\ QuotaUsed(sponsorPolicies[c]) \in Nat
        /\ sponsorPolicies[c].requestsPerEpoch \in Nat
        /\ sponsoredUse[c] <= QuotaUsed(sponsorPolicies[c])
    BY QuotaTypes DEF QuotaTracked
  <2>7. QuotaTracked'
    <3>1. QuotaUsed(sponsorPolicies[c])' = QuotaUsed(sponsorPolicies[c]) + 1
      BY <1>1, <2>4 DEF QuotaUsed, CurrentEpoch
    <3>2. \A d \in Consumers \ {c} : QuotaUsed(sponsorPolicies[d])' = QuotaUsed(sponsorPolicies[d])
      BY <1>1, <2>4 DEF QuotaUsed, CurrentEpoch
    <3>3. sponsoredUse'[c] <= QuotaUsed(sponsorPolicies[c])'
      BY <2>4, <2>6, <3>1
    <3> QED BY <2>4, <2>5, <3>2, <3>3 DEF QuotaTracked
  <2>8. sponsoredUse'[c] <= sponsorPolicies[c].requestsPerEpoch
    BY <2>1, <2>4, <2>6
  <2> QED BY <1>0, <2>4, <2>7, <2>8
<1> QED BY <1>2, <1>3

\* A release only lowers the count of open requests.
LEMMA QuotaRelease ==
    ASSUME BaseTypeOK, QuotaTracked, NEW i \in RequestIds, NEW reserve, NEW sponsored, NEW charge,
           ReleaseReservation(i, reserve, sponsored, charge)
    PROVE  QuotaTracked' /\ UNCHANGED sponsoredUse
<1>1. sponsorPolicies \in [Consumers -> PolicyType] /\ ConsumerOf(i) \in Consumers
  BY DEF BaseTypeOK, RequestIds, ConsumerOf
<1>2. PICK c \in Consumers : c = ConsumerOf(i)
  BY <1>1
<1>3. /\ UNCHANGED <<sponsoredUse, timestamp>>
      /\ sponsorPolicies' = IF sponsored
             THEN [sponsorPolicies EXCEPT ![c].pendingRequests = @ - 1] ELSE sponsorPolicies
  BY <1>2 DEF ReleaseReservation, DecrementPending, clockVars
<1>4. \A d \in Consumers : /\ sponsorPolicies'[d].epoch = sponsorPolicies[d].epoch
                           /\ sponsorPolicies'[d].requestsInEpoch = sponsorPolicies[d].requestsInEpoch
                           /\ sponsorPolicies'[d].active = sponsorPolicies[d].active
  BY <1>1, <1>3 DEF PolicyType
<1> QED BY <1>3, <1>4, QuotaKept

LEMMA QuotaStep ==
    ASSUME V2Inv, V2Inv', QuotaTracked, [V2Next]_vars
    PROVE  /\ QuotaTracked'
           /\ \A c \in Consumers : sponsoredUse'[c] > sponsoredUse[c] =>
                  sponsoredUse'[c] <= sponsorPolicies[c].requestsPerEpoch
<1>1. BaseTypeOK /\ BaseTypeOK' /\ sponsoredUse \in [Consumers -> Nat]
  BY DEF V2Inv, TypeOK, BaseTypeOK
<1>2. CASE UNCHANGED <<sponsorVars, timestamp>>
  BY <1>1, <1>2, QuotaKept DEF sponsorVars
<1>3. CASE QuotaTracked' /\ UNCHANGED sponsoredUse
  BY <1>1, <1>3
<1>4. CASE BaseNext
  BY <1>1, <1>4, QuotaBase
<1>5. CASE UNCHANGED vars
  BY <1>2, <1>5 DEF vars, baseVars, subVars, clockVars
<1>6. CASE RequestNext
  <2>1. ASSUME NEW c \in Consumers, NEW supplied \in {0} \cup Subs, NEW k \in Keys,
               NEW p \in RequestParams, NEW maxPayment \in MaxPayments,
               RequestRandomWords(c, supplied, k, p, maxPayment)
        PROVE  /\ QuotaTracked'
               /\ \A d \in Consumers : sponsoredUse'[d] > sponsoredUse[d] =>
                      sponsoredUse'[d] <= sponsorPolicies[d].requestsPerEpoch
    BY <1>1, <2>1, QuotaRequest
  <2>2. ASSUME NEW i \in RequestIds, NEW caller, NEW gasPrice, NEW randomness, NEW success,
               \/ FulfillRandomWords(i, caller, gasPrice, randomness, success)
               \/ RetryCallback(i, success) \/ PruneRequest(i) \/ FinishRetry
        PROVE  UNCHANGED <<sponsorVars, timestamp>>
    BY <2>2 DEF FulfillRandomWords, RetryCallback, PruneRequest, FinishRetry, baseVars, subVars,
                clockVars
  <2>3. ASSUME FinishRetry PROVE UNCHANGED <<sponsorVars, timestamp>>
    BY <2>3 DEF FinishRetry, subVars, clockVars
  <2>4. ASSUME NEW i \in RequestIds, ExpireRequest(i) PROVE QuotaTracked' /\ UNCHANGED sponsoredUse
    BY <1>1, <2>4, QuotaRelease DEF ExpireRequest
  <2>5. ASSUME NEW gasUsed \in GasUses, NEW l1Cost \in L1Costs, SettleFulfillment(gasUsed, l1Cost)
        PROVE  QuotaTracked' /\ UNCHANGED sponsoredUse
    BY <1>1, <2>5, SettleCharge, QuotaRelease
  <2> QED BY <1>2, <1>3, <1>6, <2>1, <2>2, <2>3, <2>4, <2>5 DEF RequestNext
<1> QED BY <1>4, <1>5, <1>6 DEF V2Next

\* No sponsored request is accepted beyond the quota of its epoch, for any
\* number of sponsors, consumers and epochs: _consumeSponsorQuota resets the
\* counter lazily, and replacing a policy does not give the quota back.
THEOREM V2SponsorQuota == V2Spec => SponsorQuotaRespected
<1>1. V2Init => QuotaTracked
  BY DEF V2Init, BaseInit, QuotaTracked, NoPolicy, QuotaUsed, CurrentEpoch
<1>2. V2Inv /\ V2Inv' /\ QuotaTracked /\ [V2Next]_vars => QuotaTracked'
  BY QuotaStep
<1>3. V2Inv /\ V2Inv' /\ QuotaTracked /\ [V2Next]_vars =>
        [\A c \in Consumers : sponsoredUse'[c] > sponsoredUse[c] =>
            sponsoredUse'[c] <= sponsorPolicies[c].requestsPerEpoch]_vars
  BY QuotaStep
<1> QED BY <1>1, <1>2, <1>3, V2Invariant, PTL DEF V2Spec, SponsorQuotaRespected

-----------------------------------------------------------------------------
(* The books are exact *)

\* The requests that hold a reservation, what each holds, and the sponsored ones
heldIds == {i \in RequestIds : Holds(i)}
reservedFor == [i \in RequestIds |-> ReservedPayment(i)]
sponsoredIds == {i \in RequestIds : Sponsored(i)}

\* The inductive invariant.
BooksInv == HistoryInv /\ UnusedEmpty /\ Ledger(heldIds, reservedFor, sponsoredIds)

\* What is held for an open request does not change while its pins stay.
LEMMA HeldPins ==
    ASSUME V2Inv, Extends, NEW i \in RequestIds, Holds(i), SamePins(i)
    PROVE  /\ reservedFor'[i] = reservedFor[i] /\ reservedFor[i] \in Nat
           /\ reservedFor[i] = ReservedPayment(i)
           /\ (i \in sponsoredIds' <=> i \in sponsoredIds)
<1>1. requests[i].status # "none"
  BY DEF Holds, V2Inv, VersionsInSync
<1>2. ReservedPayment(i)' = ReservedPayment(i) /\ ReservedPayment(i) \in Nat
  BY <1>1, PinsDetermine, PinnedTypes DEF V2Inv
<1>3. Sponsored(i)' <=> Sponsored(i)
  BY DEF Sponsored, SamePins
<1> QED BY <1>2, <1>3 DEF reservedFor, sponsoredIds

\* A step that takes and gives up nothing.
LEMMA BooksQuiet ==
    ASSUME BooksInv, HistoryInv', UnusedEmpty', BooksKept, Extends,
           \A i \in RequestIds : (Holds(i)' <=> Holds(i)) /\ (Holds(i) => SamePins(i))
    PROVE  BooksInv'
<1>1. PICK H, amount, free : H = heldIds /\ amount = reservedFor /\ free = sponsoredIds
  OBVIOUS
<1>2. PICK amount2, free2 : amount2 = reservedFor' /\ free2 = sponsoredIds'
  OBVIOUS
<1>3. H = heldIds'
  BY <1>1 DEF heldIds
<1>4. \A i \in H : amount2[i] = amount[i] /\ (i \in free2 <=> i \in free)
  BY <1>1, <1>2, HeldPins DEF BooksInv, HistoryInv, heldIds
<1>5. Ledger(H, amount, free)
  BY <1>1 DEF BooksInv
<1>6. Ledger(H, amount2, free2)'
  BY <1>4, <1>5, LedgerKept
<1> QED BY <1>2, <1>3, <1>6 DEF BooksInv

\* The reservation of request i is given up.
LEMMA BooksGiven ==
    ASSUME BooksInv, HistoryInv', NEW i \in RequestIds, NEW charge \in Nat,
           charge <= ReservedPayment(i), Holds(i), ~Holds(i)', Extends,
           ReleaseReservation(i, ReservedPayment(i), Sponsored(i), charge),
           \A j \in RequestIds \ {i} : (Holds(j)' <=> Holds(j)) /\ (Holds(j) => SamePins(j))
    PROVE  BooksInv'
<1>1. PICK H, amount, free : H = heldIds /\ amount = reservedFor /\ free = sponsoredIds
  OBVIOUS
<1>2. PICK amount2, free2 : amount2 = reservedFor' /\ free2 = sponsoredIds'
  OBVIOUS
<1>3. PICK K : K = H \ {i}
  OBVIOUS
<1>4. K = heldIds' /\ K \cup {i} = H /\ i \notin K
  BY <1>1, <1>3 DEF heldIds
<1>5. \A j \in K : amount2[j] = amount[j] /\ (j \in free2 <=> j \in free)
  BY <1>1, <1>2, <1>3, HeldPins DEF BooksInv, HistoryInv, heldIds
<1>6. BaseTypeOK /\ UnusedEmpty /\ Ledger(K \cup {i}, amount, free)
  BY <1>1, <1>4 DEF BooksInv, HistoryInv, V2Inv, TypeOK
<1>7. ReservedPayment(i) \in Nat /\ Sponsored(i) \in BOOLEAN
  BY PinnedTypes DEF BooksInv, HistoryInv, V2Inv, Holds, VersionsInSync
<1>8. PICK r \in Nat, sponsored \in BOOLEAN : r = ReservedPayment(i) /\ sponsored = Sponsored(i)
  BY <1>7
<1>9. r = amount[i] /\ (sponsored <=> i \in free)
  BY <1>1, <1>7, <1>8 DEF reservedFor, sponsoredIds
<1>10. ReleaseReservation(i, r, sponsored, charge)
  BY <1>8
<1>11. GivenBooks(i, r, sponsored, charge) /\ UnusedEmpty'
  BY <1>6, <1>10, ReleaseBooks
<1>12. GivenBooks(i, r, i \in free, charge)
  BY <1>9, <1>11 DEF GivenBooks
<1>13. charge <= r
  BY <1>8
<1>14. Ledger(K, amount2, free2)'
  BY <1>4, <1>5, <1>6, <1>9, <1>12, <1>13, LedgerGiven
<1> QED BY <1>2, <1>4, <1>11, <1>14 DEF BooksInv

\* A reservation is taken for a new request.
LEMMA BooksRequest ==
    ASSUME BooksInv, HistoryInv', NEW c \in Consumers, NEW supplied \in {0} \cup Subs,
           NEW k \in Keys, NEW p \in RequestParams, NEW maxPayment,
           RequestRandomWords(c, supplied, k, p, maxPayment)
    PROVE  BooksInv'
<1>1. PICK b : b = ResolveBilling(c, supplied)
  OBVIOUS
<1>2. PICK s : s = b.subscriptionId
  OBVIOUS
<1>3. PICK reserve : reserve = QuoteMaxPayment(k, p, b)
  OBVIOUS
<1>4. /\ RequestAllowed(c, supplied, k, p, maxPayment) /\ TakeReservation(c, b, reserve)
      /\ frame' = frame /\ UNCHANGED adminVars
  BY <1>1, <1>3 DEF RequestRandomWords, TakeReservation
<1>5. V2Inv /\ BaseTypeOK /\ UnusedEmpty /\ VersionsCurrent
  BY DEF BooksInv, HistoryInv, V2Inv, TypeOK, VersionsInSync
<1>6. /\ s \in Subs /\ NextRequestId(c, s, k) \in RequestIds /\ b.sponsored \in BOOLEAN
      /\ reserve \in Nat
      /\ b.sponsored => s = sponsorPolicies[c].subscriptionId
  BY <1>1, <1>2, <1>3, <1>4, <1>5, AcceptedRequest
<1>7. PICK n \in RequestIds : n = NextRequestId(c, s, k)
  BY <1>6
<1>8. ~terms[n].issued /\ requests[n].status = "none"
  BY <1>6, <1>7, FreshId DEF BooksInv
<1>9. requests \in [RequestIds -> RequestType] /\ terms \in [RequestIds -> TermsType]
  BY <1>5 DEF V2Inv, TypeOK
<1>10. /\ \A j \in RequestIds \ {n} : requests'[j] = requests[j]
       /\ requests'[n].status = "pending" /\ terms'[n].reserve = reserve
       /\ requests'[n].billing.sponsored = b.sponsored
  BY <1>1, <1>2, <1>3, <1>7, <1>9 DEF RequestRandomWords
<1>11. ~Holds(n) /\ Holds(n)' /\ \A j \in RequestIds \ {n} : (Holds(j)' <=> Holds(j))
  BY <1>4, <1>8, <1>10 DEF Holds, RequestAllowed, Unlocked
<1>12. ReservedPayment(n)' = reserve
  BY <1>10 DEF HistoryInv, V2Inv, PinnedTerms
<1>13. PICK H, amount, free : H = heldIds /\ amount = reservedFor /\ free = sponsoredIds
  OBVIOUS
<1>14. PICK amount2, free2 : amount2 = reservedFor' /\ free2 = sponsoredIds'
  OBVIOUS
<1>15. H \cup {n} = heldIds' /\ n \notin H
  BY <1>11, <1>13 DEF heldIds
<1>16. amount2[n] = reserve /\ (n \in free2 <=> b.sponsored)
  BY <1>10, <1>12, <1>14 DEF reservedFor, sponsoredIds, Sponsored
<1>17. \A j \in H : amount2[j] = amount[j] /\ (j \in free2 <=> j \in free)
  <2>1. Extends
    BY <1>4, <1>5, SameVersions
  <2>2. \A j \in RequestIds \ {n} : SamePins(j)
    BY <1>10 DEF SamePins
  <2> QED BY <1>5, <1>13, <1>14, <1>15, <2>1, <2>2, HeldPins DEF heldIds
<1>18. /\ RequireSubscription(s) /\ subscriptions[s].balance - subscriptions[s].reserved >= reserve
  BY <1>1, <1>2, <1>3, <1>4 DEF RequestAllowed, BillingAllowed
<1>19. PICK sponsored \in BOOLEAN : sponsored = b.sponsored
  BY <1>6
<1>20. TakenBooks(n, reserve, sponsored) /\ UnusedEmpty'
  <2>1. sponsored <=> b.sponsored
    BY <1>19
  <2> QED BY <1>2, <1>4, <1>5, <1>6, <1>7, <1>18, <2>1, TakeReservationBooks
<1>21. TakenBooks(n, amount2[n], n \in free2)
  BY <1>16, <1>19, <1>20 DEF TakenBooks
<1>22. Ledger(H, amount, free) /\ amount2[n] \in Nat
  BY <1>6, <1>13, <1>16 DEF BooksInv
<1>23. Ledger(H \cup {n}, amount2, free2)'
  BY <1>15, <1>17, <1>21, <1>22, LedgerTaken
<1> QED BY <1>14, <1>15, <1>20, <1>23 DEF BooksInv

\* A callback opens or closes, or a finished request is forgotten: the set of
\* the held reservations stays, because a fulfilment holds its own until it is
\* settled.
LEMMA BooksCallback ==
    ASSUME BooksInv, HistoryInv', NEW i \in RequestIds,
           \/ \E caller \in Operators, gasPrice \in GasPrices, randomness \in Outputs,
                 success \in BOOLEAN : FulfillRandomWords(i, caller, gasPrice, randomness, success)
           \/ \E success \in BOOLEAN : RetryCallback(i, success)
           \/ PruneRequest(i)
           \/ FinishRetry /\ frame.arg = i
    PROVE  BooksInv'
<1>1. V2Inv /\ requests \in [RequestIds -> RequestType] /\ requests[i] \in RequestType
      /\ UnusedEmpty
  BY DEF BooksInv, HistoryInv, V2Inv, TypeOK
<1>2. UNCHANGED <<adminVars, subVars>>
  BY DEF FulfillRandomWords, RetryCallback, PruneRequest, FinishRetry, baseVars
<1>3. Extends /\ BooksKept /\ UnusedEmpty'
  BY <1>1, <1>2, SameVersions, SubsUnchanged
<1>4. \A j \in RequestIds \ {i} : requests'[j] = requests[j]
  BY <1>1 DEF FulfillRandomWords, RetryCallback, PruneRequest, FinishRetry
<1>5. \A j \in RequestIds \ {i} : (Holds(j)' <=> Holds(j)) /\ SamePins(j)
  <2>1. \A j \in RequestIds \ {i} : Holds(j)' <=> Holds(j)
    <3>1. \/ frame.kind = "idle" /\ (frame' = frame \/ frame'.arg = i)
          \/ frame.arg = i /\ frame'.kind = "idle"
      <4>1. ASSUME NEW caller, NEW gasPrice, NEW randomness, NEW success,
                   FulfillRandomWords(i, caller, gasPrice, randomness, success)
            PROVE  frame.kind = "idle" /\ frame'.arg = i
        BY <4>1 DEF FulfillRandomWords, Unlocked
      <4>2. ASSUME NEW success, RetryCallback(i, success)
            PROVE  frame.kind = "idle" /\ frame'.arg = i
        BY <4>2 DEF RetryCallback, Unlocked
      <4>3. ASSUME PruneRequest(i) PROVE frame.kind = "idle" /\ frame' = frame
        BY <4>3 DEF PruneRequest, Unlocked, baseVars
      <4>4. ASSUME FinishRetry PROVE frame'.kind = "idle"
        BY <4>4 DEF FinishRetry, Idle
      <4> QED BY <4>1, <4>2, <4>3, <4>4
    <3> QED BY <1>4, <3>1 DEF Holds
  <2> QED BY <1>4, <2>1 DEF SamePins
<1>6. (Holds(i)' <=> Holds(i)) /\ (Holds(i) => SamePins(i))
  <2>1. ASSUME NEW caller, NEW gasPrice, NEW randomness, NEW success,
               FulfillRandomWords(i, caller, gasPrice, randomness, success)
        PROVE  Holds(i)' /\ Holds(i) /\ SamePins(i)
    <3>1. requests[i].status = "pending" /\ frame'.kind = "fulfill" /\ frame'.arg = i
      BY <2>1 DEF FulfillRandomWords
    <3>2. SamePins(i)
      BY <1>1, <2>1 DEF FulfillRandomWords, SamePins, RequestType
    <3> QED BY <3>1, <3>2 DEF Holds
  <2>2. ASSUME NEW success, RetryCallback(i, success)
        PROVE  ~Holds(i)' /\ ~Holds(i)
    <3>1. /\ requests[i].status = "fulfilled" /\ requests'[i].status = "fulfilled"
          /\ frame'.kind = "retry" /\ frame.kind = "idle"
      BY <1>1, <2>2 DEF RetryCallback, Unlocked, RequestType
    <3> QED BY <3>1 DEF Holds
  <2>3. ASSUME PruneRequest(i) PROVE ~Holds(i)' /\ ~Holds(i)
    <3>1. /\ requests[i].status # "pending" /\ requests'[i].status = "none"
          /\ frame'.kind = "idle" /\ frame.kind = "idle"
      BY <1>1, <2>3 DEF PruneRequest, Unlocked, baseVars, NoRequest
    <3> QED BY <3>1 DEF Holds
  <2>4. ASSUME FinishRetry, frame.arg = i PROVE ~Holds(i)' /\ ~Holds(i)
    <3>1. requests[i].status = "fulfilled"
      BY <1>1, <2>4 DEF V2Inv, VersionsInSync, FinishRetry
    <3>2. requests'[i].status = "fulfilled" /\ frame.kind = "retry" /\ frame'.kind = "idle"
      BY <1>1, <2>4, <3>1 DEF FinishRetry, Idle, RequestType
    <3> QED BY <3>1, <3>2 DEF Holds
  <2> QED BY <2>1, <2>2, <2>3, <2>4
<1> QED BY <1>3, <1>5, <1>6, BooksQuiet

\* Expiry gives up the reservation of a pending request.
LEMMA BooksExpire ==
    ASSUME BooksInv, HistoryInv', NEW i \in RequestIds, ExpireRequest(i)
    PROVE  BooksInv'
<1>1. V2Inv /\ requests \in [RequestIds -> RequestType] /\ requests[i] \in RequestType
  BY DEF BooksInv, HistoryInv, V2Inv, TypeOK
<1>2. /\ ReleaseReservation(i, ReservedPayment(i), Sponsored(i), 0) /\ UNCHANGED adminVars
      /\ requests[i].status = "pending" /\ frame.kind = "idle" /\ frame' = frame
      /\ requests'[i].status = "expired"
      /\ \A j \in RequestIds \ {i} : requests'[j] = requests[j]
  BY <1>1 DEF ExpireRequest, ReleaseReservation, Unlocked, RequestType
<1>3. Holds(i) /\ ~Holds(i)' /\ \A j \in RequestIds \ {i} : (Holds(j)' <=> Holds(j)) /\ SamePins(j)
  BY <1>2 DEF Holds, SamePins
<1>4. Extends
  BY <1>1, <1>2, SameVersions
<1>5. 0 \in Nat /\ 0 <= ReservedPayment(i)
  BY <1>1, <1>2, PinnedTypes DEF V2Inv
<1> QED BY <1>2, <1>3, <1>4, <1>5, BooksGiven

\* A settlement gives it up and charges within it.
LEMMA BooksSettle ==
    ASSUME BooksInv, HistoryInv', NEW gasUsed \in GasUses, NEW l1Cost \in L1Costs,
           SettleFulfillment(gasUsed, l1Cost)
    PROVE  BooksInv'
<1>1. V2Inv /\ requests \in [RequestIds -> RequestType]
  BY DEF BooksInv, HistoryInv, V2Inv, TypeOK
<1>2. PICK i \in RequestIds, charge \in Nat :
               /\ frame.arg = i /\ frame.kind = "fulfill"
               /\ requests[i].status = "fulfilled"
               /\ charge <= ReservedPayment(i)
               /\ ReleaseReservation(i, ReservedPayment(i), Sponsored(i), charge)
               /\ requests' = [requests EXCEPT ![i].callbackSucceeded = frame.success]
               /\ frame' = Idle
  BY <1>1, SettleCharge
<1>3. /\ requests'[i].status = "fulfilled"
      /\ \A j \in RequestIds \ {i} : requests'[j] = requests[j]
      /\ frame'.kind = "idle" /\ UNCHANGED adminVars
  BY <1>1, <1>2 DEF Idle, RequestType, ReleaseReservation
<1>4. Holds(i) /\ ~Holds(i)' /\ \A j \in RequestIds \ {i} : (Holds(j)' <=> Holds(j)) /\ SamePins(j)
  BY <1>2, <1>3 DEF Holds, SamePins
<1>5. Extends
  BY <1>1, <1>3, SameVersions
<1> QED BY <1>2, <1>4, <1>5, BooksGiven

LEMMA BooksInit == V2Init => BooksInv
<1> SUFFICES ASSUME V2Init PROVE BooksInv
  OBVIOUS
<1>1. HistoryInv
  BY HistoryInit
<1>2. heldIds = {}
  BY DEF heldIds, Holds, V2Init, BaseInit, NoRequest, Idle
<1>3. PICK amount, free : amount = reservedFor /\ free = sponsoredIds
  OBVIOUS
<1>4. Ledger({}, amount, free)
  BY LedgerEmpty DEF V2Init, BaseInit
<1>5. UnusedEmpty
  BY DEF V2Init, BaseInit, UnusedEmpty
<1> QED BY <1>1, <1>2, <1>3, <1>4, <1>5 DEF BooksInv

LEMMA BooksStep == BooksInv /\ [V2Next]_vars => BooksInv'
<1> SUFFICES ASSUME BooksInv, [V2Next]_vars PROVE BooksInv'
  OBVIOUS
<1>1. HistoryInv'
  BY HistoryStep DEF BooksInv
<1>2. V2Inv /\ BaseTypeOK /\ VersionsCurrent /\ UnusedEmpty /\ frame \in FrameType \cup {Idle}
  BY DEF BooksInv, HistoryInv, V2Inv, TypeOK, VersionsInSync
<1>3. CASE BaseNext /\ UNCHANGED reqVars
  <2>1. BooksKept /\ UnusedEmpty'
    BY <1>2, <1>3, BaseBooks
  <2>2. Extends
    BY <1>2, <1>3, VersionsGrow DEF Extends
  <2>3. requests' = requests /\ frame' = frame
    BY <1>3, WhoChangesVersions DEF reqVars
  <2>4. \A i \in RequestIds : (Holds(i)' <=> Holds(i)) /\ SamePins(i)
    BY <2>3 DEF Holds, SamePins
  <2> QED BY <1>1, <2>1, <2>2, <2>4, BooksQuiet
<1>4. CASE RequestNext
  <2>1. CASE FinishRetry
    <3>1. PICK i \in RequestIds : frame.arg = i
      BY <1>2, <2>1 DEF FinishRetry, FrameType, Idle
    <3> QED BY <1>1, <2>1, <3>1, BooksCallback
  <2> QED BY <1>1, <1>4, <2>1, BooksRequest, BooksCallback, BooksExpire, BooksSettle
          DEF RequestNext
<1>5. CASE UNCHANGED vars
  <2>1. UNCHANGED <<adminVars, subVars, requests, frame>>
    BY <1>5 DEF vars, baseVars, reqVars
  <2>2. Extends /\ BooksKept /\ UnusedEmpty'
    BY <1>2, <2>1, SameVersions, SubsUnchanged
  <2>3. \A i \in RequestIds : (Holds(i)' <=> Holds(i)) /\ SamePins(i)
    BY <2>1 DEF Holds, SamePins
  <2> QED BY <1>1, <2>2, <2>3, BooksQuiet
<1> QED BY <1>3, <1>4, <1>5 DEF V2Next

\* The counters and amounts are exact in every reachable state.
THEOREM V2Books == V2Spec => []BooksInv
<1> QED BY BooksInit, BooksStep, PTL DEF V2Spec

\* Every subscription holds back exactly the wei of its unsettled requests and
\* owns at least that much, although a reservation is quoted from the current
\* price and given up at one recomputed from old versions.
THEOREM V2ReservationsBacked == V2Spec => []ReservationsBacked
<1>1. BooksInv => ReservationsBacked
  <2> SUFFICES ASSUME BooksInv, NEW s \in Subs
               PROVE  /\ subscriptions[s].reserved = Cardinality(HeldWei(s))
                      /\ subscriptions[s].reserved <= subscriptions[s].balance
    BY DEF ReservationsBacked
  <2>1. HeldWei(s) = WeiOf(heldIds, reservedFor, s)
    <3>1. {j \in RequestIds : SubOf(j) = s /\ Holds(j)} = {j \in heldIds : SubOf(j) = s}
      BY DEF heldIds
    <3>2. \A j \in heldIds : ReservedPayment(j) = reservedFor[j]
      BY DEF heldIds, reservedFor
    <3> QED BY <3>1, <3>2 DEF HeldWei, WeiOf
  <2> QED BY <2>1 DEF BooksInv, Ledger
<1> QED BY <1>1, V2Books, PTL

\* The pending counters of consumers and sponsor policies count the unsettled
\* requests, and the sponsored ones are paid by the subscription of the policy:
\* so removeConsumer and removeSponsorPolicy never run under an open request.
THEOREM V2PendingExact == V2Spec => []PendingExact
<1>1. BooksInv => PendingExact
  <2> SUFFICES ASSUME BooksInv PROVE PendingExact
    OBVIOUS
  <2>1. /\ \A sc \in Subs \X Consumers : HeldBy(sc) = RequestsOf(heldIds, sc)
        /\ \A c \in Consumers : SponsoredHeldBy(c) = SponsoredOf(heldIds, sponsoredIds, c)
    BY DEF HeldBy, RequestsOf, SponsoredHeldBy, SponsoredOf, heldIds, sponsoredIds
  <2> QED BY <2>1 DEF PendingExact, BooksInv, Ledger
<1> QED BY <1>1, V2Books, PTL

-----------------------------------------------------------------------------
(* Ether is conserved *)

LEMMA SolventStep == BooksInv /\ BooksInv' /\ SolventInv /\ [V2Next]_vars => SolventInv'
<1> SUFFICES ASSUME BooksInv, BooksInv', SolventInv, [V2Next]_vars PROVE SolventInv'
  OBVIOUS
<1>1. V2Inv /\ BaseTypeOK /\ BaseTypeOK' /\ UnusedEmpty
  BY DEF BooksInv, HistoryInv, V2Inv, TypeOK
<1>2. CASE BaseNext /\ UNCHANGED reqVars
  BY <1>1, <1>2, BaseSolvent
<1>3. CASE UNCHANGED <<subVars, creditVars>>
  BY <1>1, <1>3, SolventSame DEF subVars
<1>4. ASSUME NEW c \in Consumers, NEW supplied, NEW k, NEW p, NEW maxPayment,
             RequestRandomWords(c, supplied, k, p, maxPayment)
      PROVE  SolventInv'
  <2>1. PICK b, reserve : TakeReservation(c, b, reserve)
    BY <1>4 DEF RequestRandomWords
  <2> QED BY <1>1, <2>1, ReserveSolvent
<1>5. ASSUME NEW i \in RequestIds, ExpireRequest(i) PROVE SolventInv'
  <2>1. PICK reserve, sponsored : ReleaseReservation(i, reserve, sponsored, 0)
    BY <1>5 DEF ExpireRequest
  <2>2. UNCHANGED creditVars
    BY <1>5 DEF ExpireRequest
  <2> QED BY <1>1, <2>1, <2>2, ReserveSolvent
<1>6. ASSUME NEW gasUsed \in GasUses, NEW l1Cost \in L1Costs, SettleFulfillment(gasUsed, l1Cost)
      PROVE  SolventInv'
  <2>1. PICK i \in RequestIds, networkCost \in Nat, charge \in Nat :
               /\ requests[i].status = "fulfilled" /\ charge >= networkCost
               /\ ReleaseReservation(i, ReservedPayment(i), Sponsored(i), charge)
               /\ CreditCharge(ServiceOf(i).payee, networkCost, charge,
                               PriceOf(i).operatorPremiumShareBps)
    BY <1>1, <1>6, SettleCharge
  <2>2. /\ ReservedPayment(i) \in Nat /\ ServiceOf(i).payee \in Operators
        /\ Sponsored(i) \in BOOLEAN
        /\ PriceOf(i).operatorPremiumShareBps \in Nat
    BY <1>1, <2>1, PinnedTypes DEF V2Inv, PricingConfig, KeyService
  <2>3. PICK reserve \in Nat, sponsored \in BOOLEAN, payee \in Operators, share \in Nat :
            /\ reserve = ReservedPayment(i) /\ sponsored = Sponsored(i)
            /\ payee = ServiceOf(i).payee /\ share = PriceOf(i).operatorPremiumShareBps
    BY <2>2
  <2>4. /\ ReleaseReservation(i, reserve, sponsored, charge)
        /\ CreditCharge(payee, networkCost, charge, share)
    BY <2>1, <2>3
  <2> QED BY <1>1, <2>1, <2>4, SettleSolvent
<1>7. CASE RequestNext
  <2>1. ASSUME NEW i \in RequestIds, NEW caller, NEW gasPrice, NEW randomness, NEW success,
               FulfillRandomWords(i, caller, gasPrice, randomness, success)
        PROVE  UNCHANGED <<subVars, creditVars>>
    BY <2>1 DEF FulfillRandomWords
  <2>2. ASSUME NEW i \in RequestIds, NEW success, RetryCallback(i, success)
        PROVE  UNCHANGED <<subVars, creditVars>>
    BY <2>2 DEF RetryCallback
  <2>3. ASSUME NEW i \in RequestIds, PruneRequest(i) PROVE UNCHANGED <<subVars, creditVars>>
    BY <2>3 DEF PruneRequest, baseVars
  <2>4. ASSUME FinishRetry PROVE UNCHANGED <<subVars, creditVars>>
    BY <2>4 DEF FinishRetry
  <2> QED BY <1>3, <1>4, <1>5, <1>6, <1>7, <2>1, <2>2, <2>3, <2>4 DEF RequestNext
<1> QED BY <1>2, <1>3, <1>7 DEF V2Next, vars, baseVars

\* The ether of the contract is what it owes to subscriptions, operators and the
\* treasury, through payments, payouts, expiries and settlements: the split of a
\* charge rounds the operator's share, and the treasury gets exactly the rest.
THEOREM V2Solvent == V2Spec => []Solvent
<1>1. V2Init => SolventInv
  BY SolventInit DEF V2Init
<1>2. SolventInv => Solvent
  BY DEF SolventInv
<1> QED BY <1>1, <1>2, SolventStep, V2Books, PTL DEF V2Spec

-----------------------------------------------------------------------------
(* No release reverts *)

\* The checked subtractions of _settle and expireRequest cannot fail.
ReleaseNeverReverts == \A i \in RequestIds : Holds(i) =>
    /\ CanRelease(i, ReservedPayment(i), Sponsored(i))
    /\ subscriptions[SubOf(i)].balance >= ReservedPayment(i)

\* As long as a request holds a reservation, its subscription has the wei and
\* the counters are at least one: neither expiry nor a settlement within the
\* reservation is ever blocked by an underflow, whatever owners, sponsors and
\* other requests did in between.
THEOREM V2ReleaseNeverReverts == V2Spec => []ReleaseNeverReverts
<1>1. BooksInv => ReleaseNeverReverts
  <2> SUFFICES ASSUME BooksInv, NEW i \in RequestIds, Holds(i)
               PROVE  /\ CanRelease(i, ReservedPayment(i), Sponsored(i))
                      /\ subscriptions[SubOf(i)].balance >= ReservedPayment(i)
    BY DEF ReleaseNeverReverts
  <2>1. ReservedPayment(i) \in Nat /\ Sponsored(i) \in BOOLEAN /\ BaseTypeOK
    BY PinnedTypes DEF BooksInv, HistoryInv, V2Inv, Holds, VersionsInSync, TypeOK
  <2>2. PICK r \in Nat : r = ReservedPayment(i)
    BY <2>1
  <2>9. PICK H, amount, free :
            H = heldIds /\ amount = reservedFor /\ free = sponsoredIds
    OBVIOUS
  <2>3. Ledger(H, amount, free) /\ i \in H /\ r = amount[i] /\ (Sponsored(i) => i \in free)
    BY <2>2, <2>9 DEF BooksInv, heldIds, reservedFor, sponsoredIds
  <2>4. /\ subscriptions[SubOf(i)].reserved >= r /\ subscriptions[SubOf(i)].balance >= r
        /\ consumers[PairOf(i)].pendingRequests >= 1
        /\ i \in free => sponsorPolicies[ConsumerOf(i)].pendingRequests >= 1
    BY <2>1, <2>3, LedgerCovers
  <2> QED BY <2>2, <2>3, <2>4 DEF CanRelease
<1> QED BY <1>1, V2Books, PTL
=============================================================================
