----------------------- MODULE VRFServiceCoordinatorV2 -----------------------
(***************************************************************************)
(* contracts/VRFServiceCoordinatorV2.sol: a request is stored on chain and *)
(* pins the version of its key and of its price; the reservation and the   *)
(* expiry are recomputed from those versions when they are needed.         *)
(***************************************************************************)
EXTENDS VRFServiceCoordinatorBase

VARIABLES
    requests,           \* s_requests
    terms,              \* history: what was agreed when a request was made
    charged             \* history: what a subscription paid for a request

reqVars == <<requests, terms, charged>>
vars == <<baseVars, reqVars>>

NoRequest == [status |-> "none", requestBlock |-> 0, pricingVersion |-> 0,
              keyVersion |-> 0,
              params |-> [callbackGasLimit |-> 0, numWords |-> 0, confirmations |-> 0],
              billing |-> [premiumBps |-> 0, sponsored |-> FALSE,
                           waiveMinimumFee |-> FALSE],
              randomness |-> NoOutput, callbackAttempts |-> 0,
              callbackSucceeded |-> FALSE]
NoTerms == [issued |-> FALSE, reserve |-> 0, expiresAt |-> 0, service |-> NoService]

V2Init ==
    /\ BaseInit
    /\ requests = [i \in RequestIds |-> NoRequest]
    /\ terms = [i \in RequestIds |-> NoTerms]
    /\ charged = [i \in RequestIds |-> 0]

-----------------------------------------------------------------------------
(* What the contract recomputes from a stored request *)

PriceOf(i) == pricingVersions[requests[i].pricingVersion]
\* Mutant: a request is served by whoever has the key now.
ServiceNow(i) == keys[i[4]].service
ServiceOf(i) == keyVersions[requests[i].keyVersion].service
Sponsored(i) == requests[i].billing.sponsored

\* Mutant: the reservation is recomputed from the present price.
ReservedPaymentNow(i) ==
    QuotePayment(ServiceOf(i), requests[i].params, requests[i].billing, pricing)
ReservedPayment(i) ==
    QuotePayment(ServiceOf(i), requests[i].params, requests[i].billing, PriceOf(i))
ExpiresAtBlock(i) == requests[i].requestBlock + PriceOf(i).requestTimeoutBlocks

\* requestSeed does not revert
SeedReady(i) ==
    /\ blockNumber <= ExpiresAtBlock(i)
    /\ blockNumber >= requests[i].requestBlock + requests[i].params.confirmations
    /\ HashAvailable(requests[i].requestBlock)

-----------------------------------------------------------------------------
(* The functions of the contract *)

RequestRandomWords(c, supplied, k, p, maxPayment) ==
    LET b == ResolveBilling(c, supplied)
        reserve == QuoteMaxPayment(k, p, b)
        id == NextRequestId(c, b.subscriptionId, k)
    IN
    /\ RequestAllowed(c, supplied, k, p, maxPayment)
    /\ TakeReservation(c, b, reserve)
    /\ requests' = [requests EXCEPT ![id] =
           [status |-> "pending", requestBlock |-> blockNumber,
            pricingVersion |-> Len(pricingVersions),
            keyVersion |-> currentKeyVersions[k], params |-> p,
            billing |-> [premiumBps |-> b.premiumBps, sponsored |-> b.sponsored,
                         waiveMinimumFee |-> b.waiveMinimumFee],
            randomness |-> NoOutput, callbackAttempts |-> 0,
            callbackSucceeded |-> FALSE]]
    /\ terms' = [terms EXCEPT ![id] =
           [issued |-> TRUE, reserve |-> reserve,
            expiresAt |-> blockNumber + pricing.requestTimeoutBlocks,
            service |-> keys[k].service]]
    /\ UNCHANGED charged

\* fulfillRandomWords up to the consumer's callback, which is going to succeed or
\* to fail.  The result is stored, and the attempt counted, before the call.
FulfillRandomWords(i, caller, gasPrice, randomness, success) ==
    /\ Unlocked
    /\ requests[i].status = "pending"
    /\ caller = ServiceOf(i).fulfiller
    /\ gasPrice <= ServiceOf(i).maxGasPriceWei
    /\ SeedReady(i)
    /\ requests' = [requests EXCEPT ![i].status = "fulfilled",
                                    ![i].randomness = randomness,
                                    ![i].callbackAttempts = @ + 1]
    /\ frame' = [kind |-> "fulfill", arg |-> i, success |-> success,
                 gasPrice |-> gasPrice]
    /\ UNCHANGED <<clockVars, adminVars, subVars, creditVars, terms, charged>>

\* Mutant: no limit on the charge.
ChargeUnlimited(i, charge) == TRUE

\* A charge above the reservation reverts the transaction.
ChargeAllowed(i, charge) == charge <= ReservedPayment(i)

\* The rest of fulfillRandomWords: the callback's outcome, the price of the work
\* and _settle.
SettleFulfillment(gasUsed, l1Cost) ==
    LET i == frame.arg
        config == PriceOf(i)
        b == requests[i].billing
        networkCost == (gasUsed + config.fulfillmentOverheadGas) * frame.gasPrice + l1Cost
        charge == ApplyPrice(networkCost, b.premiumBps,
                      IF b.waiveMinimumFee THEN 0 ELSE config.minimumRequestFeeWei)
    IN
    /\ frame.kind = "fulfill"
    /\ ChargeAllowed(i, charge)
    /\ ReleaseReservation(i, ReservedPayment(i), Sponsored(i), charge)
    /\ CreditCharge(ServiceOf(i).payee, networkCost, charge,
                    config.operatorPremiumShareBps)
    /\ requests' = [requests EXCEPT ![i].callbackSucceeded = frame.success]
    /\ charged' = [charged EXCEPT ![i] = @ + charge]
    /\ frame' = Idle
    /\ UNCHANGED terms

\* retryCallback up to the call, and the rest of it; anybody may call it
RetryCallback(i, success) ==
    /\ Unlocked
    /\ requests[i].status = "fulfilled" /\ ~requests[i].callbackSucceeded
    /\ requests[i].callbackAttempts < MaxAttempts
    /\ requests' = [requests EXCEPT ![i].callbackAttempts = @ + 1]
    /\ frame' = [kind |-> "retry", arg |-> i, success |-> success, gasPrice |-> 0]
    /\ UNCHANGED <<clockVars, adminVars, subVars, creditVars, terms, charged>>

FinishRetry ==
    /\ frame.kind = "retry"
    /\ requests' = [requests EXCEPT ![frame.arg].callbackSucceeded = frame.success]
    /\ frame' = Idle
    /\ UNCHANGED <<clockVars, adminVars, subVars, creditVars, terms, charged>>

\* Anybody may expire a request, or delete an old one.
ExpireRequest(i) ==
    /\ Unlocked
    /\ requests[i].status = "pending"
    /\ blockNumber > ExpiresAtBlock(i)
    /\ requests' = [requests EXCEPT ![i].status = "expired"]
    /\ ReleaseReservation(i, ReservedPayment(i), Sponsored(i), 0)
    /\ UNCHANGED <<creditVars, frame, terms, charged>>

PruneRequest(i) ==
    /\ Unlocked
    /\ requests[i].status \in {"fulfilled", "expired"}
    /\ blockNumber > ExpiresAtBlock(i) + PRUNE_DELAY_BLOCKS
    /\ requests' = [requests EXCEPT ![i] = NoRequest]
    /\ UNCHANGED <<baseVars, terms, charged>>

RequestNext ==
    \/ \E c \in Consumers, supplied \in {0} \cup Subs, k \in Keys,
          p \in RequestParams, maxPayment \in MaxPayments :
              RequestRandomWords(c, supplied, k, p, maxPayment)
    \/ \E i \in RequestIds :
        \/ \E caller \in Operators, gasPrice \in GasPrices,
              randomness \in Outputs, success \in BOOLEAN :
                  FulfillRandomWords(i, caller, gasPrice, randomness, success)
        \/ \E success \in BOOLEAN : RetryCallback(i, success)
        \/ ExpireRequest(i)
        \/ PruneRequest(i)
    \/ \E gasUsed \in GasUses, l1Cost \in L1Costs : SettleFulfillment(gasUsed, l1Cost)
    \/ FinishRetry

V2Next == (BaseNext /\ UNCHANGED reqVars) \/ RequestNext

V2Spec == V2Init /\ [][V2Next]_vars

-----------------------------------------------------------------------------
(* Correctness *)

\* A reservation is held for i: until it is settled or released.
Holds(i) == \/ requests[i].status = "pending"
            \/ frame.kind = "fulfill" /\ frame.arg = i

\* The reserved wei of s, one element <<i, n>> for each wei held for request i
HeldWei(s) == UNION {{i} \X (1..ReservedPayment(i)) :
                        i \in {j \in RequestIds : SubOf(j) = s /\ Holds(j)}}
HeldBy(sc) == {i \in RequestIds : PairOf(i) = sc /\ Holds(i)}
SponsoredHeldBy(c) ==
    {i \in RequestIds : ConsumerOf(i) = c /\ Holds(i) /\ Sponsored(i)}

RequestType == [status : {"none", "pending", "fulfilled", "expired"},
                requestBlock : Nat, pricingVersion : Nat, keyVersion : Nat,
                params : [callbackGasLimit : Nat, numWords : Nat, confirmations : Nat],
                billing : [premiumBps : Nat, sponsored : BOOLEAN, waiveMinimumFee : BOOLEAN],
                randomness : Outputs \cup {NoOutput}, callbackAttempts : Nat,
                callbackSucceeded : BOOLEAN]
TermsType == [issued : BOOLEAN, reserve : Nat, expiresAt : Nat,
              service : KeyServices \cup {NoService}]
FrameType == [kind : {"fulfill", "retry"}, arg : RequestIds,
              success : BOOLEAN, gasPrice : Nat]

\* The type of every variable of the contract.
TypeOK ==
    /\ BaseTypeOK
    /\ frame \in FrameType \cup {Idle}
    /\ requests \in [RequestIds -> RequestType]
    /\ terms \in [RequestIds -> TermsType]
    /\ charged \in [RequestIds -> Nat]

\* Every subscription holds back exactly the wei of its unsettled requests and
\* owns at least that much, although requestRandomWords adds a price quoted
\* from the current configuration and settlement and expiry subtract one
\* recomputed from old versions.
ReservationsBacked == \A s \in Subs :
    /\ subscriptions[s].reserved = Cardinality(HeldWei(s))
    /\ subscriptions[s].reserved <= subscriptions[s].balance

\* The counters that guard removeConsumer, removeSponsorPolicy and the pending
\* limits count the unsettled requests, even while a callback is open; the
\* sponsored ones are all paid by the subscription of the present policy.
PendingExact ==
    /\ \A sc \in Subs \X Consumers :
           consumers[sc].pendingRequests = Cardinality(HeldBy(sc))
    /\ \A c \in Consumers :
           /\ sponsorPolicies[c].pendingRequests = Cardinality(SponsoredHeldBy(c))
           /\ \A i \in SponsoredHeldBy(c) : sponsorPolicies[c].subscriptionId = SubOf(i)

\* The current price and key services are the ones a request made now would pin,
\* every version a stored request pins exists, and a callback is only open for
\* a fulfilled request.
VersionsInSync ==
    /\ VersionsCurrent
    /\ \A i \in RequestIds : requests[i].status # "none" =>
           /\ requests[i].pricingVersion \in 1..Len(pricingVersions)
           /\ requests[i].keyVersion \in 1..Len(keyVersions)
    /\ frame.kind # "idle" => requests[frame.arg].status = "fulfilled"

\* What the contract recomputes for a stored request (reservation, expiry,
\* fulfiller and payee) is what was agreed when it was made, whatever the owner
\* changed since.
PinnedTerms == \A i \in RequestIds : requests[i].status # "none" =>
    /\ terms[i].issued
    /\ ReservedPayment(i) = terms[i].reserve
    /\ ExpiresAtBlock(i) = terms[i].expiresAt
    /\ ServiceOf(i) = terms[i].service

\* An open request can be fulfilled by the fulfiller it was made with as soon as
\* its seed is ready, and expired by anybody once its time is over: pausing,
\* deactivating or re-assigning the key, and changing prices affect new
\* requests only.
OpenRequestsServiceable == \A i \in RequestIds :
    (Unlocked /\ requests[i].status = "pending") =>
        /\ SeedReady(i) => \E gasPrice \in GasPrices, randomness \in Outputs :
               ENABLED FulfillRandomWords(i, terms[i].service.fulfiller, gasPrice,
                                          randomness, TRUE)
        /\ blockNumber > terms[i].expiresAt => ENABLED ExpireRequest(i)

\* A request is charged at most the reservation agreed for it, over all its
\* callbacks, and nothing unless it was fulfilled.
ChargedOnce == \A i \in RequestIds :
    /\ charged[i] <= terms[i].reserve
    /\ charged[i] # 0 => requests[i].status \in {"fulfilled", "none"} /\ ~Holds(i)

\* When the last confirmation arrives a pending request can be fulfilled: the
\* block hash is still in the window and the request has not expired.
ReadyWhenConfirmed == \A i \in RequestIds :
    (/\ requests[i].status = "pending"
     /\ blockNumber = requests[i].requestBlock + requests[i].params.confirmations)
    => SeedReady(i)

\* A sponsored request is accepted only within the quota of its epoch, though
\* the contract resets the counter lazily and policies are replaced.
SponsorQuotaRespected == [][\A c \in Consumers :
    sponsoredUse'[c] > sponsoredUse[c] =>
        sponsoredUse'[c] <= sponsorPolicies[c].requestsPerEpoch]_vars

-----------------------------------------------------------------------------
(* The coordinator implements the request life cycle *)

PhaseOf(i) == IF requests[i].status # "none" THEN requests[i].status
              ELSE IF terms[i].issued THEN "pruned" ELSE "none"

Life == INSTANCE RequestLifecycle WITH
    Ids <- RequestIds, Results <- Outputs, NoResult <- NoOutput,
    phase <- [i \in RequestIds |-> PhaseOf(i)],
    result <- [i \in RequestIds |-> requests[i].randomness],
    delivered <- [i \in RequestIds |-> requests[i].callbackSucceeded],
    held <- [i \in RequestIds |-> Holds(i)]

\* One identifier, one request, one result, at most one successful callback,
\* one release of the reservation: nothing a callback re-enters, no version
\* change and no pruning breaks the life cycle.
LifeSpec == Life!LifeSpec
=============================================================================
