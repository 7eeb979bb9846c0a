----------------------- MODULE VRFServiceCoordinatorV3 -----------------------
(***************************************************************************)
(* contracts/VRFServiceCoordinatorV3.sol: the chain keeps one commitment,  *)
(* the hash of the whole request, and callers bring the request (the       *)
(* witness) back with every call.  The witness is published in an event    *)
(* after each transition; whoever needs it later finds it there.           *)
(*                                                                         *)
(* The hash is injective here: `commitments' holds the hashed witness.     *)
(* The fields that no transition changes are the record `terms'.           *)
(***************************************************************************)
EXTENDS VRFServiceCoordinatorBase

CONSTANT Altered(_)     \* what a caller may make of a witness it has seen

VARIABLES
    commitments,        \* the witness committed to for each request
    published,          \* the witnesses of all CompactRequestState events
    issued,             \* history: identifiers of all requests ever made
    charged             \* history: what a subscription paid for a request

reqVars == <<commitments, published, issued, charged>>
vars == <<baseVars, reqVars>>

NoTerms == [service |-> NoService, reservedPayment |-> 0, minimumFeeWei |-> 0,
            requestBlock |-> 0, expiresAtBlock |-> 0,
            params |-> [callbackGasLimit |-> 0, numWords |-> 0, confirmations |-> 0],
            fulfillmentOverheadGas |-> 0, operatorPremiumShareBps |-> 0,
            premiumBps |-> 0, sponsored |-> FALSE]

\* The witness of a request that has just been made; with status "none", the
\* empty commitment.
Fresh(i, t, status) ==
    [id |-> i, terms |-> t, status |-> status, randomness |-> NoOutput,
     callbackAttempts |-> 0, callbackSucceeded |-> FALSE]

V3Init ==
    /\ BaseInit
    /\ commitments = [i \in RequestIds |-> Fresh(i, NoTerms, "none")]
    /\ published = {} /\ issued = {}
    /\ charged = [i \in RequestIds |-> 0]

-----------------------------------------------------------------------------
(* Witnesses *)

Persist(w) == commitments' = [commitments EXCEPT ![w.id] = w]
\* Mutant: the witness is not published.
EmitNothing(w) == UNCHANGED published
Emit(w) == published' = published \cup {w}

\* Mutant: any witness of a stored request will do.
AuthenticateAny(w) == commitments[w.id].status # "none"

\* _authenticate: there is a commitment, and it is to this witness
Authenticate(w) ==
    /\ w.id \in RequestIds /\ commitments[w.id].status # "none"
    /\ commitments[w.id] = w

\* Mutant: a request at any stage will do.
AuthenticateStored(w) == Authenticate(w)
AuthenticatePending(w) == Authenticate(w) /\ w.status = "pending"

\* _seed does not revert
SeedReady(w) ==
    /\ blockNumber <= w.terms.expiresAtBlock
    /\ blockNumber >= w.terms.requestBlock + w.terms.params.confirmations
    /\ HashAvailable(w.terms.requestBlock)

-----------------------------------------------------------------------------
(* The functions of the contract *)

RequestRandomWords(c, supplied, k, p, maxPayment) ==
    LET b == ResolveBilling(c, supplied)
        reserve == QuoteMaxPayment(k, p, b)
        w == Fresh(NextRequestId(c, b.subscriptionId, k),
                 [service |-> keys[k].service, reservedPayment |-> reserve,
                  minimumFeeWei |-> IF b.waiveMinimumFee THEN 0
                                    ELSE pricing.minimumRequestFeeWei,
                  requestBlock |-> blockNumber,
                  expiresAtBlock |-> blockNumber + pricing.requestTimeoutBlocks,
                  params |-> p,
                  fulfillmentOverheadGas |-> pricing.fulfillmentOverheadGas,
                  operatorPremiumShareBps |-> pricing.operatorPremiumShareBps,
                  premiumBps |-> b.premiumBps, sponsored |-> b.sponsored],
                 "pending")
    IN
    /\ RequestAllowed(c, supplied, k, p, maxPayment)
    /\ TakeReservation(c, b, reserve)
    /\ Persist(w) /\ Emit(w)
    /\ issued' = issued \cup {w.id}
    /\ UNCHANGED charged

\* _callback up to the call: the attempt is counted and the state committed to
\* before the consumer runs.
OpenCallback(kind, w, success, gasPrice) ==
    LET updated == [w EXCEPT !.callbackAttempts = @ + 1] IN
    /\ Persist(updated)
    /\ frame' = [kind |-> kind, arg |-> updated, success |-> success,
                 gasPrice |-> gasPrice]
    /\ UNCHANGED <<clockVars, adminVars, subVars, creditVars, published,
                   issued, charged>>

\* Mutant: the event carries the witness from before the call.
CloseCallbackStale ==
    LET updated == [frame.arg EXCEPT !.callbackSucceeded = frame.success] IN
    /\ IF frame.success THEN Persist(updated) ELSE UNCHANGED commitments
    /\ Emit(frame.arg)
    /\ frame' = Idle

\* _callback after the call, and the event that publishes the new witness
CloseCallback ==
    LET updated == [frame.arg EXCEPT !.callbackSucceeded = frame.success] IN
    /\ IF frame.success THEN Persist(updated) ELSE UNCHANGED commitments
    /\ Emit(updated)
    /\ frame' = Idle

\* fulfillRandomWords up to the consumer's callback
FulfillRandomWords(w, caller, gasPrice, randomness, success) ==
    /\ Unlocked
    /\ AuthenticatePending(w)
    /\ caller = w.terms.service.fulfiller
    /\ gasPrice <= w.terms.service.maxGasPriceWei
    /\ SeedReady(w)
    /\ OpenCallback("fulfill",
                    [w EXCEPT !.status = "fulfilled", !.randomness = randomness],
                    success, gasPrice)

\* The rest of fulfillRandomWords: the callback's outcome and the settlement
SettleFulfillment(gasUsed, l1Cost) ==
    LET i == frame.arg.id
        t == frame.arg.terms
        networkCost == (gasUsed + t.fulfillmentOverheadGas) * frame.gasPrice + l1Cost
        charge == ApplyPrice(networkCost, t.premiumBps, t.minimumFeeWei)
    IN
    /\ frame.kind = "fulfill"
    /\ CloseCallback
    /\ charge <= t.reservedPayment
    /\ ReleaseReservation(i, t.reservedPayment, t.sponsored, charge)
    /\ CreditCharge(t.service.payee, networkCost, charge, t.operatorPremiumShareBps)
    /\ charged' = [charged EXCEPT ![i] = @ + charge]
    /\ UNCHANGED issued

RetryCallback(w, success) ==
    /\ Unlocked
    /\ Authenticate(w)
    /\ w.status = "fulfilled" /\ ~w.callbackSucceeded
    /\ w.callbackAttempts < MaxAttempts
    /\ OpenCallback("retry", w, success, 0)

FinishRetry ==
    /\ frame.kind = "retry"
    /\ CloseCallback
    /\ UNCHANGED <<clockVars, adminVars, subVars, creditVars, issued,
                   charged>>

ExpireRequest(w) ==
    /\ Unlocked
    /\ AuthenticatePending(w)
    /\ blockNumber > w.terms.expiresAtBlock
    /\ LET updated == [w EXCEPT !.status = "expired"]
       IN Persist(updated) /\ Emit(updated)
    /\ ReleaseReservation(w.id, w.terms.reservedPayment, w.terms.sponsored, 0)
    /\ UNCHANGED <<creditVars, frame, issued, charged>>

PruneRequest(w) ==
    /\ Unlocked
    /\ Authenticate(w)
    /\ w.status # "pending"
    /\ blockNumber > w.terms.expiresAtBlock + PRUNE_DELAY_BLOCKS
    /\ Persist(Fresh(w.id, NoTerms, "none"))
    /\ UNCHANGED <<baseVars, published, issued, charged>>

\* The witnesses callers bring: every published one, also stale, and what they
\* may change in it
Supplied == published \cup UNION {Altered(w) : w \in published}

RequestNext ==
    \/ \E c \in Consumers, supplied \in {0} \cup Subs, k \in Keys,
          p \in RequestParams, maxPayment \in MaxPayments :
              RequestRandomWords(c, supplied, k, p, maxPayment)
    \/ \E w \in Supplied :
        \/ \E caller \in Operators, gasPrice \in GasPrices,
              randomness \in Outputs, success \in BOOLEAN :
                  FulfillRandomWords(w, caller, gasPrice, randomness, success)
        \/ \E success \in BOOLEAN : RetryCallback(w, success)
        \/ ExpireRequest(w)
        \/ PruneRequest(w)
    \/ \E gasUsed \in GasUses, l1Cost \in L1Costs : SettleFulfillment(gasUsed, l1Cost)
    \/ FinishRetry

V3Next == (BaseNext /\ UNCHANGED reqVars) \/ RequestNext

V3Spec == V3Init /\ [][V3Next]_vars

\* The chain grows, an open transaction ends, and the worker expires a request
\* it finds in the events once its time is over (operator/compact-worker.mjs).
V3FairSpec ==
    /\ V3Spec
    /\ WF_vars(MineBlock /\ UNCHANGED reqVars)
    /\ WF_vars(\E gasUsed \in GasUses, l1Cost \in L1Costs :
                   SettleFulfillment(gasUsed, l1Cost))
    /\ WF_vars(FinishRetry)
    /\ \A i \in RequestIds :
           WF_vars(\E w \in published : w.id = i /\ ExpireRequest(w))

-----------------------------------------------------------------------------
(* Correctness *)

StatusOf(i) == commitments[i].status

\* A reservation is held for i: until it is settled or released.
Holds(i) == StatusOf(i) = "pending" \/ (frame.kind = "fulfill" /\ frame.arg.id = i)

HeldWei(s) == UNION {{i} \X (1..commitments[i].terms.reservedPayment) :
                        i \in {j \in RequestIds : SubOf(j) = s /\ Holds(j)}}
HeldBy(sc) == {i \in RequestIds : PairOf(i) = sc /\ Holds(i)}
SponsoredHeldBy(c) == {i \in RequestIds :
    ConsumerOf(i) = c /\ Holds(i) /\ commitments[i].terms.sponsored}

TermsType == [service : KeyServices \cup {NoService}, reservedPayment : Nat,
              minimumFeeWei : Nat, requestBlock : Nat, expiresAtBlock : Nat,
              params : [callbackGasLimit : Nat, numWords : Nat, confirmations : Nat],
              fulfillmentOverheadGas : Nat, operatorPremiumShareBps : Nat,
              premiumBps : Nat, sponsored : BOOLEAN]
WitnessType == [id : RequestIds, terms : TermsType,
                status : {"none", "pending", "fulfilled", "expired"},
                randomness : Outputs \cup {NoOutput},
                callbackAttempts : Nat, callbackSucceeded : BOOLEAN]

\* The type of every variable of the contract.
TypeOK ==
    /\ BaseTypeOK
    /\ frame \in [kind : {"fulfill", "retry"}, arg : WitnessType,
                  success : BOOLEAN, gasPrice : Nat] \cup {Idle}
    /\ commitments \in [RequestIds -> WitnessType]
    /\ \A w \in published : w \in WitnessType
    /\ issued \subseteq RequestIds
    /\ charged \in [RequestIds -> Nat]

\* Reservations and counters are exact, although they are moved by amounts that
\* callers bring back in witnesses.
WitnessAccounting ==
    /\ \A s \in Subs :
           /\ subscriptions[s].reserved = Cardinality(HeldWei(s))
           /\ subscriptions[s].reserved <= subscriptions[s].balance
    /\ \A sc \in Subs \X Consumers :
           consumers[sc].pendingRequests = Cardinality(HeldBy(sc))
    /\ \A c \in Consumers :
           sponsorPolicies[c].pendingRequests = Cardinality(SponsoredHeldBy(c))

\* Between transactions the witness of every live commitment can be found in the
\* events: no transition leaves a request that nobody can bring back, and so
\* nobody could fulfil, retry, expire or prune.
WitnessRecoverable ==
    Unlocked => \A i \in RequestIds : StatusOf(i) # "none" => commitments[i] \in published

\* A subscription pays for a request once, within the reservation, and only for
\* a fulfilment: a witness from an earlier stage brings no second charge.
ChargedOnce == \A i \in RequestIds :
    /\ charged[i] # 0 => StatusOf(i) \in {"fulfilled", "none"} /\ ~Holds(i)
    /\ StatusOf(i) # "none" => charged[i] <= commitments[i].terms.reservedPayment

\* Every reservation is eventually given up.
ReservationsEnd == \A i \in RequestIds : Holds(i) ~> ~Holds(i)

PhaseOf(i) == IF StatusOf(i) # "none" THEN StatusOf(i)
              ELSE IF i \in issued THEN "pruned" ELSE "none"

Life == INSTANCE RequestLifecycle WITH
    Ids <- RequestIds, Results <- Outputs, NoResult <- NoOutput,
    phase <- [i \in RequestIds |-> PhaseOf(i)],
    result <- [i \in RequestIds |-> commitments[i].randomness],
    delivered <- [i \in RequestIds |-> commitments[i].callbackSucceeded],
    held <- [i \in RequestIds |-> Holds(i)]

\* The compact coordinator keeps the same life cycle as V2: a stale or altered
\* witness never takes a request back to an earlier stage, changes its result,
\* repeats a successful callback or releases a reservation twice.
LifeSpec == Life!LifeSpec
=============================================================================
