------------------------------ MODULE V3Proofs ------------------------------
(***************************************************************************)
(* Theorems about VRFServiceCoordinatorV3, for every value of the          *)
(* constants and whatever callers make of the witnesses they bring:        *)
(* nothing is assumed of Altered, because a witness counts only if it is   *)
(* the one committed to.                                                   *)
(*                                                                         *)
(* The inductive invariant V3Inv says of each request what its commitment  *)
(* implies, and that an open callback works on the witness committed to.   *)
(* V3Books adds that the counters are exact.                               *)
(***************************************************************************)
EXTENDS VRFServiceCoordinatorV3, BaseProofs

FrameType == [kind : {"fulfill", "retry"}, arg : WitnessType,
              success : BOOLEAN, gasPrice : Nat]

\* What the commitment to request i implies.
CommitmentOf(i) ==
    /\ commitments[i].id = i
    /\ commitments[i].status = "none" => commitments[i] = Fresh(i, NoTerms, "none")
    /\ commitments[i].status # "none" =>
           /\ i \in issued
           /\ commitments[i].terms.service \in KeyServices
           /\ commitments[i].terms.operatorPremiumShareBps <= MAX_PREMIUM_BPS
           /\ charged[i] <= commitments[i].terms.reservedPayment
           /\ commitments[i] \in published \/ (~Unlocked /\ frame.arg.id = i)
    /\ commitments[i].status \in {"pending", "expired"} =>
           /\ commitments[i].randomness = NoOutput /\ ~commitments[i].callbackSucceeded
           /\ charged[i] = 0
    /\ i \in issued => i[3] <= consumerNonces[PairOf(i)]
    /\ i \notin issued => charged[i] = 0

\* An open callback works on the witness committed to; the first one has not
\* been charged yet.
CallbackOpen == ~Unlocked =>
    /\ commitments[frame.arg.id] = frame.arg
    /\ frame.arg.status = "fulfilled" /\ ~frame.arg.callbackSucceeded
    /\ frame.kind = "fulfill" => charged[frame.arg.id] = 0

V3Inv == /\ TypeOK /\ VersionsCurrent
         /\ \A i \in RequestIds : CommitmentOf(i)
         /\ CallbackOpen

\* The facts most steps start from.
LEMMA V3Types ==
    ASSUME V3Inv
    PROVE  /\ BaseTypeOK /\ VersionsCurrent /\ commitments \in [RequestIds -> WitnessType]
           /\ charged \in [RequestIds -> Nat] /\ frame \in FrameType \cup {Idle}
           /\ issued \subseteq RequestIds
           /\ consumerNonces \in [Subs \X Consumers -> 0..MaxNonce]
           /\ \A w \in published : w \in WitnessType
BY DEF V3Inv, TypeOK, BaseTypeOK, FrameType

\* A witness that authenticates is the commitment to its request.
LEMMA Authentic ==
    ASSUME V3Inv, NEW w, Authenticate(w)
    PROVE  \E i \in RequestIds : /\ w.id = i /\ w = commitments[i] /\ w \in WitnessType
                                 /\ commitments[i].status # "none" /\ CommitmentOf(i)
BY V3Types DEF Authenticate, V3Inv

-----------------------------------------------------------------------------
(* What each function commits to *)

\* The step commits to u for request i.
Commits(i, u) == /\ u.id = i /\ commitments' = [commitments EXCEPT ![i] = u]
                 /\ UNCHANGED issued

quietVars == <<clockVars, adminVars, subVars, creditVars>>

\* Fields of a witness, one at a time
LEMMA WitnessFields ==
    ASSUME NEW w \in WitnessType
    PROVE  /\ w.id \in RequestIds /\ w.terms \in TermsType /\ w.callbackAttempts \in Nat
           /\ w.callbackSucceeded \in BOOLEAN /\ w.randomness \in Outputs \cup {NoOutput}
           /\ [w EXCEPT !.callbackAttempts = @ + 1] \in WitnessType
           /\ [w EXCEPT !.status = "expired"] \in WitnessType
           /\ \A ok \in BOOLEAN : [w EXCEPT !.callbackSucceeded = ok] \in WitnessType
           /\ \A r \in Outputs :
                  [w EXCEPT !.status = "fulfilled", !.randomness = r] \in WitnessType
<1>1. ASSUME NEW r \in Outputs
      PROVE  [w EXCEPT !.status = "fulfilled", !.randomness = r] \in WitnessType
  <2>1. PICK v \in WitnessType : v = [w EXCEPT !.status = "fulfilled"]
    BY DEF WitnessType
  <2>2. [v EXCEPT !.randomness = r] \in WitnessType
    BY DEF WitnessType
  <2> QED BY <2>1, <2>2
<1>2. /\ w.id \in RequestIds /\ w.terms \in TermsType /\ w.callbackAttempts \in Nat
      /\ w.callbackSucceeded \in BOOLEAN /\ w.randomness \in Outputs \cup {NoOutput}
  BY DEF WitnessType
<1>3. [w EXCEPT !.callbackAttempts = @ + 1] \in WitnessType
  BY DEF WitnessType
<1>4. [w EXCEPT !.status = "expired"] \in WitnessType
  BY DEF WitnessType
<1>5. ASSUME NEW ok \in BOOLEAN PROVE [w EXCEPT !.callbackSucceeded = ok] \in WitnessType
  BY DEF WitnessType
<1> QED BY <1>1, <1>2, <1>3, <1>4, <1>5

\* A fulfilment commits to the output before the consumer runs.
LEMMA FulfillCommits ==
    ASSUME V3Inv, NEW w, NEW caller, NEW gasPrice \in GasPrices, NEW randomness \in Outputs,
           NEW success \in BOOLEAN,
           FulfillRandomWords(w, caller, gasPrice, randomness, success)
    PROVE  \E i \in RequestIds, u \in WitnessType :
               /\ Commits(i, u) /\ frame.kind = "idle"
               /\ commitments[i].status = "pending" /\ u.status = "fulfilled"
               /\ u.terms = commitments[i].terms /\ u.randomness = randomness
               /\ u.callbackSucceeded = commitments[i].callbackSucceeded
               /\ frame' = [kind |-> "fulfill", arg |-> u, success |-> success,
                            gasPrice |-> gasPrice]
               /\ frame' \in FrameType
               /\ UNCHANGED <<quietVars, published, charged>>
<1>1. PICK i \in RequestIds : w.id = i /\ w = commitments[i] /\ w \in WitnessType
  BY Authentic DEF FulfillRandomWords, AuthenticatePending
<1>2. PICK v \in WitnessType :
           v = [w EXCEPT !.status = "fulfilled", !.randomness = randomness]
  BY <1>1, WitnessFields
<1>3. /\ v.id = i /\ v.status = "fulfilled" /\ v.terms = w.terms /\ v.randomness = randomness
      /\ v.callbackSucceeded = w.callbackSucceeded
  BY <1>1, <1>2 DEF WitnessType
<1>4. PICK u \in WitnessType : u = [v EXCEPT !.callbackAttempts = @ + 1]
  BY WitnessFields
<1>5. /\ u.id = i /\ u.status = "fulfilled" /\ u.terms = w.terms /\ u.randomness = randomness
      /\ u.callbackSucceeded = w.callbackSucceeded
  BY <1>3, <1>4 DEF WitnessType
<1>6. /\ frame.kind = "idle" /\ w.status = "pending"
      /\ OpenCallback("fulfill", v, success, gasPrice)
  BY <1>2 DEF FulfillRandomWords, AuthenticatePending, Unlocked
<1>7. /\ commitments' = [commitments EXCEPT ![i] = u]
      /\ frame' = [kind |-> "fulfill", arg |-> u, success |-> success, gasPrice |-> gasPrice]
      /\ UNCHANGED <<quietVars, published, issued, charged>>
  BY <1>4, <1>5, <1>6 DEF OpenCallback, Persist, quietVars
<1>8. frame' \in FrameType
  BY <1>7, BaseAssumption DEF FrameType
<1> QED BY <1>1, <1>5, <1>6, <1>7, <1>8 DEF Commits

\* A retry counts the attempt.
LEMMA RetryCommits ==
    ASSUME V3Inv, NEW w, NEW success \in BOOLEAN, RetryCallback(w, success)
    PROVE  \E i \in RequestIds, u \in WitnessType :
               /\ Commits(i, u) /\ frame.kind = "idle"
               /\ commitments[i].status = "fulfilled" /\ u.status = "fulfilled"
               /\ u.terms = commitments[i].terms
               /\ u.randomness = commitments[i].randomness
               /\ u.callbackSucceeded = commitments[i].callbackSucceeded
               /\ ~u.callbackSucceeded
               /\ frame' = [kind |-> "retry", arg |-> u, success |-> success, gasPrice |-> 0]
               /\ frame' \in FrameType
               /\ UNCHANGED <<quietVars, published, charged>>
<1>1. PICK i \in RequestIds : w.id = i /\ w = commitments[i] /\ w \in WitnessType
  BY Authentic DEF RetryCallback
<1>2. PICK u \in WitnessType : u = [w EXCEPT !.callbackAttempts = @ + 1]
  BY <1>1, WitnessFields
<1>3. /\ u.id = i /\ u.status = w.status /\ u.terms = w.terms /\ u.randomness = w.randomness
      /\ u.callbackSucceeded = w.callbackSucceeded
  BY <1>1, <1>2 DEF WitnessType
<1>4. /\ frame.kind = "idle" /\ w.status = "fulfilled" /\ ~w.callbackSucceeded
      /\ OpenCallback("retry", w, success, 0)
  BY DEF RetryCallback, Unlocked
<1>5. /\ commitments' = [commitments EXCEPT ![i] = u]
      /\ frame' = [kind |-> "retry", arg |-> u, success |-> success, gasPrice |-> 0]
      /\ UNCHANGED <<quietVars, published, issued, charged>>
  BY <1>2, <1>3, <1>4 DEF OpenCallback, Persist, quietVars
<1>6. frame' \in FrameType
  BY <1>5 DEF FrameType
<1> QED BY <1>1, <1>3, <1>4, <1>5, <1>6 DEF Commits

\* When the callback has returned the commitment and the event have its outcome,
\* also where a failed call writes nothing.
LEMMA CloseCommits ==
    ASSUME V3Inv, ~Unlocked, CloseCallback, UNCHANGED issued
    PROVE  \E i \in RequestIds, u \in WitnessType, ok \in BOOLEAN :
               /\ Commits(i, u) /\ frame \in FrameType /\ frame.success = ok
               /\ frame.arg = commitments[i] /\ frame.arg.id = i
               /\ commitments[i].status = "fulfilled" /\ commitments[i].callbackSucceeded = FALSE
               /\ u.status = "fulfilled" /\ u.terms = commitments[i].terms
               /\ u.randomness = commitments[i].randomness /\ u.callbackSucceeded = ok
               /\ published' = published \cup {u} /\ frame' = Idle
<1>1. frame \in FrameType
  BY V3Types DEF Unlocked, Idle
<1>2. PICK w \in WitnessType, ok \in BOOLEAN : w = frame.arg /\ ok = frame.success
  BY <1>1 DEF FrameType
<1>3. PICK i \in RequestIds : i = w.id
  BY WitnessFields
<1>4. /\ commitments[i] = w /\ w.status = "fulfilled" /\ w.callbackSucceeded = FALSE
      /\ commitments \in [RequestIds -> WitnessType]
  BY <1>2, <1>3, V3Types DEF V3Inv, CallbackOpen, WitnessType
<1>5. PICK u \in WitnessType : u = [w EXCEPT !.callbackSucceeded = ok]
  BY WitnessFields
<1>6. /\ u.id = i /\ u.status = "fulfilled" /\ u.terms = w.terms /\ u.randomness = w.randomness
      /\ u.callbackSucceeded = ok
  BY <1>3, <1>4, <1>5 DEF WitnessType
<1>7. commitments' = [commitments EXCEPT ![i] = u]
  <2>1. CASE ok = TRUE
    BY <1>2, <1>5, <1>6, <2>1 DEF CloseCallback, Persist
  <2>2. CASE ok = FALSE
    <3>1. u = w
      BY <1>4, <1>5, <2>2 DEF WitnessType
    <3> QED BY <1>2, <1>4, <2>2, <3>1 DEF CloseCallback
  <2> QED BY <2>1, <2>2
<1>8. published' = published \cup {u} /\ frame' = Idle
  BY <1>2, <1>5 DEF CloseCallback, Emit
<1> QED BY <1>1, <1>2, <1>3, <1>4, <1>6, <1>7, <1>8 DEF Commits

LEMMA ExpireCommits ==
    ASSUME V3Inv, NEW w, ExpireRequest(w)
    PROVE  \E i \in RequestIds, u \in WitnessType :
               /\ Commits(i, u) /\ frame.kind = "idle" /\ frame' = frame
               /\ commitments[i].status = "pending" /\ u.status = "expired"
               /\ u.terms = commitments[i].terms
               /\ u.randomness = commitments[i].randomness
               /\ u.callbackSucceeded = commitments[i].callbackSucceeded
               /\ published' = published \cup {u} /\ UNCHANGED <<creditVars, charged>>
               /\ ReleaseReservation(i, commitments[i].terms.reservedPayment,
                                     commitments[i].terms.sponsored, 0)
<1>1. PICK i \in RequestIds : w.id = i /\ w = commitments[i] /\ w \in WitnessType
  BY Authentic DEF ExpireRequest, AuthenticatePending
<1>2. PICK u \in WitnessType : u = [w EXCEPT !.status = "expired"]
  BY <1>1, WitnessFields
<1>3. /\ u.id = i /\ u.status = "expired" /\ u.terms = w.terms /\ u.randomness = w.randomness
      /\ u.callbackSucceeded = w.callbackSucceeded
  BY <1>1, <1>2 DEF WitnessType
<1>4. /\ frame.kind = "idle" /\ w.status = "pending"
      /\ commitments' = [commitments EXCEPT ![i] = u] /\ published' = published \cup {u}
      /\ UNCHANGED <<creditVars, frame, issued, charged>>
      /\ ReleaseReservation(i, w.terms.reservedPayment, w.terms.sponsored, 0)
  BY <1>1, <1>2, <1>3 DEF ExpireRequest, AuthenticatePending, Unlocked, Persist, Emit
<1> QED BY <1>1, <1>3, <1>4 DEF Commits

LEMMA FreshFields ==
    ASSUME NEW i \in RequestIds
    PROVE  LET u == Fresh(i, NoTerms, "none") IN
           /\ u \in WitnessType /\ u.id = i /\ u.status = "none" /\ u.randomness = NoOutput
           /\ u.callbackSucceeded = FALSE
BY DEF Fresh, NoTerms, WitnessType, TermsType

LEMMA PruneCommits ==
    ASSUME V3Inv, NEW w, PruneRequest(w)
    PROVE  \E i \in RequestIds :
               /\ Commits(i, Fresh(i, NoTerms, "none")) /\ frame.kind = "idle"
               /\ commitments[i].status \in {"fulfilled", "expired"}
               /\ frame' = frame /\ UNCHANGED <<quietVars, published, charged>>
<1>1. PICK i \in RequestIds : /\ w.id = i /\ w = commitments[i] /\ w \in WitnessType
                              /\ commitments[i].status # "none"
  BY Authentic DEF PruneRequest
<1>2. commitments[i].status \in {"fulfilled", "expired"}
  BY <1>1 DEF PruneRequest, WitnessType
<1>3. Commits(i, Fresh(i, NoTerms, "none"))
  BY <1>1, FreshFields DEF PruneRequest, Persist, Commits
<1> QED BY <1>1, <1>2, <1>3 DEF PruneRequest, Unlocked, baseVars, quietVars

\* The next identifier was never used: nonces only grow.
LEMMA FreshId ==
    ASSUME V3Inv, NEW c \in Consumers, NEW s \in Subs, NEW k \in Keys,
           NEW n \in RequestIds, n = NextRequestId(c, s, k)
    PROVE  n \notin issued /\ commitments[n] = Fresh(n, NoTerms, "none") /\ charged[n] = 0
<1>1. n[3] = consumerNonces[<<s, c>>] + 1 /\ PairOf(n) = <<s, c>>
  BY DEF NextRequestId, PairOf
<1>2. consumerNonces[<<s, c>>] \in Nat
  BY V3Types, BaseAssumption
<1>3. ~(n[3] <= consumerNonces[PairOf(n)])
  BY <1>1, <1>2
<1>4. n \notin issued /\ CommitmentOf(n)
  BY <1>3 DEF V3Inv, CommitmentOf
<1> QED BY <1>4 DEF CommitmentOf

\* The step makes request n, billed to s, and commits to the new witness u.
Requested(c, supplied, k, p, n, u, s) ==
    /\ n = NextRequestId(c, s, k) /\ s = ResolveBilling(c, supplied).subscriptionId
    /\ n \notin issued /\ commitments[n] = Fresh(n, NoTerms, "none")
    /\ u = Fresh(n, u.terms, "pending")
    /\ u.terms.service \in KeyServices
    /\ u.terms.operatorPremiumShareBps <= MAX_PREMIUM_BPS
    /\ u.terms.reservedPayment = QuoteMaxPayment(k, p, ResolveBilling(c, supplied))
    /\ u.terms.sponsored = ResolveBilling(c, supplied).sponsored
    /\ commitments' = [commitments EXCEPT ![n] = u]
    /\ published' = published \cup {u} /\ issued' = issued \cup {n}
    /\ charged' = charged /\ charged[n] = 0
    /\ frame' = frame /\ frame.kind = "idle" /\ UNCHANGED <<adminVars, creditVars>>
    /\ consumerNonces' = [consumerNonces EXCEPT ![<<s, c>>] = @ + 1]
    /\ BaseTypeOK'

\* A request commits to its terms under a new identifier.
LEMMA RequestCommits ==
    ASSUME V3Inv, NEW c \in Consumers, NEW supplied \in {0} \cup Subs, NEW k \in Keys,
           NEW p \in RequestParams, NEW maxPayment,
           RequestRandomWords(c, supplied, k, p, maxPayment)
    PROVE  \E n \in RequestIds, u \in WitnessType, s \in Subs : Requested(c, supplied, k, p, n, u, s)
<1>1. PICK b : b = ResolveBilling(c, supplied)
  OBVIOUS
<1>2. PICK reserve : reserve = QuoteMaxPayment(k, p, b)
  OBVIOUS
<1>3. RequestAllowed(c, supplied, k, p, maxPayment) /\ TakeReservation(c, b, reserve)
  BY <1>1, <1>2 DEF RequestRandomWords
<1>4. BaseTypeOK /\ VersionsCurrent
  BY V3Types
<1>5. /\ b.subscriptionId \in Subs /\ b.premiumBps \in Nat /\ b.sponsored \in BOOLEAN
      /\ keys[k].service \in KeyServices /\ reserve \in Nat
      /\ NextRequestId(c, b.subscriptionId, k) \in RequestIds
      /\ consumerNonces[<<b.subscriptionId, c>>] + 1 \in 0..MaxNonce
  BY <1>1, <1>2, <1>3, <1>4, AcceptedRequest
<1>6. PICK s \in Subs, n \in RequestIds :
           s = b.subscriptionId /\ n = NextRequestId(c, s, k)
  BY <1>5
<1>7. PICK t : t = [service |-> keys[k].service, reservedPayment |-> reserve,
                    minimumFeeWei |-> IF b.waiveMinimumFee THEN 0
                                      ELSE pricing.minimumRequestFeeWei,
                    requestBlock |-> blockNumber,
                    expiresAtBlock |-> blockNumber + pricing.requestTimeoutBlocks,
                    params |-> p,
                    fulfillmentOverheadGas |-> pricing.fulfillmentOverheadGas,
                    operatorPremiumShareBps |-> pricing.operatorPremiumShareBps,
                    premiumBps |-> b.premiumBps, sponsored |-> b.sponsored]
  OBVIOUS
<1>8. PICK u : u = Fresh(n, t, "pending")
  OBVIOUS
<1>9. /\ commitments' = [commitments EXCEPT ![n] = u]
      /\ published' = published \cup {u} /\ issued' = issued \cup {n} /\ charged' = charged
  <2>1. u.id = n
    BY <1>8 DEF Fresh
  <2> QED BY <1>1, <1>2, <1>6, <1>7, <1>8, <2>1 DEF RequestRandomWords, Persist, Emit
<1>10. /\ pricing \in PricingConfig /\ ValidatePricing(pricing) /\ blockNumber \in Nat
       /\ p \in [callbackGasLimit : Nat, numWords : Nat, confirmations : Nat]
  <2>1. pricing \in PricingConfig /\ blockNumber \in Nat
        /\ p \in [callbackGasLimit : Nat, numWords : Nat, confirmations : Nat]
    BY <1>4, BaseAssumption, BlockhashAssumption DEF BaseTypeOK, ChainTypeOK, Blocks
  <2>2. ValidatePricing(pricing)
    BY <1>4 DEF VersionsCurrent, BaseTypeOK
  <2> QED BY <2>1, <2>2
<1>11. t \in TermsType /\ t.operatorPremiumShareBps <= MAX_PREMIUM_BPS
  BY <1>5, <1>7, <1>10 DEF TermsType, PricingConfig, ValidatePricing
<1>12. u \in WitnessType /\ u.terms = t
  BY <1>8, <1>11 DEF Fresh, WitnessType
<1>13. n \notin issued /\ commitments[n] = Fresh(n, NoTerms, "none") /\ charged[n] = 0
  BY <1>6, FreshId
<1>14. BaseTypeOK'
  BY <1>3, <1>4, <1>5, TakeReservationTypes
<1>15. /\ frame' = frame /\ frame.kind = "idle" /\ UNCHANGED <<adminVars, creditVars>>
       /\ consumerNonces' = [consumerNonces EXCEPT ![<<s, c>>] = @ + 1]
  BY <1>3, <1>6 DEF TakeReservation, RequestAllowed, Unlocked
<1>16. /\ t.service \in KeyServices /\ t.reservedPayment = reserve /\ t.sponsored = b.sponsored
  BY <1>5, <1>7
<1> QED BY <1>1, <1>2, <1>6, <1>8, <1>9, <1>11, <1>12, <1>13, <1>14, <1>15, <1>16
        DEF Requested

\* The step settles request i and commits to the witness u.
Settled(i, u, ok, networkCost, charge) ==
    /\ Commits(i, u) /\ frame.kind = "fulfill"
    /\ frame.arg = commitments[i] /\ frame.arg.id = i
    /\ commitments[i].status = "fulfilled" /\ commitments[i].callbackSucceeded = FALSE
    /\ commitments[i].terms \in TermsType
    /\ u.status = "fulfilled" /\ u.terms = commitments[i].terms
    /\ u.randomness = commitments[i].randomness /\ u.callbackSucceeded = ok
    /\ published' = published \cup {u} /\ frame' = Idle
    /\ charge >= networkCost /\ charge <= commitments[i].terms.reservedPayment
    /\ ReleaseReservation(i, commitments[i].terms.reservedPayment,
                          commitments[i].terms.sponsored, charge)
    /\ CreditCharge(commitments[i].terms.service.payee, networkCost, charge,
                    commitments[i].terms.operatorPremiumShareBps)
    /\ charged' = [charged EXCEPT ![i] = @ + charge] /\ charged[i] = 0
    /\ commitments[i].terms.service.payee \in Operators
    /\ commitments[i].terms.operatorPremiumShareBps <= MAX_PREMIUM_BPS
    /\ BaseTypeOK' /\ UNCHANGED <<adminVars, consumerNonces>>

\* A settlement charges for what the first callback used, within the reservation.
LEMMA SettleCommits ==
    ASSUME V3Inv, NEW gasUsed \in GasUses, NEW l1Cost \in L1Costs,
           SettleFulfillment(gasUsed, l1Cost)
    PROVE  \E i \in RequestIds, u \in WitnessType, ok \in BOOLEAN, networkCost \in Nat,
              charge \in Nat : Settled(i, u, ok, networkCost, charge)
<1>1. frame.kind = "fulfill" /\ ~Unlocked /\ CloseCallback /\ issued' = issued
  BY DEF SettleFulfillment, Unlocked
<1>2. PICK i \in RequestIds, u \in WitnessType, ok \in BOOLEAN :
               /\ Commits(i, u) /\ frame \in FrameType
               /\ frame.arg = commitments[i] /\ frame.arg.id = i
               /\ commitments[i].status = "fulfilled" /\ commitments[i].callbackSucceeded = FALSE
               /\ u.status = "fulfilled" /\ u.terms = commitments[i].terms
               /\ u.randomness = commitments[i].randomness /\ u.callbackSucceeded = ok
               /\ published' = published \cup {u} /\ frame' = Idle
  BY <1>1, CloseCommits
<1>3. PICK t \in TermsType : t = commitments[i].terms
  BY V3Types, WitnessFields
<1>4. PICK networkCost : networkCost = (gasUsed + t.fulfillmentOverheadGas) * frame.gasPrice + l1Cost
  OBVIOUS
<1>5. networkCost \in Nat
  <2>1. PICK g \in Nat, x \in Nat : g = frame.gasPrice /\ x = gasUsed + t.fulfillmentOverheadGas
    BY <1>2, BaseAssumption DEF FrameType, TermsType
  <2>2. x * g \in Nat /\ l1Cost \in Nat
    BY ProductNat, BaseAssumption
  <2> QED BY <1>4, <2>1, <2>2
<1>6. PICK charge : charge = ApplyPrice(networkCost, t.premiumBps, t.minimumFeeWei)
  OBVIOUS
<1>7. charge \in Nat /\ charge >= networkCost
  BY <1>5, <1>6, ApplyPriceBound DEF TermsType
<1>8. /\ charge <= t.reservedPayment
      /\ ReleaseReservation(i, t.reservedPayment, t.sponsored, charge)
      /\ CreditCharge(t.service.payee, networkCost, charge, t.operatorPremiumShareBps)
      /\ charged' = [charged EXCEPT ![i] = @ + charge]
  BY <1>2, <1>3, <1>4, <1>6 DEF SettleFulfillment
<1>9. charged[i] = 0 /\ t.service \in KeyServices /\ t.operatorPremiumShareBps <= MAX_PREMIUM_BPS
  BY <1>1, <1>2, <1>3 DEF V3Inv, CallbackOpen, CommitmentOf
<1>10. t.service.payee \in Operators
  BY <1>9, BaseAssumption DEF KeyService
<1>11. BaseTypeOK'
  <2>1. t.operatorPremiumShareBps \in Nat /\ t.reservedPayment \in Nat /\ t.sponsored \in BOOLEAN
    BY DEF TermsType
  <2>2. BaseTypeOK
    BY V3Types
  <2>3. (/\ operatorCredits \in [Operators -> Nat]
         /\ treasuryCredits \in Nat /\ ethBalance \in Int)'
    BY <1>5, <1>7, <1>8, <1>9, <1>10, <2>1, <2>2, CreditTypes
  <2> QED BY <1>7, <1>8, <2>1, <2>2, <2>3, ReleaseTypes
<1>12. UNCHANGED <<adminVars, consumerNonces>>
  BY <1>8 DEF ReleaseReservation
<1> QED BY <1>1, <1>2, <1>3, <1>5, <1>7, <1>8, <1>9, <1>10, <1>11, <1>12 DEF Settled

-----------------------------------------------------------------------------
(* The invariant is inductive *)

LEMMA V3InitInv == V3Init => V3Inv
<1> SUFFICES ASSUME V3Init PROVE V3Inv
  OBVIOUS
<1>1. BaseTypeOK /\ VersionsCurrent
  BY BaseInitTypes DEF V3Init
<1>2. /\ commitments = [i \in RequestIds |-> Fresh(i, NoTerms, "none")]
      /\ published = {} /\ issued = {} /\ charged = [i \in RequestIds |-> 0] /\ frame = Idle
  BY DEF V3Init, BaseInit
<1>3. TypeOK
  BY <1>1, <1>2, FreshFields DEF TypeOK
<1>4. ASSUME NEW i \in RequestIds PROVE CommitmentOf(i)
  BY <1>2, FreshFields DEF CommitmentOf
<1>5. CallbackOpen
  BY <1>2 DEF CallbackOpen, Unlocked, Idle
<1> QED BY <1>1, <1>3, <1>4, <1>5 DEF V3Inv

\* A step that leaves the contract's requests alone.
LEMMA V3Quiet ==
    ASSUME V3Inv, BaseTypeOK', VersionsCurrent', UNCHANGED <<reqVars, frame, consumerNonces>>
    PROVE  V3Inv'
<1>1. UNCHANGED <<commitments, published, issued, charged, frame, consumerNonces>>
  BY DEF reqVars
<1>2. TypeOK'
  BY <1>1 DEF V3Inv, TypeOK
<1>3. ASSUME NEW i \in RequestIds PROVE CommitmentOf(i)'
  BY <1>1 DEF V3Inv, CommitmentOf, Unlocked
<1>4. CallbackOpen'
  BY <1>1 DEF V3Inv, CallbackOpen, Unlocked
<1> QED BY <1>2, <1>3, <1>4 DEF V3Inv

\* The configuration stays current in a step that does not touch it.
LEMMA SameVersions ==
    ASSUME VersionsCurrent, UNCHANGED adminVars PROVE VersionsCurrent'
BY DEF adminVars, priceVars, keyVars, VersionsCurrent, ValidatePricing

\* The types of the subscription state stay in a step that does not touch it.
LEMMA SameTypes ==
    ASSUME BaseTypeOK, UNCHANGED quietVars
    PROVE  BaseTypeOK' /\ UNCHANGED <<adminVars, subVars, creditVars, consumerNonces>>
BY DEF BaseTypeOK, ChainTypeOK, quietVars, clockVars, chainVars, adminVars, priceVars, keyVars,
   subVars, sponsorVars, creditVars

\* A step that commits to u for request i, between the calls of its callback.
LEMMA CommitInv ==
    ASSUME V3Inv, NEW i \in RequestIds, NEW u \in WitnessType, Commits(i, u),
           BaseTypeOK', UNCHANGED <<adminVars, consumerNonces>>,
           published' = published \/ published' = published \cup {u},
           frame' \in FrameType \cup {Idle}, ~Unlocked => frame.arg.id = i,
           charged' \in [RequestIds -> Nat],
           \A j \in RequestIds \ {i} : charged'[j] = charged[j],
           CommitmentOf(i)', CallbackOpen'
    PROVE  V3Inv'
<1>1. commitments \in [RequestIds -> WitnessType] /\ \A w \in published : w \in WitnessType
  BY V3Types
<1>2. TypeOK'
  BY <1>1, V3Types DEF TypeOK, Commits, FrameType
<1>3. VersionsCurrent'
  BY SameVersions DEF V3Inv
<1>4. ASSUME NEW j \in RequestIds \ {i} PROVE CommitmentOf(j)'
  <2>1. commitments'[j] = commitments[j] /\ charged'[j] = charged[j] /\ issued' = issued
        /\ consumerNonces' = consumerNonces /\ published \subseteq published'
    BY <1>1 DEF Commits
  <2>2. CommitmentOf(j) /\ ~(~Unlocked /\ frame.arg.id = j)
    BY DEF V3Inv
  <2> QED BY <2>1, <2>2 DEF CommitmentOf
<1> QED BY <1>2, <1>3, <1>4 DEF V3Inv

LEMMA FulfillInv ==
    ASSUME V3Inv, NEW w, NEW caller, NEW gasPrice \in GasPrices, NEW randomness \in Outputs,
           NEW success \in BOOLEAN,
           FulfillRandomWords(w, caller, gasPrice, randomness, success)
    PROVE  V3Inv'
<1>1. PICK i \in RequestIds, u \in WitnessType :
               /\ Commits(i, u) /\ frame.kind = "idle"
               /\ commitments[i].status = "pending" /\ u.status = "fulfilled"
               /\ u.terms = commitments[i].terms
               /\ u.callbackSucceeded = commitments[i].callbackSucceeded
               /\ frame' = [kind |-> "fulfill", arg |-> u, success |-> success,
                            gasPrice |-> gasPrice]
               /\ frame' \in FrameType
               /\ UNCHANGED <<quietVars, published, charged>>
  BY FulfillCommits
<1>2. /\ CommitmentOf(i) /\ commitments \in [RequestIds -> WitnessType]
      /\ charged \in [RequestIds -> Nat] /\ BaseTypeOK
  BY V3Types DEF V3Inv
<1>3. commitments'[i] = u /\ u.id = i /\ issued' = issued /\ frame'.arg = u
      /\ frame'.kind = "fulfill"
  BY <1>1, <1>2 DEF Commits
<1>4. BaseTypeOK' /\ UNCHANGED <<adminVars, consumerNonces>>
  BY <1>1, <1>2, SameTypes
<1>5. CommitmentOf(i)'
  BY <1>1, <1>2, <1>3, <1>4 DEF CommitmentOf, Unlocked
<1>6. CallbackOpen'
  BY <1>1, <1>2, <1>3 DEF CallbackOpen, CommitmentOf
<1> QED BY <1>1, <1>2, <1>4, <1>5, <1>6, CommitInv DEF Unlocked

LEMMA RetryInv ==
    ASSUME V3Inv, NEW w, NEW success \in BOOLEAN, RetryCallback(w, success)
    PROVE  V3Inv'
<1>1. PICK i \in RequestIds, u \in WitnessType :
               /\ Commits(i, u) /\ frame.kind = "idle"
               /\ commitments[i].status = "fulfilled" /\ u.status = "fulfilled"
               /\ u.terms = commitments[i].terms /\ ~u.callbackSucceeded
               /\ frame' = [kind |-> "retry", arg |-> u, success |-> success, gasPrice |-> 0]
               /\ frame' \in FrameType
               /\ UNCHANGED <<quietVars, published, charged>>
  BY RetryCommits
<1>2. /\ CommitmentOf(i) /\ commitments \in [RequestIds -> WitnessType]
      /\ charged \in [RequestIds -> Nat] /\ BaseTypeOK
  BY V3Types DEF V3Inv
<1>3. commitments'[i] = u /\ u.id = i /\ issued' = issued /\ frame'.arg = u
      /\ frame'.kind = "retry"
  BY <1>1, <1>2 DEF Commits
<1>4. BaseTypeOK' /\ UNCHANGED <<adminVars, consumerNonces>>
  BY <1>1, <1>2, SameTypes
<1>5. CommitmentOf(i)'
  BY <1>1, <1>2, <1>3, <1>4 DEF CommitmentOf, Unlocked
<1>6. CallbackOpen'
  BY <1>1, <1>2, <1>3 DEF CallbackOpen
<1> QED BY <1>1, <1>2, <1>4, <1>5, <1>6, CommitInv DEF Unlocked

LEMMA FinishRetryInv == ASSUME V3Inv, FinishRetry PROVE V3Inv'
<1>1. frame.kind = "retry" /\ ~Unlocked /\ CloseCallback
      /\ UNCHANGED <<quietVars, issued, charged>>
  BY DEF FinishRetry, Unlocked, quietVars
<1>2. PICK i \in RequestIds, u \in WitnessType :
               /\ Commits(i, u) /\ frame.arg.id = i
               /\ commitments[i].status = "fulfilled"
               /\ u.status = "fulfilled" /\ u.terms = commitments[i].terms
               /\ published' = published \cup {u} /\ frame' = Idle
  BY <1>1, CloseCommits
<1>3. /\ CommitmentOf(i) /\ commitments \in [RequestIds -> WitnessType]
      /\ charged \in [RequestIds -> Nat] /\ BaseTypeOK
  BY V3Types DEF V3Inv
<1>4. commitments'[i] = u /\ u.id = i /\ issued' = issued /\ frame'.kind = "idle"
  BY <1>2, <1>3 DEF Commits, Idle
<1>5. BaseTypeOK' /\ UNCHANGED <<adminVars, consumerNonces>>
  BY <1>1, <1>3, SameTypes
<1>6. CommitmentOf(i)'
  BY <1>1, <1>2, <1>3, <1>4, <1>5 DEF CommitmentOf
<1>7. CallbackOpen'
  BY <1>4 DEF CallbackOpen, Unlocked
<1> QED BY <1>1, <1>2, <1>3, <1>5, <1>6, <1>7, CommitInv

LEMMA SettleInv ==
    ASSUME V3Inv, NEW gasUsed \in GasUses, NEW l1Cost \in L1Costs,
           SettleFulfillment(gasUsed, l1Cost)
    PROVE  V3Inv'
<1>0. PICK i \in RequestIds, u \in WitnessType, ok \in BOOLEAN, networkCost \in Nat,
         charge \in Nat : Settled(i, u, ok, networkCost, charge)
  BY SettleCommits
<1>1. /\ Commits(i, u) /\ frame.arg.id = i
      /\ commitments[i].status = "fulfilled"
      /\ u.status = "fulfilled" /\ u.terms = commitments[i].terms
      /\ published' = published \cup {u} /\ frame' = Idle
      /\ charge <= commitments[i].terms.reservedPayment
      /\ charged' = [charged EXCEPT ![i] = @ + charge] /\ charged[i] = 0
      /\ BaseTypeOK' /\ UNCHANGED <<adminVars, consumerNonces>>
  BY <1>0 DEF Settled
<1>2. /\ CommitmentOf(i) /\ commitments \in [RequestIds -> WitnessType]
      /\ charged \in [RequestIds -> Nat]
  BY V3Types DEF V3Inv
<1>3. commitments'[i] = u /\ u.id = i /\ issued' = issued /\ frame'.kind = "idle"
      /\ charged'[i] = charge /\ charged' \in [RequestIds -> Nat]
      /\ \A j \in RequestIds \ {i} : charged'[j] = charged[j]
  BY <1>1, <1>2 DEF Commits, Idle
<1>4. CommitmentOf(i)'
  BY <1>1, <1>2, <1>3 DEF CommitmentOf
<1>5. CallbackOpen'
  BY <1>3 DEF CallbackOpen, Unlocked
<1> QED BY <1>1, <1>3, <1>4, <1>5, CommitInv

LEMMA ExpireInv == ASSUME V3Inv, NEW w, ExpireRequest(w) PROVE V3Inv'
<1>1. PICK i \in RequestIds, u \in WitnessType :
               /\ Commits(i, u) /\ frame.kind = "idle" /\ frame' = frame
               /\ commitments[i].status = "pending" /\ u.status = "expired"
               /\ u.terms = commitments[i].terms
               /\ u.randomness = commitments[i].randomness
               /\ u.callbackSucceeded = commitments[i].callbackSucceeded
               /\ published' = published \cup {u} /\ UNCHANGED <<creditVars, charged>>
               /\ ReleaseReservation(i, commitments[i].terms.reservedPayment,
                                     commitments[i].terms.sponsored, 0)
  BY ExpireCommits
<1>2. /\ CommitmentOf(i) /\ commitments \in [RequestIds -> WitnessType]
      /\ charged \in [RequestIds -> Nat] /\ BaseTypeOK /\ frame \in FrameType \cup {Idle}
  BY V3Types DEF V3Inv
<1>3. commitments'[i] = u /\ u.id = i /\ issued' = issued
  BY <1>1, <1>2 DEF Commits
<1>4. UNCHANGED <<adminVars, consumerNonces>>
  BY <1>1 DEF ReleaseReservation
<1>5. BaseTypeOK'
  <2>1. PICK r \in Nat, sponsored \in BOOLEAN :
            r = commitments[i].terms.reservedPayment /\ sponsored = commitments[i].terms.sponsored
    BY <1>2, WitnessFields DEF TermsType
  <2>2. (/\ operatorCredits \in [Operators -> Nat]
         /\ treasuryCredits \in Nat /\ ethBalance \in Int)'
    BY <1>1, <1>2 DEF BaseTypeOK, creditVars
  <2> QED BY <1>1, <1>2, <2>1, <2>2, ReleaseTypes
<1>6. CommitmentOf(i)'
  BY <1>1, <1>2, <1>3, <1>4 DEF CommitmentOf
<1>7. CallbackOpen'
  BY <1>1 DEF CallbackOpen, Unlocked
<1> QED BY <1>1, <1>2, <1>4, <1>5, <1>6, <1>7, CommitInv DEF Unlocked

LEMMA PruneInv == ASSUME V3Inv, NEW w, PruneRequest(w) PROVE V3Inv'
<1>1. PICK i \in RequestIds :
               /\ Commits(i, Fresh(i, NoTerms, "none")) /\ frame.kind = "idle"
               /\ commitments[i].status \in {"fulfilled", "expired"}
               /\ frame' = frame /\ UNCHANGED <<quietVars, published, charged>>
  BY PruneCommits
<1>2. PICK u \in WitnessType : u = Fresh(i, NoTerms, "none")
  BY FreshFields
<1>3. /\ CommitmentOf(i) /\ commitments \in [RequestIds -> WitnessType]
      /\ charged \in [RequestIds -> Nat] /\ BaseTypeOK /\ frame \in FrameType \cup {Idle}
  BY V3Types DEF V3Inv
<1>4. commitments'[i] = u /\ u.id = i /\ u.status = "none" /\ issued' = issued /\ Commits(i, u)
  BY <1>1, <1>2, <1>3, FreshFields DEF Commits
<1>5. BaseTypeOK' /\ UNCHANGED <<adminVars, consumerNonces>>
  BY <1>1, <1>3, SameTypes
<1>6. CommitmentOf(i)'
  BY <1>1, <1>2, <1>3, <1>4, <1>5 DEF CommitmentOf
<1>7. CallbackOpen'
  BY <1>1 DEF CallbackOpen, Unlocked
<1> QED BY <1>1, <1>3, <1>4, <1>5, <1>6, <1>7, CommitInv DEF Unlocked

LEMMA RequestInv ==
    ASSUME V3Inv, NEW c \in Consumers, NEW supplied \in {0} \cup Subs, NEW k \in Keys,
           NEW p \in RequestParams, NEW maxPayment,
           RequestRandomWords(c, supplied, k, p, maxPayment)
    PROVE  V3Inv'
<1>0. PICK n \in RequestIds, u \in WitnessType, s \in Subs : Requested(c, supplied, k, p, n, u, s)
  BY RequestCommits
<1>1. /\ n = NextRequestId(c, s, k)
      /\ u = Fresh(n, u.terms, "pending")
      /\ u.terms.service \in KeyServices
      /\ u.terms.operatorPremiumShareBps <= MAX_PREMIUM_BPS
      /\ commitments' = [commitments EXCEPT ![n] = u]
      /\ published' = published \cup {u} /\ issued' = issued \cup {n}
      /\ charged' = charged /\ charged[n] = 0
      /\ frame' = frame /\ frame.kind = "idle" /\ UNCHANGED adminVars
      /\ consumerNonces' = [consumerNonces EXCEPT ![<<s, c>>] = @ + 1]
      /\ BaseTypeOK'
  BY <1>0 DEF Requested
<1>2. /\ commitments \in [RequestIds -> WitnessType] /\ charged \in [RequestIds -> Nat]
      /\ frame \in FrameType \cup {Idle} /\ issued \subseteq RequestIds
      /\ consumerNonces \in [Subs \X Consumers -> 0..MaxNonce]
      /\ \A w \in published : w \in WitnessType
  BY V3Types
<1>3. /\ u.id = n /\ u.status = "pending" /\ u.randomness = NoOutput
      /\ ~u.callbackSucceeded /\ u.terms.reservedPayment \in Nat
  <2>1. u.terms.reservedPayment \in Nat
    BY DEF WitnessType, TermsType
  <2>2. PICK t : t = u.terms
    OBVIOUS
  <2> QED BY <1>1, <2>1, <2>2 DEF Fresh
<1>4. TypeOK'
  BY <1>1, <1>2 DEF TypeOK, FrameType
<1>5. VersionsCurrent'
  BY <1>1, SameVersions DEF V3Inv
<1>6. \A sc \in Subs \X Consumers : consumerNonces[sc] \in Nat /\ consumerNonces'[sc] \in Nat
                                    /\ consumerNonces[sc] <= consumerNonces'[sc]
  <2>1. \A sc \in Subs \X Consumers : consumerNonces[sc] \in Nat
    BY <1>2, BaseAssumption
  <2> QED BY <1>1, <1>2, <2>1
<1>7. n[3] <= consumerNonces'[PairOf(n)]
  <2>1. n[3] = consumerNonces[<<s, c>>] + 1 /\ PairOf(n) = <<s, c>>
    BY <1>1 DEF NextRequestId, PairOf
  <2>2. consumerNonces'[<<s, c>>] = consumerNonces[<<s, c>>] + 1
        /\ consumerNonces[<<s, c>>] \in Nat
    BY <1>1, <1>2, BaseAssumption
  <2> QED BY <2>1, <2>2
<1>8. CommitmentOf(n)'
  <2>1. commitments'[n] = u /\ charged'[n] = 0 /\ n \in issued' /\ u \in published'
    BY <1>1, <1>2
  <2> QED BY <1>1, <1>3, <1>7, <2>1 DEF CommitmentOf
<1>9. ASSUME NEW j \in RequestIds \ {n} PROVE CommitmentOf(j)'
  <2>1. /\ commitments'[j] = commitments[j] /\ charged'[j] = charged[j]
        /\ (j \in issued' <=> j \in issued) /\ published \subseteq published'
    BY <1>1, <1>2
  <2>2. CommitmentOf(j)
    BY DEF V3Inv
  <2>3. j \in issued => j[3] <= consumerNonces'[PairOf(j)]
    <3>1. PairOf(j) \in Subs \X Consumers /\ j[3] \in Nat
      BY BaseAssumption DEF RequestIds, PairOf
    <3> QED BY <1>6, <2>2, <3>1 DEF CommitmentOf
  <2> QED BY <1>1, <2>1, <2>2, <2>3 DEF CommitmentOf, Unlocked
<1>10. CallbackOpen'
  BY <1>1 DEF CallbackOpen, Unlocked
<1> QED BY <1>4, <1>5, <1>8, <1>9, <1>10 DEF V3Inv

LEMMA V3StepInv == V3Inv /\ [V3Next]_vars => V3Inv'
<1> SUFFICES ASSUME V3Inv, [V3Next]_vars PROVE V3Inv'
  OBVIOUS
<1>1. BaseTypeOK /\ VersionsCurrent
  BY V3Types
<1>2. CASE BaseNext /\ UNCHANGED reqVars
  BY <1>1, <1>2, BaseStepTypes, VersionsStayCurrent, BaseKeepsNonces, WhoChangesVersions,
     V3Quiet
<1>3. CASE UNCHANGED vars
  <2>1. UNCHANGED <<quietVars, frame, reqVars>>
    BY <1>3 DEF vars, baseVars, quietVars
  <2> QED BY <1>1, <2>1, SameTypes, SameVersions, V3Quiet
<1>4. CASE RequestNext
  BY <1>4, RequestInv, FulfillInv, RetryInv, ExpireInv, PruneInv, SettleInv, FinishRetryInv
     DEF RequestNext
<1> QED BY <1>2, <1>3, <1>4 DEF V3Next

\* Every reachable state satisfies the invariant.
THEOREM V3Invariant == V3Spec => []V3Inv
BY V3InitInv, V3StepInv, PTL DEF V3Spec

\* Type correctness of the compact coordinator.
THEOREM V3TypeCorrect == V3Spec => []TypeOK
<1>1. V3Inv => TypeOK
  BY DEF V3Inv
<1> QED BY <1>1, V3Invariant, PTL

\* Between transactions the events hold the witness of every live commitment,
\* however many callbacks failed and whatever was fulfilled, retried or expired
\* in between: no request becomes one that nobody can bring back.
THEOREM V3WitnessRecoverable == V3Spec => []WitnessRecoverable
<1>1. V3Inv => WitnessRecoverable
  BY DEF V3Inv, CommitmentOf, WitnessRecoverable, StatusOf
<1> QED BY <1>1, V3Invariant, PTL

\* A request is charged once and within its reservation, whatever stale or
\* altered witnesses are brought to fulfillRandomWords and retryCallback.
THEOREM V3ChargedOnce == V3Spec => []ChargedOnce
<1>1. V3Inv => ChargedOnce
  <2> SUFFICES ASSUME V3Inv, NEW i \in RequestIds
               PROVE  /\ charged[i] # 0 => StatusOf(i) \in {"fulfilled", "none"} /\ ~Holds(i)
                      /\ StatusOf(i) # "none" => charged[i] <= commitments[i].terms.reservedPayment
    BY DEF ChargedOnce
  <2>1. /\ CommitmentOf(i) /\ CallbackOpen
        /\ commitments[i].status \in {"none", "pending", "fulfilled", "expired"}
    BY V3Types DEF V3Inv, WitnessType
  <2> QED BY <2>1 DEF CommitmentOf, CallbackOpen, StatusOf, Holds, Unlocked
<1> QED BY <1>1, V3Invariant, PTL

-----------------------------------------------------------------------------
(* The counters are exact *)

\* The requests that hold a reservation, what each holds, and the sponsored ones
heldIds == {i \in RequestIds : Holds(i)}
reservedFor == [i \in RequestIds |-> commitments[i].terms.reservedPayment]
sponsoredIds == {i \in RequestIds : commitments[i].terms.sponsored}

\* The inductive invariant.
BooksInv == V3Inv /\ UnusedEmpty /\ Ledger(heldIds, reservedFor, sponsoredIds)

\* What i holds and whether it is sponsored stays.
SameHold(i) == /\ Holds(i)' <=> Holds(i)
               /\ Holds(i) => commitments'[i].terms = commitments[i].terms

LEMMA BooksQuiet ==
    ASSUME BooksInv, V3Inv', UnusedEmpty', BooksKept, \A i \in RequestIds : SameHold(i)
    PROVE  BooksInv'
<1>1. PICK H, amount, free : H = heldIds /\ amount = reservedFor /\ free = sponsoredIds
  OBVIOUS
<1>2. PICK amount2, free2 : amount2 = reservedFor' /\ free2 = sponsoredIds'
  OBVIOUS
<1>3. H = heldIds'
  BY <1>1 DEF heldIds, SameHold
<1>4. \A i \in H : amount2[i] = amount[i] /\ (i \in free2 <=> i \in free)
  BY <1>1, <1>2 DEF heldIds, reservedFor, sponsoredIds, SameHold
<1>5. Ledger(H, amount2, free2)'
  BY <1>1, <1>4, LedgerKept DEF BooksInv
<1> QED BY <1>2, <1>3, <1>5 DEF BooksInv

\* The reservation of request i is given up, at the amount of the commitment.
LEMMA BooksGiven ==
    ASSUME BooksInv, V3Inv', NEW i \in RequestIds, NEW charge \in Nat,
           charge <= commitments[i].terms.reservedPayment, Holds(i), ~Holds(i)',
           ReleaseReservation(i, commitments[i].terms.reservedPayment,
                              commitments[i].terms.sponsored, charge),
           \A j \in RequestIds \ {i} : SameHold(j)
    PROVE  BooksInv'
<1>1. PICK H, amount, free : H = heldIds /\ amount = reservedFor /\ free = sponsoredIds
  OBVIOUS
<1>2. PICK amount2, free2 : amount2 = reservedFor' /\ free2 = sponsoredIds'
  OBVIOUS
<1>3. PICK K : K = H \ {i}
  OBVIOUS
<1>4. K = heldIds' /\ K \cup {i} = H /\ i \notin K
  BY <1>1, <1>3 DEF heldIds, SameHold
<1>5. \A j \in K : amount2[j] = amount[j] /\ (j \in free2 <=> j \in free)
  BY <1>1, <1>2, <1>3 DEF heldIds, reservedFor, sponsoredIds, SameHold
<1>6. BaseTypeOK /\ UnusedEmpty /\ Ledger(K \cup {i}, amount, free)
  BY <1>1, <1>4, V3Types DEF BooksInv
<1>7. PICK r \in Nat, sponsored \in BOOLEAN :
           r = commitments[i].terms.reservedPayment /\ sponsored = commitments[i].terms.sponsored
  BY V3Types, WitnessFields DEF BooksInv, TermsType
<1>8. r = amount[i] /\ (sponsored <=> i \in free) /\ charge <= r
  BY <1>1, <1>7 DEF reservedFor, sponsoredIds
<1>9. GivenBooks(i, r, sponsored, charge) /\ UnusedEmpty'
  BY <1>6, <1>7, ReleaseBooks
<1>10. GivenBooks(i, r, i \in free, charge)
  BY <1>8, <1>9 DEF GivenBooks
<1>11. Ledger(K, amount2, free2)'
  BY <1>4, <1>5, <1>6, <1>8, <1>10, LedgerGiven
<1> QED BY <1>2, <1>4, <1>9, <1>11 DEF BooksInv

\* A reservation is taken for a new request.
LEMMA BooksRequest ==
    ASSUME BooksInv, V3Inv', NEW c \in Consumers, NEW supplied \in {0} \cup Subs,
           NEW k \in Keys, NEW p \in RequestParams, NEW maxPayment,
           RequestRandomWords(c, supplied, k, p, maxPayment)
    PROVE  BooksInv'
<1>1. PICK b : b = ResolveBilling(c, supplied)
  OBVIOUS
<1>2. PICK reserve : reserve = QuoteMaxPayment(k, p, b)
  OBVIOUS
<1>3. V3Inv /\ BaseTypeOK /\ VersionsCurrent /\ UnusedEmpty
      /\ commitments \in [RequestIds -> WitnessType]
  BY V3Types DEF BooksInv
<1>4. PICK n \in RequestIds, u \in WitnessType, s \in Subs : Requested(c, supplied, k, p, n, u, s)
  BY <1>3, RequestCommits
<1>5. /\ n = NextRequestId(c, s, k) /\ s = b.subscriptionId
      /\ commitments[n] = Fresh(n, NoTerms, "none") /\ u = Fresh(n, u.terms, "pending")
      /\ u.terms.reservedPayment = reserve /\ u.terms.sponsored = b.sponsored
      /\ commitments' = [commitments EXCEPT ![n] = u]
      /\ frame' = frame /\ frame.kind = "idle"
  BY <1>1, <1>2, <1>4 DEF Requested
<1>6. RequestAllowed(c, supplied, k, p, maxPayment) /\ TakeReservation(c, b, reserve)
  BY <1>1, <1>2 DEF RequestRandomWords
<1>7. /\ reserve \in Nat /\ b.sponsored \in BOOLEAN
      /\ b.sponsored => s = sponsorPolicies[c].subscriptionId
  BY <1>1, <1>2, <1>3, <1>5, <1>6, AcceptedRequest
<1>8. u.status = "pending" /\ commitments[n].status = "none" /\ commitments'[n] = u
  <2>1. PICK t : t = u.terms
    OBVIOUS
  <2> QED BY <1>3, <1>5, <2>1 DEF Fresh
<1>9. /\ ~Holds(n) /\ Holds(n)'
      /\ \A j \in RequestIds \ {n} : commitments'[j] = commitments[j] /\ SameHold(j)
  BY <1>3, <1>5, <1>8 DEF Holds, StatusOf, SameHold
<1>10. PICK H, amount, free : H = heldIds /\ amount = reservedFor /\ free = sponsoredIds
  OBVIOUS
<1>11. PICK amount2, free2 : amount2 = reservedFor' /\ free2 = sponsoredIds'
  OBVIOUS
<1>12. H \cup {n} = heldIds' /\ n \notin H
  BY <1>9, <1>10 DEF heldIds, SameHold
<1>13. amount2[n] = reserve /\ (n \in free2 <=> b.sponsored)
  BY <1>5, <1>8, <1>11 DEF reservedFor, sponsoredIds
<1>14. \A j \in H : amount2[j] = amount[j] /\ (j \in free2 <=> j \in free)
  BY <1>9, <1>10, <1>11, <1>12 DEF heldIds, reservedFor, sponsoredIds
<1>15. /\ RequireSubscription(s) /\ subscriptions[s].balance - subscriptions[s].reserved >= reserve
  BY <1>1, <1>2, <1>5, <1>6 DEF RequestAllowed, BillingAllowed
<1>16. PICK sponsored \in BOOLEAN : sponsored = b.sponsored
  BY <1>7
<1>17. TakenBooks(n, reserve, sponsored) /\ UnusedEmpty'
  <2>1. sponsored <=> b.sponsored
    BY <1>16
  <2> QED BY <1>3, <1>5, <1>6, <1>7, <1>15, <2>1, TakeReservationBooks
<1>18. TakenBooks(n, amount2[n], n \in free2)
  BY <1>13, <1>16, <1>17 DEF TakenBooks
<1>19. Ledger(H, amount, free) /\ amount2[n] \in Nat
  BY <1>7, <1>10, <1>13 DEF BooksInv
<1>20. Ledger(H \cup {n}, amount2, free2)'
  BY <1>12, <1>14, <1>18, <1>19, LedgerTaken
<1> QED BY <1>11, <1>12, <1>17, <1>20 DEF BooksInv

\* Nothing is held or given up where a callback opens, a retry ends or a request
\* is forgotten: a fulfilment keeps its reservation until it is settled.
LEMMA HoldsFulfill ==
    ASSUME V3Inv, NEW w, NEW caller, NEW gasPrice \in GasPrices, NEW randomness \in Outputs,
           NEW success \in BOOLEAN,
           FulfillRandomWords(w, caller, gasPrice, randomness, success)
    PROVE  UNCHANGED subVars /\ \A j \in RequestIds : SameHold(j)
<1>1. PICK i \in RequestIds, u \in WitnessType :
               /\ Commits(i, u) /\ frame.kind = "idle"
               /\ commitments[i].status = "pending" /\ u.status = "fulfilled"
               /\ u.terms = commitments[i].terms
               /\ frame' = [kind |-> "fulfill", arg |-> u, success |-> success,
                            gasPrice |-> gasPrice]
               /\ UNCHANGED quietVars
  BY FulfillCommits
<1>2. commitments \in [RequestIds -> WitnessType]
  BY V3Types
<1>3. commitments'[i] = u /\ frame'.kind = "fulfill" /\ frame'.arg.id = i
      /\ \A j \in RequestIds \ {i} : commitments'[j] = commitments[j]
  BY <1>1, <1>2 DEF Commits
<1>4. SameHold(i)
  BY <1>1, <1>3 DEF SameHold, Holds, StatusOf
<1>5. \A j \in RequestIds \ {i} : SameHold(j)
  BY <1>1, <1>3 DEF SameHold, Holds, StatusOf
<1> QED BY <1>1, <1>4, <1>5 DEF quietVars

LEMMA HoldsRetry ==
    ASSUME V3Inv, NEW w, NEW success \in BOOLEAN, RetryCallback(w, success)
    PROVE  UNCHANGED subVars /\ \A j \in RequestIds : SameHold(j)
<1>1. PICK i \in RequestIds, u \in WitnessType :
               /\ Commits(i, u) /\ frame.kind = "idle"
               /\ commitments[i].status = "fulfilled" /\ u.status = "fulfilled"
               /\ frame' = [kind |-> "retry", arg |-> u, success |-> success, gasPrice |-> 0]
               /\ UNCHANGED quietVars
  BY RetryCommits
<1>2. commitments \in [RequestIds -> WitnessType]
  BY V3Types
<1>3. commitments'[i] = u /\ frame'.kind = "retry"
      /\ \A j \in RequestIds \ {i} : commitments'[j] = commitments[j]
  BY <1>1, <1>2 DEF Commits
<1> QED BY <1>1, <1>3 DEF SameHold, Holds, StatusOf, quietVars

LEMMA HoldsFinishRetry ==
    ASSUME V3Inv, FinishRetry
    PROVE  UNCHANGED subVars /\ \A j \in RequestIds : SameHold(j)
<1>1. frame.kind = "retry" /\ ~Unlocked /\ CloseCallback /\ UNCHANGED <<subVars, issued>>
  BY DEF FinishRetry, Unlocked
<1>2. PICK i \in RequestIds, u \in WitnessType :
               /\ Commits(i, u) /\ commitments[i].status = "fulfilled"
               /\ u.status = "fulfilled" /\ frame' = Idle
  BY <1>1, CloseCommits
<1>3. commitments \in [RequestIds -> WitnessType]
  BY V3Types
<1>4. commitments'[i] = u /\ frame'.kind = "idle"
      /\ \A j \in RequestIds \ {i} : commitments'[j] = commitments[j]
  BY <1>2, <1>3 DEF Commits, Idle
<1> QED BY <1>1, <1>2, <1>4 DEF SameHold, Holds, StatusOf

LEMMA HoldsPrune ==
    ASSUME V3Inv, NEW w, PruneRequest(w)
    PROVE  UNCHANGED subVars /\ \A j \in RequestIds : SameHold(j)
<1>1. PICK i \in RequestIds :
               /\ Commits(i, Fresh(i, NoTerms, "none")) /\ frame.kind = "idle"
               /\ commitments[i].status \in {"fulfilled", "expired"}
               /\ frame' = frame /\ UNCHANGED quietVars
  BY PruneCommits
<1>2. commitments \in [RequestIds -> WitnessType]
  BY V3Types
<1>3. commitments'[i].status = "none"
      /\ \A j \in RequestIds \ {i} : commitments'[j] = commitments[j]
  BY <1>1, <1>2, FreshFields DEF Commits
<1> QED BY <1>1, <1>3 DEF SameHold, Holds, StatusOf, quietVars

\* Expiry and settlement give up what the request holds.
LEMMA BooksExpire == ASSUME BooksInv, V3Inv', NEW w, ExpireRequest(w) PROVE BooksInv'
<1>1. V3Inv /\ commitments \in [RequestIds -> WitnessType]
  BY V3Types DEF BooksInv
<1>2. PICK i \in RequestIds, u \in WitnessType :
               /\ Commits(i, u) /\ frame.kind = "idle" /\ frame' = frame
               /\ commitments[i].status = "pending" /\ u.status = "expired"
               /\ ReleaseReservation(i, commitments[i].terms.reservedPayment,
                                     commitments[i].terms.sponsored, 0)
  BY <1>1, ExpireCommits
<1>3. commitments'[i] = u /\ \A j \in RequestIds \ {i} : commitments'[j] = commitments[j]
  BY <1>1, <1>2 DEF Commits
<1>4. Holds(i) /\ ~Holds(i)' /\ \A j \in RequestIds \ {i} : SameHold(j)
  BY <1>2, <1>3 DEF SameHold, Holds, StatusOf
<1>5. 0 \in Nat /\ 0 <= commitments[i].terms.reservedPayment
  <2>1. PICK t \in TermsType : t = commitments[i].terms
    BY <1>1, WitnessFields
  <2> QED BY <2>1 DEF TermsType
<1> QED BY <1>2, <1>4, <1>5, BooksGiven

LEMMA BooksSettle ==
    ASSUME BooksInv, V3Inv', NEW gasUsed \in GasUses, NEW l1Cost \in L1Costs,
           SettleFulfillment(gasUsed, l1Cost)
    PROVE  BooksInv'
<1>1. V3Inv /\ commitments \in [RequestIds -> WitnessType]
  BY V3Types DEF BooksInv
<1>2. PICK i \in RequestIds, u \in WitnessType, ok \in BOOLEAN, networkCost \in Nat,
         charge \in Nat : Settled(i, u, ok, networkCost, charge)
  BY <1>1, SettleCommits
<1>3. /\ Commits(i, u) /\ frame.kind = "fulfill" /\ frame.arg.id = i /\ u.status = "fulfilled"
      /\ frame' = Idle /\ charge <= commitments[i].terms.reservedPayment
      /\ ReleaseReservation(i, commitments[i].terms.reservedPayment,
                            commitments[i].terms.sponsored, charge)
  BY <1>2 DEF Settled
<1>4. commitments'[i] = u /\ frame'.kind = "idle"
      /\ \A j \in RequestIds \ {i} : commitments'[j] = commitments[j]
  BY <1>1, <1>3 DEF Commits, Idle
<1>5. Holds(i) /\ ~Holds(i)' /\ \A j \in RequestIds \ {i} : SameHold(j)
  BY <1>3, <1>4 DEF SameHold, Holds, StatusOf
<1> QED BY <1>3, <1>5, BooksGiven

LEMMA BooksInit == V3Init => BooksInv
<1> SUFFICES ASSUME V3Init PROVE BooksInv
  OBVIOUS
<1>1. heldIds = {}
  BY FreshFields DEF heldIds, Holds, StatusOf, V3Init, BaseInit, Idle
<1>2. PICK amount, free : amount = reservedFor /\ free = sponsoredIds
  OBVIOUS
<1>3. Ledger({}, amount, free)
  BY LedgerEmpty DEF V3Init, BaseInit
<1>4. UnusedEmpty
  BY DEF V3Init, BaseInit, UnusedEmpty
<1> QED BY <1>1, <1>2, <1>3, <1>4, V3InitInv DEF BooksInv

LEMMA BooksStep == BooksInv /\ [V3Next]_vars => BooksInv'
<1> SUFFICES ASSUME BooksInv, [V3Next]_vars PROVE BooksInv'
  OBVIOUS
<1>1. V3Inv' /\ V3Inv /\ UnusedEmpty /\ BaseTypeOK
  BY V3StepInv, V3Types DEF BooksInv
<1>2. ASSUME UNCHANGED subVars, \A j \in RequestIds : SameHold(j) PROVE BooksInv'
  BY <1>1, <1>2, SubsUnchanged, BooksQuiet
<1>3. CASE BaseNext /\ UNCHANGED reqVars
  <2>1. BooksKept /\ UnusedEmpty'
    BY <1>1, <1>3, BaseBooks
  <2>2. \A j \in RequestIds : SameHold(j)
    BY <1>3, WhoChangesVersions DEF reqVars, SameHold, Holds, StatusOf
  <2> QED BY <1>1, <2>1, <2>2, BooksQuiet
<1>4. CASE UNCHANGED vars
  BY <1>2, <1>4 DEF vars, baseVars, reqVars, SameHold, Holds, StatusOf
<1>5. CASE RequestNext
  <2>1. ASSUME NEW w, NEW caller, NEW gasPrice \in GasPrices, NEW randomness \in Outputs,
               NEW success \in BOOLEAN,
               FulfillRandomWords(w, caller, gasPrice, randomness, success)
        PROVE  BooksInv'
    BY <1>1, <1>2, <2>1, HoldsFulfill
  <2>2. ASSUME NEW w, NEW success \in BOOLEAN, RetryCallback(w, success) PROVE BooksInv'
    BY <1>1, <1>2, <2>2, HoldsRetry
  <2>3. ASSUME NEW w, PruneRequest(w) PROVE BooksInv'
    BY <1>1, <1>2, <2>3, HoldsPrune
  <2>4. ASSUME FinishRetry PROVE BooksInv'
    BY <1>1, <1>2, <2>4, HoldsFinishRetry
  <2> QED BY <1>1, <1>5, <2>1, <2>2, <2>3, <2>4, BooksRequest, BooksExpire, BooksSettle
          DEF RequestNext
<1> QED BY <1>3, <1>4, <1>5 DEF V3Next

\* The counters are exact in every reachable state.
THEOREM V3Books == V3Spec => []BooksInv
BY BooksInit, BooksStep, PTL DEF V3Spec

\* The reserved wei, the pending counters of consumers and those of sponsor
\* policies are exactly what the unsettled requests hold, although every amount
\* given up comes back in a witness that a caller brings.
THEOREM V3WitnessAccounting == V3Spec => []WitnessAccounting
<1>1. BooksInv => WitnessAccounting
  <2> SUFFICES ASSUME BooksInv PROVE WitnessAccounting
    OBVIOUS
  <2>1. ASSUME NEW s \in Subs PROVE HeldWei(s) = WeiOf(heldIds, reservedFor, s)
    <3>1. {j \in RequestIds : SubOf(j) = s /\ Holds(j)} = {j \in heldIds : SubOf(j) = s}
      BY DEF heldIds
    <3>2. \A j \in heldIds : commitments[j].terms.reservedPayment = reservedFor[j]
      BY DEF heldIds, reservedFor
    <3> QED BY <3>1, <3>2 DEF HeldWei, WeiOf
  <2>2. /\ \A sc \in Subs \X Consumers : HeldBy(sc) = RequestsOf(heldIds, sc)
        /\ \A c \in Consumers : SponsoredHeldBy(c) = SponsoredOf(heldIds, sponsoredIds, c)
    BY DEF HeldBy, RequestsOf, SponsoredHeldBy, SponsoredOf, heldIds, sponsoredIds
  <2> QED BY <2>1, <2>2 DEF WitnessAccounting, BooksInv, Ledger
<1> QED BY <1>1, V3Books, PTL

-----------------------------------------------------------------------------
(* Ether is conserved *)

LEMMA SolventStep == BooksInv /\ BooksInv' /\ SolventInv /\ [V3Next]_vars => SolventInv'
<1> SUFFICES ASSUME BooksInv, BooksInv', SolventInv, [V3Next]_vars PROVE SolventInv'
  OBVIOUS
<1>1. V3Inv /\ BaseTypeOK /\ BaseTypeOK' /\ UnusedEmpty
  BY V3Types DEF BooksInv, V3Inv, TypeOK
<1>2. ASSUME UNCHANGED <<subVars, creditVars>> PROVE SolventInv'
  <2>1. \A x \in Subs : subscriptions'[x].balance = subscriptions[x].balance
    BY <1>2 DEF subVars
  <2> QED BY <1>1, <1>2, <2>1, SolventSame
<1>3. CASE BaseNext /\ UNCHANGED reqVars
  BY <1>1, <1>3, BaseSolvent
<1>4. CASE UNCHANGED vars
  BY <1>2, <1>4 DEF vars, baseVars
<1>5. CASE RequestNext
  <2>1. ASSUME NEW c \in Consumers, NEW supplied \in {0} \cup Subs, NEW k \in Keys,
               NEW p \in RequestParams, NEW maxPayment,
               RequestRandomWords(c, supplied, k, p, maxPayment)
        PROVE  SolventInv'
    BY <1>1, <2>1, ReserveSolvent DEF RequestRandomWords
  <2>2. ASSUME NEW w, NEW caller, NEW gasPrice, NEW randomness, NEW success,
               FulfillRandomWords(w, caller, gasPrice, randomness, success)
        PROVE  SolventInv'
    BY <1>2, <2>2 DEF FulfillRandomWords, OpenCallback
  <2>3. ASSUME NEW w, NEW success, RetryCallback(w, success) PROVE SolventInv'
    BY <1>2, <2>3 DEF RetryCallback, OpenCallback
  <2>4. ASSUME NEW w, PruneRequest(w) PROVE SolventInv'
    BY <1>2, <2>4 DEF PruneRequest, baseVars
  <2>5. ASSUME FinishRetry PROVE SolventInv'
    BY <1>2, <2>5 DEF FinishRetry
  <2>6. ASSUME NEW w, ExpireRequest(w) PROVE SolventInv'
    <3>1. PICK i \in RequestIds :
               /\ UNCHANGED creditVars
               /\ ReleaseReservation(i, commitments[i].terms.reservedPayment,
                                     commitments[i].terms.sponsored, 0)
      BY <1>1, <2>6, ExpireCommits
    <3> QED BY <1>1, <3>1, ReserveSolvent
  <2>7. ASSUME NEW gasUsed \in GasUses, NEW l1Cost \in L1Costs,
               SettleFulfillment(gasUsed, l1Cost)
        PROVE  SolventInv'
    <3>1. PICK i \in RequestIds, u \in WitnessType, ok \in BOOLEAN, networkCost \in Nat,
             charge \in Nat : Settled(i, u, ok, networkCost, charge)
      BY <1>1, <2>7, SettleCommits
    <3>2. PICK t \in TermsType : t = commitments[i].terms
      BY <3>1 DEF Settled
    <3>3. /\ charge >= networkCost /\ t.service.payee \in Operators
          /\ ReleaseReservation(i, t.reservedPayment, t.sponsored, charge)
          /\ CreditCharge(t.service.payee, networkCost, charge, t.operatorPremiumShareBps)
      BY <3>1, <3>2 DEF Settled
    <3>4. t.reservedPayment \in Nat /\ t.operatorPremiumShareBps \in Nat
      BY DEF TermsType
    <3> QED BY <1>1, <3>3, <3>4, SettleSolvent
  <2> QED BY <1>5, <2>1, <2>2, <2>3, <2>4, <2>5, <2>6, <2>7 DEF RequestNext
<1> QED BY <1>3, <1>4, <1>5 DEF V3Next

\* The ether of the compact coordinator is what it owes, although the payee and
\* the operator's share of a charge come back in a witness.
THEOREM V3Solvent == V3Spec => []Solvent
<1>1. V3Init => SolventInv
  BY SolventInit DEF V3Init
<1>2. SolventInv => Solvent
  BY DEF SolventInv
<1> QED BY <1>1, <1>2, SolventStep, V3Books, PTL DEF V3Spec

-----------------------------------------------------------------------------
(* The compact coordinator implements the request life cycle *)

\* The refinement mapping, variable by variable.
phaseMap == [i \in RequestIds |-> PhaseOf(i)]
resultMap == [i \in RequestIds |-> commitments[i].randomness]
deliveredMap == [i \in RequestIds |-> commitments[i].callbackSucceeded]
heldMap == [i \in RequestIds |-> Holds(i)]

\* What a step that leaves all requests but i alone does to the mapping.
LEMMA MapLocal ==
    ASSUME NEW i \in RequestIds,
           \A j \in RequestIds \ {i} : /\ commitments'[j] = commitments[j]
                                       /\ (j \in issued' <=> j \in issued),
           \A j \in RequestIds \ {i} : (Holds(j)' <=> Holds(j))
    PROVE  /\ phaseMap' = [phaseMap EXCEPT ![i] = PhaseOf(i)']
           /\ resultMap' = [resultMap EXCEPT ![i] = commitments'[i].randomness]
           /\ deliveredMap' = [deliveredMap EXCEPT ![i] = commitments'[i].callbackSucceeded]
           /\ heldMap' = [heldMap EXCEPT ![i] = Holds(i)']
           /\ phaseMap[i] = PhaseOf(i) /\ resultMap[i] = commitments[i].randomness
           /\ deliveredMap[i] = commitments[i].callbackSucceeded /\ heldMap[i] = Holds(i)
<1>1. \A j \in RequestIds \ {i} : PhaseOf(j)' = PhaseOf(j)
  BY DEF PhaseOf, StatusOf
<1>2. \A j \in RequestIds : Holds(j) \in BOOLEAN /\ Holds(j)' \in BOOLEAN
  BY DEF Holds
<1>3. heldMap' = [heldMap EXCEPT ![i] = Holds(i)']
  <2> DEFINE h(j) == Holds(j)
             g(j) == Holds(j)'
  <2>1. \A j \in RequestIds \ {i} : g(j) = h(j)
    BY <1>2
  <2>2. heldMap = [j \in RequestIds |-> h(j)] /\ heldMap' = [j \in RequestIds |-> g(j)]
    BY DEF heldMap
  <2> HIDE DEF h, g
  <2>3. heldMap' = [heldMap EXCEPT ![i] = g(i)]
    BY <2>1, <2>2
  <2> QED BY <2>3 DEF g
<1> QED BY <1>1, <1>3 DEF phaseMap, resultMap, deliveredMap, heldMap

LEMMA HeldSame ==
    ASSUME \A j \in RequestIds : (Holds(j)' <=> Holds(j))
    PROVE  heldMap' = heldMap
<1> DEFINE h(j) == Holds(j)
           g(j) == Holds(j)'
<1>1. \A j \in RequestIds : g(j) = h(j)
  BY DEF Holds
<1>2. heldMap = [j \in RequestIds |-> h(j)] /\ heldMap' = [j \in RequestIds |-> g(j)]
  BY DEF heldMap
<1> HIDE DEF h, g
<1> QED BY <1>1, <1>2

\* A step that shows nothing of a request.
LEMMA MapSame ==
    ASSUME \A j \in RequestIds :
               /\ PhaseOf(j)' = PhaseOf(j) /\ (Holds(j)' <=> Holds(j))
               /\ commitments'[j].randomness = commitments[j].randomness
               /\ commitments'[j].callbackSucceeded = commitments[j].callbackSucceeded
    PROVE  UNCHANGED Life!lifeVars
<1>1. heldMap' = heldMap
  BY HeldSame
<1>2. phaseMap' = phaseMap /\ resultMap' = resultMap /\ deliveredMap' = deliveredMap
  BY DEF phaseMap, resultMap, deliveredMap
<1> QED BY <1>1, <1>2 DEF Life!lifeVars, phaseMap, resultMap, deliveredMap, heldMap

LEMMA LifeRequest ==
    ASSUME V3Inv, NEW c \in Consumers, NEW supplied \in {0} \cup Subs,
           NEW k \in Keys, NEW p \in RequestParams, NEW maxPayment,
           RequestRandomWords(c, supplied, k, p, maxPayment)
    PROVE  Life!LifeNext
<1>1. PICK n \in RequestIds, u \in WitnessType, s \in Subs : Requested(c, supplied, k, p, n, u, s)
  BY RequestCommits
<1>2. /\ n \notin issued /\ commitments[n] = Fresh(n, NoTerms, "none")
      /\ u = Fresh(n, u.terms, "pending") /\ issued' = issued \cup {n}
      /\ commitments' = [commitments EXCEPT ![n] = u] /\ frame' = frame
      /\ commitments \in [RequestIds -> WitnessType]
  BY <1>1, V3Types DEF Requested
<1>3. /\ u.status = "pending" /\ u.randomness = NoOutput /\ u.callbackSucceeded = FALSE
      /\ commitments'[n] = u
  <2>1. PICK t : t = u.terms
    OBVIOUS
  <2> QED BY <1>2, <2>1 DEF Fresh
<1>4. /\ commitments[n].status = "none" /\ commitments[n].randomness = NoOutput
      /\ commitments[n].callbackSucceeded = FALSE
  BY <1>2, FreshFields
<1>5. \A j \in RequestIds \ {n} : /\ commitments'[j] = commitments[j]
                                  /\ (j \in issued' <=> j \in issued)
                                  /\ (Holds(j)' <=> Holds(j))
  BY <1>2 DEF Holds, StatusOf
<1>6. PhaseOf(n) = "none" /\ PhaseOf(n)' = "pending" /\ Holds(n)' = TRUE
  BY <1>2, <1>3, <1>4 DEF PhaseOf, Holds, StatusOf
<1>7. /\ phaseMap' = [phaseMap EXCEPT ![n] = "pending"] /\ phaseMap[n] = "none"
      /\ heldMap' = [heldMap EXCEPT ![n] = TRUE]
      /\ resultMap' = resultMap /\ deliveredMap' = deliveredMap
  <2>0. /\ commitments'[n].randomness = commitments[n].randomness
        /\ commitments'[n].callbackSucceeded = commitments[n].callbackSucceeded
    BY <1>3, <1>4
  <2>1. /\ resultMap' = [resultMap EXCEPT ![n] = resultMap[n]]
        /\ deliveredMap' = [deliveredMap EXCEPT ![n] = deliveredMap[n]]
    BY <1>5, <2>0, MapLocal
  <2> QED BY <1>5, <1>6, <2>1, MapLocal DEF resultMap, deliveredMap
<1>8. Life!Open(n)
  BY <1>7 DEF Life!Open, phaseMap, resultMap, deliveredMap, heldMap
<1> QED BY <1>8 DEF Life!LifeNext

LEMMA LifeFulfill ==
    ASSUME V3Inv, NEW w, NEW caller, NEW gasPrice \in GasPrices, NEW randomness \in Outputs,
           NEW success \in BOOLEAN,
           FulfillRandomWords(w, caller, gasPrice, randomness, success)
    PROVE  Life!LifeNext
<1>1. PICK i \in RequestIds, u \in WitnessType :
               /\ Commits(i, u) /\ frame.kind = "idle"
               /\ commitments[i].status = "pending" /\ u.status = "fulfilled"
               /\ u.randomness = randomness
               /\ u.callbackSucceeded = commitments[i].callbackSucceeded
               /\ frame' = [kind |-> "fulfill", arg |-> u, success |-> success,
                            gasPrice |-> gasPrice]
  BY FulfillCommits
<1>2. /\ \A j \in RequestIds \ {i} : commitments'[j] = commitments[j]
      /\ commitments'[i] = u /\ issued' = issued
  BY <1>1, V3Types DEF Commits
<1>3. \A j \in RequestIds : (Holds(j)' <=> Holds(j))
  BY HoldsFulfill DEF SameHold
<1>4. PhaseOf(i) = "pending" /\ PhaseOf(i)' = "fulfilled"
  BY <1>1, <1>2 DEF PhaseOf, StatusOf
<1>5. /\ phaseMap' = [phaseMap EXCEPT ![i] = "fulfilled"] /\ phaseMap[i] = "pending"
      /\ resultMap' = [resultMap EXCEPT ![i] = randomness] /\ deliveredMap' = deliveredMap
  <2>1. deliveredMap' = [deliveredMap EXCEPT ![i] = deliveredMap[i]]
    BY <1>1, <1>2, <1>3, MapLocal
  <2> QED BY <1>1, <1>2, <1>3, <1>4, <2>1, MapLocal DEF deliveredMap
<1>6. heldMap' = heldMap
  BY <1>3, HeldSame
<1>7. Life!Fulfil(i, randomness)
  BY <1>5, <1>6 DEF Life!Fulfil, phaseMap, resultMap, deliveredMap, heldMap
<1> QED BY <1>7 DEF Life!LifeNext

LEMMA LifeSettle ==
    ASSUME V3Inv, NEW gasUsed \in GasUses, NEW l1Cost \in L1Costs,
           SettleFulfillment(gasUsed, l1Cost)
    PROVE  Life!LifeNext
<1>0. PICK i \in RequestIds, u \in WitnessType, ok \in BOOLEAN, networkCost \in Nat,
         charge \in Nat : Settled(i, u, ok, networkCost, charge)
  BY SettleCommits
<1>1. /\ Commits(i, u) /\ frame.kind = "fulfill" /\ frame.arg.id = i /\ frame' = Idle
      /\ commitments[i].status = "fulfilled" /\ commitments[i].callbackSucceeded = FALSE
      /\ u.status = "fulfilled" /\ u.randomness = commitments[i].randomness
      /\ u.callbackSucceeded = ok
  BY <1>0 DEF Settled
<1>2. /\ \A j \in RequestIds \ {i} : commitments'[j] = commitments[j]
      /\ commitments'[i] = u /\ issued' = issued
  BY <1>1, V3Types DEF Commits
<1>3. \A j \in RequestIds \ {i} : (Holds(j)' <=> Holds(j))
  BY <1>1, <1>2 DEF Holds, StatusOf, Idle
<1>4. /\ PhaseOf(i) = "fulfilled" /\ PhaseOf(i)' = "fulfilled"
      /\ Holds(i) = TRUE /\ Holds(i)' = FALSE
  BY <1>1, <1>2 DEF PhaseOf, StatusOf, Holds, Idle
<1>5. /\ phaseMap' = [phaseMap EXCEPT ![i] = phaseMap[i]]
      /\ resultMap' = [resultMap EXCEPT ![i] = resultMap[i]]
  BY <1>1, <1>2, <1>3, <1>4, MapLocal
<1>6. /\ phaseMap[i] = "fulfilled" /\ deliveredMap[i] = FALSE
      /\ deliveredMap' = [deliveredMap EXCEPT ![i] = ok]
  BY <1>1, <1>2, <1>3, <1>4, MapLocal
<1>7. heldMap[i] = TRUE /\ heldMap' = [heldMap EXCEPT ![i] = FALSE]
  BY <1>2, <1>3, <1>4, MapLocal
<1>8. phaseMap' = phaseMap /\ resultMap' = resultMap
  BY <1>5 DEF phaseMap, resultMap
<1>9. Life!Settle(i, ok)
  BY <1>6, <1>7, <1>8 DEF Life!Settle, phaseMap, resultMap, deliveredMap, heldMap
<1> QED BY <1>9 DEF Life!LifeNext

LEMMA LifeFinishRetry ==
    ASSUME V3Inv, FinishRetry
    PROVE  Life!LifeNext \/ UNCHANGED Life!lifeVars
<1>1. frame.kind = "retry" /\ ~Unlocked /\ CloseCallback /\ UNCHANGED issued
  BY DEF FinishRetry, Unlocked
<1>2. PICK i \in RequestIds, u \in WitnessType, ok \in BOOLEAN :
               /\ Commits(i, u) /\ frame' = Idle
               /\ commitments[i].status = "fulfilled" /\ commitments[i].callbackSucceeded = FALSE
               /\ u.status = "fulfilled" /\ u.randomness = commitments[i].randomness
               /\ u.callbackSucceeded = ok
  BY <1>1, CloseCommits
<1>3. /\ \A j \in RequestIds \ {i} : commitments'[j] = commitments[j]
      /\ commitments'[i] = u /\ issued' = issued
  BY <1>2, V3Types DEF Commits
<1>4. \A j \in RequestIds : (Holds(j)' <=> Holds(j))
  BY HoldsFinishRetry DEF SameHold
<1>5. PhaseOf(i) = "fulfilled" /\ PhaseOf(i)' = "fulfilled" /\ Holds(i) = FALSE
  BY <1>1, <1>2, <1>3 DEF PhaseOf, StatusOf, Holds
<1>6. CASE ok = FALSE
  BY <1>2, <1>3, <1>4, <1>5, <1>6, MapSame DEF PhaseOf, StatusOf
<1>7. CASE ok = TRUE
  <2>1. /\ phaseMap' = [phaseMap EXCEPT ![i] = phaseMap[i]]
        /\ resultMap' = [resultMap EXCEPT ![i] = resultMap[i]]
    BY <1>2, <1>3, <1>4, <1>5, MapLocal
  <2>2. /\ phaseMap[i] = "fulfilled" /\ deliveredMap[i] = FALSE
        /\ deliveredMap' = [deliveredMap EXCEPT ![i] = TRUE]
    BY <1>2, <1>3, <1>4, <1>5, <1>7, MapLocal
  <2>3. heldMap[i] = FALSE
    BY <1>5 DEF heldMap
  <2>4. phaseMap' = phaseMap /\ resultMap' = resultMap
    BY <2>1 DEF phaseMap, resultMap
  <2>5. heldMap' = heldMap
    BY <1>4, HeldSame
  <2>6. Life!Deliver(i)
    BY <2>2, <2>3, <2>4, <2>5 DEF Life!Deliver, phaseMap, resultMap, deliveredMap, heldMap
  <2> QED BY <2>6 DEF Life!LifeNext
<1> QED BY <1>6, <1>7

LEMMA LifeRetry ==
    ASSUME V3Inv, NEW w, NEW success \in BOOLEAN, RetryCallback(w, success)
    PROVE  UNCHANGED Life!lifeVars
<1>1. PICK i \in RequestIds, u \in WitnessType :
               /\ Commits(i, u) /\ commitments[i].status = "fulfilled" /\ u.status = "fulfilled"
               /\ u.randomness = commitments[i].randomness
               /\ u.callbackSucceeded = commitments[i].callbackSucceeded
  BY RetryCommits
<1>2. /\ \A j \in RequestIds \ {i} : commitments'[j] = commitments[j]
      /\ commitments'[i] = u /\ issued' = issued
  BY <1>1, V3Types DEF Commits
<1>3. \A j \in RequestIds : (Holds(j)' <=> Holds(j))
  BY HoldsRetry DEF SameHold
<1> QED BY <1>1, <1>2, <1>3, MapSame DEF PhaseOf, StatusOf

LEMMA LifeExpire ==
    ASSUME V3Inv, NEW w, ExpireRequest(w)
    PROVE  Life!LifeNext
<1>1. PICK i \in RequestIds, u \in WitnessType :
               /\ Commits(i, u) /\ frame.kind = "idle" /\ frame' = frame
               /\ commitments[i].status = "pending" /\ u.status = "expired"
               /\ u.randomness = commitments[i].randomness
               /\ u.callbackSucceeded = commitments[i].callbackSucceeded
  BY ExpireCommits
<1>2. /\ \A j \in RequestIds \ {i} : commitments'[j] = commitments[j]
      /\ commitments'[i] = u /\ issued' = issued
  BY <1>1, V3Types DEF Commits
<1>3. \A j \in RequestIds \ {i} : (Holds(j)' <=> Holds(j))
  BY <1>1, <1>2 DEF Holds, StatusOf
<1>4. PhaseOf(i) = "pending" /\ PhaseOf(i)' = "expired" /\ Holds(i)' = FALSE
  BY <1>1, <1>2 DEF PhaseOf, Holds, StatusOf
<1>5. /\ phaseMap' = [phaseMap EXCEPT ![i] = "expired"] /\ phaseMap[i] = "pending"
      /\ heldMap' = [heldMap EXCEPT ![i] = FALSE]
      /\ resultMap' = resultMap /\ deliveredMap' = deliveredMap
  <2>1. /\ resultMap' = [resultMap EXCEPT ![i] = resultMap[i]]
        /\ deliveredMap' = [deliveredMap EXCEPT ![i] = deliveredMap[i]]
    BY <1>1, <1>2, <1>3, MapLocal
  <2> QED BY <1>2, <1>3, <1>4, <2>1, MapLocal DEF resultMap, deliveredMap
<1>6. Life!Expire(i)
  BY <1>5 DEF Life!Expire, phaseMap, resultMap, deliveredMap, heldMap
<1> QED BY <1>6 DEF Life!LifeNext

LEMMA LifePrune ==
    ASSUME V3Inv, NEW w, PruneRequest(w)
    PROVE  Life!LifeNext
<1>1. PICK i \in RequestIds :
               /\ Commits(i, Fresh(i, NoTerms, "none")) /\ frame.kind = "idle"
               /\ commitments[i].status \in {"fulfilled", "expired"} /\ frame' = frame
  BY PruneCommits
<1>2. /\ \A j \in RequestIds \ {i} : commitments'[j] = commitments[j]
      /\ commitments'[i].status = "none" /\ commitments'[i].randomness = NoOutput
      /\ commitments'[i].callbackSucceeded = FALSE /\ issued' = issued
  BY <1>1, V3Types, FreshFields DEF Commits
<1>3. i \in issued
  BY <1>1 DEF V3Inv, CommitmentOf
<1>4. \A j \in RequestIds : (Holds(j)' <=> Holds(j))
  BY HoldsPrune DEF SameHold
<1>5. /\ PhaseOf(i) \in {"fulfilled", "expired"} /\ PhaseOf(i)' = "pruned"
      /\ Holds(i) = FALSE
  BY <1>1, <1>2, <1>3 DEF PhaseOf, StatusOf, Holds
<1>6. /\ phaseMap' = [phaseMap EXCEPT ![i] = "pruned"] /\ phaseMap[i] \in {"fulfilled", "expired"}
      /\ resultMap' = [resultMap EXCEPT ![i] = NoOutput]
      /\ deliveredMap' = [deliveredMap EXCEPT ![i] = FALSE]
  BY <1>2, <1>4, <1>5, MapLocal
<1>7. heldMap[i] = FALSE /\ heldMap' = heldMap
  <2>1. heldMap[i] = FALSE
    BY <1>5 DEF heldMap
  <2> QED BY <1>4, <2>1, HeldSame
<1>8. Life!Prune(i)
  BY <1>6, <1>7 DEF Life!Prune, phaseMap, resultMap, deliveredMap, heldMap
<1> QED BY <1>8 DEF Life!LifeNext

LEMMA LifeInitial == V3Init => Life!LifeInit
<1> SUFFICES ASSUME V3Init PROVE Life!LifeInit
  OBVIOUS
<1>1. /\ commitments = [i \in RequestIds |-> Fresh(i, NoTerms, "none")] /\ issued = {}
      /\ frame = Idle
  BY DEF V3Init, BaseInit
<1>2. \A i \in RequestIds :
          /\ PhaseOf(i) = "none" /\ commitments[i].randomness = NoOutput
          /\ commitments[i].callbackSucceeded = FALSE /\ Holds(i) = FALSE
  BY <1>1, FreshFields DEF PhaseOf, StatusOf, Holds, Idle
<1> QED BY <1>2 DEF Life!LifeInit

LEMMA LifeStep == V3Inv /\ [V3Next]_vars => [Life!LifeNext]_(Life!lifeVars)
<1> SUFFICES ASSUME V3Inv, [V3Next]_vars PROVE [Life!LifeNext]_(Life!lifeVars)
  OBVIOUS
<1>1. CASE UNCHANGED <<commitments, issued, frame>>
  BY <1>1, MapSame DEF PhaseOf, Holds, StatusOf
<1>2. CASE BaseNext /\ UNCHANGED reqVars
  BY <1>1, <1>2, WhoChangesVersions DEF reqVars
<1>3. CASE UNCHANGED vars
  BY <1>1, <1>3 DEF vars, reqVars, baseVars
<1>4. CASE RequestNext
  BY <1>4, LifeRequest, LifeFulfill, LifeRetry, LifeExpire, LifePrune, LifeSettle,
     LifeFinishRetry DEF RequestNext
<1> QED BY <1>2, <1>3, <1>4 DEF V3Next

\* The compact coordinator implements the same request life cycle as V2, for any
\* number of requests and whatever witnesses callers bring: an earlier witness
\* never takes a request back, changes its result, repeats a successful callback
\* or releases a reservation twice.
THEOREM V3Lifecycle == V3Spec => LifeSpec
<1> QED BY LifeStep, LifeInitial, V3Invariant, PTL DEF V3Spec, LifeSpec, Life!LifeSpec

-----------------------------------------------------------------------------
(* No release reverts *)

\* The checked subtractions of _settle and expireRequest cannot fail.
ReleaseNeverReverts == \A i \in RequestIds : Holds(i) =>
    LET t == commitments[i].terms IN
    /\ CanRelease(i, t.reservedPayment, t.sponsored)
    /\ subscriptions[SubOf(i)].balance >= t.reservedPayment

\* As long as a request holds a reservation, its subscription has the wei and
\* the counters are at least one: whoever brings the witness committed to is
\* never turned away by an underflow.
THEOREM V3ReleaseNeverReverts == V3Spec => []ReleaseNeverReverts
<1>1. BooksInv => ReleaseNeverReverts
  <2> SUFFICES ASSUME BooksInv, NEW i \in RequestIds, Holds(i), NEW t, t = commitments[i].terms
               PROVE  /\ CanRelease(i, t.reservedPayment, t.sponsored)
                      /\ subscriptions[SubOf(i)].balance >= t.reservedPayment
    BY DEF ReleaseNeverReverts
  <2>1. t \in TermsType /\ BaseTypeOK
    BY V3Types, WitnessFields DEF BooksInv
  <2>2. PICK r \in Nat : r = t.reservedPayment
    BY <2>1 DEF TermsType
  <2>3. PICK H, amount, free :
            H = heldIds /\ amount = reservedFor /\ free = sponsoredIds
    OBVIOUS
  <2>4. Ledger(H, amount, free) /\ i \in H /\ r = amount[i] /\ (t.sponsored => i \in free)
    BY <2>2, <2>3 DEF BooksInv, heldIds, reservedFor, sponsoredIds
  <2>5. /\ subscriptions[SubOf(i)].reserved >= r /\ subscriptions[SubOf(i)].balance >= r
        /\ consumers[PairOf(i)].pendingRequests >= 1
        /\ i \in free => sponsorPolicies[ConsumerOf(i)].pendingRequests >= 1
    BY <2>1, <2>4, LedgerCovers
  <2> QED BY <2>2, <2>4, <2>5 DEF CanRelease
<1> QED BY <1>1, V3Books, PTL
=============================================================================
