---------------------------- MODULE MCCoordinator ----------------------------
(***************************************************************************)
(* Values for model checking the V2 and V3 coordinators.  Prices and windows *)
(* are scaled down; the order between the limits of the source (one        *)
(* confirmation at least, confirmations <= window < timeout) is kept.      *)
(***************************************************************************)
EXTENDS VRFServiceCoordinatorBase

CONSTANTS k1, k2, op1, op2, a1, a2, c1, c2, o1, o2

\* 2 gas units at 1 wei and half a premium: at most 3 wei, expires after 3 blocks
PriceA == [fulfillmentOverheadGas |-> 0, perWordGas |-> 0, publicPremiumBps |-> 1,
           operatorPremiumShareBps |-> 1, minimumRequestFeeWei |-> 1,
           l1FeeReserveWei |-> 0, requestTimeoutBlocks |-> 3]
\* no premium, but a reserve for L1 fees, a higher floor and a longer life
PriceB == [fulfillmentOverheadGas |-> 0, perWordGas |-> 0, publicPremiumBps |-> 0,
           operatorPremiumShareBps |-> 2, minimumRequestFeeWei |-> 2,
           l1FeeReserveWei |-> 1, requestTimeoutBlocks |-> 4]
\* expires after one block: too early where slow requests are allowed
PriceShort == [PriceA EXCEPT !.requestTimeoutBlocks = 1]

Service1 == [fulfiller |-> op1, payee |-> op1, maxGasPriceWei |-> 1,
             verificationGasLimit |-> 1]
Service2 == [fulfiller |-> op2, payee |-> op2, maxGasPriceWei |-> 1,
             verificationGasLimit |-> 2]
\* rejected: no gas price, hence a free request
ServiceBad == [Service1 EXCEPT !.maxGasPriceWei = 0]

OnePrice == {PriceA}
Prices == {PriceA, PriceB, PriceShort}
ShortPrice == {PriceShort}
PricesOrShort == {PriceA, PriceShort}
OneService == {Service1}
ServicesOrFree == {Service1, ServiceBad}
Services == {Service1, Service2, ServiceBad}

OneLimit == {[maxCallbackGasLimit |-> 1, maxPendingRequests |-> 1]}
TwoPending == {[maxCallbackGasLimit |-> 1, maxPendingRequests |-> 2]}
Limits == {[maxCallbackGasLimit |-> 1, maxPendingRequests |-> n] : n \in 1..2}

FastParams == {[callbackGasLimit |-> 1, numWords |-> 1, confirmations |-> 1]}
Params == {[callbackGasLimit |-> 1, numWords |-> 1, confirmations |-> n] : n \in 1..2}

Policies == {[subscriptionId |-> s, validUntil |-> 2, requestsPerEpoch |-> n,
              maxPendingRequests |-> n, maxCallbackGasLimit |-> 1,
              premiumBps |-> 0, waiveMinimumFee |-> TRUE] : s \in Subs, n \in 1..2}
NoPolicies == {}
=============================================================================
