--------------------------- MODULE ThresholdCrypto ---------------------------
(***************************************************************************)
(* The scalar arithmetic of operator/threshold-crypto.mjs.                 *)
(*                                                                         *)
(* A curve point is written as its discrete logarithm, so the G2 point     *)
(* scalar * BASE is the scalar itself: point addition is addition modulo   *)
(* the group order, point equality is equality, and the pairing check      *)
(* e(sig, BASE) = e(H(m), pk) is sig = H(m) * pk.  A message stands for    *)
(* the logarithm of its hash to G1, a nonzero scalar.  Whether a logarithm *)
(* can be computed is not a question this model asks.                      *)
(***************************************************************************)
EXTENDS Integers, Sequences, FiniteSets, Functions, SequencesExt

CONSTANTS
    Order,          \* BLS_SCALAR_ORDER, a prime
    None            \* no value, in the modules that extend this one

ASSUME OrderIsPrime ==
    /\ Order \in Nat /\ Order > 2
    /\ \A d \in 2..(Order - 1) : Order % d # 0

Scalars == 0..(Order - 1)

mod(value) == value % Order

invert(value) == CHOOSE w \in Scalars : mod(value * w) = 1

\* The factors of a function multiplied one after the other.
product(factors) == FoldFunction(LAMBDA x, acc : mod(acc * x), 1, factors)

power(index, k) == product([j \in 1..k |-> index])

\* The weight of share `index` in the interpolation at zero over `indexes`.
lagrangeCoefficientAtZero(index, indexes) ==
    LET others      == indexes \ {index}
        numerator   == product([j \in others |-> j])
        denominator == product([j \in others |-> j - index])
    IN  mod(numerator * invert(denominator))

\* A share of zero has no public key and signs nothing.
publicKeyForShare(share) == mod(share)

signPartial(message, share) == mod(message * share)

verifySignature(message, key, signature) ==
    /\ key # 0
    /\ signature # 0
    /\ signature = mod(message * key)

\* The point the commitments fix for a share index: sum of C_k * index^(k-1).
commitmentAt(commitments, index) ==
    mod(SumFunction([k \in DOMAIN commitments |-> commitments[k] * power(index, k - 1)]))

verifyPublicShareCommitment(index, sharePublicKey, publicCoefficients) ==
    sharePublicKey = commitmentAt(publicCoefficients, index)

\* Interpolation at zero of a function from share indexes to points.
Interpolate(points) ==
    mod(SumFunction([i \in DOMAIN points |->
        points[i] * lagrangeCoefficientAtZero(i, DOMAIN points)]))

\* aggregateThresholdShares: shares is a function from indexes to partial
\* signatures and keys the share public keys; FALSE where the code throws.
Aggregates(message, groupKey, threshold, shares, keys) ==
    /\ Cardinality(DOMAIN shares) >= threshold
    /\ \A i \in DOMAIN shares : verifySignature(message, keys[i], shares[i])
    /\ verifySignature(message, groupKey, Interpolate(shares))
==============================================================================
