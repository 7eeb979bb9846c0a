---------------------------- MODULE ThresholdGroup ----------------------------
(***************************************************************************)
(* Group manifests (operator/threshold-group.mjs): the public record of a  *)
(* threshold key that a ceremony produces and every node and aggregator    *)
(* validates.  A manifest is a record                                      *)
(*   ceremony, epoch, previous  the ceremony, its epoch, the epoch of the  *)
(*                              manifest it replaces (0 for none; it       *)
(*                              stands for previousManifestHash)           *)
(*   threshold, coefficients    the committed polynomial, as logarithms    *)
(*   roster, sharePublicKey     participant ids by index, their share keys *)
(*   transcript                 dkgTranscriptHash                          *)
(* Addresses, URLs, software pins and chain ids never change in a ceremony *)
(* and are left out.                                                       *)
(***************************************************************************)
EXTENDS ThresholdCrypto

Members(roster) == Range(roster)

IndexOf(roster, id) == CHOOSE i \in DOMAIN roster : roster[i] = id

StrictMajority(threshold, n) == threshold >= 2 /\ threshold <= n /\ 2 * threshold > n

groupPublicKey(m) == m.coefficients[1]

\* Mutant: the share keys are not checked against the commitments.
WellFormedUncommitted(m) ==
    /\ Len(m.coefficients) = m.threshold
    /\ groupPublicKey(m) # 0
    /\ StrictMajority(m.threshold, Len(m.roster))
    /\ IsInjective(m.sharePublicKey)

\* normalizeBody: what a manifest must satisfy whatever its attestations.
WellFormed(m) ==
    /\ m.ceremony = "dkg" => m.epoch = 1 /\ m.previous = 0
    /\ m.ceremony = "reshare" => m.epoch >= 2 /\ m.previous # 0
    /\ Len(m.coefficients) = m.threshold
    /\ groupPublicKey(m) # 0
    /\ Last(m.coefficients) # 0
    /\ Len(m.roster) \in 3..31
    /\ StrictMajority(m.threshold, Len(m.roster))
    /\ IsInjective(m.sharePublicKey)
    /\ \A id \in Members(m.roster) :
        /\ m.sharePublicKey[id] # 0
        /\ verifyPublicShareCommitment(
               IndexOf(m.roster, id), m.sharePublicKey[id], m.coefficients)

\* validateAttestations: enough distinct members signed the manifest hash.
Attested(attesters, members, required) ==
    /\ attesters \subseteq members
    /\ Cardinality(attesters) >= required

\* validateGroupManifest: previous is the separately trusted manifest of a
\* reshare and handoff the members of it that signed the new one.
Validates(m, attesters, previous, handoff) ==
    /\ WellFormed(m)
    /\ Attested(attesters, Members(m.roster), m.threshold)
    /\ m.ceremony = "dkg" => handoff = {}
    /\ m.ceremony = "reshare" =>
        /\ WellFormed(previous)
        /\ m.previous = previous.epoch
        /\ groupPublicKey(m) = groupPublicKey(previous)
        /\ m.epoch = previous.epoch + 1
        /\ Attested(handoff, Members(previous.roster), previous.threshold)
==============================================================================
