----------------------------- MODULE ThresholdDKG -----------------------------
(***************************************************************************)
(* One ceremony of operator/threshold-dkg.mjs: a first key generation      *)
(* ("dkg") or the hand-over of an existing key to a new roster             *)
(* ("reshare").  Every action is one command of the tool, run by one       *)
(* operator on the packets a bulletin board shows that operator.           *)
(*                                                                         *)
(* Signatures make every packet its author's own; packets are therefore    *)
(* records in growing sets, and an operator's input file is any selection  *)
(* of them (lost and late packets, and different views of the board).      *)
(* Members of Faulty sign whatever they like; all others run the tool.     *)
(* The AES-GCM envelope of a share is bound to its deal by the associated  *)
(* data, so the recipient reads exactly the scalar its dealer put there; a *)
(* share that cannot be decrypted is one that does not match.              *)
(***************************************************************************)
EXTENDS ThresholdGroup

CONSTANTS
    NewRoster, Threshold,       \* the roster that receives the shares
    OldRoster, OldThreshold,    \* the roster of the manifest to hand over
    OldCoefficients,            \* its polynomial
    Draws,                      \* dealer -> coefficient sequences it may draw
    Faulty,                     \* members that may sign anything
    Stale,                      \* old members that may lack a share bound to it
    Cheated,                    \* recipients a faulty dealer may give wrong shares
    MaxDeals, MaxResponses      \* packets of one kind one faulty member signs

OldEpoch == 1

Recipients == Members(NewRoster)
IndexNew(id) == IndexOf(NewRoster, id)

\* The manifest an earlier ceremony left behind.
OldManifest ==
    [ceremony |-> "dkg", epoch |-> OldEpoch, previous |-> 0,
     threshold |-> OldThreshold, roster |-> OldRoster,
     coefficients |-> OldCoefficients, transcript |-> None,
     sharePublicKey |-> [id \in Members(OldRoster) |->
         commitmentAt(OldCoefficients, IndexOf(OldRoster, id))]]

\* Mutant: the polynomial is evaluated one place off.
polynomialAtPrevious(coefficients, index) ==
    FoldRight(LAMBDA c, value : mod(value * (index - 1) + c), coefficients, 0)

\* polynomialAt: Horner's rule from the highest coefficient down.
polynomialAt(coefficients, index) ==
    FoldRight(LAMBDA c, value : mod(value * index + c), coefficients, 0)

\* A scalar that is zero or out of range throws, so it matches nothing.
shareMatchesCommitments(share, commitments, index) ==
    share \in Scalars \ {0} /\ share = commitmentAt(commitments, index)

\* validateRoster: distinct members, numbered from 1 within the field.
IsRoster(roster) ==
    /\ roster \in Seq(Members(roster)) /\ IsInjective(roster)
    /\ Len(roster) < Order

ASSUME DKGAssumption ==
    /\ IsRoster(NewRoster) /\ IsRoster(OldRoster)
    /\ Threshold \in Nat /\ StrictMajority(Threshold, Len(NewRoster))
    /\ Len(NewRoster) \in 3..31
    /\ OldCoefficients \in Seq(Scalars) /\ WellFormed(OldManifest)
    /\ \A id \in Recipients \cup Members(OldRoster) : \A c \in Draws[id] :
        /\ Len(c) = Threshold /\ c \in Seq(Scalars)
        /\ id \notin Faulty => Last(c) # 0

VARIABLES
    ceremony,       \* "dkg" or "reshare"
    selected,       \* the old dealers frozen for a reshare
    oldKeystore,    \* member of OldRoster -> epoch its share is bound to, 0 if none
    phase,          \* the step of the runbook the coordinator has called
    deals, responses, resolutions,   \* signed packets on the board
    finalizations,  \* finalization files
    keystore,       \* recipient -> the keystore file its last finalize wrote
    manifest,       \* the assembled manifest, or None
    accepted        \* validateGroupManifest has passed

dkgVars == <<ceremony, selected, oldKeystore, phase, deals, responses, resolutions,
          finalizations, keystore, manifest, accepted>>

board == <<deals, responses, resolutions>>
config == <<ceremony, selected, oldKeystore, phase>>
outcome == <<manifest, accepted>>

Dealers == IF ceremony = "dkg" THEN Recipients ELSE Members(OldRoster)

\* Mutant: weighted over the whole roster, not the selected dealers.
AllIndexes == DOMAIN OldRoster

\* selectedDealerIndexes: at least the old threshold of the old roster.
SelectedIndexes == {IndexOf(OldRoster, id) : id \in selected}

DKGInit ==
    /\ ceremony \in {"dkg", "reshare"}
    /\ IF ceremony = "dkg"
       THEN selected = {} /\ oldKeystore = [id \in Members(OldRoster) |-> 0]
       ELSE /\ selected \in {S \in SUBSET Members(OldRoster) :
                                Cardinality(S) >= OldThreshold}
            /\ oldKeystore \in {[id \in Members(OldRoster) |-> IF id = x THEN 0 ELSE OldEpoch] :
                                x \in Stale \cup {None}}
    /\ phase = "deal"
    /\ deals = {} /\ responses = {} /\ resolutions = {} /\ finalizations = {}
    /\ keystore = [id \in Recipients |-> [share |-> None, transcript |-> None, bound |-> FALSE]]
    /\ manifest = None /\ accepted = FALSE

------------------------------------------------------------------------------
(* deal *)

\* The constant a reshare dealer must use: its old share, weighted.
HandoffConstant(id) ==
    mod(OldManifest.sharePublicKey[id]
        * lagrangeCoefficientAtZero(IndexOf(OldRoster, id), SelectedIndexes))

SharesOf(coefficients) ==
    [id \in Recipients |-> polynomialAt(coefficients, IndexNew(id))]

Deal(id, commitments, shares) ==
    [dealer |-> id, commitments |-> commitments, shares |-> shares]

DealsOf(id) == {d \in deals : d.dealer = id}

MayDeal(id) ==
    ceremony = "reshare" => id \in selected /\ oldKeystore[id] = OldEpoch

Coefficients(id, draw) ==
    IF ceremony = "dkg" THEN draw ELSE [draw EXCEPT ![1] = HandoffConstant(id)]

createDealBundle(id) ==
    /\ id \notin Faulty
    /\ phase = "deal"
    /\ DealsOf(id) = {}               \* writeJson refuses to overwrite
    /\ MayDeal(id)
    /\ \E draw \in Draws[id] :
        LET coefficients == Coefficients(id, draw)
        IN  deals' = deals \cup {Deal(id, coefficients, SharesOf(coefficients))}
    /\ UNCHANGED <<config, responses, resolutions, finalizations, keystore, outcome>>

\* A faulty dealer may deal twice and give recipients wrong shares.
FaultyDeal(id) ==
    /\ id \in Faulty
    /\ phase = "deal"
    /\ Cardinality(DealsOf(id)) < MaxDeals
    /\ \E draw \in Draws[id], cheated \in SUBSET Cheated :
        LET coefficients == Coefficients(id, draw)
            right  == SharesOf(coefficients)
            shares == [r \in Recipients |-> IF r \in cheated THEN mod(right[r] + 1) ELSE right[r]]
        IN  deals' = deals \cup {Deal(id, coefficients, shares)}
    /\ UNCHANGED <<config, responses, resolutions, finalizations, keystore, outcome>>

\* validateDealPacket: the signature, session and roster checks hold for
\* every packet of this ceremony; what is left is the committed polynomial.
validateDealPacket(d) ==
    /\ d.dealer \in Dealers
    /\ Len(d.commitments) = Threshold
    /\ Last(d.commitments) # 0

DealersOf(D) == {d.dealer : d \in D}
OnePer(P, author(_)) == \A x, y \in P : author(x) = author(y) => x = y

\* A deals file the coordinator merges: the deal of every honest dealer that
\* has published and at most one, if any, of each faulty dealer.
DealFiles ==
    {D \in SUBSET deals :
        /\ D # {}
        /\ OnePer(D, LAMBDA d : d.dealer)
        /\ DealersOf(deals) \ Faulty \subseteq DealersOf(D)}

------------------------------------------------------------------------------
(* respond *)

ResponsesOf(id) == {r \in responses : r.recipient = id}

Matches(d, id) == shareMatchesCommitments(d.shares[id], d.commitments, IndexNew(id))

createResponseBundle(id) ==
    /\ id \notin Faulty
    /\ phase = "respond"
    /\ ResponsesOf(id) = {}
    /\ \E D \in DealFiles :
        responses' = responses \cup
            {[recipient |-> id,
              status |-> [dealer \in DealersOf(D) |->
                  \E d \in D : d.dealer = dealer /\ validateDealPacket(d) /\ Matches(d, id)]]}
    /\ UNCHANGED <<config, deals, resolutions, finalizations, keystore, outcome>>

\* A faulty recipient accepts and complains as it likes, and may do so twice.
FaultyResponse(id) ==
    /\ id \in Faulty
    /\ phase = "respond"
    /\ Cardinality(ResponsesOf(id)) < MaxResponses
    /\ \E D \in DealFiles : \E status \in [DealersOf(D) -> BOOLEAN] :
        responses' = responses \cup {[recipient |-> id, status |-> status]}
    /\ UNCHANGED <<config, deals, resolutions, finalizations, keystore, outcome>>

\* Recipients that complain about a dealer in a responses file.
Complaints(R, dealer) ==
    {r.recipient : r \in {x \in R : dealer \in DOMAIN x.status /\ ~x.status[dealer]}}

------------------------------------------------------------------------------
(* resolve *)

Resolution(id, shares) == [dealer |-> id, shares |-> shares]

Resolved(id) == \E z \in resolutions : z.dealer = id

\* The dealer reveals the share of every recipient that complained, unless
\* that would reveal as many as the threshold.  It is run on a file in which
\* somebody complains.
createResolutionBundle(id) ==
    /\ id \notin Faulty
    /\ phase = "resolve"
    /\ ~Resolved(id)
    /\ \E d \in DealsOf(id), R \in SUBSET responses :
        LET complaints == Complaints(R, id)
        IN  /\ OnePer(R, LAMBDA r : r.recipient)
            /\ validateDealPacket(d)
            /\ complaints # {}
            /\ Cardinality(complaints) < Threshold
            /\ resolutions' = resolutions \cup
                {Resolution(id, [r \in complaints |-> polynomialAt(d.commitments, IndexNew(r))])}
    /\ UNCHANGED <<config, deals, responses, finalizations, keystore, outcome>>

\* A faulty dealer reveals shares of any of its deals, or wrong ones, to
\* all that complain or to some.
FaultyResolution(id) ==
    /\ id \in Faulty
    /\ phase = "resolve"
    /\ ~Resolved(id)
    /\ \E d \in DealsOf(id), revealed \in SUBSET Complaints(responses, id), wrong \in {0, 1} :
        /\ revealed # {}
        /\ resolutions' = resolutions \cup
            {Resolution(id, [r \in revealed |->
                mod(polynomialAt(d.commitments, IndexNew(r)) + wrong)])}
    /\ UNCHANGED <<config, deals, responses, finalizations, keystore, outcome>>

------------------------------------------------------------------------------
(* finalize *)

\* validateResolution: it answers exactly the complaints of the file.
validateResolution(z, d, R) ==
    LET complained == Complaints(R, d.dealer)
    IN  /\ Cardinality(complained) < Threshold
        /\ DOMAIN z.shares = complained
        /\ \A r \in complained :
            shareMatchesCommitments(z.shares[r], d.commitments, IndexNew(r))

\* The early checks of finalizeCeremony on its three input files.
FilesValid(D, R, Z) ==
    /\ OnePer(R, LAMBDA r : r.recipient)
    /\ OnePer(Z, LAMBDA z : z.dealer)
    /\ \A d \in D :
        /\ validateDealPacket(d)
        /\ \A z \in Z : z.dealer = d.dealer => validateResolution(z, d, R)
        /\ ceremony = "reshare" =>
            /\ d.dealer \in selected
            /\ d.commitments[1] = HandoffConstant(d.dealer)
    /\ \A z \in Z : z.dealer \in DealersOf(D)
    /\ \A r \in R : DOMAIN r.status = DealersOf(D)

ResolvedShares(d, Z) == UNION {DOMAIN z.shares : z \in {x \in Z : x.dealer = d.dealer}}

\* Mutant: a complaint nobody answered does not disqualify.
QualifiedUnresolved(D, R, Z) ==
    {d \in D :
        LET complaints == Complaints(R, d.dealer)
            accepting  == {r.recipient : r \in {x \in R : x.status[d.dealer]}}
        IN  /\ Cardinality(complaints) < Threshold
            /\ Cardinality(accepting) + Cardinality(complaints) >= Threshold}

\* A dealer qualifies when every complaint was resolved, there are fewer of
\* them than the threshold, and a threshold of recipients ends up satisfied.
Qualified(D, R, Z) ==
    {d \in D :
        LET complaints == Complaints(R, d.dealer)
            accepting  == {r.recipient : r \in {x \in R : x.status[d.dealer]}}
        IN  /\ Cardinality(complaints) < Threshold
            /\ complaints \subseteq ResolvedShares(d, Z)
            /\ Cardinality(accepting) + Cardinality(complaints) >= Threshold}

EnoughDealers(Q) ==
    IF ceremony = "dkg" THEN Cardinality(Q) >= Threshold ELSE DealersOf(Q) = selected

\* The share the participant uses of a qualified deal: its own when it
\* matches, else the one a resolution made public.
HasContribution(d, id, Z) == Matches(d, id) \/ id \in ResolvedShares(d, Z)

Contribution(d, id, Z) ==
    IF Matches(d, id) THEN d.shares[id]
    ELSE (CHOOSE z \in Z : z.dealer = d.dealer).shares[id]

aggregateCommitments(Q) ==
    [k \in 1..Threshold |-> mod(SumFunction([d \in Q |-> d.commitments[k]]))]

PrivateShare(Q, id, Z) == mod(SumFunction([d \in Q |-> Contribution(d, id, Z)]))

\* Whether finalizeCeremony succeeds for a participant on given files.
CanFinalize(id, D, R, Z) ==
    LET Q == Qualified(D, R, Z)
    IN  /\ FilesValid(D, R, Z)
        /\ EnoughDealers(Q)
        /\ \A d \in Q : HasContribution(d, id, Z)
        /\ PrivateShare(Q, id, Z) # 0
        /\ ceremony = "reshare" => aggregateCommitments(Q)[1] = groupPublicKey(OldManifest)

Finalization(id, transcript, coefficients, share) ==
    [participant |-> id, transcript |-> transcript,
     coefficients |-> coefficients, sharePublicKey |-> share]

Finalized(id) == \E f \in finalizations : f.participant = id

finalizeCeremony(id) ==
    /\ id \notin Faulty
    /\ phase = "finalize"
    /\ ~Finalized(id)
    /\ \E D \in DealFiles, R \in SUBSET responses, Z \in SUBSET resolutions :
        LET Q     == Qualified(D, R, Z)
            share == PrivateShare(Q, id, Z)
        IN  /\ CanFinalize(id, D, R, Z)
            /\ finalizations' = finalizations \cup
                {Finalization(id, <<D, R, Z>>, aggregateCommitments(Q), publicKeyForShare(share))}
            /\ keystore' = [keystore EXCEPT ![id] =
                [share |-> share, transcript |-> <<D, R, Z>>, bound |-> FALSE]]
    /\ UNCHANGED <<config, board, outcome>>

\* Finalizations are not signed: a faulty participant hands in whatever share
\* key it likes beside the transcript of somebody else.  Nobody reads it
\* before assemble, so that it has all the others' to choose from.
FaultyFinalization(id) ==
    /\ id \in Faulty
    /\ phase = "finalize"
    /\ ~Finalized(id) /\ \A other \in Recipients \ Faulty : Finalized(other)
    /\ \E f \in finalizations, wrong \in {0, 1} :
        finalizations' = finalizations \cup
            {Finalization(id, f.transcript, f.coefficients,
                          mod(commitmentAt(f.coefficients, IndexNew(id)) + wrong))}
    /\ UNCHANGED <<config, board, keystore, outcome>>

------------------------------------------------------------------------------
(* assemble, attest, bind, validate *)

assembleManifest ==
    /\ manifest = None
    /\ \A id \in Recipients : Finalized(id)
    /\ \A f, g \in finalizations :
        f.transcript = g.transcript /\ f.coefficients = g.coefficients
    /\ LET first == CHOOSE f \in finalizations : TRUE
           m == [ceremony |-> ceremony,
                 epoch |-> IF ceremony = "dkg" THEN 1 ELSE OldEpoch + 1,
                 previous |-> IF ceremony = "dkg" THEN 0 ELSE OldEpoch,
                 threshold |-> Threshold, roster |-> NewRoster,
                 coefficients |-> first.coefficients, transcript |-> first.transcript,
                 sharePublicKey |-> [id \in Recipients |->
                     (CHOOSE f \in finalizations : f.participant = id).sharePublicKey]]
       IN  WellFormed(m) /\ manifest' = m
    /\ UNCHANGED <<config, board, finalizations, keystore, accepted>>

\* attestManifest: any member of a roster may sign any well-formed manifest.
Attesters(roster) == IF WellFormed(manifest) THEN SUBSET Members(roster) ELSE {{}}

bindKeystoreToManifest(id) ==
    /\ manifest # None
    /\ keystore[id].share # None /\ ~keystore[id].bound
    /\ publicKeyForShare(keystore[id].share) = manifest.sharePublicKey[id]
    /\ keystore' = [keystore EXCEPT ![id].bound = TRUE]
    /\ UNCHANGED <<config, board, finalizations, outcome>>

validateGroupManifest ==
    /\ manifest # None /\ ~accepted
    /\ accepted' = \E attesters \in Attesters(NewRoster), handoff \in Attesters(OldRoster) :
                       Validates(manifest, attesters, OldManifest, handoff)
    /\ UNCHANGED <<config, board, finalizations, keystore, manifest>>

\* The coordinator collects one kind of packet after the other and calls the
\* next step when it likes; a packet that is not there by then is lost.
Advance ==
    /\ phase # "finalize"
    /\ phase' = CASE phase = "deal" -> "respond"
                  [] phase = "respond" -> "resolve"
                  [] phase = "resolve" -> "finalize"
    /\ UNCHANGED <<ceremony, selected, oldKeystore, board, finalizations, keystore, outcome>>

DKGNext ==
    \/ Advance
    \/ \E id \in Dealers : createDealBundle(id) \/ FaultyDeal(id)
    \/ \E id \in Recipients : createResponseBundle(id) \/ FaultyResponse(id)
    \/ \E id \in Dealers : createResolutionBundle(id) \/ FaultyResolution(id)
    \/ \E id \in Recipients : finalizeCeremony(id) \/ FaultyFinalization(id)
    \/ assembleManifest
    \/ \E id \in Recipients : bindKeystoreToManifest(id)
    \/ validateGroupManifest

DKGSpec == DKGInit /\ [][DKGNext]_dkgVars
------------------------------------------------------------------------------
(* Properties *)

Honest == (Recipients \cup Members(OldRoster)) \ Faulty

SharesAt(m, S) == [i \in S |-> m.sharePublicKey[m.roster[i]]]
Quorums(m) == {S \in SUBSET DOMAIN m.roster : Cardinality(S) = m.threshold}

(* Whatever faulty dealers, recipients and views of the board went before, *)
(* every threshold of the shares of an assembled manifest interpolates to  *)
(* one group secret, each honest keystore holds the share the manifest     *)
(* names, and after a reshare the secret is the one any old threshold      *)
(* reconstructs (finalizeCeremony, assembleManifest, normalizeBody).       *)
SharesReconstruct ==
    manifest # None =>
        /\ \A S \in Quorums(manifest) :
            Interpolate(SharesAt(manifest, S)) = groupPublicKey(manifest)
        /\ \A id \in Recipients \cap Honest :
            keystore[id].share = manifest.sharePublicKey[id]
        /\ ceremony = "reshare" =>
            \A S \in Quorums(OldManifest) :
                Interpolate(SharesAt(OldManifest, S)) = groupPublicKey(manifest)

(* When no dealer signed two deals, files that let one honest participant  *)
(* finalize and hold a response of every participant let every other       *)
(* honest participant finalize too: nobody is left without a share of a    *)
(* dealer that qualified.  (A share of zero, which a dealer cannot aim     *)
(* for and a large field makes unlikely, is excepted.)                     *)
FinalizableByAll ==
    (\A id \in Dealers : Cardinality(DealsOf(id)) <= 1) =>
        \A f \in finalizations : \A id \in Recipients \cap Honest :
            LET D == f.transcript[1]  R == f.transcript[2]  Z == f.transcript[3]
            IN  {r.recipient : r \in R} = Recipients =>
                    \/ CanFinalize(id, D, R, Z)
                    \/ /\ \A d \in Qualified(D, R, Z) : HasContribution(d, id, Z)
                       /\ PrivateShare(Qualified(D, R, Z), id, Z) = 0

(* An honest dealer's resolution makes public only shares of faulty        *)
(* recipients, which those hold anyway: no honest recipient ever complains *)
(* about an honest deal (createResponseBundle, createResolutionBundle).  A *)
(* share that happens to be zero is excepted: nobody can accept it.        *)
HonestUnexposed ==
    \A z \in resolutions : z.dealer \in Honest =>
        \A r \in DOMAIN z.shares \ Faulty :
            \E d \in DealsOf(z.dealer) : d.shares[r] = 0

(* When the selected dealers of a reshare are honest and have all dealt,   *)
(* their constants add up to the old group key, so the final key check of  *)
(* finalizeCeremony cannot abort the hand-over (createDealBundle).         *)
HandoffAddsUp ==
    ceremony = "reshare" /\ selected \subseteq DealersOf(deals) /\ selected \cap Faulty = {} =>
        aggregateCommitments({d \in deals : d.dealer \in selected})[1]
            = groupPublicKey(OldManifest)
==============================================================================
