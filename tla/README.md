# EntropyRail VRF in TLA+

A verification development for the EntropyRail verifiable-randomness service:
the coordinator contracts (`contracts/`) and the operator that serves them
(`operator/`). The modules are translated from the source; `PROJECT.json` maps
every definition to the lines it models.

## 1. The system

A *consumer* contract asks a coordinator for random words. The coordinator
quotes the highest price the request may cost, reserves it on a *subscription*,
and stores (V2) or commits to (V3) the request. After some confirmations the
*fulfiller* of the request's key proves a random output from the hash of the
request's block; the coordinator verifies the proof, calls the consumer back,
charges the subscription, and credits the operator and the treasury. A request
nobody fulfils in time can be *expired* by anybody, which gives the reservation
back. Finished requests can be *pruned*.

| Part | State | Operations | Talks to |
|---|---|---|---|
| `VRFServiceCoordinatorBase.sol` | prices, keys and their append-only versions; subscriptions, consumers, nonces; sponsor policies; credits; pause flag, guardian | 20 administrative and subscription functions | owner (usually `VRFAdminTimelock`), guardian, subscription owners |
| `VRFServiceCoordinatorV2.sol` | stored requests | request, fulfil, retry, expire, prune | the consumer's callback (untrusted), `BlockhashStore`, the verifier |
| `VRFServiceCoordinatorV3.sol` | one commitment per request | the same, over witnesses brought by callers | the same, and the event log |
| `BlockhashStore.sol` | stored block hashes | store, read | the chain's 256-block window |
| `VRFAdminTimelock.sol` | scheduled calls | schedule, cancel, execute (permissionless) | the coordinators, as their owner |
| `ProofVRFCoordinator.sol`, `ProofVRFRouter.sol` (V1) | requests with a fixed fee; pull credits | request, fulfil, retry, refund, withdraw | consumers, providers |
| `operator/postgres-store.mjs`, `cli.mjs` | scan cursor, request leases, relayer nonce journal | scan, claim, complete, retry, broadcast, replace, reconcile | PostgreSQL, several RPC nodes, other workers |
| `operator/cli.mjs` with `--state` | cursor and requests in memory and in a JSON file | scan, serve, save, reload | RPC nodes |
| `operator/compact-worker.mjs`, `compact-protocol.mjs`, `run-compact.mjs` | saved witness events, claims, a spending budget | scan, recover, fulfil or expire, archive | V3, the event log, PostgreSQL |
| `operator/archiver.mjs` | fee budget, last head covered and anomalies, on disk | reserve, archive, checkpoint, record | `BlockhashStore`, RPC nodes |
| `operator/proof-provider.mjs`, `prover-server.mjs` | none | prove locally, remotely or by threshold | the prover, the threshold nodes |
| `operator/threshold-node.mjs` | what a node has signed, its audit log | resolve, record, audit, release, restart | RPC nodes, the operator |
| `operator/threshold-dkg.mjs`, `threshold-group.mjs` | packets on a bulletin board, keystores, the group manifest | deal, respond, resolve, finalize, assemble, attest, bind, validate | the other members |

What is hard here: the callback re-enters the contract between the result and
the settlement; amounts are recomputed from version lists long after the fact;
V3 trusts data that callers bring back; boundaries of blocks and epochs; the
operator's workers crash, lose leases and replace transactions; RPC endpoints lag,
disagree and follow reorganisations; files are written before or after the deed
they record; members of a ceremony lie and see different boards. The list, with
lines, is `hazards` in `PROJECT.json`.

## 2. Modules

Arrows read "extends". A module named `MC*` only gives values to constants.

```
BlockhashStore <- VRFServiceCoordinatorBase
VRFServiceCoordinatorBase <- VRFServiceCoordinatorV2, VRFServiceCoordinatorV3,
                             MCCoordinator, BaseProofs
VRFServiceCoordinatorV2, MCCoordinator <- MCV2
VRFServiceCoordinatorV3, MCCoordinator <- MCV3
VRFServiceCoordinatorV2, BaseProofs    <- V2Proofs
VRFServiceCoordinatorV3, BaseProofs    <- V3Proofs
RequestLifecycle  (abstract; V2 and V3 instantiate it)
VRFAdminTimelock <- MCTimelock, TimelockProofs
RelayerNonce     <- MCRelayer,  RelayerProofs
OperatorStore <- OperatorLoop <- MCStore, StoreProofs
BlockhashStore <- Archiver <- MCArchiver, ArchiverProofs
ThresholdCrypto <- ThresholdGroup <- ThresholdDKG <- MCDKG
ThresholdCrypto <- ThresholdNode <- MCNode
ThresholdDKG, ThresholdNode <- ThresholdProofs
```

**`VRFServiceCoordinatorBase`** holds the state variables of the contract
(`baseVars`) and one action per state-changing function, with the guards of the
source. A function of the contract that reverts is an action that is not
enabled. `frame` is the call that is open while a consumer's callback runs, and
`Unlocked` and `Reenterable` say which functions the `nonReentrant` guard lets in
meanwhile; an outer call that will revert takes no inner steps, because they
would be undone with it. Addresses are model values; the owner of the contract is
the constant `Admin`, who may call an administrative function at any time. Gas, words and prices are small integers; basis points are scaled to
`MAX_PREMIUM_BPS`, rounding included.

**`VRFServiceCoordinatorV2`** and **`V3`** add the request functions. A
fulfilment is two actions, `FulfillRandomWords` (up to and into the callback) and
`SettleFulfillment` (after it), with every operation that the `nonReentrant` guard
does not exclude possible in between; likewise `RetryCallback` and `FinishRetry`.
The proof is the choice of an output. In V3 the commitment is the witness itself
(the hash is injective), the event log is a variable, and a caller may bring any
witness ever published and, through `Altered`, changed copies of it.

**`RequestLifecycle`** is what a coordinator promises of a request, whatever it
stores: made once under an identifier that is never used again, one output,
fulfilled or expired but not both, delivered at most once, its reservation given
up exactly once (at settlement or at expiry), pruned only when final. V2 and V3 refine it (`LifeSpec`).

**`VRFAdminTimelock`** indexes operations by nonce. `Execute` enters the target
and pushes a frame; `Return` pops it and `CallFailed` restores what the frame
saved, so nested execution, failure inside a successful call and success inside a
failing one are all behaviours. `runs` is a history variable.

**`RelayerNonce`** is `sendPostgresTransaction` with the lock, the journal and
the endpoints. A worker's `pc` names the next await: `receipts`, `known`, `latest`
(reconciliation), `sign`, `journal`, `check`, `armed`, `waiting`, `mark`. Each
step up to the next await is one action; `Throw` is the error path that unlocks
and puts the request back. One round of answers of all endpoints to one question
is read in one step. A transaction is its contents, as its hash is. A request may also be
expired by another account (`FinaliseElsewhere`) while a worker signs, sends or
waits: `elsewhere` holds these expiries with their place among the relayer's own
transactions, `heard` what each endpoint has seen of them. `SkipFinal` completes
such a request on the word of one endpoint in `cli.mjs`, and at a block that all
endpoints have in `run-compact.mjs` (`ReadsFinal`); own transactions mined behind
the expiry revert. `ChecksFinal` tells the two programs apart: `run-compact.mjs`
also looks at the receipt and the request before completing it, `cli.mjs` does
not. `reported` is a history variable, the pairs of request and transaction that
a worker wrote out as fulfilled.

**`OperatorStore`** is the queue: `scan` and each row carry `[owner, live]`;
`live` ends when the database clock passes `lease_expires_at`. `CommitScan` is the
whole transaction of `commitScan`: mark, upsert, delete the finalised, delete the
orphaned, move the cursor, free the lease. The two event queries of a scan are
separate steps, each against an endpoint behind the head by up to `MaxLag`. The
status of a claimed request is asked of such an endpoint too. Where it does not
have the request, `getRequest` does not answer with a status but reverts
(`UnknownRequest`, `VRFServiceCoordinatorV2.sol:32`), in the `catch` block as well,
so the row stays and gives up its lease (`RetryUnknown`); only a final status
deletes it (`CompleteRequest`).

**`OperatorLoop`** composes those steps into the three programs that keep a
queue. `"postgres"` is `runServicePostgres`. `"compact"` adds the evidence table,
which is written before `commitScan`, and serves a claim only through
`recoverCompactRequest`: at an anchor that all endpoints have, the history from
the claimed row's block on must begin with the creation. `"file"` has one process;
`rows` and `cursor` are its memory and `saved` is the JSON file, so that
`beginFileScan` (which drops rows in memory), a failing query, a completion
(which saves all of memory) and a restart can follow one another in any order.

**`Archiver`** is `archiveCycle` and `compactArchiveCycle` over `BlockhashStore`.
`file` is the state file, replaced and synced in one step; everything else is
lost in `Crash`. A fee is reserved (`Send`) before `Broadcast`, and both can be
followed by a failure. The service archiver swallows an error of one request and
goes on to its checkpoint; the compact one gives up the cycle without a
checkpoint (`Throw`). Two history variables name the exceptions that the code
makes: `late`, requests out of range when the first checkpoint is written, and
`unseen`, requests for which a service cycle threw after their window had closed.

**`ThresholdCrypto`** is the arithmetic of the threshold scheme with a curve
point written as its discrete logarithm modulo a small prime: interpolation,
commitments, partial signatures and aggregation are those of the source. The
products of its loops are folds (`product`, `power`), so that nothing is recursive.
**`ThresholdGroup`** is what `validateGroupManifest` demands of a manifest.

**`ThresholdDKG`** has one action per command of `threshold-dkg.mjs`. Signed
packets are records in growing sets; a command reads *any* selection of them that
contains the deals of the honest dealers, so lost packets and different views of
the board are behaviours. Members of `Faulty` deal twice, give `Cheated`
recipients wrong shares, accept or complain at will, resolve wrongly and hand in
wrong finalizations. A reshare starts from an existing manifest, and from
keystores of which one may not be bound to it. `resolve` is run where somebody
complains, as the runbook has it.

**`ThresholdNode`** composes the operator's provider, the signing nodes and the
endpoints both read. A node's handler is four steps: `Resolve` (outside the
queue), `RecordRequest` (check and state file), `AuditRequest` (log, synced),
`Release`. `Crash` loses memory, `PowerLoss` also some entries of the state file,
which is never synced; `RecordFails` and `AuditFails` are writes that throw.

## 3. Runs

| Run | Constants that matter | Checks |
|---|---|---|
| `V2_terms` | 2 requests, 2 price and 2 service versions, pauses, key flags, ownership | `TypeOK`, `PinnedTerms`, `ReservationsBacked`, `OpenRequestsServiceable` |
| `V2_life` | 2 requests, 5 blocks, window 2, timeouts around it, charges around the reservation, withdrawals | `ReadyWhenConfirmed`, `Solvent`, `ChargedOnce`, `LifeSpec` |
| `V2_sponsor` | 2 subscriptions, 2 epochs, limits 1 and 2 | `PendingExact`, `SponsorQuotaRespected` |
| `V3` | 2 requests, sponsored or not, stale and altered witnesses | `WitnessRecoverable`, `WitnessAccounting`, `ChargedOnce`, `LifeSpec`, `ReservationsEnd` |
| `Relayer_strict` | 2 instances, 2 requests, 2 endpoints, 2 attempts, 2 crashes, 1 revert, 1 expiry by another account | `JournalFirst`, `NonceServesOneJob`, `ReportedOwnTransaction` |
| `Relayer_live` | 1 request, 2 instances, 2 gas prices, any 2 of a lost lock, a forgetful pool, a revert and an expiry by another account | `CompletedIsFinal`, `EveryJobFinal` |
| `Relayer_reverted` | 2 attempts, 1 revert, 1 expiry by another account, `ChecksFinal` false | `CompletedIsFinal` fails (section 6) |
| `Store` | the three programs, 4 blocks, reorganisations and lag of 1, 2 failures | `NoRequestLost`, `ScanCoversRows`, `SavedCoversPending`, `EvidenceComplete`, `LeaseHonoured`, `EveryRequestServed` |
| `Timelock` | 3 operations, nesting 2, delay 1, window 1, 4 instants | `RunsOnceInWindow`, `FlagsTruthful` |
| `DKG` | 3 members, threshold 2, field of 13, 1 faulty member, reshare to a roster with 1 new member | `SharesReconstruct`, `FinalizableByAll`, `HonestUnexposed`, `HandoffAddsUp` |
| `Node` | 3 nodes, thresholds 2 and 3 (1 faulty), 2 endpoints, 1 reorganisation, 1 fault | `NodeNeverEquivocates`, `OneOutput`, `ReleasedIsAudited`, `RestartAccepted`, `EveryRequestProved` |
| `Archiver` | both archivers, window 3, range 6, gap 2, skew 1, 2 fee limits, 1 fault | `SpendWithinBudget`, `NoSilentMiss`, `EveryRequestSettled` |

`CHECK_DEADLOCK FALSE` is set except in `Archiver`: blocks, time, nonces and failures are
bounded, and a state in which all of them are used up has no step.

*Why the bounds are enough.* Two requests are needed for a sum to differ from
its parts, two versions for an old one to be used, two subscriptions for a policy
to move between them; a third adds nothing the invariants tell apart. The order
of the limits is that of the source: one confirmation at least, confirmations no
more than the window, window less than the timeout. In `V2_life` one price has a
timeout that is too short and must be refused. In `Timelock` 4 instants cover
before, first, last and after the window of an operation. In `Relayer_live` two
nonces are enough because only one revert is allowed besides that of a request
already final, and one attempt is the `maximumAttempts` of `run-compact.mjs`. What
goes wrong is bounded there to two of four kinds (`MaxMishaps`): an attempt taken
for a fulfilment needs a revert and one more. Crashes are left to
`Relayer_strict`, but a lock lost after journalling leaves the same unresolved row
behind as a crash does, and `RelayerCompletedFinal` has no bound. In `Store` the sum of
`MaxReorg` and `MaxLag` equals `Lookback + Confirmations`, which is the most the
code tolerates and what `StoreAssumption` allows: without that assumption, one
block more of either makes `NoRequestLost` fail, as it must. It also takes a
range longer than the lookback, as the default options are: the code does not
check it, and with a shorter one the cursor would never move, which the runs
therefore do not show. Requests
stop `Confirmations + Lookback` before the end of the chain so that the bound
does not hide the re-scan. `Confirmations` is 0 there, so that a reorganisation
reaches rows that are in the queue or being served; the request is made again in
the same block, because a lower one would take reorganisations of two blocks. In
`Archiver` the distances are as tight as `ArchiverAssumption` allows: two blocks
more of `MaxGap` make `NoSilentMiss` fail (one more is caught because a window
that closed behind a lagging endpoint makes the send throw), and the source's numbers (512, 256,
192, 32, 2) satisfy the assumption with 33 blocks to spare. In `DKG` the
faulty member is `c`, who is in both rosters with different indexes. In `Node`
a second reorganisation or fault only repeats the first; the faulty node signs
all messages at once. `RestartAccepted` exempts nodes that lost a write or failed
to sync one (`damaged`): after a failed sync the node appends a second record of
the request and its next start refuses the log, which the property does not deny.

*Symmetry* is used in `Relayer_strict` only (workers, requests and endpoints are
interchangeable, no liveness is checked).

## 4. Fairness

* `V3FairSpec`: blocks are produced, a transaction that is open ends, and the
  compact worker sends `expireRequest` for a request past its expiry
  (`compact-worker.mjs:97`). Fulfilment is not assumed.
* `RelayerNonce`: a worker inside the locked region goes on (its timers fire, its
  calls have timeouts); a queued request is tried again for ever (`retryRequest`
  with a delay), which is strong fairness of taking it up, since the lock is free
  again and again; the chain includes what it was sent; endpoints catch up, with
  what other accounts did too. Crashes, lost connections, forgetful pools, reverts
  and expiries by other accounts are never forced.
* `OperatorStore`: blocks are produced and reorganisations end; the loop of every
  live instance scans and serves (strong fairness of serving, because scanning by
  the same instance can disable it in between); the lease of a dead instance runs
  out. In `OperatorLoop` the file operator also begins a scan if it can do so again
  and again (an endpoint behind the cursor does not answer every poll), and the
  compact worker has no fairness beyond that of its loop.
* `ThresholdNode`: processes run, endpoints catch up, the operator retries
  (`ProveFails` is never forced, and strong fairness says that in the end some
  call is not cut off by its timeout first). `EveryRequestProved` is excused by a
  reorganisation, after which the honest nodes may hold different messages and
  the code gives no proof for ever, and by lost writes.
* `Archiver`: the supervisor restarts the process, the loop polls, blocks are
  produced, and what was broadcast is included unless it was dropped.

## 5. Proofs

| Theorems | Say | Inductive invariant |
|---|---|---|
| `V2TypeCorrect`, `V2PinnedTerms` | `[]TypeOK`, `[]PinnedTerms` of `V2Spec` | `V2Inv` |
| `V2ChargedOnce`, `V2ReadyWhenConfirmed` | `[]ChargedOnce`, `[]ReadyWhenConfirmed` | `HistoryInv` |
| `V2Lifecycle` | `V2Spec => LifeSpec` (refinement) | `HistoryInv` |
| `V2SponsorQuota` | `SponsorQuotaRespected` (action property) | `V2Inv` |
| `V2ReservationsBacked`, `V2PendingExact`, `V2ReleaseNeverReverts` | the sums are exact; no release underflows | `BooksInv` |
| `V2Solvent` | `[]Solvent` | `SolventInv`, `BooksInv` |
| `V3TypeCorrect`, `V3WitnessRecoverable`, `V3ChargedOnce` | the same of `V3Spec`, and the witness is in the log | `V3Inv` |
| `V3Lifecycle` | `V3Spec => LifeSpec` (refinement) | `V3Inv` |
| `V3WitnessAccounting`, `V3ReleaseNeverReverts`, `V3Solvent` | sums, releases, ether of V3 | `BooksInv` (of `V3Proofs`), `SolventInv` |
| `TimelockRunsOnce`, `TimelockFlags` | `[]RunsOnceInWindow`, `[]FlagsTruthful` | `CoherentFrames` |
| `RelayerJournalFirst`, `RelayerTypeCorrect` | `[]JournalFirst`, `[]TypeOK` | `RelayerInv`, `RestTyped` |
| `RelayerNonceOneJob`, `RelayerReportsOwn` | `[]NonceServesOneJob`, `[]ReportedOwnTransaction` if `MaxLost = MaxForget = 0` | `NonceInv` |
| `RelayerCompletedFinal` | `[]CompletedIsFinal` if `ChecksFinal` | itself, with `RelayerInv` |
| `StoreNoRequestLost`, `StoreScanCoversRows`, `StoreFileComplete`, `StoreEvidence` | the store's four invariants, of `LoopSpec` | `StoreInv` |
| `StoreLeaseHonoured` | `LeaseHonoured` (action property) | `StoreInv` |
| `Interpolation` | any set of enough indexes interpolates committed points to the constant | an operator lemma, for every prime |
| `ManifestSharesReconstruct`, `EveryoneFinalizes`, `HonestDealsUnexposed`, `HandoffConstantsAddUp` | the ceremony's four invariants | `DKGInv` |
| `HonestShareKeysCommitted` | an honest share key is the one the aggregated commitments fix (no run has it) | `DKGInv` |
| `ManifestQuorumsSign` | any threshold of the shares of an assembled manifest signs for the group (no run has it) | `DKGInv` |
| `AnyThresholdAggregates` | of a validated group, exactly the sets of threshold size aggregate | an operator lemma, under `NodeAssumption` |
| `NodeEquivocation`, `NodeAudit`, `NodeRestart`, `NodeOneOutput` | the node's four invariants | `NodeInv` |
| `ArchiverBudget`, `ArchiverNoSilentMiss` | `[]SpendWithinBudget`, `[]NoSilentMiss` | `ArchiverInv` |

All are about the specification without fairness that the runs' specifications
contain, so what a run checks of an instance holds of all.

*V2.* The terms recomputed for a request are those agreed only if no version it
refers to is ever overwritten and the newest version is the current
configuration; the latter is what a new request is quoted from. `BaseProofs` has
one lemma per function of the base contract, `V2Proofs` one per request function.
`HistoryInv` adds what a request has behind it: an identifier that was issued is
not above the consumer's nonce (so none is issued twice, even after pruning and
removal of the consumer), there is a result only once it is fulfilled, a charge
only after that and within the reservation, and the request of an open callback
has not been delivered, nor charged before its settlement. This is what makes
every step of V2 a step of `RequestLifecycle` or a stutter.

*Sums.* A sum over requests is the cardinality of a set of wei: request `i`
contributes `{i} \X 1..amount`. Taking and giving up a reservation are then facts
about finite sets, and no induction over requests is needed. `Ledger` says it of
reservations and both kinds of counters, for any set of open requests; V2 and V3
instantiate it with theirs. For V2 the amount is recomputed from versions, and
`PinnedTerms` is what keeps it. Subtractions in the model are guarded as the
checked ones of the source are; `V2ReleaseNeverReverts` and
`V3ReleaseNeverReverts` say that those guards hold whenever there is something to
release.

*V3.* `V3Inv` says of each request what its commitment implies (a valid price and
service, a charge within the committed reservation, no result while pending, the
witness in the log unless its callback is open), and that an open callback works
on the witness committed to. Nothing is assumed of `Altered`: a caller may
bring anything at all.

*Timelock.* A failed call restores an earlier state, so a property of the current
state alone is not inductive. `CoherentFrames` says the same of the current
storage and of the storage saved in every frame: an operation is due `Delay` after
it was scheduled, is marked executed exactly if it ran, never ran if cancelled,
and ran at most once, inside its window.

*Relayer.* `Broadcast` sends what the worker has in hand, so `RelayerInv` adds
that a worker past `recordBroadcast` has its transaction in the journal, and
that nothing removes a row. `NonceInv` adds that the worker in the locked region
has the lock, that some endpoint knows of every nonce ever sent (so a nonce that
all call pending is fresh), and that what was sent with the nonce in hand is for
the request in hand. A lost lock connection or a forgetful pool breaks the
second and third; the theorem says so in its hypotheses. A receipt handed on is of
a mined transaction with the worker's nonce, hence of its request, and what is
mined stays: that is `ReportedOwnTransaction`. Other accounts are free to expire
any request at any moment in all of these theorems; a row that goes because of
them is reported with no transaction. `RelayerCompletedFinal` needs only that
whatever an endpoint has heard of did happen, and that a final request stays so.

*Store.* Blocks up to `peak - MaxReorg` never change, and every endpoint has those
up to `peak - MaxReorg - MaxLag`. A scan ends `Confirmations` below a head that
was reported, so what lies `Lookback` below its end was seen as it will always be.
`StoreInv` says this of the queue, of the state file and of every scan under way,
and that the scan of the lease's holder began at the cursor as it still stands.

*Interpolation.* Folds have no recursive definition to unfold: `ThresholdProofs`
shows that a fold over a finite set is the last entry of a table over its
subsets, which is unique, and from that how a sum or a product changes when one
element is added. Induction over data is replaced by minimality: a set of
subsets of a finite set that contains the empty one and is closed under adding
an element contains the whole (`SubsetInduction`). With the moment `M(S, k)`, the
sum of `i^k` times the weight of `i` in `S`, one has
`a * M(S, k) - M(S, k + 1) = a * M(S \ {a}, k)` for every `a` in `S`
(`LagrangeRemove` is the same of one weight). Two members of `S` thus give
its moments from those of smaller sets, and `M(S, k)` is 1 for `k = 0` and 0 for
`0 < k < |S|` (`MomentValue`). Exchanging two sums does the rest. Inverses exist
because `Order` has no divisor, which is all that is assumed of it.

*Ceremony.* `DKGInv` says who can have written what. An honest dealer deals once,
with the shares of its polynomial (`DealsInv`); an honest response judges deals
that are on the board (`ResponsesInv`), so it complains of an honest dealer only
about a share of zero, and only such a complaint makes an honest dealer publish an
honest member's share (`HonestUnexposed`, which is part of the invariant).
A finalization names files of the board that passed every check that is the same
for all participants, and the polynomial they fix (`FinalizationsInv`; a faulty
participant copies both and hands in any share key); the key of an honest one is
that of the share in its keystore and lies on that polynomial (`KeystoreInv`): a
qualified dealer has given each recipient a share that matches its commitments,
directly or by a resolution. `ManifestInv` adds that a manifest passed
`validateGroupManifest`, from which `Interpolation` gives the rest. The boards only
grow (`Grows`), so what was valid stays valid. TLC checked the invariant on the
instance of `DKG` before it was proved. `EveryoneFinalizes` and
`HonestDealsUnexposed` except a share that comes out as zero: the tool refuses it,
because no point is multiplied by zero (`shareMatchesCommitments`,
`publicKeyForShare`), and with a prime of 255 bits nobody will see one; in a small
field some draws give one, and without the exception neither would hold for all
values of the constants.

*Node.* What carries a message over a crash is the audit log; what carries it from
the conflict check to the release is memory. `NodeInv` ties the two: what is in
the log of a running node is what its memory says it signed. `OneOutput` follows
by counting: two thresholds share a node that is not faulty.

*Archiver.* A request out of range of this checkpoint was in range of the last
one, unless the gap is on record; by then it was so old that every endpoint said
its window had closed, so that cycle dealt with it. `ArchiverInv` says this of the
last checkpoint and, as far as it has come, of the running cycle.

*Assumed of the constants*, each evaluated by TLC on every run of its module:
`BaseAssumption` (naturals where the source has unsigned integers, three limits
that are not zero in the source, arguments of their types);
`ConfirmationAssumption` (the order of the source's limits 1, 200, 256, 257);
`StoreAssumption` (reorganisations and lag within confirmations and lookback);
`LoopAssumption` (one process on a state file); `ArchiverAssumption` (the
distances of section 3); `NodeAssumption` (twice the threshold exceeds the nodes
and the faulty ones together; with none faulty it is the strict majority of
`threshold-dkg.mjs:137`; every group is one that `normalizeBody` accepts, with no
zero key, and node indexes are nonzero and below the order);
`OrderIsPrime` (as the order of BLS12-381 is); `DKGAssumption` (the checks of
`validateRoster` on both rosters, an old manifest that validates, drawn
polynomials of the right length whose top coefficient is not zero if the member
is honest, as `threshold-dkg.mjs` draws them); `NonceAssumption` and `TimelockAssumption` (types, and
limits that are not zero).

*Only model-checked:*

* liveness and everything with fairness (`ReservationsEnd`, `EveryJobFinal`,
  `EveryRequestServed`, `EveryRequestProved`, `EveryRequestSettled`): out of the
  prover's reach;
* `OpenRequestsServiceable`, which says `ENABLED`; the part of it that is about
  the accounting is `V2ReleaseNeverReverts`.

## 6. Findings

* **A reverted attempt counts as a fulfilment** (`cli.mjs:380`, run
  `Relayer_reverted`). After a gas price replacement, `wait()` on the newer attempt
  throws `TRANSACTION_REPLACED` with the receipt of the older one.
  `sendWithReplacement` returns it whatever its status; `runServicePostgres` then
  deletes the request and logs `fulfilled`. If the older attempt reverted, the
  request is pending on chain and, once its block is out of the lookback, in
  nobody's queue. `docs/OPERATIONS.md:22` says failed tasks are retried.
  `compact-worker.mjs:101` checks the status and line 103 the request, and
  `Relayer_live` shows that this is enough.
  The file operator uses the same function and deletes the row in the same way;
  `OperatorLoop` and `OperatorStore` take a receipt for a fulfilment.

Disagreements met while modelling, about what no run states:

* `docs/DKG_RUNBOOK.md:9` says that finalizations are signed; `finalizeCeremony`
  returns an unsigned one and `assembleManifest` takes it. `FaultyFinalization`
  therefore hands in anything, and `SharesReconstruct` shows that the check of
  every share key against the commitments is enough.
* A re-signed transaction keeps its old verdict (`postgres-store.mjs:427`): after a
  crash between journal and broadcast the next holder resolves the row as
  `dropped`; if it signs the very same transaction again, `ON CONFLICT DO NOTHING`
  leaves the row so, and it is not reconciled before the next broadcast.
  `Relayer_strict` shows that no nonce is taken over because of it as long as
  endpoints do not forget.
* The service archiver writes its checkpoint also when a request threw after its
  window had closed (`unseen`). If that happens in every cycle until the request
  is out of range, neither `missedRequestIds` nor `coverageGap` names it, and the
  errors are only in the health files of those cycles.

## 7. Not modelled

The V1 coordinator, its router and the `run` command that serves it: superseded
by V2, and without subscriptions a part of the same life cycle. Elliptic curve
arithmetic and the on-chain verifiers; key files, TLS, HTTP; deployment,
calibration, readiness and evidence scripts; reporting rows, health files and
logs; the compact worker's list of requests to review. In what is
modelled: ether transfers to accounts always succeed (a failing one reverts the
whole call, which is no step); a finalisation on chain is not reorganised away,
and neither is what `RelayerNonce` has mined; the read of a request's status and
the delete or retry it leads to are one step of `RelayerNonce` and `OperatorStore`;
in `RelayerNonce` a queue row goes only by completion (the scans that remove and
restore rows are those of `OperatorStore`), an endpoint behind the request's own
block is one of the calls that fail (`Fail`), and a final request is not pruned,
which the contract allows only `PRUNE_DELAY_BLOCKS` after its expiry; an instance id is fresh for each process (the default); the JSON
state file of the operator survives a crash as written (it is not synced, so a
power loss may do worse); a ceremony's signatures and envelopes cannot be forged
or opened.

## 8. Plan

1. `readiness.mjs` and the compact worker's list of requests to review, if they
   ever come to change what is served.
2. V1, should it be deployed again.
