----------------------------- MODULE ThresholdNode -----------------------------
(***************************************************************************)
(* How a proof for a request is obtained (operator/proof-provider.mjs):    *)
(* from a local key, from a remote prover (operator/prover-server.mjs), or *)
(* from a threshold of signing nodes (operator/threshold-node.mjs) whose   *)
(* partial signatures the operator aggregates.                             *)
(*                                                                         *)
(* The message of a request is a hash of its seed, which the chain fixes   *)
(* by the hash of a block; a reorganisation changes it.  Every party reads *)
(* it from several RPC endpoints that must agree, outside the queue that   *)
(* serialises a node's signing, so what it signs may be stale.             *)
(*                                                                         *)
(* A node keeps a state file (written by rename, never synced) and an      *)
(* audit log (synced at every append).  A process crash loses memory; a    *)
(* power loss also takes the state file back to an older version.          *)
(***************************************************************************)
EXTENDS ThresholdCrypto

CONSTANTS
    Nodes,              \* share indexes
    Groups,             \* manifests to choose from: the threshold, the group
                        \* polynomial, and the nodes that release anything
    Requests, Endpoints,
    Modes,              \* the providers to choose from
    MaxReorgs, MaxFaults,   \* reorganisations; crashes and failed writes
    Fragile,                \* the nodes that crash or fail to write
    MaxWaiting              \* handlers of one node that wait for its queue

\* A message is the number of its seed: each reorganisation gives a new one.
Messages == 1..(MaxReorgs + 1)

VARIABLES
    group,      \* the manifest in use
    mode,       \* "local", "remote" or "threshold"
    canonical,  \* request -> its message on the chain
    rpc,        \* endpoint -> request -> the message it reports
    open,       \* requests that are pending on the chain
    reorgs, faults,
    ask,        \* request -> message the operator is asking a proof of
    asked,      \* requests whose number was ever posted to the nodes
    proofs,     \* <<request, message>> pairs a provider returned a proof of
    up, signed, audited,    \* a node's process: signedRequests, auditedRequests
    waiting,    \* node -> resolved requests in its queue
    section,    \* node -> the queued task that runs, or None
    stateFile, auditLog,    \* a node's disk
    damaged,    \* nodes that lost writes or failed to sync one
    released    \* partial responses sent

chain == <<canonical, rpc, open, reorgs>>
operator == <<group, mode, ask, asked, proofs>>
process == <<up, signed, audited, waiting, section>>
disk == <<stateFile, auditLog, damaged>>
vars == <<chain, operator, process, disk, released, faults>>

\* The share public keys a manifest names.
ShareKeys == [g \in Groups |-> [n \in Nodes |-> commitmentAt(g.coefficients, n)]]

\* Which Threshold-sized sets of valid partials of a message aggregate.
AggregatingSets == [g \in Groups |-> [m \in Messages |->
    {S \in SUBSET Nodes :
        /\ Cardinality(S) = g.threshold
        /\ Aggregates(m, g.coefficients[1], g.threshold,
               [n \in S |-> signPartial(m, ShareKeys[g][n])], ShareKeys[g])}]]

\* What normalizeBody has checked of the manifest a node or operator loads.
ValidatedGroup(g) ==
    /\ g.coefficients \in Seq(Scalars) /\ g.threshold \in Nat \ {0}
    /\ Len(g.coefficients) = g.threshold
    /\ g.coefficients[1] # 0
    /\ \A n \in Nodes : ShareKeys[g][n] # 0

ASSUME NodeAssumption ==
    /\ IsFiniteSet(Nodes) /\ Nodes \subseteq 1..(Order - 1)
    /\ None \notin Nat
    /\ Fragile \subseteq Nodes
    /\ MaxReorgs \in Nat /\ MaxReorgs + 1 < Order
    /\ \A g \in Groups :
        /\ g.faulty \subseteq Nodes
        /\ Cardinality(g.faulty) + Cardinality(Nodes) < 2 * g.threshold
        /\ ValidatedGroup(g)

\* The message all endpoints report, if they do (resolveCanonicalRequest).
Agreed(r, m) == \A e \in Endpoints : rpc[e][r] = m

Nothing == [r \in Requests |-> None]

Init ==
    /\ group \in Groups
    /\ mode \in Modes
    /\ canonical = [r \in Requests |-> 1]
    /\ rpc = [e \in Endpoints |-> canonical]
    /\ open = Requests
    /\ reorgs = 0 /\ faults = 0
    /\ ask = Nothing /\ asked = {} /\ proofs = {}
    /\ up = [n \in Nodes |-> TRUE]
    /\ signed = [n \in Nodes |-> Nothing]
    /\ audited = [n \in Nodes |-> {}]
    /\ waiting = [n \in Nodes |-> {}]
    /\ section = [n \in Nodes |-> None]
    /\ stateFile = [n \in Nodes |-> Nothing]
    /\ auditLog = [n \in Nodes |-> <<>>]
    /\ damaged = {}
    /\ released = {}

------------------------------------------------------------------------------
(* The chain and the endpoints that report it. *)

Reorg(r) ==
    /\ r \in open /\ reorgs < MaxReorgs
    /\ canonical' = [canonical EXCEPT ![r] = @ + 1]
    /\ reorgs' = reorgs + 1
    /\ UNCHANGED <<rpc, open, operator, process, disk, released, faults>>

Sync(e) ==
    /\ rpc[e] # canonical
    /\ rpc' = [rpc EXCEPT ![e] = canonical]
    /\ UNCHANGED <<canonical, open, reorgs, operator, process, disk, released, faults>>

\* The coordinator accepts a proof for the message of the canonical seed.
Fulfill(r) ==
    /\ r \in open /\ <<r, canonical[r]>> \in proofs
    /\ open' = open \ {r}
    /\ UNCHANGED <<canonical, rpc, reorgs, operator, process, disk, released, faults>>

------------------------------------------------------------------------------
(* The operator asks its provider for a proof. *)

\* The operator reads the seed and calls prove; in threshold mode the request
\* number goes to every node.
Prove(r, m) ==
    /\ ask[r] = None /\ r \in open /\ Agreed(r, m)
    /\ ask' = [ask EXCEPT ![r] = m]
    /\ asked' = IF mode = "threshold" THEN asked \cup {r} ELSE asked
    /\ UNCHANGED <<group, mode, proofs, chain, process, disk, released, faults>>

Return(r) ==
    /\ proofs' = proofs \cup {<<r, ask[r]>>}
    /\ ask' = [ask EXCEPT ![r] = None]
    /\ UNCHANGED <<group, mode, asked, chain, process, disk, released, faults>>

\* prove throws or times out; the operator tries again later.
ProveFails(r) ==
    /\ ask[r] # None
    /\ ask' = [ask EXCEPT ![r] = None]
    /\ UNCHANGED <<group, mode, asked, proofs, chain, process, disk, released, faults>>

ProveLocal(r) ==
    mode = "local" /\ ask[r] # None /\ Return(r)

\* What the remote prover reads of a pending request on its own endpoints.
resolveProofRequest(r, m) == r \in open /\ Agreed(r, m)

\* The operator accepts the prover's proof only when it is of the seed it
\* asked for.
ProveRemote(r) ==
    /\ mode = "remote" /\ ask[r] # None
    /\ resolveProofRequest(r, ask[r])
    /\ Return(r)

Valid(p) == verifySignature(p.message, ShareKeys[group][p.node], p.signature)

\* Mutant: responses are not matched with the message asked for.
RespondersAny(r, m) == {p.node : p \in {x \in released : x.request = r /\ Valid(x)}}

\* Nodes whose response to this request and message verifies.  A partial is
\* the same whenever it is sent, so one of an earlier call stands for its
\* repetition.
Responders(r, m) ==
    {p.node : p \in {x \in released : x.request = r /\ x.message = m /\ Valid(x)}}

\* Mutant: one response too few is taken.
FirstByIndexShort(S) ==
    {n \in S : Cardinality({k \in S : k < n}) < group.threshold - 1}

\* Of the responses that arrived in time, the first threshold by index.
FirstByIndex(S) ==
    {n \in S : Cardinality({k \in S : k < n}) < group.threshold}

Aggregate(r) ==
    /\ mode = "threshold" /\ ask[r] # None
    /\ \E S \in SUBSET Responders(r, ask[r]) :
        /\ Cardinality(S) >= group.threshold
        /\ FirstByIndex(S) \in AggregatingSets[group][ask[r]]
    /\ Return(r)

------------------------------------------------------------------------------
(* A signing node. *)

\* A POST of the request number; the canonical message is read before the
\* handler queues its task.
Resolve(n, r, m) ==
    /\ up[n] /\ n \notin group.faulty
    /\ r \in asked /\ r \in open /\ Agreed(r, m)
    /\ Cardinality(waiting[n]) < MaxWaiting
    /\ waiting' = [waiting EXCEPT ![n] = @ \cup {<<r, m>>}]
    /\ UNCHANGED <<up, signed, audited, section, chain, operator, disk, released, faults>>

Task(r, m, pc) == [request |-> r, message |-> m, pc |-> pc]

Conflicts(n, r, m) == signed[n][r] # None /\ signed[n][r] # m

\* Mutant: the message is recorded in memory only.
RecordUnsaved(n, r, m, ok) ==
    /\ section[n] = None /\ <<r, m>> \in waiting[n] /\ ok
    /\ waiting' = [waiting EXCEPT ![n] = @ \ {<<r, m>>}]
    /\ IF Conflicts(n, r, m)
       THEN UNCHANGED <<signed, section>>
       ELSE /\ signed' = [signed EXCEPT ![n][r] = m]
            /\ section' = [section EXCEPT ![n] = Task(r, m, "audit")]
    /\ UNCHANGED <<up, audited, chain, operator, disk, released>>

\* The task checks for a conflicting message, records the message and saves
\* the state file; ok is FALSE where the save throws.
Record(n, r, m, ok) ==
    /\ section[n] = None /\ <<r, m>> \in waiting[n]
    /\ waiting' = [waiting EXCEPT ![n] = @ \ {<<r, m>>}]
    /\ IF Conflicts(n, r, m)
       THEN ok /\ UNCHANGED <<signed, section, stateFile>>
       ELSE /\ signed' = [signed EXCEPT ![n][r] = m]
            /\ stateFile' = IF ok THEN [stateFile EXCEPT ![n] = signed'[n]] ELSE stateFile
            /\ section' = IF ok THEN [section EXCEPT ![n] = Task(r, m, "audit")] ELSE section
    /\ UNCHANGED <<up, audited, chain, operator, auditLog, damaged, released>>

RecordRequest(n, r, m) == Record(n, r, m, TRUE) /\ UNCHANGED faults
RecordFails(n, r, m) ==
    faults < MaxFaults /\ faults' = faults + 1 /\ Record(n, r, m, FALSE)

\* Mutant: the partial goes out without a record.
AuditNothing(n) ==
    /\ section[n] # None /\ section[n].pc = "audit"
    /\ section' = [section EXCEPT ![n].pc = "release"]
    /\ UNCHANGED <<up, signed, audited, waiting, chain, operator, disk, released, faults>>

\* The partial is built and, the first time, logged and synced.  The save of
\* the state file that follows rewrites the signedRequests it already holds.
AuditRequest(n) ==
    /\ section[n] # None /\ section[n].pc = "audit"
    /\ LET r == section[n].request  m == section[n].message
       IN  IF r \in audited[n]
           THEN UNCHANGED <<auditLog, audited>>
           ELSE /\ auditLog' = [auditLog EXCEPT ![n] = Append(@, <<r, m>>)]
                /\ audited' = [audited EXCEPT ![n] = @ \cup {r}]
    /\ section' = [section EXCEPT ![n].pc = "release"]
    /\ UNCHANGED <<up, signed, waiting, chain, operator, damaged, stateFile, released, faults>>

\* The record is appended but the sync throws: the handler answers 400 and
\* the process does not know of the record.
AuditFails(n) ==
    /\ faults < MaxFaults /\ faults' = faults + 1
    /\ section[n] # None /\ section[n].pc = "audit"
    /\ section[n].request \notin audited[n]
    /\ auditLog' = [auditLog EXCEPT ![n] =
                       Append(@, <<section[n].request, section[n].message>>)]
    /\ damaged' = damaged \cup {n}
    /\ section' = [section EXCEPT ![n] = None]
    /\ UNCHANGED <<up, signed, audited, waiting, chain, operator, stateFile, released>>

Partial(n, r, m, signature) ==
    [node |-> n, request |-> r, message |-> m, signature |-> signature]

Release(n) ==
    /\ section[n] # None /\ section[n].pc = "release"
    /\ LET t == section[n]
       IN  released' = released \cup
             {Partial(n, t.request, t.message, signPartial(t.message, ShareKeys[group][n]))}
    /\ section' = [section EXCEPT ![n] = None]
    /\ UNCHANGED <<up, signed, audited, waiting, chain, operator, disk, faults>>

\* A faulty node signs every message of a request, or gets all of them wrong.
FaultyRelease(n, r, wrong) ==
    /\ n \in group.faulty /\ r \in asked
    /\ released' = released \cup
         {Partial(n, r, m, mod(signPartial(m, ShareKeys[group][n]) + wrong)) : m \in Messages}
    /\ UNCHANGED <<chain, operator, process, disk, faults>>

Stop(n) ==
    /\ up[n] /\ n \notin group.faulty
    /\ faults < MaxFaults /\ faults' = faults + 1
    /\ up' = [up EXCEPT ![n] = FALSE]
    /\ signed' = [signed EXCEPT ![n] = Nothing]
    /\ audited' = [audited EXCEPT ![n] = {}]
    /\ waiting' = [waiting EXCEPT ![n] = {}]
    /\ section' = [section EXCEPT ![n] = None]
    /\ UNCHANGED <<chain, operator, auditLog, released>>

Crash(n) == Stop(n) /\ UNCHANGED <<stateFile, damaged>>

PowerLoss(n) ==
    /\ Stop(n)
    /\ \E kept \in SUBSET Requests :
        stateFile' = [stateFile EXCEPT ![n] =
            [r \in Requests |-> IF r \in kept THEN @[r] ELSE None]]
    /\ damaged' = damaged \cup {n}

\* Mutant: the log is not compared with the state file.
LogUnmatched(n) ==
    \A i, j \in DOMAIN auditLog[n] : auditLog[n][i][1] = auditLog[n][j][1] => i = j

\* loadAuditLog: one record per request, each of a message the state file has.
LogAccepted(n) ==
    /\ \A i, j \in DOMAIN auditLog[n] :
        auditLog[n][i][1] = auditLog[n][j][1] => i = j
    /\ \A i \in DOMAIN auditLog[n] :
        stateFile[n][auditLog[n][i][1]] = auditLog[n][i][2]

\* startThresholdNode; a node whose files do not agree refuses to start.
Restart(n) ==
    /\ ~up[n] /\ LogAccepted(n)
    /\ up' = [up EXCEPT ![n] = TRUE]
    /\ signed' = [signed EXCEPT ![n] = stateFile[n]]
    /\ audited' = [audited EXCEPT ![n] = {auditLog[n][i][1] : i \in DOMAIN auditLog[n]}]
    /\ UNCHANGED <<waiting, section, chain, operator, disk, released, faults>>

NodeStep(n) ==
    \/ \E r \in Requests, m \in Messages : Resolve(n, r, m) \/ RecordRequest(n, r, m)
    \/ AuditRequest(n) \/ Release(n) \/ Restart(n)

NodeFault(n) ==
    \/ \E r \in Requests, m \in Messages : RecordFails(n, r, m)
    \/ AuditFails(n) \/ Crash(n) \/ PowerLoss(n)

OperatorStep(r) ==
    \/ \E m \in Messages : Prove(r, m)
    \/ ProveLocal(r) \/ ProveRemote(r) \/ Aggregate(r)

Next ==
    \/ \E r \in Requests : OperatorStep(r) \/ ProveFails(r) \/ Fulfill(r)
                           \/ Reorg(r)
    \/ \E e \in Endpoints : Sync(e)
    \/ \E n \in Nodes : NodeStep(n)
    \/ \E n \in Nodes, r \in Requests, wrong \in {0, 1} : FaultyRelease(n, r, wrong)
    \/ \E n \in Fragile : NodeFault(n)

Spec == Init /\ [][Next]_vars

(* Every process keeps running and answers, RPC endpoints follow the       *)
(* chain, and the operator retries and in the end does not time out first. *)
Fairness ==
    /\ \A n \in Nodes : WF_vars(NodeStep(n))
    /\ \A e \in Endpoints : WF_vars(Sync(e))
    /\ \A r \in Requests :
        /\ WF_vars(\E m \in Messages : Prove(r, m))
        /\ SF_vars(ProveLocal(r) \/ ProveRemote(r) \/ Aggregate(r))
        /\ WF_vars(Fulfill(r))

FairSpec == Spec /\ Fairness

------------------------------------------------------------------------------
(* Properties *)

(* An honest node never releases partials for two messages of one request, *)
(* whatever reorganisations change the seed between its reads, crashes     *)
(* interrupt its task, and writes of the unsynced state file are lost: the *)
(* conflict check, the synced log and the start-up check together carry    *)
(* the first message over (startThresholdNode, loadAuditLog).              *)
NodeNeverEquivocates ==
    \A p, q \in released :
        p.node = q.node /\ p.request = q.request /\ p.node \notin group.faulty
            => p.message = q.message

(* Two messages of one request never both get an aggregate: a threshold of *)
(* partials of each would share an honest node (ThresholdProofProvider).   *)
OneOutput ==
    mode = "threshold" =>
        \A x, y \in proofs : x[1] = y[1] => x[2] = y[2]

(* Every partial an honest node has released is in its audit log, and on   *)
(* disk, so that the log is a full account of what it signed.              *)
ReleasedIsAudited ==
    \A p \in released : p.node \notin group.faulty =>
        <<p.request, p.message>> \in Range(auditLog[p.node])

(* At every instant a process crash leaves files with which the node       *)
(* starts again: the state file names every message in the log and no      *)
(* request is logged twice.  Only lost writes or a failed sync stop it.    *)
RestartAccepted == \A n \in Nodes \ damaged : LogAccepted(n)

(* A request whose seed no reorganisation changes is proved and fulfilled, *)
(* in every mode, as long as no node loses writes and the honest nodes are *)
(* a threshold.                                                            *)
EveryRequestProved ==
    \A r \in Requests :
        <>(\/ r \notin open \/ reorgs > 0 \/ damaged # {}
           \/ Cardinality(Nodes \ group.faulty) < group.threshold)
==============================================================================
