---------------------------- MODULE RelayerNonce ----------------------------
(***************************************************************************)
(* How the operator instances that share one relayer account send their    *)
(* transactions: operator/cli.mjs (sendPostgresTransaction, the nonce      *)
(* reconciliation and sendWithReplacement), the advisory lock and the      *)
(* transaction journal of operator/postgres-store.mjs, and the nonce       *)
(* consensus of operator/rpc.mjs.                                          *)
(*                                                                         *)
(* A transaction is identified by its contents, as its hash is: signing    *)
(* the same request with the same nonce and gas price twice gives the same *)
(* hash.  Nonces count from 1, so nonce n is consumed once Len(mined) >= n *)
(* and an RPC endpoint r that has seen `seen[r]' transactions answers      *)
(* seen[r] to eth_getTransactionCount("latest").                           *)
(*                                                                         *)
(* External parties: the chain, which mines any transaction that ever      *)
(* reached a node; other accounts, which may finalise a request themselves *)
(* (expireRequest is open to anybody); the RPC endpoints, whose view of    *)
(* the chain lags and whose transaction pools may forget; and PostgreSQL,  *)
(* which releases an advisory lock when its session ends.                  *)
(***************************************************************************)
EXTENDS Naturals, Sequences, FiniteSets, FiniteSetsExt

CONSTANTS
    Workers,         \* operator processes sharing the relayer key
    Jobs,            \* requests, each needing one transaction
    Rpcs,            \* rpcProviders
    None,
    Prices,          \* gas prices getFeeData may return
    MaxGasPrice,     \* maxGasPrice of the lane
    MaxAttempts,     \* maximumAttempts
    ChecksFinal,     \* TRUE: run-compact.mjs, which re-reads the request's
                     \* state before completing; FALSE: cli.mjs, which does not
    MaxNonce,        \* bound on the transactions of the relayer
    MaxFails,        \* bound on crashes and thrown RPC errors
    MaxLost,         \* bound on lock connections lost by a live process
    MaxForget,       \* bound on transactions a pool forgets
    MaxReverts,      \* bound on transactions that revert
    MaxElsewhere,    \* bound on requests another account finalises
    MaxMishaps       \* bound on all of these together

ASSUME NonceAssumption ==
    /\ Prices \subseteq Nat /\ MaxGasPrice \in Nat
    /\ MaxAttempts \in Nat \ {0}
    /\ ChecksFinal \in BOOLEAN
    /\ {MaxNonce, MaxFails, MaxLost, MaxForget, MaxReverts,
        MaxElsewhere, MaxMishaps} \subseteq Nat
    /\ Rpcs # {} /\ None \notin Workers \cup Jobs

VARIABLES
    lock,        \* holder of pg_advisory_lock, or None
    journal,     \* vrf_operator_transactions: status per transaction
    proc,        \* what each worker is doing
    completed,   \* requests whose queue row was deleted (completeRequest)
    sent,        \* transactions that ever reached a node
    mined,       \* the chain: [tx, ok] per consumed nonce
    elsewhere,   \* requests another account finalised, each with the
                 \* length of `mined' at that moment
    seen,        \* how much of `mined' each RPC has seen
    heard,       \* which of `elsewhere' each RPC has seen
    pool,        \* transactions each RPC knows as pending
    budget,      \* what is left of the bounds above
    reported     \* history: <<request, transaction>> pairs written to
                 \* stdout as fulfilled

vars == <<lock, journal, proc, completed, sent, mined, elsewhere, seen, heard,
          pool, budget, reported>>
viewVars == <<elsewhere, seen, heard>>
chainVars == <<sent, mined, viewVars, pool>>
queueVars == <<completed, reported>>

Txs == [nonce : 1..MaxNonce, job : Jobs, price : 0..MaxGasPrice]
JournalStatus == {"none", "broadcast", "mined", "replaced", "consumed", "dropped"}
Pcs == {"idle", "receipts", "known", "latest", "sign", "journal", "check",
        "armed", "waiting", "mark"}

Idle == [pc |-> "idle", job |-> None, nonce |-> 0, price |-> 0, attempt |-> 0,
         todo |-> {}, receipt |-> None]

Tx(p) == [nonce |-> p.nonce, job |-> p.job, price |-> p.price]
IsMined(t) == t.nonce <= Len(mined) /\ mined[t.nonce].tx = t

\* The request is no longer pending on chain: a transaction of the relayer
\* succeeded, or somebody else's did.
Final(j) ==
    \/ \E n \in DOMAIN mined : mined[n].ok /\ mined[n].tx.job = j
    \/ \E e \in elsewhere : e.job = j

\* status !== 1 as RPC r answers it.  At an RPC behind the request's own block
\* getRequest answers nothing but reverts (UnknownRequest), which is one of
\* the errors of Fail.
FinalAt(r, j) ==
    \/ \E n \in 1..seen[r] : mined[n].ok /\ mined[n].tx.job = j
    \/ \E e \in heard[r] : e.job = j

\* The question as a worker asks it: cli.mjs any one RPC, run-compact.mjs at
\* a block that all of them have.
ReadsFinal(j) ==
    IF ChecksFinal THEN \A r \in Rpcs : FinalAt(r, j) ELSE \E r \in Rpcs : FinalAt(r, j)

\* getTransactionReceipt and getTransaction as RPC r answers them.
HasReceipt(r, t) == t.nonce <= seen[r] /\ mined[t.nonce].tx = t
Knows(r, t) == t \in pool[r] \/ HasReceipt(r, t)

\* r answers n to eth_getTransactionCount(relayer, "pending"): the next nonce
\* after those r has seen mined and the unbroken run of them in its pool.
PendingNonce(r, n) ==
    /\ n > seen[r]
    /\ \A t \in pool[r] : t.nonce # n
    /\ \A m \in (seen[r] + 1)..(n - 1) : \E t \in pool[r] : t.nonce = m

Bump(p) == (p * 9) \div 8 + 1

Spend(what) ==
    /\ budget[what] > 0 /\ budget.all > 0
    /\ budget' = [budget EXCEPT ![what] = @ - 1, !.all = @ - 1]

Init ==
    /\ lock = None
    /\ journal = [t \in Txs |-> "none"]
    /\ proc = [w \in Workers |-> Idle]
    /\ completed = {} /\ reported = {}
    /\ sent = {} /\ mined = <<>> /\ elsewhere = {}
    /\ seen = [r \in Rpcs |-> 0]
    /\ heard = [r \in Rpcs |-> {}]
    /\ pool = [r \in Rpcs |-> {}]
    /\ budget = [fails |-> MaxFails, lost |-> MaxLost, forget |-> MaxForget,
                 reverts |-> MaxReverts, elsewhere |-> MaxElsewhere,
                 all |-> MaxMishaps]

-----------------------------------------------------------------------------
(* Taking and leaving the lock *)

\* Mutant: the error path keeps the lock.
UnlockNever(w) == UNCHANGED lock

\* The finally block of withRelayerNonceLock: a session that is gone has no
\* lock to give back, and another session's lock is not touched.
Unlock(w) == lock' = IF lock = w THEN None ELSE lock

\* An error thrown inside the locked region: the request goes back to the
\* queue (retryRequest) and the worker to its loop.
Throw(w) ==
    /\ Unlock(w)
    /\ proc' = [proc EXCEPT ![w] = Idle]

Goto(w, pc) == proc' = [proc EXCEPT ![w].pc = pc]

\* A claimed request whose state is already final, whoever made it so, is
\* completed at once: before the work, and again after an error of it.
SkipFinal(w, j) ==
    /\ proc[w] = Idle /\ j \notin completed /\ ReadsFinal(j)
    /\ completed' = completed \cup {j}
    /\ UNCHANGED <<lock, journal, proc, reported, chainVars, budget>>

\* getRequest still answers "pending" at the RPC asked; then
\* pg_try_advisory_lock and listUnresolvedTransactions.
TakeLock(w, j) ==
    /\ proc[w] = Idle /\ j \notin completed /\ lock = None
    /\ \E r \in Rpcs : ~FinalAt(r, j)
    /\ lock' = w
    /\ proc' = [proc EXCEPT ![w] = [Idle EXCEPT !.pc = "receipts", !.job = j,
                    !.todo = {t \in Txs : journal[t] = "broadcast"}]]
    /\ UNCHANGED <<journal, queueVars, chainVars, budget>>

-----------------------------------------------------------------------------
(* reconcileRelayerTransactions: one nonce after another *)

CurrentNonce(w) == Min({t.nonce : t \in proc[w].todo})
CurrentTxs(w) == {t \in proc[w].todo : t.nonce = CurrentNonce(w)}

\* resolveNonce: every row of the nonce still `broadcast' takes the status,
\* then the mined one is marked; the worker goes on to its next nonce.
ResolveNonce(w, status, minedTxs) ==
    /\ journal' = [t \in Txs |->
            IF t \in minedTxs THEN "mined"
            ELSE IF t.nonce = CurrentNonce(w) /\ journal[t] = "broadcast" THEN status
            ELSE journal[t]]
    /\ proc' = [proc EXCEPT ![w].pc = "receipts", ![w].todo = @ \ CurrentTxs(w)]
    /\ UNCHANGED lock

\* Which RPCs have a receipt decides: all of them, none, or a disagreement.
ReadReceipts(w) ==
    /\ proc[w].pc = "receipts" /\ proc[w].todo # {}
    /\ LET minedTxs == {t \in CurrentTxs(w) : \E r \in Rpcs : HasReceipt(r, t)}
           observed == {r \in Rpcs : \E t \in CurrentTxs(w) : HasReceipt(r, t)}
       IN  \/ observed = {} /\ Goto(w, "known") /\ UNCHANGED <<lock, journal>>
           \/ observed = Rpcs /\ ResolveNonce(w, "replaced", minedTxs)
           \/ observed \notin {{}, Rpcs} /\ Throw(w) /\ UNCHANGED journal
    /\ UNCHANGED <<queueVars, chainVars, budget>>

\* RelayerTransactionPending if any RPC knows any transaction of the nonce.
ReadKnown(w) ==
    /\ proc[w].pc = "known"
    /\ IF \E r \in Rpcs, t \in CurrentTxs(w) : Knows(r, t)
       THEN Throw(w)
       ELSE Goto(w, "latest") /\ UNCHANGED lock
    /\ UNCHANGED <<journal, queueVars, chainVars, budget>>

\* The latest nonces say whether the nonce was consumed or may be reused.
ReadLatest(w) ==
    /\ proc[w].pc = "latest"
    /\ LET past == {r \in Rpcs : seen[r] >= CurrentNonce(w)}
       IN  \/ past = Rpcs /\ ResolveNonce(w, "consumed", {})
           \/ past = {} /\ ResolveNonce(w, "dropped", {})
           \/ past \notin {{}, Rpcs} /\ Throw(w) /\ UNCHANGED journal
    /\ UNCHANGED <<queueVars, chainVars, budget>>

-----------------------------------------------------------------------------
(* sendWithReplacement *)

\* Mutant: the answer of any one RPC.
AnyRpcNonces == {n \in 1..MaxNonce : \E r \in Rpcs : PendingNonce(r, n)}

\* pendingNonceConsensus: the one value all RPCs agree on.
ConsensusNonces == {n \in 1..MaxNonce : \A r \in Rpcs : PendingNonce(r, n)}

\* pendingNonceConsensus, then estimateGas and getFeeData at one RPC: the
\* estimate reverts where the request is seen to be final.
ChooseNonce(w) ==
    /\ proc[w].pc = "receipts" /\ proc[w].todo = {}
    /\ \/ \E n \in ConsensusNonces, p \in Prices, r \in Rpcs :
             /\ p <= MaxGasPrice /\ ~FinalAt(r, proc[w].job)
             /\ proc' = [proc EXCEPT ![w].pc = "sign", ![w].nonce = n,
                                     ![w].price = p, ![w].attempt = 1]
             /\ UNCHANGED lock
       \/ /\ \/ ConsensusNonces = {} \/ \E r \in Rpcs : FinalAt(r, proc[w].job)
             \/ \E p \in Prices : p > MaxGasPrice    \* GasPriceAboveLane
          /\ Throw(w)
    /\ UNCHANGED <<journal, queueVars, chainVars, budget>>

\* assertLease after signing and again after journalling; a lost lock is seen
\* by the query on its own connection.
AssertHeld(w) ==
    /\ proc[w].pc \in {"sign", "check"}
    /\ IF lock = w
       THEN Goto(w, IF proc[w].pc = "sign" THEN "journal" ELSE "armed") /\ UNCHANGED lock
       ELSE Throw(w)
    /\ UNCHANGED <<journal, queueVars, chainVars, budget>>

\* Mutant: the transaction goes out without a journal row.
SkipJournal(w) ==
    /\ proc[w].pc = "journal"
    /\ Goto(w, "check")
    /\ UNCHANGED <<lock, journal, queueVars, chainVars, budget>>

\* recordBroadcast: INSERT ... ON CONFLICT (transaction_hash) DO NOTHING.
RecordBroadcast(w) ==
    /\ proc[w].pc = "journal"
    /\ journal' = [journal EXCEPT ![Tx(proc[w])] = IF @ = "none" THEN "broadcast" ELSE @]
    /\ Goto(w, "check")
    /\ UNCHANGED <<lock, queueVars, chainVars, budget>>

\* A node takes a transaction whose nonce is open, and a replacement only at
\* a higher price.
Accepts(r, t) ==
    /\ t.nonce > seen[r]
    /\ \A u \in pool[r] : u.nonce = t.nonce => u.price < t.price

\* broadcastTransaction through the fallback provider: some of the nodes that
\* would take it get it; with none the call throws.
Broadcast(w) ==
    /\ proc[w].pc = "armed"
    /\ LET t == Tx(proc[w])
           takers == {r \in Rpcs : Accepts(r, t)}
       IN  \/ \E R \in (SUBSET takers) \ {{}} :
                 /\ pool' = [r \in Rpcs |-> IF r \in R
                        THEN {u \in pool[r] : u.nonce # t.nonce} \cup {t} ELSE pool[r]]
                 /\ sent' = sent \cup {t}
                 /\ Goto(w, "waiting")
                 /\ UNCHANGED lock
           \/ takers = {} /\ Throw(w) /\ UNCHANGED <<pool, sent>>
    /\ UNCHANGED <<journal, queueVars, mined, viewVars, budget>>

\* transaction.wait() at one RPC: the own transaction's receipt (an error if
\* it reverted), or TRANSACTION_REPLACED, whose receipt is returned whatever
\* transaction it belongs to and whatever its status.
Receive(w) ==
    /\ proc[w].pc = "waiting"
    /\ \E r \in Rpcs :
          /\ seen[r] >= proc[w].nonce
          /\ LET m == mined[proc[w].nonce]
             IN  IF m.tx = Tx(proc[w]) /\ ~m.ok
                 THEN Throw(w)
                 ELSE /\ Unlock(w)
                      /\ proc' = [proc EXCEPT ![w].pc = "mark", ![w].receipt = m.tx]
    /\ UNCHANGED <<journal, queueVars, chainVars, budget>>

\* Mutant: the last attempt's timeout is taken for a receipt.
TimeoutAsReceipt(w) ==
    /\ proc[w].pc = "waiting"
    /\ Unlock(w)
    /\ proc' = [proc EXCEPT ![w].pc = "mark", ![w].receipt = Tx(proc[w])]
    /\ UNCHANGED <<journal, queueVars, chainVars, budget>>

\* The wait timed out: the same nonce again at a bumped price, or give up.
Timeout(w) ==
    /\ proc[w].pc = "waiting"
    /\ IF Bump(proc[w].price) > MaxGasPrice \/ proc[w].attempt = MaxAttempts
       THEN Throw(w)
       ELSE /\ proc' = [proc EXCEPT ![w].pc = "sign", ![w].price = Bump(@),
                                    ![w].attempt = @ + 1]
            /\ UNCHANGED lock
    /\ UNCHANGED <<journal, queueVars, chainVars, budget>>

\* The row is deleted and the receipt's hash written to stdout.
Complete(w) ==
    /\ completed' = completed \cup {proc[w].job}
    /\ reported' = reported \cup {<<proc[w].job, proc[w].receipt>>}

\* Mutant: a receipt, of whatever transaction, is taken for success.
FinishUnchecked(w) ==
    /\ proc[w].pc = "mark"
    /\ Complete(w)
    /\ proc' = [proc EXCEPT ![w] = Idle]
    /\ UNCHANGED <<lock, journal, chainVars, budget>>

\* markMined (whose failure is only logged), then completeRequest - where the
\* worker checks, only of a receipt that did not revert and after a fresh
\* look at the request; otherwise the request goes back to the queue.
Finish(w) ==
    /\ proc[w].pc = "mark"
    /\ \/ journal' = [journal EXCEPT ![proc[w].receipt] =
                                IF @ = "none" THEN "none" ELSE "mined"]
       \/ UNCHANGED journal
    /\ IF ChecksFinal => mined[proc[w].receipt.nonce].ok /\ ReadsFinal(proc[w].job)
       THEN Complete(w) ELSE UNCHANGED queueVars
    /\ proc' = [proc EXCEPT ![w] = Idle]
    /\ UNCHANGED <<lock, chainVars, budget>>

-----------------------------------------------------------------------------
(* The environment *)

\* The process dies, or an RPC or database call throws; either way the lock's
\* session ends or unlocks and the request is taken up again later.
Fail(w) ==
    /\ proc[w].pc # "idle"
    /\ Throw(w)
    /\ Spend("fails")
    /\ UNCHANGED <<journal, queueVars, chainVars>>

\* The lock's database connection drops under a live worker.
LoseLock ==
    /\ lock # None
    /\ lock' = None
    /\ Spend("lost")
    /\ UNCHANGED <<journal, proc, queueVars, chainVars>>

\* The chain includes the next nonce; a request already final, or a spent
\* reservation, makes the transaction revert.
Mine(t) ==
    /\ t \in sent /\ t.nonce = Len(mined) + 1
    /\ \/ /\ mined' = Append(mined, [tx |-> t, ok |-> ~Final(t.job)])
          /\ UNCHANGED budget
       \/ /\ mined' = Append(mined, [tx |-> t, ok |-> FALSE])
          /\ Spend("reverts")
    /\ UNCHANGED <<lock, journal, proc, queueVars, sent, viewVars, pool>>

\* Another account expires the request, at any moment: blocks are not counted here.
FinaliseElsewhere(j) ==
    /\ ~Final(j)
    /\ elsewhere' = elsewhere \cup {[job |-> j, after |-> Len(mined)]}
    /\ Spend("elsewhere")
    /\ UNCHANGED <<lock, journal, proc, queueVars, sent, mined, seen, heard, pool>>

\* What others did on chain before the next transaction r has to see.
ElsewhereBefore(r) == {e \in elsewhere : e.after <= seen[r]}

\* r sees the chain on, up to the next transaction of the relayer.
Hear(r) ==
    /\ heard[r] # ElsewhereBefore(r)
    /\ heard' = [heard EXCEPT ![r] = ElsewhereBefore(r)]
    /\ UNCHANGED <<lock, journal, proc, queueVars, sent, mined, elsewhere, seen, pool, budget>>

\* r sees the next transaction of the relayer and what came before it.
CatchUp(r) ==
    /\ seen[r] < Len(mined)
    /\ seen' = [seen EXCEPT ![r] = @ + 1]
    /\ heard' = [heard EXCEPT ![r] = ElsewhereBefore(r)]
    /\ pool' = [pool EXCEPT ![r] = {t \in @ : t.nonce > seen[r] + 1}]
    /\ UNCHANGED <<lock, journal, proc, queueVars, sent, mined, elsewhere, budget>>

Forget(r, t) ==
    /\ t \in pool[r]
    /\ pool' = [pool EXCEPT ![r] = @ \ {t}]
    /\ Spend("forget")
    /\ UNCHANGED <<lock, journal, proc, queueVars, sent, mined, viewVars>>

Step(w) ==
    \/ ReadReceipts(w) \/ ReadKnown(w) \/ ReadLatest(w) \/ ChooseNonce(w)
    \/ AssertHeld(w) \/ RecordBroadcast(w) \/ Broadcast(w) \/ Receive(w) \/ Finish(w)

Begin(w) == \E j \in Jobs : SkipFinal(w, j) \/ TakeLock(w, j)

Next ==
    \/ \E w \in Workers : Begin(w) \/ Step(w) \/ Timeout(w) \/ Fail(w)
    \/ LoseLock
    \/ \E t \in Txs : Mine(t)
    \/ \E j \in Jobs : FinaliseElsewhere(j)
    \/ \E r \in Rpcs : Hear(r) \/ CatchUp(r) \/ (\E t \in Txs : Forget(r, t))

Spec == Init /\ [][Next]_vars

-----------------------------------------------------------------------------
(* Properties *)

\* The types, the limits on gas price and attempts included: no replacement
\* leaves the gas lane (sendWithReplacement).
TypeOK ==
    /\ lock \in Workers \cup {None}
    /\ journal \in [Txs -> JournalStatus]
    /\ proc \in [Workers -> [pc : Pcs, job : Jobs \cup {None}, nonce : 0..MaxNonce,
                             price : 0..MaxGasPrice, attempt : 0..MaxAttempts,
                             todo : SUBSET Txs, receipt : Txs \cup {None}]]
    /\ completed \subseteq Jobs
    /\ reported \subseteq completed \X Txs
    /\ sent \subseteq Txs
    /\ mined \in Seq([tx : Txs, ok : BOOLEAN])
    /\ elsewhere \subseteq [job : Jobs, after : 0..Len(mined)]
    /\ seen \in [Rpcs -> 0..Len(mined)]
    /\ heard \in [Rpcs -> SUBSET elsewhere]
    /\ pool \in [Rpcs -> SUBSET Txs]
    /\ budget \in [{"fails", "lost", "forget", "reverts", "elsewhere", "all"} -> Nat]

\* No transaction reaches a node before its hash is in the journal, whatever
\* crashes, thrown errors and lost lock connections come between: the order
\* of onBroadcast and broadcastTransaction in sendWithReplacement.
JournalFirst == \A t \in sent : journal[t] # "none"

\* With RPC endpoints that lag but do not forget, and a lock that is only
\* released, all the transactions ever broadcast for one nonce are for the
\* same request: no instance takes over a nonce another one's transaction
\* may still consume.  This is what the reconciliation and the pending-nonce
\* consensus are for.
NonceServesOneJob ==
    \A t, u \in sent : t.nonce = u.nonce => t.job = u.job

\* Under the same conditions, a request that is reported as fulfilled is
\* reported with a transaction of its own that was mined: the receipt of a
\* replacement that sendWithReplacement returns is never that of another
\* request, however many accounts and instances work on the two.
ReportedOwnTransaction ==
    \A x \in reported : x[2].job = x[1] /\ IsMined(x[2])

\* A request that left the queue is final on chain.
CompletedIsFinal == \A j \in completed : Final(j)

\* Fairness: timers fire and awaited calls answer (the steps of a worker),
\* a queued request is tried again until the lock is free, the chain
\* includes what it has, and lagging RPCs catch up.  Crashes, lost locks and
\* forgetful pools are never forced.
Fairness ==
    /\ \A w \in Workers : WF_vars(Step(w) \/ Timeout(w))
    /\ \A j \in Jobs : SF_vars(\E w \in Workers : SkipFinal(w, j) \/ TakeLock(w, j))
    /\ WF_vars(\E t \in Txs : Mine(t))
    /\ \A r \in Rpcs : WF_vars(Hear(r) \/ CatchUp(r))

FairSpec == Spec /\ Fairness

\* Every request is eventually final on chain and out of the queue, through
\* reverts, replaced and forgotten transactions, lost locks, another account's
\* expiry and RPC disagreement: neither the lock nor an unresolved journal row
\* blocks the relayer for ever.
EveryJobFinal == \A j \in Jobs : <>[](Final(j) /\ j \in completed)

=============================================================================
