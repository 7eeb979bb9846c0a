--------------------------- MODULE RelayerProofs ----------------------------
(***************************************************************************)
(* The relayer for any number of operator instances, RPC endpoints and     *)
(* requests, crashes and thrown errors.                                    *)
(*                                                                         *)
(* 1. No transaction reaches a node before its journal row.  JournalFirst  *)
(* is not inductive: Broadcast sends the transaction a worker has in hand, *)
(* so RelayerInv also says that a worker past recordBroadcast has its      *)
(* transaction journalled.                                                 *)
(*                                                                         *)
(* 2. Type correctness: RelayerInv and the types of what it leaves out.    *)
(*                                                                         *)
(* 3. One request per nonce, and reports that name the request's own       *)
(* mined transaction, where no lock connection is lost under a live        *)
(* worker and no pool forgets.  NonceInv adds what the argument turns on:  *)
(* the worker in the locked region has the lock, some endpoint knows of    *)
(* every nonce sent (so a nonce all of them call pending is fresh), and    *)
(* what was sent with the nonce in hand is for the request in hand.  What  *)
(* other accounts finalise in the meantime plays no part in it.            *)
(*                                                                         *)
(* 4. A worker that re-reads the request completes only final ones.        *)
(***************************************************************************)
EXTENDS RelayerNonce, TLAPS

Proc == [pc : Pcs, job : Jobs \cup {None}, nonce : 0..MaxNonce,
         price : 0..MaxGasPrice, attempt : 0..MaxAttempts,
         todo : SUBSET Txs, receipt : Txs \cup {None}]

InHand == {"sign", "journal", "check", "armed", "waiting"}
Journalled == {"check", "armed", "waiting"}

\* What holds of one worker: from the lock on it has a request, and from the
\* choice of the nonce on a transaction.
ProcOK(p) ==
    /\ p \in Proc
    /\ p.pc # "idle" => p.job \in Jobs
    /\ p.pc \in InHand => p.nonce \in 1..MaxNonce
    /\ p.pc = "mark" => p.receipt \in Txs

\* The inductive invariant.
RelayerInv ==
    /\ proc \in [Workers -> Proc]
    /\ \A w \in Workers : ProcOK(proc[w])
    /\ journal \in [Txs -> JournalStatus]
    /\ sent \subseteq Txs
    /\ mined \in Seq([tx : Txs, ok : BOOLEAN])
    /\ seen \in [Rpcs -> Nat] /\ \A r \in Rpcs : seen[r] <= Len(mined)
    /\ \A w \in Workers : proc[w].pc \in Journalled => journal[Tx(proc[w])] # "none"
    /\ JournalFirst

\* A worker with a transaction in hand holds a transaction of the model.
LEMMA InHandTx ==
    ASSUME NEW p, ProcOK(p), p.pc \in InHand
    PROVE  Tx(p) \in Txs
BY DEF ProcOK, Proc, Tx, Txs, InHand

\* How one worker's step keeps the invariant: its new state is sound, no
\* journal row vanishes, and what it has sent or is about to send has one.
LEMMA WorkerStep ==
    ASSUME RelayerInv, NEW w \in Workers, NEW p,
           proc' = [proc EXCEPT ![w] = p], ProcOK(p),
           journal' \in [Txs -> JournalStatus],
           \A t \in Txs : journal[t] # "none" => journal'[t] # "none",
           p.pc \in Journalled => journal'[Tx(p)] # "none",
           sent' \subseteq Txs, mined' = mined, seen' = seen,
           \A t \in sent' : t \in sent \/ journal'[t] # "none"
    PROVE  RelayerInv'
<1>1. proc' \in [Workers -> Proc] /\ \A v \in Workers : proc'[v] = IF v = w THEN p ELSE proc[v]
  BY DEF RelayerInv, ProcOK
<1>2. \A v \in Workers : ProcOK(proc'[v])
  BY <1>1 DEF RelayerInv
<1>3. \A v \in Workers : proc[v].pc \in Journalled => Tx(proc[v]) \in Txs
  BY InHandTx DEF RelayerInv, InHand, Journalled
<1>4. \A v \in Workers : proc'[v].pc \in Journalled => journal'[Tx(proc'[v])] # "none"
  BY <1>1, <1>3 DEF RelayerInv
<1>5. JournalFirst'
  BY DEF RelayerInv, JournalFirst
<1>6. /\ mined' \in Seq([tx : Txs, ok : BOOLEAN])
      /\ seen' \in [Rpcs -> Nat] /\ \A r \in Rpcs : seen'[r] <= Len(mined')
  BY DEF RelayerInv
<1>7. \A v \in Workers : proc'[v].pc \in Journalled => journal'[Tx(proc[v])'] # "none"
  BY <1>4 DEF Tx
<1>8. \A v \in Workers : ProcOK(proc[v])'
  BY <1>2 DEF ProcOK, Proc, Txs
<1> QED BY <1>1, <1>2, <1>5, <1>6, <1>7, <1>8 DEF RelayerInv, JournalStatus

\* A worker's step that leaves journal and chain alone.
LEMMA QuietStep ==
    ASSUME RelayerInv, NEW w \in Workers, NEW p,
           proc' = [proc EXCEPT ![w] = p], ProcOK(p),
           UNCHANGED <<journal, sent, mined, seen>>,
           p.pc \in Journalled => journal[Tx(p)] # "none"
    PROVE  RelayerInv'
<1>1. journal' \in [Txs -> JournalStatus] /\ sent' \subseteq Txs
  BY DEF RelayerInv
<1> QED BY <1>1, WorkerStep

\* An idle worker is sound.
LEMMA IdleOK == ProcOK(Idle) /\ Idle.pc \notin Journalled
<1>1. 0 \in 0..MaxNonce /\ 0 \in 0..MaxGasPrice /\ 0 \in 0..MaxAttempts
  BY NonceAssumption
<1> QED BY <1>1 DEF ProcOK, Idle, Proc, Pcs, InHand, Journalled

\* A step that ends in an error.
LEMMA ThrowStep ==
    ASSUME RelayerInv, NEW w \in Workers, Throw(w), UNCHANGED <<journal, sent, mined, seen>>
    PROVE  RelayerInv'
BY IdleOK, QuietStep DEF Throw

\* Moving a worker's program counter changes nothing else of it.
LEMMA GotoFields ==
    ASSUME NEW p \in Proc, NEW pc \in Pcs
    PROVE  LET q == [p EXCEPT !.pc = pc]
           IN  /\ q \in Proc /\ q.pc = pc /\ q.job = p.job /\ q.nonce = p.nonce
               /\ q.receipt = p.receipt /\ Tx(q) = Tx(p)
BY DEF Proc, Tx

\* A step that goes on with the transaction in hand.
LEMMA GotoStep ==
    ASSUME RelayerInv, NEW w \in Workers, NEW pc \in Pcs, Goto(w, pc),
           proc[w].pc \notin {"idle", "mark"}, pc # "mark",
           pc \in InHand => proc[w].pc \in InHand,
           pc \in Journalled => journal[Tx(proc[w])] # "none",
           UNCHANGED <<journal, sent, mined, seen>>
    PROVE  RelayerInv'
<1> DEFINE q == [proc[w] EXCEPT !.pc = pc]
<1>1. proc[w] \in Proc /\ ProcOK(proc[w])
  BY DEF RelayerInv
<1>2. /\ q \in Proc /\ q.pc = pc /\ q.job = proc[w].job /\ q.nonce = proc[w].nonce
      /\ q.receipt = proc[w].receipt /\ Tx(q) = Tx(proc[w])
  BY <1>1, GotoFields
<1>3. proc' = [proc EXCEPT ![w] = q]
  BY DEF Goto
<1> HIDE DEF q
<1>4. ProcOK(q)
  BY <1>1, <1>2 DEF ProcOK
<1> QED BY <1>2, <1>3, <1>4, QuietStep

\* resolveNonce changes the status of rows and removes none.
LEMMA ResolveStep ==
    ASSUME RelayerInv, NEW w \in Workers, NEW status \in JournalStatus \ {"none"},
           NEW M, proc[w].pc \in {"receipts", "latest"}, ResolveNonce(w, status, M),
           UNCHANGED <<sent, mined, seen>>
    PROVE  RelayerInv'
<1> DEFINE q == [proc[w] EXCEPT !.pc = "receipts", !.todo = @ \ CurrentTxs(w)]
<1>1. proc[w] \in Proc /\ ProcOK(proc[w])
  BY DEF RelayerInv
<1>2. proc' = [proc EXCEPT ![w] = q]
  BY DEF ResolveNonce
<1>3. q \in Proc /\ q.pc = "receipts" /\ q.job = proc[w].job
  BY <1>1 DEF Proc, Pcs
<1>4. ProcOK(q) /\ q.pc \notin Journalled
  BY <1>1, <1>3 DEF ProcOK, InHand, Journalled
<1>5. journal' = [t \in Txs |-> IF t \in M THEN "mined"
            ELSE IF t.nonce = CurrentNonce(w) /\ journal[t] = "broadcast" THEN status
            ELSE journal[t]]
  BY DEF ResolveNonce
<1> HIDE DEF q
<1>6. /\ journal' \in [Txs -> JournalStatus]
      /\ \A t \in Txs : journal[t] # "none" => journal'[t] # "none"
  BY <1>5 DEF RelayerInv, JournalStatus
<1>7. sent' \subseteq Txs
  BY DEF RelayerInv
<1> QED BY <1>2, <1>4, <1>6, <1>7, WorkerStep

-----------------------------------------------------------------------------
(* One lemma per action *)

\* Taking the lock puts a request, and no transaction, in the worker's hands.
LEMMA TakeLockStep ==
    ASSUME RelayerInv, NEW w \in Workers, NEW j \in Jobs, TakeLock(w, j)
    PROVE  RelayerInv'
<1> DEFINE T == {t \in Txs : journal[t] = "broadcast"}
           q == [Idle EXCEPT !.pc = "receipts", !.job = j, !.todo = T]
<1>1. proc' = [proc EXCEPT ![w] = q] /\ UNCHANGED <<journal, sent, mined, seen>>
  BY DEF TakeLock, chainVars, viewVars
<1>2. Idle \in Proc /\ T \in SUBSET Txs
  BY IdleOK DEF ProcOK
<1> HIDE DEF T
<1>3. q \in Proc /\ q.pc = "receipts" /\ q.job = j
  BY <1>2 DEF Proc, Pcs
<1> HIDE DEF q
<1>4. ProcOK(q) /\ q.pc \notin Journalled
  BY <1>3 DEF ProcOK, InHand, Journalled
<1> QED BY <1>1, <1>4, QuietStep

\* The three steps of the reconciliation.
LEMMA ReconcileStep ==
    ASSUME RelayerInv, NEW w \in Workers,
           ReadReceipts(w) \/ ReadKnown(w) \/ ReadLatest(w)
    PROVE  RelayerInv'
<1>1. UNCHANGED <<sent, mined, seen>>
  BY DEF ReadReceipts, ReadKnown, ReadLatest, chainVars, viewVars
<1>2. proc[w].pc \in {"receipts", "known", "latest"}
  BY DEF ReadReceipts, ReadKnown, ReadLatest
<1>3. /\ "replaced" \in JournalStatus \ {"none"} /\ "consumed" \in JournalStatus \ {"none"}
      /\ "dropped" \in JournalStatus \ {"none"} /\ {"known", "latest"} \subseteq Pcs
      /\ {"known", "latest"} \cap InHand = {} /\ Journalled \subseteq InHand
  BY DEF JournalStatus, Pcs, InHand, Journalled
<1>4. CASE ReadReceipts(w)
  <2>1. proc[w].pc = "receipts"
    BY <1>4 DEF ReadReceipts
  <2>2. \/ Goto(w, "known") /\ UNCHANGED journal
        \/ \E M : ResolveNonce(w, "replaced", M)
        \/ Throw(w) /\ UNCHANGED journal
    BY <1>4 DEF ReadReceipts
  <2> QED BY <1>1, <1>3, <2>1, <2>2, GotoStep, ResolveStep, ThrowStep
<1>5. CASE ReadKnown(w)
  <2>1. UNCHANGED journal /\ (Throw(w) \/ Goto(w, "latest"))
    BY <1>5 DEF ReadKnown
  <2> QED BY <1>1, <1>2, <1>3, <2>1, GotoStep, ThrowStep
<1>6. CASE ReadLatest(w)
  <2>1. proc[w].pc = "latest"
    BY <1>6 DEF ReadLatest
  <2>2. \/ ResolveNonce(w, "consumed", {}) \/ ResolveNonce(w, "dropped", {})
        \/ Throw(w) /\ UNCHANGED journal
    BY <1>6 DEF ReadLatest
  <2> QED BY <1>1, <1>3, <2>1, <2>2, ResolveStep, ThrowStep
<1> QED BY <1>4, <1>5, <1>6

\* The chosen nonce and price make a transaction of the model.
LEMMA ChooseNonceStep ==
    ASSUME RelayerInv, NEW w \in Workers, ChooseNonce(w)
    PROVE  RelayerInv'
<1>1. UNCHANGED <<journal, sent, mined, seen>> /\ proc[w].pc = "receipts"
  BY DEF ChooseNonce, chainVars, viewVars
<1>2. CASE Throw(w)
  BY <1>1, <1>2, ThrowStep
<1>3. ASSUME NEW n \in ConsensusNonces, NEW p \in Prices, p <= MaxGasPrice,
             proc' = [proc EXCEPT ![w].pc = "sign", ![w].nonce = n,
                                  ![w].price = p, ![w].attempt = 1]
      PROVE  RelayerInv'
  <2> DEFINE q == [proc[w] EXCEPT !.pc = "sign", !.nonce = n, !.price = p, !.attempt = 1]
  <2>1. proc[w] \in Proc /\ proc[w].job \in Jobs
    BY <1>1 DEF RelayerInv, ProcOK
  <2>2. n \in 1..MaxNonce /\ n \in 0..MaxNonce /\ p \in 0..MaxGasPrice /\ 1 \in 0..MaxAttempts
    BY <1>3, NonceAssumption DEF ConsensusNonces
  <2>3. proc' = [proc EXCEPT ![w] = q]
    BY <1>3
  <2>4. q \in Proc /\ q.pc = "sign" /\ q.nonce = n /\ q.job = proc[w].job
    BY <2>1, <2>2 DEF Proc, Pcs
  <2> HIDE DEF q
  <2>5. ProcOK(q) /\ q.pc \notin Journalled
    BY <2>1, <2>2, <2>4 DEF ProcOK, Journalled
  <2> QED BY <1>1, <2>3, <2>5, QuietStep
<1>4. \/ Throw(w)
      \/ \E n \in ConsensusNonces, p \in Prices :
            p <= MaxGasPrice /\ proc' = [proc EXCEPT ![w].pc = "sign", ![w].nonce = n,
                                             ![w].price = p, ![w].attempt = 1]
  BY DEF ChooseNonce
<1> QED BY <1>2, <1>3, <1>4

\* assertLease: the second check comes after the journal row.
LEMMA AssertHeldStep ==
    ASSUME RelayerInv, NEW w \in Workers, AssertHeld(w)
    PROVE  RelayerInv'
<1>1. UNCHANGED <<journal, sent, mined, seen>> /\ proc[w].pc \in {"sign", "check"}
  BY DEF AssertHeld, chainVars, viewVars
<1>2. CASE Throw(w)
  BY <1>1, <1>2, ThrowStep
<1>3. CASE proc[w].pc = "sign" /\ Goto(w, "journal")
  BY <1>1, <1>3, GotoStep DEF InHand, Journalled, Pcs
<1>4. CASE proc[w].pc = "check" /\ Goto(w, "armed")
  <2>1. journal[Tx(proc[w])] # "none"
    BY <1>4 DEF RelayerInv, Journalled
  <2> QED BY <1>1, <1>4, <2>1, GotoStep DEF InHand, Pcs
<1> QED BY <1>1, <1>2, <1>3, <1>4 DEF AssertHeld

\* recordBroadcast makes the row of the transaction in hand.
LEMMA RecordBroadcastStep ==
    ASSUME RelayerInv, NEW w \in Workers, RecordBroadcast(w)
    PROVE  RelayerInv'
<1> DEFINE q == [proc[w] EXCEPT !.pc = "check"]
           u == Tx(proc[w])
<1>1. proc[w].pc = "journal" /\ UNCHANGED <<sent, mined, seen>>
  BY DEF RecordBroadcast, chainVars, viewVars
<1>2. proc[w] \in Proc /\ ProcOK(proc[w]) /\ sent' \subseteq Txs
      /\ journal \in [Txs -> JournalStatus]
  BY <1>1 DEF RelayerInv
<1>3. u \in Txs
  BY <1>1, <1>2, InHandTx DEF InHand
<1>4. /\ q \in Proc /\ q.pc = "check" /\ q.job = proc[w].job /\ q.nonce = proc[w].nonce
      /\ Tx(q) = u
  BY <1>2, GotoFields DEF Pcs
<1>5. /\ proc' = [proc EXCEPT ![w] = q]
      /\ journal' = [journal EXCEPT ![u] = IF @ = "none" THEN "broadcast" ELSE @]
  BY DEF RecordBroadcast, Goto
<1> HIDE DEF q, u
<1>6. /\ journal' \in [Txs -> JournalStatus] /\ journal'[u] # "none"
      /\ \A t \in Txs : journal[t] # "none" => journal'[t] # "none"
  BY <1>2, <1>3, <1>5 DEF JournalStatus
<1>7. ProcOK(q)
  BY <1>1, <1>2, <1>4 DEF ProcOK, InHand
<1> QED BY <1>1, <1>2, <1>4, <1>5, <1>6, <1>7, WorkerStep

\* broadcastTransaction sends the transaction in hand, which has its row.
LEMMA BroadcastStep ==
    ASSUME RelayerInv, NEW w \in Workers, Broadcast(w)
    PROVE  RelayerInv'
<1> DEFINE q == [proc[w] EXCEPT !.pc = "waiting"]
           u == Tx(proc[w])
<1>1. proc[w].pc = "armed" /\ UNCHANGED <<journal, mined, seen>>
  BY DEF Broadcast, viewVars
<1>2. /\ proc[w] \in Proc /\ ProcOK(proc[w]) /\ sent \subseteq Txs
      /\ journal \in [Txs -> JournalStatus] /\ journal[u] # "none"
  BY <1>1 DEF RelayerInv, Journalled
<1>3. u \in Txs
  BY <1>1, <1>2, InHandTx DEF InHand
<1>4. /\ q \in Proc /\ q.pc = "waiting" /\ q.job = proc[w].job /\ q.nonce = proc[w].nonce
      /\ Tx(q) = u
  BY <1>2, GotoFields DEF Pcs
<1>5. CASE Throw(w) /\ UNCHANGED sent
  BY <1>1, <1>5, ThrowStep
<1>6. CASE Goto(w, "waiting") /\ sent' = sent \cup {u}
  <2>1. proc' = [proc EXCEPT ![w] = q]
    BY <1>6 DEF Goto
  <2> HIDE DEF q, u
  <2>2. ProcOK(q)
    BY <1>1, <1>2, <1>4 DEF ProcOK, InHand
  <2>3. sent' \subseteq Txs /\ \A t \in sent' : t \in sent \/ journal'[t] # "none"
    BY <1>1, <1>2, <1>3, <1>6
  <2> QED BY <1>1, <1>2, <1>4, <2>1, <2>2, <2>3, WorkerStep
<1> QED BY <1>5, <1>6 DEF Broadcast

\* The receipt of wait() belongs to some transaction of the model, its own or
\* the one that took the nonce.
LEMMA ReceiveStep ==
    ASSUME RelayerInv, NEW w \in Workers, Receive(w)
    PROVE  RelayerInv'
<1>1. proc[w].pc = "waiting" /\ UNCHANGED <<journal, sent, mined, seen>>
  BY DEF Receive, chainVars, viewVars
<1>2. /\ proc[w] \in Proc /\ proc[w].nonce \in 1..MaxNonce
      /\ mined \in Seq([tx : Txs, ok : BOOLEAN])
      /\ seen \in [Rpcs -> Nat] /\ \A r \in Rpcs : seen[r] <= Len(mined)
  BY <1>1 DEF RelayerInv, ProcOK, InHand
<1>3. PICK r \in Rpcs :
        /\ seen[r] >= proc[w].nonce
        /\ \/ Throw(w)
           \/ proc' = [proc EXCEPT ![w].pc = "mark", ![w].receipt = mined[proc[w].nonce].tx]
  BY DEF Receive
<1>4. proc[w].nonce \in 1..Len(mined)
  <2>1. seen[r] \in Nat /\ seen[r] <= Len(mined) /\ Len(mined) \in Nat
    BY <1>2
  <2>2. proc[w].nonce \in Nat /\ proc[w].nonce >= 1
    BY <1>2, NonceAssumption
  <2>3. seen[r] >= proc[w].nonce
    BY <1>3
  <2> QED BY <2>1, <2>2, <2>3
<1>5. mined[proc[w].nonce].tx \in Txs
  <2>1. \A S : \A s \in Seq(S) : \A n \in 1..Len(s) : s[n] \in S
    OBVIOUS
  <2>2. mined[proc[w].nonce] \in [tx : Txs, ok : BOOLEAN]
    BY <1>2, <1>4, <2>1
  <2> QED BY <2>2
<1>6. CASE Throw(w)
  BY <1>1, <1>6, ThrowStep
<1>7. ASSUME NEW u \in Txs, proc' = [proc EXCEPT ![w].pc = "mark", ![w].receipt = u]
      PROVE  RelayerInv'
  <2> DEFINE q == [proc[w] EXCEPT !.pc = "mark", !.receipt = u]
  <2>1. proc' = [proc EXCEPT ![w] = q]
    BY <1>7
  <2>2. q \in Proc /\ q.pc = "mark" /\ q.receipt = u /\ q.job = proc[w].job
    BY <1>2 DEF Proc, Pcs
  <2> HIDE DEF q
  <2>3. ProcOK(q) /\ q.pc \notin Journalled
    BY <1>1, <2>2 DEF RelayerInv, ProcOK, InHand, Journalled
  <2> QED BY <1>1, <2>1, <2>3, QuietStep
<1> QED BY <1>3, <1>5, <1>6, <1>7

\* A replacement stays within the gas lane and goes back to be signed.
LEMMA TimeoutStep ==
    ASSUME RelayerInv, NEW w \in Workers, Timeout(w)
    PROVE  RelayerInv'
<1>1. proc[w].pc = "waiting" /\ UNCHANGED <<journal, sent, mined, seen>>
  BY DEF Timeout, chainVars, viewVars
<1>2. CASE Throw(w)
  BY <1>1, <1>2, ThrowStep
<1>3. CASE ~Throw(w)
  <2> DEFINE b == Bump(proc[w].price)
             a == proc[w].attempt + 1
             q == [proc[w] EXCEPT !.pc = "sign", !.price = b, !.attempt = a]
  <2>1. /\ proc[w] \in Proc /\ proc[w].nonce \in 1..MaxNonce /\ proc[w].job \in Jobs
        /\ proc[w].price \in 0..MaxGasPrice /\ proc[w].attempt \in 0..MaxAttempts
    BY <1>1 DEF RelayerInv, ProcOK, InHand, Proc
  <2>2. /\ proc' = [proc EXCEPT ![w].pc = "sign", ![w].price = Bump(@), ![w].attempt = @ + 1]
        /\ ~(Bump(proc[w].price) > MaxGasPrice) /\ proc[w].attempt # MaxAttempts
    BY <1>3 DEF Timeout
  <2>3. proc' = [proc EXCEPT ![w] = q]
    BY <2>2 DEF Bump
  <2>4. b \in 0..MaxGasPrice
    <3>1. ~(b > MaxGasPrice) /\ proc[w].price \in Nat /\ MaxGasPrice \in Nat
      BY <2>1, <2>2, NonceAssumption
    <3> QED BY <3>1 DEF Bump
  <2>5. a \in 0..MaxAttempts
    BY <2>1, <2>2, NonceAssumption
  <2> HIDE DEF a, b
  <2>6. q \in Proc /\ q.pc = "sign" /\ q.nonce = proc[w].nonce /\ q.job = proc[w].job
    BY <2>1, <2>4, <2>5 DEF Proc, Pcs
  <2> HIDE DEF q
  <2>7. ProcOK(q) /\ q.pc \notin Journalled
    BY <2>1, <2>6 DEF ProcOK, Journalled
  <2> QED BY <1>1, <2>3, <2>7, QuietStep
<1> QED BY <1>2, <1>3

\* markMined only changes a row that is there.
LEMMA FinishStep ==
    ASSUME RelayerInv, NEW w \in Workers, Finish(w)
    PROVE  RelayerInv'
<1>1. /\ proc[w].pc = "mark" /\ UNCHANGED <<sent, mined, seen>>
      /\ proc' = [proc EXCEPT ![w] = Idle]
  BY DEF Finish, chainVars, viewVars
<1>2. sent \subseteq Txs /\ journal \in [Txs -> JournalStatus] /\ proc[w].receipt \in Txs
  BY <1>1 DEF RelayerInv, ProcOK
<1>3. \/ journal' = [journal EXCEPT ![proc[w].receipt] = IF @ = "none" THEN "none" ELSE "mined"]
      \/ journal' = journal
  BY DEF Finish
<1>4. /\ journal' \in [Txs -> JournalStatus]
      /\ \A t \in Txs : journal[t] # "none" => journal'[t] # "none"
  BY <1>2, <1>3 DEF JournalStatus
<1> QED BY <1>1, <1>2, <1>4, IdleOK, WorkerStep

\* The chain and the endpoints change nothing the workers rely on: the chain
\* grows by transactions that were sent, and an endpoint sees no further
\* than its end.
LEMMA EnvironmentStep ==
    ASSUME RelayerInv, UNCHANGED <<journal, proc, sent>>,
           mined' \in Seq([tx : Txs, ok : BOOLEAN]),
           seen' \in [Rpcs -> Nat], \A r \in Rpcs : seen'[r] <= Len(mined')
    PROVE  RelayerInv'
<1>1. /\ proc' \in [Workers -> Proc] /\ journal' \in [Txs -> JournalStatus]
      /\ sent' \subseteq Txs /\ JournalFirst'
  BY DEF RelayerInv, JournalFirst
<1>2. \A v \in Workers : ProcOK(proc[v])'
  BY DEF RelayerInv, ProcOK, Proc, Txs
<1>3. \A v \in Workers : proc'[v].pc \in Journalled => journal'[Tx(proc[v])'] # "none"
  BY DEF RelayerInv, Tx
<1> QED BY <1>1, <1>2, <1>3 DEF RelayerInv, JournalStatus

LEMMA MineStep ==
    ASSUME RelayerInv, NEW t \in Txs, Mine(t)
    PROVE  RelayerInv'
<1>1. UNCHANGED <<journal, proc, sent, seen>>
  BY DEF Mine, viewVars
<1>2. /\ mined \in Seq([tx : Txs, ok : BOOLEAN]) /\ seen \in [Rpcs -> Nat]
      /\ \A r \in Rpcs : seen[r] <= Len(mined)
  BY DEF RelayerInv
<1>3. \E ok \in BOOLEAN : mined' = Append(mined, [tx |-> t, ok |-> ok])
  BY DEF Mine, Final
<1>4. PICK m \in [tx : Txs, ok : BOOLEAN] : mined' = Append(mined, m)
  BY <1>3
<1>5. mined' \in Seq([tx : Txs, ok : BOOLEAN]) /\ Len(mined') = Len(mined) + 1
  BY <1>2, <1>4
<1>6. seen' \in [Rpcs -> Nat] /\ \A r \in Rpcs : seen'[r] <= Len(mined')
  <2>1. Len(mined) \in Nat
    BY <1>2
  <2> QED BY <1>1, <1>2, <1>5, <2>1
<1> QED BY <1>1, <1>5, <1>6, EnvironmentStep

LEMMA CatchUpStep ==
    ASSUME RelayerInv, NEW r \in Rpcs, CatchUp(r)
    PROVE  RelayerInv'
<1>1. UNCHANGED <<journal, proc, sent, mined>>
  BY DEF CatchUp
<1>2. /\ mined \in Seq([tx : Txs, ok : BOOLEAN]) /\ seen \in [Rpcs -> Nat]
      /\ \A x \in Rpcs : seen[x] <= Len(mined)
  BY DEF RelayerInv
<1>3. seen[r] < Len(mined) /\ seen' = [seen EXCEPT ![r] = @ + 1]
  BY DEF CatchUp
<1>4. seen' \in [Rpcs -> Nat] /\ \A x \in Rpcs : seen'[x] <= Len(mined')
  <2>1. Len(mined) \in Nat
    BY <1>2
  <2> QED BY <1>1, <1>2, <1>3, <2>1
<1> QED BY <1>1, <1>2, <1>4, EnvironmentStep

\* Steps that touch neither the journal nor what was sent.
LEMMA IdleStep ==
    ASSUME RelayerInv, UNCHANGED <<journal, proc, sent, mined, seen>>
    PROVE  RelayerInv'
<1>1. /\ mined' \in Seq([tx : Txs, ok : BOOLEAN]) /\ seen' \in [Rpcs -> Nat]
      /\ \A x \in Rpcs : seen'[x] <= Len(mined')
  BY DEF RelayerInv
<1> QED BY <1>1, EnvironmentStep

-----------------------------------------------------------------------------
(* The theorems *)

LEMMA RelayerInit == Init => RelayerInv
<1> SUFFICES ASSUME Init PROVE RelayerInv
  OBVIOUS
<1>1. proc = [w \in Workers |-> Idle] /\ proc \in [Workers -> Proc]
  BY IdleOK DEF Init, ProcOK
<1>2. \A w \in Workers : ProcOK(proc[w]) /\ proc[w].pc \notin Journalled
  BY <1>1, IdleOK
<1>3. journal \in [Txs -> JournalStatus] /\ sent \subseteq Txs /\ JournalFirst
  BY DEF Init, JournalStatus, JournalFirst
<1>4. mined \in Seq([tx : Txs, ok : BOOLEAN]) /\ Len(mined) = 0
  BY DEF Init
<1>5. seen \in [Rpcs -> Nat] /\ \A r \in Rpcs : seen[r] <= Len(mined)
  BY <1>4 DEF Init
<1> QED BY <1>1, <1>2, <1>3, <1>4, <1>5 DEF RelayerInv

LEMMA RelayerStep == RelayerInv /\ [Next]_vars => RelayerInv'
<1> SUFFICES ASSUME RelayerInv, [Next]_vars PROVE RelayerInv'
  OBVIOUS
<1>1. CASE UNCHANGED vars
  BY <1>1, IdleStep DEF vars
<1>2. ASSUME NEW w \in Workers, NEW j \in Jobs, SkipFinal(w, j)
      PROVE  RelayerInv'
  BY <1>2, IdleStep DEF SkipFinal, chainVars, viewVars
<1>3. ASSUME NEW w \in Workers, NEW j \in Jobs, TakeLock(w, j)
      PROVE  RelayerInv'
  BY <1>3, TakeLockStep
<1>4. ASSUME NEW w \in Workers, Step(w)
      PROVE  RelayerInv'
  BY <1>4, ReconcileStep, ChooseNonceStep, AssertHeldStep, RecordBroadcastStep,
     BroadcastStep, ReceiveStep, FinishStep DEF Step
<1>5. ASSUME NEW w \in Workers, Timeout(w)
      PROVE  RelayerInv'
  BY <1>5, TimeoutStep
<1>6. ASSUME NEW w \in Workers, Fail(w)
      PROVE  RelayerInv'
  BY <1>6, ThrowStep DEF Fail, chainVars, viewVars
<1>7. CASE LoseLock
  BY <1>7, IdleStep DEF LoseLock, chainVars, viewVars
<1>8. ASSUME NEW t \in Txs, Mine(t)
      PROVE  RelayerInv'
  BY <1>8, MineStep
<1>9. ASSUME NEW r \in Rpcs, CatchUp(r)
      PROVE  RelayerInv'
  BY <1>9, CatchUpStep
<1>10. ASSUME NEW r \in Rpcs, NEW t \in Txs, Forget(r, t)
       PROVE  RelayerInv'
  BY <1>10, IdleStep DEF Forget, viewVars
<1>11. ASSUME NEW j \in Jobs, FinaliseElsewhere(j)
       PROVE  RelayerInv'
  BY <1>11, IdleStep DEF FinaliseElsewhere
<1>12. ASSUME NEW r \in Rpcs, Hear(r)
       PROVE  RelayerInv'
  BY <1>12, IdleStep DEF Hear
<1> QED BY <1>1, <1>2, <1>3, <1>4, <1>5, <1>6, <1>7, <1>8, <1>9, <1>10, <1>11, <1>12
        DEF Next, Begin

\* Every reachable state satisfies the inductive invariant.
THEOREM RelayerInvariant == Spec => []RelayerInv
BY RelayerInit, RelayerStep, PTL DEF Spec

\* No transaction of the relayer reaches a node before recordBroadcast has put
\* its hash in vrf_operator_transactions, for any number of instances,
\* endpoints and failures.
THEOREM RelayerJournalFirst == Spec => []JournalFirst
<1>1. RelayerInv => JournalFirst
  BY DEF RelayerInv
<1> QED BY <1>1, RelayerInvariant, PTL

-----------------------------------------------------------------------------
(* Type correctness *)

\* What RelayerInv leaves untyped.
Counts == {"fails", "lost", "forget", "reverts", "elsewhere"}
Budgets == [Counts \cup {"all"} -> Nat]

RestTyped ==
    /\ lock \in Workers \cup {None} /\ completed \subseteq Jobs
    /\ pool \in [Rpcs -> SUBSET Txs] /\ budget \in Budgets
    /\ reported \subseteq completed \X Txs
    /\ elsewhere \subseteq [job : Jobs, after : 0..Len(mined)]
    /\ heard \in [Rpcs -> SUBSET elsewhere]

LEMMA SpendType ==
    ASSUME RestTyped, NEW what \in Counts, Spend(what)
    PROVE  /\ budget' \in Budgets /\ budget[what] > 0
           /\ \A x \in Counts \ {what} : budget'[x] = budget[x]
<1>1. budget[what] \in Nat /\ budget["all"] \in Nat /\ what # "all"
  BY DEF RestTyped, Budgets, Counts
<1>2. /\ budget[what] > 0 /\ budget["all"] > 0
      /\ budget' = [[budget EXCEPT ![what] = budget[what] - 1] EXCEPT !["all"] = budget["all"] - 1]
  BY <1>1 DEF Spend, RestTyped, Budgets, Counts
<1>3. budget[what] - 1 \in Nat /\ budget["all"] - 1 \in Nat
  BY <1>1, <1>2
<1> QED BY <1>1, <1>2, <1>3 DEF RestTyped, Budgets, Counts

\* Every step of a worker takes, keeps or gives back its own lock.
LEMMA WorkerTypes ==
    ASSUME RelayerInv, RestTyped, NEW w \in Workers,
           \/ \E j \in Jobs : SkipFinal(w, j) \/ TakeLock(w, j)
           \/ Step(w) \/ Timeout(w) \/ Fail(w)
    PROVE  RestTyped'
<1>1. lock' \in Workers \cup {None}
  BY DEF RestTyped, SkipFinal, TakeLock, Step, Timeout, Fail, ReadReceipts, ReadKnown, ReadLatest,
         ChooseNonce, AssertHeld, RecordBroadcast, Broadcast, Receive, Finish, ResolveNonce,
         Throw, Unlock
<1>2. completed' \subseteq Jobs /\ reported' \subseteq completed' \X Txs
  <2>1. CASE Finish(w)
    <3>1. proc[w].job \in Jobs /\ proc[w].receipt \in Txs
      BY <2>1 DEF Finish, RelayerInv, ProcOK
    <3>2. Complete(w) \/ UNCHANGED <<completed, reported>>
      BY <2>1 DEF Finish, queueVars
    <3> QED BY <3>1, <3>2 DEF Complete, RestTyped
  <2>2. CASE \E j \in Jobs : SkipFinal(w, j)
    BY <2>2 DEF SkipFinal, RestTyped
  <2>3. CASE UNCHANGED <<completed, reported>>
    BY <2>3 DEF RestTyped
  <2> QED BY <2>1, <2>2, <2>3 DEF TakeLock, Step, Timeout, Fail, ReadReceipts, ReadKnown, ReadLatest,
         ChooseNonce, AssertHeld, RecordBroadcast, Broadcast, Receive, queueVars
<1>3. pool' \in [Rpcs -> SUBSET Txs]
  <2>1. CASE Broadcast(w)
    <3>1. CASE UNCHANGED pool
      BY <3>1 DEF RestTyped
    <3>2. CASE ~UNCHANGED pool
      <4>1. Tx(proc[w]) \in Txs
        BY <2>1, InHandTx DEF Broadcast, RelayerInv, InHand
      <4>2. PICK t \in Txs : t = Tx(proc[w])
        BY <4>1
      <4>3. \E R \in SUBSET Rpcs : pool' = [r \in Rpcs |-> IF r \in R
                        THEN {u \in pool[r] : u.nonce # t.nonce} \cup {t} ELSE pool[r]]
        BY <2>1, <3>2, <4>2 DEF Broadcast
      <4> QED BY <4>3 DEF RestTyped
    <3> QED BY <3>1, <3>2
  <2>2. CASE pool' = pool
    BY <2>2 DEF RestTyped
  <2> QED BY <2>1, <2>2 DEF SkipFinal, TakeLock, Step, Timeout, Fail, ReadReceipts, ReadKnown,
         ReadLatest, ChooseNonce, AssertHeld, RecordBroadcast, Receive, Finish, chainVars, viewVars
<1>4. budget' \in Budgets
  <2>1. CASE Fail(w)
    BY <2>1, SpendType DEF Fail, Counts
  <2>2. CASE budget' = budget
    BY <2>2 DEF RestTyped
  <2> QED BY <2>1, <2>2 DEF SkipFinal, TakeLock, Step, Timeout, ReadReceipts, ReadKnown,
         ReadLatest, ChooseNonce, AssertHeld, RecordBroadcast, Broadcast, Receive, Finish
<1>5. UNCHANGED <<mined, elsewhere, heard>>
  BY DEF SkipFinal, TakeLock, Step, Timeout, Fail, ReadReceipts, ReadKnown, ReadLatest,
         ChooseNonce, AssertHeld, RecordBroadcast, Broadcast, Receive, Finish, chainVars, viewVars
<1> QED BY <1>1, <1>2, <1>3, <1>4, <1>5 DEF RestTyped

\* The chain takes the next nonce of a transaction.
LEMMA MinedGrows ==
    ASSUME RelayerInv, NEW t \in Txs, Mine(t)
    PROVE  /\ Len(mined) \in Nat /\ Len(mined') = Len(mined) + 1
           /\ DOMAIN mined = 1..Len(mined) /\ DOMAIN mined' = 1..Len(mined')
           /\ \A n \in 1..Len(mined) : mined'[n] = mined[n]
           /\ mined'[Len(mined')].tx = t
<1>1. mined \in Seq([tx : Txs, ok : BOOLEAN])
  BY DEF RelayerInv
<1>2. PICK ok \in BOOLEAN : mined' = Append(mined, [tx |-> t, ok |-> ok])
  BY DEF Mine, Final
<1>3. PICK m \in [tx : Txs, ok : BOOLEAN] : m.tx = t /\ mined' = Append(mined, m)
  BY <1>2
<1> QED BY <1>1, <1>3

\* What an endpoint hears of is part of what happened.
LEMMA HeardType ==
    ASSUME RestTyped, NEW r \in Rpcs, UNCHANGED elsewhere,
           heard' = [heard EXCEPT ![r] = ElsewhereBefore(r)]
    PROVE  heard' \in [Rpcs -> SUBSET elsewhere']
BY DEF RestTyped, ElsewhereBefore

LEMMA RestStep == RelayerInv /\ RestTyped /\ [Next]_vars => RestTyped'
<1> SUFFICES ASSUME RelayerInv, RestTyped, [Next]_vars PROVE RestTyped'
  OBVIOUS
<1>1. CASE UNCHANGED vars
  BY <1>1 DEF RestTyped, vars
<1>2. ASSUME NEW w \in Workers, Begin(w) \/ Step(w) \/ Timeout(w) \/ Fail(w) PROVE RestTyped'
  BY <1>2, WorkerTypes DEF Begin
<1>3. CASE LoseLock
  BY <1>3, SpendType DEF LoseLock, RestTyped, chainVars, viewVars, queueVars, Counts
<1>4. ASSUME NEW t \in Txs, Mine(t) PROVE RestTyped'
  <2>1. budget' \in Budgets
    BY <1>4, SpendType DEF Mine, RestTyped, Counts
  <2>2. 0..Len(mined) \subseteq 0..Len(mined')
    BY <1>4, MinedGrows
  <2>3. elsewhere' \subseteq [job : Jobs, after : 0..Len(mined')]
    BY <1>4, <2>2 DEF Mine, RestTyped, viewVars
  <2> QED BY <1>4, <2>1, <2>3 DEF Mine, RestTyped, viewVars, queueVars
<1>5. ASSUME NEW r \in Rpcs, CatchUp(r) PROVE RestTyped'
  <2>1. heard' \in [Rpcs -> SUBSET elsewhere']
    BY <1>5, HeardType DEF CatchUp
  <2> QED BY <1>5, <2>1 DEF CatchUp, RestTyped, queueVars
<1>6. ASSUME NEW r \in Rpcs, NEW t \in Txs, Forget(r, t) PROVE RestTyped'
  <2>1. budget' \in Budgets
    BY <1>6, SpendType DEF Forget, Counts
  <2> QED BY <1>6, <2>1 DEF Forget, RestTyped, viewVars, queueVars
<1>7. ASSUME NEW j \in Jobs, FinaliseElsewhere(j) PROVE RestTyped'
  <2>1. budget' \in Budgets
    BY <1>7, SpendType DEF FinaliseElsewhere, Counts
  <2>2. Len(mined) \in Nat
    BY DEF RelayerInv
  <2>3. /\ elsewhere' \subseteq [job : Jobs, after : 0..Len(mined)]
        /\ elsewhere \subseteq elsewhere'
    BY <1>7, <2>2 DEF FinaliseElsewhere, RestTyped
  <2>4. heard' \in [Rpcs -> SUBSET elsewhere']
    BY <1>7, <2>3 DEF FinaliseElsewhere, RestTyped
  <2> QED BY <1>7, <2>1, <2>3, <2>4 DEF FinaliseElsewhere, RestTyped, queueVars
<1>8. ASSUME NEW r \in Rpcs, Hear(r) PROVE RestTyped'
  <2>1. heard' \in [Rpcs -> SUBSET elsewhere']
    BY <1>8, HeardType DEF Hear
  <2> QED BY <1>8, <2>1 DEF Hear, RestTyped, queueVars
<1> QED BY <1>1, <1>2, <1>3, <1>4, <1>5, <1>6, <1>7, <1>8 DEF Next

LEMMA RestInit == Init => RestTyped
<1> SUFFICES ASSUME Init PROVE RestTyped
  OBVIOUS
<1>1. budget \in Budgets
  BY NonceAssumption DEF Init, Budgets, Counts
<1> QED BY <1>1 DEF Init, RestTyped

\* Every variable keeps its type, whatever fails: in particular the price of a
\* replacement stays within the gas lane and the attempts within their
\* maximum (sendWithReplacement), and no endpoint is ahead of the chain.
THEOREM RelayerTypeCorrect == Spec => []TypeOK
<1>1. RelayerInv /\ RestTyped => TypeOK
  <2> SUFFICES ASSUME RelayerInv, RestTyped PROVE TypeOK
    OBVIOUS
  <2>1. seen \in [Rpcs -> 0..Len(mined)]
    <3>1. Len(mined) \in Nat
      BY DEF RelayerInv
    <3> QED BY <3>1 DEF RelayerInv
  <2> QED BY <2>1 DEF RelayerInv, RestTyped, TypeOK, Proc, Budgets, Counts
<1>2. Spec => [](RelayerInv /\ RestTyped)
  BY RelayerInit, RelayerStep, RestInit, RestStep, PTL DEF Spec
<1> QED BY <1>1, <1>2, PTL

-----------------------------------------------------------------------------
(* One request per nonce *)

\* Inside the locked region a worker has the lock.
LockHeld == \A w \in Workers : proc[w].pc \notin {"idle", "mark"} => lock = w

\* Of every transaction sent, some endpoint still knows that its nonce is
\* taken: it has seen it consumed or has a transaction of that nonce.
NonceTaken ==
    \A t \in sent : \E r \in Rpcs : t.nonce <= seen[r] \/ \E u \in pool[r] : u.nonce = t.nonce

\* What was sent with the nonce a worker has in hand is for its request.
HandJob ==
    \A w \in Workers : proc[w].pc \in InHand =>
        \A t \in sent : t.nonce = proc[w].nonce => t.job = proc[w].job

ChainFromSent == \A n \in 1..Len(mined) : mined[n].tx \in sent /\ mined[n].tx.nonce = n

\* A mined transaction of the request.
IsOwn(j, t) == t \in Txs /\ t.job = j /\ IsMined(t)

\* A worker with a receipt has one of its own request.
MarkOwn ==
    \A w \in Workers : proc[w].pc = "mark" =>
        IsOwn(proc[w].job, proc[w].receipt)

\* The inductive invariant where no lock connection is lost under a live
\* worker and no pool forgets.
NonceInv ==
    /\ RelayerInv /\ RestTyped
    /\ budget["lost"] = 0 /\ budget["forget"] = 0
    /\ LockHeld /\ NonceTaken /\ HandJob /\ ChainFromSent /\ MarkOwn
    /\ NonceServesOneJob /\ ReportedOwnTransaction

\* A worker's step that sends nothing.
LEMMA NonceQuiet ==
    ASSUME NonceInv, RelayerInv', RestTyped', NEW w \in Workers, NEW p,
           proc' = [proc EXCEPT ![w] = p],
           budget'["lost"] = budget["lost"], budget'["forget"] = budget["forget"],
           UNCHANGED chainVars,
           lock' = lock \/ lock \in {w, None},
           p.pc \notin {"idle", "mark"} => lock' = w,
           p.pc \in InHand => \A t \in sent : t.nonce = p.nonce => t.job = p.job,
           p.pc = "mark" => IsOwn(p.job, p.receipt),
           \A x \in reported' \ reported : IsOwn(x[1], x[2])
    PROVE  NonceInv'
<1>1. \A v \in Workers : proc'[v] = IF v = w THEN p ELSE proc[v]
  BY DEF NonceInv, RelayerInv
<1>2. UNCHANGED <<sent, mined, seen, pool>>
  BY DEF chainVars, viewVars
<1>3. LockHeld'
  BY <1>1, NonceAssumption DEF NonceInv, LockHeld
<1>4. NonceTaken' /\ ChainFromSent' /\ NonceServesOneJob'
  BY <1>2 DEF NonceInv, NonceTaken, ChainFromSent, NonceServesOneJob
<1>5. HandJob'
  BY <1>1, <1>2 DEF NonceInv, HandJob
<1>6. MarkOwn'
  BY <1>1, <1>2 DEF NonceInv, MarkOwn, IsOwn, IsMined, Txs
<1>7. ReportedOwnTransaction'
  BY <1>2 DEF NonceInv, ReportedOwnTransaction, IsOwn, IsMined
<1> QED BY <1>3, <1>4, <1>5, <1>6, <1>7 DEF NonceInv

LEMMA NonceThrow ==
    ASSUME NonceInv, RelayerInv', RestTyped', NEW w \in Workers, Throw(w),
           budget'["lost"] = budget["lost"], budget'["forget"] = budget["forget"],
           UNCHANGED <<chainVars, queueVars>>
    PROVE  NonceInv'
<1>1. /\ proc' = [proc EXCEPT ![w] = Idle] /\ Idle.pc = "idle"
      /\ lock' = lock \/ lock \in {w, None}
  BY DEF Throw, Unlock, Idle
<1>2. reported' = reported
  BY DEF queueVars
<1> QED BY <1>1, <1>2, NonceQuiet DEF InHand

LEMMA NonceGoto ==
    ASSUME NonceInv, RelayerInv', RestTyped', NEW w \in Workers, NEW pc \in Pcs,
           proc[w].pc \notin {"idle", "mark"}, pc \notin {"idle", "mark"},
           pc \in InHand => proc[w].pc \in InHand,
           Goto(w, pc), UNCHANGED <<lock, chainVars, queueVars, budget>>
    PROVE  NonceInv'
<1> DEFINE q == [proc[w] EXCEPT !.pc = pc]
<1>1. proc[w] \in Proc
  BY DEF NonceInv, RelayerInv
<1>2. q.pc = pc /\ q.job = proc[w].job /\ q.nonce = proc[w].nonce
  BY <1>1, GotoFields
<1>3. proc' = [proc EXCEPT ![w] = q]
  BY DEF Goto
<1> HIDE DEF q
<1>4. lock = w
  BY DEF NonceInv, LockHeld
<1>5. q.pc \in InHand => \A t \in sent : t.nonce = q.nonce => t.job = q.job
  BY <1>2 DEF NonceInv, HandJob
<1> QED BY <1>2, <1>3, <1>4, <1>5, NonceQuiet DEF queueVars

LEMMA NonceResolve ==
    ASSUME NonceInv, RelayerInv', RestTyped', NEW w \in Workers, NEW status, NEW M,
           proc[w].pc \in {"receipts", "latest"}, ResolveNonce(w, status, M),
           UNCHANGED <<chainVars, queueVars, budget>>
    PROVE  NonceInv'
<1> DEFINE q == [proc[w] EXCEPT !.pc = "receipts", !.todo = @ \ CurrentTxs(w)]
<1>1. proc[w] \in Proc
  BY DEF NonceInv, RelayerInv
<1>2. q.pc = "receipts"
  BY <1>1 DEF Proc
<1>3. proc' = [proc EXCEPT ![w] = q] /\ lock' = lock
  BY DEF ResolveNonce
<1> HIDE DEF q
<1>4. lock = w
  BY DEF NonceInv, LockHeld
<1> QED BY <1>2, <1>3, <1>4, NonceQuiet DEF InHand, queueVars

\* The consensus: a nonce every endpoint takes for the next one is a nonce
\* nothing was ever sent with.
LEMMA ConsensusFresh ==
    ASSUME NonceInv, NEW n \in ConsensusNonces
    PROVE  \A t \in sent : t.nonce # n
<1> SUFFICES ASSUME NEW t \in sent, t.nonce = n PROVE FALSE
  OBVIOUS
<1>1. n \in Nat /\ \A r \in Rpcs : n > seen[r] /\ \A u \in pool[r] : u.nonce # n
  BY NonceAssumption DEF ConsensusNonces, PendingNonce
<1>2. PICK r \in Rpcs : t.nonce <= seen[r] \/ \E u \in pool[r] : u.nonce = t.nonce
  BY DEF NonceInv, NonceTaken
<1>3. seen[r] \in Nat
  BY DEF NonceInv, RelayerInv
<1> QED BY <1>1, <1>2, <1>3

LEMMA NonceChoose ==
    ASSUME NonceInv, RelayerInv', RestTyped', NEW w \in Workers, ChooseNonce(w)
    PROVE  NonceInv'
<1>1. UNCHANGED <<chainVars, queueVars, budget>> /\ proc[w].pc = "receipts"
  BY DEF ChooseNonce
<1>2. CASE Throw(w)
  BY <1>1, <1>2, NonceThrow
<1>3. ASSUME NEW n \in ConsensusNonces, NEW p \in Prices, UNCHANGED lock,
             proc' = [proc EXCEPT ![w].pc = "sign", ![w].nonce = n,
                                  ![w].price = p, ![w].attempt = 1]
      PROVE  NonceInv'
  <2> DEFINE q == [proc[w] EXCEPT !.pc = "sign", !.nonce = n, !.price = p, !.attempt = 1]
  <2>1. proc[w] \in Proc
    BY DEF NonceInv, RelayerInv
  <2>2. proc' = [proc EXCEPT ![w] = q]
    BY <1>3
  <2>3. q.pc = "sign" /\ q.nonce = n
    BY <2>1 DEF Proc
  <2> HIDE DEF q
  <2>4. lock = w
    BY <1>1 DEF NonceInv, LockHeld
  <2>5. \A t \in sent : t.nonce # q.nonce
    BY <2>3, ConsensusFresh
  <2> QED BY <1>1, <1>3, <2>2, <2>3, <2>4, <2>5, NonceQuiet DEF queueVars
<1>4. \/ Throw(w)
      \/ \E n \in ConsensusNonces, p \in Prices :
            /\ UNCHANGED lock
            /\ proc' = [proc EXCEPT ![w].pc = "sign", ![w].nonce = n,
                                    ![w].price = p, ![w].attempt = 1]
  BY DEF ChooseNonce
<1> QED BY <1>2, <1>3, <1>4

LEMMA NonceTimeout ==
    ASSUME NonceInv, RelayerInv', RestTyped', NEW w \in Workers, Timeout(w)
    PROVE  NonceInv'
<1>1. UNCHANGED <<chainVars, queueVars, budget>> /\ proc[w].pc = "waiting"
  BY DEF Timeout
<1>2. CASE Throw(w)
  BY <1>1, <1>2, NonceThrow
<1>3. ASSUME NEW b, NEW a, UNCHANGED lock,
             proc' = [proc EXCEPT ![w] = [proc[w] EXCEPT !.pc = "sign", !.price = b, !.attempt = a]]
      PROVE  NonceInv'
  <2> DEFINE q == [proc[w] EXCEPT !.pc = "sign", !.price = b, !.attempt = a]
  <2>1. proc[w] \in Proc
    BY DEF NonceInv, RelayerInv
  <2>2. q.pc = "sign" /\ q.nonce = proc[w].nonce /\ q.job = proc[w].job
    BY <2>1 DEF Proc
  <2>3. proc' = [proc EXCEPT ![w] = q]
    BY <1>3
  <2> HIDE DEF q
  <2>4. lock = w
    BY <1>1 DEF NonceInv, LockHeld
  <2>5. \A t \in sent : t.nonce = q.nonce => t.job = q.job
    BY <1>1, <2>2 DEF NonceInv, HandJob, InHand
  <2> QED BY <1>1, <1>3, <2>2, <2>3, <2>4, <2>5, NonceQuiet DEF queueVars
<1>4. CASE ~Throw(w)
  <2>1. PICK b, a : b = Bump(proc[w].price) /\ a = proc[w].attempt + 1
    OBVIOUS
  <2>2. proc' = [proc EXCEPT ![w] = [proc[w] EXCEPT !.pc = "sign", !.price = b, !.attempt = a]]
        /\ UNCHANGED lock
    BY <1>4, <2>1 DEF Timeout, Bump
  <2> QED BY <1>3, <2>2
<1> QED BY <1>2, <1>4

LEMMA NonceBroadcast ==
    ASSUME NonceInv, RelayerInv', RestTyped', NEW w \in Workers, Broadcast(w)
    PROVE  NonceInv'
<1>1. UNCHANGED <<mined, viewVars, queueVars, budget>> /\ proc[w].pc = "armed"
  BY DEF Broadcast
<1>2. CASE Throw(w) /\ UNCHANGED <<pool, sent>>
  BY <1>1, <1>2, NonceThrow DEF chainVars, viewVars
<1>3. CASE ~(Throw(w) /\ UNCHANGED <<pool, sent>>)
  <2>1. PICK t : t = Tx(proc[w])
    OBVIOUS
  <2>2. PICK R \in SUBSET Rpcs :
          /\ R # {} /\ sent' = sent \cup {t} /\ Goto(w, "waiting") /\ UNCHANGED lock
          /\ pool' = [r \in Rpcs |-> IF r \in R
                        THEN {u \in pool[r] : u.nonce # t.nonce} \cup {t} ELSE pool[r]]
    BY <1>3, <2>1 DEF Broadcast
  <2> DEFINE q == [proc[w] EXCEPT !.pc = "waiting"]
  <2>3. proc[w] \in Proc /\ proc' = [proc EXCEPT ![w] = q]
    BY <2>2 DEF Goto, NonceInv, RelayerInv
  <2>4. q.pc = "waiting" /\ q.job = proc[w].job /\ q.nonce = proc[w].nonce
    BY <2>3, GotoFields DEF Pcs
  <2> HIDE DEF q
  <2>5. \A v \in Workers : proc'[v] = IF v = w THEN q ELSE proc[v]
    BY <2>3 DEF NonceInv, RelayerInv
  <2>6. t.nonce = proc[w].nonce /\ t.job = proc[w].job
    BY <2>1 DEF Tx
  <2>7. /\ lock = w /\ \A u \in sent : u.nonce = t.nonce => u.job = t.job
        /\ \A v \in Workers \ {w} : proc[v].pc \in {"idle", "mark"}
    BY <1>1, <2>6 DEF NonceInv, LockHeld, HandJob, InHand
  <2>8. LockHeld'
    BY <2>2, <2>5, <2>7 DEF LockHeld
  <2>9. NonceTaken'
    <3>1. \A r \in R : t \in pool'[r]
      BY <2>2
    <3>2. ASSUME NEW u \in sent, u.nonce # t.nonce
          PROVE  \E r \in Rpcs : u.nonce <= seen'[r] \/ \E x \in pool'[r] : x.nonce = u.nonce
      <4>1. PICK r \in Rpcs : u.nonce <= seen[r] \/ \E x \in pool[r] : x.nonce = u.nonce
        BY DEF NonceInv, NonceTaken
      <4>2. \A x \in pool[r] : x.nonce = u.nonce => x \in pool'[r]
        BY <2>2, <3>2
      <4> QED BY <1>1, <4>1, <4>2 DEF viewVars
    <3> QED BY <2>2, <3>1, <3>2 DEF NonceTaken
  <2>10. HandJob'
    BY <2>2, <2>4, <2>5, <2>6, <2>7 DEF HandJob, InHand
  <2>11. ChainFromSent' /\ MarkOwn'
    BY <1>1, <2>2, <2>4, <2>5 DEF NonceInv, ChainFromSent, MarkOwn, IsOwn, IsMined, Txs
  <2>12. NonceServesOneJob'
    BY <2>2, <2>7 DEF NonceInv, NonceServesOneJob
  <2>13. ReportedOwnTransaction'
    BY <1>1 DEF NonceInv, ReportedOwnTransaction, IsMined, queueVars
  <2> QED BY <1>1, <2>8, <2>9, <2>10, <2>11, <2>12, <2>13 DEF NonceInv
<1> QED BY <1>2, <1>3

\* wait() returns the receipt of the transaction that consumed the nonce:
\* nobody else has sent one.
LEMMA NonceReceive ==
    ASSUME NonceInv, RelayerInv', RestTyped', NEW w \in Workers, Receive(w)
    PROVE  NonceInv'
<1>1. UNCHANGED <<chainVars, queueVars, budget>> /\ proc[w].pc = "waiting"
  BY DEF Receive
<1>2. /\ proc[w] \in Proc /\ proc[w].nonce \in 1..MaxNonce
      /\ mined \in Seq([tx : Txs, ok : BOOLEAN])
      /\ seen \in [Rpcs -> Nat] /\ \A r \in Rpcs : seen[r] <= Len(mined)
  BY <1>1 DEF NonceInv, RelayerInv, ProcOK, InHand
<1>3. CASE Throw(w)
  BY <1>1, <1>3, NonceThrow
<1>4. CASE ~Throw(w)
  <2>1. PICK r \in Rpcs :
        /\ seen[r] >= proc[w].nonce /\ Unlock(w)
        /\ proc' = [proc EXCEPT ![w].pc = "mark", ![w].receipt = mined[proc[w].nonce].tx]
    BY <1>4 DEF Receive
  <2>2. proc[w].nonce \in 1..Len(mined)
    <3>1. seen[r] \in Nat /\ seen[r] <= Len(mined) /\ Len(mined) \in Nat
      BY <1>2
    <3>2. proc[w].nonce \in Nat /\ proc[w].nonce >= 1
      BY <1>2, NonceAssumption
    <3> QED BY <2>1, <3>1, <3>2
  <2>3. mined[proc[w].nonce].tx \in sent /\ mined[proc[w].nonce].tx.nonce = proc[w].nonce
    BY <2>2 DEF NonceInv, ChainFromSent
  <2>4. mined[proc[w].nonce].tx.job = proc[w].job
    BY <1>1, <2>3 DEF NonceInv, HandJob, InHand
  <2>5. PICK u : u = mined[proc[w].nonce].tx
    OBVIOUS
  <2> DEFINE q == [proc[w] EXCEPT !.pc = "mark", !.receipt = u]
  <2>6. proc' = [proc EXCEPT ![w] = q]
    BY <2>1, <2>5
  <2>7. q.pc = "mark" /\ q.job = proc[w].job /\ q.receipt = u
    BY <1>2 DEF Proc
  <2> HIDE DEF q
  <2>8. lock' = lock \/ lock \in {w, None}
    BY <2>1 DEF Unlock
  <2>9. sent \subseteq Txs /\ proc[w].nonce <= Len(mined)
    BY <1>2, <2>2 DEF NonceInv, RelayerInv
  <2>10. IsOwn(proc[w].job, u)
    BY <2>3, <2>4, <2>5, <2>9 DEF IsOwn, IsMined
  <2> QED BY <1>1, <2>6, <2>7, <2>8, <2>10, NonceQuiet DEF InHand, queueVars
<1> QED BY <1>3, <1>4

LEMMA NonceFinish ==
    ASSUME NonceInv, RelayerInv', RestTyped', NEW w \in Workers, Finish(w)
    PROVE  NonceInv'
<1>1. /\ UNCHANGED <<lock, chainVars, budget>> /\ proc[w].pc = "mark"
      /\ proc' = [proc EXCEPT ![w] = Idle]
      /\ reported' \ reported \subseteq {<<proc[w].job, proc[w].receipt>>}
  BY DEF Finish, Complete, queueVars
<1>2. Idle.pc = "idle"
  BY DEF Idle
<1>3. \A x \in reported' \ reported : IsOwn(x[1], x[2])
  BY <1>1 DEF NonceInv, MarkOwn
<1> QED BY <1>1, <1>2, <1>3, NonceQuiet DEF InHand

LEMMA NonceBegin ==
    ASSUME NonceInv, RelayerInv', RestTyped', NEW w \in Workers, NEW j \in Jobs,
           SkipFinal(w, j) \/ TakeLock(w, j)
    PROVE  NonceInv'
<1>1. CASE SkipFinal(w, j)
  <2>1. UNCHANGED <<lock, chainVars, budget, reported>> /\ proc[w] = Idle /\ proc' = proc
    BY <1>1 DEF SkipFinal
  <2>2. proc' = [proc EXCEPT ![w] = Idle] /\ Idle.pc = "idle"
    BY <2>1 DEF Idle, NonceInv, RelayerInv
  <2> QED BY <2>1, <2>2, NonceQuiet DEF InHand
<1>2. CASE TakeLock(w, j)
  <2>1. PICK q : q = [Idle EXCEPT !.pc = "receipts", !.job = j,
                                  !.todo = {t \in Txs : journal[t] = "broadcast"}]
    OBVIOUS
  <2>2. q.pc = "receipts"
    BY <2>1 DEF Idle
  <2>3. /\ proc' = [proc EXCEPT ![w] = q] /\ lock = None /\ lock' = w
        /\ UNCHANGED <<queueVars, chainVars, budget>>
    BY <1>2, <2>1 DEF TakeLock
  <2> QED BY <2>2, <2>3, NonceQuiet DEF InHand, queueVars
<1> QED BY <1>1, <1>2

LEMMA NonceMine ==
    ASSUME NonceInv, RelayerInv', RestTyped', NEW t \in Txs, Mine(t)
    PROVE  NonceInv'
<1>1. /\ UNCHANGED <<lock, journal, proc, reported, sent, seen, pool>>
      /\ t \in sent /\ t.nonce = Len(mined) + 1
  BY DEF Mine, queueVars, viewVars
<1>2. /\ Len(mined) \in Nat /\ Len(mined') = Len(mined) + 1
      /\ DOMAIN mined = 1..Len(mined) /\ DOMAIN mined' = 1..Len(mined')
      /\ \A n \in 1..Len(mined) : mined'[n] = mined[n]
      /\ mined'[Len(mined')].tx = t
  BY MinedGrows DEF NonceInv
<1>3. budget'["lost"] = 0 /\ budget'["forget"] = 0
  <2>1. CASE UNCHANGED budget
    BY <2>1 DEF NonceInv
  <2>2. CASE Spend("reverts")
    BY <2>2, SpendType DEF NonceInv, Counts
  <2> QED BY <2>1, <2>2 DEF Mine
<1>4. LockHeld' /\ NonceTaken' /\ HandJob' /\ NonceServesOneJob'
  BY <1>1 DEF NonceInv, LockHeld, NonceTaken, HandJob, NonceServesOneJob
<1>5. ChainFromSent'
  <2> SUFFICES ASSUME NEW n \in 1..Len(mined')
               PROVE  mined'[n].tx \in sent /\ mined'[n].tx.nonce = n
    BY <1>1 DEF ChainFromSent
  <2>1. CASE n = Len(mined')
    BY <1>1, <1>2, <2>1
  <2>2. CASE n \in 1..Len(mined)
    BY <1>2, <2>2 DEF NonceInv, ChainFromSent
  <2> QED BY <1>2, <2>1, <2>2
<1>6. ASSUME NEW u \in Txs, IsMined(u) PROVE u.nonce <= Len(mined') /\ mined'[u.nonce].tx = u
  <2>1. u.nonce \in 1..Len(mined)
    BY <1>2, <1>6, NonceAssumption DEF Txs, IsMined
  <2> QED BY <1>2, <1>6, <2>1 DEF IsMined
<1>7. MarkOwn'
  BY <1>1, <1>6 DEF NonceInv, MarkOwn, IsOwn, IsMined, Txs
<1>8. ReportedOwnTransaction'
  <2>1. \A x \in reported : x[2] \in Txs
    BY DEF NonceInv, RestTyped
  <2> QED BY <1>1, <1>6, <2>1 DEF NonceInv, ReportedOwnTransaction, IsMined
<1> QED BY <1>3, <1>4, <1>5, <1>7, <1>8 DEF NonceInv

\* An endpoint that catches up drops the pool transaction of the nonce it has
\* now seen consumed, and no other that still counts.
LEMMA NonceCatchUp ==
    ASSUME NonceInv, RelayerInv', RestTyped', NEW r \in Rpcs, CatchUp(r)
    PROVE  NonceInv'
<1>1. /\ UNCHANGED <<lock, journal, proc, reported, sent, mined, budget>>
      /\ seen' = [seen EXCEPT ![r] = @ + 1]
      /\ pool' = [pool EXCEPT ![r] = {t \in @ : t.nonce > seen[r] + 1}]
  BY DEF CatchUp, queueVars
<1>2. /\ seen \in [Rpcs -> Nat] /\ pool \in [Rpcs -> SUBSET Txs] /\ sent \subseteq Txs
  BY DEF NonceInv, RelayerInv, RestTyped
<1>3. \A t \in Txs : t.nonce \in Nat
  BY NonceAssumption DEF Txs
<1>4. ASSUME NEW t \in sent
      PROVE  \E x \in Rpcs : t.nonce <= seen'[x] \/ \E u \in pool'[x] : u.nonce = t.nonce
  <2>1. PICK x \in Rpcs : t.nonce <= seen[x] \/ \E u \in pool[x] : u.nonce = t.nonce
    BY DEF NonceInv, NonceTaken
  <2>2. t.nonce \in Nat /\ seen[x] \in Nat
    BY <1>2, <1>3
  <2>3. CASE x # r
    BY <1>1, <1>2, <2>1, <2>3
  <2>4. CASE x = r
    <3>1. seen'[r] = seen[r] + 1 /\ pool'[r] = {u \in pool[r] : u.nonce > seen[r] + 1}
      BY <1>1, <1>2
    <3> QED BY <2>1, <2>2, <2>4, <3>1
  <2> QED BY <2>3, <2>4
<1>5. NonceTaken'
  BY <1>1, <1>4 DEF NonceTaken
<1>6. /\ LockHeld' /\ HandJob' /\ NonceServesOneJob' /\ ChainFromSent' /\ MarkOwn'
      /\ ReportedOwnTransaction'
  BY <1>1 DEF NonceInv, LockHeld, HandJob, NonceServesOneJob, ChainFromSent, MarkOwn,
              ReportedOwnTransaction, IsOwn, IsMined, Txs
<1> QED BY <1>1, <1>5, <1>6 DEF NonceInv

\* What happens elsewhere leaves the relayer's account alone.
LEMMA NonceElsewhere ==
    ASSUME NonceInv, RelayerInv', RestTyped',
           UNCHANGED <<lock, proc, reported, sent, mined, seen, pool>>,
           budget'["lost"] = budget["lost"], budget'["forget"] = budget["forget"]
    PROVE  NonceInv'
BY DEF NonceInv, LockHeld, NonceTaken, HandJob, ChainFromSent, MarkOwn, NonceServesOneJob,
       ReportedOwnTransaction, IsOwn, IsMined, Txs

\* A worker's steps, one action each.
LEMMA NonceWorker ==
    ASSUME NonceInv, RelayerInv', RestTyped', NEW w \in Workers, Step(w)
    PROVE  NonceInv'
<1>1. CASE ReadReceipts(w)
  <2>1. UNCHANGED <<chainVars, queueVars, budget>> /\ proc[w].pc = "receipts"
    BY <1>1 DEF ReadReceipts
  <2>2. \/ Goto(w, "known") /\ UNCHANGED lock
        \/ \E M : ResolveNonce(w, "replaced", M)
        \/ Throw(w)
    BY <1>1 DEF ReadReceipts
  <2> QED BY <2>1, <2>2, NonceGoto, NonceResolve, NonceThrow DEF InHand, Pcs
<1>2. CASE ReadKnown(w)
  <2>1. UNCHANGED <<chainVars, queueVars, budget>> /\ proc[w].pc = "known"
    BY <1>2 DEF ReadKnown
  <2>2. Throw(w) \/ (Goto(w, "latest") /\ UNCHANGED lock)
    BY <1>2 DEF ReadKnown
  <2> QED BY <2>1, <2>2, NonceGoto, NonceThrow DEF InHand, Pcs
<1>3. CASE ReadLatest(w)
  <2>1. UNCHANGED <<chainVars, queueVars, budget>> /\ proc[w].pc = "latest"
    BY <1>3 DEF ReadLatest
  <2>2. \/ ResolveNonce(w, "consumed", {}) \/ ResolveNonce(w, "dropped", {})
        \/ Throw(w)
    BY <1>3 DEF ReadLatest
  <2> QED BY <2>1, <2>2, NonceResolve, NonceThrow
<1>4. CASE AssertHeld(w)
  <2>1. UNCHANGED <<chainVars, queueVars, budget>> /\ proc[w].pc \in {"sign", "check"}
    BY <1>4 DEF AssertHeld
  <2>2. Throw(w) \/ \E pc \in {"journal", "armed"} : Goto(w, pc) /\ UNCHANGED lock
    BY <1>4 DEF AssertHeld
  <2> QED BY <2>1, <2>2, NonceGoto, NonceThrow DEF InHand, Pcs
<1>5. CASE RecordBroadcast(w)
  <2>1. /\ UNCHANGED <<lock, chainVars, queueVars, budget>> /\ proc[w].pc = "journal"
        /\ Goto(w, "check")
    BY <1>5 DEF RecordBroadcast
  <2> QED BY <2>1, NonceGoto DEF InHand, Pcs
<1> QED BY <1>1, <1>2, <1>3, <1>4, <1>5, NonceChoose, NonceBroadcast, NonceReceive, NonceFinish
        DEF Step

LEMMA NonceStep == NonceInv /\ [Next]_vars => NonceInv'
<1> SUFFICES ASSUME NonceInv, [Next]_vars PROVE NonceInv'
  OBVIOUS
<1>1. RelayerInv' /\ RestTyped'
  BY RelayerStep, RestStep DEF NonceInv
<1>2. CASE UNCHANGED vars
  BY <1>1, <1>2, NonceElsewhere DEF vars
<1>3. ASSUME NEW w \in Workers, Begin(w) PROVE NonceInv'
  BY <1>1, <1>3, NonceBegin DEF Begin
<1>4. ASSUME NEW w \in Workers, Step(w) \/ Timeout(w) PROVE NonceInv'
  BY <1>1, <1>4, NonceWorker, NonceTimeout
<1>5. ASSUME NEW w \in Workers, Fail(w) PROVE NonceInv'
  <2>1. Throw(w) /\ UNCHANGED <<chainVars, queueVars>> /\ Spend("fails")
    BY <1>5 DEF Fail
  <2>2. budget'["lost"] = budget["lost"] /\ budget'["forget"] = budget["forget"]
    BY <2>1, SpendType DEF NonceInv, Counts
  <2> QED BY <1>1, <2>1, <2>2, NonceThrow
<1>6. ~LoseLock
  BY SpendType DEF LoseLock, NonceInv, Counts
<1>7. ASSUME NEW t \in Txs, Mine(t) PROVE NonceInv'
  BY <1>1, <1>7, NonceMine
<1>8. ASSUME NEW r \in Rpcs, CatchUp(r) PROVE NonceInv'
  BY <1>1, <1>8, NonceCatchUp
<1>9. ASSUME NEW r \in Rpcs, NEW t \in Txs PROVE ~Forget(r, t)
  BY SpendType DEF Forget, NonceInv, Counts
<1>10. ASSUME NEW j \in Jobs, FinaliseElsewhere(j) PROVE NonceInv'
  <2>1. budget'["lost"] = budget["lost"] /\ budget'["forget"] = budget["forget"]
    BY <1>10, SpendType DEF FinaliseElsewhere, NonceInv, Counts
  <2> QED BY <1>1, <1>10, <2>1, NonceElsewhere DEF FinaliseElsewhere, queueVars
<1>11. ASSUME NEW r \in Rpcs, Hear(r) PROVE NonceInv'
  BY <1>1, <1>11, NonceElsewhere DEF Hear, queueVars
<1> QED BY <1>2, <1>3, <1>4, <1>5, <1>6, <1>7, <1>8, <1>9, <1>10, <1>11 DEF Next

LEMMA NonceInit ==
    ASSUME MaxLost = 0, MaxForget = 0, Init
    PROVE  NonceInv
<1>1. RelayerInv /\ RestTyped
  BY RelayerInit, RestInit
<1>2. budget["lost"] = 0 /\ budget["forget"] = 0
  BY DEF Init
<1>3. \A w \in Workers : proc[w].pc = "idle"
  BY DEF Init, Idle
<1>4. LockHeld /\ HandJob /\ MarkOwn
  BY <1>3 DEF LockHeld, HandJob, MarkOwn, InHand
<1>5. NonceTaken /\ NonceServesOneJob /\ ReportedOwnTransaction
  BY DEF Init, NonceTaken, NonceServesOneJob, ReportedOwnTransaction
<1>6. ChainFromSent
  BY DEF Init, ChainFromSent
<1> QED BY <1>1, <1>2, <1>4, <1>5, <1>6 DEF NonceInv

\* Where lock connections outlive their workers' locked regions and pools do
\* not forget - endpoints may still lag and disagree, workers crash, calls
\* throw, waits time out and transactions revert - everything ever broadcast
\* with one nonce is for one request: the reconciliation and the
\* pending-nonce consensus under the lock keep instances off each other's
\* nonces, for any number of them.
THEOREM RelayerNonceOneJob ==
    ASSUME MaxLost = 0, MaxForget = 0
    PROVE  Spec => []NonceServesOneJob
<1>1. NonceInv => NonceServesOneJob
  BY DEF NonceInv
<1>2. Init => NonceInv
  BY NonceInit
<1> QED BY <1>1, <1>2, NonceStep, PTL DEF Spec

\* Under the same conditions the transaction a request is reported fulfilled
\* with is one of its own, and mined, although sendWithReplacement hands on
\* the receipt of whatever replaced its transaction and other accounts may
\* finalise the request at any moment.
THEOREM RelayerReportsOwn ==
    ASSUME MaxLost = 0, MaxForget = 0
    PROVE  Spec => []ReportedOwnTransaction
<1>1. NonceInv => ReportedOwnTransaction
  BY DEF NonceInv
<1>2. Init => NonceInv
  BY NonceInit
<1> QED BY <1>1, <1>2, NonceStep, PTL DEF Spec

-----------------------------------------------------------------------------
(* Completed requests are final *)

\* What is final stays final.
LEMMA FinalStays ==
    ASSUME RelayerInv, [Next]_vars, NEW j, Final(j)
    PROVE  Final(j)'
<1>1. elsewhere \subseteq elsewhere'
  BY DEF Next, vars, Begin, Step, SkipFinal, TakeLock, Timeout, Fail, LoseLock, FinaliseElsewhere,
         Hear, CatchUp, Forget, Mine, ReadReceipts, ReadKnown, ReadLatest, ChooseNonce, AssertHeld,
         RecordBroadcast, Broadcast, Receive, Finish, chainVars, viewVars
<1>2. CASE mined' = mined
  BY <1>1, <1>2 DEF Final
<1>3. ASSUME NEW t \in Txs, Mine(t) PROVE Final(j)'
  <2>1. \A n \in DOMAIN mined : n \in DOMAIN mined' /\ mined'[n] = mined[n]
    BY <1>3, MinedGrows
  <2> QED BY <1>1, <2>1 DEF Final
<1> QED BY <1>2, <1>3 DEF Next, vars, Begin, Step, SkipFinal, TakeLock, Timeout, Fail, LoseLock,
        FinaliseElsewhere, Hear, CatchUp, Forget, ReadReceipts, ReadKnown, ReadLatest, ChooseNonce,
        AssertHeld, RecordBroadcast, Broadcast, Receive, Finish, chainVars

\* What an endpoint has seen to be final is final.
LEMMA SeenFinal ==
    ASSUME RelayerInv, RestTyped, NEW r \in Rpcs, NEW j, FinalAt(r, j)
    PROVE  Final(j)
<1>1. /\ seen[r] \in Nat /\ seen[r] <= Len(mined) /\ Len(mined) \in Nat
      /\ DOMAIN mined = 1..Len(mined) /\ heard[r] \subseteq elsewhere
  BY DEF RelayerInv, RestTyped
<1>2. \A n \in 1..seen[r] : n \in DOMAIN mined
  BY <1>1
<1> QED BY <1>1, <1>2 DEF FinalAt, Final

\* Only a request that is read as final is completed.
LEMMA CompletedNew ==
    ASSUME RelayerInv, RestTyped, ChecksFinal, [Next]_vars, NEW j \in completed', j \notin completed
    PROVE  Final(j)
<1>1. ReadsFinal(j)
  <2>1. CASE \E w \in Workers : Finish(w)
    BY <2>1 DEF Finish, Complete, queueVars
  <2>2. CASE \E w \in Workers, i \in Jobs : SkipFinal(w, i)
    BY <2>2 DEF SkipFinal
  <2>3. CASE completed' = completed
    BY <2>3
  <2> QED BY <2>1, <2>2, <2>3 DEF Next, vars, Begin, Step, TakeLock, Timeout, Fail, LoseLock,
        FinaliseElsewhere, Hear, CatchUp, Forget, Mine, ReadReceipts, ReadKnown, ReadLatest,
        ChooseNonce, AssertHeld, RecordBroadcast, Broadcast, Receive, queueVars
<1>2. PICK r \in Rpcs : FinalAt(r, j)
  BY <1>1, NonceAssumption DEF ReadsFinal
<1> QED BY <1>2, SeenFinal

\* The worker that re-reads the request before completing it
\* (run-compact.mjs) deletes the queue row only of a request that is final on
\* chain, whatever receipts it was handed, whatever locks and pool entries
\* were lost, and whoever made it final.
THEOREM RelayerCompletedFinal ==
    ASSUME ChecksFinal
    PROVE  Spec => []CompletedIsFinal
<1>1. Init => CompletedIsFinal
  BY DEF Init, CompletedIsFinal
<1>2. RelayerInv /\ RestTyped /\ CompletedIsFinal /\ [Next]_vars => CompletedIsFinal'
  BY CompletedNew, FinalStays DEF CompletedIsFinal
<1>3. Spec => [](RelayerInv /\ RestTyped)
  BY RelayerInit, RelayerStep, RestInit, RestStep, PTL DEF Spec
<1> QED BY <1>1, <1>2, <1>3, PTL DEF Spec
=============================================================================
