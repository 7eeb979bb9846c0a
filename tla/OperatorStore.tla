---------------------------- MODULE OperatorStore ---------------------------
(***************************************************************************)
(* The request queue that operator instances share in PostgreSQL: the scan *)
(* cursor and its lease, the request rows and their leases                 *)
(* (operator/postgres-store.mjs), and the steps of the loop that drives it *)
(* (runServicePostgres of operator/cli.mjs).  OperatorLoop composes these  *)
(* steps into the operator programs that share them.                       *)
(*                                                                         *)
(* The chain is external: it grows, carries at most one request and one    *)
(* finalisation of each request, and may replace its newest blocks.  An    *)
(* RPC answers for a prefix of it.  Sending the fulfilment is the business *)
(* of RelayerNonce; here it is one step, Fulfill.                          *)
(*                                                                         *)
(* Time is abstract: a lease is live until some Expire step, and the delay *)
(* before a retry is the time no instance happens to look.  The read of a  *)
(* request's status and the database write it leads to are one step.       *)
(***************************************************************************)
EXTENDS Integers

CONSTANTS
    Workers,         \* operator instances
    Jobs,            \* request ids
    None,
    Dead,            \* instance id of a process that is gone
    Deploy,          \* deploymentBlock
    Range,           \* rangeSize
    Lookback,        \* reorgLookback
    Confirmations,   \* eventConfirmations
    MaxReorg,        \* blocks this far below the highest head are final
    MaxLag,          \* blocks an RPC may be behind
    MaxBlock,        \* bound on the chain
    MaxFails         \* bound on crashes, thrown errors, leases outlived

\* A row of vrf_operator_requests, or of the requests in the JSON state file.
Rows == [block : Int, orphaned : BOOLEAN, owner : Workers \cup {None, Dead}, live : BOOLEAN]

\* A scan must get past what it scans again, or the cursor never moves; the
\* defaults (2000 and 32 blocks) satisfy it, the options are not checked.
\* Reorganisations and lag together stay within what confirmations and
\* lookback cover.
ASSUME StoreAssumption ==
    /\ {Deploy, Range, Lookback, Confirmations} \subseteq Nat
    /\ {MaxReorg, MaxLag, MaxBlock, MaxFails} \subseteq Nat
    /\ Range > Lookback
    /\ MaxReorg + MaxLag <= Lookback + Confirmations
    /\ None # Dead /\ {None, Dead} \cap (Workers \cup Jobs) = {}
    /\ None \notin Int \cup Rows

VARIABLES
    head, peak,     \* the chain's newest block, and the highest it ever was
    requestedAt,    \* block of each request's event, or None
    finalizedAt,    \* block of its fulfilment or expiry, or None
    cursor,         \* vrf_operator_scan_state.next_block
    scan,           \* its lease: [owner, live]
    rows,           \* vrf_operator_requests: a row or None per request
    worker,         \* what each instance is doing
    fails           \* what is left of MaxFails

vars == <<head, peak, requestedAt, finalizedAt, cursor, scan, rows, worker, fails>>
chain == <<head, peak, requestedAt, finalizedAt>>
store == <<cursor, scan, rows>>

Blocks == Deploy..MaxBlock
MaxOf(a, b) == IF a > b THEN a ELSE b
MinOf(a, b) == IF a < b THEN a ELSE b

Free == [owner |-> None, live |-> FALSE]
Idle == [pc |-> "idle", job |-> None, from |-> 0, to |-> 0,
         requested |-> None, finalized |-> None]

\* Mutant: a lease that ran out still counts.
ClaimableUnowned(lease) == lease.owner = None

\* Lease columns a claim may overwrite.
Claimable(lease) == lease.owner = None \/ ~lease.live

Pending(j) == requestedAt[j] # None /\ finalizedAt[j] = None

\* getRequest(j) at an RPC that has blocks up to s: a status other than 1, or,
\* where those blocks do not have the request, the revert UnknownRequest.
FinalAt(j, s) == finalizedAt[j] \in Deploy..s
UnknownAt(j, s) == requestedAt[j] \notin Deploy..s

\* Events of a block range, as an RPC that has blocks up to s returns them.
RequestedIn(from, to, s) ==
    {j \in Jobs : requestedAt[j] \in from..MinOf(to, s)}
FinalizedIn(from, to, s) ==
    {j \in Jobs : finalizedAt[j] \in from..MinOf(to, s)}
Views == (head - MaxLag)..head

Init ==
    /\ head = Deploy /\ peak = Deploy
    /\ requestedAt = [j \in Jobs |-> None]
    /\ finalizedAt = [j \in Jobs |-> None]
    /\ cursor = Deploy /\ scan = Free
    /\ rows = [j \in Jobs |-> None]
    /\ worker = [w \in Workers |-> Idle]
    /\ fails = MaxFails

-----------------------------------------------------------------------------
(* Scanning *)

Latest(h) == MaxOf(Deploy, h - Confirmations)
FromBlock(latest) == MaxOf(Deploy, MinOf(cursor, latest) - Lookback)

ToBlock(latest) == MinOf(latest, FromBlock(latest) + Range - 1)

\* Mutant: the cursor is not compared with the head reported.
ClaimScanAnyHead(w) ==
    /\ worker[w] = Idle
    /\ Claimable(scan) \/ scan.owner = w
    /\ \E h \in Deploy..head :
          worker' = [worker EXCEPT ![w] = [Idle EXCEPT !.pc = "scan",
                  !.from = FromBlock(Latest(h)), !.to = ToBlock(Latest(h))]]
    /\ scan' = [owner |-> w, live |-> TRUE]
    /\ UNCHANGED <<chain, cursor, rows, fails>>

\* claimScan, with the head some RPC reported.
ClaimScan(w) ==
    /\ worker[w] = Idle
    /\ \E h \in Deploy..head :
          /\ cursor <= Latest(h)
          /\ Claimable(scan) \/ scan.owner = w
          /\ worker' = [worker EXCEPT ![w] = [Idle EXCEPT !.pc = "scan",
                  !.from = FromBlock(Latest(h)), !.to = ToBlock(Latest(h))]]
    /\ scan' = [owner |-> w, live |-> TRUE]
    /\ UNCHANGED <<chain, cursor, rows, fails>>

\* The event queries of one scan run side by side, each against some RPC.
QueryRequested(w) ==
    /\ worker[w].pc = "scan" /\ worker[w].requested = None
    /\ \E s \in Views :
          worker' = [worker EXCEPT ![w].requested =
              {<<j, requestedAt[j]>> : j \in RequestedIn(worker[w].from, worker[w].to, s)}]
    /\ UNCHANGED <<chain, store, fails>>

QueryFinalized(w) ==
    /\ worker[w].pc = "scan" /\ worker[w].finalized = None
    /\ \E s \in Views :
          worker' = [worker EXCEPT ![w].finalized =
              FinalizedIn(worker[w].from, worker[w].to, s)]
    /\ UNCHANGED <<chain, store, fails>>

\* A row after the transaction of commitScan: orphaned if its event lies in
\* the range or above, restored or inserted if the scan saw the event, gone
\* if finalised, or orphaned without a live lease.
Rescanned(row, from) ==
    IF row # None /\ row.block >= from THEN [row EXCEPT !.orphaned = TRUE] ELSE row
Upserted(row, b) ==
    IF row = None THEN [block |-> b, orphaned |-> FALSE, owner |-> None, live |-> FALSE]
    ELSE [row EXCEPT !.block = b, !.orphaned = FALSE]
AfterScan(j, p) ==
    LET marked == Rescanned(rows[j], p.from)
        found  == {b \in Blocks : <<j, b>> \in p.requested}
        row    == IF found = {} THEN marked
                  ELSE Upserted(marked, CHOOSE b \in found : TRUE)
    IN  IF row = None \/ j \in p.finalized \/ (row.orphaned /\ Claimable(row))
        THEN None ELSE row

\* Mutant: the commit does not ask whose lease it is.
CommitScanUnfenced(w) ==
    /\ worker[w].pc = "scan"
    /\ worker[w].requested # None /\ worker[w].finalized # None
    /\ rows' = [j \in Jobs |-> AfterScan(j, worker[w])]
    /\ cursor' = MaxOf(cursor, worker[w].to + 1)
    /\ scan' = Free
    /\ worker' = [worker EXCEPT ![w] = Idle]
    /\ UNCHANGED <<chain, fails>>

\* commitScan, or, when the lease is no longer the instance's own, its error.
CommitScan(w) ==
    /\ worker[w].pc = "scan"
    /\ worker[w].requested # None /\ worker[w].finalized # None
    /\ IF scan.owner = w
       THEN /\ rows' = [j \in Jobs |-> AfterScan(j, worker[w])]
            /\ cursor' = MaxOf(cursor, worker[w].to + 1)
            /\ scan' = Free
       ELSE UNCHANGED store
    /\ worker' = [worker EXCEPT ![w] = Idle]
    /\ UNCHANGED <<chain, fails>>

\* A query throws: releaseScan.
ScanError(w) ==
    /\ worker[w].pc = "scan" /\ fails > 0
    /\ scan' = IF scan.owner = w THEN Free ELSE scan
    /\ worker' = [worker EXCEPT ![w] = Idle]
    /\ fails' = fails - 1
    /\ UNCHANGED <<chain, cursor, rows>>

-----------------------------------------------------------------------------
(* Serving requests *)

Eligible(j) == rows[j] # None /\ ~rows[j].orphaned /\ Claimable(rows[j])

\* claimRequest: the oldest eligible row.
ClaimRequest(w) ==
    /\ worker[w] = Idle
    /\ \E j \in Jobs :
          /\ Eligible(j)
          /\ \A k \in Jobs : Eligible(k) => rows[j].block <= rows[k].block
          /\ rows' = [rows EXCEPT ![j].owner = w, ![j].live = TRUE]
          /\ worker' = [worker EXCEPT ![w] = [Idle EXCEPT !.pc = "serve", !.job = j,
                                                              !.from = rows[j].block]]
    /\ UNCHANGED <<chain, cursor, scan, fails>>

Owns(w, j) == rows[j] # None /\ rows[j].owner = w

\* getRequest answers that the request is final, whoever made it so:
\* completeRequest deletes the row if still leased.
CompleteRequest(w) ==
    LET j == worker[w].job
    IN  /\ worker[w].pc = "serve"
        /\ \E s \in Views : FinalAt(j, s)
        /\ rows' = IF Owns(w, j) THEN [rows EXCEPT ![j] = None] ELSE rows
        /\ worker' = [worker EXCEPT ![w] = Idle]
        /\ UNCHANGED <<chain, cursor, scan, fails>>

\* Mutant: retryRequest gives up the lease whoever holds it.
GiveBackAnyLease(w, j) ==
    /\ rows' = IF rows[j] = None THEN rows
               ELSE [rows EXCEPT ![j].owner = None, ![j].live = FALSE]
    /\ worker' = [worker EXCEPT ![w] = Idle]

\* retryRequest: the row stays, its lease is given up if still held.
GiveBack(w, j) ==
    /\ rows' = IF Owns(w, j) THEN [rows EXCEPT ![j].owner = None, ![j].live = FALSE]
               ELSE rows
    /\ worker' = [worker EXCEPT ![w] = Idle]

\* getRequest reverts, before the work or in the catch block after it: the
\* RPC is behind the request, or a reorganisation took the request away.
RetryUnknown(w) ==
    /\ worker[w].pc = "serve"
    /\ \E s \in Views : UnknownAt(worker[w].job, s)
    /\ GiveBack(w, worker[w].job)
    /\ UNCHANGED <<chain, cursor, scan, fails>>

\* The attempt failed and the request is not final.
RetryRequest(w) ==
    /\ worker[w].pc = "serve" /\ fails > 0
    /\ GiveBack(w, worker[w].job)
    /\ fails' = fails - 1
    /\ UNCHANGED <<chain, cursor, scan>>

-----------------------------------------------------------------------------
(* The environment *)

NextBlock == head' = head + 1 /\ peak' = MaxOf(peak, head + 1)

Finalize(j) ==
    /\ Pending(j)
    /\ NextBlock
    /\ finalizedAt' = [finalizedAt EXCEPT ![j] = head + 1]
    /\ UNCHANGED requestedAt

\* The fulfilment an instance sent is included.
Fulfill(w) ==
    /\ worker[w].pc = "serve" /\ Finalize(worker[w].job)
    /\ UNCHANGED <<store, worker, fails>>

\* Someone else fulfils or expires the request.
SettleElsewhere(j) == Finalize(j) /\ UNCHANGED <<store, worker, fails>>

EmptyBlock ==
    /\ head < MaxBlock /\ NextBlock
    /\ UNCHANGED <<requestedAt, finalizedAt, store, worker, fails>>

\* Requests are bounded so that the chain outgrows them by what is scanned again.
Request(j) ==
    /\ requestedAt[j] = None /\ head < MaxBlock - Confirmations - Lookback
    /\ NextBlock
    /\ requestedAt' = [requestedAt EXCEPT ![j] = head + 1]
    /\ UNCHANGED <<finalizedAt, store, worker, fails>>

\* The newest blocks are replaced: their requests disappear (and may come
\* back), their finalisations are taken to stay.
Reorg ==
    \E h \in MaxOf(Deploy, peak - MaxReorg)..(head - 1) :
        /\ \A j \in Jobs : finalizedAt[j] # None => finalizedAt[j] <= h
        /\ head' = h
        /\ requestedAt' = [j \in Jobs |->
                IF requestedAt[j] # None /\ requestedAt[j] > h THEN None ELSE requestedAt[j]]
        /\ UNCHANGED <<peak, finalizedAt, store, worker, fails>>

\* The process dies.  Its leases stay; the next process has a new id.
Crash(w) ==
    /\ worker[w] # Idle /\ fails > 0
    /\ worker' = [worker EXCEPT ![w] = Idle]
    /\ scan' = IF scan.owner = w THEN [scan EXCEPT !.owner = Dead] ELSE scan
    /\ rows' = [j \in Jobs |-> IF Owns(w, j) THEN [rows[j] EXCEPT !.owner = Dead] ELSE rows[j]]
    /\ fails' = fails - 1
    /\ UNCHANGED <<chain, cursor>>

\* A lease runs out: of a dead instance, or of one that is still at work.
ExpireScan ==
    /\ scan.live
    /\ \/ scan.owner = Dead /\ UNCHANGED fails
       \/ scan.owner # Dead /\ fails > 0 /\ fails' = fails - 1
    /\ scan' = [scan EXCEPT !.live = FALSE]
    /\ UNCHANGED <<chain, cursor, rows, worker>>

ExpireRow(j) ==
    /\ rows[j] # None /\ rows[j].live
    /\ \/ rows[j].owner = Dead /\ UNCHANGED fails
       \/ rows[j].owner # Dead /\ fails > 0 /\ fails' = fails - 1
    /\ rows' = [rows EXCEPT ![j].live = FALSE]
    /\ UNCHANGED <<chain, cursor, scan, worker>>

Scanning(w) == ClaimScan(w) \/ QueryRequested(w) \/ QueryFinalized(w) \/ CommitScan(w)
Serving(w) == ClaimRequest(w) \/ CompleteRequest(w) \/ RetryUnknown(w) \/ Fulfill(w)

-----------------------------------------------------------------------------
(* Properties *)

\* No request is lost.  One whose event lies below the blocks that will be
\* scanned again, and that is still pending on chain, has a row that is not
\* orphaned - whatever instances crashed, scans overlapped, leases ran out,
\* RPCs lagged or blocks were replaced: else nobody would ever serve it.
NoRequestLost ==
    \A j \in Jobs :
        Pending(j) /\ requestedAt[j] < cursor - Lookback =>
            rows[j] # None /\ ~rows[j].orphaned

\* The range of the instance that holds the scan lease covers every row its
\* commit would orphan, and ends at the cursor or above: the cursor did not
\* move since the claim although the commit checks only the lease's owner.
ScanCoversRows ==
    \A w \in Workers : worker[w].pc = "scan" /\ scan.owner = w =>
        /\ worker[w].from <= cursor /\ cursor <= worker[w].to
        /\ \A j \in Jobs : rows[j] # None => rows[j].block <= worker[w].to

\* A live lease on a request is given up only by a step of its owner, by its
\* running out, or because the request is final on chain: instances whose
\* lease ran out do not disturb the one that took over.
LeaseHonoured ==
    [][\A j \in Jobs :
        rows[j] # None /\ rows[j].live /\ rows[j].owner \in Workers =>
            \/ rows'[j] # None /\ rows'[j].owner = rows[j].owner
            \/ worker'[rows[j].owner] # worker[rows[j].owner]
            \/ finalizedAt[j] # None]_vars

\* Every request is eventually fulfilled (or expired), and its row removed,
\* unless a reorganisation takes the request itself away.
EveryRequestServed ==
    \A j \in Jobs : (requestedAt[j] # None) ~>
        (requestedAt[j] = None \/ (finalizedAt[j] # None /\ rows[j] = None))

=============================================================================
