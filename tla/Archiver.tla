------------------------------- MODULE Archiver -------------------------------
(***************************************************************************)
(* The process that stores the block hash of a pending request before the  *)
(* chain forgets it, in its two forms: "service" for V2 requests           *)
(* (operator/archiver.mjs) and "compact" for V3 requests (the archiver     *)
(* mode of operator/run-compact.mjs with compactArchiveCycle).             *)
(*                                                                         *)
(* The process keeps one file, replaced atomically and synced: the fees it *)
(* may spend and has reserved, the last head it covered, and the anomalies *)
(* an operator must see.  Everything else is lost when it stops.           *)
(***************************************************************************)
EXTENDS BlockhashStore

CONSTANTS
    Requests,
    Confirmations,      \* 2: the snapshot stays this far behind the slowest RPC
    Lookback,           \* 512: blocks of events one cycle reads
    MaxGap,             \* 192: distance of two checkpoints that is no gap
    Skew,               \* 32: how far RPC heads may be apart
    ArchiveAfter,       \* 32: age at which a request is archived
    Maxima,             \* values of --maximum-total-fee-wei
    Costs,              \* gasLimit * gasPrice of one transaction
    LastRequest,        \* bound: no request after this block
    MaxFaults,          \* bound: crashes, failing reads and sends, lost transactions
    None

VARIABLES
    program,            \* "service" or "compact"
    block, done,        \* request -> block it was made in, was finalized in, or None
    file,               \* the state file, or None
    pc,                 \* "down", "idle", "loop", "send", "broadcast", "wait"
    head, todo,         \* the running cycle: its snapshot, requests to look at
    current, cost,      \* the request being sent, its reserved fee
    tx,                 \* the relayer's last transaction: its request and fate
    spent,              \* fees of all transactions ever broadcast
    late, unseen,       \* history: requests out of range at the first checkpoint;
                        \* requests a cycle gave up on after their window
    faults

requestVars == <<block, done>>
cycleVars == <<head, todo, current, cost>>
history == <<late, unseen>>
vars == <<chainVars, requestVars, program, file, pc, cycleVars, tx, spent, history, faults>>

\* What the state file may hold.
Files == [maximum : Nat, reserved : Nat, lastHead : Nat \cup {None},
          coverageGap : BOOLEAN, budgetBlocked : BOOLEAN, missed : SUBSET Requests]

ASSUME ArchiverAssumption ==
    /\ {Confirmations, Lookback, MaxGap, Skew, ArchiveAfter} \subseteq Nat
    /\ MaxGap <= Lookback - 1 - BLOCKHASH_WINDOW + Confirmations - Skew
    /\ ArchiveAfter < BLOCKHASH_WINDOW /\ Confirmations <= BLOCKHASH_WINDOW
    /\ Maxima \subseteq Nat \ {0} /\ Costs \subseteq Nat \ {0}
    /\ None \notin Nat \cup Files

NoTx == [request |-> None, status |-> "none"]

Init ==
    /\ ChainInit
    /\ program \in {"service", "compact"}
    /\ block = [r \in Requests |-> None] /\ done = [r \in Requests |-> None]
    /\ file = None /\ pc = "down"
    /\ head = None /\ todo = {} /\ current = None /\ cost = 0
    /\ tx = NoTx /\ spent = 0
    /\ late = {} /\ unseen = {}
    /\ faults = 0

Fault == faults < MaxFaults /\ faults' = faults + 1

------------------------------------------------------------------------------
(* The chain. *)

NewBlock ==
    /\ Mine
    /\ UNCHANGED <<requestVars, program, file, pc, cycleVars, tx, spent, history, faults>>

requestRandomWords(r) ==
    /\ block[r] = None /\ blockNumber <= LastRequest
    /\ block' = [block EXCEPT ![r] = blockNumber]
    /\ UNCHANGED <<chainVars, done, program, file, pc, cycleVars, tx, spent, history, faults>>

\* The operator fulfils the request or somebody expires it.
Finalize(r) ==
    /\ block[r] # None /\ done[r] = None /\ blockNumber > block[r]
    /\ done' = [done EXCEPT ![r] = blockNumber]
    /\ UNCHANGED <<chainVars, block, program, file, pc, cycleVars, tx, spent, history, faults>>

\* The transaction is included: the store accepts the block or reverts.
Include ==
    /\ tx.status = "pending"
    /\ \/ Store(block[tx.request]) /\ tx' = [tx EXCEPT !.status = "ok"]
       \/ /\ ~ContextHasHash(block[tx.request])
          /\ tx' = [tx EXCEPT !.status = "reverted"]
          /\ UNCHANGED chainVars
    /\ UNCHANGED <<requestVars, program, file, pc, cycleVars, spent, history, faults>>

\* The transaction never reaches a block and its nonce becomes free again.
Drop ==
    /\ tx.status = "pending" /\ Fault
    /\ tx' = [tx EXCEPT !.status = "dropped"]
    /\ UNCHANGED <<chainVars, requestVars, program, file, pc, cycleVars, spent, history>>

------------------------------------------------------------------------------
(* ArchiveBudget. *)

remaining == file.maximum - file.reserved

\* Mutant: reservations are forgotten at a start.
StartFresh(maximum) ==
    /\ pc = "down"
    /\ file' = [maximum |-> maximum, reserved |-> 0,
                lastHead |-> IF file = None THEN None ELSE file.lastHead,
                coverageGap |-> FALSE, budgetBlocked |-> FALSE, missed |-> {}]
    /\ pc' = "idle"
    /\ UNCHANGED <<chainVars, requestVars, program, cycleVars, tx, spent, history, faults>>

\* The constructor: a new file, or the old one if its maximum is the same.
Start(maximum) ==
    /\ pc = "down"
    /\ IF file = None
       THEN file' = [maximum |-> maximum, reserved |-> 0, lastHead |-> None,
                     coverageGap |-> FALSE, budgetBlocked |-> FALSE, missed |-> {}]
       ELSE file.maximum = maximum /\ file.reserved <= maximum /\ UNCHANGED file
    /\ pc' = "idle"
    /\ UNCHANGED <<chainVars, requestVars, program, cycleVars, tx, spent, history, faults>>

checkpoint(h) ==
    [file EXCEPT !.lastHead = h,
                 !.coverageGap = @ \/ (file.lastHead # None /\ h - file.lastHead > MaxGap)]

\* reserve: the file after a successful reservation.
reserve(c) == [file EXCEPT !.reserved = @ + c]

recordMissed(r) == [file EXCEPT !.missed = @ \cup {r}]

------------------------------------------------------------------------------
(* One cycle. *)

\* Mutant: a request past its window is taken for a young one.
archiveDecisionBlind(status, stored, fresh, requestBlock) ==
    CASE status # "pending" -> "finalized"
      [] status = "pending" /\ stored -> "protected"
      [] status = "pending" /\ ~stored /\ fresh - requestBlock \in ArchiveAfter..BLOCKHASH_WINDOW
            -> "archive"
      [] OTHER -> "young"

archiveDecision(status, stored, fresh, requestBlock) ==
    CASE status # "pending" -> "finalized"
      [] status = "pending" /\ stored -> "protected"
      [] status = "pending" /\ ~stored /\ fresh - requestBlock > BLOCKHASH_WINDOW -> "missed-window"
      [] status = "pending" /\ ~stored /\ fresh - requestBlock \in ArchiveAfter..BLOCKHASH_WINDOW
            -> "archive"
      [] OTHER -> "young"

\* The heads that endpoints report: not older than Skew, or the cycle throws.
Heads == (blockNumber - Skew)..blockNumber

\* Mutant: events are read as far back as hashes are available.
EventsInWindow(h) ==
    {r \in Requests : block[r] # None /\ block[r] \in (h - BLOCKHASH_WINDOW)..h}

\* snapshot: the requests of the last Lookback confirmed blocks.
EventsUpTo(h) == {r \in Requests : block[r] # None /\ block[r] \in (h - (Lookback - 1))..h}

Older(h) == {r \in Requests : block[r] # None /\ block[r] < h - (Lookback - 1)}

Snapshot(lowest) ==
    /\ pc = "idle"
    /\ lowest - Confirmations >= 0
    /\ head' = lowest - Confirmations
    /\ todo' = EventsUpTo(head')
    /\ pc' = "loop"
    /\ UNCHANGED <<chainVars, requestVars, program, file, current, cost, tx, spent, history, faults>>

Oldest(r) == r \in todo /\ \A q \in todo : block[r] <= block[q]

NextRequest(r) == pc' = "loop" /\ todo' = todo \ {r} /\ current' = None /\ UNCHANGED <<head, cost, unseen>>

\* An error ends the request's turn in a service cycle, which goes on to its
\* checkpoint; it ends a whole compact cycle, without one.
Throw(r) ==
    /\ current' = None /\ cost' = 0
    /\ IF program = "service"
       THEN /\ pc' = "loop" /\ todo' = todo \ {r} /\ UNCHANGED head
            /\ unseen' = IF blockNumber > block[r] + BLOCKHASH_WINDOW
                         THEN unseen \cup {r} ELSE unseen
       ELSE pc' = "idle" /\ head' = None /\ todo' = {} /\ UNCHANGED unseen

\* The status is read at the snapshot, the archive and the height afresh
\* (compact: everything afresh).
StatusRead(r) ==
    IF done[r] = None \/ (program = "service" /\ done[r] > head) THEN "pending" ELSE "final"

Inspect(r, fresh) ==
    /\ pc = "loop" /\ Oldest(r)
    /\ LET action == archiveDecision(StatusRead(r), block[r] \in blockhashes, fresh, block[r])
       IN  /\ file' = IF action = "missed-window" THEN recordMissed(r) ELSE file
           /\ IF action = "archive"
              THEN pc' = "send" /\ current' = r /\ UNCHANGED <<head, todo, cost, unseen>>
              ELSE NextRequest(r)
    /\ UNCHANGED <<chainVars, requestVars, program, tx, spent, late, faults>>

\* Endpoints disagree, or one does not answer.
InspectFails(r) ==
    /\ pc = "loop" /\ Oldest(r) /\ Fault
    /\ Throw(r)
    /\ UNCHANGED <<chainVars, requestVars, program, file, tx, spent, late>>

\* sendArchive up to the reservation.  A balance below the floor, a busy
\* nonce lock, a gas price above the lane are faults.
Send(c) ==
    /\ pc = "send"
    /\ LET r == current
       IN  \/ /\ program = "service" /\ block[r] \in blockhashes
              /\ NextRequest(r) /\ UNCHANGED <<file, faults>>
           \/ /\ tx.status = "pending" \/ ~ContextHasHash(block[r])   \* reconcile, estimateGas
              /\ Throw(r) /\ UNCHANGED <<file, faults>>
           \/ Fault /\ Throw(r) /\ UNCHANGED file
           \/ /\ tx.status # "pending" /\ ContextHasHash(block[r]) /\ c > remaining
              /\ file' = [file EXCEPT !.budgetBlocked = TRUE]
              /\ Throw(r) /\ UNCHANGED faults
           \/ /\ tx.status # "pending" /\ ContextHasHash(block[r]) /\ c <= remaining
              /\ file' = reserve(c) /\ cost' = c
              /\ pc' = "broadcast" /\ UNCHANGED <<head, todo, current, unseen, faults>>
    /\ UNCHANGED <<chainVars, requestVars, program, tx, spent, late>>

Broadcast ==
    /\ pc = "broadcast"
    /\ tx' = [request |-> current, status |-> "pending"]
    /\ spent' = spent + cost
    /\ cost' = 0 /\ pc' = "wait"
    /\ UNCHANGED <<chainVars, requestVars, program, file, head, todo, current, history, faults>>

\* The lease is lost or the journal cannot be written: the fee stays reserved.
BroadcastFails ==
    /\ pc = "broadcast" /\ Fault
    /\ Throw(current)
    /\ UNCHANGED <<chainVars, requestVars, program, file, tx, spent, late>>

Receipt ==
    /\ pc = "wait" /\ tx.status \in {"ok", "reverted"}
    /\ IF tx.status = "ok" THEN NextRequest(current) ELSE Throw(current)
    /\ UNCHANGED <<chainVars, requestVars, program, file, tx, spent, late, faults>>

\* No receipt in time; the transaction stays where it is.
Timeout ==
    /\ pc = "wait" /\ Throw(current)
    /\ UNCHANGED <<chainVars, requestVars, program, file, tx, spent, late, faults>>

EndCycle ==
    /\ pc = "loop" /\ todo = {}
    /\ file' = checkpoint(head)
    /\ late' = IF file.lastHead = None THEN Older(head) ELSE late
    /\ pc' = "idle" /\ head' = None
    /\ UNCHANGED <<chainVars, requestVars, program, todo, current, cost, tx, spent, unseen, faults>>

Crash ==
    /\ pc # "down" /\ Fault
    /\ pc' = "down" /\ head' = None /\ todo' = {} /\ current' = None /\ cost' = 0
    /\ UNCHANGED <<chainVars, requestVars, program, file, tx, spent, history>>

Process ==
    \/ \E m \in Maxima : Start(m)
    \/ \E h \in Heads : Snapshot(h)
    \/ \E r \in Requests, h \in Heads : Inspect(r, h)
    \/ \E c \in Costs : Send(c)
    \/ Broadcast \/ Receipt \/ Timeout \/ EndCycle

Environment ==
    \/ NewBlock \/ Include \/ Drop
    \/ \E r \in Requests : requestRandomWords(r) \/ Finalize(r)

Next ==
    \/ Process \/ Environment
    \/ \E r \in Requests : InspectFails(r)
    \/ BroadcastFails \/ Crash

Spec == Init /\ [][Next]_vars

(* The supervisor restarts the process, which keeps polling; the chain     *)
(* grows and includes what it is sent.                                     *)
FairSpec == Spec /\ WF_vars(Process) /\ WF_vars(NewBlock) /\ WF_vars(Include)
------------------------------------------------------------------------------
(* Properties *)

(* The fees of all transactions ever broadcast stay within the maximum of  *)
(* the state file, whatever crashes, failed broadcasts, timeouts and       *)
(* restarts come between a reservation and its transaction.                *)
SpendWithinBudget ==
    IF file = None THEN spent = 0
    ELSE spent + cost <= file.reserved /\ file.reserved <= file.maximum

(* A pending request that no stored hash protects never leaves the range   *)
(* of the event scan unnoticed: by then it is on the list of missed ones   *)
(* or a gap is on record.  This rests on the distances of checkpoint gap,  *)
(* blockhash window, scan range and RPC skew.  A service cycle that threw  *)
(* for the request after its window and went on is excepted.               *)
LeftRange(r) ==
    /\ block[r] # None /\ done[r] = None /\ block[r] \notin blockhashes
    /\ file # None /\ file.lastHead # None
    /\ r \notin late
    /\ block[r] + Lookback <= file.lastHead

NoSilentMiss ==
    \A r \in Requests : LeftRange(r) =>
        file.coverageGap \/ r \in file.missed \/ r \in unseen

(* Every request is in the end protected or finalized, or an anomaly that  *)
(* stays on record says why not.                                           *)
EveryRequestSettled ==
    \A r \in Requests :
        block[r] # None ~>
            \/ done[r] # None \/ block[r] \in blockhashes
            \/ r \in late \/ r \in unseen
            \/ /\ file # None
               /\ file.coverageGap \/ file.budgetBlocked \/ r \in file.missed
==============================================================================
