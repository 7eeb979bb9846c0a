----------------------------- MODULE OperatorLoop -----------------------------
(***************************************************************************)
(* The three programs that keep a queue of requests over the chain of      *)
(* OperatorStore:                                                          *)
(*   "postgres"  run-v2 of operator/cli.mjs with a database;               *)
(*   "compact"   the operator mode of operator/run-compact.mjs, the same   *)
(*               database plus an append-only table of event evidence;     *)
(*   "file"      run-v2 with --state: cursor and rows are the memory of    *)
(*               one process, which it saves whole to a JSON file.         *)
(***************************************************************************)
EXTENDS OperatorStore

CONSTANT Teams           \* program -> the instances that run it

\* Instances share a database; a state file has one process.
ASSUME LoopAssumption ==
    /\ DOMAIN Teams \subseteq {"postgres", "compact", "file"}
    /\ \A p \in DOMAIN Teams : Teams[p] \subseteq Workers
    /\ "file" \in DOMAIN Teams => \E w \in Workers : Teams["file"] = {w}

VARIABLES
    program,
    saved,       \* the JSON state file: [cursor, rows]
    evidence     \* vrf_compact_witness_events: <<request, block>> of an event

loopVars == <<vars, program, saved, evidence>>
own == <<program, saved, evidence>>

Memory == [cursor |-> cursor, rows |-> rows]

LoopInit ==
    /\ Init
    /\ program \in DOMAIN Teams
    /\ saved = Memory
    /\ evidence = {}

Team == Teams[program]

-----------------------------------------------------------------------------
(* The compact worker *)

\* compactEvents: request and finalisation events come from one query, on
\* which endpoints that all have the last block of the range agree.
compactEvents(w) ==
    /\ worker[w].pc = "scan" /\ worker[w].requested = None
    /\ worker[w].to <= head
    /\ worker' = [worker EXCEPT
            ![w].requested = {<<j, requestedAt[j]>> : j \in RequestedIn(worker[w].from, worker[w].to, head)},
            ![w].finalized = FinalizedIn(worker[w].from, worker[w].to, head)]
    /\ UNCHANGED <<chain, store, fails, own>>

\* A reorganisation took that block away: the scan throws and gives its lease back.
abortCompactScan(w) ==
    /\ worker[w].pc = "scan" /\ worker[w].requested = None
    /\ worker[w].to > head
    /\ scan' = IF scan.owner = w THEN Free ELSE scan
    /\ worker' = [worker EXCEPT ![w] = Idle]
    /\ UNCHANGED <<chain, cursor, rows, fails, own>>

EventsOf(p) == p.requested \cup {<<j, finalizedAt[j]>> : j \in p.finalized}

\* saveWitnessEvents comes before commitScan.
saveWitnessEvents(w) ==
    /\ worker[w].pc = "scan" /\ worker[w].requested # None
    /\ ~(EventsOf(worker[w]) \subseteq evidence)
    /\ evidence' = evidence \cup EventsOf(worker[w])
    /\ UNCHANGED <<vars, program, saved>>

\* Mutant: the scan is committed before its events are saved.
commitBeforeEvidence(w) == CommitScan(w) /\ UNCHANGED own

commitCompactScan(w) ==
    /\ CommitScan(w)
    /\ EventsOf(worker[w]) \subseteq evidence
    /\ UNCHANGED own

\* anchorFor and authenticatedState: at a block all endpoints have, the
\* history from the block of the claimed row on must begin with the creation
\* and end in the committed state; without the creation the call throws.
recoverCompactRequest(j, from, anchor) ==
    CASE requestedAt[j] \notin from..anchor -> "error"
      [] requestedAt[j] \in from..anchor /\ finalizedAt[j] \in from..anchor -> "final"
      [] OTHER -> "pending"

Recovered(w) == {recoverCompactRequest(worker[w].job, worker[w].from, s) : s \in Views}

\* prepareCompactTransaction recovers the pending request before it is sent.
sendCompactClaim(w) == Fulfill(w) /\ "pending" \in Recovered(w) /\ UNCHANGED own

\* fulfillCompactClaim ends with a state that is final on all endpoints.
completeCompactClaim(w) ==
    LET j == worker[w].job
    IN  /\ worker[w].pc = "serve"
        /\ "final" \in Recovered(w)
        /\ rows' = IF Owns(w, j) THEN [rows EXCEPT ![j] = None] ELSE rows
        /\ worker' = [worker EXCEPT ![w] = Idle]
        /\ UNCHANGED <<chain, cursor, scan, fails, own>>

\* The claimed row names a block from which on the chain, reorganised since,
\* has no creation event: recovery throws until a scan has corrected the row.
retryStaleClaim(w) ==
    /\ worker[w].pc = "serve" /\ requestedAt[worker[w].job] \notin worker[w].from..head
    /\ GiveBack(w, worker[w].job)
    /\ UNCHANGED <<chain, cursor, scan, fails, own>>

-----------------------------------------------------------------------------
(* The operator with a state file *)

\* loadServiceState, at every start.
LoadState == cursor' = saved.cursor /\ rows' = saved.rows

writeJsonAtomic == saved' = Memory'

\* scanServiceEvents drops what it is about to scan again, in memory only.
beginFileScan(w) ==
    /\ worker[w] = Idle
    /\ \E h \in Deploy..head :
        LET from == FromBlock(Latest(h))
        IN  /\ cursor <= Latest(h)
            /\ worker' = [worker EXCEPT ![w] = [Idle EXCEPT !.pc = "scan",
                   !.from = from, !.to = ToBlock(Latest(h))]]
            /\ rows' = [j \in Jobs |->
                   IF rows[j] # None /\ rows[j].block >= from THEN None ELSE rows[j]]
    /\ UNCHANGED <<chain, cursor, scan, fails, own>>

\* An RPC reports a head below the cursor: the scan returns at once.
skipFileScan(w) ==
    /\ worker[w] = Idle /\ \E h \in Deploy..head : cursor > Latest(h)
    /\ worker' = [worker EXCEPT ![w].pc = "loop"]
    /\ UNCHANGED <<chain, store, fails, own>>

\* The queries are back: rows in, finalised rows out, cursor on, file saved.
finishFileScan(w) ==
    /\ worker[w].pc = "scan"
    /\ worker[w].requested # None /\ worker[w].finalized # None
    /\ rows' = [j \in Jobs |->
          LET found == {b \in Blocks : <<j, b>> \in worker[w].requested}
          IN  IF j \in worker[w].finalized THEN None
              ELSE IF found # {} THEN Upserted(None, CHOOSE b \in found : TRUE)
              ELSE rows[j]]
    /\ cursor' = MaxOf(cursor, worker[w].to + 1)
    /\ writeJsonAtomic
    /\ worker' = [worker EXCEPT ![w] = [Idle EXCEPT !.pc = "loop"]]
    /\ UNCHANGED <<chain, scan, fails, program, evidence>>

\* Mutant: the cursor moves on although the scan failed.
fileScanErrorMovesOn(w) ==
    /\ worker[w].pc = "scan" /\ fails > 0 /\ fails' = fails - 1
    /\ cursor' = MaxOf(cursor, worker[w].to + 1) /\ UNCHANGED rows
    /\ writeJsonAtomic
    /\ worker' = [worker EXCEPT ![w] = Idle]
    /\ UNCHANGED <<chain, scan, program, evidence>>

\* A query throws; the iteration ends, with the rows dropped in memory.
fileScanError(w) ==
    /\ worker[w].pc = "scan" /\ fails > 0 /\ fails' = fails - 1
    /\ worker' = [worker EXCEPT ![w] = Idle]
    /\ UNCHANGED <<chain, store, own>>

serveFromFile(w) ==
    /\ worker[w].pc = "loop"
    /\ \E j \in Jobs : rows[j] # None /\ worker' = [worker EXCEPT ![w].pc = "serve", ![w].job = j]
    /\ UNCHANGED <<chain, store, fails, own>>

BackToLoop(w) == worker' = [worker EXCEPT ![w] = [Idle EXCEPT !.pc = "loop"]]

\* The request is final: dropped in memory on the first read, and saved after
\* a fulfilment or a failed attempt.
completeFromFile(w) ==
    /\ worker[w].pc = "serve"
    /\ \E s \in Views : FinalAt(worker[w].job, s)
    /\ rows' = [rows EXCEPT ![worker[w].job] = None]
    /\ UNCHANGED cursor
    /\ writeJsonAtomic \/ UNCHANGED saved
    /\ BackToLoop(w)
    /\ UNCHANGED <<chain, scan, fails, program, evidence>>

\* getRequest reverts where the RPC does not have the request: the row stays.
retryUnknownFromFile(w) ==
    /\ worker[w].pc = "serve"
    /\ \E s \in Views : UnknownAt(worker[w].job, s)
    /\ BackToLoop(w)
    /\ UNCHANGED <<chain, store, fails, own>>

\* The attempt failed and the request is still pending: the row stays.
retryFromFile(w) ==
    /\ worker[w].pc = "serve" /\ fails > 0 /\ fails' = fails - 1
    /\ BackToLoop(w)
    /\ UNCHANGED <<chain, store, own>>

endIteration(w) ==
    /\ worker[w].pc = "loop"
    /\ worker' = [worker EXCEPT ![w] = Idle]
    /\ UNCHANGED <<chain, store, fails, own>>

restartFromFile(w) ==
    /\ fails > 0 /\ fails' = fails - 1
    /\ LoadState
    /\ worker' = [worker EXCEPT ![w] = Idle]
    /\ UNCHANGED <<chain, scan, own>>

-----------------------------------------------------------------------------
Scan(w) ==
    \/ program = "postgres" /\ Scanning(w) /\ UNCHANGED own
    \/ /\ program = "compact"
       /\ \/ ClaimScan(w) /\ UNCHANGED own
          \/ compactEvents(w) \/ abortCompactScan(w)
          \/ saveWitnessEvents(w) \/ commitCompactScan(w)
    \/ /\ program = "file"
       /\ \/ beginFileScan(w) \/ skipFileScan(w) \/ finishFileScan(w)
          \/ (QueryRequested(w) \/ QueryFinalized(w)) /\ UNCHANGED own

Serve(w) ==
    \/ program = "postgres" /\ Serving(w) /\ UNCHANGED own
    \/ /\ program = "compact"
       /\ \/ ClaimRequest(w) /\ UNCHANGED own
          \/ sendCompactClaim(w) \/ completeCompactClaim(w) \/ retryStaleClaim(w)
    \/ /\ program = "file"
       /\ \/ serveFromFile(w) \/ completeFromFile(w) \/ retryUnknownFromFile(w)
          \/ Fulfill(w) /\ UNCHANGED own

Failure(w) ==
    IF program = "file"
    THEN fileScanError(w) \/ retryFromFile(w) \/ restartFromFile(w)
    ELSE (ScanError(w) \/ RetryRequest(w) \/ Crash(w)) /\ UNCHANGED own

Environment ==
    /\ \/ \E j \in Jobs : SettleElsewhere(j) \/ Request(j) \/ ExpireRow(j)
       \/ EmptyBlock \/ Reorg \/ ExpireScan
    /\ UNCHANGED own

LoopNext ==
    \/ \E w \in Team : Scan(w) \/ Serve(w) \/ endIteration(w) \/ Failure(w)
    \/ Environment

LoopSpec == LoopInit /\ [][LoopNext]_loopVars

(* Blocks are produced and at last stay, an instance that can go on does,  *)
(* a lagging RPC does not answer every poll, and a dead instance's lease   *)
(* runs out.                                                               *)
LoopFairness ==
    /\ WF_loopVars(EmptyBlock /\ UNCHANGED own) /\ <>[][~(Reorg /\ UNCHANGED own)]_loopVars
    /\ \A w \in Workers :
        /\ WF_loopVars(w \in Team /\ (Scan(w) \/ endIteration(w)))
        /\ SF_loopVars(w \in Team /\ Serve(w))
        /\ SF_loopVars(program = "file" /\ w \in Team /\ beginFileScan(w))
    /\ WF_loopVars(scan.owner = Dead /\ ExpireScan /\ UNCHANGED own)
    /\ \A j \in Jobs :
        WF_loopVars(rows[j] # None /\ rows[j].owner = Dead /\ ExpireRow(j) /\ UNCHANGED own)

LoopFairSpec == LoopSpec /\ LoopFairness

-----------------------------------------------------------------------------
(* Properties *)

(* The state file alone never loses a request: one below the blocks that a *)
(* restart would scan again, and still pending on chain, is in the file -  *)
(* although failed scans drop rows in memory, completions save that memory *)
(* with the old cursor, and other drops are not saved at all               *)
(* (scanServiceEvents, the loop of runService).                            *)
SavedCoversPending ==
    program = "file" =>
        \A j \in Jobs :
            Pending(j) /\ requestedAt[j] < saved.cursor - Lookback => saved.rows[j] # None

(* Once the scan has moved on for good, every event of a request is in the *)
(* evidence table, also when an instance died between saving and           *)
(* committing or committed after its lease was taken over (compactScan).   *)
EvidenceComplete ==
    program = "compact" =>
        \A j \in Jobs :
            /\ requestedAt[j] # None /\ requestedAt[j] < cursor - Lookback
                => <<j, requestedAt[j]>> \in evidence
            /\ finalizedAt[j] # None /\ finalizedAt[j] < cursor - Lookback
                => <<j, finalizedAt[j]>> \in evidence
=============================================================================
