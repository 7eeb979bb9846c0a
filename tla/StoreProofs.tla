----------------------------- MODULE StoreProofs -----------------------------
(***************************************************************************)
(* For any number of instances, requests, failures, reorganisations and    *)
(* lagging endpoints within StoreAssumption, and for the three programs of *)
(* OperatorLoop: no request is lost, neither from the queue nor from the   *)
(* state file, the evidence is complete, and leases are honoured.          *)
(*                                                                         *)
(* The argument is about heights.  Blocks up to peak - MaxReorg never      *)
(* change, and every endpoint has those up to peak - MaxReorg - MaxLag.    *)
(* A scan ends Confirmations below a head that was reported, so what lies  *)
(* Lookback below its end was seen by its queries, as it will always be:   *)
(* the cursor leaves nothing behind.  The invariant says this of the       *)
(* queue, of the state file and of every scan under way, and that the scan *)
(* of the lease's holder began at the cursor as it still stands.           *)
(***************************************************************************)
EXTENDS OperatorLoop, TLAPS

Heights == [Jobs -> Int \cup {None}]
Tables == [Jobs -> Rows \cup {None}]
Procs == [pc : {"idle", "scan", "loop", "serve"}, job : Jobs \cup {None},
          from : Int, to : Int,
          requested : (SUBSET (Jobs \X Int)) \cup {None},
          finalized : (SUBSET Jobs) \cup {None}]

TypeInv ==
    /\ head \in Int /\ peak \in Int /\ cursor \in Int
    /\ requestedAt \in Heights /\ finalizedAt \in Heights
    /\ rows \in Tables
    /\ scan \in [owner : Workers \cup {None, Dead}, live : BOOLEAN]
    /\ worker \in [Workers -> Procs]
    /\ program \in DOMAIN Teams
    /\ saved \in [cursor : Int, rows : Tables]

\* The chain stays within MaxReorg of its peak, and what is on it is below
\* its head.
ChainSound ==
    /\ Deploy <= head /\ head <= peak /\ peak - MaxReorg <= head
    /\ \A j \in Jobs : requestedAt[j] # None =>
          Deploy < requestedAt[j] /\ requestedAt[j] <= head /\ requestedAt[j] <= MaxBlock
    /\ \A j \in Jobs : finalizedAt[j] # None =>
          Deploy < finalizedAt[j] /\ finalizedAt[j] <= head

\* A table with its cursor: the cursor is no further than confirmed blocks,
\* rows are below it, and pending requests that will not be scanned again
\* have their row.
Covers(c, R) ==
    /\ Deploy <= c /\ c <= Latest(peak) + 1
    /\ \A j \in Jobs : R[j] # None => R[j].block < c
    /\ \A j \in Jobs : Pending(j) /\ requestedAt[j] < c - Lookback =>
          R[j] # None /\ ~R[j].orphaned /\ R[j].block = requestedAt[j]

\* The answers a scan holds: of its range, with every event that can no
\* longer change, and none of a request that lies below.
SawRequested(p) ==
    /\ \A x \in p.requested : p.from <= x[2] /\ x[2] <= p.to /\ x[2] <= MaxBlock
    /\ \A x, y \in p.requested : x[1] = y[1] => x[2] = y[2]
    /\ \A j \in Jobs :
          requestedAt[j] # None /\ p.from <= requestedAt[j] /\ requestedAt[j] <= p.to - Lookback
            => <<j, requestedAt[j]>> \in p.requested
    /\ \A j \in Jobs :
          requestedAt[j] # None /\ requestedAt[j] < p.from
            => \A x \in p.requested : x[1] # j

SawFinalized(p) ==
    /\ \A j \in p.finalized : finalizedAt[j] # None
    /\ \A j \in Jobs :
          finalizedAt[j] # None /\ p.from <= finalizedAt[j] /\ finalizedAt[j] <= p.to - Lookback
            => j \in p.finalized

ScanSound(p) ==
    p.pc = "scan" =>
        /\ Deploy <= p.from /\ p.to <= Latest(peak) /\ p.from <= MaxOf(Deploy, peak - MaxReorg)
        /\ p.requested # None => SawRequested(p)
        /\ p.finalized # None => SawFinalized(p)

\* The one whose commit counts scans from the cursor.
Holds(w) == program = "file" \/ scan.owner = w

HoldersSound ==
    \A w \in Workers : worker[w].pc = "scan" /\ Holds(w) =>
        worker[w].from = MaxOf(Deploy, cursor - Lookback) /\ cursor <= worker[w].to

TeamOnly ==
    \A w \in Workers :
        /\ worker[w].pc # "idle" => w \in Team
        /\ worker[w].pc = "serve" => worker[w].job \in Jobs

\* Nobody leases the rows of a state file.
FileRowsFree ==
    program = "file" =>
        \A j \in Jobs : /\ rows[j] # None => ~rows[j].live
                        /\ saved.rows[j] # None => ~saved.rows[j].live

\* The inductive invariant.
StoreInv ==
    /\ TypeInv /\ ChainSound
    /\ Covers(cursor, rows) /\ Covers(saved.cursor, saved.rows)
    /\ \A w \in Workers : ScanSound(worker[w])
    /\ HoldersSound /\ TeamOnly /\ FileRowsFree
    /\ EvidenceComplete

-----------------------------------------------------------------------------
(* What the bounds give *)

\* A block this far down is on every endpoint, and below every reorganisation.
LEMMA Buried ==
    ASSUME TypeInv, ChainSound, NEW b \in Int, Deploy < b, b <= Latest(peak) - Lookback
    PROVE  b <= peak - MaxReorg - MaxLag /\ b <= head - MaxLag
BY StoreAssumption DEF TypeInv, ChainSound, Latest, MaxOf

\* What a claim computes from the head an endpoint reported.
LEMMA ClaimedRange ==
    ASSUME TypeInv, ChainSound, Covers(cursor, rows),
           NEW h \in Deploy..head, cursor <= Latest(h)
    PROVE  LET f == FromBlock(Latest(h)) t == ToBlock(Latest(h))
           IN  /\ f \in Int /\ t \in Int
               /\ f = MaxOf(Deploy, cursor - Lookback) /\ Deploy <= f
               /\ cursor <= t /\ t <= Latest(peak)
               /\ f <= MaxOf(Deploy, peak - MaxReorg)
<1>1. /\ Deploy \in Int /\ head \in Int /\ peak \in Int /\ cursor \in Int
      /\ h \in Int /\ Deploy <= h /\ h <= peak /\ Deploy <= cursor
  BY StoreAssumption DEF TypeInv, ChainSound, Covers
<1>2. Latest(h) \in Int /\ Latest(h) <= Latest(peak) /\ MinOf(cursor, Latest(h)) = cursor
  BY <1>1, StoreAssumption DEF Latest, MaxOf, MinOf
<1>3. FromBlock(Latest(h)) = MaxOf(Deploy, cursor - Lookback)
  BY <1>2 DEF FromBlock
<1> QED
  BY <1>1, <1>2, <1>3, StoreAssumption DEF ToBlock, MaxOf, MinOf, Latest

-----------------------------------------------------------------------------
(* Steps of the chain *)

\* What any step of the chain does: it never lowers the peak, and what it
\* adds is above every block that can no longer change.
Floor == MaxOf(Deploy, peak - MaxReorg)

ChainStep ==
    /\ head' \in Int /\ peak' \in Int /\ requestedAt' \in Heights /\ finalizedAt' \in Heights
    /\ peak <= peak' /\ ChainSound'
    /\ \A j \in Jobs : requestedAt'[j] # None =>
          requestedAt'[j] = requestedAt[j] \/ Floor < requestedAt'[j]
    /\ \A j \in Jobs : finalizedAt'[j] # finalizedAt[j] =>
          finalizedAt[j] = None /\ finalizedAt'[j] # None /\ Floor < finalizedAt'[j]

\* Blocks Lookback below a confirmed block are below the floor.
LEMMA BelowFloor ==
    ASSUME TypeInv, ChainSound, NEW c \in Int, c <= Latest(peak) + 1
    PROVE  c - Lookback - 1 <= Floor /\ Floor \in Int /\ Latest(peak) \in Int
BY StoreAssumption DEF TypeInv, ChainSound, Latest, MaxOf, Floor

LEMMA PeakGrows ==
    ASSUME TypeInv, peak' \in Int, peak <= peak'
    PROVE  /\ Latest(peak) \in Int /\ Latest(peak') \in Int /\ Latest(peak) <= Latest(peak')
           /\ Floor \in Int /\ MaxOf(Deploy, peak' - MaxReorg) \in Int
           /\ Floor <= MaxOf(Deploy, peak' - MaxReorg)
BY StoreAssumption DEF TypeInv, Latest, MaxOf, Floor

LEMMA ChainCovers ==
    ASSUME TypeInv, ChainSound, ChainStep, NEW c \in Int, NEW R \in Tables, Covers(c, R)
    PROVE  /\ Deploy <= c /\ c <= Latest(peak') + 1
           /\ \A j \in Jobs : R[j] # None => R[j].block < c
           /\ \A j \in Jobs : Pending(j)' /\ requestedAt'[j] < c - Lookback =>
                 R[j] # None /\ ~R[j].orphaned /\ R[j].block = requestedAt'[j]
<1>1. Deploy <= c /\ c <= Latest(peak') + 1
  BY PeakGrows DEF ChainStep, Covers
<1>2. \A j \in Jobs : R[j] # None => R[j].block < c
  BY DEF Covers
<1>3. ASSUME NEW j \in Jobs, Pending(j)', requestedAt'[j] < c - Lookback
      PROVE  R[j] # None /\ ~R[j].orphaned /\ R[j].block = requestedAt'[j]
  <2>1. requestedAt'[j] \in Int /\ requestedAt'[j] # None /\ finalizedAt'[j] = None
    BY <1>3 DEF ChainStep, Heights, Pending
  <2>2. c - Lookback - 1 <= Floor /\ Floor \in Int
    BY BelowFloor DEF Covers
  <2>3. requestedAt'[j] = requestedAt[j]
    BY <2>1, <2>2, <1>3, StoreAssumption DEF ChainStep
  <2>4. finalizedAt[j] = None
    BY <2>1 DEF ChainStep
  <2> QED
    BY <2>1, <2>3, <2>4, <1>3 DEF Covers, Pending
<1> QED
  BY <1>1, <1>2, <1>3

LEMMA ChainScans ==
    ASSUME TypeInv, ChainSound, ChainStep, UNCHANGED worker,
           NEW w \in Workers, ScanSound(worker[w])
    PROVE  ScanSound(worker[w])'
<1> DEFINE p == worker[w]
<1> SUFFICES ASSUME p.pc = "scan" PROVE ScanSound(p)'
  BY DEF ScanSound
<1> p \in Procs /\ p' = p
  BY DEF TypeInv
<1> HIDE DEF p
<1>1. /\ p.from \in Int /\ p.to \in Int
      /\ Deploy <= p.from /\ p.to <= Latest(peak) /\ p.from <= Floor
  BY DEF Procs, ScanSound, Floor, p
<1>2. p.to - Lookback <= Floor /\ Floor \in Int
  <2>1. Latest(peak) \in Int
    BY StoreAssumption DEF TypeInv, Latest, MaxOf
  <2>2. p.to + 1 \in Int /\ p.to + 1 <= Latest(peak) + 1
    BY <1>1, <2>1
  <2>3. \A c \in Int : c <= Latest(peak) + 1 => c - Lookback - 1 <= Floor /\ Floor \in Int
    BY BelowFloor
  <2> QED
    BY <1>1, <2>2, <2>3, StoreAssumption
<1>3. (Deploy <= p.from /\ p.to <= Latest(peak) /\ p.from <= MaxOf(Deploy, peak - MaxReorg))'
  BY <1>1, PeakGrows DEF ChainStep
<1>4. ASSUME p.requested # None PROVE SawRequested(p)'
  <2>1. SawRequested(p)
    BY <1>4 DEF ScanSound, p
  <2>2. \A j \in Jobs : requestedAt'[j] # None =>
           requestedAt'[j] \in Int /\ (requestedAt'[j] = requestedAt[j] \/ Floor < requestedAt'[j])
    BY DEF ChainStep, Heights
  <2>3. ASSUME NEW j \in Jobs, requestedAt'[j] # None, p.from <= requestedAt'[j],
               requestedAt'[j] <= p.to - Lookback
        PROVE  <<j, requestedAt'[j]>> \in p.requested
    BY <2>1, <2>2, <2>3, <1>1, <1>2, StoreAssumption DEF SawRequested
  <2>4. ASSUME NEW j \in Jobs, requestedAt'[j] # None, requestedAt'[j] < p.from
        PROVE  \A x \in p.requested : x[1] # j
    BY <2>1, <2>2, <2>4, <1>1, <1>2 DEF SawRequested
  <2> QED
    BY <2>1, <2>3, <2>4 DEF SawRequested
<1>5. ASSUME p.finalized # None PROVE SawFinalized(p)'
  <2>1. SawFinalized(p)
    BY <1>5 DEF ScanSound, p
  <2>2. \A j \in Jobs : finalizedAt'[j] # None =>
           finalizedAt'[j] \in Int /\ (finalizedAt'[j] = finalizedAt[j] \/ Floor < finalizedAt'[j])
    BY DEF ChainStep, Heights
  <2>3. ASSUME NEW j \in Jobs, finalizedAt'[j] # None, p.from <= finalizedAt'[j],
               finalizedAt'[j] <= p.to - Lookback
        PROVE  j \in p.finalized
    BY <2>1, <2>2, <2>3, <1>1, <1>2, StoreAssumption DEF SawFinalized
  <2>4. \A j \in p.finalized : finalizedAt'[j] # None
    BY <2>1, <1>5 DEF SawFinalized, ChainStep, Procs
  <2> QED
    BY <2>3, <2>4 DEF SawFinalized
<1> QED
  BY <1>3, <1>4, <1>5 DEF ScanSound

LEMMA ChainEvidence ==
    ASSUME TypeInv, ChainSound, Covers(cursor, rows), ChainStep, EvidenceComplete,
           UNCHANGED <<cursor, program, evidence>>
    PROVE  EvidenceComplete'
<1> SUFFICES ASSUME program = "compact", NEW j \in Jobs
             PROVE  /\ requestedAt'[j] # None /\ requestedAt'[j] < cursor - Lookback
                         => <<j, requestedAt'[j]>> \in evidence
                    /\ finalizedAt'[j] # None /\ finalizedAt'[j] < cursor - Lookback
                         => <<j, finalizedAt'[j]>> \in evidence
  BY DEF EvidenceComplete
<1>1. cursor \in Int /\ cursor - Lookback - 1 <= Floor /\ Floor \in Int
  <2>1. \A c \in Int : c <= Latest(peak) + 1 => c - Lookback - 1 <= Floor /\ Floor \in Int
    BY BelowFloor
  <2>2. cursor \in Int
    BY DEF TypeInv
  <2>3. cursor <= Latest(peak) + 1
    BY DEF Covers
  <2> QED
    BY <2>1, <2>2, <2>3
<1>2. /\ requestedAt'[j] # None =>
           requestedAt'[j] \in Int /\ (requestedAt'[j] = requestedAt[j] \/ Floor < requestedAt'[j])
      /\ finalizedAt'[j] # None =>
           finalizedAt'[j] \in Int /\ (finalizedAt'[j] = finalizedAt[j] \/ Floor < finalizedAt'[j])
  BY DEF ChainStep, Heights
<1>3. Lookback \in Int
  BY StoreAssumption
<1>4. /\ requestedAt'[j] # None /\ requestedAt'[j] < cursor - Lookback
            => requestedAt'[j] = requestedAt[j]
      /\ finalizedAt'[j] # None /\ finalizedAt'[j] < cursor - Lookback
            => finalizedAt'[j] = finalizedAt[j]
  BY <1>1, <1>2, <1>3
<1> QED
  BY <1>4 DEF EvidenceComplete

LEMMA ChainKeeps ==
    ASSUME StoreInv, ChainStep, UNCHANGED <<store, worker, own>>
    PROVE  StoreInv'
<1>1. TypeInv'
  BY DEF StoreInv, TypeInv, ChainStep, store, own
<1>2. Covers(cursor, rows)' /\ Covers(saved.cursor, saved.rows)'
  <2>1. cursor \in Int /\ rows \in Tables /\ saved.cursor \in Int /\ saved.rows \in Tables
    BY DEF StoreInv, TypeInv
  <2>2. Covers(cursor, rows)'
    BY <2>1, ChainCovers DEF StoreInv, Covers, store
  <2> QED
    BY <2>1, <2>2, ChainCovers DEF StoreInv, Covers, own
<1>3. (\A w \in Workers : ScanSound(worker[w]))'
  BY ChainScans DEF StoreInv
<1>4. HoldersSound' /\ TeamOnly' /\ FileRowsFree'
  BY DEF StoreInv, HoldersSound, Holds, TeamOnly, Team, FileRowsFree, store, own
<1>5. EvidenceComplete'
  BY ChainEvidence DEF StoreInv, store, own
<1> QED
  BY <1>1, <1>2, <1>3, <1>4, <1>5 DEF StoreInv, ChainStep

LEMMA NextBlockStep ==
    ASSUME TypeInv, ChainSound, NextBlock
    PROVE  /\ head' \in Int /\ peak' \in Int /\ peak <= peak'
           /\ Floor \in Int /\ Floor < head' /\ head' = head + 1
           /\ Deploy < head' /\ head' <= peak' /\ peak' - MaxReorg <= head'
BY StoreAssumption DEF TypeInv, ChainSound, NextBlock, MaxOf, Floor

LEMMA FinalizeStep ==
    ASSUME StoreInv, NEW j \in Jobs, Finalize(j)
    PROVE  ChainStep
<1>1. TypeInv /\ ChainSound /\ NextBlock /\ Pending(j) /\ requestedAt' = requestedAt
      /\ finalizedAt' = [finalizedAt EXCEPT ![j] = head + 1]
  BY DEF StoreInv, Finalize
<1>2. head + 1 \in Int /\ None \notin Int /\ head \in Int /\ Deploy \in Int
  BY <1>1, StoreAssumption DEF TypeInv
<1>3. finalizedAt' \in Heights /\ requestedAt' \in Heights
  BY <1>1, <1>2 DEF TypeInv, Heights
<1>4. /\ \A k \in Jobs : finalizedAt'[k] = IF k = j THEN head + 1 ELSE finalizedAt[k]
      /\ \A k \in Jobs : requestedAt[k] # None => requestedAt[k] \in Int
      /\ \A k \in Jobs : finalizedAt[k] # None => finalizedAt[k] \in Int
  BY <1>1 DEF TypeInv, Heights
<1>5. ChainSound'
  BY <1>1, <1>2, <1>4, NextBlockStep DEF ChainSound
<1> QED
  BY <1>1, <1>2, <1>3, <1>4, <1>5, NextBlockStep DEF ChainStep, Pending

LEMMA RequestStep ==
    ASSUME StoreInv, NEW j \in Jobs, Request(j)
    PROVE  ChainStep
<1>1. /\ TypeInv /\ ChainSound /\ NextBlock /\ finalizedAt' = finalizedAt
      /\ requestedAt' = [requestedAt EXCEPT ![j] = head + 1]
      /\ head < MaxBlock - Confirmations - Lookback
  BY DEF StoreInv, Request
<1>2. /\ head + 1 \in Int /\ None \notin Int /\ head \in Int /\ Deploy \in Int /\ MaxBlock \in Int
      /\ head + 1 <= MaxBlock
  BY <1>1, StoreAssumption DEF TypeInv
<1>3. finalizedAt' \in Heights /\ requestedAt' \in Heights
  BY <1>1, <1>2 DEF TypeInv, Heights
<1>4. /\ \A k \in Jobs : requestedAt'[k] = IF k = j THEN head + 1 ELSE requestedAt[k]
      /\ \A k \in Jobs : requestedAt[k] # None => requestedAt[k] \in Int
      /\ \A k \in Jobs : finalizedAt[k] # None => finalizedAt[k] \in Int
  BY <1>1 DEF TypeInv, Heights
<1>5. ChainSound'
  BY <1>1, <1>2, <1>4, NextBlockStep DEF ChainSound
<1> QED
  BY <1>1, <1>2, <1>3, <1>4, <1>5, NextBlockStep DEF ChainStep

LEMMA EmptyBlockStep ==
    ASSUME StoreInv, EmptyBlock
    PROVE  ChainStep
<1>1. /\ TypeInv /\ ChainSound /\ NextBlock
      /\ finalizedAt' = finalizedAt /\ requestedAt' = requestedAt
  BY DEF StoreInv, EmptyBlock
<1>2. /\ head \in Int
      /\ \A k \in Jobs : requestedAt[k] # None => requestedAt[k] \in Int
      /\ \A k \in Jobs : finalizedAt[k] # None => finalizedAt[k] \in Int
  BY <1>1 DEF TypeInv, Heights
<1>3. ChainSound'
  BY <1>1, <1>2, NextBlockStep, StoreAssumption DEF ChainSound
<1> QED
  BY <1>1, <1>3, NextBlockStep DEF ChainStep, TypeInv

LEMMA ReorgStep ==
    ASSUME StoreInv, Reorg
    PROVE  ChainStep
<1>1. TypeInv /\ ChainSound /\ peak' = peak /\ finalizedAt' = finalizedAt
  BY DEF StoreInv, Reorg
<1>2. PICK h \in MaxOf(Deploy, peak - MaxReorg)..(head - 1) :
        /\ \A j \in Jobs : finalizedAt[j] # None => finalizedAt[j] <= h
        /\ head' = h
        /\ requestedAt' = [j \in Jobs |->
                IF requestedAt[j] # None /\ requestedAt[j] > h THEN None ELSE requestedAt[j]]
  BY DEF Reorg
<1>3. /\ h \in Int /\ Deploy <= h /\ h <= peak /\ peak - MaxReorg <= h
      /\ Deploy \in Int /\ MaxBlock \in Int
  BY <1>1, <1>2, StoreAssumption DEF TypeInv, ChainSound, MaxOf
<1>4. requestedAt' \in Heights
  BY <1>1, <1>2 DEF TypeInv, Heights
<1>5. \A k \in Jobs : requestedAt[k] # None => requestedAt[k] \in Int
  BY <1>1 DEF TypeInv, Heights
<1>6. ChainSound'
  BY <1>1, <1>2, <1>3, <1>5 DEF ChainSound
<1> QED
  BY <1>1, <1>2, <1>3, <1>4, <1>6 DEF ChainStep, TypeInv

-----------------------------------------------------------------------------
(* Steps of an instance that neither scans nor moves the cursor *)

\* Rows keep their block, and none is dropped that has to stay.
RowsStand ==
    /\ rows' \in Tables
    /\ \A j \in Jobs : rows'[j] # None =>
          /\ rows[j] # None
          /\ rows'[j].block = rows[j].block /\ rows'[j].orphaned = rows[j].orphaned
          /\ program = "file" /\ rows'[j].live => rows[j].live
    /\ \A j \in Jobs : Pending(j) /\ requestedAt[j] < cursor - Lookback => rows'[j] # None

\* An instance rests if it does not scan.
Rests(v) ==
    /\ worker[v].pc # "scan"
    /\ worker[v].pc # "idle" => v \in Team
    /\ worker[v].pc = "serve" => worker[v].job \in Jobs

Quiet ==
    /\ UNCHANGED <<chain, cursor, program, evidence>>
    /\ worker' \in [Workers -> Procs]
    /\ \A v \in Workers : worker'[v] = worker[v] \/ Rests(v)'
    /\ scan' \in [owner : Workers \cup {None, Dead}, live : BOOLEAN]
    /\ scan'.owner \in Workers => scan'.owner = scan.owner
    /\ saved' = saved \/ saved' = Memory'

LEMMA StandCovers ==
    ASSUME StoreInv, UNCHANGED <<chain, cursor>>, RowsStand
    PROVE  Covers(cursor, rows)'
<1>1. /\ Covers(cursor, rows)
      /\ head' = head /\ peak' = peak /\ requestedAt' = requestedAt /\ finalizedAt' = finalizedAt
      /\ cursor' = cursor
  BY DEF StoreInv, chain
<1>2. (Deploy <= cursor /\ cursor <= Latest(peak) + 1)'
  BY <1>1 DEF Covers
<1>3. \A j \in Jobs : rows'[j] # None => rows'[j].block < cursor'
  BY <1>1 DEF Covers, RowsStand
<1>4. \A j \in Jobs : Pending(j)' /\ requestedAt'[j] < cursor' - Lookback =>
          rows'[j] # None /\ ~rows'[j].orphaned /\ rows'[j].block = requestedAt'[j]
  BY <1>1 DEF Covers, RowsStand, Pending
<1> QED
  BY <1>2, <1>3, <1>4 DEF Covers

\* A scan under way is as sound as before when nothing it knows changed.
LEMMA SameScan ==
    ASSUME UNCHANGED chain, NEW v \in Workers, worker'[v] = worker[v], ScanSound(worker[v])
    PROVE  ScanSound(worker[v])'
BY DEF ScanSound, SawRequested, SawFinalized, chain

LEMMA QuietKeeps ==
    ASSUME StoreInv, Quiet, RowsStand
    PROVE  StoreInv'
<1>1. Covers(cursor, rows)'
  BY StandCovers DEF Quiet
<1>2. /\ saved' \in [cursor : Int, rows : Tables]
      /\ Covers(saved.cursor, saved.rows)'
  <2>1. CASE saved' = saved
    BY <2>1 DEF StoreInv, TypeInv, Covers, Pending, Quiet, chain
  <2>2. CASE saved' = Memory'
    <3>1. saved'.cursor = cursor' /\ saved'.rows = rows'
      BY <2>2 DEF Memory
    <3> QED
      BY <1>1, <2>2, <3>1 DEF StoreInv, TypeInv, Quiet, RowsStand, Memory, Covers
  <2> QED
    BY <2>1, <2>2 DEF Quiet
<1>3. TypeInv'
  BY <1>2 DEF StoreInv, TypeInv, Quiet, RowsStand, chain
<1>4. ChainSound'
  BY DEF StoreInv, ChainSound, Quiet, chain
<1>5. ASSUME NEW v \in Workers PROVE ScanSound(worker[v])'
  <2>1. CASE worker'[v] = worker[v]
    BY <2>1, SameScan DEF StoreInv, Quiet
  <2>2. CASE Rests(v)'
    BY <2>2 DEF Rests, ScanSound
  <2> QED
    BY <2>1, <2>2 DEF Quiet
<1>6. HoldersSound'
  BY DEF StoreInv, HoldersSound, Holds, Quiet, Rests
<1>7. TeamOnly'
  BY DEF StoreInv, TeamOnly, Team, Quiet, Rests
<1>8. FileRowsFree'
  <2> SUFFICES ASSUME program = "file", NEW j \in Jobs
               PROVE  /\ rows'[j] # None => ~rows'[j].live
                      /\ saved'.rows[j] # None => ~saved'.rows[j].live
    BY DEF FileRowsFree, Quiet
  <2>1. rows'[j] # None => ~rows'[j].live
    BY DEF StoreInv, FileRowsFree, RowsStand
  <2> QED
    BY <2>1 DEF StoreInv, FileRowsFree, Quiet, Memory
<1>9. EvidenceComplete'
  BY DEF StoreInv, EvidenceComplete, Quiet, chain
<1> QED
  BY <1>1, <1>2, <1>3, <1>4, <1>5, <1>6, <1>7, <1>8, <1>9 DEF StoreInv

LEMMA Parked ==
    ASSUME StoreInv, NEW w \in Workers, UNCHANGED program,
           worker' = [worker EXCEPT ![w] = Idle] \/ (w \in Team /\ BackToLoop(w))
    PROVE  /\ worker' \in [Workers -> Procs]
           /\ \A v \in Workers : worker'[v] = worker[v] \/ Rests(v)'
           /\ worker'[w].pc # "scan" /\ worker'[w].pc # "serve"
<1>1. /\ Idle \in Procs /\ Idle.pc = "idle"
      /\ [Idle EXCEPT !.pc = "loop"] \in Procs /\ [Idle EXCEPT !.pc = "loop"].pc = "loop"
  BY DEF Idle, Procs
<1>2. worker \in [Workers -> Procs]
  BY DEF StoreInv, TypeInv
<1> QED
  BY <1>1, <1>2 DEF Rests, BackToLoop, Team

\* An endpoint calls final only what is.
LEMMA SeenFinal ==
    ASSUME StoreInv, NEW j \in Jobs, NEW s \in Views, FinalAt(j, s)
    PROVE  finalizedAt[j] # None
<1>1. Deploy \in Int /\ s \in Int
  BY StoreAssumption DEF Views, StoreInv, TypeInv
<1> QED
  BY <1>1, StoreAssumption DEF FinalAt

\* Dropping the row of a request that is final, or giving up its lease, or
\* neither.
LEMMA DropStands ==
    ASSUME StoreInv, NEW j \in Jobs, finalizedAt[j] # None,
           rows' = [rows EXCEPT ![j] = None]
    PROVE  RowsStand
<1>1. rows' \in Tables
  BY DEF StoreInv, TypeInv, Tables
<1>2. \A k \in Jobs : rows'[k] = IF k = j THEN None ELSE rows[k]
  BY DEF StoreInv, TypeInv, Tables
<1>3. \A k \in Jobs : Pending(k) /\ requestedAt[k] < cursor - Lookback => k # j /\ rows[k] # None
  BY DEF StoreInv, Covers, Pending
<1> QED
  BY <1>1, <1>2, <1>3 DEF RowsStand

LEMMA SameRowsStand ==
    ASSUME StoreInv, rows' = rows
    PROVE  RowsStand
BY DEF StoreInv, TypeInv, Covers, RowsStand

\* Only leases change.
LEMMA LeaseStands ==
    ASSUME StoreInv, program # "file", rows' \in Tables,
           \A j \in Jobs : /\ rows[j] = None <=> rows'[j] = None
                           /\ rows[j] # None => rows'[j].block = rows[j].block
                                             /\ rows'[j].orphaned = rows[j].orphaned
    PROVE  RowsStand
BY DEF StoreInv, Covers, RowsStand

LEMMA RowUpdates ==
    ASSUME StoreInv, NEW j \in Jobs, rows[j] # None,
           NEW o \in Workers \cup {None, Dead}, NEW l \in BOOLEAN
    PROVE  LET r == [rows[j] EXCEPT !.owner = o, !.live = l]
           IN  /\ r \in Rows /\ r # None
               /\ r.block = rows[j].block /\ r.orphaned = rows[j].orphaned
               /\ r.owner = o /\ r.live = l
<1>1. rows[j] \in Rows
  BY DEF StoreInv, TypeInv, Tables
<1> QED
  BY <1>1, StoreAssumption DEF Rows

LEMMA GiveUpStands ==
    ASSUME StoreInv, program # "file", NEW w \in Workers, NEW j \in Jobs,
           rows' = IF Owns(w, j) THEN [rows EXCEPT ![j].owner = None, ![j].live = FALSE] ELSE rows
    PROVE  RowsStand
<1>1. CASE ~Owns(w, j)
  BY <1>1, SameRowsStand
<1>2. CASE Owns(w, j)
  <2> DEFINE r == [rows[j] EXCEPT !.owner = None, !.live = FALSE]
  <2>1. rows[j] # None /\ rows' = [rows EXCEPT ![j] = r]
    BY <1>2 DEF Owns
  <2>2. r \in Rows /\ r # None /\ r.block = rows[j].block /\ r.orphaned = rows[j].orphaned
    BY <2>1, RowUpdates
  <2>3. rows \in [Jobs -> Rows \cup {None}]
    BY DEF StoreInv, TypeInv, Tables
  <2> HIDE DEF r
  <2>4. rows' \in Tables
    BY <2>1, <2>2, <2>3 DEF Tables
  <2>5. \A k \in Jobs : rows'[k] = IF k = j THEN r ELSE rows[k]
    BY <2>1, <2>3
  <2> QED
    BY <2>1, <2>2, <2>4, <2>5, LeaseStands
<1> QED
  BY <1>1, <1>2

LEMMA ScanLease ==
    ASSUME StoreInv
    PROVE  /\ Free \in [owner : Workers \cup {None, Dead}, live : BOOLEAN]
           /\ Free.owner \notin Workers
           /\ scan \in [owner : Workers \cup {None, Dead}, live : BOOLEAN]
           /\ [scan EXCEPT !.owner = Dead] \in [owner : Workers \cup {None, Dead}, live : BOOLEAN]
           /\ [scan EXCEPT !.owner = Dead].owner \notin Workers
           /\ [scan EXCEPT !.live = FALSE] \in [owner : Workers \cup {None, Dead}, live : BOOLEAN]
           /\ [scan EXCEPT !.live = FALSE].owner = scan.owner
BY StoreAssumption DEF StoreInv, TypeInv, Free

LEMMA ScanErrorKeeps ==
    ASSUME StoreInv, NEW w \in Workers, ScanError(w), UNCHANGED own
    PROVE  StoreInv'
<1>1. Quiet
  BY Parked, ScanLease DEF ScanError, Quiet, own
<1> QED
  BY <1>1, SameRowsStand, QuietKeeps DEF ScanError

LEMMA CompleteRequestKeeps ==
    ASSUME StoreInv, NEW w \in Workers, CompleteRequest(w), UNCHANGED own
    PROVE  StoreInv'
<1>1. Quiet
  BY Parked, ScanLease DEF CompleteRequest, Quiet, own
<1>2. worker[w].job \in Jobs
  BY DEF CompleteRequest, StoreInv, TeamOnly
<1>3. RowsStand
  BY <1>2, SeenFinal, DropStands, SameRowsStand DEF CompleteRequest
<1> QED
  BY <1>1, <1>3, QuietKeeps

LEMMA RetryRequestKeeps ==
    ASSUME StoreInv, NEW w \in Workers, program # "file",
           \/ (RetryRequest(w) \/ RetryUnknown(w)) /\ UNCHANGED own
           \/ retryStaleClaim(w)
    PROVE  StoreInv'
<1>1. Quiet
  BY Parked, ScanLease DEF RetryRequest, RetryUnknown, retryStaleClaim, GiveBack, Quiet, own
<1>2. worker[w].job \in Jobs
  BY DEF RetryRequest, RetryUnknown, retryStaleClaim, StoreInv, TeamOnly
<1>3. RowsStand
  BY <1>2, GiveUpStands DEF RetryRequest, RetryUnknown, retryStaleClaim, GiveBack
<1> QED
  BY <1>1, <1>3, QuietKeeps

LEMMA CompleteCompactKeeps ==
    ASSUME StoreInv, NEW w \in Workers, completeCompactClaim(w)
    PROVE  StoreInv'
<1> DEFINE j == worker[w].job
<1>1. Quiet
  BY Parked, ScanLease DEF completeCompactClaim, Quiet, own
<1>2. j \in Jobs /\ head \in Int
  BY DEF completeCompactClaim, StoreInv, TeamOnly, TypeInv
<1>3. PICK s \in Views : recoverCompactRequest(j, worker[w].from, s) = "final"
  BY DEF completeCompactClaim, Recovered
<1>4. finalizedAt[j] \in worker[w].from..s
  BY <1>3 DEF recoverCompactRequest
<1>5. worker[w].from \in Int /\ s \in Int
  BY <1>2, StoreAssumption DEF Views, StoreInv, TypeInv, Procs
<1>6. finalizedAt[j] # None
  BY <1>4, <1>5, StoreAssumption
<1>7. RowsStand
  BY <1>2, <1>6, DropStands, SameRowsStand DEF completeCompactClaim
<1> QED
  BY <1>1, <1>7, QuietKeeps

LEMMA CrashKeeps ==
    ASSUME StoreInv, NEW w \in Workers, program # "file", Crash(w), UNCHANGED own
    PROVE  StoreInv'
<1>1. Quiet
  BY Parked, ScanLease DEF Crash, Quiet, own
<1>2. \A j \in Jobs : rows[j] # None =>
        /\ [rows[j] EXCEPT !.owner = Dead] \in Rows
        /\ [rows[j] EXCEPT !.owner = Dead] # None
        /\ [rows[j] EXCEPT !.owner = Dead].block = rows[j].block
        /\ [rows[j] EXCEPT !.owner = Dead].orphaned = rows[j].orphaned
  <2> SUFFICES ASSUME NEW j \in Jobs, rows[j] # None
               PROVE  LET r == [rows[j] EXCEPT !.owner = Dead]
                      IN  r \in Rows /\ r # None /\ r.block = rows[j].block /\ r.orphaned = rows[j].orphaned
    OBVIOUS
  <2>1. rows[j] \in Rows
    BY DEF StoreInv, TypeInv, Tables
  <2> QED
    BY <2>1, StoreAssumption DEF Rows
<1>3. rows \in [Jobs -> Rows \cup {None}]
  BY DEF StoreInv, TypeInv, Tables
<1>4. RowsStand
  <2>1. rows' \in Tables
    BY <1>2, <1>3 DEF Crash, Owns, Tables
  <2>2. \A j \in Jobs : rows'[j] = IF Owns(w, j) THEN [rows[j] EXCEPT !.owner = Dead] ELSE rows[j]
    BY DEF Crash
  <2> QED
    BY <1>2, <2>1, <2>2, LeaseStands DEF Owns
<1> QED
  BY <1>1, <1>4, QuietKeeps

LEMMA ServingProc ==
    ASSUME NEW j \in Jobs, NEW b \in Int
    PROVE  LET q == [Idle EXCEPT !.pc = "serve", !.job = j, !.from = b]
           IN  q \in Procs /\ q.pc = "serve" /\ q.job = j
<1> DEFINE q1 == [Idle EXCEPT !.pc = "serve"]
           q2 == [q1 EXCEPT !.job = j]
<1>1. q1 \in Procs /\ q1.pc = "serve"
  BY DEF Idle, Procs
<1> HIDE DEF q1
<1>2. q2 \in Procs /\ q2.pc = "serve" /\ q2.job = j
  BY <1>1 DEF Procs
<1> HIDE DEF q2
<1>3. LET q == [q2 EXCEPT !.from = b]
      IN  q \in Procs /\ q.pc = "serve" /\ q.job = j
  BY <1>2 DEF Procs
<1> QED
  BY <1>3 DEF q1, q2

LEMMA ClaimRequestKeeps ==
    ASSUME StoreInv, NEW w \in Team, w \in Workers, program # "file", ClaimRequest(w), UNCHANGED own
    PROVE  StoreInv'
<1>1. PICK j \in Jobs :
        /\ Eligible(j)
        /\ rows' = [rows EXCEPT ![j].owner = w, ![j].live = TRUE]
        /\ worker' = [worker EXCEPT ![w] = [Idle EXCEPT !.pc = "serve", !.job = j,
                                                            !.from = rows[j].block]]
  BY DEF ClaimRequest
<1> DEFINE r == [rows[j] EXCEPT !.owner = w, !.live = TRUE]
<1> DEFINE q == [Idle EXCEPT !.pc = "serve", !.job = j, !.from = rows[j].block]
<1>2. rows[j] # None /\ rows' = [rows EXCEPT ![j] = r] /\ worker' = [worker EXCEPT ![w] = q]
  BY <1>1 DEF Eligible
<1>3. rows \in [Jobs -> Rows \cup {None}] /\ worker \in [Workers -> Procs]
  BY DEF StoreInv, TypeInv, Tables
<1>4. r \in Rows /\ r # None /\ r.block = rows[j].block /\ r.orphaned = rows[j].orphaned
  BY <1>2, RowUpdates, ZenonT(60)
<1>5. q \in Procs /\ q.pc = "serve" /\ q.job = j
  <2>1. rows[j].block \in Int
    BY <1>2, <1>3 DEF Rows
  <2> QED
    BY <2>1, ServingProc
<1> HIDE DEF r, q
<1>6. RowsStand
  <2>1. rows' \in Tables
    BY <1>2, <1>3, <1>4 DEF Tables
  <2>2. \A k \in Jobs : rows'[k] = IF k = j THEN r ELSE rows[k]
    BY <1>2, <1>3
  <2> QED
    BY <1>2, <1>4, <2>1, <2>2, LeaseStands
<1>7. Quiet
  <2>1. /\ worker' \in [Workers -> Procs]
        /\ \A v \in Workers : worker'[v] = worker[v] \/ Rests(v)'
    BY <1>2, <1>3, <1>5 DEF Rests, Team, own
  <2> QED
    BY <2>1, ScanLease DEF ClaimRequest, Quiet, own
<1> QED
  BY <1>6, <1>7, QuietKeeps

LEMMA ExpireKeeps ==
    ASSUME StoreInv, UNCHANGED own, ExpireScan \/ \E j \in Jobs : ExpireRow(j)
    PROVE  StoreInv'
<1>1. Quiet
  BY ScanLease DEF StoreInv, TypeInv, ExpireScan, ExpireRow, Quiet, own
<1>2. CASE ExpireScan
  BY <1>1, <1>2, SameRowsStand, QuietKeeps DEF ExpireScan
<1>3. ASSUME NEW j \in Jobs, ExpireRow(j) PROVE StoreInv'
  <2> DEFINE r == [rows[j] EXCEPT !.live = FALSE]
  <2>1. rows[j] # None /\ rows' = [rows EXCEPT ![j] = r] /\ program # "file"
    BY <1>3 DEF ExpireRow, StoreInv, FileRowsFree
  <2>2. rows \in [Jobs -> Rows \cup {None}]
    BY DEF StoreInv, TypeInv, Tables
  <2>3. r \in Rows /\ r # None /\ r.block = rows[j].block /\ r.orphaned = rows[j].orphaned
    BY <2>1, <2>2, StoreAssumption DEF Rows
  <2> HIDE DEF r
  <2>4. rows' \in Tables
    BY <2>1, <2>2, <2>3 DEF Tables
  <2>5. \A k \in Jobs : rows'[k] = IF k = j THEN r ELSE rows[k]
    BY <2>1, <2>2
  <2>6. RowsStand
    BY <2>1, <2>3, <2>4, <2>5, LeaseStands
  <2> QED
    BY <1>1, <2>6, QuietKeeps
<1> QED
  BY <1>2, <1>3

\* Steps that leave the queue alone.
LEMMA BystanderKeeps ==
    ASSUME StoreInv, NEW w \in Team, w \in Workers,
           \/ abortCompactScan(w) \/ skipFileScan(w) \/ fileScanError(w) \/ serveFromFile(w)
           \/ retryFromFile(w) \/ retryUnknownFromFile(w) \/ endIteration(w)
    PROVE  StoreInv'
<1>1. /\ worker' \in [Workers -> Procs]
      /\ \A v \in Workers : worker'[v] = worker[v] \/ Rests(v)'
      /\ UNCHANGED <<chain, cursor, rows, own>>
  <2>1. CASE \/ abortCompactScan(w) \/ fileScanError(w) \/ endIteration(w)
             \/ retryFromFile(w) \/ retryUnknownFromFile(w)
    BY <2>1, Parked DEF abortCompactScan, fileScanError, endIteration, retryFromFile,
                        retryUnknownFromFile, store, own
  <2>2. CASE skipFileScan(w)
    <3>1. worker' = [worker EXCEPT ![w] = [Idle EXCEPT !.pc = "loop"]]
      BY <2>2 DEF skipFileScan
    <3> QED
      BY <2>2, <3>1, Parked DEF skipFileScan, BackToLoop, store, own
  <2>3. CASE serveFromFile(w)
    <3>1. PICK j \in Jobs : worker' = [worker EXCEPT ![w] = [@ EXCEPT !.pc = "serve", !.job = j]]
      BY <2>3 DEF serveFromFile
    <3>2. worker \in [Workers -> Procs]
      BY DEF StoreInv, TypeInv
    <3>3. LET q == [worker[w] EXCEPT !.pc = "serve", !.job = j]
          IN  q \in Procs /\ q.pc = "serve" /\ q.job = j
      BY <3>2 DEF Procs
    <3>4. /\ worker' \in [Workers -> Procs]
          /\ worker'[w].pc = "serve" /\ worker'[w].job = j
          /\ \A v \in Workers \ {w} : worker'[v] = worker[v]
      BY <3>1, <3>2, <3>3
    <3> QED
      BY <2>3, <3>4 DEF serveFromFile, Rests, Team, store, own
  <2> QED
    BY <2>1, <2>2, <2>3
<1>2. /\ scan' \in [owner : Workers \cup {None, Dead}, live : BOOLEAN]
      /\ scan'.owner \in Workers => scan'.owner = scan.owner
  BY ScanLease DEF abortCompactScan, skipFileScan, fileScanError, serveFromFile,
                   retryFromFile, retryUnknownFromFile, endIteration, store
<1>3. Quiet
  BY <1>1, <1>2 DEF Quiet, own
<1> QED
  BY <1>1, <1>3, SameRowsStand, QuietKeeps

LEMMA CompleteFromFileKeeps ==
    ASSUME StoreInv, NEW w \in Team, w \in Workers, completeFromFile(w)
    PROVE  StoreInv'
<1>1. Quiet
  BY Parked, ScanLease DEF completeFromFile, writeJsonAtomic, Quiet
<1>2. worker[w].job \in Jobs
  BY DEF completeFromFile, StoreInv, TeamOnly
<1>3. RowsStand
  BY <1>2, SeenFinal, DropStands DEF completeFromFile
<1> QED
  BY <1>1, <1>3, QuietKeeps

-----------------------------------------------------------------------------
(* A scan begins *)

LEMMA ScanningProc ==
    ASSUME NEW f \in Int, NEW t \in Int
    PROVE  LET q == [Idle EXCEPT !.pc = "scan", !.from = f, !.to = t]
           IN  /\ q \in Procs /\ q.pc = "scan" /\ q.from = f /\ q.to = t
               /\ q.requested = None /\ q.finalized = None
<1> DEFINE q1 == [Idle EXCEPT !.pc = "scan"]
           q2 == [q1 EXCEPT !.from = f]
<1>1. q1 \in Procs /\ q1.pc = "scan" /\ q1.requested = None /\ q1.finalized = None
  BY DEF Idle, Procs
<1> HIDE DEF q1
<1>2. q2 \in Procs /\ q2.pc = "scan" /\ q2.from = f /\ q2.requested = None /\ q2.finalized = None
  BY <1>1 DEF Procs
<1> HIDE DEF q2
<1>3. LET q == [q2 EXCEPT !.to = t]
      IN  /\ q \in Procs /\ q.pc = "scan" /\ q.from = f /\ q.to = t
          /\ q.requested = None /\ q.finalized = None
  BY <1>2 DEF Procs
<1> QED
  BY <1>3 DEF q1, q2

LEMMA BeginKeeps ==
    ASSUME StoreInv, NEW w \in Team, w \in Workers,
           NEW h \in Deploy..head, cursor <= Latest(h),
           worker' = [worker EXCEPT ![w] = [Idle EXCEPT !.pc = "scan",
                  !.from = FromBlock(Latest(h)), !.to = ToBlock(Latest(h))]],
           UNCHANGED <<chain, cursor, own>>, RowsStand,
           \/ program # "file" /\ scan' = [owner |-> w, live |-> TRUE]
           \/ program = "file" /\ scan' = scan /\ Team = {w}
    PROVE  StoreInv'
<1>1. TypeInv /\ ChainSound /\ Covers(cursor, rows) /\ worker \in [Workers -> Procs]
  BY DEF StoreInv, TypeInv
<1>2. PICK f \in Int, t \in Int :
        /\ FromBlock(Latest(h)) = f /\ ToBlock(Latest(h)) = t
        /\ f = MaxOf(Deploy, cursor - Lookback) /\ Deploy <= f
        /\ cursor <= t /\ t <= Latest(peak)
        /\ f <= MaxOf(Deploy, peak - MaxReorg)
  BY <1>1, ClaimedRange
<1> DEFINE q == [Idle EXCEPT !.pc = "scan", !.from = f, !.to = t]
<1>3. /\ q \in Procs /\ q.pc = "scan" /\ q.from = f /\ q.to = t
      /\ q.requested = None /\ q.finalized = None
  BY ScanningProc, ZenonT(60)
<1>4. worker' = [worker EXCEPT ![w] = q]
  BY <1>2
<1> HIDE DEF q
<1>5. worker' \in [Workers -> Procs] /\ worker'[w] = q /\ \A v \in Workers \ {w} : worker'[v] = worker[v]
  BY <1>1, <1>3, <1>4
<1>6. UNCHANGED <<chain, cursor, program, saved, evidence>>
  BY DEF own
<1>7. TypeInv'
  <2>1. scan' \in [owner : Workers \cup {None, Dead}, live : BOOLEAN]
    <3>1. [owner |-> w, live |-> TRUE] \in [owner : Workers \cup {None, Dead}, live : BOOLEAN]
      OBVIOUS
    <3> QED
      BY <3>1, ScanLease
  <2> QED
    BY <2>1, <1>1, <1>5, <1>6 DEF TypeInv, RowsStand, chain
<1>8. ChainSound' /\ EvidenceComplete'
  BY <1>6 DEF StoreInv, ChainSound, EvidenceComplete, chain
<1>9. Covers(cursor, rows)' /\ Covers(saved.cursor, saved.rows)'
  <2>1. Covers(saved.cursor, saved.rows)'
    BY <1>6 DEF StoreInv, Covers, Pending, chain
  <2> QED
    BY <2>1, <1>6, StandCovers
<1>10. ASSUME NEW v \in Workers PROVE ScanSound(worker[v])'
  <2>1. CASE v = w
    <3>1. worker'[v] = q
      BY <1>5, <2>1
    <3> QED
      BY <3>1, <1>2, <1>3, <1>6 DEF ScanSound, chain
  <2>2. CASE v # w
    BY <2>2, <1>5, <1>6, SameScan DEF StoreInv
  <2> QED
    BY <2>1, <2>2
<1>11. HoldersSound'
  <2> SUFFICES ASSUME NEW v \in Workers, worker'[v].pc = "scan", Holds(v)'
               PROVE  worker'[v].from = MaxOf(Deploy, cursor - Lookback) /\ cursor <= worker'[v].to
    BY <1>6 DEF HoldersSound
  <2>1. v = w
    <3>1. CASE program = "file"
      BY <3>1, <1>5 DEF StoreInv, TeamOnly
    <3>2. CASE program # "file"
      BY <3>2, <1>6 DEF Holds
    <3> QED
      BY <3>1, <3>2
  <2> QED
    BY <2>1, <1>2, <1>3, <1>5
<1>12. TeamOnly'
  BY <1>3, <1>5, <1>6 DEF StoreInv, TeamOnly, Team
<1>13. FileRowsFree'
  BY <1>6 DEF StoreInv, FileRowsFree, RowsStand
<1> QED
  BY <1>7, <1>8, <1>9, <1>10, <1>11, <1>12, <1>13 DEF StoreInv

LEMMA ClaimScanKeeps ==
    ASSUME StoreInv, NEW w \in Team, w \in Workers, program # "file", ClaimScan(w), UNCHANGED own
    PROVE  StoreInv'
<1>1. PICK h \in Deploy..head :
          /\ cursor <= Latest(h)
          /\ worker' = [worker EXCEPT ![w] = [Idle EXCEPT !.pc = "scan",
                  !.from = FromBlock(Latest(h)), !.to = ToBlock(Latest(h))]]
  BY DEF ClaimScan
<1>2. RowsStand /\ UNCHANGED <<chain, cursor, own>> /\ scan' = [owner |-> w, live |-> TRUE]
  BY SameRowsStand DEF ClaimScan
<1> QED
  BY <1>1, <1>2, BeginKeeps

\* The rows that beginFileScan drops are all about to be scanned again.
LEMMA BeginFileKeeps ==
    ASSUME StoreInv, NEW w \in Team, w \in Workers, program = "file", beginFileScan(w)
    PROVE  StoreInv'
<1>1. PICK h \in Deploy..head :
          /\ cursor <= Latest(h)
          /\ worker' = [worker EXCEPT ![w] = [Idle EXCEPT !.pc = "scan",
                  !.from = FromBlock(Latest(h)), !.to = ToBlock(Latest(h))]]
          /\ rows' = [j \in Jobs |-> IF rows[j] # None /\ rows[j].block >= FromBlock(Latest(h))
                                     THEN None ELSE rows[j]]
  BY DEF beginFileScan
<1>2. UNCHANGED <<chain, cursor, scan, own>>
  BY DEF beginFileScan
<1>3. TypeInv /\ ChainSound /\ Covers(cursor, rows) /\ rows \in [Jobs -> Rows \cup {None}]
  BY DEF StoreInv, TypeInv, Tables
<1>4. FromBlock(Latest(h)) = MaxOf(Deploy, cursor - Lookback)
  BY <1>1, <1>3, ClaimedRange
<1>5. RowsStand
  <2>1. rows' \in Tables
    BY <1>1, <1>3 DEF Tables
  <2>2. \A j \in Jobs : rows'[j] # None => rows'[j] = rows[j]
    BY <1>1
  <2>3. ASSUME NEW j \in Jobs, Pending(j), requestedAt[j] < cursor - Lookback
        PROVE  rows'[j] # None
    <3>1. rows[j] # None /\ rows[j].block = requestedAt[j]
      BY <1>3, <2>3 DEF Covers
    <3>2. requestedAt[j] \in Int /\ cursor - Lookback \in Int /\ Deploy \in Int
      BY <1>3, <2>3, StoreAssumption DEF Pending, TypeInv, Heights
    <3>3. ~(rows[j].block >= MaxOf(Deploy, cursor - Lookback))
      BY <3>1, <3>2, <2>3 DEF MaxOf
    <3> QED
      BY <1>1, <1>4, <3>1, <3>3
  <2> QED
    BY <2>1, <2>2, <2>3 DEF RowsStand
<1>6. Team = {w}
  BY LoopAssumption DEF StoreInv, TypeInv, Team
<1> QED
  BY <1>1, <1>2, <1>5, <1>6, BeginKeeps

-----------------------------------------------------------------------------
(* The answers of a scan's queries *)

\* An endpoint that lags, asked now, has what lies Lookback below the range's end.
LEMMA RangeVisible ==
    ASSUME StoreInv, NEW p \in Procs, p.pc = "scan", ScanSound(p), NEW s \in Views,
           NEW b \in Int, Deploy < b, b <= p.to - Lookback
    PROVE  b <= MinOf(p.to, s) /\ s \in Int /\ p.to \in Int
<1>1. TypeInv /\ ChainSound /\ p.to \in Int /\ p.to <= Latest(peak) /\ head \in Int
  BY DEF StoreInv, TypeInv, ScanSound, Procs
<1>2. Latest(peak) \in Int
  BY <1>1, StoreAssumption DEF TypeInv, Latest, MaxOf
<1>3. b <= Latest(peak) - Lookback
  BY <1>1, <1>2, StoreAssumption
<1>4. b <= head - MaxLag
  BY <1>1, <1>3, Buried
<1> QED
  BY <1>1, <1>4, StoreAssumption DEF Views, MinOf

LEMMA AnswerRequested ==
    ASSUME StoreInv, NEW p \in Procs, p.pc = "scan", ScanSound(p), NEW s \in Views,
           NEW R, R = {<<j, requestedAt[j]>> : j \in RequestedIn(p.from, p.to, s)}
    PROVE  /\ R \in SUBSET (Jobs \X Int)
           /\ SawRequested([p EXCEPT !.requested = R])
<1>1. /\ \A j \in Jobs : requestedAt[j] # None =>
            requestedAt[j] \in Int /\ Deploy < requestedAt[j] /\ requestedAt[j] <= MaxBlock
      /\ p.from \in Int /\ p.to \in Int /\ head \in Int /\ None \notin Int
  BY StoreAssumption DEF StoreInv, TypeInv, ChainSound, Heights, Procs
<1>2. s \in Int /\ MinOf(p.to, s) \in Int /\ MinOf(p.to, s) <= p.to
  BY <1>1, StoreAssumption DEF Views, MinOf
<1>3. \A j \in Jobs : j \in RequestedIn(p.from, p.to, s) <=>
         /\ requestedAt[j] # None /\ p.from <= requestedAt[j]
         /\ requestedAt[j] <= MinOf(p.to, s)
  BY <1>1, <1>2 DEF RequestedIn, StoreInv, TypeInv, Heights
<1>4. \A x \in R : \E j \in Jobs :
         /\ x = <<j, requestedAt[j]>> /\ requestedAt[j] \in Int
         /\ p.from <= requestedAt[j] /\ requestedAt[j] <= MinOf(p.to, s)
         /\ requestedAt[j] <= MaxBlock /\ requestedAt[j] # None
  BY <1>1, <1>3 DEF RequestedIn
<1>5. R \in SUBSET (Jobs \X Int)
  BY <1>4
<1> DEFINE q == [p EXCEPT !.requested = R]
<1>6. q.requested = R /\ q.from = p.from /\ q.to = p.to
  BY DEF Procs
<1> HIDE DEF q
<1>7. \A x \in R : p.from <= x[2] /\ x[2] <= p.to /\ x[2] <= MaxBlock
  BY <1>1, <1>2, <1>4
<1>8. \A x, y \in R : x[1] = y[1] => x[2] = y[2]
  BY <1>4
<1>9. ASSUME NEW j \in Jobs, requestedAt[j] # None, p.from <= requestedAt[j],
             requestedAt[j] <= p.to - Lookback
      PROVE  <<j, requestedAt[j]>> \in R
  <2>1. requestedAt[j] <= MinOf(p.to, s)
    BY <1>1, <1>9, RangeVisible
  <2> QED
    BY <1>3, <1>9, <2>1
<1>10. ASSUME NEW j \in Jobs, requestedAt[j] # None, requestedAt[j] < p.from
       PROVE  \A x \in R : x[1] # j
  BY <1>1, <1>4, <1>10
<1>11. SawRequested(q)
  BY <1>6, <1>7, <1>8, <1>9, <1>10 DEF SawRequested
<1> QED
  BY <1>5, <1>11 DEF q

LEMMA AnswerFinalized ==
    ASSUME StoreInv, NEW p \in Procs, p.pc = "scan", ScanSound(p), NEW s \in Views,
           NEW F, F = FinalizedIn(p.from, p.to, s)
    PROVE  F \in SUBSET Jobs /\ SawFinalized([p EXCEPT !.finalized = F])
<1>1. /\ \A j \in Jobs : finalizedAt[j] # None => finalizedAt[j] \in Int /\ Deploy < finalizedAt[j]
      /\ p.from \in Int /\ p.to \in Int /\ head \in Int /\ None \notin Int
  BY StoreAssumption DEF StoreInv, TypeInv, ChainSound, Heights, Procs
<1>2. s \in Int /\ MinOf(p.to, s) \in Int
  BY <1>1, StoreAssumption DEF Views, MinOf
<1>3. \A j \in Jobs : j \in F <=>
         /\ finalizedAt[j] # None /\ p.from <= finalizedAt[j]
         /\ finalizedAt[j] <= MinOf(p.to, s)
  BY <1>1, <1>2 DEF FinalizedIn, StoreInv, TypeInv, Heights
<1>4. F \in SUBSET Jobs
  BY DEF FinalizedIn
<1>5. ASSUME NEW j \in Jobs, finalizedAt[j] # None, p.from <= finalizedAt[j],
             finalizedAt[j] <= p.to - Lookback
      PROVE  j \in F
  <2>1. finalizedAt[j] <= MinOf(p.to, s)
    BY <1>1, <1>5, RangeVisible
  <2> QED
    BY <1>3, <1>5, <2>1
<1> DEFINE q == [p EXCEPT !.finalized = F]
<1>6. q.finalized = F /\ q.from = p.from /\ q.to = p.to
  BY DEF Procs
<1> HIDE DEF q
<1>7. SawFinalized(q)
  BY <1>3, <1>4, <1>5, <1>6 DEF SawFinalized
<1> QED
  BY <1>4, <1>7 DEF q

LEMMA AnswerKeeps ==
    ASSUME StoreInv, NEW w \in Workers, worker[w].pc = "scan",
           NEW q \in Procs, q.pc = "scan", q.from = worker[w].from, q.to = worker[w].to,
           q.requested # None => SawRequested(q), q.finalized # None => SawFinalized(q),
           worker' = [worker EXCEPT ![w] = q], UNCHANGED <<chain, store, own>>
    PROVE  StoreInv'
<1>1. /\ worker' \in [Workers -> Procs] /\ worker'[w] = q
      /\ \A v \in Workers \ {w} : worker'[v] = worker[v]
  BY DEF StoreInv, TypeInv
<1>2. UNCHANGED <<head, peak, requestedAt, finalizedAt, cursor, scan, rows, program, saved, evidence>>
  BY DEF chain, store, own
<1>3. TypeInv' /\ ChainSound' /\ EvidenceComplete' /\ FileRowsFree'
  BY <1>1, <1>2 DEF StoreInv, TypeInv, ChainSound, EvidenceComplete, FileRowsFree
<1>4. Covers(cursor, rows)' /\ Covers(saved.cursor, saved.rows)'
  BY <1>2 DEF StoreInv, Covers, Pending
<1>5. ASSUME NEW v \in Workers PROVE ScanSound(worker[v])'
  <2>1. CASE v # w
    BY <2>1, <1>1, SameScan DEF StoreInv
  <2>2. CASE v = w
    <3>1. /\ Deploy <= q.from /\ q.to <= Latest(peak)
          /\ q.from <= MaxOf(Deploy, peak - MaxReorg)
      BY DEF StoreInv, ScanSound
    <3>2. worker'[v] = q
      BY <1>1, <2>2
    <3> QED
      BY <1>2, <3>1, <3>2 DEF ScanSound, SawRequested, SawFinalized
  <2> QED
    BY <2>1, <2>2
<1>6. HoldersSound' /\ TeamOnly'
  BY <1>1, <1>2 DEF StoreInv, HoldersSound, Holds, TeamOnly, Team
<1> QED
  BY <1>3, <1>4, <1>5, <1>6 DEF StoreInv

LEMMA QueryRequestedKeeps ==
    ASSUME StoreInv, NEW w \in Workers, QueryRequested(w), UNCHANGED own
    PROVE  StoreInv'
<1>1. PICK p \in Procs : p = worker[w]
  BY DEF StoreInv, TypeInv
<1>2. PICK s \in Views : worker' = [worker EXCEPT ![w].requested =
              {<<j, requestedAt[j]>> : j \in RequestedIn(p.from, p.to, s)}]
  BY <1>1 DEF QueryRequested
<1>3. PICK R : R = {<<j, requestedAt[j]>> : j \in RequestedIn(p.from, p.to, s)}
  OBVIOUS
<1>4. p.pc = "scan" /\ ScanSound(p)
  BY <1>1 DEF QueryRequested, StoreInv
<1>5. R \in SUBSET (Jobs \X Int) /\ SawRequested([p EXCEPT !.requested = R])
  BY <1>3, <1>4, AnswerRequested
<1>6. PICK q : q = [p EXCEPT !.requested = R]
  OBVIOUS
<1>7. /\ q \in Procs /\ q.pc = "scan" /\ q.from = p.from /\ q.to = p.to
      /\ q.finalized = p.finalized
  BY <1>4, <1>5, <1>6 DEF Procs
<1>8. SawRequested(q) /\ (q.finalized # None => SawFinalized(q))
  BY <1>4, <1>5, <1>6, <1>7 DEF ScanSound, SawFinalized
<1>9. worker' = [worker EXCEPT ![w] = q]
  BY <1>1, <1>2, <1>3, <1>6
<1>10. UNCHANGED <<chain, store, own>>
  BY DEF QueryRequested
<1> QED
  BY <1>1, <1>4, <1>7, <1>8, <1>9, <1>10, AnswerKeeps

LEMMA QueryFinalizedKeeps ==
    ASSUME StoreInv, NEW w \in Workers, QueryFinalized(w), UNCHANGED own
    PROVE  StoreInv'
<1>1. PICK p \in Procs : p = worker[w]
  BY DEF StoreInv, TypeInv
<1>2. PICK s \in Views : worker' = [worker EXCEPT ![w].finalized = FinalizedIn(p.from, p.to, s)]
  BY <1>1 DEF QueryFinalized
<1>3. PICK F : F = FinalizedIn(p.from, p.to, s)
  OBVIOUS
<1>4. p.pc = "scan" /\ ScanSound(p)
  BY <1>1 DEF QueryFinalized, StoreInv
<1>5. F \in SUBSET Jobs /\ SawFinalized([p EXCEPT !.finalized = F])
  BY <1>3, <1>4, AnswerFinalized
<1>6. PICK q : q = [p EXCEPT !.finalized = F]
  OBVIOUS
<1>7. /\ q \in Procs /\ q.pc = "scan" /\ q.from = p.from /\ q.to = p.to
      /\ q.requested = p.requested
  BY <1>4, <1>5, <1>6 DEF Procs
<1>8. SawFinalized(q) /\ (q.requested # None => SawRequested(q))
  BY <1>4, <1>5, <1>6, <1>7 DEF ScanSound, SawRequested
<1>9. worker' = [worker EXCEPT ![w] = q]
  BY <1>1, <1>2, <1>3, <1>6
<1>10. UNCHANGED <<chain, store, own>>
  BY DEF QueryFinalized
<1> QED
  BY <1>1, <1>4, <1>7, <1>8, <1>9, <1>10, AnswerKeeps

LEMMA CompactEventsKeeps ==
    ASSUME StoreInv, NEW w \in Workers, compactEvents(w)
    PROVE  StoreInv'
<1>1. PICK p \in Procs : p = worker[w]
  BY DEF StoreInv, TypeInv
<1>2. PICK R, F : /\ R = {<<j, requestedAt[j]>> : j \in RequestedIn(p.from, p.to, head)}
                  /\ F = FinalizedIn(p.from, p.to, head)
  OBVIOUS
<1>3. head \in Views /\ p.pc = "scan" /\ ScanSound(p)
  BY <1>1, StoreAssumption DEF compactEvents, StoreInv, TypeInv, Views
<1>4. R \in SUBSET (Jobs \X Int) /\ SawRequested([p EXCEPT !.requested = R])
  <2>1. PICK s \in Views : s = head
    BY <1>3
  <2> QED
    BY <1>2, <1>3, <2>1, AnswerRequested
<1>5. F \in SUBSET Jobs /\ SawFinalized([p EXCEPT !.finalized = F])
  <2>1. PICK s \in Views : s = head
    BY <1>3
  <2> QED
    BY <1>2, <1>3, <2>1, AnswerFinalized
<1>6. PICK r : r = [p EXCEPT !.requested = R]
  OBVIOUS
<1>7. /\ r \in Procs /\ r.pc = "scan" /\ r.from = p.from /\ r.to = p.to /\ r.requested = R
  BY <1>3, <1>4, <1>6 DEF Procs
<1>8. PICK q : q = [r EXCEPT !.finalized = F]
  OBVIOUS
<1>9. /\ q \in Procs /\ q.pc = "scan" /\ q.from = p.from /\ q.to = p.to
      /\ q.requested = R /\ q.finalized = F
  BY <1>7, <1>8, <1>5 DEF Procs
<1>10. SawRequested(q)
  BY <1>4, <1>6, <1>7, <1>9 DEF SawRequested
<1>11. SawFinalized(q)
  <2>1. LET g == [p EXCEPT !.finalized = F] IN g.finalized = F /\ g.from = p.from /\ g.to = p.to
    BY DEF Procs
  <2> QED
    BY <2>1, <1>5, <1>9 DEF SawFinalized
<1>12. worker' = [worker EXCEPT ![w] = q]
  BY <1>1, <1>2, <1>6, <1>8 DEF compactEvents
<1>13. UNCHANGED <<chain, store, own>>
  BY DEF compactEvents
<1> QED
  BY <1>1, <1>3, <1>9, <1>10, <1>11, <1>12, <1>13, AnswerKeeps

-----------------------------------------------------------------------------
(* A scan is committed *)

LEMMA BlocksUpTo ==
    ASSUME NEW b \in Int, Deploy <= b, b <= MaxBlock
    PROVE  b \in Blocks
BY StoreAssumption DEF Blocks

\* An event the scan saw is the one its commit finds.
LEMMA Found ==
    ASSUME StoreInv, NEW p \in Procs, p.pc = "scan", ScanSound(p), p.requested # None,
           NEW j \in Jobs, NEW b, <<j, b>> \in p.requested
    PROVE  LET found == {c \in Blocks : <<j, c>> \in p.requested}
           IN  /\ found # {} /\ (CHOOSE c \in found : TRUE) = b
               /\ b \in Int /\ p.from <= b /\ b <= p.to
<1>1. p.requested \in SUBSET (Jobs \X Int) /\ p.from \in Int
  BY DEF Procs
<1>2. SawRequested(p) /\ Deploy <= p.from
  BY DEF ScanSound
<1>3. b \in Int /\ p.from <= b /\ b <= p.to /\ b <= MaxBlock
  <2>1. <<j, b>>[2] = b /\ <<j, b>> \in Jobs \X Int
    BY <1>1
  <2> QED
    BY <1>2, <2>1 DEF SawRequested
<1>4. b \in Blocks
  BY <1>1, <1>2, <1>3, BlocksUpTo, StoreAssumption
<1>5. ASSUME NEW c, <<j, c>> \in p.requested PROVE c = b
  <2>1. <<j, b>>[1] = <<j, c>>[1]
    OBVIOUS
  <2>2. <<j, b>>[2] = <<j, c>>[2]
    BY <1>2, <1>5, <2>1 DEF SawRequested
  <2> QED
    BY <2>2
<1>6. {c \in Blocks : <<j, c>> \in p.requested} = {b}
  BY <1>4, <1>5
<1> QED
  BY <1>3, <1>6

\* What the two ways to apply a scan's answers have in common.
Applied(p, R) ==
    /\ R \in Tables
    /\ \A j \in Jobs : R[j] # None => R[j].block <= p.to
    /\ \A j \in Jobs : \A b \in Int :
          <<j, b>> \in p.requested /\ j \notin p.finalized
            => R[j] # None /\ ~R[j].orphaned /\ R[j].block = b
    /\ \A j \in Jobs :
          (/\ rows[j] # None /\ ~rows[j].orphaned /\ rows[j].block < p.from
           /\ j \notin p.finalized
           /\ \A b \in Int : <<j, b>> \notin p.requested)
            => R[j] = rows[j]

\* The end of a scan whose range begins where the cursor's does.
LEMMA AppliedCovers ==
    ASSUME StoreInv, NEW p \in Procs, p.pc = "scan", ScanSound(p),
           p.requested # None, p.finalized # None,
           p.from = MaxOf(Deploy, cursor - Lookback), cursor <= p.to,
           UNCHANGED chain, Applied(p, rows'), cursor' = MaxOf(cursor, p.to + 1)
    PROVE  cursor' = p.to + 1 /\ cursor' \in Int /\ Covers(cursor, rows)'
<1>1. /\ p.from \in Int /\ p.to \in Int /\ cursor \in Int /\ Deploy \in Int /\ Lookback \in Nat
      /\ p.requested \in SUBSET (Jobs \X Int) /\ p.finalized \in SUBSET Jobs
      /\ Latest(peak) \in Int
  BY StoreAssumption DEF StoreInv, TypeInv, Procs, Latest, MaxOf
<1>2. cursor' = p.to + 1 /\ cursor' \in Int
  BY <1>1 DEF MaxOf
<1>3. /\ Deploy <= cursor /\ p.to <= Latest(peak) /\ SawRequested(p) /\ SawFinalized(p)
      /\ Covers(cursor, rows)
      /\ peak' = peak /\ requestedAt' = requestedAt /\ finalizedAt' = finalizedAt
  BY DEF StoreInv, Covers, ScanSound, chain
<1>4. (Deploy <= cursor /\ cursor <= Latest(peak) + 1)'
  BY <1>1, <1>2, <1>3
<1>5. ASSUME NEW j \in Jobs, rows'[j] # None PROVE rows'[j].block < cursor'
  <2>1. rows'[j].block \in Int /\ rows'[j].block <= p.to
    BY <1>5 DEF Applied, Tables, Rows
  <2> QED
    BY <1>1, <1>2, <2>1
<1>6. ASSUME NEW j \in Jobs, Pending(j), requestedAt[j] < cursor' - Lookback
      PROVE  rows'[j] # None /\ ~rows'[j].orphaned /\ rows'[j].block = requestedAt[j]
  <2>1. requestedAt[j] \in Int /\ requestedAt[j] # None /\ Deploy < requestedAt[j]
    BY <1>6 DEF Pending, StoreInv, TypeInv, Heights, ChainSound
  <2>2. j \notin p.finalized
    BY <1>3, <1>6 DEF SawFinalized, Pending
  <2>3. CASE p.from <= requestedAt[j]
    <3>1. <<j, requestedAt[j]>> \in p.requested
      BY <1>1, <1>2, <1>3, <1>6, <2>1, <2>3 DEF SawRequested
    <3> QED
      BY <2>1, <2>2, <3>1 DEF Applied
  <2>4. CASE requestedAt[j] < p.from
    <3>1. requestedAt[j] < cursor - Lookback
      BY <1>1, <2>1, <2>4 DEF MaxOf
    <3>2. rows[j] # None /\ ~rows[j].orphaned /\ rows[j].block = requestedAt[j]
      BY <1>3, <1>6, <3>1 DEF Covers
    <3>3. \A b \in Int : <<j, b>> \notin p.requested
      <4>1. \A x \in p.requested : x[1] # j
        BY <1>3, <2>1, <2>4 DEF SawRequested
      <4>2. \A b \in Int : <<j, b>>[1] = j
        OBVIOUS
      <4> QED
        BY <4>1, <4>2
    <3> QED
      BY <2>2, <2>4, <3>2, <3>3 DEF Applied
  <2> QED
    BY <1>1, <2>1, <2>3, <2>4
<1>7. \A j \in Jobs : Pending(j)' <=> Pending(j)
  BY <1>3 DEF Pending
<1> QED
  BY <1>2, <1>3, <1>4, <1>5, <1>6, <1>7 DEF Covers

\* Rows of a scan that found no event of the request, and of one that did.
LEMMA AppliedRow ==
    ASSUME StoreInv, NEW p \in Procs, p.pc = "scan", ScanSound(p),
           p.requested # None, NEW j \in Jobs
    PROVE  LET found == {b \in Blocks : <<j, b>> \in p.requested}
           IN  \/ found = {} /\ \A b \in Int : <<j, b>> \notin p.requested
               \/ \E b \in Int : /\ found # {} /\ (CHOOSE c \in found : TRUE) = b
                                 /\ b <= p.to /\ <<j, b>> \in p.requested
                                 /\ \A c \in Int : <<j, c>> \in p.requested => c = b
<1> DEFINE found == {b \in Blocks : <<j, b>> \in p.requested}
<1>1. CASE \E b \in Int : <<j, b>> \in p.requested
  <2>1. PICK b \in Int : <<j, b>> \in p.requested
    BY <1>1
  <2>2. found # {} /\ (CHOOSE c \in found : TRUE) = b /\ b <= p.to
    BY <2>1, Found
  <2>3. ASSUME NEW c \in Int, <<j, c>> \in p.requested PROVE c = b
    <3>1. (CHOOSE x \in found : TRUE) = c
      BY <2>3, Found
    <3> QED
      BY <2>2, <3>1
  <2> QED
    BY <2>1, <2>2, <2>3
<1>2. CASE \A b \in Int : <<j, b>> \notin p.requested
  <2>1. Blocks \subseteq Int
    BY StoreAssumption DEF Blocks
  <2>2. found = {}
    BY <1>2, <2>1
  <2> QED
    BY <1>2, <2>2
<1> QED
  BY <1>1, <1>2

LEMMA RescannedRow ==
    ASSUME NEW row \in Rows \cup {None}, NEW f \in Int
    PROVE  LET m == Rescanned(row, f)
           IN  /\ m \in Rows \cup {None}
               /\ m = None <=> row = None
               /\ row # None => m.block = row.block /\ m.owner = row.owner /\ m.live = row.live
               /\ row # None /\ row.block < f => m = row
<1>1. CASE row = None
  BY <1>1 DEF Rescanned
<1>2. CASE row # None
  <2> DEFINE o == [row EXCEPT !.orphaned = TRUE]
  <2>1. row \in Rows
    BY <1>2
  <2>2. o \in Rows /\ o.block = row.block /\ o.owner = row.owner /\ o.live = row.live
    BY <2>1 DEF Rows
  <2>3. o # None /\ row.block \in Int
    BY <2>1, <2>2, StoreAssumption DEF Rows
  <2> HIDE DEF o
  <2>4. Rescanned(row, f) = IF row.block >= f THEN o ELSE row
    BY <1>2 DEF Rescanned, o
  <2> QED
    BY <1>2, <2>1, <2>2, <2>3, <2>4
<1> QED
  BY <1>1, <1>2

LEMMA UpsertedRow ==
    ASSUME NEW row \in Rows \cup {None}, NEW b \in Int
    PROVE  LET u == Upserted(row, b)
           IN  /\ u \in Rows /\ u # None /\ u.block = b /\ ~u.orphaned
               /\ row # None => u.owner = row.owner /\ u.live = row.live
               /\ row = None => ~u.live
<1>1. CASE row = None
  <2> DEFINE n == [block |-> b, orphaned |-> FALSE, owner |-> None, live |-> FALSE]
  <2>1. n \in Rows /\ n.block = b /\ n.orphaned = FALSE /\ n.live = FALSE
    BY DEF Rows
  <2>2. n # None
    BY <2>1, StoreAssumption
  <2> HIDE DEF n
  <2>3. Upserted(row, b) = n
    BY <1>1 DEF Upserted, n
  <2> QED
    BY <1>1, <2>1, <2>2, <2>3
<1>2. CASE row # None
  <2>1. row \in Rows
    BY <1>2
  <2> DEFINE u1 == [row EXCEPT !.block = b]
             u2 == [u1 EXCEPT !.orphaned = FALSE]
  <2>2. u1 \in Rows /\ u1.block = b /\ u1.owner = row.owner /\ u1.live = row.live
    BY <2>1 DEF Rows
  <2> HIDE DEF u1
  <2>3. /\ u2 \in Rows /\ u2.block = b /\ u2.orphaned = FALSE
        /\ u2.owner = row.owner /\ u2.live = row.live
    BY <2>2 DEF Rows
  <2>4. u2 # None
    BY <2>3, StoreAssumption
  <2> HIDE DEF u2
  <2>5. Upserted(row, b) = u2
    BY <1>2 DEF Upserted, u1, u2
  <2> QED
    BY <1>2, <2>3, <2>4, <2>5
<1> QED
  BY <1>1, <1>2

LEMMA AfterScanRow ==
    ASSUME StoreInv, NEW p \in Procs, p.pc = "scan", ScanSound(p),
           p.requested # None, p.finalized # None, cursor <= p.to, NEW j \in Jobs
    PROVE  LET r == AfterScan(j, p)
           IN  /\ r \in Rows \cup {None}
               /\ r # None => r.block <= p.to
               /\ \A b \in Int : <<j, b>> \in p.requested /\ j \notin p.finalized
                     => r # None /\ ~r.orphaned /\ r.block = b
               /\ (/\ rows[j] # None /\ ~rows[j].orphaned /\ rows[j].block < p.from
                   /\ j \notin p.finalized
                   /\ \A b \in Int : <<j, b>> \notin p.requested)
                     => r = rows[j]
<1> DEFINE found == {b \in Blocks : <<j, b>> \in p.requested}
<1>1. PICK m : m = Rescanned(rows[j], p.from)
  OBVIOUS
<1>2. /\ rows[j] \in Rows \cup {None} /\ p.from \in Int /\ p.to \in Int /\ cursor \in Int
      /\ rows[j] # None => rows[j].block \in Int /\ rows[j].block < cursor
  BY DEF StoreInv, TypeInv, Tables, Procs, Covers, Rows
<1>3. /\ m \in Rows \cup {None}
      /\ m = None <=> rows[j] = None
      /\ rows[j] # None => m.block = rows[j].block /\ m.owner = rows[j].owner
                                                   /\ m.live = rows[j].live
      /\ rows[j] # None /\ rows[j].block < p.from => m = rows[j]
  <2>1. PICK row \in Rows \cup {None} : row = rows[j]
    BY <1>2
  <2> QED
    BY <1>1, <1>2, <2>1, RescannedRow
<1>4. CASE found = {} /\ \A b \in Int : <<j, b>> \notin p.requested
  <2>1. AfterScan(j, p) = IF m = None \/ j \in p.finalized \/ (m.orphaned /\ Claimable(m))
                          THEN None ELSE m
    BY <1>1, <1>4 DEF AfterScan
  <2>2. m # None => m.block <= p.to
    BY <1>2, <1>3
  <2> QED
    BY <1>3, <1>4, <2>1, <2>2
<1>5. ASSUME NEW b \in Int, found # {}, (CHOOSE c \in found : TRUE) = b,
             b <= p.to, <<j, b>> \in p.requested,
             \A c \in Int : <<j, c>> \in p.requested => c = b
      PROVE  LET r == AfterScan(j, p)
             IN  /\ r \in Rows \cup {None}
                 /\ r # None => r.block <= p.to
                 /\ j \notin p.finalized => r # None /\ ~r.orphaned /\ r.block = b
  <2>1. PICK u : u = Upserted(m, b)
    OBVIOUS
  <2>2. u \in Rows /\ u # None /\ u.block = b /\ ~u.orphaned
    BY <1>3, <2>1, UpsertedRow
  <2>3. AfterScan(j, p) = IF u = None \/ j \in p.finalized \/ (u.orphaned /\ Claimable(u))
                          THEN None ELSE u
    BY <1>1, <1>5, <2>1 DEF AfterScan
  <2> QED
    BY <1>5, <2>2, <2>3
<1>6. \/ found = {} /\ \A b \in Int : <<j, b>> \notin p.requested
      \/ \E b \in Int : /\ found # {} /\ (CHOOSE c \in found : TRUE) = b
                        /\ b <= p.to /\ <<j, b>> \in p.requested
                        /\ \A c \in Int : <<j, c>> \in p.requested => c = b
  BY AppliedRow
<1>7. CASE \E b \in Int : /\ found # {} /\ (CHOOSE c \in found : TRUE) = b
                        /\ b <= p.to /\ <<j, b>> \in p.requested
                        /\ \A c \in Int : <<j, c>> \in p.requested => c = b
  BY <1>5, <1>7
<1> QED
  BY <1>4, <1>6, <1>7

LEMMA MoveOnKeeps ==
    ASSUME StoreInv, NEW w \in Workers, NEW p \in Procs, p = worker[w], p.pc = "scan",
           p.requested # None, p.finalized # None, Holds(w),
           UNCHANGED <<chain, program, evidence>>,
           Applied(p, rows'), cursor' = MaxOf(cursor, p.to + 1),
           worker' = [worker EXCEPT ![w] = Idle] \/ (w \in Team /\ BackToLoop(w)),
           saved' = saved \/ saved' = Memory',
           \/ program # "file" /\ scan' = Free
           \/ /\ program = "file" /\ scan' = scan
              /\ \A j \in Jobs : rows'[j] # None => ~rows'[j].live,
           program = "compact" => EventsOf(p) \subseteq evidence
    PROVE  StoreInv'
<1>1. /\ ScanSound(p) /\ p.from = MaxOf(Deploy, cursor - Lookback) /\ cursor <= p.to
      /\ SawRequested(p) /\ SawFinalized(p)
  BY DEF StoreInv, HoldersSound, ScanSound
<1>2. cursor' = p.to + 1 /\ cursor' \in Int /\ Covers(cursor, rows)'
  BY <1>1, AppliedCovers
<1>3. /\ worker' \in [Workers -> Procs]
      /\ \A v \in Workers : worker'[v] = worker[v] \/ Rests(v)'
      /\ worker'[w].pc # "scan" /\ worker'[w].pc # "serve"
  BY Parked
<1>4. saved' \in [cursor : Int, rows : Tables] /\ Covers(saved.cursor, saved.rows)'
  <2>1. CASE saved' = saved
    BY <2>1 DEF StoreInv, TypeInv, Covers, Pending, chain
  <2>2. CASE saved' = Memory'
    <3>1. saved' = [cursor |-> cursor', rows |-> rows'] /\ rows' \in Tables
      BY <2>2 DEF Memory, Applied
    <3>2. saved'.cursor = cursor' /\ saved'.rows = rows'
      BY <3>1
    <3> QED
      BY <1>2, <3>1, <3>2 DEF Covers
  <2> QED
    BY <2>1, <2>2
<1>5. TypeInv'
  <2>1. scan' \in [owner : Workers \cup {None, Dead}, live : BOOLEAN]
    BY ScanLease
  <2> QED
    BY <1>2, <1>3, <1>4, <2>1 DEF StoreInv, TypeInv, Applied, chain
<1>6. ChainSound'
  BY DEF StoreInv, ChainSound, chain
<1>7. ASSUME NEW v \in Workers PROVE ScanSound(worker[v])'
  <2>1. CASE worker'[v] = worker[v]
    BY <2>1, SameScan DEF StoreInv
  <2>2. CASE Rests(v)'
    BY <2>2 DEF Rests, ScanSound
  <2> QED
    BY <1>3, <2>1, <2>2
<1>8. TeamOnly'
  BY <1>3 DEF StoreInv, TeamOnly, Team, Rests
<1>9. HoldersSound'
  <2> SUFFICES ASSUME NEW v \in Workers, worker'[v].pc = "scan", Holds(v)' PROVE FALSE
    BY DEF HoldersSound
  <2>1. program = "file"
    BY ScanLease DEF Holds
  <2>2. v \in Team /\ w \in Team
    BY <1>3 DEF StoreInv, TeamOnly, Rests
  <2>3. v = w
    BY <2>1, <2>2, LoopAssumption DEF StoreInv, TypeInv, Team
  <2> QED
    BY <1>3, <2>3
<1>10. FileRowsFree'
  BY DEF StoreInv, FileRowsFree, Memory
<1>11. EvidenceComplete'
  <2> SUFFICES ASSUME program = "compact", NEW j \in Jobs
               PROVE  /\ requestedAt[j] # None /\ requestedAt[j] < cursor' - Lookback
                           => <<j, requestedAt[j]>> \in evidence
                      /\ finalizedAt[j] # None /\ finalizedAt[j] < cursor' - Lookback
                           => <<j, finalizedAt[j]>> \in evidence
    BY DEF EvidenceComplete, chain
  <2>1. /\ p.from \in Int /\ p.to \in Int /\ cursor \in Int /\ Deploy \in Int /\ Lookback \in Int
        /\ requestedAt[j] # None => requestedAt[j] \in Int /\ Deploy < requestedAt[j]
        /\ finalizedAt[j] # None => finalizedAt[j] \in Int /\ Deploy < finalizedAt[j]
    BY StoreAssumption DEF StoreInv, TypeInv, Procs, Heights, ChainSound
  <2>2. ASSUME NEW b \in Int, Deploy < b, b < cursor' - Lookback
        PROVE  (p.from <= b /\ b <= p.to - Lookback) \/ b < cursor - Lookback
    BY <1>1, <1>2, <2>1, <2>2 DEF MaxOf
  <2>3. EventsOf(p) \subseteq evidence
    OBVIOUS
  <2>4. ASSUME requestedAt[j] # None, requestedAt[j] < cursor' - Lookback
        PROVE  <<j, requestedAt[j]>> \in evidence
    BY <1>1, <2>1, <2>2, <2>3, <2>4 DEF SawRequested, EventsOf, StoreInv, EvidenceComplete
  <2>5. ASSUME finalizedAt[j] # None, finalizedAt[j] < cursor' - Lookback
        PROVE  <<j, finalizedAt[j]>> \in evidence
    <3>1. CASE p.from <= finalizedAt[j] /\ finalizedAt[j] <= p.to - Lookback
      <4>1. j \in p.finalized
        BY <1>1, <2>5, <3>1 DEF SawFinalized
      <4> QED
        BY <2>3, <4>1 DEF EventsOf
    <3>2. CASE finalizedAt[j] < cursor - Lookback
      BY <2>5, <3>2 DEF StoreInv, EvidenceComplete
    <3> QED
      BY <2>1, <2>2, <2>5, <3>1, <3>2
  <2> QED
    BY <2>4, <2>5
<1> QED
  BY <1>2, <1>4, <1>5, <1>6, <1>7, <1>8, <1>9, <1>10, <1>11 DEF StoreInv

LEMMA CommitScanKeeps ==
    ASSUME StoreInv, NEW w \in Workers, program # "file", CommitScan(w), UNCHANGED own,
           program = "compact" => EventsOf(worker[w]) \subseteq evidence
    PROVE  StoreInv'
<1>1. CASE scan.owner # w
  <2>1. UNCHANGED <<chain, store, own>> /\ worker' = [worker EXCEPT ![w] = Idle]
    BY <1>1 DEF CommitScan
  <2>2. Quiet
    BY <2>1, Parked, ScanLease DEF Quiet, store, own
  <2> QED
    BY <2>1, <2>2, SameRowsStand, QuietKeeps DEF store
<1>2. CASE scan.owner = w
  <2>1. PICK p \in Procs : p = worker[w]
    BY DEF StoreInv, TypeInv
  <2>2. /\ p.pc = "scan" /\ p.requested # None /\ p.finalized # None
        /\ rows' = [j \in Jobs |-> AfterScan(j, p)]
        /\ cursor' = MaxOf(cursor, p.to + 1) /\ scan' = Free
        /\ worker' = [worker EXCEPT ![w] = Idle]
        /\ UNCHANGED <<chain, own>>
    BY <1>2, <2>1 DEF CommitScan
  <2>3. Holds(w) /\ ScanSound(p) /\ cursor <= p.to
    BY <1>2, <2>1, <2>2 DEF Holds, StoreInv, HoldersSound
  <2>4. Applied(p, rows')
    <3>1. \A j \in Jobs : rows'[j] = AfterScan(j, p)
      BY <2>2
    <3>2. rows' \in Tables
      BY <2>2, <2>3, AfterScanRow DEF Tables
    <3> QED
      BY <2>2, <2>3, <3>1, <3>2, AfterScanRow DEF Applied
  <2>5. UNCHANGED <<chain, program, evidence>> /\ saved' = saved
    BY <2>2 DEF own
  <2> QED
    BY <2>1, <2>2, <2>3, <2>4, <2>5, MoveOnKeeps
<1> QED
  BY <1>1, <1>2

LEMMA FinishFileKeeps ==
    ASSUME StoreInv, NEW w \in Team, w \in Workers, program = "file", finishFileScan(w)
    PROVE  StoreInv'
<1>1. PICK p \in Procs : p = worker[w]
  BY DEF StoreInv, TypeInv
<1> DEFINE found(j) == {b \in Blocks : <<j, b>> \in p.requested}
           after(j) == IF j \in p.finalized THEN None
                       ELSE IF found(j) # {} THEN Upserted(None, CHOOSE b \in found(j) : TRUE)
                       ELSE rows[j]
<1>2. /\ p.pc = "scan" /\ p.requested # None /\ p.finalized # None
      /\ rows' = [j \in Jobs |-> after(j)]
      /\ cursor' = MaxOf(cursor, p.to + 1)
      /\ saved' = Memory' /\ BackToLoop(w)
      /\ UNCHANGED <<chain, scan, program, evidence>>
  BY <1>1 DEF finishFileScan, writeJsonAtomic, BackToLoop
<1>3. Holds(w) /\ ScanSound(p) /\ cursor <= p.to
  BY <1>1, <1>2 DEF Holds, StoreInv, HoldersSound
<1>4. \A b \in Int : LET u == Upserted(None, b)
                     IN  u \in Rows /\ u # None /\ u.block = b /\ ~u.orphaned /\ ~u.live
  <2>1. None \in Rows \cup {None}
    OBVIOUS
  <2> QED
    BY <2>1, UpsertedRow
<1>5. ASSUME NEW j \in Jobs
      PROVE  /\ after(j) \in Rows \cup {None}
             /\ after(j) # None => after(j).block <= p.to /\ ~after(j).live
             /\ \A b \in Int : <<j, b>> \in p.requested /\ j \notin p.finalized
                     => after(j) # None /\ ~after(j).orphaned /\ after(j).block = b
             /\ (/\ rows[j] # None /\ ~rows[j].orphaned /\ rows[j].block < p.from
                 /\ j \notin p.finalized
                 /\ \A b \in Int : <<j, b>> \notin p.requested)
                     => after(j) = rows[j]
  <2>1. /\ rows[j] \in Rows \cup {None} /\ p.to \in Int /\ cursor \in Int
        /\ rows[j] # None => rows[j].block \in Int /\ rows[j].block < cursor /\ ~rows[j].live
    BY DEF StoreInv, TypeInv, Tables, Procs, Covers, Rows, FileRowsFree
  <2>2. CASE found(j) = {} /\ \A b \in Int : <<j, b>> \notin p.requested
    BY <1>3, <2>1, <2>2
  <2>3. ASSUME NEW b \in Int, found(j) # {}, (CHOOSE c \in found(j) : TRUE) = b,
               b <= p.to, <<j, b>> \in p.requested,
               \A c \in Int : <<j, c>> \in p.requested => c = b
        PROVE  /\ after(j) \in Rows \cup {None}
               /\ after(j) # None => after(j).block <= p.to /\ ~after(j).live
               /\ j \notin p.finalized => after(j) # None /\ ~after(j).orphaned /\ after(j).block = b
    <3>1. PICK u : u = Upserted(None, b)
      OBVIOUS
    <3>2. u \in Rows /\ u # None /\ u.block = b /\ ~u.orphaned /\ ~u.live
      BY <1>4, <3>1
    <3>3. after(j) = IF j \in p.finalized THEN None ELSE u
      BY <2>3, <3>1
    <3> QED
      BY <2>3, <3>2, <3>3
  <2>4. \/ found(j) = {} /\ \A b \in Int : <<j, b>> \notin p.requested
        \/ \E b \in Int : /\ found(j) # {} /\ (CHOOSE c \in found(j) : TRUE) = b
                          /\ b <= p.to /\ <<j, b>> \in p.requested
                          /\ \A c \in Int : <<j, c>> \in p.requested => c = b
    BY <1>2, <1>3, AppliedRow
  <2> HIDE DEF after
  <2>5. CASE \E b \in Int : /\ found(j) # {} /\ (CHOOSE c \in found(j) : TRUE) = b
                            /\ b <= p.to /\ <<j, b>> \in p.requested
                            /\ \A c \in Int : <<j, c>> \in p.requested => c = b
    BY <2>3, <2>5
  <2> QED
    BY <2>2, <2>4, <2>5
<1> HIDE DEF after
<1>6. Applied(p, rows') /\ \A j \in Jobs : rows'[j] # None => ~rows'[j].live
  <2>1. rows' \in Tables
    BY <1>2, <1>5 DEF Tables
  <2>2. \A j \in Jobs : rows'[j] = after(j)
    BY <1>2
  <2> QED
    BY <1>5, <2>1, <2>2 DEF Applied
<1> QED
  BY <1>1, <1>2, <1>3, <1>6, MoveOnKeeps

LEMMA SaveEvidenceKeeps ==
    ASSUME StoreInv, NEW w \in Workers, saveWitnessEvents(w)
    PROVE  StoreInv'
<1>1. UNCHANGED <<vars, program, saved>> /\ evidence \subseteq evidence'
  BY DEF saveWitnessEvents
<1>2. UNCHANGED <<head, peak, requestedAt, finalizedAt, cursor, scan, rows, worker>>
  BY <1>1 DEF vars
<1>3. TypeInv' /\ ChainSound' /\ HoldersSound' /\ TeamOnly' /\ FileRowsFree'
  BY <1>1, <1>2 DEF StoreInv, TypeInv, ChainSound, HoldersSound, Holds, TeamOnly, Team, FileRowsFree
<1>4. Covers(cursor, rows)' /\ Covers(saved.cursor, saved.rows)'
  BY <1>1, <1>2 DEF StoreInv, Covers, Pending
<1>5. (\A v \in Workers : ScanSound(worker[v]))'
  BY <1>2, SameScan DEF StoreInv, chain
<1>6. EvidenceComplete'
  BY <1>1, <1>2 DEF StoreInv, EvidenceComplete
<1> QED
  BY <1>3, <1>4, <1>5, <1>6 DEF StoreInv

LEMMA RestartKeeps ==
    ASSUME StoreInv, NEW w \in Team, w \in Workers, program = "file", restartFromFile(w)
    PROVE  StoreInv'
<1>1. /\ UNCHANGED <<chain, scan, program, saved, evidence>>
      /\ cursor' = saved.cursor /\ rows' = saved.rows
      /\ worker' = [worker EXCEPT ![w] = Idle]
  BY DEF restartFromFile, LoadState, own
<1>2. /\ worker' \in [Workers -> Procs]
      /\ \A v \in Workers : worker'[v] = worker[v] \/ Rests(v)'
      /\ worker'[w].pc # "scan"
  BY <1>1, Parked
<1>3. TypeInv' /\ ChainSound'
  BY <1>1, <1>2 DEF StoreInv, TypeInv, ChainSound, chain
<1>4. Covers(saved.cursor, saved.rows)' /\ Covers(cursor, rows)'
  BY <1>1 DEF StoreInv, Covers, Pending, chain
<1>5. ASSUME NEW v \in Workers PROVE ScanSound(worker[v])'
  <2>1. CASE worker'[v] = worker[v]
    BY <1>1, <2>1, SameScan DEF StoreInv
  <2>2. CASE Rests(v)'
    BY <2>2 DEF Rests, ScanSound
  <2> QED
    BY <1>2, <2>1, <2>2
<1>6. TeamOnly'
  BY <1>1, <1>2 DEF StoreInv, TeamOnly, Team, Rests
<1>7. HoldersSound'
  <2> SUFFICES ASSUME NEW v \in Workers, worker'[v].pc = "scan" PROVE FALSE
    BY DEF HoldersSound
  <2>1. v \in Team
    BY <1>2 DEF StoreInv, TeamOnly, Rests
  <2>2. v = w
    BY <2>1, LoopAssumption DEF StoreInv, TypeInv, Team
  <2> QED
    BY <1>2, <2>2
<1>8. FileRowsFree' /\ EvidenceComplete'
  BY <1>1 DEF StoreInv, FileRowsFree, EvidenceComplete
<1> QED
  BY <1>3, <1>4, <1>5, <1>6, <1>7, <1>8 DEF StoreInv

-----------------------------------------------------------------------------
(* The theorems *)

LEMMA StoreInit ==
    ASSUME LoopInit
    PROVE  StoreInv
<1>1. Idle \in Procs /\ Idle.pc = "idle"
  BY DEF Idle, Procs
<1>2. /\ head = Deploy /\ peak = Deploy /\ cursor = Deploy /\ scan = Free
      /\ requestedAt = [j \in Jobs |-> None] /\ finalizedAt = [j \in Jobs |-> None]
      /\ rows = [j \in Jobs |-> None] /\ worker = [w \in Workers |-> Idle]
      /\ program \in DOMAIN Teams
      /\ saved = [cursor |-> cursor, rows |-> rows]
  BY DEF LoopInit, Init, Memory
<1>3. Deploy \in Int /\ Latest(Deploy) = Deploy
  BY StoreAssumption DEF Latest, MaxOf
<1>4. TypeInv
  BY <1>1, <1>2, <1>3 DEF TypeInv, Heights, Tables, Free
<1>5. ChainSound /\ EvidenceComplete /\ FileRowsFree
  BY <1>2, <1>3, StoreAssumption DEF ChainSound, EvidenceComplete, FileRowsFree
<1>6. Covers(cursor, rows) /\ Covers(saved.cursor, saved.rows)
  BY <1>2, <1>3 DEF Covers, Pending
<1>7. (\A w \in Workers : ScanSound(worker[w])) /\ HoldersSound /\ TeamOnly
  BY <1>1, <1>2 DEF ScanSound, HoldersSound, TeamOnly
<1> QED
  BY <1>4, <1>5, <1>6, <1>7 DEF StoreInv

LEMMA FulfillKeeps ==
    ASSUME StoreInv, NEW w \in Workers, Fulfill(w), UNCHANGED own
    PROVE  StoreInv'
<1>1. worker[w].job \in Jobs /\ Finalize(worker[w].job) /\ UNCHANGED <<store, worker, own>>
  BY DEF Fulfill, StoreInv, TeamOnly
<1> QED
  BY <1>1, FinalizeStep, ChainKeeps

LEMMA EnvironmentKeeps ==
    ASSUME StoreInv, Environment
    PROVE  StoreInv'
<1>1. UNCHANGED own
  BY DEF Environment
<1>2. ASSUME NEW j \in Jobs, SettleElsewhere(j) PROVE StoreInv'
  BY <1>1, <1>2, FinalizeStep, ChainKeeps DEF SettleElsewhere
<1>3. ASSUME NEW j \in Jobs, Request(j) PROVE StoreInv'
  BY <1>1, <1>3, RequestStep, ChainKeeps DEF Request
<1>4. CASE EmptyBlock
  BY <1>1, <1>4, EmptyBlockStep, ChainKeeps DEF EmptyBlock
<1>5. CASE Reorg
  BY <1>1, <1>5, ReorgStep, ChainKeeps DEF Reorg
<1>6. CASE ExpireScan \/ \E j \in Jobs : ExpireRow(j)
  BY <1>1, <1>6, ExpireKeeps
<1> QED
  BY <1>2, <1>3, <1>4, <1>5, <1>6 DEF Environment

LEMMA InstanceKeeps ==
    ASSUME StoreInv, NEW w \in Team, Scan(w) \/ Serve(w) \/ endIteration(w) \/ Failure(w)
    PROVE  StoreInv'
<1>1. w \in Workers
  BY LoopAssumption DEF StoreInv, TypeInv, Team
<1>2. CASE program = "postgres" /\ (Scanning(w) \/ Serving(w)) /\ UNCHANGED own
  BY <1>1, <1>2, ClaimScanKeeps, QueryRequestedKeeps, QueryFinalizedKeeps, CommitScanKeeps,
     ClaimRequestKeeps, CompleteRequestKeeps, RetryRequestKeeps, FulfillKeeps DEF Scanning, Serving
<1>3. CASE program = "compact" /\ Scan(w)
  BY <1>1, <1>3, ClaimScanKeeps, CompactEventsKeeps, BystanderKeeps, SaveEvidenceKeeps,
     CommitScanKeeps DEF Scan, commitCompactScan
<1>4. CASE program = "compact" /\ Serve(w)
  BY <1>1, <1>4, ClaimRequestKeeps, FulfillKeeps, CompleteCompactKeeps, RetryRequestKeeps
     DEF Serve, sendCompactClaim
<1>5. CASE program = "file" /\ Scan(w)
  BY <1>1, <1>5, BeginFileKeeps, BystanderKeeps, FinishFileKeeps, QueryRequestedKeeps,
     QueryFinalizedKeeps DEF Scan
<1>6. CASE program = "file" /\ Serve(w)
  BY <1>1, <1>6, BystanderKeeps, CompleteFromFileKeeps, FulfillKeeps DEF Serve
<1>7. CASE endIteration(w)
  BY <1>1, <1>7, BystanderKeeps
<1>8. CASE Failure(w)
  BY <1>1, <1>8, BystanderKeeps, RestartKeeps, ScanErrorKeeps, RetryRequestKeeps, CrashKeeps
     DEF Failure
<1> QED
  BY <1>2, <1>3, <1>4, <1>5, <1>6, <1>7, <1>8 DEF Scan, Serve

LEMMA StoreStep ==
    ASSUME StoreInv, [LoopNext]_loopVars
    PROVE  StoreInv'
<1>1. CASE LoopNext
  BY <1>1, EnvironmentKeeps, InstanceKeeps DEF LoopNext
<1>2. CASE UNCHANGED loopVars
  <2>1. UNCHANGED <<head, peak, requestedAt, finalizedAt, cursor, scan, rows, worker,
                    program, saved, evidence>>
    BY <1>2 DEF loopVars, vars
  <2>2. UNCHANGED <<chain, store, own>>
    BY <2>1 DEF chain, store, own
  <2>3. Quiet
    BY <2>1, <2>2 DEF Quiet, StoreInv, TypeInv
  <2> QED
    BY <2>1, <2>3, SameRowsStand, QuietKeeps
<1> QED
  BY <1>1, <1>2

\* The queue and the chain keep step, in every reachable state of the three
\* programs (postgres-store.mjs, cli.mjs, compact-worker.mjs).
THEOREM StoreInvariant == LoopSpec => []StoreInv
<1>1. LoopInit => StoreInv
  BY StoreInit
<1>2. StoreInv /\ [LoopNext]_loopVars => StoreInv'
  BY StoreStep
<1> QED
  BY <1>1, <1>2, PTL DEF LoopSpec

\* A pending request below the blocks that will be scanned again has a row
\* that is not orphaned, whatever crashed, overlapped, ran out, lagged or was
\* reorganised (claimScan, commitScan, completeRequest).
THEOREM StoreNoRequestLost == LoopSpec => []NoRequestLost
<1>1. StoreInv => NoRequestLost
  BY DEF StoreInv, Covers, NoRequestLost
<1> QED
  BY <1>1, StoreInvariant, PTL

\* The commit of the instance that holds the scan lease covers every row it
\* may orphan, and the cursor has not moved since its claim (commitScan).
THEOREM StoreScanCoversRows == LoopSpec => []ScanCoversRows
<1>1. StoreInv => ScanCoversRows
  <2> SUFFICES ASSUME StoreInv, NEW w \in Workers, worker[w].pc = "scan", scan.owner = w
               PROVE  /\ worker[w].from <= cursor /\ cursor <= worker[w].to
                      /\ \A j \in Jobs : rows[j] # None => rows[j].block <= worker[w].to
    BY DEF ScanCoversRows
  <2>1. worker[w].from = MaxOf(Deploy, cursor - Lookback) /\ cursor <= worker[w].to
    BY DEF StoreInv, HoldersSound, Holds
  <2>2. /\ cursor \in Int /\ Deploy \in Int /\ Lookback \in Nat /\ Deploy <= cursor
        /\ worker[w].to \in Int
    BY StoreAssumption DEF StoreInv, TypeInv, Covers, Procs
  <2>3. worker[w].from <= cursor
    BY <2>1, <2>2 DEF MaxOf
  <2>4. ASSUME NEW j \in Jobs, rows[j] # None PROVE rows[j].block <= worker[w].to
    <3>1. rows[j].block \in Int /\ rows[j].block < cursor
      BY <2>4 DEF StoreInv, TypeInv, Tables, Rows, Covers
    <3> QED
      BY <2>1, <2>2, <3>1
  <2> QED
    BY <2>1, <2>3, <2>4
<1> QED
  BY <1>1, StoreInvariant, PTL

\* The JSON state file alone holds every pending request that a restart would
\* not scan again (scanServiceEvents, writeJsonAtomic).
THEOREM StoreFileComplete == LoopSpec => []SavedCoversPending
<1>1. StoreInv => SavedCoversPending
  BY DEF StoreInv, Covers, SavedCoversPending
<1> QED
  BY <1>1, StoreInvariant, PTL

\* Every event the compact scan has moved past for good is in the evidence
\* table (saveWitnessEvents before commitScan).
THEOREM StoreEvidence == LoopSpec => []EvidenceComplete
<1>1. StoreInv => EvidenceComplete
  BY DEF StoreInv
<1> QED
  BY <1>1, StoreInvariant, PTL

\* What LeaseHonoured says of one step and one request.
Honoured(j) ==
    rows[j] # None /\ rows[j].live /\ rows[j].owner \in Workers =>
        \/ rows'[j] # None /\ rows'[j].owner = rows[j].owner
        \/ worker'[rows[j].owner] # worker[rows[j].owner]
        \/ finalizedAt[j] # None

\* A commit keeps a row under a live lease, unless the request is final.
LEMMA CommitHonours ==
    ASSUME StoreInv, NEW w \in Workers, CommitScan(w), NEW j \in Jobs
    PROVE  Honoured(j)
<1> SUFFICES ASSUME scan.owner = w, rows[j] # None, rows[j].live, rows[j].owner \in Workers,
                    finalizedAt[j] = None
             PROVE  rows'[j] # None /\ rows'[j].owner = rows[j].owner
  BY DEF CommitScan, store, Honoured
<1>1. PICK p \in Procs : p = worker[w]
  BY DEF StoreInv, TypeInv
<1>2. p.pc = "scan" /\ p.requested # None /\ p.finalized # None /\ rows'[j] = AfterScan(j, p)
  BY <1>1 DEF CommitScan
<1>3. ScanSound(p) /\ j \notin p.finalized
  BY <1>1, <1>2 DEF StoreInv, ScanSound, SawFinalized
<1>4. PICK row \in Rows : row = rows[j]
  BY DEF StoreInv, TypeInv, Tables
<1>5. p.from \in Int /\ row # None /\ row.owner # None /\ row.live
  BY <1>4, StoreAssumption DEF Procs
<1>6. PICK m \in Rows : /\ m = Rescanned(row, p.from)
                        /\ m # None /\ m.owner = row.owner /\ m.live = row.live
  BY <1>5, RescannedRow
<1> DEFINE found == {b \in Blocks : <<j, b>> \in p.requested}
<1>7. CASE found = {}
  <2>1. AfterScan(j, p) = IF m = None \/ j \in p.finalized \/ (m.orphaned /\ Claimable(m))
                          THEN None ELSE m
    BY <1>4, <1>6, <1>7 DEF AfterScan
  <2> QED
    BY <1>2, <1>3, <1>4, <1>5, <1>6, <2>1 DEF Claimable
<1>8. ASSUME NEW b \in Int, found # {}, (CHOOSE c \in found : TRUE) = b
      PROVE  rows'[j] # None /\ rows'[j].owner = rows[j].owner
  <2>1. PICK u : u = Upserted(m, b)
    OBVIOUS
  <2>2. u # None /\ ~u.orphaned /\ u.owner = m.owner
    BY <1>6, <2>1, UpsertedRow
  <2>3. AfterScan(j, p) = IF u = None \/ j \in p.finalized \/ (u.orphaned /\ Claimable(u))
                          THEN None ELSE u
    BY <1>4, <1>6, <1>8, <2>1 DEF AfterScan
  <2> QED
    BY <1>2, <1>3, <1>4, <1>6, <2>2, <2>3
<1>9. found = {} \/ \E b \in Int : found # {} /\ (CHOOSE c \in found : TRUE) = b
  BY <1>2, <1>3, AppliedRow
<1> QED
  BY <1>7, <1>8, <1>9

\* An instance that touches a leased row either moves itself, being the owner,
\* or finds the lease run out.
LEMMA ServeHonours ==
    ASSUME StoreInv, NEW w \in Workers, NEW j \in Jobs,
           \/ ClaimRequest(w) \/ CompleteRequest(w) \/ RetryRequest(w) \/ RetryUnknown(w)
           \/ Crash(w) \/ completeCompactClaim(w) \/ retryStaleClaim(w)
    PROVE  Honoured(j)
<1> SUFFICES ASSUME rows[j] # None, rows[j].live, rows[j].owner \in Workers
             PROVE  \/ rows'[j] = rows[j]
                    \/ rows'[j] # None /\ rows'[j].owner = rows[j].owner
                    \/ worker'[rows[j].owner] # worker[rows[j].owner]
  BY DEF Honoured
<1>1. rows \in [Jobs -> Rows \cup {None}] /\ worker \in [Workers -> Procs]
  BY DEF StoreInv, TypeInv, Tables
<1>2. CASE ClaimRequest(w)
  <2>1. PICK k \in Jobs : Eligible(k) /\ rows' = [rows EXCEPT ![k].owner = w, ![k].live = TRUE]
    BY <1>2 DEF ClaimRequest
  <2>2. k # j
    BY <2>1, StoreAssumption DEF Eligible, Claimable
  <2> QED
    BY <1>1, <2>1, <2>2
<1>3. CASE Crash(w)
  <2>1. CASE Owns(w, j)
    BY <1>1, <1>3, <2>1 DEF Crash, Owns
  <2>2. CASE ~Owns(w, j)
    BY <1>3, <2>2 DEF Crash
  <2> QED
    BY <2>1, <2>2
<1>4. CASE \/ CompleteRequest(w) \/ RetryRequest(w) \/ RetryUnknown(w)
           \/ completeCompactClaim(w) \/ retryStaleClaim(w)
  <2>1. /\ worker[w].pc = "serve" /\ worker' = [worker EXCEPT ![w] = Idle]
        /\ \/ ~Owns(w, worker[w].job) /\ rows' = rows
           \/ Owns(w, worker[w].job) /\ \A k \in Jobs \ {worker[w].job} : rows'[k] = rows[k]
    BY <1>1, <1>4 DEF CompleteRequest, RetryRequest, RetryUnknown, completeCompactClaim,
                      retryStaleClaim, GiveBack
  <2>2. worker'[w] # worker[w]
    BY <1>1, <2>1 DEF Idle
  <2>3. CASE rows'[j] = rows[j]
    BY <2>3
  <2>4. CASE Owns(w, worker[w].job) /\ worker[w].job = j
    BY <2>2, <2>4 DEF Owns
  <2> QED
    BY <2>1, <2>3, <2>4
<1> QED
  BY <1>2, <1>3, <1>4

LEMMA EnvironmentHonours ==
    ASSUME StoreInv, Environment, NEW j \in Jobs
    PROVE  Honoured(j)
<1>1. CASE rows' = rows
  BY <1>1 DEF Honoured
<1>2. ASSUME NEW k \in Jobs, ExpireRow(k) PROVE Honoured(j)
  <2>1. rows \in [Jobs -> Rows \cup {None}] /\ rows[k] # None
    BY <1>2 DEF StoreInv, TypeInv, Tables, ExpireRow
  <2>2. PICK r \in Rows : r = rows[k]
    BY <2>1
  <2>3. LET q == [r EXCEPT !.live = FALSE] IN q \in Rows /\ q # None /\ q.owner = r.owner
    BY StoreAssumption DEF Rows
  <2>4. rows' = [rows EXCEPT ![k] = [r EXCEPT !.live = FALSE]]
    BY <1>2, <2>2 DEF ExpireRow
  <2> QED
    BY <2>1, <2>2, <2>3, <2>4 DEF Honoured
<1> QED
  BY <1>1, <1>2 DEF Environment, SettleElsewhere, Request, EmptyBlock, Reorg, ExpireScan, store

LEMMA LoopHonours ==
    ASSUME StoreInv, [LoopNext]_loopVars, NEW j \in Jobs
    PROVE  Honoured(j) \/ UNCHANGED vars
<1>1. CASE rows' = rows
  BY <1>1 DEF Honoured
<1>2. CASE program = "file"
  BY <1>2 DEF StoreInv, FileRowsFree, Honoured
<1>3. CASE Environment
  BY <1>3, EnvironmentHonours
<1>4. ASSUME NEW w \in Team, program # "file",
             Scan(w) \/ Serve(w) \/ endIteration(w) \/ Failure(w)
      PROVE  Honoured(j) \/ UNCHANGED vars
  <2>1. w \in Workers
    BY LoopAssumption DEF StoreInv, TypeInv, Team
  <2>2. CASE Scan(w)
    <3>1. CASE CommitScan(w)
      BY <2>1, <3>1, CommitHonours
    <3> QED
      BY <1>1, <1>4, <2>2, <3>1 DEF Scan, Scanning, ClaimScan, QueryRequested, QueryFinalized,
         compactEvents, abortCompactScan, saveWitnessEvents, commitCompactScan, store, vars
  <2>3. CASE Serve(w)
    BY <1>1, <1>4, <2>1, <2>3, ServeHonours DEF Serve, Serving, Fulfill, sendCompactClaim, store
  <2>4. CASE endIteration(w)
    BY <1>1, <2>4 DEF endIteration, store
  <2>5. CASE Failure(w)
    BY <1>1, <1>4, <2>1, <2>5, ServeHonours DEF Failure, ScanError
  <2> QED
    BY <1>4, <2>2, <2>3, <2>4, <2>5
<1>5. CASE UNCHANGED loopVars
  BY <1>5 DEF loopVars
<1> QED
  BY <1>2, <1>3, <1>4, <1>5 DEF LoopNext

\* A live lease is given up only by its owner, by its running out, or because
\* the request is final (claimRequest, completeRequest, retryRequest, commitScan).
THEOREM StoreLeaseHonoured == LoopSpec => LeaseHonoured
<1>1. StoreInv /\ [LoopNext]_loopVars =>
        [\A j \in Jobs :
            rows[j] # None /\ rows[j].live /\ rows[j].owner \in Workers =>
                \/ rows'[j] # None /\ rows'[j].owner = rows[j].owner
                \/ worker'[rows[j].owner] # worker[rows[j].owner]
                \/ finalizedAt[j] # None]_vars
  BY LoopHonours DEF Honoured
<1> QED
  BY <1>1, StoreInvariant, PTL DEF LoopSpec, LeaseHonoured
=============================================================================
