---------------------------- MODULE ArchiverProofs ----------------------------
(***************************************************************************)
(* For any number of requests, crashes, failing sends and lost             *)
(* transactions, and for all distances that ArchiverAssumption allows:     *)
(* the archiver never spends more than its budget, and no unprotected      *)
(* request leaves the range of its scans without a record.                 *)
(*                                                                         *)
(* The second claim is about two cycles.  A request that is out of range   *)
(* of this checkpoint was in range of the last one, unless the gap is on   *)
(* record; and by then it was so old that every endpoint said its window   *)
(* had closed, so that cycle dealt with it.  The invariant says this of    *)
(* the last checkpoint and, as far as it has come, of the running cycle.   *)
(***************************************************************************)
EXTENDS Archiver, TLAPS

Sending == {"send", "broadcast", "wait"}
Busy == {"loop"} \cup Sending

TypeInv ==
    /\ blockNumber \in Nat
    /\ program \in {"service", "compact"}
    /\ block \in [Requests -> Nat \cup {None}]
    /\ done \in [Requests -> Nat \cup {None}]
    /\ file \in Files \cup {None}
    /\ pc \in {"down", "idle"} \cup Busy
    /\ todo \subseteq Requests
    /\ cost \in Nat /\ spent \in Nat

\* The file is written at the start; no fee is in hand or spent before.
FileFirst == file = None => pc = "down" /\ spent = 0 /\ cost = 0

\* Older at head h than any endpoint can take for archivable.
Old(r, h) == block[r] + BLOCKHASH_WINDOW + Skew < h + Confirmations

InRange(r, h) == h < block[r] + Lookback

\* Final, protected, or on record.
DealtWith(r) ==
    \/ done[r] # None \/ block[r] \in blockhashes
    \/ r \in file.missed \/ r \in unseen

\* The chain has passed the snapshot's height by the confirmations, and the
\* old requests in its range are still to come or were dealt with.
CycleSound ==
    pc \in Busy =>
        /\ head \in Nat /\ head + Confirmations <= blockNumber
        /\ \A r \in todo : block[r] # None
        /\ \A r \in Requests :
            block[r] # None /\ InRange(r, head) /\ Old(r, head) => r \in todo \/ DealtWith(r)
        /\ pc \in Sending => current \in todo /\ ~Old(current, head)

\* At the last checkpoint none were to come.
CheckpointSound ==
    file # None /\ file.lastHead # None =>
        /\ file.lastHead + Confirmations <= blockNumber
        /\ \A r \in Requests :
            block[r] # None /\ InRange(r, file.lastHead) /\ Old(r, file.lastHead) => DealtWith(r)

\* The inductive invariant.
ArchiverInv ==
    /\ TypeInv /\ FileFirst
    /\ SpendWithinBudget
    /\ CycleSound /\ CheckpointSound
    /\ NoSilentMiss

------------------------------------------------------------------------------
(* What a step may do to the facts on record *)

\* The chain grows, a new request is in the newest block, and what is final,
\* stored or given up stays so.
Grows ==
    /\ blockNumber' \in Nat /\ blockNumber <= blockNumber'
    /\ blockhashes \subseteq blockhashes'
    /\ \A r \in Requests : block'[r] = block[r] \/ (block[r] = None /\ block'[r] = blockNumber)
    /\ \A r \in Requests : done[r] # None => done'[r] # None
    /\ unseen \subseteq unseen'

\* The file keeps its checkpoint and loses no anomaly.
FileKept ==
    \/ file' = file
    \/ /\ file \in Files /\ file' \in Files
       /\ file'.lastHead = file.lastHead
       /\ file.missed \subseteq file'.missed
       /\ file.coverageGap => file'.coverageGap

\* The constants are naturals, with the distances that the code has.
LEMMA Distances ==
    /\ BLOCKHASH_WINDOW \in Nat /\ Confirmations \in Nat /\ Lookback \in Nat
    /\ MaxGap \in Nat /\ Skew \in Nat /\ ArchiveAfter \in Nat
    /\ MaxGap + BLOCKHASH_WINDOW + Skew + 1 <= Lookback + Confirmations
    /\ ArchiveAfter < BLOCKHASH_WINDOW /\ Confirmations <= BLOCKHASH_WINDOW
    /\ None \notin Nat /\ None \notin Files
BY ArchiverAssumption, BlockhashAssumption

LEMMA FileFields ==
    ASSUME NEW f \in Files
    PROVE  /\ f.maximum \in Nat /\ f.reserved \in Nat /\ f.lastHead \in Nat \cup {None}
           /\ f.coverageGap \in BOOLEAN /\ f.missed \in SUBSET Requests
BY DEF Files

\* What was dealt with stays dealt with.
LEMMA DealtKept ==
    ASSUME Grows, FileKept, NEW r \in Requests, block[r] # None, DealtWith(r)
    PROVE  DealtWith(r)'
BY DEF Grows, FileKept, DealtWith

\* Such a step keeps what is said of the last checkpoint.  A new request is
\* younger than any checkpoint.
LEMMA CheckpointKept ==
    ASSUME TypeInv, CheckpointSound, NoSilentMiss, Grows, FileKept, UNCHANGED late
    PROVE  CheckpointSound' /\ NoSilentMiss'
<1> USE Distances
<1>1. CASE file' = None \/ file'.lastHead = None
  BY <1>1 DEF CheckpointSound, NoSilentMiss, LeftRange
<1>2. CASE file' # None /\ file'.lastHead # None
  <2> DEFINE h == file.lastHead
  <2>1. /\ file # None /\ file'.lastHead = h /\ h # None /\ h \in Nat
        /\ h + Confirmations <= blockNumber
    <3>1. file # None /\ file'.lastHead = h /\ h # None
      BY <1>2 DEF FileKept
    <3>2. h \in Nat
      BY <3>1, FileFields DEF TypeInv
    <3> QED BY <3>1, <3>2 DEF CheckpointSound
  <2>2. h + Confirmations <= blockNumber'
    BY <2>1 DEF Grows, TypeInv
  <2>3. ASSUME NEW r \in Requests, block[r] = None, block'[r] # None
        PROVE  /\ block'[r] \in Nat /\ h < block'[r] + Lookback
               /\ ~(block'[r] + BLOCKHASH_WINDOW + Skew < h + Confirmations)
    <3>1. block'[r] = blockNumber /\ blockNumber \in Nat
      BY <2>3 DEF Grows, TypeInv
    <3>2. Lookback > 0 \/ Confirmations > 0
      OBVIOUS
    <3> QED BY <2>1, <3>1, <3>2
  <2>4. ASSUME NEW r \in Requests, block'[r] # None, InRange(r, h)', Old(r, h)'
        PROVE  DealtWith(r)'
    <3>1. block'[r] = block[r] /\ block[r] # None
      BY <2>1, <2>3, <2>4 DEF Grows, Old
    <3>2. InRange(r, h) /\ Old(r, h)
      BY <2>1, <2>4, <3>1 DEF InRange, Old
    <3>3. DealtWith(r)
      BY <2>1, <3>1, <3>2 DEF CheckpointSound
    <3> QED BY <3>1, <3>3, DealtKept
  <2>5. CheckpointSound'
    BY <2>1, <2>2, <2>4 DEF CheckpointSound, InRange, Old
  <2>6. ASSUME NEW r \in Requests, LeftRange(r)'
        PROVE  (file.coverageGap \/ r \in file.missed \/ r \in unseen)'
    <3>1. block'[r] # None /\ done'[r] = None /\ block'[r] \notin blockhashes' /\ r \notin late
          /\ block'[r] + Lookback <= h
      BY <2>1, <2>6 DEF LeftRange
    <3>2. block'[r] = block[r] /\ block[r] # None
      BY <2>1, <2>3, <3>1 DEF Grows
    <3>3. LeftRange(r)
      BY <2>1, <3>1, <3>2 DEF LeftRange, Grows
    <3>4. file.coverageGap \/ r \in file.missed \/ r \in unseen
      BY <3>3 DEF NoSilentMiss
    <3> QED BY <3>4 DEF FileKept, Grows
  <2> QED BY <2>5, <2>6 DEF NoSilentMiss
<1> QED BY <1>1, <1>2

\* Steps outside the process.
LEMMA EnvironmentStep ==
    ASSUME ArchiverInv, Grows, UNCHANGED <<program, file, pc, cycleVars, spent, history>>,
           block' \in [Requests -> Nat \cup {None}], done' \in [Requests -> Nat \cup {None}]
    PROVE  ArchiverInv'
<1> USE Distances
<1>1. TypeInv' /\ FileFirst' /\ SpendWithinBudget'
  BY DEF ArchiverInv, TypeInv, FileFirst, SpendWithinBudget, cycleVars, Grows, Files
<1>2. CheckpointSound' /\ NoSilentMiss'
  BY CheckpointKept DEF ArchiverInv, FileKept, history
<1>3. CycleSound'
  <2> SUFFICES ASSUME pc \in Busy PROVE CycleSound'
    BY DEF CycleSound
  <2>1. /\ head \in Nat /\ head + Confirmations <= blockNumber /\ blockNumber \in Nat
        /\ \A r \in todo : block[r] # None /\ r \in Requests
        /\ UNCHANGED <<head, todo, current>>
    BY DEF ArchiverInv, CycleSound, TypeInv, cycleVars
  <2>2. \A r \in todo : block'[r] = block[r]
    BY <2>1 DEF Grows
  <2>3. ASSUME NEW r \in Requests, block'[r] # None, InRange(r, head)', Old(r, head)'
        PROVE  r \in todo \/ DealtWith(r)'
    <3>1. block'[r] = block[r] /\ block[r] # None
      <4>1. block'[r] # blockNumber
        BY <2>1, <2>3 DEF Old
      <4> QED BY <2>3, <4>1 DEF Grows
    <3>2. r \in todo \/ DealtWith(r)
      BY <2>1, <2>3, <3>1 DEF ArchiverInv, CycleSound, InRange, Old
    <3> QED BY <3>1, <3>2, DealtKept DEF FileKept
  <2>4. pc \in Sending => current \in todo /\ ~Old(current, head)'
    BY <2>1, <2>2 DEF ArchiverInv, CycleSound, Old
  <2>5. head + Confirmations <= blockNumber'
    BY <2>1 DEF Grows
  <2> QED BY <2>1, <2>2, <2>3, <2>4, <2>5 DEF CycleSound, InRange, Old
<1> QED BY <1>1, <1>2, <1>3 DEF ArchiverInv

\* A step inside a cycle that stays in it.
LEMMA CycleStep ==
    ASSUME ArchiverInv, pc \in Busy, pc' \in Busy,
           UNCHANGED <<chainVars, requestVars, program, head, late>>,
           FileKept, SpendWithinBudget', unseen \subseteq unseen',
           cost' \in Nat, spent' \in Nat, todo' \subseteq todo,
           \A r \in todo \ todo' : Old(r, head) => DealtWith(r)',
           pc' \in Sending => current' \in todo' /\ ~Old(current', head)
    PROVE  ArchiverInv'
<1> USE Distances
<1>1. Grows
  BY DEF Grows, chainVars, requestVars, ArchiverInv, TypeInv
<1>2. file \in Files /\ file' \in Files /\ file # None /\ file' # None
  BY DEF ArchiverInv, TypeInv, FileFirst, FileKept, Busy, Sending
<1>3. TypeInv' /\ FileFirst'
  BY <1>2 DEF ArchiverInv, TypeInv, FileFirst, chainVars, requestVars, Files, Busy, Sending
<1>4. CheckpointSound' /\ NoSilentMiss'
  BY <1>1, CheckpointKept DEF ArchiverInv
<1>5. CycleSound'
  <2>1. /\ head' = head /\ head \in Nat /\ head + Confirmations <= blockNumber
        /\ blockNumber' = blockNumber /\ block' = block
        /\ \A r \in todo : block[r] # None
        /\ \A r \in Requests :
            block[r] # None /\ InRange(r, head) /\ Old(r, head) => r \in todo \/ DealtWith(r)
    BY DEF ArchiverInv, CycleSound, chainVars, requestVars
  <2>2. ASSUME NEW r \in Requests, block[r] # None, InRange(r, head), Old(r, head)
        PROVE  r \in todo' \/ DealtWith(r)'
    <3>1. CASE DealtWith(r)
      BY <1>1, <2>2, <3>1, DealtKept
    <3>2. CASE r \in todo
      BY <2>2, <3>2
    <3> QED BY <2>1, <2>2, <3>1, <3>2
  <2> QED BY <2>1, <2>2 DEF CycleSound, InRange, Old
<1> QED BY <1>3, <1>4, <1>5 DEF ArchiverInv

\* A step that leaves a cycle without a checkpoint.
LEMMA LeaveStep ==
    ASSUME ArchiverInv, file # None, pc' \in {"idle", "down"},
           UNCHANGED <<chainVars, requestVars, program, history, spent>>,
           todo' = {}, cost' = 0,
           file' = file \/ file' = [file EXCEPT !.budgetBlocked = TRUE]
    PROVE  ArchiverInv'
<1> USE Distances
<1>1. /\ file \in Files /\ file' \in Files /\ file'.lastHead = file.lastHead
      /\ file'.missed = file.missed /\ file'.coverageGap = file.coverageGap
      /\ file'.reserved = file.reserved /\ file'.maximum = file.maximum
  BY DEF ArchiverInv, TypeInv, Files
<1>2. Grows /\ FileKept
  BY <1>1 DEF Grows, FileKept, chainVars, requestVars, history, ArchiverInv, TypeInv
<1>3. TypeInv' /\ FileFirst'
  BY <1>1 DEF ArchiverInv, TypeInv, FileFirst, chainVars, requestVars, Files, Busy, Sending
<1>4. SpendWithinBudget'
  <2>1. spent + cost <= file.reserved /\ file.reserved <= file.maximum
    BY DEF ArchiverInv, SpendWithinBudget
  <2>2. spent \in Nat /\ cost \in Nat /\ file.reserved \in Nat
    BY <1>1, FileFields DEF ArchiverInv, TypeInv
  <2> QED BY <1>1, <2>1, <2>2 DEF SpendWithinBudget
<1>5. CheckpointSound' /\ NoSilentMiss'
  BY <1>2, CheckpointKept DEF ArchiverInv, history
<1>6. CycleSound'
  BY DEF CycleSound, Busy, Sending
<1> QED BY <1>3, <1>4, <1>5, <1>6 DEF ArchiverInv

\* An error.  A service cycle goes on without the request, and if the request
\* was old its window had closed by then; a compact cycle is given up.
LEMMA ThrowStep ==
    ASSUME ArchiverInv, pc \in Busy, NEW r \in todo, Throw(r),
           UNCHANGED <<chainVars, requestVars, program, late, spent>>,
           file' = file \/ file' = [file EXCEPT !.budgetBlocked = TRUE]
    PROVE  ArchiverInv'
<1> USE Distances
<1>1. file # None /\ file \in Files
  BY DEF ArchiverInv, TypeInv, FileFirst, Busy, Sending
<1>2. CASE program = "service"
  <2>1. /\ pc' = "loop" /\ todo' = todo \ {r} /\ UNCHANGED head /\ cost' = 0
        /\ unseen' = IF blockNumber > block[r] + BLOCKHASH_WINDOW THEN unseen \cup {r} ELSE unseen
    BY <1>2 DEF Throw
  <2>2. /\ file' \in Files /\ file'.lastHead = file.lastHead /\ file'.missed = file.missed
        /\ file'.coverageGap = file.coverageGap
        /\ file'.reserved = file.reserved /\ file'.maximum = file.maximum
    BY <1>1 DEF Files
  <2>3. SpendWithinBudget'
    <3>1. spent + cost <= file.reserved /\ file.reserved <= file.maximum
      BY <1>1 DEF ArchiverInv, SpendWithinBudget
    <3>2. spent \in Nat /\ cost \in Nat /\ file.reserved \in Nat
      BY <1>1, FileFields DEF ArchiverInv, TypeInv
    <3> QED BY <2>1, <2>2, <3>1, <3>2 DEF SpendWithinBudget
  <2>4. Old(r, head) => r \in unseen'
    <3>1. /\ head \in Nat /\ head + Confirmations <= blockNumber /\ blockNumber \in Nat
          /\ block[r] \in Nat
      BY DEF ArchiverInv, CycleSound, TypeInv
    <3> QED BY <2>1, <3>1 DEF Old
  <2>5. /\ FileKept /\ unseen \subseteq unseen' /\ cost' \in Nat /\ spent' \in Nat
        /\ todo' \subseteq todo /\ pc' \in Busy /\ pc' \notin Sending
        /\ \A q \in todo \ todo' : Old(q, head) => DealtWith(q)'
    BY <1>1, <2>1, <2>2, <2>4 DEF FileKept, Busy, Sending, DealtWith, ArchiverInv, TypeInv
  <2> QED BY <2>1, <2>3, <2>5, CycleStep
<1>3. CASE program # "service"
  BY <1>1, <1>3, LeaveStep DEF Throw, history
<1> QED BY <1>2, <1>3

\* The request's turn ends without an error.
LEMMA NextRequestStep ==
    ASSUME ArchiverInv, pc \in Busy, NEW r \in todo, NextRequest(r),
           UNCHANGED <<chainVars, requestVars, program, late, spent>>,
           file' = file \/ file' = recordMissed(r),
           Old(r, head) => DealtWith(r)'
    PROVE  ArchiverInv'
<1> USE Distances
<1>1. file # None /\ file \in Files /\ r \in Requests
  BY DEF ArchiverInv, TypeInv, FileFirst, Busy, Sending
<1>2. /\ pc' = "loop" /\ todo' = todo \ {r} /\ UNCHANGED <<head, cost, unseen>>
  BY DEF NextRequest
<1>3. /\ file' \in Files /\ file'.lastHead = file.lastHead /\ file.missed \subseteq file'.missed
      /\ file'.coverageGap = file.coverageGap
      /\ file'.reserved = file.reserved /\ file'.maximum = file.maximum
  BY <1>1 DEF Files, recordMissed
<1>4. SpendWithinBudget' /\ FileKept
  BY <1>1, <1>2, <1>3 DEF SpendWithinBudget, ArchiverInv, FileKept
<1> QED BY <1>2, <1>4, CycleStep DEF Busy, Sending, ArchiverInv, TypeInv

------------------------------------------------------------------------------
(* One lemma per action *)

\* The constructor of ArchiveBudget: a fresh file, or the old one as it is.
LEMMA StartStep ==
    ASSUME ArchiverInv, NEW m \in Maxima, Start(m)
    PROVE  ArchiverInv'
<1> USE Distances
<1>1. /\ pc = "down" /\ pc' = "idle"
      /\ UNCHANGED <<chainVars, requestVars, program, cycleVars, spent, history>>
  BY DEF Start
<1>2. m \in Nat
  BY ArchiverAssumption
<1>3. CycleSound'
  BY <1>1 DEF CycleSound, Busy, Sending
<1>4. CASE file = None
  <2>1. file' = [maximum |-> m, reserved |-> 0, lastHead |-> None,
                 coverageGap |-> FALSE, budgetBlocked |-> FALSE, missed |-> {}]
    BY <1>4 DEF Start
  <2>2. file' \in Files /\ file'.lastHead = None /\ file'.reserved = 0 /\ file'.maximum = m
    BY <1>2, <2>1 DEF Files
  <2>3. spent = 0 /\ cost = 0
    BY <1>1, <1>4 DEF ArchiverInv, FileFirst
  <2>4. SpendWithinBudget'
    BY <1>1, <1>2, <2>2, <2>3 DEF SpendWithinBudget, cycleVars
  <2>5. TypeInv' /\ FileFirst'
    BY <1>1, <2>2 DEF ArchiverInv, TypeInv, FileFirst, chainVars, requestVars, cycleVars, Files, Busy, Sending
  <2>6. CheckpointSound' /\ NoSilentMiss'
    BY <2>2 DEF CheckpointSound, NoSilentMiss, LeftRange
  <2> QED BY <1>3, <2>4, <2>5, <2>6 DEF ArchiverInv
<1>5. CASE file # None
  <2>1. file' = file
    BY <1>5 DEF Start
  <2>2. TypeInv' /\ FileFirst' /\ SpendWithinBudget'
    BY <1>1, <1>5, <2>1 DEF ArchiverInv, TypeInv, FileFirst, SpendWithinBudget, chainVars,
       requestVars, cycleVars, Files, Busy, Sending
  <2>3. Grows /\ FileKept
    BY <1>1, <2>1 DEF Grows, FileKept, chainVars, requestVars, history, ArchiverInv, TypeInv
  <2>4. CheckpointSound' /\ NoSilentMiss'
    BY <1>1, <2>3, CheckpointKept DEF ArchiverInv, history
  <2> QED BY <1>3, <2>2, <2>4 DEF ArchiverInv
<1> QED BY <1>4, <1>5

\* A cycle begins with every request of its range to look at.
LEMMA SnapshotStep ==
    ASSUME ArchiverInv, NEW lowest \in Heads, Snapshot(lowest)
    PROVE  ArchiverInv'
<1> USE Distances
<1>1. /\ pc = "idle" /\ pc' = "loop" /\ head' = lowest - Confirmations
      /\ lowest - Confirmations >= 0 /\ todo' = EventsUpTo(head')
      /\ UNCHANGED <<chainVars, requestVars, program, file, current, cost, spent, history>>
  BY DEF Snapshot
<1>2. /\ blockNumber \in Nat /\ lowest \in Int /\ lowest <= blockNumber
      /\ block \in [Requests -> Nat \cup {None}]
  BY DEF Heads, ArchiverInv, TypeInv
<1>3. head' \in Nat /\ head' + Confirmations <= blockNumber
  BY <1>1, <1>2
<1>4. /\ \A r \in todo' : r \in Requests /\ block[r] # None
      /\ \A r \in Requests :
            block[r] # None /\ block[r] \in (head' - (Lookback - 1))..head' => r \in todo'
  BY <1>1 DEF EventsUpTo
<1>5. ASSUME NEW r \in Requests, block[r] # None,
             head' < block[r] + Lookback,
             block[r] + BLOCKHASH_WINDOW + Skew < head' + Confirmations
      PROVE  r \in todo'
  <2>1. block[r] \in Nat
    BY <1>2, <1>5
  <2>2. block[r] <= head' /\ head' - (Lookback - 1) <= block[r]
    BY <1>3, <1>5, <2>1
  <2> QED BY <1>3, <1>4, <1>5, <2>1, <2>2
<1>6. CycleSound'
  BY <1>1, <1>3, <1>4, <1>5 DEF CycleSound, InRange, Old, Sending, chainVars, requestVars
<1>7. TypeInv' /\ FileFirst' /\ SpendWithinBudget'
  BY <1>1, <1>4 DEF ArchiverInv, TypeInv, FileFirst, SpendWithinBudget, chainVars,
     requestVars, Files, Busy, Sending
<1>8. Grows /\ FileKept
  BY <1>1 DEF Grows, FileKept, chainVars, requestVars, history, ArchiverInv, TypeInv
<1>9. CheckpointSound' /\ NoSilentMiss'
  BY <1>1, <1>8, CheckpointKept DEF ArchiverInv, history
<1> QED BY <1>6, <1>7, <1>9 DEF ArchiverInv

\* No endpoint reports a head at which an old request's window is open: it is
\* found final, found stored, or recorded as missed.
LEMMA InspectStep ==
    ASSUME ArchiverInv, NEW r \in Requests, NEW fresh \in Heads, Inspect(r, fresh)
    PROVE  ArchiverInv'
<1> USE Distances
<1> DEFINE action == archiveDecision(StatusRead(r), block[r] \in blockhashes, fresh, block[r])
<1>1. /\ pc = "loop" /\ r \in todo
      /\ file' = IF action = "missed-window" THEN recordMissed(r) ELSE file
      /\ IF action = "archive"
         THEN pc' = "send" /\ current' = r /\ UNCHANGED <<head, todo, cost, unseen>>
         ELSE NextRequest(r)
      /\ UNCHANGED <<chainVars, requestVars, program, spent, late>>
  BY DEF Inspect, Oldest
<1>2. /\ head \in Nat /\ head + Confirmations <= blockNumber /\ blockNumber \in Nat
      /\ block[r] \in Nat /\ fresh \in Int /\ blockNumber - Skew <= fresh
      /\ file \in Files /\ file # None
  BY <1>1 DEF ArchiverInv, CycleSound, TypeInv, FileFirst, Heads, Busy, Sending
<1>3. Old(r, head) => fresh - block[r] > BLOCKHASH_WINDOW
  BY <1>2 DEF Old
<1>4. Old(r, head) => action # "archive" /\ action # "young"
  BY <1>2, <1>3 DEF archiveDecision
<1>5. /\ action \in {"finalized", "protected", "missed-window", "archive", "young"}
      /\ action = "finalized" => StatusRead(r) # "pending"
      /\ action = "protected" => block[r] \in blockhashes
  BY DEF archiveDecision
<1>6. action = "finalized" => done[r] # None
  BY <1>5 DEF StatusRead
<1> HIDE DEF action
<1>7. CASE action = "archive"
  <2>1. /\ file' = file /\ pc' = "send" /\ current' = r /\ UNCHANGED <<head, todo, cost, unseen, spent>>
    BY <1>1, <1>7
  <2>2. SpendWithinBudget' /\ FileKept
    BY <2>1 DEF ArchiverInv, SpendWithinBudget, FileKept
  <2>3. ~Old(r, head)
    BY <1>4, <1>7
  <2> QED BY <1>1, <2>1, <2>2, <2>3, CycleStep DEF Busy, Sending, ArchiverInv, TypeInv
<1>8. CASE action # "archive"
  <2>1. NextRequest(r)
    BY <1>1, <1>8
  <2>2. Old(r, head) => DealtWith(r)'
    <3>1. CASE action = "missed-window"
      BY <1>1, <1>2, <3>1 DEF DealtWith, recordMissed, Files
    <3>2. CASE action = "finalized" \/ action = "protected"
      BY <1>1, <1>5, <1>6, <3>2 DEF DealtWith, chainVars, requestVars
    <3> QED BY <1>4, <1>5, <1>8, <3>1, <3>2
  <2> QED BY <1>1, <2>1, <2>2, NextRequestStep DEF Busy
<1> QED BY <1>7, <1>8

\* sendArchive up to the reservation, which never exceeds what remains.
LEMMA SendStep ==
    ASSUME ArchiverInv, NEW c \in Costs, Send(c)
    PROVE  ArchiverInv'
<1> USE Distances
<1>1. pc = "send" /\ UNCHANGED <<chainVars, requestVars, program, spent, late>>
  BY DEF Send
<1>2. current \in todo /\ ~Old(current, head) /\ file # None /\ file \in Files
  BY <1>1 DEF ArchiverInv, CycleSound, TypeInv, FileFirst, Busy, Sending
<1>3. CASE NextRequest(current) /\ UNCHANGED file
  BY <1>1, <1>2, <1>3, NextRequestStep DEF Busy, Sending
<1>4. CASE Throw(current) /\ (UNCHANGED file \/ file' = [file EXCEPT !.budgetBlocked = TRUE])
  BY <1>1, <1>2, <1>4, ThrowStep DEF Busy, Sending
<1>5. CASE /\ c <= remaining /\ file' = reserve(c) /\ cost' = c /\ pc' = "broadcast"
           /\ UNCHANGED <<head, todo, current, unseen>>
  <2>1. c \in Nat
    BY ArchiverAssumption
  <2>2. /\ file.reserved \in Nat /\ file.maximum \in Nat /\ spent \in Nat /\ cost \in Nat
        /\ spent + cost <= file.reserved
    BY <1>2, FileFields DEF ArchiverInv, TypeInv, SpendWithinBudget
  <2>3. /\ file' \in Files /\ file'.reserved = file.reserved + c /\ file'.maximum = file.maximum
        /\ file'.lastHead = file.lastHead /\ file'.missed = file.missed
        /\ file'.coverageGap = file.coverageGap
    BY <1>2, <1>5, <2>1, <2>2 DEF reserve, Files
  <2>4. SpendWithinBudget' /\ FileKept
    BY <1>1, <1>2, <1>5, <2>1, <2>2, <2>3 DEF SpendWithinBudget, FileKept, remaining
  <2> QED BY <1>1, <1>2, <1>5, <2>1, <2>2, <2>4, CycleStep DEF Busy, Sending
<1> QED BY <1>3, <1>4, <1>5 DEF Send

\* The fee in hand becomes a fee spent.
LEMMA BroadcastStep ==
    ASSUME ArchiverInv, Broadcast
    PROVE  ArchiverInv'
<1>1. /\ pc = "broadcast" /\ pc' = "wait" /\ cost' = 0 /\ spent' = spent + cost
      /\ UNCHANGED <<chainVars, requestVars, program, file, head, todo, current, history>>
  BY DEF Broadcast
<1>2. current \in todo /\ ~Old(current, head) /\ spent \in Nat /\ cost \in Nat /\ file # None
  BY <1>1 DEF ArchiverInv, CycleSound, TypeInv, FileFirst, Busy, Sending
<1>3. SpendWithinBudget' /\ FileKept
  BY <1>1, <1>2 DEF ArchiverInv, SpendWithinBudget, FileKept
<1> QED BY <1>1, <1>2, <1>3, CycleStep DEF Busy, Sending, history

\* The other ends of a sending.
LEMMA SendingEnds ==
    ASSUME ArchiverInv, BroadcastFails \/ Receipt \/ Timeout
    PROVE  ArchiverInv'
<1>1. /\ pc \in Sending /\ (Throw(current) \/ NextRequest(current))
      /\ UNCHANGED <<chainVars, requestVars, program, file, spent, late>>
  BY DEF BroadcastFails, Receipt, Timeout, Sending
<1>2. current \in todo /\ ~Old(current, head)
  BY <1>1 DEF ArchiverInv, CycleSound, Busy
<1> QED BY <1>1, <1>2, ThrowStep, NextRequestStep DEF Busy

\* The checkpoint.  What is out of its range was out of range of the last one,
\* or old in it, or the gap goes on record.
LEMMA EndCycleStep ==
    ASSUME ArchiverInv, EndCycle
    PROVE  ArchiverInv'
<1> USE Distances
<1>1. /\ pc = "loop" /\ todo = {} /\ pc' = "idle" /\ file' = checkpoint(head)
      /\ late' = IF file.lastHead = None THEN Older(head) ELSE late
      /\ UNCHANGED <<chainVars, requestVars, program, todo, cost, spent, unseen>>
  BY DEF EndCycle
<1>2. /\ file \in Files /\ file # None /\ head \in Nat /\ head + Confirmations <= blockNumber
      /\ blockNumber \in Nat /\ block \in [Requests -> Nat \cup {None}]
      /\ spent \in Nat /\ cost \in Nat
  BY <1>1 DEF ArchiverInv, CycleSound, TypeInv, FileFirst, Busy, Sending
<1> DEFINE L == file.lastHead
<1>3. /\ file' \in Files /\ file'.lastHead = head /\ file'.missed = file.missed
      /\ file'.reserved = file.reserved /\ file'.maximum = file.maximum
      /\ file'.coverageGap = (file.coverageGap \/ (L # None /\ head - L > MaxGap))
      /\ L \in Nat \cup {None}
  <2>1. L \in Nat \cup {None} /\ file.coverageGap \in BOOLEAN
    BY <1>2, FileFields
  <2>2. (file.coverageGap \/ (L # None /\ head - L > MaxGap)) \in BOOLEAN
    BY <2>1
  <2> QED BY <1>1, <1>2, <2>1, <2>2 DEF checkpoint, Files
<1>4. TypeInv' /\ FileFirst' /\ SpendWithinBudget'
  BY <1>1, <1>2, <1>3 DEF ArchiverInv, TypeInv, FileFirst, SpendWithinBudget, chainVars,
     requestVars, Files, Busy, Sending
<1>5. CycleSound'
  BY <1>1 DEF CycleSound, Busy, Sending
<1>6. \A r \in Requests : block[r] # None /\ InRange(r, head) /\ Old(r, head) => DealtWith(r)
  BY <1>1 DEF ArchiverInv, CycleSound, Busy
<1>7. \A r \in Requests : DealtWith(r) => DealtWith(r)'
  BY <1>1, <1>3 DEF DealtWith, chainVars, requestVars
<1>8. CheckpointSound'
  BY <1>1, <1>2, <1>3, <1>6, <1>7 DEF CheckpointSound, InRange, Old, chainVars, requestVars
<1>9. ASSUME NEW r \in Requests, LeftRange(r)'
      PROVE  (file.coverageGap \/ r \in file.missed \/ r \in unseen)'
  <2>1. /\ block[r] \in Nat /\ done[r] = None /\ block[r] \notin blockhashes
        /\ block[r] + Lookback <= head /\ r \notin late'
    BY <1>1, <1>2, <1>3, <1>9 DEF LeftRange, chainVars, requestVars
  <2>2. CASE L = None
    <3>1. r \in Older(head)
      BY <1>2, <2>1 DEF Older
    <3> QED BY <1>1, <2>1, <2>2, <3>1
  <2>3. CASE L # None /\ head - L > MaxGap
    BY <1>3, <2>3
  <2>4. CASE L # None /\ ~(head - L > MaxGap)
    <3>1. L \in Nat /\ block[r] # None
      BY <1>3, <2>1, <2>4
    <3>2. CASE block[r] + Lookback <= L
      <4>1. LeftRange(r)
        BY <1>1, <1>2, <2>1, <2>4, <3>1, <3>2 DEF LeftRange
      <4>2. file.coverageGap \/ r \in file.missed \/ r \in unseen
        BY <4>1 DEF ArchiverInv, NoSilentMiss
      <4> QED BY <1>1, <1>3, <4>2
    <3>3. CASE ~(block[r] + Lookback <= L)
      <4>1. InRange(r, L) /\ Old(r, L)
        BY <1>2, <2>1, <2>4, <3>1, <3>3 DEF InRange, Old
      <4>2. DealtWith(r)
        BY <1>2, <2>4, <3>1, <4>1 DEF ArchiverInv, CheckpointSound
      <4> QED BY <1>1, <1>3, <2>1, <4>2 DEF DealtWith
    <3> QED BY <3>2, <3>3
  <2> QED BY <2>2, <2>3, <2>4
<1> QED BY <1>4, <1>5, <1>8, <1>9 DEF ArchiverInv, NoSilentMiss

\* The chain's own steps.
LEMMA ChainStep ==
    ASSUME ArchiverInv, Environment
    PROVE  ArchiverInv'
<1> USE Distances
<1>1. /\ blockNumber \in Nat /\ block \in [Requests -> Nat \cup {None}]
      /\ done \in [Requests -> Nat \cup {None}]
  BY DEF ArchiverInv, TypeInv
<1>2. CASE NewBlock
  BY <1>1, <1>2, EnvironmentStep DEF NewBlock, Mine, Grows, requestVars, history
<1>3. CASE Include \/ Drop
  BY <1>1, <1>3, EnvironmentStep DEF Include, Drop, Store, Grows, requestVars, chainVars, history
<1>4. ASSUME NEW r \in Requests, requestRandomWords(r)
      PROVE  ArchiverInv'
  BY <1>1, <1>4, EnvironmentStep DEF requestRandomWords, Grows, chainVars, history
<1>5. ASSUME NEW r \in Requests, Finalize(r)
      PROVE  ArchiverInv'
  BY <1>1, <1>5, EnvironmentStep DEF Finalize, Grows, chainVars, history
<1> QED BY <1>2, <1>3, <1>4, <1>5 DEF Environment

------------------------------------------------------------------------------
(* The theorems *)

LEMMA ArchiverInit == Init => ArchiverInv
BY Distances DEF Init, ChainInit, ArchiverInv, TypeInv, FileFirst, SpendWithinBudget,
   CycleSound, CheckpointSound, NoSilentMiss, LeftRange, Busy, Sending

LEMMA ArchiverNext == ArchiverInv /\ [Next]_vars => ArchiverInv'
<1> SUFFICES ASSUME ArchiverInv, [Next]_vars PROVE ArchiverInv'
  OBVIOUS
<1>1. CASE UNCHANGED vars
  BY <1>1, EnvironmentStep DEF vars, Grows, chainVars, requestVars, history, ArchiverInv, TypeInv
<1>2. CASE Process
  BY <1>2, StartStep, SnapshotStep, InspectStep, SendStep, BroadcastStep, SendingEnds,
     EndCycleStep DEF Process
<1>3. CASE Environment
  BY <1>3, ChainStep
<1>4. ASSUME NEW r \in Requests, InspectFails(r)
      PROVE  ArchiverInv'
  BY <1>4, ThrowStep DEF InspectFails, Oldest, Busy
<1>5. CASE BroadcastFails
  BY <1>5, SendingEnds
<1>6. CASE Crash
  <2>1. file # None
    BY <1>6 DEF Crash, ArchiverInv, FileFirst
  <2> QED BY <1>6, <2>1, LeaveStep DEF Crash
<1> QED BY <1>1, <1>2, <1>3, <1>4, <1>5, <1>6 DEF Next

\* Every reachable state satisfies the inductive invariant.
THEOREM ArchiverInvariant == Spec => []ArchiverInv
BY ArchiverInit, ArchiverNext, PTL DEF Spec

\* The fees of all transactions the archiver ever broadcast stay within the
\* maximum of its state file, whatever crashes and failures come between a
\* reservation and its transaction.
THEOREM ArchiverBudget == Spec => []SpendWithinBudget
<1>1. ArchiverInv => SpendWithinBudget
  BY DEF ArchiverInv
<1> QED BY <1>1, ArchiverInvariant, PTL

\* For every choice of window, scan range, gap, skew and confirmations that
\* ArchiverAssumption allows, no unprotected pending request leaves the range
\* of the scans without a record.
THEOREM ArchiverNoSilentMiss == Spec => []NoSilentMiss
<1>1. ArchiverInv => NoSilentMiss
  BY DEF ArchiverInv
<1> QED BY <1>1, ArchiverInvariant, PTL
===============================================================================
