--------------------------- MODULE TimelockProofs ---------------------------
(***************************************************************************)
(* The timelock's discipline for every set of calls, delay, window and     *)
(* depth of re-entrance.                                                   *)
(*                                                                         *)
(* A failing call puts back the state its frame saved, so an invariant of  *)
(* the current state is not inductive by itself: the invariant proved is   *)
(* that the current state and the state saved in every frame are coherent. *)
(***************************************************************************)
EXTENDS VRFAdminTimelock, SequenceTheorems, TLAPS

Histories == [Ids -> Seq(1..MaxTime)]

\* What is true of one operation and of the times its call took effect.
CoherentOp(op, r) ==
    /\ op.executeAfter = op.scheduledAt + Delay
    /\ op.executed <=> r # <<>>
    /\ op.cancelled => r = <<>>
    /\ Len(r) <= 1
    /\ r # <<>> => op.executeAfter <= r[1] /\ r[1] <= op.executeAfter + Window

\* What is true of the contract's storage at any moment of a transaction.
Coherent(o, r) ==
    /\ o \in Seq(Operation) /\ Len(o) <= MaxOps /\ r \in Histories
    /\ \A i \in Ids : i \in DOMAIN o => CoherentOp(o[i], r[i])
    /\ \A i \in Ids : i \notin DOMAIN o => r[i] = <<>>

\* The inductive invariant.
CoherentFrames ==
    /\ Coherent(ops, runs)
    /\ now \in 1..MaxTime /\ balance \in Nat /\ deployed \subseteq Targets
    /\ stack \in Seq([id : Ids, ops : Seq(Operation), balance : Nat, runs : Histories])
    /\ \A k \in 1..Len(stack) : Coherent(stack[k].ops, stack[k].runs)

\* Appending an operation that has not run keeps the storage coherent.
LEMMA ScheduleCoherent ==
    ASSUME NEW c \in Calls, Coherent(ops, runs), now \in 1..MaxTime, Schedule(c)
    PROVE  Coherent(ops', runs')
<1> DEFINE new == [call |-> c, scheduledAt |-> now, executeAfter |-> now + Delay,
                   executed |-> FALSE, cancelled |-> FALSE]
<1>1. new \in Operation
  BY TimelockAssumption DEF Operation
<1>2. ops \in Seq(Operation) /\ runs \in Histories
  BY DEF Coherent
<1>3. ops' = Append(ops, new) /\ runs' = runs /\ Len(ops) < MaxOps
  BY DEF Schedule
<1> HIDE DEF new
<1>4. /\ ops' \in Seq(Operation) /\ Len(ops') = Len(ops) + 1
      /\ \A i \in 1..Len(ops) : ops'[i] = ops[i]
      /\ ops'[Len(ops) + 1] = new
  BY <1>1, <1>2, <1>3
<1>7. Len(ops') <= MaxOps
  BY <1>2, <1>3, <1>4, TimelockAssumption
<1>5. ASSUME NEW i \in Ids, i \in DOMAIN ops' PROVE CoherentOp(ops'[i], runs'[i])
  <2>1. CASE i \in DOMAIN ops
    BY <2>1, <1>2, <1>3, <1>4 DEF Coherent
  <2>2. CASE i \notin DOMAIN ops
    <3>1. i = Len(ops) + 1 /\ runs'[i] = <<>>
      BY <2>2, <1>2, <1>3, <1>4, <1>5 DEF Coherent
    <3>2. Len(<<>>) = 0
      OBVIOUS
    <3> QED BY <3>1, <3>2, <1>4 DEF CoherentOp, new
  <2> QED BY <2>1, <2>2
<1>6. ASSUME NEW i \in Ids, i \notin DOMAIN ops' PROVE runs'[i] = <<>>
  BY <1>2, <1>3, <1>4, <1>6 DEF Coherent
<1> QED BY <1>2, <1>3, <1>4, <1>5, <1>6, <1>7 DEF Coherent

\* Only an operation that has not run can be cancelled.
LEMMA CancelCoherent ==
    ASSUME NEW i \in Ids, Coherent(ops, runs), Cancel(i)
    PROVE  Coherent(ops', runs')
<1>1. ops \in Seq(Operation) /\ runs \in Histories /\ i \in DOMAIN ops
  BY DEF Coherent, Cancel, Open
<1>2. ops' = [ops EXCEPT ![i] = [ops[i] EXCEPT !.cancelled = TRUE]] /\ runs' = runs
  BY DEF Cancel
<1>3. ops[i] \in Operation /\ ~ops[i].executed
  BY <1>1 DEF Cancel, Open
<1> DEFINE op == [ops[i] EXCEPT !.cancelled = TRUE]
<1>4. op \in Operation /\ op.executed = ops[i].executed /\ op.scheduledAt = ops[i].scheduledAt
      /\ op.executeAfter = ops[i].executeAfter
  BY <1>3 DEF Operation
<1>5. CoherentOp(op, runs[i])
  BY <1>1, <1>3, <1>4 DEF Coherent, CoherentOp
<1> HIDE DEF op
<1>6. ops' = [ops EXCEPT ![i] = op]
  BY <1>2 DEF op
<1>7. ops' \in Seq(Operation) /\ DOMAIN ops' = DOMAIN ops /\ Len(ops') = Len(ops)
      /\ \A k \in DOMAIN ops : ops'[k] = IF k = i THEN op ELSE ops[k]
  BY <1>1, <1>4, <1>6
<1> QED BY <1>1, <1>2, <1>5, <1>7 DEF Coherent

\* An operation that starts is open and inside its window, so it has not run.
LEMMA ExecuteCoherent ==
    ASSUME NEW i \in Ids, Coherent(ops, runs), now \in 1..MaxTime, Execute(i)
    PROVE  Coherent(ops', runs')
<1>1. ops \in Seq(Operation) /\ runs \in Histories /\ i \in DOMAIN ops
  BY DEF Coherent, Execute, Ready, Open
<1>2. /\ ops' = [ops EXCEPT ![i] = [ops[i] EXCEPT !.executed = TRUE]]
      /\ runs' = [runs EXCEPT ![i] = Append(@, now)]
  BY DEF Execute, MarkExecuted
<1>3. ops[i] \in Operation /\ ~ops[i].executed /\ ~ops[i].cancelled
      /\ ops[i].executeAfter <= now /\ now <= ops[i].executeAfter + Window
  BY <1>1 DEF Execute, Ready, Open
<1> DEFINE op == [ops[i] EXCEPT !.executed = TRUE]
<1>4. op \in Operation /\ op.executed = TRUE /\ op.cancelled = ops[i].cancelled
      /\ op.scheduledAt = ops[i].scheduledAt /\ op.executeAfter = ops[i].executeAfter
  BY <1>3 DEF Operation
<1>5. runs[i] = <<>> /\ op.executeAfter = op.scheduledAt + Delay
  BY <1>1, <1>3, <1>4 DEF Coherent, CoherentOp
<1>6. Append(runs[i], now) = <<now>> /\ <<now>> \in Seq(1..MaxTime) /\ Len(<<now>>) = 1
      /\ <<now>>[1] = now /\ <<now>> # <<>>
  BY <1>5
<1>7. CoherentOp(op, <<now>>)
  BY <1>3, <1>4, <1>5, <1>6 DEF CoherentOp
<1> HIDE DEF op
<1>8. ops' = [ops EXCEPT ![i] = op] /\ runs' = [runs EXCEPT ![i] = <<now>>]
  BY <1>2, <1>6 DEF op
<1>9. /\ ops' \in Seq(Operation) /\ DOMAIN ops' = DOMAIN ops /\ Len(ops') = Len(ops)
      /\ \A k \in DOMAIN ops : ops'[k] = IF k = i THEN op ELSE ops[k]
  BY <1>1, <1>4, <1>8
<1>10. /\ runs' \in Histories
       /\ \A k \in Ids : runs'[k] = IF k = i THEN <<now>> ELSE runs[k]
  BY <1>1, <1>6, <1>8 DEF Histories
<1> QED BY <1>1, <1>7, <1>9, <1>10 DEF Coherent

\* The three facts of the induction: a frame saves a coherent state when it
\* is pushed, and that is the state its failure puts back.
LEMMA TimelockStep == CoherentFrames /\ [Next]_vars => CoherentFrames'
<1> SUFFICES ASSUME CoherentFrames, [Next]_vars PROVE CoherentFrames'
  OBVIOUS
<1> DEFINE Frame == [id : Ids, ops : Seq(Operation), balance : Nat, runs : Histories]
<1>0. /\ Coherent(ops, runs) /\ now \in 1..MaxTime /\ stack \in Seq(Frame)
      /\ balance \in Nat /\ deployed \subseteq Targets
      /\ \A k \in 1..Len(stack) : Coherent(stack[k].ops, stack[k].runs)
  BY DEF CoherentFrames
<1>1. ASSUME NEW c \in Calls, Schedule(c) PROVE CoherentFrames'
  <2>1. UNCHANGED <<balance, deployed, now, stack>>
    BY <1>1 DEF Schedule
  <2> QED BY <1>0, <1>1, <2>1, ScheduleCoherent DEF CoherentFrames
<1>2. ASSUME NEW i \in Ids, Cancel(i) PROVE CoherentFrames'
  <2>1. UNCHANGED <<balance, deployed, now, stack>>
    BY <1>2 DEF Cancel
  <2> QED BY <1>0, <1>2, <2>1, CancelCoherent DEF CoherentFrames
<1>3. ASSUME NEW i \in Ids, Execute(i) PROVE CoherentFrames'
  <2> DEFINE frame == [id |-> i, ops |-> ops, balance |-> balance, runs |-> runs]
  <2>1. UNCHANGED <<deployed, now>> /\ stack' = Append(stack, frame)
    BY <1>3 DEF Execute
  <2>2. frame \in Frame
    BY <1>0 DEF Coherent
  <2>3. Coherent(frame.ops, frame.runs)
    BY <1>0
  <2>4. balance' \in Nat
    <3>1. ops \in Seq(Operation) /\ i \in DOMAIN ops
      BY <1>0, <1>3 DEF Coherent, Execute, Ready, Open
    <3>2. ops[i] \in Operation
      BY <3>1
    <3>5. ops[i].call \in Calls
      BY <3>2 DEF Operation
    <3>3. ops[i].call.value \in Nat
      BY <3>5, TimelockAssumption
    <3>4. balance' = balance - ops[i].call.value /\ ops[i].call.value <= balance
      BY <1>3 DEF Execute
    <3> QED BY <1>0, <3>3, <3>4
  <2> HIDE DEF frame, Frame
  <2>5. stack' \in Seq(Frame)
    BY <1>0, <2>1, <2>2
  <2>6. ASSUME NEW k \in 1..Len(stack') PROVE Coherent(stack'[k].ops, stack'[k].runs)
    <3>1. CASE k \in 1..Len(stack)
      <4>1. stack'[k] = stack[k]
        BY <1>0, <2>1, <2>2, <3>1
      <4> QED BY <1>0, <3>1, <4>1
    <3>2. CASE k = Len(stack) + 1
      <4>1. stack'[k] = frame
        BY <1>0, <2>1, <2>2, <3>2
      <4> QED BY <2>3, <4>1
    <3>3. Len(stack') = Len(stack) + 1 /\ Len(stack) \in Nat
      BY <1>0, <2>1, <2>2
    <3> QED BY <3>1, <3>2, <3>3
  <2>7. Coherent(ops', runs')
    BY <1>0, <1>3, ExecuteCoherent
  <2> QED BY <1>0, <2>1, <2>4, <2>5, <2>6, <2>7 DEF CoherentFrames, Frame
<1>4. ASSUME stack # <<>>, Pop
      PROVE  /\ stack' \in Seq(Frame)
             /\ \A k \in 1..Len(stack') : Coherent(stack'[k].ops, stack'[k].runs)
             /\ stack[Len(stack)] \in Frame
             /\ Coherent(stack[Len(stack)].ops, stack[Len(stack)].runs)
  <2> HIDE DEF Frame
  <2>1. Len(stack) \in Nat \ {0} /\ stack' = SubSeq(stack, 1, Len(stack) - 1)
    BY <1>0, <1>4 DEF Pop
  <2>2. /\ stack' \in Seq(Frame) /\ Len(stack') = Len(stack) - 1
        /\ \A k \in 1..Len(stack') : stack'[k] = stack[k]
    <3> DEFINE n == Len(stack) - 1
    <3>1. n \in Int /\ 1 \in 1..(Len(stack) + 1) /\ n \in 0..Len(stack)
      BY <2>1
    <3>2. /\ SubSeq(stack, 1, n) \in Seq(Frame)
          /\ Len(SubSeq(stack, 1, n)) = IF 1 <= n THEN n - 1 + 1 ELSE 0
          /\ \A k \in 1..(n - 1 + 1) : SubSeq(stack, 1, n)[k] = stack[1 + k - 1]
      BY <1>0, <3>1, SubSeqProperties
    <3>3. stack' = SubSeq(stack, 1, n)
      BY <2>1
    <3> QED BY <2>1, <3>1, <3>2, <3>3, SMTT(60)
  <2>3. \A k \in 1..Len(stack') : Coherent(stack'[k].ops, stack'[k].runs)
    <3> TAKE k \in 1..Len(stack')
    <3>1. k \in 1..Len(stack) /\ stack'[k] = stack[k]
      BY <2>1, <2>2
    <3> QED BY <1>0, <3>1
  <2> QED BY <1>0, <2>1, <2>2, <2>3
<1>5. CASE Return
  <2>1. stack # <<>> /\ Pop /\ UNCHANGED <<ops, balance, deployed, now, runs>>
    BY <1>5 DEF Return
  <2> QED BY <1>0, <1>4, <2>1 DEF CoherentFrames
<1>6. CASE CallFailed
  <2>1. /\ stack # <<>> /\ Pop /\ UNCHANGED <<deployed, now>>
        /\ ops' = stack[Len(stack)].ops /\ runs' = stack[Len(stack)].runs
        /\ balance' = stack[Len(stack)].balance
    BY <1>6 DEF CallFailed
  <2>2. balance' \in Nat
    BY <1>4, <2>1
  <2> QED BY <1>0, <1>4, <2>1, <2>2 DEF CoherentFrames
<1>7. CASE Receive
  BY <1>0, <1>7, TimelockAssumption, SMTT(60) DEF Receive, CoherentFrames
<1>8. CASE Tick
  BY <1>0, <1>8, TimelockAssumption DEF Tick, CoherentFrames
<1>9. ASSUME NEW t \in Targets, LoseCode(t) PROVE CoherentFrames'
  BY <1>0, <1>9 DEF LoseCode, CoherentFrames
<1>10. CASE UNCHANGED vars
  BY <1>0, <1>10 DEF vars, CoherentFrames
<1> QED BY <1>1, <1>2, <1>3, <1>5, <1>6, <1>7, <1>8, <1>9, <1>10 DEF Next

\* Nothing is scheduled at deployment.
LEMMA TimelockInit == Init => CoherentFrames
<1> SUFFICES ASSUME Init PROVE CoherentFrames
  OBVIOUS
<1>0. MaxTime \in Nat /\ MaxTime > 0 /\ MaxOps \in Nat
  BY TimelockAssumption
<1>1. ops = <<>> /\ stack = <<>> /\ runs = [i \in Ids |-> <<>>] /\ now = 1 /\ balance = 0
      /\ deployed = Targets
  BY DEF Init
<1>2. runs \in Histories
  BY <1>1 DEF Histories
<1> QED BY <1>0, <1>1, <1>2 DEF CoherentFrames, Coherent

\* Every execution of the timelock, re-entered or not, is coherent in its
\* current and in all its saved states.
THEOREM TimelockInvariant == Spec => []CoherentFrames
BY TimelockInit, TimelockStep, PTL DEF Spec

\* The call of an operation takes effect at most once and inside its window,
\* at any depth of re-entrance.
THEOREM TimelockRunsOnce == Spec => []RunsOnceInWindow
<1>1. CoherentFrames => RunsOnceInWindow
  <2> SUFFICES ASSUME CoherentFrames, NEW i \in Ids
               PROVE  /\ Len(runs[i]) <= 1
                      /\ runs[i] # <<>> =>
                            /\ i \in DOMAIN ops
                            /\ ops[i].scheduledAt + Delay <= runs[i][1]
                            /\ runs[i][1] <= ops[i].scheduledAt + Delay + Window
    BY DEF RunsOnceInWindow
  <2>1. Len(<<>>) = 0
    OBVIOUS
  <2>2. CASE i \in DOMAIN ops
    BY <2>2 DEF CoherentFrames, Coherent, CoherentOp
  <2>3. CASE i \notin DOMAIN ops
    BY <2>1, <2>3 DEF CoherentFrames, Coherent
  <2> QED BY <2>2, <2>3
<1> QED BY <1>1, TimelockInvariant, PTL

\* The executed and cancelled flags agree with what took effect.
THEOREM TimelockFlags == Spec => []FlagsTruthful
<1>1. CoherentFrames => FlagsTruthful
  <2> SUFFICES ASSUME CoherentFrames, NEW i \in DOMAIN ops
               PROVE  (ops[i].executed <=> runs[i] # <<>>) /\ (ops[i].cancelled => runs[i] = <<>>)
    BY DEF FlagsTruthful
  <2>1. i \in Ids
    BY TimelockAssumption DEF CoherentFrames, Coherent, Ids
  <2> QED BY <2>1 DEF CoherentFrames, Coherent, CoherentOp
<1> QED BY <1>1, TimelockInvariant, PTL

=============================================================================
