-------------------------- MODULE VRFAdminTimelock --------------------------
(***************************************************************************)
(* contracts/VRFAdminTimelock.sol: the owner of a coordinator, which runs  *)
(* the calls its own owner scheduled after a fixed delay, at anybody's     *)
(* request.                                                                *)
(*                                                                         *)
(* An operation id is the hash of its nonce and its call, so operations    *)
(* are indexed by nonce and carry their call.  A call of execute hands     *)
(* control to the target, which may enter the timelock again: `stack' is   *)
(* the calls in progress, each with the state to return to if it fails.    *)
(* The owner may be a contract the target reaches, so its operations may   *)
(* happen inside a call too.  Block time only moves between transactions.  *)
(***************************************************************************)
EXTENDS Naturals, Sequences

CONSTANTS
    Calls,       \* [target, value] pairs; calldata is part of a target here
    Delay,       \* delay
    Window,      \* EXECUTION_WINDOW
    MaxOps,      \* bound on nonce
    MaxTime,     \* bound on block.timestamp
    MaxDepth,    \* bound on the call stack
    MaxBalance   \* bound on the ether held

ASSUME TimelockAssumption ==
    /\ {Delay, Window, MaxOps, MaxTime, MaxDepth, MaxBalance} \subseteq Nat
    /\ Delay > 0 /\ MaxTime > 0
    /\ \A c \in Calls : c.value \in Nat

VARIABLES
    ops,         \* operations, by nonce, with the call and when it was scheduled
    balance,     \* ether held
    deployed,    \* targets that have code
    now,         \* block.timestamp
    stack,       \* calls of execute in progress
    runs         \* history: the times each operation's call took effect

vars == <<ops, balance, deployed, now, stack, runs>>

Targets == {c.target : c \in Calls}
Operation == [call : Calls, scheduledAt : 1..MaxTime, executeAfter : Nat,
              executed : BOOLEAN, cancelled : BOOLEAN]
Ids == 1..MaxOps

Init ==
    /\ ops = <<>> /\ balance = 0
    /\ deployed = Targets
    /\ now = 1
    /\ stack = <<>>
    /\ runs = [i \in Ids |-> <<>>]

\* Scheduling numbers the operation with ++nonce.
Schedule(c) ==
    /\ Len(ops) < MaxOps
    /\ c.target \in deployed
    /\ ops' = Append(ops, [call |-> c, scheduledAt |-> now, executeAfter |-> now + Delay,
                           executed |-> FALSE, cancelled |-> FALSE])
    /\ UNCHANGED <<balance, deployed, now, stack, runs>>

Open(i) == i \in DOMAIN ops /\ ~ops[i].executed /\ ~ops[i].cancelled

Cancel(i) ==
    /\ Open(i)
    /\ ops' = [ops EXCEPT ![i].cancelled = TRUE]
    /\ UNCHANGED <<balance, deployed, now, stack, runs>>

\* Mutant: an operation never expires.
ReadyForever(i) == Open(i) /\ ops[i].executeAfter <= now

Ready(i) ==
    /\ Open(i)
    /\ ops[i].executeAfter <= now
    /\ now <= ops[i].executeAfter + Window

\* Mutant: the flag is left for the call's return.
MarkExecutedLate(i) == ops

MarkExecuted(i) == [ops EXCEPT ![i].executed = TRUE]

\* execute up to and into the target's code.  The transfer of value is part
\* of the call; a call that cannot be paid fails like any other.
Execute(i) ==
    /\ Len(stack) < MaxDepth
    /\ Ready(i) /\ ops[i].call.target \in deployed
    /\ ops[i].call.value <= balance
    /\ stack' = Append(stack, [id |-> i, ops |-> ops, balance |-> balance, runs |-> runs])
    /\ ops' = MarkExecuted(i)
    /\ balance' = balance - ops[i].call.value
    /\ runs' = [runs EXCEPT ![i] = Append(@, now)]
    /\ UNCHANGED <<deployed, now>>

Pop == stack' = SubSeq(stack, 1, Len(stack) - 1)

Return ==
    /\ stack # <<>>
    /\ Pop
    /\ UNCHANGED <<ops, balance, deployed, now, runs>>

\* CallFailed reverts the call of execute with everything done since.
CallFailed ==
    /\ stack # <<>>
    /\ LET frame == stack[Len(stack)]
       IN  ops' = frame.ops /\ balance' = frame.balance /\ runs' = frame.runs
    /\ Pop
    /\ UNCHANGED <<deployed, now>>

Receive ==
    /\ balance < MaxBalance
    /\ balance' = balance + 1
    /\ UNCHANGED <<ops, deployed, now, stack, runs>>

Tick ==
    /\ stack = <<>> /\ now < MaxTime
    /\ now' = now + 1
    /\ UNCHANGED <<ops, balance, deployed, stack, runs>>

\* A target destroys itself (VRFAdminTimelock.test.cjs:32).
LoseCode(t) ==
    /\ stack = <<>> /\ t \in deployed
    /\ deployed' = deployed \ {t}
    /\ UNCHANGED <<ops, balance, now, stack, runs>>

Next ==
    \/ \E c \in Calls : Schedule(c)
    \/ \E i \in Ids : Cancel(i) \/ Execute(i)
    \/ Return \/ CallFailed \/ Receive \/ Tick
    \/ \E t \in Targets : LoseCode(t)

Spec == Init /\ [][Next]_vars

-----------------------------------------------------------------------------
(* Properties *)

TypeOK ==
    /\ ops \in Seq(Operation)
    /\ balance \in Nat /\ now \in 1..MaxTime
    /\ deployed \subseteq Targets
    /\ stack \in Seq([id : Ids, ops : Seq(Operation), balance : Nat,
                      runs : [Ids -> Seq(1..MaxTime)]])
    /\ runs \in [Ids -> Seq(1..MaxTime)]

\* The call of an operation takes effect at most once, however execute is
\* re-entered from the target and whichever inner calls fail, and then no
\* sooner than the delay after it was scheduled and no later than the window
\* allows.
RunsOnceInWindow ==
    \A i \in Ids :
        /\ Len(runs[i]) <= 1
        /\ runs[i] # <<>> =>
              /\ i \in DOMAIN ops
              /\ ops[i].scheduledAt + Delay <= runs[i][1]
              /\ runs[i][1] <= ops[i].scheduledAt + Delay + Window

\* The flags tell the truth: an operation is marked executed exactly when its
\* call took effect (a failed call can be tried again), and a cancelled one
\* never takes effect, before or after.
FlagsTruthful ==
    \A i \in DOMAIN ops :
        /\ ops[i].executed <=> runs[i] # <<>>
        /\ ops[i].cancelled => runs[i] = <<>>

=============================================================================
