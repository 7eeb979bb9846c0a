-------------------------- MODULE RequestLifecycle --------------------------
(***************************************************************************)
(* What every coordinator promises about a randomness request, whatever    *)
(* storage layout it uses (docs/SERVICE_V2.md, "Request state machine"):   *)
(* an identifier is used for one request only, a request gets one result   *)
(* or expires, the result never changes, the consumer's callback succeeds  *)
(* at most once, and the reservation taken for it is given up exactly once *)
(* - when the fulfilment is settled, or when the request expires.          *)
(***************************************************************************)
CONSTANTS
    Ids,            \* request identifiers
    Results,        \* random outputs
    NoResult        \* the result of a request that has none

VARIABLES
    phase,          \* the stage of each request
    result,         \* the output of each fulfilled request
    delivered,      \* has the consumer's callback succeeded?
    held            \* is a reservation held for the request?

lifeVars == <<phase, result, delivered, held>>

Phases == {"none", "pending", "fulfilled", "expired", "pruned"}

LifeInit ==
    /\ phase     = [i \in Ids |-> "none"]
    /\ result    = [i \in Ids |-> NoResult]
    /\ delivered = [i \in Ids |-> FALSE]
    /\ held      = [i \in Ids |-> FALSE]

\* A new request, under an identifier that was never used, holds a reservation.
Open(i) ==
    /\ phase[i] = "none"
    /\ phase' = [phase EXCEPT ![i] = "pending"]
    /\ held' = [held EXCEPT ![i] = TRUE]
    /\ UNCHANGED <<result, delivered>>

\* A verified proof fixes the result; the reservation is still held.
Fulfil(i, r) ==
    /\ phase[i] = "pending"
    /\ phase' = [phase EXCEPT ![i] = "fulfilled"]
    /\ result' = [result EXCEPT ![i] = r]
    /\ UNCHANGED <<delivered, held>>

\* The first callback has returned: the fulfilment is settled.
Settle(i, ok) ==
    /\ phase[i] = "fulfilled" /\ held[i] /\ ~delivered[i]
    /\ held' = [held EXCEPT ![i] = FALSE]
    /\ delivered' = [delivered EXCEPT ![i] = ok]
    /\ UNCHANGED <<phase, result>>

\* A later callback succeeds.
Deliver(i) ==
    /\ phase[i] = "fulfilled" /\ ~held[i] /\ ~delivered[i]
    /\ delivered' = [delivered EXCEPT ![i] = TRUE]
    /\ UNCHANGED <<phase, result, held>>

Expire(i) ==
    /\ phase[i] = "pending"
    /\ phase' = [phase EXCEPT ![i] = "expired"]
    /\ held' = [held EXCEPT ![i] = FALSE]
    /\ UNCHANGED <<result, delivered>>

\* A finished request is forgotten, its identifier is spent for ever.
Prune(i) ==
    /\ phase[i] \in {"fulfilled", "expired"} /\ ~held[i]
    /\ phase' = [phase EXCEPT ![i] = "pruned"]
    /\ result' = [result EXCEPT ![i] = NoResult]
    /\ delivered' = [delivered EXCEPT ![i] = FALSE]
    /\ UNCHANGED held

LifeNext == \E i \in Ids :
    \/ Open(i)
    \/ \E r \in Results : Fulfil(i, r)
    \/ \E ok \in BOOLEAN : Settle(i, ok)
    \/ Deliver(i)
    \/ Expire(i)
    \/ Prune(i)

LifeSpec == LifeInit /\ [][LifeNext]_lifeVars
=============================================================================
