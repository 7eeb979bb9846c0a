------------------------------- MODULE MCNode -------------------------------
(* Three nodes: a majority of honest ones, and all three with one faulty.    *)
EXTENDS ThresholdNode

MCGroups == {
    [threshold |-> 2, coefficients |-> <<5, 1>>, faulty |-> {}],
    [threshold |-> 3, coefficients |-> <<5, 1, 1>>, faulty |-> {3}]}
=============================================================================
