------------------------------ MODULE MCStore -------------------------------
(* The programs on one request: two instances share the database, whichever  *)
(* of the two workers they run; the operator with a state file is alone.     *)
EXTENDS OperatorLoop

CONSTANTS w1, w2, j1

MCWorkers == {w1, w2}
OneJob == {j1}
MCTeams == [postgres |-> {w1, w2}, compact |-> {w1, w2}, file |-> {w1}]
=============================================================================
