----------------------------- MODULE MCTimelock -----------------------------
(* An instance of VRFAdminTimelock for TLC: a free and a paying call. *)
EXTENDS VRFAdminTimelock

MCCalls == {[target |-> "coordinator", value |-> 0], [target |-> "other", value |-> 1]}
=============================================================================
