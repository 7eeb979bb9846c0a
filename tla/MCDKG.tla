------------------------------- MODULE MCDKG -------------------------------
(* A ceremony of three members, one of them faulty; the reshare hands the   *)
(* key from a, b, c to b, c, d, so that two members change their index.     *)
EXTENDS ThresholdDKG

CONSTANTS a, b, c, d

MCNewRoster == <<b, c, d>>
MCOldRoster == <<a, b, c>>
MCOldCoefficients == <<7, 8>>
MCDraws == [id \in {a, b, c, d} |->
    CASE id = a -> {<<3, 1>>}
      [] id = b -> {<<2, 1>>}
      [] id = c -> {<<1, 1>>, <<2, 2>>}
      [] id = d -> {<<4, 1>>}]
=============================================================================
