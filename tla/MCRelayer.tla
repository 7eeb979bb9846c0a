----------------------------- MODULE MCRelayer ------------------------------
(* Instances of RelayerNonce for TLC. *)
EXTENDS RelayerNonce, TLC

CONSTANTS w1, w2, j1, j2, r1, r2

MCWorkers == {w1, w2}
MCJobs == {j1, j2}
OneJob == {j1}
MCRpcs == {r1, r2}
MCPrices == {1}
MCPricesAboveLane == {1, 3}

Symmetry ==
    Permutations(MCWorkers) \cup Permutations(MCJobs) \cup Permutations(MCRpcs)
=============================================================================
