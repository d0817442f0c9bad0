----------------------------- MODULE MCChainSync -----------------------------
(* Model-checking instance of ChainSync: two chains, subscription requests *)
(* and ledgers of a few blocks.                                            *)
EXTENDS ChainSync

CONSTANTS c1, c2, r1, r2, r3

MCChains == {c1, c2}
MCRequests == {r1, r2, r3}
MCTwoRequests == {r1, r2}
=============================================================================
