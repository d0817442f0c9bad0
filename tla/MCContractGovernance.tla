------------------------- MODULE MCContractGovernance -------------------------
(* Model-checking instance of ContractGovernance: two organisations, one   *)
(* contract, up to three proposals and three vote requests.                *)
EXTENDS ContractGovernance

CONSTANTS o1, o2, m1, m2, m3, p1, p2, p3, v1, v2, v3

MCChainOrgList == <<o1, o2>>
MCMultiIds == {m1, m2, m3}
MCProposers == {p1, p2, p3}
\* Two proposals, for the run with every failure enabled.
MCTwoMultiIds == {m1, m2}
MCTwoProposers == {p1, p2}
\* One proposal, for the liveness run.
MCOneMultiId == {m1}
MCOneProposer == {p1}
MCVoters == {v1, v2, v3}

\* ANY lets one vote decide; MAJORITY of two needs both.
MCPolicies == { [type |-> "ANY", percent |-> 0], [type |-> "MAJORITY", percent |-> 0] }
=============================================================================
