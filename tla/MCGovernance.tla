---------------------------- MODULE MCGovernance ----------------------------
(* Model-checking instance of Governance: three organisations, one        *)
(* proposal, four vote requests and the policies the console can set.      *)
EXTENDS Governance

CONSTANTS o1, o2, o3, m1, p1, v1, v2, v3, v4

MCChainOrgList == <<o1, o2, o3>>
MCMultiIds == {m1}
MCProposers == {p1}
MCVoters == {v1, v2, v3, v4}

\* MAJORITY, ANY, ALL, FORBIDDEN, PERCENTAGE 60 and an unparseable percentage.
MCPolicies ==
  { [type |-> "MAJORITY", percent |-> 0], [type |-> "ANY", percent |-> 0],
    [type |-> "ALL", percent |-> 0], [type |-> "FORBIDDEN", percent |-> 0],
    [type |-> "PERCENTAGE", percent |-> 60], [type |-> "PERCENTAGE", percent |-> -1] }
=============================================================================
