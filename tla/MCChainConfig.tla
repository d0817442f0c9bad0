---------------------------- MODULE MCChainConfig ----------------------------
(* Model-checking instance of ChainConfig: three organisations, two block  *)
(* parameter sets and a handful of permission requests.                    *)
EXTENDS ChainConfig

CONSTANTS o1, o2, o3, p1, p2, p3, b1, b2, n1, n3

MCChainOrgs == {o1, o2, o3}
\* o3 joins the chain as a trust root after it is subscribed.
MCInitOrgs == {o1, o2}
MCProposals == {p1, p2, p3}
\* A node of o1 in the chain from the start, and n3 of o3, which joins with
\* its organisation (a node of o2 would behave as n1 does).
MCChainNodes == {n1, n3}
MCNodeOrg == n1 :> o1 @@ n3 :> o3
MCInitNodes == {n1}
\* One proposal, once trust roots and nodes may change during the run.
MCOneProposal == {p1}
MCBlockParams == {b1, b2}

\* The ledger lists the node-id, freeze, block and permission resources,
\* in this order (node-id updates are not governed: loadChainInfo skips
\* them).
MCLedgerOrder == << NodeIdUpdate, FreezeContract, BlockUpdate, PermissionUpdate >>

\* A genesis configuration with no resource policies, and one whose freeze
\* policy is ANY of o1 and whose permission policy names the client role.
MCInitLedgers ==
  { [n \in {NodeIdUpdate, FreezeContract, BlockUpdate, PermissionUpdate} |-> None],
    NodeIdUpdate :> [rule |-> "ANY", roles |-> {"admin"}, orgs |-> {}]
    @@ FreezeContract :> [rule |-> "ANY", roles |-> {"admin"}, orgs |-> {o1}]
    @@ BlockUpdate :> None
    @@ PermissionUpdate :> [rule |-> "MAJORITY", roles |-> {"admin", "client"}, orgs |-> {}] }

\* ModifyChainAuthParams: Type is the console's resource type, Rule the
\* index of RuleValueMap (5: PercentNum), RoleList indices of RoleValueMap.
AuthReq(type, rule, pct, orgs, roles) ==
  [type |-> type, rule |-> rule, percentNum |-> pct, orgs |-> orgs, roles |-> roles]

MCAuthParams ==
  { AuthReq(6, 3, "", {}, {1}),          \* freeze: ALL, client role
    AuthReq(9, 1, "", {o1, o2}, {0}),    \* permission: ANY of o1, o2
    AuthReq(6, 4, "", {}, {}),           \* freeze: FORBIDDEN, no role
    AuthReq(0, 1, "", {}, {0, 1}),       \* node id: not governed
    AuthReq(3, 0, "", {o2}, {0}),        \* block: MAJORITY of o2 (refused)
    AuthReq(3, 1, "", {o2}, {0}) }       \* block: ANY of o2

\* The same, and a 60 percent freeze policy.
MCPercentAuthParams ==
  MCAuthParams \union { AuthReq(6, 5, "60", {}, {0}) }
=============================================================================
