----------------------------- MODULE PolicyStore -----------------------------
(***************************************************************************)
(* The chain policy rows and how they are derived: the Go maps of package  *)
(* sync (clients.go), addConfigPolicy and the loop of loadChainInfo that   *)
(* turns the ledger's ResourcePolicies into ChainPolicy / ChainPolicyOrg   *)
(* rows, and dbpolicy.GetPassedVoteCnt, the quorum a row demands.  No      *)
(* state: the modules that read or write the rows extend this one.         *)
(***************************************************************************)
EXTENDS Integers, FiniteSets, Sequences, TLC

LOCAL INSTANCE SequencesExt

\* Role types of a ChainPolicy row (sync.ADMIN, CLIENT, ALL).
ADMIN == 0
CLIENT == 1
ALL == 2

\* Resource names of the ledger's chain configuration.
BlockUpdate == "CHAIN_CONFIG-BLOCK_UPDATE"
PermissionUpdate == "CHAIN_CONFIG-PERMISSION_UPDATE"
FreezeContract == "CONTRACT_MANAGE-FREEZE_CONTRACT"
NodeIdUpdate == "NODE_ID_UPDATE"

\* The governed resources and their ChainPolicy.Type; the console's
\* resource types 0..2 (node, trust root, consensus) are not governed.
ResourceNameMap ==
  BlockUpdate :> 3 @@ "CONTRACT_MANAGE-INIT_CONTRACT" :> 4
  @@ "CONTRACT_MANAGE-UPGRADE_CONTRACT" :> 5 @@ FreezeContract :> 6
  @@ "CONTRACT_MANAGE-UNFREEZE_CONTRACT" :> 7
  @@ "CONTRACT_MANAGE-REVOKE_CONTRACT" :> 8 @@ PermissionUpdate :> 9

ResourceNameValueMap ==
  0 :> NodeIdUpdate @@ 1 :> "TRUST_ROOT_UPDATE" @@ 2 :> "CONSENSUS_EXT_UPDATE"
  @@ [t \in 3..9 |-> CHOOSE n \in DOMAIN ResourceNameMap : ResourceNameMap[n] = t]

\* Both FORBIDDEN and PERCENTAGE map to 4, while RuleValueMap reads 5 back
\* as PERCENTAGE.
RuleMap ==
  "MAJORITY" :> 0 @@ "ANY" :> 1 @@ "SELF" :> 2 @@ "ALL" :> 3
  @@ "FORBIDDEN" :> 4 @@ "PERCENTAGE" :> 4

RoleMap == "admin" :> 0 @@ "client" :> 1

RuleValueMap ==
  0 :> "MAJORITY" @@ 1 :> "ANY" @@ 2 :> "SELF" @@ 3 :> "ALL"
  @@ 4 :> "FORBIDDEN" @@ 5 :> "PERCENTAGE"

RoleValueMap == 0 :> "admin" @@ 1 :> "client"

\* Go's m[k]: the zero value of the element type when k is absent.
GoIndex(m, k, zero) == IF k \in DOMAIN m THEN m[k] ELSE zero

(***************************************************************************)
(* A ledger resource policy (accesscontrol.Policy): its rule string, its   *)
(* role names and its org ids.  A rule is a rule name or, for a percentage *)
(* rule, the console's PercentNum string.                                  *)
(***************************************************************************)
DefaultPolicy == [rule |-> "MAJORITY", roles |-> {"admin"}, orgs |-> {}]

PermissionPolicy == [rule |-> "ALL", roles |-> {"admin"}, orgs |-> {}]

\* addConfigPolicy: a MAJORITY/admin entry for every governed resource the
\* list lacks, then ALL/admin for the permission resource whatever the list
\* holds.  Go iterates the map in a random order; the missing names are
\* distinct, so taking them by type id yields the same rows.
AddConfigPolicy(list) ==
  LET present == {list[i].name : i \in DOMAIN list}
      missing == SelectSeq([i \in 1..7 |-> ResourceNameValueMap[i + 2]],
                           LAMBDA n : n \notin present)
  IN list \o [i \in 1..Len(missing) |-> [name |-> missing[i], policy |-> DefaultPolicy]]
          \o << [name |-> PermissionUpdate, policy |-> PermissionPolicy] >>

\* roleType: the role of a single-role list, ALL otherwise.
RoleType(roles) ==
  IF Cardinality(roles) = 1 THEN RoleMap[CHOOSE r \in roles : TRUE] ELSE ALL

\* Mutant: an entry naming no organisation selects none.
PolicyRowNamedOrgsOnly(p, chainOrgs) ==
  [type    |-> GoIndex(RuleMap, p.rule, 0),
   role    |-> RoleType(p.roles),
   percent |-> p.rule,
   sel     |-> chainOrgs \cap p.orgs]

\* The ChainPolicy row of one entry and its SELECTED organisations: every
\* organisation of the chain when the entry names none.
PolicyRow(p, chainOrgs) ==
  [type    |-> GoIndex(RuleMap, p.rule, 0),
   role    |-> RoleType(p.roles),
   percent |-> p.rule,
   sel     |-> IF p.orgs = {} THEN chainOrgs ELSE chainOrgs \cap p.orgs]

\* The loop of loadChainInfo: entries of ungoverned resources are skipped,
\* and CreateChainPolicy replaces the type's row, so a later entry of the
\* same resource wins.
LoadChainPolicies(rows, list, chainOrgs) ==
  FoldLeft(LAMBDA acc, e :
             IF e.name \in DOMAIN ResourceNameMap
             THEN [acc EXCEPT ![ResourceNameMap[e.name]] = PolicyRow(e.policy, chainOrgs)]
             ELSE acc,
           rows, AddConfigPolicy(list))

(***************************************************************************)
(* dbpolicy.GetPassedVoteCnt: approvals needed among `total` ballots.      *)
(* 0 means forbidden, a negative result a misconfigured policy (an         *)
(* unparsable percentage, or SELF, which the product does not support).    *)
(***************************************************************************)
PolicyTypes == {"MAJORITY", "ANY", "SELF", "ALL", "FORBIDDEN", "PERCENTAGE"}

\* A ChainPolicy row as the tally reads it: rule and, for PERCENTAGE, the
\* parsed percentage (-1 when the stored string does not parse).
PolicyRec == [type : PolicyTypes, percent : -1..100]

RequiredApprovals(total, p) ==
  CASE p.type = "MAJORITY"   -> total \div 2 + 1
    [] p.type = "ANY"        -> 1
    [] p.type = "ALL"        -> total
    [] p.type = "FORBIDDEN"  -> 0
    [] p.type = "SELF"       -> -1
    [] p.type = "PERCENTAGE" -> IF p.percent < 0 THEN -1
                                ELSE (p.percent * total + 99) \div 100

=============================================================================
