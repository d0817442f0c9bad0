----------------------------- MODULE ChainConfig -----------------------------
(***************************************************************************)
(* Chain configuration and permission governance, and the policy store it *)
(* feeds.                                                                  *)
(*                                                                         *)
(*  - ModifyChainAuthHandler / ModifyChainConfigHandler validate the       *)
(*    console's request and open a proposal with SaveVote (vote types      *)
(*    PERMISSION_UPDATE and BLOCK_UPDATE);                                 *)
(*  - the vote request that completes the quorum, counted against the     *)
(*    ChainPolicy row of the vote type read at vote time, calls            *)
(*    MultiSignInvoke: ChainAuthModify sends a permission update of one    *)
(*    resource, ChainConfigModify a block update unless the Chain row      *)
(*    already holds the requested values;                                  *)
(*  - the refresh loop (LoadChainRefInfos) first inserts a ChainOrg row   *)
(*    for every trust root of the ledger (loadOrgInfo), then copies the    *)
(*    ledger's configuration into the Chain row and rewrites every         *)
(*    ChainPolicy row against the ChainOrg rows (loadChainInfo); each      *)
(*    takes the client's lock on its own, so handlers run in between.      *)
(*                                                                         *)
(* The vote itself is modelled in Governance; here a proposal passes in   *)
(* one step with the approvals of a set of organisations that meets the    *)
(* quorum.  The ledger is the external collaborator: it applies a          *)
(* configuration transaction, or rejects it (LedgerMayReject), and the     *)
(* synchronous request can fail before or after the ledger acted           *)
(* (RpcMayFail).                                                           *)
(***************************************************************************)
EXTENDS PolicyStore

CONSTANTS
  ChainOrgs,        \* organisations that are or may become trust roots
  InitOrgs,         \* the ledger's trust roots when the chain is subscribed
  ChainNodes,       \* nodes registered in the console (Node and OrgNode rows)
  NodeOrg,          \* NodeOrg[n]: the organisation node n is registered under
  InitNodes,        \* the ledger's consensus nodes when the chain is subscribed
  NoOrg,            \* model value: the empty OrgId of an unmatched ChainOrgNode row
  LedgerOrder,      \* resource names of the ledger's ResourcePolicies list, in order
  InitLedgers,      \* ledger policy maps the chain can start with
  AuthParams,       \* ModifyChainAuthParams the console can send
  BlockParams,      \* (TxTimeout, BlockTxCapacity, BlockInterval) values
  InitBlock,        \* the ledger's block parameters when the chain is subscribed
  Proposals,        \* proposal requests
  None,             \* model value: no entry / no value
  LedgerMayReject,  \* TRUE: the ledger can return a non-success code
  RpcMayFail        \* TRUE: the request can return an error, the ledger having
                    \*       acted or not

LedgerNames == {LedgerOrder[i] : i \in 1..Len(LedgerOrder)}

Governed == DOMAIN ResourceNameMap

PolicyTypeIds == {ResourceNameMap[n] : n \in Governed}

ASSUME \A a \in AuthParams : ResourceNameValueMap[a.type] \in LedgerNames

ASSUME InitOrgs \subseteq ChainOrgs

ASSUME NodeOrg \in [ChainNodes -> ChainOrgs] /\ InitNodes \subseteq ChainNodes
ASSUME \A n \in InitNodes : NodeOrg[n] \in InitOrgs

ASSUME InitBlock \in BlockParams /\ LedgerMayReject \in BOOLEAN /\ RpcMayFail \in BOOLEAN

VARIABLES
  lpolicy,   \* the ledger's resource policies: name -> policy, or None
  lblock,    \* the ledger's block parameters
  dbpolicy,  \* ChainPolicy rows (with their ChainPolicyOrg selections), by type
  dbblock,   \* block parameters of the Chain row
  req,       \* req[p]: phase, kind and parameters of proposal p, the
             \*         organisations whose approvals passed it, and (a ghost
             \*         field) those SELECTED by its policy when it was opened
  fresh,     \* a refresh round has completed since the ledger's configuration changed
  ltrust,    \* the ledger's trust-root organisations
  dborgs,    \* ChainOrg rows: relation.GetChainOrgList
  lnodes,    \* the ledger's consensus nodes (GetChainInfo's NodeList)
  dbnodes,   \* ChainOrgNode rows: <<node, org or NoOrg>>
  refresh,   \* the step of LoadChainRefInfos the ticker loop runs next
  roundClean \* since this round's first loader, every loader has succeeded and
             \* the trust roots and nodes have not changed

ccvars == <<lpolicy, lblock, dbpolicy, dbblock, req, fresh, ltrust, dborgs, lnodes,
            dbnodes, refresh, roundClean>>

refreshVars == <<ltrust, dborgs, lnodes, dbnodes, refresh, roundClean>>

\* The ledger's ResourcePolicies list, as GetChainConfig returns it.
LedgerList ==
  LET names == SelectSeq(LedgerOrder, LAMBDA n : lpolicy[n] # None)
  IN [i \in 1..Len(names) |-> [name |-> names[i], policy |-> lpolicy[names[i]]]]

\* The rows loadChainInfo writes for the current ledger configuration.
LoadedRows(rows) == LoadChainPolicies(rows, LedgerList, dborgs)

NoRows == [t \in PolicyTypeIds |-> None]

ReqRec == [pc : {"idle", "voting", "dispatch", "done"},
           kind : {"auth", "config", None},
           auth : AuthParams \union {None},
           block : BlockParams \union {None},
           orgs : SUBSET ChainOrgs,
           pass : SUBSET ChainOrgs,
           elig : SUBSET ChainOrgs]

Idle == [pc |-> "idle", kind |-> None, auth |-> None, block |-> None, orgs |-> {},
         pass |-> {}, elig |-> {}]

\* SaveVote reads the ChainPolicy row of the vote type, then creates a
\* ballot for every organisation of the chain (GetChainOrgList, the
\* proposal's `orgs`): the row's SELECTED organisations are recorded, not
\* used.
Eligible(t) == dbpolicy[t].sel

\* A ledger rule: a rule name, or a percentage the console sent.
LedgerRules == {RuleValueMap[t] : t \in 0..4} \union {a.percentNum : a \in {x \in AuthParams : x.rule = 5}}

LedgerPolicyRec == [rule : LedgerRules, roles : SUBSET {"admin", "client"}, orgs : SUBSET ChainOrgs]

RowRec == [type : 0..4, role : {ADMIN, CLIENT, ALL}, percent : STRING, sel : SUBSET ChainOrgs]

TypeOK ==
  /\ lpolicy \in [LedgerNames -> LedgerPolicyRec \union {None}]
  /\ lblock \in BlockParams
  /\ dbpolicy \in [PolicyTypeIds -> RowRec]
  /\ dbblock \in BlockParams
  /\ req \in [Proposals -> ReqRec]
  /\ fresh \in BOOLEAN
  /\ ltrust \subseteq ChainOrgs /\ dborgs \subseteq ChainOrgs
  /\ lnodes \subseteq ChainNodes /\ dbnodes \subseteq ChainNodes \X (ChainOrgs \union {NoOrg})
  /\ refresh \in {"org", "node", "chain"} /\ roundClean \in BOOLEAN

\* The chain is subscribed: SubscribeChain has run LoadChainRefInfos.
Init ==
  /\ lpolicy \in InitLedgers
  /\ lblock = InitBlock
  /\ ltrust = InitOrgs
  /\ dborgs = InitOrgs
  /\ dbpolicy = LoadChainPolicies(NoRows, LedgerList, InitOrgs)
  /\ dbblock = InitBlock
  /\ req = [p \in Proposals |-> Idle]
  /\ lnodes = InitNodes
  /\ dbnodes = {<<n, NodeOrg[n]>> : n \in InitNodes}
  /\ fresh = TRUE
  /\ refresh = "org"
  /\ roundClean = TRUE

(***************************************************************************)
(* The proposal handlers.                                                  *)
(***************************************************************************)
\* ModifyChainAuthHandler.Handle: a MAJORITY rule may name neither
\* organisations nor the client role.
AuthLegal(a) == a.rule = 0 => a.orgs = {} /\ 1 \notin a.roles

\* The checks pass and SaveVote(PERMISSION_UPDATE) opens the proposal.
ModifyChainAuth(p, a) ==
  /\ req[p].pc = "idle"
  /\ AuthLegal(a)
  /\ req' = [req EXCEPT ![p] = [Idle EXCEPT !.pc = "voting", !.kind = "auth", !.auth = a,
                                       !.orgs = dborgs,
                                       !.elig = Eligible(ResourceNameMap[PermissionUpdate])]]
  /\ UNCHANGED <<lpolicy, lblock, dbpolicy, dbblock, fresh, refreshVars>>

\* ErrorMajorityPolicy.
ModifyChainAuthRefused(p, a) ==
  /\ req[p].pc = "idle"
  /\ ~AuthLegal(a)
  /\ req' = [req EXCEPT ![p] = [Idle EXCEPT !.pc = "done", !.kind = "auth", !.auth = a]]
  /\ UNCHANGED <<lpolicy, lblock, dbpolicy, dbblock, fresh, refreshVars>>

\* ModifyChainConfigHandler.Handle: SaveVote(BLOCK_UPDATE).
ModifyChainConfig(p, b) ==
  /\ req[p].pc = "idle"
  /\ req' = [req EXCEPT ![p] = [Idle EXCEPT !.pc = "voting", !.kind = "config", !.block = b,
                                       !.orgs = dborgs,
                                       !.elig = Eligible(ResourceNameMap[BlockUpdate])]]
  /\ UNCHANGED <<lpolicy, lblock, dbpolicy, dbblock, fresh, refreshVars>>

(***************************************************************************)
(* The vote: VoteHandler.Handle reads the ChainPolicy row of the vote type *)
(* and passes the proposal once the approvals reach GetPassedVoteCnt.  No  *)
(* row holds type 5, so the percentage is never parsed.                    *)
(***************************************************************************)
VoteType(p) == IF req[p].kind = "auth" THEN ResourceNameMap[PermissionUpdate]
                                       ELSE ResourceNameMap[BlockUpdate]

RowPolicy(row) == [type |-> RuleValueMap[row.type], percent |-> 0]

\* The ballots are the proposal's `orgs`; approvers are some of them.
Tally(p, approvers) ==
  LET need == RequiredApprovals(Cardinality(req[p].orgs), RowPolicy(dbpolicy[VoteType(p)]))
  IN /\ req[p].pc = "voting"
     /\ approvers \subseteq req[p].orgs
     /\ need > 0
     /\ Cardinality(approvers) >= need
     /\ req' = [req EXCEPT ![p].pc = "dispatch", ![p].pass = approvers]
     /\ UNCHANGED <<lpolicy, lblock, dbpolicy, dbblock, fresh, refreshVars>>

(***************************************************************************)
(* MultiSignInvoke -> ChainAuthModify / ChainConfigModify.                 *)
(***************************************************************************)
\* What the synchronous request does: the ledger applies the transaction
\* and SUCCESS comes back; the ledger rejects it; the request fails before
\* the ledger acts; the request times out after the ledger applied it.
SendOutcomes ==
  {"applied"} \union (IF LedgerMayReject THEN {"rejected"} ELSE {})
              \union (IF RpcMayFail THEN {"lost", "timeout"} ELSE {})

Applied(out) == out \in {"applied", "timeout"}

\* Mutant: PercentNum is sent whatever the rule.
LedgerPolicyOfPercentAlways(a) ==
  [rule  |-> a.percentNum,
   roles |-> {RoleValueMap[r] : r \in a.roles},
   orgs  |-> a.orgs]

\* The accesscontrol.Policy ChainAuthModify builds: the PercentNum string
\* for rule 5, the rule's name otherwise.
LedgerPolicyOf(a) ==
  [rule  |-> IF a.rule = 5 THEN a.percentNum ELSE RuleValueMap[a.rule],
   roles |-> {RoleValueMap[r] : r \in a.roles},
   orgs  |-> a.orgs]

\* The permission update of resource ResourceNameValueMap[Type] is sent.
ChainAuthModify(p) ==
  LET a == req[p].auth
      name == ResourceNameValueMap[a.type]
  IN /\ req[p].pc = "dispatch"
     /\ req[p].kind = "auth"
     /\ \E out \in SendOutcomes :
          /\ lpolicy' = IF Applied(out) THEN [lpolicy EXCEPT ![name] = LedgerPolicyOf(a)]
                                        ELSE lpolicy
          /\ fresh' = (fresh /\ ~Applied(out))
     /\ req' = [req EXCEPT ![p].pc = "done"]
     /\ UNCHANGED <<lblock, dbpolicy, dbblock, refreshVars>>

\* equalChainConfigs against the Chain row: nothing is sent, nil returned.
ChainConfigUnchanged(p) ==
  /\ req[p].pc = "dispatch"
  /\ req[p].kind = "config"
  /\ req[p].block = dbblock
  /\ req' = [req EXCEPT ![p].pc = "done"]
  /\ UNCHANGED <<lpolicy, lblock, dbpolicy, dbblock, fresh, refreshVars>>

\* The block update is sent with SendChainConfigUpdateRequest.
ChainConfigSent(p) ==
  /\ req[p].pc = "dispatch"
  /\ req[p].kind = "config"
  /\ req[p].block # dbblock
  /\ \E out \in SendOutcomes :
       /\ lblock' = IF Applied(out) THEN req[p].block ELSE lblock
       /\ fresh' = (fresh /\ ~Applied(out))
  /\ req' = [req EXCEPT ![p].pc = "done"]
  /\ UNCHANGED <<lpolicy, dbpolicy, dbblock, refreshVars>>

(***************************************************************************)
(* The ledger's trust roots change by a configuration transaction sent     *)
(* from outside the console (TRUST_ROOT_ADD); the console only ever adds    *)
(* ChainOrg rows, so only additions are modelled.                          *)
(***************************************************************************)
TrustRootAdded(o) ==
  /\ o \notin ltrust
  /\ ltrust' = ltrust \union {o}
  /\ fresh' = FALSE
  /\ roundClean' = FALSE
  /\ UNCHANGED <<lpolicy, lblock, dbpolicy, dbblock, req, dborgs, lnodes, dbnodes, refresh>>

\* A consensus node of a trust-root organisation joins (NODE_ID_ADD).
NodeJoined(n) ==
  /\ n \notin lnodes
  /\ NodeOrg[n] \in ltrust
  /\ lnodes' = lnodes \union {n}
  /\ fresh' = FALSE
  /\ roundClean' = FALSE
  /\ UNCHANGED <<lpolicy, lblock, dbpolicy, dbblock, req, ltrust, dborgs, dbnodes, refresh>>

(***************************************************************************)
(* The refresh loop: LoadChainRefInfos runs its loaders in this order,     *)
(* each under the client's lock on its own (loadChainErrorLog touches      *)
(* nothing modelled and is left out).  A loader whose ledger query fails   *)
(* logs the error and returns; the round goes on with the next loader.     *)
(***************************************************************************)
\* Mutant: the policies are loaded before the organisations.
RefreshOrderSwapped == <<"chain", "org", "node">>

\* Mutant: the nodes are loaded before the organisations.
RefreshOrderNodeFirst == <<"node", "org", "chain">>

RefreshOrder == <<"org", "node", "chain">>

NextStep(s) ==
  LET i == CHOOSE j \in 1..Len(RefreshOrder) : RefreshOrder[j] = s
  IN RefreshOrder[(i % Len(RefreshOrder)) + 1]

\* One loader of the round, which succeeded (ok) or not; the rows are fresh
\* when the last loader of a clean round has run.
RoundStep(s, ok) ==
  LET clean == (s = RefreshOrder[1] \/ roundClean) /\ ok
  IN /\ refresh = s
     /\ refresh' = NextStep(s)
     /\ roundClean' = clean
     /\ fresh' = IF s = RefreshOrder[Len(RefreshOrder)] THEN clean ELSE fresh

\* A loader whose GetChainConfig fails writes nothing.
LoaderFailed(s) ==
  /\ RpcMayFail
  /\ s \in {"org", "chain"}
  /\ RoundStep(s, FALSE)
  /\ UNCHANGED <<lpolicy, lblock, dbpolicy, dbblock, req, ltrust, dborgs, lnodes, dbnodes>>

\* loadOrgInfo: CreateChainOrg for every trust root of GetChainConfig (an
\* existing row is kept); rows are never deleted.
LoadOrgInfo ==
  /\ RoundStep("org", TRUE)
  /\ dborgs' = dborgs \union ltrust
  /\ UNCHANGED <<lpolicy, lblock, dbpolicy, dbblock, req, ltrust, lnodes, dbnodes>>

\* The OrgId loadNodeInfo gives node n: its OrgNode organisation when that
\* is one of the ChainOrg rows, the empty string otherwise.
RowOrg(n) == IF NodeOrg[n] \in dborgs THEN NodeOrg[n] ELSE NoOrg

\* loadNodeInfo: CreateChainOrgNode for every node of GetChainInfo.
LoadNodeInfo ==
  /\ RoundStep("node", TRUE)
  /\ dbnodes' = dbnodes \union {<<n, RowOrg(n)>> : n \in lnodes}
  /\ UNCHANGED <<lpolicy, lblock, dbpolicy, dbblock, req, ltrust, dborgs, lnodes>>

\* GetChainInfo fails with "connections are busy": nothing is written.
LoadNodeInfoBusy ==
  /\ RpcMayFail
  /\ RoundStep("node", FALSE)
  /\ UNCHANGED <<lpolicy, lblock, dbpolicy, dbblock, req, ltrust, dborgs, lnodes, dbnodes>>

\* GetChainInfo fails otherwise: chainAddNode writes a row for every node
\* the console registered under an organisation of the ChainOrg rows,
\* whether or not it is a node of the chain.
ChainAddNode ==
  /\ RpcMayFail
  /\ RoundStep("node", FALSE)
  /\ dbnodes' = dbnodes \union {<<n, NodeOrg[n]>> : n \in {m \in ChainNodes : NodeOrg[m] \in dborgs}}
  /\ UNCHANGED <<lpolicy, lblock, dbpolicy, dbblock, req, ltrust, dborgs, lnodes>>

\* loadChainInfo: the Chain row and every ChainPolicy row.
LoadChainInfo ==
  /\ RoundStep("chain", TRUE)
  /\ dbblock' = lblock
  /\ dbpolicy' = LoadedRows(dbpolicy)
  /\ UNCHANGED <<lpolicy, lblock, req, ltrust, dborgs, lnodes, dbnodes>>

Next ==
  \/ \E p \in Proposals :
        \/ \E a \in AuthParams : ModifyChainAuth(p, a) \/ ModifyChainAuthRefused(p, a)
        \/ \E b \in BlockParams : ModifyChainConfig(p, b)
        \/ \E approvers \in SUBSET ChainOrgs : Tally(p, approvers)
        \/ ChainAuthModify(p) \/ ChainConfigUnchanged(p) \/ ChainConfigSent(p)
  \/ \E o \in ChainOrgs : TrustRootAdded(o)
  \/ \E n \in ChainNodes : NodeJoined(n)
  \/ LoadOrgInfo \/ LoadNodeInfo \/ LoadChainInfo
  \/ \E s \in {"org", "chain"} : LoaderFailed(s)
  \/ LoadNodeInfoBusy \/ ChainAddNode

Spec == Init /\ [][Next]_ccvars

(***************************************************************************)
(* Properties.                                                             *)
(***************************************************************************)
\* The row spec 4.3 and the comment on addConfigPolicy call for: the ledger's
\* entry verbatim (a percentage string is the PERCENTAGE rule with that
\* percentage), MAJORITY/admin when there is none, ALL/admin for the
\* permission resource; the role of a one-role list, ALL otherwise; every
\* organisation SELECTED when the entry names none.
SpecPolicy(n) ==
  IF n = PermissionUpdate THEN PermissionPolicy
  ELSE IF n \in LedgerNames /\ lpolicy[n] # None THEN lpolicy[n]
  ELSE DefaultPolicy

SpecRuleType(rule) ==
  IF \E t \in 0..4 : RuleValueMap[t] = rule
  THEN CHOOSE t \in 0..4 : RuleValueMap[t] = rule
  ELSE 5

SpecRow(n) ==
  LET p == SpecPolicy(n)
  IN [type    |-> SpecRuleType(p.rule),
      role    |-> IF p.roles = {"admin"} THEN ADMIN
                  ELSE IF p.roles = {"client"} THEN CLIENT ELSE ALL,
      percent |-> p.rule,
      sel     |-> {o \in ltrust : p.orgs = {} \/ o \in p.orgs}]

\* Once a refresh round has completed after the last configuration change
\* (a policy or a trust root), every ChainPolicy row the vote reads says
\* what the ledger's configuration says: the rule, the role and the
\* selected organisations, among the ledger's current trust roots.
PolicyMirrorsLedger ==
  fresh => \A n \in Governed : dbpolicy[ResourceNameMap[n]] = SpecRow(n)

\* Once a clean refresh round has completed after the last change of the
\* ledger's trust roots or nodes, every consensus node has a ChainOrgNode
\* row naming its organisation (the rows the configuration download reads):
\* loadNodeInfo runs after loadOrgInfo has inserted the node's organisation.
NodesMirrorLedger ==
  fresh => \A n \in lnodes : <<n, NodeOrg[n]>> \in dbnodes

\* Spec 3 and 4: a proposal has one ballot per organisation its policy
\* makes eligible (SELECTED), so only those organisations' approvals can
\* pass it.  SaveVote creates ballots from GetChainOrgList.
ApproversEligible ==
  \A p \in Proposals : req[p].pass \subseteq req[p].elig

=============================================================================
