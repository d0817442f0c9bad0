-------------------------- MODULE ContractGovernance --------------------------
(***************************************************************************)
(* The contract lifecycle workflow: the proposal handlers of              *)
(* contract_management (install, upgrade, freeze, unfreeze, revoke) wrap   *)
(* SaveVote, the vote of Governance decides, and the vote request that     *)
(* passes the tally runs multi_sign.ContractInstallModify (install,        *)
(* upgrade) or ContractFreezeModify / ContractUnfreezeModify /             *)
(* ContractRevokeModify: it re-reads the contract, sends the payload to    *)
(* the ledger (SendContractManageRequest, 10 s timeout, synchronous) and   *)
(* writes the contract's new status.  Independently the block listener     *)
(* ingests the ledger's blocks (sync.ParseBlockToDB) and writes the        *)
(* status a successful contract-management transaction implies.           *)
(*                                                                         *)
(* The ledger is the external collaborator: it executes a submitted       *)
(* transaction once, succeeding only when the operation is legal in the    *)
(* contract's ledger state (and, with LedgerMayReject, failing for reasons *)
(* outside this model, such as an endorsement policy not met).             *)
(***************************************************************************)
EXTENDS Governance

CONSTANTS
  Ops,               \* contract-management operations proposed
  InitStatuses,      \* the contract row at start: "absent" or "InitOK"
  LedgerMayReject,   \* TRUE: a legal transaction can still fail on the ledger
  RpcMayFail         \* TRUE: SendContractManageRequest can return an error
                     \*       (timeout, busy connection) whatever the ledger did

ASSUME Ops \subseteq {"INSTALL", "UPGRADE", "FREEZE", "UNFREEZE", "REVOKE"}
ASSUME InitStatuses \subseteq {"absent", "InitOK"}

\* Operations sent by installContract, and by mgmtContract.
InstallOps == {"INSTALL", "UPGRADE"}
MgmtOps == {"FREEZE", "UNFREEZE", "REVOKE"}
ASSUME LedgerMayReject \in BOOLEAN /\ RpcMayFail \in BOOLEAN

(***************************************************************************)
(* dbcommon.ContractStatus values the workflow reads and writes, and the   *)
(* lifecycle legality of Contract.CanInstall / CanUpgrade / CanFreeze /    *)
(* CanUnfreeze / CanRevoke.  "absent": no Contract row of that name.       *)
(***************************************************************************)
Statuses == {"absent", "InitStored", "InitOK", "InitFailure", "UpgradeOK", "UpgradeFailure",
             "FreezeOK", "FreezeFailure", "UnfreezeOK", "UnfreezeFailure",
             "RevokeOK", "RevokeFailure"}

\* Install from a stored or failed install; unfreeze from a frozen contract;
\* upgrade, freeze and revoke from a running one (spec 4.4 names the freeze
\* row of the table; the others follow the same reading).
CanDo(op, status) ==
  CASE op = "INSTALL"  -> status \in {"InitStored", "InitFailure"}
    [] op = "UNFREEZE" -> status = "FreezeOK"
    [] OTHER           -> status \in {"InitOK", "UpgradeOK", "UnfreezeOK"}

OkStatus(op) ==
  ("INSTALL" :> "InitOK" @@ "UPGRADE" :> "UpgradeOK" @@ "FREEZE" :> "FreezeOK"
   @@ "UNFREEZE" :> "UnfreezeOK" @@ "REVOKE" :> "RevokeOK")[op]

FailureStatus(op) ==
  ("INSTALL" :> "InitFailure" @@ "UPGRADE" :> "UpgradeFailure" @@ "FREEZE" :> "FreezeFailure"
   @@ "UNFREEZE" :> "UnfreezeFailure" @@ "REVOKE" :> "RevokeFailure")[op]

\* The ledger's own view of the contract: "none" before it is installed.
LedgerLegal(op, state) ==
  CASE op = "INSTALL"  -> state = "none"
    [] op = "UNFREEZE" -> state = "frozen"
    [] OTHER           -> state = "active"

LedgerAfter(op) ==
  CASE op = "FREEZE" -> "frozen"
    [] op = "REVOKE" -> "revoked"
    [] OTHER         -> "active"

\* The ledger state a database status stands for.
StatusImplies(s) ==
  CASE s \in {"FreezeOK", "UnfreezeFailure"}           -> "frozen"
    [] s = "RevokeOK"                                  -> "revoked"
    [] s \in {"absent", "InitStored", "InitFailure"}   -> "none"
    [] OTHER                                           -> "active"

VARIABLES
  cstatus,     \* Contract.ContractStatus in the database
  cmulti,      \* Contract.MultiSignStatus in the database: "VOTING" or "NO_VOTING"
  opOf,        \* opOf[m]: the operation proposal m asks for (its Params)
  cprop,       \* phase of each proposal handler around SaveVote
  dphase,      \* phase of each vote request inside MultiSignInvoke
  tx,          \* tx[v]: the transaction vote request v sent to the ledger
  lstate,      \* the contract's state on the ledger: "active" or "frozen"
  chain,       \* the ledger's blocks, one contract-management transaction each
  ingested     \* number of blocks ParseBlockToDB has stored

cvars == <<cstatus, cmulti, opOf, cprop, dphase, tx, lstate, chain, ingested>>

allvars == <<vars, cvars>>

TxRec == [st : {"none", "pending", "committed"}, op : Ops \union {None}, ok : BOOLEAN]

CTypeOK ==
  /\ TypeOK
  /\ cstatus \in Statuses
  /\ cmulti \in {"VOTING", "NO_VOTING"}
  /\ opOf \in [MultiIds -> Ops \union {None}]
  /\ cprop \in [Proposers -> {"idle", "saving", "done"}]
  /\ dphase \in [Voters -> {"none", "send", "await"}]
  /\ tx \in [Voters -> TxRec]
  /\ lstate \in {"none", "active", "frozen", "revoked"}
  /\ chain \in Seq([op : Ops, ok : BOOLEAN])
  /\ ingested \in 0..Len(chain)

CInit ==
  /\ Init
  /\ cstatus \in InitStatuses
  /\ cmulti = "NO_VOTING"
  /\ opOf = [m \in MultiIds |-> None]
  /\ cprop = [p \in Proposers |-> "idle"]
  /\ dphase = [v \in Voters |-> "none"]
  /\ tx = [v \in Voters |-> [st |-> "none", op |-> None, ok |-> FALSE]]
  /\ lstate = StatusImplies(cstatus)
  /\ chain = << >>
  /\ ingested = 0

\* No handler is between two of its calls, the SaveVote wrapper included.
CCanStart == SerialRequests => \A p \in Proposers : cprop[p] # "saving"

(***************************************************************************)
(* Upgrade / Freeze / UnFreeze / Revoke ContractHandler.Handle, and       *)
(* InstallContractHandler.Handle.  The parameters proposed are legal       *)
(* (runtime type and a new version for an upgrade).                       *)
(***************************************************************************)
\* GetContractByName; MultiSignStatus is not VOTING and the lifecycle allows
\* the operation: SaveVote runs.
ProposeContractOp(p, m, op) ==
  /\ op # "INSTALL"
  /\ cprop[p] = "idle"
  /\ CCanStart
  /\ cmulti = "NO_VOTING"
  /\ CanDo(op, cstatus)
  /\ StartSaveVote(p, m)
  /\ opOf' = [opOf EXCEPT ![m] = op]
  /\ cprop' = [cprop EXCEPT ![p] = "saving"]
  /\ UNCHANGED <<cstatus, cmulti, dphase, tx, lstate, chain, ingested>>

\* Install: GetContractByName finds no row, SaveVote runs; the row is
\* created only after SaveVote returns.
ProposeInstall(p, m) ==
  /\ "INSTALL" \in Ops
  /\ cprop[p] = "idle"
  /\ CCanStart
  /\ cstatus = "absent"
  /\ StartSaveVote(p, m)
  /\ opOf' = [opOf EXCEPT ![m] = "INSTALL"]
  /\ cprop' = [cprop EXCEPT ![p] = "saving"]
  /\ UNCHANGED <<cstatus, cmulti, dphase, tx, lstate, chain, ingested>>

\* ErrorContractExist (install); ErrorGetContract, ErrorContractBeingVoting
\* or ErrorContractCanNot... (the others).
Refused(op) ==
  IF op = "INSTALL" THEN cstatus # "absent"
  ELSE cmulti = "VOTING" \/ ~CanDo(op, cstatus)

ProposalRefused(p, op) ==
  /\ cprop[p] = "idle"
  /\ proposer[p].pc = "idle"
  /\ CanStart /\ CCanStart
  /\ Refused(op)
  /\ cprop' = [cprop EXCEPT ![p] = "done"]
  /\ proposer' = [proposer EXCEPT ![p].pc = "done"]
  /\ UNCHANGED <<ballot, policy, used, voter, dispatched>>
  /\ UNCHANGED <<cstatus, cmulti, opOf, dphase, tx, lstate, chain, ingested>>

\* SaveVote returned nil: UpdateMultiSignStatus(VOTING).
UpdateMultiSignStatus(p) ==
  /\ cprop[p] = "saving"
  /\ proposer[p].pc = "done"
  /\ proposer[p].k = Len(ChainOrgList) + 1
  /\ opOf[proposer[p].m] # "INSTALL"
  /\ cmulti' = "VOTING"
  /\ cprop' = [cprop EXCEPT ![p] = "done"]
  /\ UNCHANGED vars
  /\ UNCHANGED <<cstatus, opOf, dphase, tx, lstate, chain, ingested>>

\* Install, SaveVote returned nil: CreateContract stores the row as
\* ContractInitStored with MultiSignStatus PROCESSING (VOTING).  It writes
\* whatever the vote has done since SaveVote.
CreateContract(p) ==
  /\ cprop[p] = "saving"
  /\ proposer[p].pc = "done"
  /\ proposer[p].k = Len(ChainOrgList) + 1
  /\ opOf[proposer[p].m] = "INSTALL"
  /\ cstatus' = "InitStored"
  /\ cmulti' = "VOTING"
  /\ cprop' = [cprop EXCEPT ![p] = "done"]
  /\ UNCHANGED vars
  /\ UNCHANGED <<opOf, dphase, tx, lstate, chain, ingested>>

\* SaveVote returned an error: the handler returns it.
SaveVoteFailed(p) ==
  /\ cprop[p] = "saving"
  /\ proposer[p].pc = "done"
  /\ proposer[p].k <= Len(ChainOrgList)
  /\ cprop' = [cprop EXCEPT ![p] = "done"]
  /\ UNCHANGED vars
  /\ UNCHANGED <<cstatus, cmulti, opOf, dphase, tx, lstate, chain, ingested>>

(***************************************************************************)
(* MultiSignInvoke -> ContractInstallModify / ContractFreezeModify /      *)
(* ContractUnfreezeModify / ContractRevokeModify.                          *)
(***************************************************************************)
DispatchOp(v) == opOf[voter[v].m]

InvokeCalled(v) ==
  dispatched' = Append(dispatched, [m |-> voter[v].m, orgs |-> voter[v].pass])

\* GetContractByName and the Can... check pass: installContract or
\* mgmtContract builds and signs the payload.
ModifyChecked(v) ==
  /\ voter[v].pc = "invoke"
  /\ dphase[v] = "none"
  /\ CanDo(DispatchOp(v), cstatus)
  /\ InvokeCalled(v)
  /\ dphase' = [dphase EXCEPT ![v] = "send"]
  /\ UNCHANGED <<ballot, policy, used, proposer, voter>>
  /\ UNCHANGED <<cstatus, cmulti, opOf, cprop, tx, lstate, chain, ingested>>

\* Freeze, unfreeze, revoke: no row, or "contract cann't freeze": the error
\* is returned, no status is written.
ModifyRefused(v) ==
  /\ voter[v].pc = "invoke"
  /\ dphase[v] = "none"
  /\ DispatchOp(v) \in MgmtOps
  /\ ~CanDo(DispatchOp(v), cstatus)
  /\ InvokeCalled(v)
  /\ voter' = SetPc(v, "done")
  /\ UNCHANGED <<ballot, policy, used, proposer>>
  /\ UNCHANGED cvars

\* Install, upgrade: GetContractByName finds no row; the error is returned.
InstallNoContract(v) ==
  /\ voter[v].pc = "invoke"
  /\ dphase[v] = "none"
  /\ DispatchOp(v) \in InstallOps
  /\ cstatus = "absent"
  /\ InvokeCalled(v)
  /\ voter' = SetPc(v, "done")
  /\ UNCHANGED <<ballot, policy, used, proposer>>
  /\ UNCHANGED cvars

\* Install, upgrade: installContract finds CanInstall / CanUpgrade false and
\* returns an error; ContractInstallModify writes the failure status.
InstallRefused(v) ==
  /\ voter[v].pc = "invoke"
  /\ dphase[v] = "none"
  /\ DispatchOp(v) \in InstallOps
  /\ cstatus # "absent"
  /\ ~CanDo(DispatchOp(v), cstatus)
  /\ InvokeCalled(v)
  /\ cstatus' = FailureStatus(DispatchOp(v))
  /\ cmulti' = "NO_VOTING"
  /\ voter' = SetPc(v, "done")
  /\ UNCHANGED <<ballot, policy, used, proposer>>
  /\ UNCHANGED <<opOf, cprop, dphase, tx, lstate, chain, ingested>>

\* SendContractManageRequest hands the transaction to the ledger node.
SendContractManageRequest(v) ==
  /\ dphase[v] = "send"
  /\ tx' = [tx EXCEPT ![v] = [st |-> "pending", op |-> DispatchOp(v), ok |-> FALSE]]
  /\ dphase' = [dphase EXCEPT ![v] = "await"]
  /\ UNCHANGED vars
  /\ UNCHANGED <<cstatus, cmulti, opOf, cprop, lstate, chain, ingested>>

\* The status a returned response leads to: installContract fails on a
\* non-success code or contract result; mgmtContract returns its `err`, nil
\* here, whether resp.Code is SUCCESS or not.
ResultStatus(op, ok) ==
  IF op \in InstallOps /\ ~ok THEN FailureStatus(op) ELSE OkStatus(op)

\* Mutant: the success path writes the status and leaves MultiSignStatus.
ResponseReceivedKeepsVoting(v) ==
  /\ dphase[v] = "await"
  /\ tx[v].st = "committed"
  /\ cstatus' = ResultStatus(tx[v].op, tx[v].ok)
  /\ dphase' = [dphase EXCEPT ![v] = "none"]
  /\ voter' = SetPc(v, "done")
  /\ UNCHANGED <<ballot, policy, used, proposer, dispatched>>
  /\ UNCHANGED <<cmulti, opOf, cprop, tx, lstate, chain, ingested>>

\* The synchronous request returns the committed result; the caller writes
\* the status with NO_VOTING.
ResponseReceived(v) ==
  /\ dphase[v] = "await"
  /\ tx[v].st = "committed"
  /\ cstatus' = ResultStatus(tx[v].op, tx[v].ok)
  /\ cmulti' = "NO_VOTING"
  /\ dphase' = [dphase EXCEPT ![v] = "none"]
  /\ voter' = SetPc(v, "done")
  /\ UNCHANGED <<ballot, policy, used, proposer, dispatched>>
  /\ UNCHANGED <<opOf, cprop, tx, lstate, chain, ingested>>

\* The request returns an error (timeout after TxHandleTimeout, transport
\* error) whether or not the ledger has executed the transaction: the
\* failure status is written with NO_VOTING.
RequestFailed(v) ==
  /\ RpcMayFail
  /\ dphase[v] = "await"
  /\ cstatus' = FailureStatus(tx[v].op)
  /\ cmulti' = "NO_VOTING"
  /\ dphase' = [dphase EXCEPT ![v] = "none"]
  /\ voter' = SetPc(v, "done")
  /\ UNCHANGED <<ballot, policy, used, proposer, dispatched>>
  /\ UNCHANGED <<opOf, cprop, tx, lstate, chain, ingested>>

(***************************************************************************)
(* The ledger and the block listener.                                      *)
(***************************************************************************)
\* The ledger executes a pending transaction and appends it to a block.
LedgerCommit(v) ==
  LET op == tx[v].op
      legal == LedgerLegal(op, lstate)
  IN /\ tx[v].st = "pending"
     /\ \E ok \in IF legal /\ LedgerMayReject THEN BOOLEAN ELSE {legal} :
          /\ tx' = [tx EXCEPT ![v].st = "committed", ![v].ok = ok]
          /\ chain' = Append(chain, [op |-> op, ok |-> ok])
          /\ lstate' = IF ok THEN LedgerAfter(op) ELSE lstate
     /\ UNCHANGED vars
     /\ UNCHANGED <<cstatus, cmulti, opOf, cprop, dphase, ingested>>

\* Variant: the listener's next height skips a block.
ParseBlockToDBSkips ==
  LET b == chain[ingested + 1]
  IN /\ ingested < Len(chain)
     /\ ingested' = ingested + 2
     /\ cstatus' = IF b.ok THEN OkStatus(b.op) ELSE cstatus
     /\ cmulti' = IF b.ok THEN "NO_VOTING" ELSE cmulti
     /\ UNCHANGED vars
     /\ UNCHANGED <<opOf, cprop, dphase, tx, lstate, chain>>

\* ParseBlockToDB of the next block: a contract-management transaction whose
\* contract result code is 0 stores the contract with getContractStatus of
\* its method and MultiSignStatus NO_VOTING; a failed one stores none.
ParseBlockToDB ==
  LET b == chain[ingested + 1]
  IN /\ ingested < Len(chain)
     /\ ingested' = ingested + 1
     /\ cstatus' = IF b.ok THEN OkStatus(b.op) ELSE cstatus
     /\ cmulti' = IF b.ok THEN "NO_VOTING" ELSE cmulti
     /\ UNCHANGED vars
     /\ UNCHANGED <<opOf, cprop, dphase, tx, lstate, chain>>

(***************************************************************************)
(* Governance steps, with the contract state left alone.  A vote request   *)
(* in serial mode also waits for the SaveVote wrappers.                    *)
(***************************************************************************)
VoteStep ==
  \/ \E p \in Proposers : CreateVote(p) \/ CreateVoteFails(p)
  \/ \E v \in Voters, m \in MultiIds, o \in Orgs :
        /\ CCanStart
        /\ \/ VoteRefused(v, m, o)
           \/ \E val \in VoteResults : ReadVote(v, m, o, val)
  \/ \E v \in Voters :
        SaveBallot(v) \/ TallyPasses(v) \/ TallyStops(v) \/ SetMultiIdVotedCompleted(v)

\* One step of the Contract...Modify the proposal's operation selects: the
\* Can... check, mgmtContract or installContract, the status with NO_VOTING.
DispatchStep(v) ==
  \/ ModifyChecked(v) \/ ModifyRefused(v) \/ InstallNoContract(v) \/ InstallRefused(v)
  \/ SendContractManageRequest(v) \/ ResponseReceived(v) \/ RequestFailed(v)

CIdle ==
  /\ AllReturned
  /\ \A p \in Proposers : cprop[p] # "saving"
  /\ UNCHANGED allvars

CNext ==
  \/ VoteStep /\ UNCHANGED cvars
  \/ \E p \in Proposers, m \in MultiIds, op \in Ops : ProposeContractOp(p, m, op)
  \/ \E p \in Proposers, m \in MultiIds : ProposeInstall(p, m)
  \/ \E p \in Proposers, op \in Ops : ProposalRefused(p, op)
  \/ \E p \in Proposers : UpdateMultiSignStatus(p) \/ CreateContract(p) \/ SaveVoteFailed(p)
  \/ \E v \in Voters : DispatchStep(v) \/ LedgerCommit(v)
  \/ ParseBlockToDB
  \/ CIdle

(***************************************************************************)
(* Request goroutines and the listener keep running; the ledger node       *)
(* eventually executes what it was sent.                                   *)
(***************************************************************************)
CFairness ==
  /\ \A p \in Proposers : WF_allvars(CreateVote(p) /\ UNCHANGED cvars)
  /\ \A p \in Proposers : WF_allvars(UpdateMultiSignStatus(p) \/ CreateContract(p)
                                            \/ SaveVoteFailed(p))
  /\ \A v \in Voters :
        WF_allvars((SaveBallot(v) \/ TallyPasses(v) \/ TallyStops(v)
                    \/ SetMultiIdVotedCompleted(v)) /\ UNCHANGED cvars)
  /\ \A v \in Voters : WF_allvars(DispatchStep(v)) /\ WF_allvars(LedgerCommit(v))
  /\ WF_allvars(ParseBlockToDB)

CSpec == CInit /\ [][CNext]_allvars /\ CFairness

(***************************************************************************)
(* Properties.                                                             *)
(***************************************************************************)
\* Nothing is in flight: no transaction awaits the ledger, no request awaits
\* its response, every block is stored.
Quiescent ==
  /\ \A v \in Voters : tx[v].st # "pending" /\ voter[v].pc # "invoke"
  /\ ingested = Len(chain)

\* Once the dispatches have returned and the listener has caught up, the
\* contract status in the database says what the ledger did: the status
\* ContractFreezeModify / ContractUnfreezeModify write from the response
\* and the one ParseBlockToDB writes from the block agree with the ledger.
MirrorConsistent == Quiescent => StatusImplies(cstatus) = lstate

\* Proposals for the contract that were created and never dispatched.
OpenProposals == {m \in used : opOf[m] # None /\ Dispatches(m) = {}}

\* MultiSignStatus VOTING lets at most one proposal for the contract wait
\* for votes: the handlers refuse a new one while it is set.
AtMostOneOpenProposal == Cardinality(OpenProposals) <= 1

\* Proposals created and not yet dispatched, or whose dispatch has not
\* returned.
PendingProposals ==
  {m \in used : /\ opOf[m] # None
                /\ \/ Dispatches(m) = {}
                   \/ \E v \in Voters : voter[v].m = m /\ voter[v].pc = "invoke"}

\* MultiSignStatus VOTING, which blocks every new proposal for the
\* contract, is only ever set while a proposal for it is pending: the
\* handler sets it after SaveVote, and every dispatch path that returns
\* clears it or leaves it to a proposal still to come.
VotingHasProposal == cmulti = "VOTING" => PendingProposals # {}

\* Every organisation has answered proposal m.
AllAnswered(m) ==
  /\ Proposed(m)
  /\ Ballots(m) # {}
  /\ \A o \in Ballots(m) : ballot[m][o].result # 0

\* Once every organisation has answered the proposal the contract is voting
\* on, the contract leaves VOTING, whatever the answers were.
VotingSettles ==
  \A m \in MultiIds :
     (cmulti = "VOTING" /\ m \in OpenProposals /\ AllAnswered(m)) ~> cmulti = "NO_VOTING"

=============================================================================
