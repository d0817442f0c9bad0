# TLA+ models of the ChainMaker management backend

These modules model the governance and chain-mirroring core of the
management backend in `src/managementBackend` and `src/management-backend`
(together they are one Go program split across two trees). Every action
names, in `PROJECT.json` ("map"), the Go lines it translates.

## The system

- **Governance vote.** A proposal handler (contract install / upgrade /
  freeze / unfreeze / revoke, chain config and permission updates) calls
  `contract_management.SaveVote`. SaveVote draws a `multiId` with
  `rand.Int()` and inserts one `VoteManagement` row (a *ballot*) per
  organisation of the chain, one `db.CreateVote` at a time.
  `vote.VoteHandler.Handle` then records an organisation's answer:
  - it reads the row and refuses it if the row is completed or already voted;
  - it saves the row with `connection.DB.Save`;
  - it counts the multiId's approvals against `GetPassedVoteCnt(total, policy)`;
  - when enough approve, it marks every row completed
    (`SetMultiIdVotedCompleted`) and calls `multi_sign.MultiSignInvoke`.
- **Contract proposals.** The upgrade, freeze, unfreeze and revoke handlers
  refuse a contract that is VOTING or whose status does not allow the
  operation. Otherwise they call SaveVote and then set VOTING. The install
  handler refuses a name that already has a row. Otherwise it calls
  SaveVote and only then creates the row (`ContractInitStored`, VOTING).
- **Dispatch.** `MultiSignInvoke` selects a builder by vote type.
  - For freeze, unfreeze and revoke, `ContractFreezeModify`,
    `ContractUnfreezeModify` and `ContractRevokeModify` re-read the contract
    and check `CanFreeze`, `CanUnfreeze` or `CanRevoke`.
  - They then call `mgmtContract`, which signs with the approving
    organisations' certificates (`GetEndorsements`) and sends the
    transaction synchronously with a 10 s timeout.
  - Finally they write the OK or Failure status and
    `MultiSignStatus = NO_VOTING`.
  - For install and upgrade, `ContractInstallModify` calls `installContract`.
    It checks `CanInstall` or `CanUpgrade`, sends the transaction and checks
    both the response code and the contract result. Every failure,
    including a refused check, writes the Failure status with NO_VOTING.
- **Chain configuration and permissions.** `ModifyChainAuthHandler`
  (refusing a MAJORITY rule that names organisations or the client role)
  and `ModifyChainConfigHandler` open proposals of vote types
  PERMISSION_UPDATE and BLOCK_UPDATE. Once they pass,
  `ChainAuthModify` sends a permission update of one resource and
  `ChainConfigModify` a block update. The block update is skipped when the
  Chain row already holds the values (`equalChainConfigs`).
- **Policy store.** Every load period the refresh loop runs
  `LoadChainRefInfos`. First `loadOrgInfo` inserts a `ChainOrg` row for
  each of the ledger's trust roots; rows are never deleted. Later
  `loadChainInfo`, under the client's lock on its own, copies the ledger's
  block parameters into the Chain row. It then rewrites one `ChainPolicy`
  row per governed resource, plus its `ChainPolicyOrg` selections, from the
  ledger's `ResourcePolicies`. `addConfigPolicy` first appends MAJORITY/admin
  for each missing resource, then ALL/admin for the permission resource.
  The vote counts approvals against the row of its vote type.
- **Chain mirroring.** For each subscribed chain, `sync` runs two
  goroutines:
  - a refresh loop that re-reads orgs, nodes and policies;
  - a block listener that feeds `ParseBlockToDB` through a one-worker pool.

  A contract-management transaction with contract result 0 rewrites the
  contract row with the status its method implies and `NO_VOTING`.

- **Configuration download.** `DownloadChainConfigHandler.Handle` builds the
  chain's deployment tree in the process's working directory and serves it
  as a zip. `createBc` first removes `release/`. Then, for each node of
  the chain:
  - `removeBc` writes `bc1.yml` in the working directory and renames it into
    `release/<org>-<node>/config/<org>/chainconfig`;
  - `createChainmaker` does the same with `chainmaker.yml`;
  - `createBinAndLib` and `createCert` add the node's other files.

  `createChainmakerAndScript` then writes the start scripts and zips
  `release/` to `<chainId>.zip`. Handle reads the zip as the response body
  and finally removes it. Every error is only logged. All requests use the
  same paths.

These parts interact through the database rows they share:
- The proposal handlers and the dispatch both write the contract row.
- The ingestion of the ledger's own blocks writes it too.
- The vote requests of different users run concurrently on gin goroutines.

## Modules

| module | models | state ↔ code |
|---|---|---|
| `Governance` | SaveVote and VoteHandler.Handle | `ballot[m][o]` = VoteManagement row; `proposer`/`voter` = pc and locals of a request; `policy` = ChainPolicy row; `dispatched` = history of MultiSignInvoke calls |
| `VoteAbstract` | what the vote promises (spec 3, 4.4), no code | `abal[m][o]` = a ballot's answer (None / 0 / answer); `closed[m]`; `adisp` = dispatches; actions Open, Answer, Close, Dispatch; weak fairness on Close and Dispatch. Governance maps `ballot[m][o].result` to `abal`, "some row of m has VoteStatus 1" to `closed`, `dispatched` to `adisp` |
| `ContractGovernance` | EXTENDS Governance with the five lifecycle handlers, MultiSignInvoke → ContractInstallModify / installContract and Contract(Un)FreezeModify / ContractRevokeModify → mgmtContract, the ledger and ParseBlockToDB | `cstatus`/`cmulti` = Contract.ContractStatus (`absent` = no row) / MultiSignStatus; `opOf` = the proposal's Params; `tx` = the transaction a vote request sent; `lstate`, `chain` = the ledger; `ingested` = blocks stored |
| `ChainSync` | SubscribeChain, GetSdkClientPool, AddSdkClient, LoadChains, Load, blockListenStart, the one-worker Pool, a process restart | `global` = the package variable `sdkClientPool`; `poolMap[i]` = the keys of pool object i's `SdkClients`; `lst[r][c]` = the Load/listener goroutine of chain c started by request r, with its next height and the tasks in its Pool; `stored` = block rows; `dropped` = heights whose pool task failed in ParseBlockToDB and was dropped (a ghost of the error log); `noWork` = chain status NO_WORK; `height` = the ledger |
| `PolicyStore` | the Go maps of `sync/clients.go`, `addConfigPolicy`, the policy loop of `loadChainInfo`, `GetPassedVoteCnt` | pure operators; `LoadChainPolicies(rows, list, orgs)` folds the list over the rows as the loop does, a later entry of a resource replacing an earlier one |
| `ChainConfig` | EXTENDS PolicyStore with the two handlers, the vote abstracted to one tally, ChainAuthModify, ChainConfigModify, the ledger and the refresh loop | `lpolicy`/`lblock` = the ledger's configuration; `dbpolicy` = ChainPolicy rows with their SELECTED orgs; `dbblock` = the Chain row; `req[p]` = the proposal's phase, parameters and approvers, plus a ghost `elig` (its policy's SELECTED orgs when it was opened); `ltrust` = the ledger's trust roots; `dborgs` = ChainOrg rows (each proposal's `orgs` are its ballots); `lnodes` = the ledger's consensus nodes; `dbnodes` = ChainOrgNode rows `<<node, org>>`, `NoOrg` for an empty OrgId; `refresh` = the loader of `RefreshOrder` (org, node, chain) the loop runs next; `fresh` = a whole clean round has run since the ledger's policies, trust roots or nodes last changed; `roundClean` = since the round's first loader every loader succeeded and nothing of the ledger changed. A loader whose ledger query fails is its own action: it advances the round and leaves it unclean; a failed `GetChainInfo` other than "connections are busy" runs `chainAddNode` (`ChainAddNode`). |
| `ConfigDownload` | Handle, createBc, removeBc, createChainmaker, createBinAndLib, createCert, createChainmakerAndScript | `pc[r]`, `want[r]`, `idx[r]` = request r's position in Handle and its loops; `tmp` = the temp paths bc1.yml / chainmaker.yml, naming an inode; `fd[r]` = r's open file; `data` = inode contents, abstracted to the chain and node they were written for; `dirs`, `release`, `scripts` = the tree under release/; `zips` = `<chainId>.zip`; `resp` = the body sent; ghost `overlapped[r]` = another request was in flight during r |
| `MCGovernance`, `MCContractGovernance`, `MCChainSync`, `MCChainConfig`, `MCConfigDownload` | model values and small sets for TLC | |

Each database call is one atomic step. The Go code between two calls works on
values already read, so the steps of concurrent requests interleave at the
calls. `SerialRequests = TRUE` lets a request start only when every other has
returned (a single user). `FALSE` lets requests overlap, as gin serves them.
`CreateVoteMayFail`, `LedgerMayReject` and `RpcMayFail` switch the failure
paths the code has on or off.

## Runs

| run | result | what it shows |
|---|---|---|
| `gov_serial` | pass | With requests one at a time and CreateVote able to fail: no multiId is dispatched twice, no recorded vote changes, and a fully approved proposal is dispatched (liveness). The vote implements `VoteAbstract` (`VoteRefinement`): each request step is a step of the abstract vote or a stutter. SaveBallot is Answer, SetMultiIdVotedCompleted is Close, and MultiSignInvoke is Dispatch. A tally that counts rejections as approvals breaks it. |
| `gov_double_dispatch` | violation | Two concurrent votes that complete the quorum both pass the VoteStatus check and both dispatch (vote_service.go:46/104). The same check-then-act lets two concurrent votes on one ballot overwrite each other (vote_service.go:78); that is listed as a hazard, since no run slot is left for it. |
| `cg_failures` | pass | Every lifecycle operation runs, from an absent or an installed contract. SaveVote, the ledger and the RPC can all fail. The contract is VOTING only while a proposal for it is pending (`VotingHasProposal`). |
| `cg_ledger_reject` | violation | A rejected freeze is stored as FreezeOK: `mgmtContract` returns the nil `err` on a non-success code (contract_mgmt.go:370). With `RpcMayFail` instead, the same property fails the other way: a request that times out after the ledger froze the contract writes FreezeFailure over the FreezeOK the listener stored. |
| `cg_ingest_clears_voting` | violation | Ingesting an earlier block resets VOTING while a new proposal is open; a second proposal is accepted (resolver.go:145). |
| `cs_serial` | pass | Subscriptions one at a time, one restart, SubscribeBlock failing and streams closing: ParseBlockToDB may fail, and the failed block is logged and dropped (utils.go:19, clients.go:454). Every hole below a stored block is such a dropped block (`NoGap`): the max-1 resume after a restart and the single in-order worker leave none of their own. |
| `cs_catchup` | pass | With SubscribeBlock succeeding and ParseBlockToDB able to fail, every block of a subscribed chain below the ledger's height is eventually stored or dropped after a failed parse, unless its stream closed and marked it NO_WORK or the process restarted (liveness). |
| `cs_registry_race` | violation | Two first subscriptions both read a nil pool; the second pool replaces the first and the first chain is lost from the registry (sync.go:46). |
| `cs_hung_listener` | violation | A failed SubscribeBlock leaves the channel nil: the listener blocks for ever and the chain is neither mirrored nor marked NO_WORK (clients.go:415). |
| `cc_serial` | pass | The ledger can reject and requests can fail before or after it acts. A third organisation can join as a trust root. Ledger queries of the refresh loop can fail, and a node of the joining organisation can join. After a complete clean refresh round (`loadOrgInfo`, `loadNodeInfo`, then `loadChainInfo`), every policy row matches spec 4.3's reading of the ledger: its rule, role and SELECTED orgs among the current trust roots (`PolicyMirrorsLedger`). Loading the policies before the organisations breaks this. Every consensus node then has a ChainOrgNode row naming its organisation (`NodesMirrorLedger`); loading the nodes before the organisations breaks this, leaving a row with an empty OrgId. |
| `cd_lone` | pass | Two download requests are free to overlap. A download that no other overlapped answers with exactly its chain's node directories, each holding the files written for it, plus the scripts. This holds whatever earlier overlapping downloads left behind: a removed tree, a leftover `bc1.yml` that `os.Create` reuses. |
| `cc_ineligible_approver` | violation | A permission update restricts block updates to o2 and the rows are refreshed. A block update then passes on o1's approval: SaveVote makes ballots for every organisation of the chain, and the vote never reads the ChainPolicyOrg rows (common.go:98). |

With `CreateVoteMayFail` and `QuorumOfChainOrgs` (every dispatch carries the
approvals the policy requires of all the chain's organisations), Governance
also shows a partial proposal passing with one approval of three
organisations (common.go:115). That check is listed as a hazard; no run keeps
it. The same goes for two checks that would each need a run beyond the cap
of twelve, so both are listed as hazards:
- ChainSync shows a second subscription's LoadChains starting another
  listener for a chain already loaded (`OneListenerPerChain`,
  clients.go:474).
- ContractGovernance with `SerialRequests = FALSE` and one install proposal
  shows a vote passing between SaveVote and CreateContract
  (`VotingHasProposal`, 10 steps, install_contract.go:102). The dispatch
  finds no row, and the row is then created VOTING for good.
- With one install operation and partial SaveVote failures, a second install
  proposal is accepted. Its dispatch writes `ContractInitFailure` over an
  installed contract (`MirrorConsistent`, 23 steps).
- ContractGovernance's `VotingSettles`: a proposal rejected by every
  organisation leaves the contract VOTING for ever
  (freeze_contract.go:60). A unit test reaches it, so no run is kept.
- ConfigDownload, with `DownloadComplete`'s no-overlap premise dropped,
  shows the overlapping cases:
  - after 13 steps, a second request's `RemoveAll("release/")` deletes the
    first request's tree, which then answers 200 with an empty body;
  - after 15 steps, the second request's `os.Create("bc1.yml")` truncates
    the file the first is about to rename, and the first serves a zip with
    an empty genesis `bc1.yml`.
- ChainConfig, given a 60 % permission request, shows the row read back as
  MAJORITY (`PolicyMirrorsLedger`, clients.go:84). RuleMap has no key for
  the percentage string; spec.md:100 leaves that mapping open.

Each passing property has a mutant in `PROJECT.json`. A mutant is a
plausible bug in the mapped code (a dropped guard, an off-by-one, a swapped
status, a partial row save), and TLC finds the property violated under it.

## Bounds

- **Governance:** 3 organisations, 1 multiId, 1 proposer, 4 voters, and six
  policies (MAJORITY, ANY, ALL, FORBIDDEN, PERCENTAGE 60, unparsable
  PERCENTAGE). Four voters are enough for every organisation to vote and for
  one extra request to retry a row. Three organisations make MAJORITY (2),
  ALL (3) and 60 % (2) differ.
- **ContractGovernance:** 2 organisations and 3 proposers/multiIds (2 in the
  failures run). The failures run has all five operations and starts from
  either no contract row or an installed contract. Two proposals are enough
  for an install followed by any other operation. That is three successive proposals: the least needed for an
  ingested block to clear VOTING between two open ones. Policies are ANY and
  MAJORITY. It has 3 vote requests.
- **Liveness run:** one proposal.
- **ChainConfig:** 3 organisations, 2 of them trust roots at the start
  and one that may join. `cc_serial` has 1 proposal (17k states, a few seconds), since trust
  roots and nodes may change during the run; 2 proposals reached 1.9M
  states. Nodes: n1 of o1 is a consensus node from the start,
  and n3 of o3 may join once o3 is a trust root. A node of o2 would only
  repeat n1. The violation run
  has 3 proposals. There are 2 block parameter sets.
  - The ledger lists four resources: node id (not governed), freeze, block
    and permission.
  - Two genesis configurations: one with no entries, one with explicit
    entries (ANY of o1 for freeze, a two-role MAJORITY for permission).
  - Six permission requests: ALL/client, ANY of two orgs, FORBIDDEN with no
    role, an ungoverned type, a refused MAJORITY with orgs, and ANY of o2 for
    block updates.
  - Three proposals are enough for one update to change the permission
    entry, a refresh, and a second update to be voted on under the new row.
- **ChainSync:** 2 chains, 2 subscription requests, ledgers of 3 blocks
  (2 in `cs_catchup`, where a failing ParseBlockToDB multiplies the
  states), 2 pool objects and 1 restart. Two requests are enough for two first
  subscriptions to race, and for a subscription of the second chain to
  duplicate the first chain's listener. Three blocks give the max-1 resume
  something to skip.

- **ConfigDownload:** 2 chains, 2 organisations, 2 node names, 2
  requests. Chain c1 has one node in each organisation. Chain c2 reuses
  o2's node, so downloads of the two chains write the same directory, and
  a tree left by c1 would show up in c2's zip. Two requests are enough for
  every pairwise overlap of steps. A request serves one download, and the
  model stops once both have answered (`Terminated`).

Passing runs take under two minutes (59k to 356k distinct states).

In ChainConfig a proposal passes in one `Tally` step: some set of
organisations whose size meets `GetPassedVoteCnt` for the row read at that
moment. The ballot-level races are Governance's subject.

## Refinement

`VoteAbstract` states the vote without requests, rows or database calls.
`Governance` instances it under a mapping:
- the abstract answers are the VoteManagement rows' VoteResult;
- a proposal is closed once SetMultiIdVotedCompleted has run on it;
- the dispatches are the MultiSignInvoke history.

Its specification, fairness included, is the property `VoteRefinement` of
`gov_serial`. The refinement holds only with requests served one at a
time. With overlapping requests, `gov_double_dispatch` already shows a
second Dispatch of a closed proposal, which VoteAbstract forbids.

## Fairness

A request's goroutine, once started, keeps going: its database calls and the
ledger RPC return (weak fairness on every step after the start). The block
listener keeps ingesting, and the ledger node eventually executes what it was
sent. Starting a request is up to users and carries no fairness, so the
governance liveness properties only say what happens once every
organisation has voted.

ChainConfig and ConfigDownload check safety only and assume no fairness.

In ChainSync the steps of a subscription, of Load, of the listener and of
the pool's worker are weakly fair: they are goroutines that run once
started. The ledger's growth, stream closure, SubscribeBlock failure and
restarts are outside the program and carry no fairness.

## Not modelled (yet)

- `Contract.CanInstall`/`CanUpgrade`/`CanRevoke` are not in the repository.
  Spec 4.4 gives only the freeze row of the legality table. Upgrade and
  revoke are taken to be legal from the same running statuses as freeze,
  and install from `InitStored`/`InitFailure` (`CanDo`).
- The upgrade's runtime-type and version checks, the upload lookup
  (`ResolveUploadKey`, `GetUploadByIdAndUserIdAndHash`) and the method rows
  are data. The proposals are legal, and uploads exist.
- The error-log loader of the refresh round, which only reads monitoring
  data. `CreateChainOrg` and `CreateChainOrgNode` are in the `relation`
  package, which is not in the repository. They are modelled as adding a
  row and never changing one. `NodesMirrorLedger` asks only that the right
  row exists, so it means the same if they upsert.
- `chainAddNode` writing rows for nodes that are not on the chain
  (clients.go:272) is a hazard only: no run keeps a property against it.
- Trust-root removal: `loadOrgInfo` never deletes a ChainOrg row, so it
  is a hazard only.
- Failing database reads: a failing `GetChainOrgList`, which leaves every
  policy's selections empty, is a hazard only.
- The block parameters' values: a block update is one of two model values,
  and ChainConfigModify's fixed block size is not represented.
- In ConfigDownload:
  - the database reads are constant and succeed, so `createBc`'s logged
    error (a nil `nodeIdMap`, a zip without bc1.yml) is a hazard only;
  - file contents are abstracted to the chain and node they were written
    for, so the genesis consensus list, which keeps only the last
    consensus node of each organisation (download_chain_config.go:832), is
    a hazard only;
  - `utils.Zip` is not in the repository. When `release/` has vanished, the
    model lets it leave either the old zip or an empty one;
  - the certificate temp files and the monitor's `cmlogagentd` are not
    modelled.
- Whether `InsertBlockAndTx` deduplicates a re-ingested block: it is not in
  the repository, and blocks are modelled as a set of stored heights.

The hazards they carry are listed in `PROJECT.json`, each with the property
that catches it or a note on why none does. CA and certificate handling, explorer and list queries and the shard
launcher are I/O or read-only queries and are left out.

Contract invoke (`contract_invoke/invoke.go`) has real hazards, all listed
in `PROJECT.json`:
- two concurrent re-invokes of one failed record both send it;
- a retry after a timeout executes the method twice;
- a re-invoke drops the parameters;
- a re-invoke dereferences a nil client;
- an EVM invoke with no ABI key answers with an error and still sends the
  invocation.

It is left out for now. A faithful module needs a passing run of its own,
and every run slot holds either a confirmed finding or the passing run of
a modelled component.

Chain registration and deletion (`add_chain.go`, `delete_chain.go`) are left
out for two reasons:
- AddChain checks for the chain, then inserts its Chain, ChainOrg and
  ChainOrgNode rows one call at a time. What two concurrent adds, a failed
  add or a delete leave behind depends on database constraints and on
  `dbchain.DeleteChain`, neither of which is in the repository.
- A model of it would only produce violations against the rows that
  ConfigDownload and ChainConfig read.

Its check-then-insert and its partial failure are listed as hazards.

`updateChainConfig` (resolver.go:244) is not modelled. When a block with a
CHAIN_CONFIG transaction is ingested, it stores the configuration the ledger
holds now (`GetChainConfig`), not the one at that block's height. The only
reader is the log reporter's `GetLastChainConfigRecord`. A record matches its
height only when the listener is level with the ledger. The property a model
would check fails whenever the listener lags, and anything weaker only says
that the ledger grows. It is listed as a hazard.

The rest of the unmapped code has no state for a model to track:
- request and response types and their `IsLegal` checks (the models take
  legal requests);
- read-only list and detail handlers;
- certificate generation and import (cryptography and file I/O);
- SDK client configuration (`booter.go`);
- the log reporter;
- ABI encoding.

`SubscribeChain`'s `NewSdkClientPool` branch is dead code:
`GetSdkClientPool` never returns nil.

## Plan

1. `Governance`, then `ContractGovernance` (done).
2. `ChainSync` (done): client registry, LoadChains, listener with worker
   pool and resume height, restart.
3. `PolicyStore` and `ChainConfig` (done).
4. Contract install, upgrade and revoke in ContractGovernance (done).
5. `VoteAbstract`, refined by `Governance` with `SerialRequests` (done).
6. The node loader of the refresh round, its `chainAddNode` fallback and
   the loaders' failure paths in `ChainConfig` (done).
