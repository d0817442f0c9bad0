\* Every operation, from an absent or an installed contract; SaveVote,
\* the ledger and the RPC can all fail.
CONSTANTS
  o1 = o1  o2 = o2  m1 = m1  m2 = m2  m3 = m3
  p1 = p1  p2 = p2  p3 = p3  v1 = v1  v2 = v2  v3 = v3
  None = None
  ChainOrgList <- MCChainOrgList
  MultiIds <- MCTwoMultiIds
  Proposers <- MCTwoProposers
  Voters <- MCVoters
  Policies <- MCPolicies
  VoteResults = {1, 2}
  Ops = {"INSTALL", "UPGRADE", "FREEZE", "UNFREEZE", "REVOKE"}
  InitStatuses = {"absent", "InitOK"}
  SerialRequests = TRUE
  CreateVoteMayFail = TRUE
  LedgerMayReject = TRUE
  RpcMayFail = TRUE
INIT CInit
NEXT CNext
INVARIANT CTypeOK
INVARIANT VotingHasProposal
