\* A legal transaction can fail on the ledger.
CONSTANTS
  o1 = o1  o2 = o2  m1 = m1  m2 = m2  m3 = m3
  p1 = p1  p2 = p2  p3 = p3  v1 = v1  v2 = v2  v3 = v3
  None = None
  ChainOrgList <- MCChainOrgList
  MultiIds <- MCMultiIds
  Proposers <- MCProposers
  Voters <- MCVoters
  Policies <- MCPolicies
  VoteResults = {1, 2}
  Ops = {"FREEZE", "UNFREEZE"}
  InitStatuses = {"InitOK"}
  SerialRequests = TRUE
  CreateVoteMayFail = FALSE
  LedgerMayReject = TRUE
  RpcMayFail = FALSE
INIT CInit
NEXT CNext
INVARIANT MirrorConsistent
