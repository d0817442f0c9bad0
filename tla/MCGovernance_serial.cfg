\* Requests arrive one after another; db.CreateVote may fail.
CONSTANTS
  o1 = o1  o2 = o2  o3 = o3  m1 = m1  p1 = p1
  v1 = v1  v2 = v2  v3 = v3  v4 = v4
  None = None
  ChainOrgList <- MCChainOrgList
  MultiIds <- MCMultiIds
  Proposers <- MCProposers
  Voters <- MCVoters
  Policies <- MCPolicies
  VoteResults = {1, 2}
  SerialRequests = TRUE
  CreateVoteMayFail = TRUE
SPECIFICATION Spec
INVARIANT TypeOK
INVARIANT AtMostOneDispatch
PROPERTY PassedProposalDispatched
PROPERTY VoteRefinement
