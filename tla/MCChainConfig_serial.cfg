\* Named rules only; the ledger can reject and the request can fail.
CONSTANTS
  o1 = o1  o2 = o2  o3 = o3  p1 = p1  p2 = p2  p3 = p3  b1 = b1  b2 = b2
  None = None  NoOrg = NoOrg  n1 = n1  n3 = n3
  ChainNodes <- MCChainNodes
  NodeOrg <- MCNodeOrg
  InitNodes <- MCInitNodes
  ChainOrgs <- MCChainOrgs
  InitOrgs <- MCInitOrgs
  Proposals <- MCOneProposal
  BlockParams <- MCBlockParams
  InitBlock = b1
  LedgerOrder <- MCLedgerOrder
  InitLedgers <- MCInitLedgers
  AuthParams <- MCAuthParams
  LedgerMayReject = TRUE
  RpcMayFail = TRUE
SPECIFICATION Spec
INVARIANT TypeOK
INVARIANT PolicyMirrorsLedger
INVARIANT NodesMirrorLedger
