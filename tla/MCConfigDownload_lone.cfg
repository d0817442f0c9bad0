\* Two requests, each downloading either chain, free to overlap.
CONSTANTS
  c1 = c1  c2 = c2  o1 = o1  o2 = o2  n1 = n1  n2 = n2  r1 = r1  r2 = r2
  Chains = {c1, c2}
  Orgs = {o1, o2}
  NodeNames = {n1, n2}
  Requests = {r1, r2}
  ChainNodes <- MCChainNodes
  None = None
  Empty = Empty
SPECIFICATION Spec
INVARIANT DownloadComplete
