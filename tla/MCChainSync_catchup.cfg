\* Subscriptions one at a time; SubscribeBlock succeeds; ParseBlockToDB may
\* fail; streams may close.
CONSTANTS
  c1 = c1  c2 = c2  r1 = r1  r2 = r2  r3 = r3
  Chains <- MCChains
  Requests <- MCTwoRequests
  MaxHeight = 2
  MaxPools = 2
  MaxRestarts = 1
  SerialRequests = TRUE
  SubscribeMayFail = FALSE
  StreamMayClose = TRUE
  ParseMayFail = TRUE
SPECIFICATION Spec
PROPERTY SubscribedChainCatchesUp
