\* Two subscriptions run at once, the first ones of the process.
CONSTANTS
  c1 = c1  c2 = c2  r1 = r1  r2 = r2  r3 = r3
  Chains <- MCChains
  Requests <- MCTwoRequests
  MaxHeight = 3
  MaxPools = 2
  MaxRestarts = 1
  SerialRequests = FALSE
  SubscribeMayFail = FALSE
  StreamMayClose = TRUE
  ParseMayFail = FALSE
INIT Init
NEXT Next
INVARIANT RegistryKeepsSubscribed
