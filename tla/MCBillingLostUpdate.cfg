CONSTANTS
  Requests = {r1, r2}
  Tokens = {t1}
  TokenOf <- OneToken
  Unlimited = {}
  Playground = {}
  ForcePreConsume = {}
  Realtime = {}
  Quotas = {1}
  ViolationFee = 0
  Preferences = {"subscription_only"}
  TrustQuota = 1
  InitWallet = 2
  InitToken <- TwoEach
  SubTotal = 2
  AllowOverflow = TRUE
  Serialised = FALSE
  NestedCommits = TRUE
  FaultKinds = {}
  MaxFaults = 0
  MaxDirect = 0
SPECIFICATION Spec
INVARIANT SubscriptionAddsUp
CHECK_DEADLOCK FALSE
