CONSTANTS
  Requests = {r1}
  Tokens = {t1}
  TokenOf <- OneToken
  Unlimited = {}
  Playground = {}
  ForcePreConsume = {}
  Realtime = {}
  Quotas = {1, 2}
  ViolationFee = 1
  Preferences = {"wallet_first", "subscription_first"}
  TrustQuota = 1
  InitWallet = 2
  InitToken <- TwoEach
  SubTotal = 2
  AllowOverflow = TRUE
  Serialised = FALSE
  NestedCommits = TRUE
  FaultKinds = {"mark"}
  MaxFaults = 1
  MaxDirect = 0
SPECIFICATION Spec
INVARIANT NeverOverRefunded
CHECK_DEADLOCK FALSE
