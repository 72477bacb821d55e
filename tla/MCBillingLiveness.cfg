CONSTANTS
  Requests = {r1}
  Tokens = {t1}
  TokenOf <- OneToken
  Unlimited = {}
  Playground = {}
  ForcePreConsume = {}
  Realtime = {r1}
  Quotas = {0, 1, 2}
  ViolationFee = 1
  Preferences = {"subscription_only", "wallet_only", "wallet_first", "subscription_first"}
  TrustQuota = 1
  InitWallet = 2
  InitToken <- TwoEach
  SubTotal = 1
  AllowOverflow = TRUE
  Serialised = TRUE
  NestedCommits = FALSE
  FaultKinds = {"read", "token", "funds", "mark", "ack"}
  MaxFaults = 3
  MaxDirect = 1
SPECIFICATION FairSpec
PROPERTIES RefundEnds CallsReturn
CHECK_DEADLOCK FALSE
