CONSTANTS
  Requests = {r1, r2}
  Tokens = {t1}
  TokenOf <- OneToken
  Unlimited = {}
  Playground = {r2}
  ForcePreConsume = {r2}
  Realtime = {}
  Quotas = {0, 1, 2}
  ViolationFee = 0
  Preferences = {"wallet_first", "subscription_first"}
  TrustQuota = 1
  InitWallet = 2
  InitToken <- TwoEach
  SubTotal = 2
  AllowOverflow = TRUE
  Serialised = TRUE
  NestedCommits = TRUE
  FaultKinds = {"read", "token", "funds", "ack"}
  MaxFaults = 2
  MaxDirect = 0
SPECIFICATION Spec
INVARIANTS TypeOK SettledNet FailedPaysNothing WalletAddsUp NeverOverRefunded SubscriptionAddsUp
PROPERTIES SettledIsFinal OverdraftNeedsRace
CHECK_DEADLOCK FALSE
