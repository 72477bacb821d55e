CONSTANTS
  Orders = {o1}
  n1 = n1
  n2 = n2
  Nodes = {n1}
  Handlers = {h1, h2}
  Node <- OneNode
  Mutexes = {m1, m2}
  None = None
  Amount = 2
  Money = 3
  QuotaPerUnit = 5
  Strangers = {"creem"}
  AdminProviders <- AllButCreem
  MaxPurchasePerUser = 1
  MaxFaults = 1
  MaxCrashes = 1
SPECIFICATION FairSpec
INVARIANTS TypeOK OneInside GrantedOnce RowTellsGrant
PROPERTIES LedgerSpec PaidIsGranted
