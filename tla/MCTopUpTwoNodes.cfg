CONSTANTS
  Orders = {o1}
  n1 = n1
  n2 = n2
  Nodes = {n1, n2}
  Handlers = {h1, h2}
  Node <- OwnNodes
  Mutexes = {m1, m2}
  None = None
  Amount = 2
  Money = 3
  QuotaPerUnit = 5
  Strangers = {"stripe", "creem"}
  AdminProviders <- AllButCreem
  MaxPurchasePerUser = 1
  MaxFaults = 0
  MaxCrashes = 0
SPECIFICATION Spec
INVARIANTS GrantedOnce
