CONSTANTS
  Tasks = {t1}
  Pollers = {p1, p2}
  Clients = {c1}
  Suno = {}
  Gemini = {t1}
  Pipeline = {}
  Erratic = {t1}
  NoUpstreamId = {}
  LostChannel = {}
  SubmitTime <- Recent
  Timeouts = TRUE
  Quotas = {1, 2}
  FaultKinds = {}
  MaxFaults = 0
  MaxCrashes = 0
  MaxUndone = 1
SPECIFICATION Spec
INVARIANTS OneRefundPerEnd
PROPERTIES EndOutlastsStaleReads
CHECK_DEADLOCK FALSE
