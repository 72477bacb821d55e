CONSTANTS
  Tasks = {t1}
  Pollers = {p1, p2}
  Clients = {}
  Suno = {}
  Gemini = {}
  Pipeline = {t1}
  Erratic = {t1}
  NoUpstreamId = {}
  LostChannel = {}
  SubmitTime <- Recent
  Timeouts = TRUE
  Quotas = {1, 2}
  FaultKinds = {"insert", "update", "ack", "funds", "token"}
  MaxFaults = 1
  MaxCrashes = 1
  MaxUndone = 0
SPECIFICATION Spec
INVARIANTS TypeOK EndedIsBilled RefundedAtMostOnce
PROPERTY EndIsFinal
CHECK_DEADLOCK FALSE
