CONSTANTS
  Tasks = {s1, n1, v1}
  Pollers = {p1}
  Clients = {}
  Suno = {s1}
  Gemini = {}
  Pipeline = {}
  Erratic = {s1, n1}
  NoUpstreamId = {n1}
  LostChannel = {v1}
  SubmitTime <- OneLegacy
  Timeouts = TRUE
  Quotas = {1}
  FaultKinds = {"bulk"}
  MaxFaults = 1
  MaxCrashes = 0
  MaxUndone = 0
SPECIFICATION FairSpec
PROPERTIES EveryTaskEnds
CHECK_DEADLOCK FALSE
