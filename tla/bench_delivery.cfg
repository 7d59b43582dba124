SPECIFICATION Spec
CONSTANTS
  m1 = m1  m2 = m2  p1 = p1
  j1 = j1  j2 = j2  j3 = j3  j4 = j4  j5 = j5
  w1 = w1  w2 = w2  none = none
  Models = {m1, m2}
  Providers = {p1}
  ProviderOf <- TwoModels
  Routable = {m1}
  Jobs = {j1, j2}
  NoJob = none
  Workers = {w1, w2}
  Outcomes <- OnlySuccess
  IncidentThreshold = 1
  DailyMax = 2
  MaxRetries = 1
  AdminActs = {"switch"}
  TimeSteps <- ShortSteps
  Horizon = 0
  JobSpan = 1
  MaxFaults = 2
INVARIANTS RunLedger
PROPERTIES EveryJobSettles KeepsLedger
CHECK_DEADLOCK FALSE
