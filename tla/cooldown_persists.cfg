SPECIFICATION Spec
CONSTANTS
  m1 = m1  m2 = m2  p1 = p1
  j1 = j1  j2 = j2  j3 = j3  j4 = j4  j5 = j5
  w1 = w1  w2 = w2  none = none
  Models = {m1}
  Providers = {p1}
  ProviderOf <- OneModel
  Routable = {m1}
  Jobs = {j1, j2}
  NoJob = none
  Workers = {w1}
  Outcomes <- Cooling
  IncidentThreshold = 2
  DailyMax = 3
  MaxRetries = 1
  AdminActs = {}
  TimeSteps <- ShortSteps
  Horizon = 1
  JobSpan = 1
  MaxFaults = 0
PROPERTY ProviderCooldownPersists
CHECK_DEADLOCK FALSE
