SPECIFICATION Spec
CONSTANTS
  a1 = a1  a2 = a2  a3 = a3  b1 = b1
  p = p  q = q  w1 = w1  t1 = t1
  Providers = {p}
  Models = {a1, a2, a3}
  ProviderOf <- Owner
  ByName <- JustAs
  Lanes = {w1}
  Ticks = {t1}
  MaxGlobal = 2
  Cap <- TwoAndOne
  RpmLimit <- TwoEach
  SpeedTake = 1
  InlineTake = 1
  WaveSize = 2
  Usages <- NoUsage
  MayCool = {a1, a2}
  MaxBacklog = 1
  MaxFaults = 1
PROPERTIES RotationReachesAll
