SPECIFICATION OperationsSpec
CONSTANTS
  t1 = t1  t2 = t2  r1 = r1  r2 = r2  i = i  j = j  l1 = l1  l2 = l2
  a = a  b = b  s1 = s1  s2 = s2  p = p  q = q  None = None
  Ticks = {t1, t2}
  THRESHOLD = 1
  REPEAT = 2
  DAY = 2
  Horizon = 3
  MaxFaults = 1
  Runs <- MadeRuns
  SLOT = 2
  RAW_KEEP = 1
  AGG_KEEP = 2
  BUCKETS_A_DAY = 1
  MaxAdmin = 1
  LastTick = 5
  RunSpan = 2
  SLICE = 3
  MaxSwitches = 1
  Isolates <- Everywhere
  Logins <- Visits
  MAX_ATTEMPTS = 2
  WINDOW = 2
  MaxTime = 4
  MaxLogins = 4
  Registry <- Vendors
  Testable <- One
  ProviderOf <- Owner
  Preferred <- One
  Budgets <- Normal
  Models <- Listed
  Slots <- Windows
  MaxClicks = 4
SYMMETRY Symmetry
INVARIANTS OperationsTypeOK TimelyRunsCounted FreeIsVisible BudgetReportedOnce AlertsSpaced WaitSuffices BadgesDescribeResult PageIsHonest
PROPERTIES StallIsReported DiscoveryKeepsSwitches
CHECK_DEADLOCK FALSE
