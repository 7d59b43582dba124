SPECIFICATION VisitorSpec
CONSTANTS
  c1 = c1  c2 = c2  c3 = c3  c4 = c4  c5 = c5  i1 = i1  i2 = i2
  a = a  b = b  p = p  All = All  None = None
  Conns = {c1, c2, c3, c4, c5}
  Ips = {i1, i2}
  IpOf <- Addresses
  MAX_TOTAL_CLIENTS = 3
  MAX_PER_IP = 2
  Models <- Shown
  Providers <- Filters
  Boards <- Rankings
  Links <- Opened
  TOP = 1
  MAX_COMPARE = 2
  MaxClicks = 2
  MaxFaults = 2
INVARIANTS VisitorTypeOK SessionsCounted WithinLimits AlarmArmed RowsFollowFilter
PROPERTIES DeadSessionsReleased NavigationSticks LinkSettles BoardAppears
CHECK_DEADLOCK FALSE
