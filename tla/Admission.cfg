SPECIFICATION Spec
CONSTANTS
  Ips = {ip1, ip2, ip3}
  Handlers = {h1, h2}
  LeaseTtl = 2
  Day = 3
  HistoryKeep = 4
  SignWindow = 0
  DeviceLimits = {1}
  IpLimits = {1, 2}
  Expiries = {0, 2}
  MaxClock = 4
SYMMETRY Symmetry
INVARIANTS LiveWithinLimit ChurnWithinLimit RefusalRunsOut
PROPERTIES LeasesNeverShrink
