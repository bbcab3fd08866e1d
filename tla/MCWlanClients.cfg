SPECIFICATION WlanSpec
CONSTANTS
  wlan0 = wlan0
  wlan1 = wlan1
  s1 = s1
  s2 = s2
  a1 = a1
  a2 = a2
  b1 = b1
  Aps = {wlan0, wlan1}
  Stations = {s1, s2}
  InReach <- MCInReach
  V4 = {a1, a2}
  V6 = {b1}
  Leases <- MCLeases
  MaxStations = 2
  MaxV6 = 1
  MaxNeighbors = 1
  MaxQueue = 1
  MaxLost = 1
  None = None
INVARIANTS HandlesExact KnownIsSet RecordsAgree
