CONSTANTS
  eth = eth
  wlan0 = wlan0
  wlan1 = wlan1
  guest = guest
  ether = ether
  w802 = w802
  NoL2 = NoL2
  Intra = Intra
  Ifaces = {eth, wlan0, wlan1, guest}
  Wlan = {wlan0, wlan1, guest}
  Guest = {guest}
  L2 <- L2Def
  Macs = {m1, m2, m3}
  Fams = {v4, v6}
  MaxIfaces = 3
  MaxClients = 2
  MaxCached = 2
SPECIFICATION Spec
INVARIANTS
  RefExact
  RulesExact
  NothingLeaked
SYMMETRY Symmetry
