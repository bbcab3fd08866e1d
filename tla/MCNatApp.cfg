CONSTANTS
  c1 = c1
  c2 = c2
  w1 = w1
  w2 = w2
  k1 = k1
  k2 = k2
  k3 = k3
  k4 = k4
  None = None
  Clients = {c1, c2}
  NatClients = {c1}
  WanIps = {w1, w2}
  Conns = {k1, k2, k3, k4}
  Private <- PrivateDef
  Handles = {h1, h2, h3}
  MaxEntries = 2
  MaxTemp = 1
  MaxCopies = 1
SPECIFICATION Spec
INVARIANTS
  TableMatchesCache
  CountExact
  ClosedForgotten
PROPERTY PwrSaveStaysOut
SYMMETRY Symmetry
