CONSTANTS
  Lans = {usb}
  Wlans = {wlan}
  Ltes = {rmnet}
  Manager = Manager
  Nil = Nil
  Files <- MCFiles
  MaxChanges = 4
SPECIFICATION Spec
INVARIANTS
  ObjectsFollowLinks
  AddressesKnown
PROPERTIES
  OnlyCradlesFreeNext
  Drained
CHECK_DEADLOCK FALSE
