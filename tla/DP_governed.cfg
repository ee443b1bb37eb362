SPECIFICATION Spec
CONSTANTS
  u1 = u1
  u2 = u2
  u3 = u3
  a1 = a1
  a2 = a2
  Opens = {o1}
  Nodes = {n1, n2}
  Aliases = {a1, a2}
  Units = {u1, u2, u3}
  Usb <- Boards
  LinkOf <- Links
  Profiles <- Overlapping
  Strangers = {"nobody"}
  Allowed = {n1, a1, a2}
  MaxMoves = 3
  None = None
INVARIANTS
  TypeOK
  GovernedByHardware
  AdvertisedIsApplied
