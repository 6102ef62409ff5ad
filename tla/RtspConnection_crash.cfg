\* Two nodes at rest, two cameras of which one is relayed, two Connects, one Disconnect, one crash, both cleaners.
SPECIFICATION SpecUp
CONSTANTS
  Node = {n1, n2}
  Camera = {c1, c2}
  RelayCamera = {c1}
  Call = {i1, i2}
  Disc = {d1}
  None = None
  Cleaners = {n1, n2}
  MaxCrash = 1
SYMMETRY Symmetry
INVARIANTS ExclusiveUnlessRevoked CounterAccounts
PROPERTIES ImplementsLease
