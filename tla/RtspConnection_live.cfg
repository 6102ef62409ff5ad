\* One node at rest, one camera, two Connects, two Disconnects, under fairness.
SPECIFICATION FairSpec
CONSTANTS
  Node = {n1}
  Camera = {c1}
  RelayCamera = {c1}
  Call = {i1, i2}
  Disc = {d1, d2}
  None = None
  Cleaners = {}
  MaxCrash = 0
INVARIANTS ClosedEntryLeaves NilClientNeedsTwoDisconnects
PROPERTIES DeliveredClientCloses ConnectReturns
