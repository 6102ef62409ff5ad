\* A Connect that fails must not leave its node's name in the camera's key.
SPECIFICATION SpecUp
CONSTANTS
  Node = {n1, n2}
  Camera = {c1}
  RelayCamera = {c1}
  Call = {i1}
  Disc = {d1}
  None = None
  Cleaners = {}
  MaxCrash = 0
INVARIANT FailedConnectReleasesLock
