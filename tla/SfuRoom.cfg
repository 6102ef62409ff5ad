\* Two SFU nodes, two connections with user IDs that may be the same or not publish, one crash.
SPECIFICATION FairSpec
CONSTANTS
  Node = {n1, n2}
  c1 = c1
  c2 = c2
  u1 = u1
  u2 = u2
  u3 = u3
  Conn = {c1, c2}
  Uid = {u1, u2, u3}
  Users <- MCUsers
  NoPublish = {u3}
  None = None
  MaxCrash = 1
INVARIANTS Together GhostsOnlyAfterError PeerListed StreamsRegistered
PROPERTIES LeaverEnds
