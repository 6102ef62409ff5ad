\* A subscriber that was there and one that joins, two layers, two concurrent switches.
SPECIFICATION Spec
CONSTANTS
  Sub = {s1, s2}
  Joined = {s1}
  Asking = {s2}
  Layer = {0, 1}
  Caller = {k1, k2}
  Modes = {"best"}
  MaxEvents = 3
  None = None
CHECK_DEADLOCK FALSE
INVARIANTS OneTrackEach Served AtItsLayer SwitchPending NoneForgotten AtRest
