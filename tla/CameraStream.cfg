\* A creation and two more writes of one camera, two sets of stream data, one fault.
SPECIFICATION Spec
CONSTANTS
  Op = {o1, o2, o3}
  Info = {a, b}
  Changes <- MCChanges
  None = None
  Keep = Keep
  MaxFaults = 1
SYMMETRY Symmetry
INVARIANTS RepairedAgrees LeakNeedsRace
CHECK_DEADLOCK FALSE
