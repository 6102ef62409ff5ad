\* A creation and one more write, one fault, under fairness.
SPECIFICATION FairSpec
CONSTANTS
  Op = {o1, o2}
  Info = {a, b}
  Changes <- MCChanges
  None = None
  Keep = Keep
  MaxFaults = 1
PROPERTY UpdateTakesEffect
CHECK_DEADLOCK FALSE
