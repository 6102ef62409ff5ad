SPECIFICATION EventsSpec
CONSTANTS
  Track = {t1, t2}
  Observer = {o1, o2}
  Roommate = {o1}
CHECK_DEADLOCK FALSE
INVARIANTS InTheSession
