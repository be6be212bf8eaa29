\* A store that failed and is tried again.
SPECIFICATION Spec
CONSTANTS
  Calls = {c1, c2}
  Contents = {h}
  None = None
  MaxFaults = 1
  MaxKills = 0
INVARIANT AckedIsWhole
CHECK_DEADLOCK FALSE
