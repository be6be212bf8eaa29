\* Two tasks that find the facts of each other.
SPECIFICATION Spec
CONSTANTS
  Memories = {m1, m2}
  Keys = {k}
  Objects = {x, y}
  MaxFacts = 1
  MaxTime = 0
  MaxFaults = 0
  MaxKills = 0
  None = None
INVARIANT NewestIsCurrent
CHECK_DEADLOCK FALSE
