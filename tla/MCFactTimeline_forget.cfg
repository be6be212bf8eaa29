\* Forget while the background task of the memory is still running.
SPECIFICATION Spec
CONSTANTS
  Memories = {m1, m2}
  Keys = {k}
  Objects = {x, y}
  MaxFacts = 1
  MaxTime = 0
  MaxFaults = 0
  MaxKills = 0
  None = None
INVARIANT ForgottenHasNoCurrentFact
CHECK_DEADLOCK FALSE
