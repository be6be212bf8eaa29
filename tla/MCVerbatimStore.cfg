\* Four calls on two contents, with an error and an exit.
SPECIFICATION Spec
CONSTANTS
  Calls = {c1, c2, c3, c4}
  Contents = {h1, h2}
  None = None
  MaxFaults = 1
  MaxKills = 1
SYMMETRY Renaming
INVARIANTS AckedIsKept FilesAreFilled NeverMissing
CHECK_DEADLOCK FALSE
