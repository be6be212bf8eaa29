\* Two memories of up to two facts over one key; one statement may fail and
\* the process may exit once.
SPECIFICATION Spec
CONSTANTS
  Memories = {m1, m2}
  Keys = {k}
  Objects = {x, y}
  MaxFacts = 2
  MaxTime = 1
  MaxFaults = 1
  MaxKills = 1
  None = None
SYMMETRY Renaming
INVARIANTS ContradictionsAreHandled EndedHasRival IntervalsRunForward LaterLineWins
CHECK_DEADLOCK FALSE
