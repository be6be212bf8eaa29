\* Two callers, one slot in the channel, one failing statement, one crash;
\* three audit tasks side by side, a failing statement and an exit.
SPECIFICATION WritesSpec
CONSTANTS
  Calls = {c1, c2}
  Memories = {m1, m2}
  Tags = {t1, t2}
  None = None
  QueueDepth = 1
  MaxFaults = 1
  MaxCrashes = 1
  Ops = {o1, o2, o3}
  MaxTaskFaults = 1
  MaxKills = 1
INVARIANTS AckedIsStored OneRowPerCall BreakHasCause
PROPERTIES ImplementsSerialStore EveryCallIsAnswered CancelledStillRuns AnsweredGetsLogged
CHECK_DEADLOCK FALSE
