\* Two audit tasks, nothing fails.
SPECIFICATION AuditSpec
CONSTANTS
  Ops = {o1, o2}
  MaxTaskFaults = 0
  MaxKills = 0
INVARIANT IntactLogVerifies
CHECK_DEADLOCK FALSE
