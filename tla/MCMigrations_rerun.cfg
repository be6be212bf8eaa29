SPECIFICATION Spec
CONSTANTS
  Processes = {cli}
  Memories = {m1}
  None = None
  MaxOpens = 2
  MaxFaults = 0
  MaxKills = 0
PROPERTIES RerunIsNoOp
CHECK_DEADLOCK FALSE
