\* Two calls on two memories, one of them in a stream with up to two holds.
SPECIFICATION Spec
CONSTANTS
  m1 = m1
  m2 = m2
  s = s
  None = None
  Calls = {c1, c2}
  Memories = {m1, m2}
  Streams = {s}
  StreamOf <- MCStreamOf
  Holds = {h1, h2}
  MaxFaults = 1
SYMMETRY Renaming
INVARIANTS PurgedIsGone RefusedNeedsWriter EventsTellArchived
PROPERTY HeldIsFrozen
CHECK_DEADLOCK FALSE
