\* The instance of the recall of MCEngine.cfg: three memories, a snapshot of two.
SPECIFICATION RecallSpec
CONSTANTS
  m1 = m1
  m2 = m2
  m3 = m3
  s1 = s1
  s2 = s2
  NoStream = NoStream
  Memories = {m1, m2, m3}
  Streams = {s1, s2}
  StreamOf <- MCStreamOf
  Readable = {s1}
  Eligible = {m1, m3}
  Linked = {m2}
  TopK = 2
  SnapshotLimit = 2
  Scale = 1000000
  MaxReruns = 1
  MaxLate = 1
INVARIANTS LoneMatchIsReturned
SYMMETRY Swap
CHECK_DEADLOCK FALSE
