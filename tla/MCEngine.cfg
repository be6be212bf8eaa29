\* Three calls on two texts; a file operation and a statement may fail, and
\* the process may exit once. A recall over three memories in two streams, two
\* places in the response and in the snapshot; the index may be filled twice,
\* or the store move on behind the recall.
SPECIFICATION CallsSpec
CONSTANTS
  c1 = c1
  c2 = c2
  c3 = c3
  h1 = h1
  Calls = {c1, c2, c3}
  Contents = {h1, h2}
  None = None
  MaxFaults = 1
  MaxErrors = 1
  MaxKills = 1
  m1 = m1
  m2 = m2
  m3 = m3
  s1 = s1
  s2 = s2
  NoStream = NoStream
  Memories = {m1, m2, m3}
  Streams = {s1, s2}
  StreamOf <- MCStreamOf
  Readable = {s1}
  Eligible = {m1, m3}
  Linked = {m2}
  TopK = 2
  SnapshotLimit = 2
  Scale = 1000000
  MaxReruns = 1
  MaxLate = 1
INVARIANTS RowHasText VectorsFollowRows HitsInScope UnanimousOrder
PROPERTY ExpandFindsText
CHECK_DEADLOCK FALSE
