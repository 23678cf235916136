SPECIFICATION FairSpec
CONSTANTS
  t1 = t1
  t2 = t2
  c1 = c1
  x = x
  y = y
  Threads = {t1, t2}
  Clients = {c1}
  Texts = {x}
  MaxLines = 2
  MaxLogRows = 1
  ChanCap = 1
  DedupWindow = 0
  Faults = {"append"}
  PushBound = 2
  TimeBound = 0
INVARIANTS
  NoGap
  RowsCapped
  ShownTwiceAtMost
PROPERTIES
  EveryLineIsSent
  StreamsCatchUp
  MemoryIsCappedLog
