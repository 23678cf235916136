SPECIFICATION Spec
CONSTANTS
  t1 = t1
  t2 = t2
  c1 = c1
  x = x
  y = y
  Threads = {t1}
  Clients = {c1}
  Texts = {x}
  MaxLines = 2
  MaxLogRows = 2
  ChanCap = 1
  DedupWindow = 0
  Faults = {"crash", "prune"}
  PushBound = 4
  TimeBound = 0
INVARIANTS
  MemoryIsTail
  FirstShownInOrder
