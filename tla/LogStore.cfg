SPECIFICATION Spec
CONSTANTS
  t1 = t1
  t2 = t2
  c1 = c1
  x = x
  y = y
  Threads = {t1, t2}
  Clients = {}
  Texts = {x, y}
  MaxLines = 2
  MaxLogRows = 2
  ChanCap = 1
  DedupWindow = 2
  Faults = {"append", "prune", "clear", "load", "crash"}
  PushBound = 2
  TimeBound = 2
SYMMETRY ThreadsAndTexts
INVARIANTS
  TypeOK
  NoRecentDuplicate
  Coherent
PROPERTIES
  JustifiedDrop
  HistorySurvives
