SPECIFICATION FairSpec
CONSTANTS
  h1 = h1
  h2 = h2
  Handlers = {h1, h2}
  Ops = {"create", "start", "stop", "restart", "clear"}
  TailLines = 1
  Faults = {"history", "attach", "stream", "panel"}
  LineBound = 2
INVARIANTS
  TypeOK
  EventsInOrder
  NothingHeardIsLost
  NoRepeat
PROPERTIES
  ClearedStaysCleared
  RunningIsFollowed
