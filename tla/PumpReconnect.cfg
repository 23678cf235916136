SPECIFICATION Spec
CONSTANTS
  h1 = h1
  h2 = h2
  Handlers = {h1}
  Ops = {"stop", "start"}
  TailLines = 2
  Faults = {}
  LineBound = 2
PROPERTIES
  ReconnectReplays
