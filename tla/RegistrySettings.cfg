SPECIFICATION Spec
CONSTANTS
  s1 = s1
  s2 = s2
  h1 = h1
  h2 = h2
  h3 = h3
  hourly = hourly
  nightly = nightly
  Configs = {hourly}
  Off = Off
  Unset = Unset
  Servers = {s1}
  Slots = {h1}
  Ops = {"create", "opencl", "backup"}
  Faults = {}
  NoServer = NoServer
  Absent = Absent
  Empty = Empty
  Torn = Torn
  RequestBound = 4
PROPERTIES
  OpenclKeepsBackup
