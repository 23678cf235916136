SPECIFICATION Spec
CONSTANTS
  s1 = s1
  s2 = s2
  h1 = h1
  h2 = h2
  h3 = h3
  hourly = hourly
  nightly = nightly
  Configs = {hourly, nightly}
  Off = Off
  Unset = Unset
  Servers = {s1}
  Slots = {h1, h2}
  Ops = {"create", "delete", "opencl", "backup", "config", "start", "stop", "restart"}
  Faults = {"fail", "crash"}
  NoServer = NoServer
  Absent = Absent
  Empty = Empty
  Torn = Torn
  RequestBound = 4
SYMMETRY Interchangeable
INVARIANTS
  TypeOK
  CreatedIsKept
  DeletedStaysGone
  BackupSettles
  SettingsAgree
