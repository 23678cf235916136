SPECIFICATION Spec
CONSTANTS
  t1 = t1
  t2 = t2
  a = a
  b = b
  p = p
  q = q
  all = all
  some = some
  Keep = Keep
  NoUser = NoUser
  Names = {a, b}
  Roles = {"admin", "viewer"}
  Passwords = {p}
  ServerLists = {all}
  AllServers = all
  Threads = {t1, t2}
  CountFails = FALSE
SYMMETRY Interchangeable
PROPERTIES
  LastAdminStays
