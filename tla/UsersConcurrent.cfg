SPECIFICATION Spec
CONSTANTS
  t1 = t1
  t2 = t2
  a = a
  b = b
  p = p
  q = q
  all = all
  some = some
  Keep = Keep
  NoUser = NoUser
  Names = {a, b}
  Roles = {"admin", "viewer"}
  Passwords = {p, q}
  ServerLists = {all, some}
  AllServers = all
  Threads = {t1, t2}
  CountFails = TRUE
SYMMETRY Interchangeable
INVARIANTS
  TypeOK
PROPERTIES
  UndisturbedIsAtomic
  NothingIsUndone
  LastAdminGoesByDemotion
  NeverEmptied
