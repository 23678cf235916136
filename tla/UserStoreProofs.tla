-------------------------- MODULE UserStoreProofs --------------------------
(***************************************************************************)
(* What TLAPS proves of UserStore for every set of usernames, roles,       *)
(* passwords and server lists, and any number of requests at a time.       *)
(***************************************************************************)
EXTENDS UserStore, FiniteSetTheorems, TLAPS

\* What a handler may ask of the store.
LEMMA RequestShape ==
  ASSUME NEW r \in Requests
  PROVE  /\ r.op \in Ops /\ r.caller \in Names /\ r.name \in Names
         /\ r.change \in Changes
         /\ r.op \in {"setup", "create"} => r.change \in Row
         /\ r.op \in {"setup", "create"} => r.change.servers = AllServers
         /\ r.op = "setup" => r.change.role = "admin"
         /\ r # NoRequest
<1>1. /\ r.op \in Ops /\ r.caller \in Names /\ r.name \in Names
      /\ r.change \in Changes
  BY DEF Requests
<1>2. r # NoRequest
  BY <1>1 DEF NoRequest, Ops
<1>3. CASE r.op \in {"setup", "create"}
  <2>1. r.change.role # Keep /\ r.change.pass # Keep /\ r.change.servers = AllServers
        /\ (r.op = "setup" => r.change.role = "admin")
    BY <1>3 DEF Requests
  <2>2. r.change \in Row
    BY <1>1, <2>1, ListAssumption DEF Changes, Row
  <2>. QED
    BY <1>1, <1>2, <2>1, <2>2
<1>. QED
  BY <1>1, <1>2, <1>3

\* Changing fields of a row gives a row.
LEMMA ModifyType ==
  ASSUME NEW old \in Row, NEW change \in Changes
  PROVE  Modify(old, change) \in Row
<1>1. /\ Modified(old.role, change.role) \in Roles
      /\ Modified(old.pass, change.pass) \in Passwords
      /\ Modified(old.servers, change.servers) \in ServerLists
  BY DEF Modified, Row, Changes
<1>. QED
  BY <1>1 DEF Modify, Row

-----------------------------------------------------------------------------
(* Type correctness *)

LEMMA TypeInit == Init => TypeOK
BY DEF Init, AccountsInit, TypeOK

\* A step of a request keeps the types.
LEMMA TypeServe ==
  ASSUME TypeOK, NEW t \in Threads, Serve(t) \/ \E r \in Requests : Begin(t, r)
  PROVE  TypeOK'
<1>. USE DEF TypeOK, overlaps
<1>1. pc[t] # "idle" => req[t] \in Requests
  OBVIOUS
<1>2. CASE \E r \in Requests : Begin(t, r)
  <2>1. PICK r \in Requests : Begin(t, r)
    BY <1>2
  <2>. QED
    BY <2>1, RequestShape DEF Begin, Goto
<1>3. CASE CheckEmpty(t) \/ CheckEmptyFails(t) \/ Authorise(t) \/ CountAdmins(t) \/ DbError(t)
  BY <1>3 DEF CheckEmpty, CheckEmptyFails, Authorise, CountAdmins, DbError, Goto, Answer
<1>4. CASE ReadToCreate(t)
  <2>1. req[t].change \in Row
    BY <1>1, <1>4, RequestShape DEF ReadToCreate
  <2>. QED
    BY <1>4, <2>1 DEF ReadToCreate, Goto, Answer
<1>5. CASE ReadToUpdate(t)
  <2>1. Exists(req[t].name) => Modify(users[req[t].name], req[t].change) \in Row
    BY <1>1, <1>5, RequestShape, ModifyType DEF ReadToUpdate, Exists
  <2>. QED
    BY <1>5, <2>1 DEF ReadToUpdate, Goto, Answer
<1>6. CASE ReadToDelete(t)
  BY <1>6 DEF ReadToDelete, Goto, Answer
<1>7. CASE Write(t)
  <2>1. users' \in [Names -> Row \cup {NoUser}]
    BY <1>1, <1>7, RequestShape DEF Write, Put
  <2>2. changed' \in [Threads -> SUBSET Names]
    BY <1>1, <1>7, RequestShape DEF Write, Disturb
  <2>. QED
    BY <1>7, <2>1, <2>2 DEF Write, Answer
<1>. QED
  BY <1>2, <1>3, <1>4, <1>5, <1>6, <1>7 DEF Serve

\* Every step, and a stuttering step, keeps the types.
LEMMA TypeStep == TypeOK /\ [Next]_vars => TypeOK'
<1>1. TypeOK /\ UNCHANGED vars => TypeOK'
  BY DEF TypeOK, vars
<1>. QED
  BY <1>1, TypeServe DEF Next

\* Type correctness for every instance.
THEOREM TypeCorrect == Spec => []TypeOK
BY TypeInit, TypeStep, PTL DEF Spec

-----------------------------------------------------------------------------
(* What a request has established *)

\* What follows from the request alone, by the query it makes next.
Shape(t) ==
  LET r == req[t] IN
    /\ pc[t] = "empty" => r.op = "setup"
    /\ pc[t] = "auth" => r.op # "setup"
    /\ pc[t] = "count" => r.op = "delete"
    /\ pc[t] # "write" => row[t] = NoUser
    /\ pc[t] = "write" =>
         \/ r.op \in {"setup", "create"} /\ row[t] = r.change
         \/ r.op = "update" /\ row[t] # NoUser
         \/ r.op = "delete" /\ row[t] = NoUser
    /\ pc[t] # "idle" /\ t \in miscounted => r.op = "setup"

\* What it has seen of the row it writes, which holds while no other request
\* writes that row.
OwnRow(t) ==
  LET r == req[t] IN
    /\ pc[t] = "count" => Exists(r.name)
    /\ pc[t] = "write" =>
         IF r.op \in {"setup", "create"} THEN ~Exists(r.name)
         ELSE /\ Exists(r.name)
              /\ r.op = "update" => row[t] = Modify(users[r.name], r.change)

\* What it has seen of its caller's row.
Authorised(t) ==
  pc[t] \in {"read", "count", "write"} /\ req[t].op # "setup" => Allowed(t)

\* What it has counted, which any write may change.
Counted(t) ==
  LET r == req[t] IN
    /\ pc[t] = "write" /\ r.op = "delete" /\ IsAdmin(r.name) => Admins # {r.name}
    /\ pc[t] \in {"read", "write"} /\ r.op = "setup" /\ t \notin miscounted => Empty

\* The inductive invariant: each still holds unless it was disturbed.
Held(t) ==
  /\ Shape(t)
  /\ req[t].name \notin changed[t] => OwnRow(t)
  /\ req[t].caller \notin changed[t] => Authorised(t)
  /\ changed[t] = {} => Counted(t)

ReadsHold == \A t \in Threads : Held(t)

\* Nothing is asked of a request that is answered.
LEMMA IdleHolds ==
  ASSUME NEW t \in Threads, pc[t] = "idle", row[t] = NoUser
  PROVE  Held(t)
BY DEF Held, Shape, OwnRow, Authorised, Counted

LEMMA ReadsHoldInit == Init => ReadsHold
BY IdleHolds DEF Init, ReadsHold

\* A query of a request leaves the accounts and the other requests alone.
LEMMA QueriesKeep ==
  ASSUME TypeOK, NEW t \in Threads,
         (Serve(t) /\ ~Write(t)) \/ \E r \in Requests : Begin(t, r)
  PROVE  /\ users' = users
         /\ \A u \in Threads : u # t =>
              /\ pc'[u] = pc[u] /\ req'[u] = req[u] /\ row'[u] = row[u]
              /\ changed'[u] = changed[u] /\ (u \in miscounted' <=> u \in miscounted)
         /\ Empty' = Empty /\ Admins' = Admins
         /\ \A n : Exists(n)' = Exists(n) /\ IsAdmin(n)' = IsAdmin(n)
<1>1. /\ users' = users
      /\ \A u \in Threads : u # t =>
           /\ pc'[u] = pc[u] /\ req'[u] = req[u] /\ row'[u] = row[u]
           /\ changed'[u] = changed[u] /\ (u \in miscounted' <=> u \in miscounted)
  BY DEF TypeOK, overlaps, Serve, Begin, CheckEmpty, CheckEmptyFails, Authorise,
     ReadToCreate, ReadToUpdate, ReadToDelete, CountAdmins, DbError, Goto, Answer
<1>. QED
  BY <1>1 DEF Empty, Admins, Exists, IsAdmin

LEMMA ReadsHoldQuery ==
  ASSUME TypeOK, ReadsHold, NEW t \in Threads,
         (Serve(t) /\ ~Write(t)) \/ \E r \in Requests : Begin(t, r)
  PROVE  ReadsHold'
<1>. USE DEF TypeOK
<1>1. /\ users' = users
      /\ Empty' = Empty /\ Admins' = Admins
      /\ \A n : Exists(n)' = Exists(n) /\ IsAdmin(n)' = IsAdmin(n)
  BY QueriesKeep
<1>2. ASSUME NEW u \in Threads, u # t PROVE Held(u)'
  <2>1. /\ pc'[u] = pc[u] /\ req'[u] = req[u] /\ row'[u] = row[u]
        /\ changed'[u] = changed[u] /\ (u \in miscounted' <=> u \in miscounted)
    BY <1>2, QueriesKeep
  <2>2. Held(u)
    BY DEF ReadsHold
  <2>. QED
    BY <1>1, <2>1, <2>2 DEF Held, Shape, OwnRow, Authorised, Counted, Allowed
<1>3. SUFFICES Held(t)'
  BY <1>2 DEF ReadsHold
<1>4. Held(t)
  BY DEF ReadsHold
<1>5. CASE pc'[t] = "idle" /\ row'[t] = NoUser
  BY <1>5 DEF Held, Shape, OwnRow, Authorised, Counted
<1>6. CASE \E r \in Requests : Begin(t, r)
  <2>1. PICK r \in Requests : Begin(t, r)
    BY <1>6
  <2>2. /\ req'[t] = r /\ row'[t] = NoUser /\ t \notin miscounted'
        /\ pc'[t] = (IF r.op = "setup" THEN "empty" ELSE "auth")
    BY <1>4, <2>1 DEF Begin, Goto, Held, Shape
  <2>. QED
    BY <2>2 DEF Held, Shape, OwnRow, Authorised, Counted
<1>7. CASE CheckEmpty(t) \/ CheckEmptyFails(t)
  <2>1. /\ pc[t] = "empty" /\ pc'[t] \in {"read", "idle"} /\ row'[t] = NoUser
        /\ changed' = changed
    BY <1>4, <1>7 DEF CheckEmpty, CheckEmptyFails, Goto, Answer, overlaps, Held, Shape
  <2>2. CASE pc'[t] = "read"
    <3>1. req' = req /\ (Empty \/ t \in miscounted')
      BY <1>7, <2>2 DEF CheckEmpty, CheckEmptyFails, Goto, Answer
    <3>2. req[t].op = "setup"
      BY <1>4, <2>1 DEF Held, Shape
    <3>. QED
      BY <1>1, <2>1, <2>2, <3>1, <3>2 DEF Held, Shape, OwnRow, Authorised, Counted
  <2>. QED
    BY <1>5, <2>1, <2>2
<1>8. CASE Authorise(t)
  <2>1. /\ pc[t] = "auth" /\ pc'[t] \in {"read", "idle"} /\ row'[t] = NoUser
        /\ changed' = changed /\ miscounted' = miscounted
    BY <1>4, <1>8 DEF Authorise, Goto, Answer, overlaps, Held, Shape
  <2>2. CASE pc'[t] = "read"
    <3>1. Allowed(t) /\ req' = req
      BY <1>8, <2>2 DEF Authorise, Goto, Answer
    <3>2. Allowed(t)'
      BY <1>1, <3>1 DEF Allowed
    <3>3. req[t].op # "setup"
      BY <1>4, <2>1 DEF Held, Shape
    <3>. QED
      BY <1>4, <2>1, <2>2, <3>1, <3>2, <3>3 DEF Held, Shape, OwnRow, Authorised, Counted
  <2>. QED
    BY <1>5, <2>1, <2>2
<1>9. CASE ReadToCreate(t)
  <2>1. /\ pc[t] = "read" /\ req[t].op \in {"setup", "create"}
        /\ changed' = changed /\ miscounted' = miscounted
    BY <1>9 DEF ReadToCreate, overlaps
  <2>2. CASE ~Exists(req[t].name)
    <3>1. pc'[t] = "write" /\ req' = req /\ row'[t] = req[t].change
      BY <1>9, <2>2 DEF ReadToCreate, Goto
    <3>2. Allowed(t)' = Allowed(t)
      BY <1>1, <3>1 DEF Allowed
    <3>. QED
      BY <1>1, <1>4, <2>1, <2>2, <3>1, <3>2 DEF Held, Shape, OwnRow, Authorised, Counted
  <2>3. CASE Exists(req[t].name)
    BY <1>5, <1>9, <2>3 DEF ReadToCreate, Answer
  <2>. QED
    BY <2>2, <2>3
<1>10. CASE ReadToUpdate(t)
  <2>1. /\ pc[t] = "read" /\ req[t].op = "update"
        /\ changed' = changed /\ miscounted' = miscounted
    BY <1>10 DEF ReadToUpdate, overlaps
  <2>2. CASE Exists(req[t].name)
    <3>1. pc'[t] = "write" /\ req' = req
          /\ row'[t] = Modify(users[req[t].name], req[t].change)
      BY <1>10, <2>2 DEF ReadToUpdate, Goto
    <3>2. Allowed(t)' = Allowed(t)
      BY <1>1, <3>1 DEF Allowed
    <3>3. row'[t] # NoUser
      <4>1. req[t].name \in Names /\ req[t].change \in Changes
        BY <2>1, RequestShape
      <4>. QED
        BY <2>2, <3>1, <4>1, ModifyType, RowAssumption DEF Exists
    <3>. QED
      BY <1>1, <1>4, <2>1, <2>2, <3>1, <3>2, <3>3 DEF Held, Shape, OwnRow, Authorised, Counted
  <2>3. CASE ~Exists(req[t].name)
    BY <1>5, <1>10, <2>3 DEF ReadToUpdate, Answer
  <2>. QED
    BY <2>2, <2>3
<1>11. CASE ReadToDelete(t)
  <2>1. /\ pc[t] = "read" /\ req[t].op = "delete"
        /\ changed' = changed /\ miscounted' = miscounted
    BY <1>11 DEF ReadToDelete, overlaps
  <2>2. CASE Exists(req[t].name)
    <3>1. pc'[t] = (IF IsAdmin(req[t].name) THEN "count" ELSE "write")
          /\ req' = req /\ row'[t] = NoUser
      BY <1>4, <1>11, <2>1, <2>2 DEF ReadToDelete, Goto, Held, Shape
    <3>2. Allowed(t)' = Allowed(t)
      BY <1>1, <3>1 DEF Allowed
    <3>. QED
      BY <1>1, <1>4, <2>1, <2>2, <3>1, <3>2 DEF Held, Shape, OwnRow, Authorised, Counted
  <2>3. CASE ~Exists(req[t].name)
    BY <1>5, <1>11, <2>3 DEF ReadToDelete, Answer
  <2>. QED
    BY <2>2, <2>3
<1>12. CASE CountAdmins(t)
  <2>1. /\ pc[t] = "count" /\ req[t].op = "delete"
        /\ changed' = changed /\ miscounted' = miscounted
    BY <1>4, <1>12 DEF CountAdmins, overlaps, Held, Shape
  <2>2. CASE ~(Cardinality(Admins) <= 1)
    <3>1. pc'[t] = "write" /\ req' = req /\ row'[t] = NoUser
      BY <1>4, <1>12, <2>1, <2>2 DEF CountAdmins, Goto, Held, Shape
    <3>2. Admins # {req[t].name}
      <4>1. Cardinality({req[t].name}) = 1
        BY FS_Singleton
      <4>. QED
        BY <2>2, <4>1
    <3>3. Allowed(t)' = Allowed(t)
      BY <1>1, <3>1 DEF Allowed
    <3>. QED
      BY <1>1, <1>4, <2>1, <3>1, <3>2, <3>3 DEF Held, Shape, OwnRow, Authorised, Counted
  <2>3. CASE Cardinality(Admins) <= 1
    BY <1>5, <1>12, <2>3 DEF CountAdmins, Answer
  <2>. QED
    BY <2>2, <2>3
<1>13. CASE DbError(t)
  BY <1>5, <1>13 DEF DbError, Answer
<1>. QED
  BY <1>6, <1>7, <1>8, <1>9, <1>10, <1>11, <1>12, <1>13 DEF Serve

\* A write leaves alone what another request has seen of a row it has not
\* changed meanwhile, and spoils what every other one has counted.
LEMMA ReadsHoldWrite ==
  ASSUME TypeOK, ReadsHold, NEW t \in Threads, Write(t)
  PROVE  ReadsHold'
<1>. USE DEF TypeOK
<1>1. /\ pc' = [pc EXCEPT ![t] = "idle"] /\ row' = [row EXCEPT ![t] = NoUser]
      /\ req' = [req EXCEPT ![t] = NoRequest] /\ miscounted' = miscounted
      /\ Put(req[t].name, row[t])
      /\ \A u \in Threads : changed'[u] = IF u = t \/ pc[u] = "idle" THEN {}
                                          ELSE changed[u] \cup {req[t].name}
  BY DEF Write, Answer, Disturb
<1>. SUFFICES ASSUME NEW u \in Threads PROVE Held(u)'
  BY DEF ReadsHold
<1>2. Held(u)
  BY DEF ReadsHold
<1>3. CASE u = t \/ pc[u] = "idle"
  <2>1. pc'[u] = "idle" /\ row'[u] = NoUser
    BY <1>1, <1>2, <1>3 DEF Held, Shape
  <2>. QED
    BY <2>1 DEF Held, Shape, OwnRow, Authorised, Counted
<1>4. CASE u # t /\ pc[u] # "idle"
  <2>1. /\ pc'[u] = pc[u] /\ row'[u] = row[u] /\ req'[u] = req[u]
        /\ (u \in miscounted' <=> u \in miscounted)
        /\ changed'[u] = changed[u] \cup {req[t].name}
    BY <1>1, <1>4
  <2>2. req[u] \in Requests /\ req[u].name \in Names /\ req[u].caller \in Names
    BY <1>4, RequestShape
  <2>3. ASSUME NEW n \in Names, n \notin changed'[u]
        PROVE  users'[n] = users[n] /\ n \notin changed[u]
    BY <1>1, <2>1, <2>3 DEF Put
  <2>4. Shape(u)'
    BY <1>2, <2>1 DEF Held, Shape
  <2>5. req'[u].name \notin changed'[u] => OwnRow(u)'
    BY <1>2, <2>1, <2>2, <2>3 DEF Held, OwnRow, Exists
  <2>6. req'[u].caller \notin changed'[u] => Authorised(u)'
    BY <1>2, <2>1, <2>2, <2>3 DEF Held, Authorised, Allowed, IsAdmin, Exists
  <2>. QED
    BY <2>1, <2>4, <2>5, <2>6 DEF Held
<1>. QED
  BY <1>3, <1>4

\* Every step keeps it.
LEMMA ReadsHoldStep == TypeOK /\ ReadsHold /\ [Next]_vars => ReadsHold'
<1>1. TypeOK /\ ReadsHold /\ UNCHANGED vars => ReadsHold'
  BY DEF ReadsHold, Held, Shape, OwnRow, Authorised, Counted, Allowed, IsAdmin, Exists,
     Empty, Admins, vars
<1>2. TypeOK /\ ReadsHold /\ Next => ReadsHold'
  BY ReadsHoldQuery, ReadsHoldWrite DEF Next
<1>. QED
  BY <1>1, <1>2

\* Only a write changes the accounts.
LEMMA OnlyWrites ==
  ASSUME Next, users' # users
  PROVE  \E t \in Threads : Write(t)
BY DEF Next, Serve, Begin, CheckEmpty, CheckEmptyFails, Authorise, ReadToCreate,
   ReadToUpdate, ReadToDelete, CountAdmins, DbError

-----------------------------------------------------------------------------
(* Undisturbed requests are atomic *)

\* No other request wrote a row the checks of this one are about.
Undisturbed(t) == Relied(t) \cap changed[t] = {} /\ t \notin miscounted

\* An undisturbed write is a step of the documented store.
LEMMA WriteIsAtomic ==
  ASSUME TypeOK, ReadsHold, NEW t \in Threads, Write(t), Undisturbed(t)
  PROVE  AccountsNext
<1>. DEFINE r == req[t]
<1>1. pc[t] = "write" /\ r \in Requests /\ Put(r.name, row[t])
  BY DEF Write, TypeOK
<1>2. /\ r.caller \in Names /\ r.name \in Names /\ r.change \in Changes
      /\ r.op \in {"setup", "create"} =>
           /\ r.change \in Row /\ r.change.servers = AllServers
           /\ r.op = "setup" => r.change.role = "admin"
      /\ r.op = "update" => r.change.servers = Keep \/ r.change.role = Keep
  BY <1>1, RequestShape DEF Requests
<1>3. /\ Shape(t) /\ OwnRow(t) /\ Authorised(t)
      /\ r.op = "setup" \/ (r.op = "delete" /\ IsAdmin(r.name)) => Counted(t)
  <2>1. Held(t)
    BY DEF ReadsHold
  <2>2. r.name \notin changed[t] /\ r.caller \notin changed[t]
    BY <1>2 DEF Undisturbed, Relied
  <2>3. r.op = "setup" \/ (r.op = "delete" /\ IsAdmin(r.name)) => changed[t] = {}
    BY DEF Undisturbed, Relied, TypeOK
  <2>. QED
    BY <2>1, <2>2, <2>3 DEF Held
<1>4. CASE r.op = "setup"
  <2>1. Empty /\ row[t] = [role |-> "admin", pass |-> r.change.pass, servers |-> AllServers]
    BY <1>1, <1>2, <1>3, <1>4 DEF Undisturbed, Shape, Counted, Row
  <2>2. SetUp(r.name, r.change.pass) /\ r.change.pass \in Passwords
    BY <1>1, <1>2, <1>4, <2>1 DEF SetUp, Row
  <2>. QED
    BY <1>2, <2>2 DEF AccountsNext
<1>5. CASE r.op = "create"
  <2>1. Allowed(t) /\ ~Exists(r.name)
        /\ row[t] = [role |-> r.change.role, pass |-> r.change.pass, servers |-> AllServers]
    BY <1>1, <1>2, <1>3, <1>5 DEF Shape, OwnRow, Authorised, Row
  <2>2. Create(r.caller, r.name, r.change.role, r.change.pass)
        /\ r.change.pass \in Passwords /\ r.change.role \in Roles
    BY <1>1, <1>2, <1>5, <2>1 DEF Create, Row, Allowed
  <2>. QED
    BY <1>2, <2>2 DEF AccountsNext
<1>6. CASE r.op = "update"
  <2>1. Allowed(t) /\ Exists(r.name) /\ row[t] = Modify(users[r.name], r.change)
    BY <1>1, <1>3, <1>6 DEF OwnRow, Authorised
  <2>2. Update(r.caller, r.name, r.change)
    BY <1>1, <2>1 DEF Update, Allowed
  <2>. QED
    BY <1>2, <2>2 DEF AccountsNext
<1>7. CASE r.op = "delete"
  <2>1. Allowed(t) /\ Exists(r.name) /\ row[t] = NoUser
        /\ (IsAdmin(r.name) => Admins # {r.name})
    BY <1>1, <1>3, <1>7 DEF Shape, OwnRow, Authorised, Counted
  <2>2. Delete(r.caller, r.name)
    BY <1>1, <1>7, <2>1 DEF Delete, Allowed
  <2>. QED
    BY <1>2, <2>2 DEF AccountsNext
<1>. QED
  BY <1>1, <1>4, <1>5, <1>6, <1>7, RequestShape DEF Ops

\* For every instance: whatever runs concurrently, a request takes effect as the
\* documented store's would unless another wrote a row its checks are about.
THEOREM UndisturbedRequestsAreAtomic == Spec => UndisturbedIsAtomic
<1>1. TypeOK /\ ReadsHold /\ [Next]_vars =>
        [\A t \in Threads :
           Write(t) /\ Relied(t) \cap changed[t] = {} /\ t \notin miscounted => AccountsNext]_vars
  BY WriteIsAtomic DEF Undisturbed
<1>2. Spec => [](TypeOK /\ ReadsHold)
  BY TypeInit, TypeStep, ReadsHoldInit, ReadsHoldStep, PTL DEF Spec
<1>. QED
  BY <1>1, <1>2, PTL DEF Spec, UndisturbedIsAtomic

-----------------------------------------------------------------------------
(* No update is lost *)

\* A write to a row no other request changed does not undo anything.
LEMMA WriteUndoesNothing ==
  ASSUME TypeOK, ReadsHold, NEW t \in Threads, Write(t), req[t].name \notin changed[t]
  PROVE  IF req[t].op \in {"setup", "create"} THEN ~Exists(req[t].name)
         ELSE /\ Exists(req[t].name)
              /\ req[t].op = "update" =>
                   users'[req[t].name] = Modify(users[req[t].name], req[t].change)
<1>1. pc[t] = "write" /\ req[t].name \in Names /\ Put(req[t].name, row[t])
  BY RequestShape DEF Write, TypeOK
<1>2. OwnRow(t)
  BY DEF ReadsHold, Held
<1>3. users'[req[t].name] = row[t]
  BY <1>1 DEF Put, TypeOK
<1>. QED
  BY <1>1, <1>2, <1>3 DEF OwnRow

\* For every instance: an update is lost, an account overwritten or brought back
\* only by requests for one and the same name that overlap.
THEOREM NoUpdateIsLost == Spec => NothingIsUndone
<1>1. TypeOK /\ ReadsHold /\ [Next]_vars =>
        [\A t \in Threads :
           LET r == req[t] IN
           Write(t) /\ r.name \notin changed[t] =>
             IF r.op \in {"setup", "create"} THEN ~Exists(r.name)
             ELSE /\ Exists(r.name)
                  /\ r.op = "update" => users'[r.name] = Modify(users[r.name], r.change)]_vars
  BY WriteUndoesNothing
<1>2. Spec => [](TypeOK /\ ReadsHold)
  BY TypeInit, TypeStep, ReadsHoldInit, ReadsHoldStep, PTL DEF Spec
<1>. QED
  BY <1>1, <1>2, PTL DEF Spec, NothingIsUndone

-----------------------------------------------------------------------------
(* One request at a time *)

\* For every instance that serves one request at a time and whose counts do
\* not fail, the code implements the documented store.
THEOREM OneAtATimeImplements ==
  ASSUME NEW only, Threads = {only}, CountFails = FALSE
  PROVE  Spec => AccountsSpec
<1>. DEFINE Calm == miscounted = {} /\ \A t \in Threads : changed[t] = {}
<1>1. Init => Calm /\ AccountsInit
  BY DEF Init
<1>2. TypeOK /\ Calm /\ [Next]_vars => Calm'
  <2>. SUFFICES ASSUME TypeOK, Calm, [Next]_vars PROVE Calm'
    OBVIOUS
  <2>1. CASE UNCHANGED vars
    BY <2>1 DEF vars
  <2>2. ASSUME NEW t \in Threads, Serve(t) \/ \E r \in Requests : Begin(t, r)
        PROVE  Calm'
    BY <2>2 DEF TypeOK, overlaps, Serve, Begin, CheckEmpty, CheckEmptyFails, Authorise,
       ReadToCreate, ReadToUpdate, ReadToDelete, CountAdmins, DbError, Write, Disturb
  <2>. QED
    BY <2>1, <2>2 DEF Next
<1>3. TypeOK /\ ReadsHold /\ Calm /\ [Next]_vars => [AccountsNext]_users
  <2>. SUFFICES ASSUME TypeOK, ReadsHold, Calm, [Next]_vars, users' # users
                PROVE  AccountsNext
    OBVIOUS
  <2>1. PICK t \in Threads : Write(t)
    BY OnlyWrites DEF vars
  <2>. QED
    BY <2>1, WriteIsAtomic DEF Undisturbed
<1>4. Spec => [](TypeOK /\ ReadsHold)
  BY TypeInit, TypeStep, ReadsHoldInit, ReadsHoldStep, PTL DEF Spec
<1>. QED
  BY <1>1, <1>2, <1>3, <1>4, PTL DEF Spec, AccountsSpec

\* No step of the documented store takes its last account away: whoever is
\* deleted, an admin stays.
LEMMA AccountsStay ==
  ASSUME TypeOK, AccountsNext, ~Empty
  PROVE  ~Empty'
<1>1. ASSUME NEW name \in Names, NEW new \in Row, Put(name, new) PROVE ~Empty'
  BY <1>1, RowAssumption DEF Put, TypeOK, Empty, Exists
<1>2. ASSUME NEW name \in Names, NEW pass \in Passwords, SetUp(name, pass) PROVE ~Empty'
  BY <1>2 DEF SetUp
<1>3. ASSUME NEW name \in Names, NEW caller \in Names, NEW pass \in Passwords,
             NEW role \in Roles, Create(caller, name, role, pass)
      PROVE  ~Empty'
  <2>1. [role |-> role, pass |-> pass, servers |-> AllServers] \in Row
    BY ListAssumption DEF Row
  <2>. QED
    BY <1>1, <1>3, <2>1 DEF Create
<1>4. ASSUME NEW name \in Names, NEW caller \in Names, NEW change \in Changes,
             Update(caller, name, change)
      PROVE  ~Empty'
  <2>1. users[name] \in Row
    BY <1>4 DEF Update, Exists, TypeOK
  <2>2. Modify(users[name], change) \in Row
    BY <2>1, ModifyType
  <2>. QED
    BY <1>1, <1>4, <2>2 DEF Update
<1>5. ASSUME NEW name \in Names, NEW caller \in Names, Delete(caller, name)
      PROVE  ~Empty'
  <2>1. PICK other \in Names : other # name /\ Exists(other)
    <3>1. CASE caller # name
      BY <1>5, <3>1 DEF Delete, IsAdmin
    <3>2. CASE caller = name
      <4>1. name \in Admins /\ Admins # {name}
        BY <1>5, <3>2 DEF Delete, Admins
      <4>. QED
        BY <4>1 DEF Admins, IsAdmin
    <3>. QED
      BY <3>1, <3>2
  <2>2. users'[other] = users[other]
    BY <1>5, <2>1 DEF Delete, Put, TypeOK
  <2>. QED
    BY <2>1, <2>2 DEF Empty, Exists
<1>. QED
  BY <1>2, <1>3, <1>4, <1>5 DEF AccountsNext

\* What takes the last account is a delete that another write overlapped.
LEMMA OnlyDeletesEmpty ==
  ASSUME TypeOK, ReadsHold, NEW t \in Threads, Write(t), ~Empty, Empty'
  PROVE  req[t].op = "delete" /\ changed[t] # {}
<1>1. req[t].name \in Names /\ Put(req[t].name, row[t])
  BY RequestShape DEF Write, TypeOK
<1>2. row[t] = NoUser
  BY <1>1 DEF Put, TypeOK, Empty, Exists
<1>3. Shape(t) /\ req[t] \in Requests /\ pc[t] = "write"
  BY DEF ReadsHold, Held, Write, TypeOK
<1>4. req[t].op = "delete"
  BY <1>2, <1>3, RequestShape, RowAssumption DEF Shape
<1>5. changed[t] = {} => Undisturbed(t)
  BY <1>3, <1>4 DEF Shape, Undisturbed
<1>6. changed[t] # {}
  BY <1>5, WriteIsAtomic, AccountsStay
<1>. QED
  BY <1>4, <1>6

\* For every instance: however many requests run at a time and whichever of
\* their queries fail, only a delete that another write overlapped can take the
\* last account, and so open the setup again.
THEOREM SetupStaysClosed == Spec => NeverEmptied
<1>1. TypeOK /\ ReadsHold /\ [Next]_vars =>
        [~Empty /\ Empty' =>
           \E t \in Threads : Write(t) /\ req[t].op = "delete" /\ changed[t] # {}]_vars
  <2>. SUFFICES ASSUME TypeOK, ReadsHold, Next, ~Empty, Empty'
                PROVE  \E t \in Threads : Write(t) /\ req[t].op = "delete" /\ changed[t] # {}
    OBVIOUS
  <2>1. users' # users
    BY DEF Empty, Exists
  <2>2. PICK t \in Threads : Write(t)
    BY <2>1, OnlyWrites
  <2>. QED
    BY <2>2, OnlyDeletesEmpty
<1>2. Spec => [](TypeOK /\ ReadsHold)
  BY TypeInit, TypeStep, ReadsHoldInit, ReadsHoldStep, PTL DEF Spec
<1>. QED
  BY <1>1, <1>2, PTL DEF Spec, NeverEmptied

-----------------------------------------------------------------------------
(* The last admin *)

\* A write changes one row: an admin of another name stays one.
LEMMA OtherAdminsStay ==
  ASSUME TypeOK, NEW t \in Threads, Write(t), Admins' = {}
  PROVE  Admins \subseteq {req[t].name}
<1>1. req[t].name \in Names /\ Put(req[t].name, row[t])
  BY RequestShape DEF Write, TypeOK
<1>2. ASSUME NEW n \in Admins, n # req[t].name PROVE n \in Admins'
  BY <1>1, <1>2 DEF Admins, IsAdmin, Exists, Put, TypeOK
<1>. QED
  BY <1>2

\* A write that takes the last admin account demotes it, or overlapped another.
LEMMA LastAdminTaken ==
  ASSUME TypeOK, ReadsHold, NEW t \in Threads, Write(t), Admins # {}, Admins' = {}
  PROVE  /\ Admins = {req[t].name}
         /\ \/ req[t].op = "update" /\ req[t].change.role \in Roles \ {"admin"}
            \/ req[t].name \in changed[t]
            \/ req[t].op = "delete" /\ changed[t] # {}
<1>. DEFINE r == req[t]
<1>1. /\ r.op \in Ops /\ r.name \in Names /\ r.change \in Changes
      /\ Put(r.name, row[t]) /\ pc[t] = "write"
  BY RequestShape DEF Write, TypeOK
<1>2. Admins = {r.name} /\ IsAdmin(r.name) /\ Exists(r.name)
  <2>1. Admins = {r.name}
    BY OtherAdminsStay
  <2>. QED
    BY <1>1, <2>1 DEF Admins, IsAdmin
<1>. SUFFICES ASSUME r.name \notin changed[t], r.op = "delete" => changed[t] = {}
              PROVE  r.op = "update" /\ r.change.role \in Roles \ {"admin"}
  BY <1>2
<1>3. r.op = "update" /\ row[t] = Modify(users[r.name], r.change)
  <2>1. OwnRow(t) /\ (r.op = "delete" => Counted(t))
    BY DEF ReadsHold, Held
  <2>2. r.op # "delete"
    BY <1>1, <1>2, <2>1 DEF Counted
  <2>. QED
    BY <1>1, <1>2, <2>1, <2>2 DEF OwnRow, Ops
<1>4. users'[r.name] = row[t]
  BY <1>1 DEF Put, TypeOK
<1>5. row[t] # NoUser
  BY <1>1, <1>3 DEF ReadsHold, Held, Shape
<1>6. row[t].role # "admin"
  BY <1>1, <1>4, <1>5 DEF Admins, IsAdmin, Exists
<1>7. users[r.name].role = "admin"
  BY <1>2 DEF IsAdmin
<1>8. r.change.role # Keep /\ r.change.role # "admin"
  BY <1>3, <1>6, <1>7 DEF Modify, Modified
<1>. QED
  BY <1>1, <1>3, <1>8 DEF Changes

\* For every instance: whatever runs concurrently and whatever count fails, the
\* last admin account goes by an update that demotes it, by a request that
\* overlapped another for its name, or by a delete that overlapped another write.
THEOREM LastAdminIsDemoted == Spec => LastAdminGoesByDemotion
<1>1. TypeOK /\ ReadsHold /\ [Next]_vars =>
        [Admins # {} /\ Admins' = {} =>
           \E t \in Threads :
             LET r == req[t] IN
             /\ Write(t) /\ Admins = {r.name}
             /\ \/ r.op = "update" /\ r.change.role \in Roles \ {"admin"}
                \/ r.name \in changed[t]
                \/ r.op = "delete" /\ changed[t] # {}]_vars
  <2>. SUFFICES ASSUME TypeOK, ReadsHold, Next, Admins # {}, Admins' = {}
                PROVE  \E t \in Threads :
                         /\ Write(t) /\ Admins = {req[t].name}
                         /\ \/ req[t].op = "update" /\ req[t].change.role \in Roles \ {"admin"}
                            \/ req[t].name \in changed[t]
                            \/ req[t].op = "delete" /\ changed[t] # {}
    OBVIOUS
  <2>1. users' # users
    BY DEF Admins, IsAdmin, Exists
  <2>2. PICK t \in Threads : Write(t)
    BY <2>1, OnlyWrites
  <2>. QED
    BY <2>2, LastAdminTaken
<1>2. Spec => [](TypeOK /\ ReadsHold)
  BY TypeInit, TypeStep, ReadsHoldInit, ReadsHoldStep, PTL DEF Spec
<1>. QED
  BY <1>1, <1>2, PTL DEF Spec, LastAdminGoesByDemotion

=============================================================================
