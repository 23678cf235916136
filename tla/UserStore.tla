----------------------------- MODULE UserStore -----------------------------
(***************************************************************************)
(* The user store (src/users.rs) under concurrent requests (setup_create   *)
(* and the users_ handlers of src/handlers.rs).  Each query takes the      *)
(* database lock on its own, so a request is a sequence of atomic steps    *)
(* between which other requests run:                                       *)
(*                                                                         *)
(*   setup            empty -> read -> write                               *)
(*   create, update   auth -> read -> write                                *)
(*   delete           auth -> read -> (count ->) write                     *)
(*                                                                         *)
(* update covers users_update, users_change_password and users_set_servers,*)
(* which write the whole row back after changing fields of it.  The        *)
(* accounts are durable and nothing else is kept, so a panel that dies in  *)
(* the middle of a request is a request that stops with an error.  Empty   *)
(* usernames and passwords are refused before any query: a stutter.        *)
(***************************************************************************)
EXTENDS UserAccounts

CONSTANTS
  Threads,   \* requests served at a time
  CountFails \* may the count behind is_empty() fail (and be taken for zero)?

ASSUME CountFailsAssumption == CountFails \in BOOLEAN

VARIABLES
  pc,     \* where each request is
  req,    \* what it asks for
  row,    \* the row it is going to write back
  changed,    \* history: the names whose row another request wrote since it began
  miscounted  \* history: the requests whose count of accounts failed

overlaps == <<changed, miscounted>>
vars == <<users, pc, req, row, changed, miscounted>>

Ops == {"setup", "create", "update", "delete"}

Untouched == [role |-> Keep, pass |-> Keep, servers |-> Keep]

\* The requests the handlers pass on to the store.
Requests ==
  {r \in [op : Ops, caller : Names, name : Names, change : Changes] :
     LET c == r.change IN
       /\ r.op \in {"setup", "create"} =>
            c.role # Keep /\ c.pass # Keep /\ c.servers = AllServers
       /\ r.op = "setup" => c.role = "admin" /\ r.caller = r.name
       /\ r.op = "update" => c.servers = Keep \/ (c.role = Keep /\ c.pass = Keep)
       /\ r.op = "delete" => c = Untouched}

NoRequest == [op |-> "none"]

\* The request goes on to its next query.
Goto(t, label) == pc' = [pc EXCEPT ![t] = label]

\* The handler answers, with success or with an error.
Answer(t) ==
  /\ pc' = [pc EXCEPT ![t] = "idle"]
  /\ req' = [req EXCEPT ![t] = NoRequest]
  /\ row' = [row EXCEPT ![t] = NoUser]

\* What the other requests in flight have read of this row may no longer be so.
Disturb(t) ==
  changed' = [u \in Threads |->
                IF u = t \/ pc[u] = "idle" THEN {} ELSE changed[u] \cup {req[t].name}]

-----------------------------------------------------------------------------
(* Variants of the actions below that each contain a mistake the code could *)
(* contain.  No action uses them: they stand in for the action of the same  *)
(* first name when a property is tested against that mistake.               *)

\* update writes the fields of the request without those it keeps.
ReadToUpdateUnmerged(t) ==
  /\ pc[t] = "read" /\ req[t].op = "update"
  /\ IF Exists(req[t].name)
     THEN /\ Goto(t, "write")
          /\ row' = [row EXCEPT ![t] = req[t].change]
          /\ UNCHANGED req
     ELSE Answer(t)
  /\ UNCHANGED <<users, overlaps>>

\* delete does not count the admins.
ReadToDeleteUncounted(t) ==
  /\ pc[t] = "read" /\ req[t].op = "delete"
  /\ IF Exists(req[t].name)
     THEN Goto(t, "write") /\ UNCHANGED <<req, row>>
     ELSE Answer(t)
  /\ UNCHANGED <<users, overlaps>>

\* delete compares with `< 1'.
CountAdminsOffByOne(t) ==
  /\ pc[t] = "count"
  /\ IF Cardinality(Admins) < 1
     THEN Answer(t)
     ELSE Goto(t, "write") /\ UNCHANGED <<req, row>>
  /\ UNCHANGED <<users, overlaps>>

\* create leaves the check of the name to the insert, which overwrites.
ReadToCreateUnchecked(t) ==
  /\ pc[t] = "read" /\ req[t].op \in {"setup", "create"}
  /\ Goto(t, "write")
  /\ row' = [row EXCEPT ![t] = req[t].change]
  /\ UNCHANGED <<users, req, overlaps>>

\* The owner of an account may change any field of it.
AllowedToOwner(t) ==
  LET r == req[t] IN
    IsAdmin(r.caller) \/ (r.op = "update" /\ r.caller = r.name)

-----------------------------------------------------------------------------
Init ==
  /\ AccountsInit
  /\ pc = [t \in Threads |-> "idle"]
  /\ req = [t \in Threads |-> NoRequest]
  /\ row = [t \in Threads |-> NoUser]
  /\ changed = [t \in Threads |-> {}] /\ miscounted = {}

\* A handler begins; setup needs no caller.
Begin(t, r) ==
  /\ pc[t] = "idle"
  /\ req' = [req EXCEPT ![t] = r]
  /\ changed' = [changed EXCEPT ![t] = {}] /\ miscounted' = miscounted \ {t}
  /\ Goto(t, IF r.op = "setup" THEN "empty" ELSE "auth")
  /\ UNCHANGED <<users, row>>

\* setup_create: is_empty().
CheckEmpty(t) ==
  /\ pc[t] = "empty"
  /\ IF Empty THEN Goto(t, "read") /\ UNCHANGED <<req, row>> ELSE Answer(t)
  /\ UNCHANGED <<users, overlaps>>

\* The count behind is_empty() fails and is unwrapped to zero.
CheckEmptyFails(t) ==
  /\ CountFails
  /\ pc[t] = "empty"
  /\ Goto(t, "read")
  /\ miscounted' = miscounted \cup {t}
  /\ UNCHANGED <<users, req, row, changed>>

\* is_admin(), or the owner changing the password only.
Allowed(t) ==
  LET r == req[t] IN
    \/ IsAdmin(r.caller)
    \/ /\ r.op = "update" /\ r.caller = r.name
       /\ r.change.role = Keep /\ r.change.servers = Keep

Authorise(t) ==
  /\ pc[t] = "auth"
  /\ IF Allowed(t) THEN Goto(t, "read") /\ UNCHANGED <<req, row>> ELSE Answer(t)
  /\ UNCHANGED <<users, overlaps>>

\* users_all() in create: bail if the name is taken, else build the new row.
ReadToCreate(t) ==
  /\ pc[t] = "read" /\ req[t].op \in {"setup", "create"}
  /\ IF Exists(req[t].name)
     THEN Answer(t)
     ELSE /\ Goto(t, "write")
          /\ row' = [row EXCEPT ![t] = req[t].change]
          /\ UNCHANGED req
  /\ UNCHANGED <<users, overlaps>>

\* users_all() in update and set_allowed_servers: change a copy of the row.
ReadToUpdate(t) ==
  /\ pc[t] = "read" /\ req[t].op = "update"
  /\ IF Exists(req[t].name)
     THEN /\ Goto(t, "write")
          /\ row' = [row EXCEPT ![t] = Modify(users[req[t].name], req[t].change)]
          /\ UNCHANGED req
     ELSE Answer(t)
  /\ UNCHANGED <<users, overlaps>>

\* users_all() in delete: an admin needs the count, anyone else may go.
ReadToDelete(t) ==
  /\ pc[t] = "read" /\ req[t].op = "delete"
  /\ IF Exists(req[t].name)
     THEN /\ Goto(t, IF IsAdmin(req[t].name) THEN "count" ELSE "write")
          /\ UNCHANGED <<req, row>>
     ELSE Answer(t)
  /\ UNCHANGED <<users, overlaps>>

\* admin_count() in delete: not the last admin.
CountAdmins(t) ==
  /\ pc[t] = "count"
  /\ IF Cardinality(Admins) <= 1
     THEN Answer(t)
     ELSE Goto(t, "write") /\ UNCHANGED <<req, row>>
  /\ UNCHANGED <<users, overlaps>>

\* user_upsert(), which inserts or overwrites, or user_delete().
Write(t) ==
  /\ pc[t] = "write"
  /\ Put(req[t].name, row[t])
  /\ Answer(t)
  /\ Disturb(t)
  /\ UNCHANGED miscounted

\* Any other query fails: the request answers with an error (an is_admin() that
\* cannot read the accounts says no).
DbError(t) ==
  /\ pc[t] \in {"auth", "read", "count", "write"}
  /\ Answer(t)
  /\ UNCHANGED <<users, overlaps>>

Serve(t) ==
  \/ CheckEmpty(t) \/ CheckEmptyFails(t) \/ Authorise(t)
  \/ ReadToCreate(t) \/ ReadToUpdate(t) \/ ReadToDelete(t)
  \/ CountAdmins(t) \/ Write(t) \/ DbError(t)

Next ==
  \E t \in Threads : Serve(t) \/ \E r \in Requests : Begin(t, r)

Spec == Init /\ [][Next]_vars

-----------------------------------------------------------------------------
\* Every variable has its type.
TypeOK ==
  /\ users \in [Names -> Row \cup {NoUser}]
  /\ pc \in [Threads -> {"idle", "empty", "auth", "read", "count", "write"}]
  /\ req \in [Threads -> Requests \cup {NoRequest}]
  /\ \A t \in Threads : req[t] = NoRequest <=> pc[t] = "idle"
  /\ row \in [Threads -> Row \cup {NoUser}]
  /\ changed \in [Threads -> SUBSET Names] /\ miscounted \subseteq Threads

\* The rows a request's checks are about, as they are when it writes: all of them
\* where accounts or admins were counted, else the caller's and its own.
Relied(t) ==
  LET r == req[t] IN
    IF r.op = "setup" \/ (r.op = "delete" /\ IsAdmin(r.name))
    THEN Names ELSE {r.caller, r.name}

\* Whatever runs concurrently, a request takes effect as the documented store's
\* would, unless another wrote one of the very rows its checks are about: writes
\* to the accounts of others never disturb it.
UndisturbedIsAtomic ==
  [][\A t \in Threads :
       Write(t) /\ Relied(t) \cap changed[t] = {} /\ t \notin miscounted => AccountsNext]_vars

\* No update is lost, and no account overwritten or brought back, but by requests
\* for one and the same name that overlap.  Whatever else has changed meanwhile,
\* the caller or the admins, and whatever count has failed, a setup or create
\* writes where there is no account, and an update keeps what it was not asked
\* to change.
NothingIsUndone ==
  [][\A t \in Threads :
       LET r == req[t] IN
       Write(t) /\ r.name \notin changed[t] =>
         IF r.op \in {"setup", "create"} THEN ~Exists(r.name)
         ELSE /\ Exists(r.name)
              /\ r.op = "update" => users'[r.name] = Modify(users[r.name], r.change)]_vars

\* Once there is an account there is always one, so that setup stays closed:
\* only a delete during which another account was changed, or two that count
\* before either writes, can take the last one.
NeverEmptied ==
  [][~Empty /\ Empty' =>
       \E t \in Threads : Write(t) /\ req[t].op = "delete" /\ changed[t] # {}]_vars

\* Whatever runs concurrently, and whatever count fails, the last admin account
\* goes only by an update that gives that one account a lesser role (update()
\* counts no admins), by a request that overlapped another for its name, or by a
\* delete that overlapped any other write.
LastAdminGoesByDemotion ==
  [][Admins # {} /\ Admins' = {} =>
       \E t \in Threads :
         LET r == req[t] IN
         /\ Write(t) /\ Admins = {r.name}
         /\ \/ r.op = "update" /\ r.change.role \in Roles \ {"admin"}
            \/ r.name \in changed[t]
            \/ r.op = "delete" /\ changed[t] # {}]_vars

\* delete: "Fails if trying to delete the last admin."
LastAdminStays ==
  [][\A t \in Threads :
       Write(t) /\ req[t].op = "delete" /\ IsAdmin(req[t].name) => Admins' # {}]_vars

=============================================================================
