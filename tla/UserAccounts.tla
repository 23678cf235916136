---------------------------- MODULE UserAccounts ----------------------------
(***************************************************************************)
(* What the user store promises (the comments of src/users.rs and the      *)
(* users_ handlers of src/handlers.rs): every request takes effect at      *)
(* once or not at all, on the accounts as they are at that moment.         *)
(* UserStore is the code, which takes the database lock once per query.    *)
(***************************************************************************)
EXTENDS Integers, FiniteSets

CONSTANTS
  Names,        \* usernames
  Roles,        \* "admin" and the lesser roles
  Passwords,
  ServerLists,  \* values of allowed_servers; AllServers is NULL
  AllServers,
  Keep,         \* a field a request leaves as it is
  NoUser        \* in place of the row of a name that has none

Row == [role : Roles, pass : Passwords, servers : ServerLists]

ASSUME RowAssumption  == NoUser \notin Row
ASSUME RoleAssumption == "admin" \in Roles
ASSUME ListAssumption == AllServers \in ServerLists
ASSUME KeepAssumption == Keep \notin Roles \cup Passwords \cup ServerLists

VARIABLE users  \* the users table: username -> row

Exists(name) == users[name] # NoUser
IsAdmin(name) == Exists(name) /\ users[name].role = "admin"
Admins == {name \in Names : IsAdmin(name)}
Empty == \A name \in Names : ~Exists(name)

\* What a request asks of the fields of a row.
Changes == [role : Roles \cup {Keep}, pass : Passwords \cup {Keep},
            servers : ServerLists \cup {Keep}]

Modified(old, new) == IF new = Keep THEN old ELSE new

Modify(old, change) ==
  [role    |-> Modified(old.role, change.role),
   pass    |-> Modified(old.pass, change.pass),
   servers |-> Modified(old.servers, change.servers)]

Put(name, new) == users' = [users EXCEPT ![name] = new]

-----------------------------------------------------------------------------
\* A fresh panel has no accounts.
AccountsInit == users = [name \in Names |-> NoUser]

\* The first admin: only when there is no account at all.
SetUp(name, pass) ==
  /\ Empty
  /\ Put(name, [role |-> "admin", pass |-> pass, servers |-> AllServers])

\* A new account, by an admin; fails if the username exists.
Create(caller, name, role, pass) ==
  /\ IsAdmin(caller) /\ ~Exists(name)
  /\ Put(name, [role |-> role, pass |-> pass, servers |-> AllServers])

\* A change to an account, by an admin or, the password, by its owner.
Update(caller, name, change) ==
  /\ \/ IsAdmin(caller)
     \/ caller = name /\ change.role = Keep /\ change.servers = Keep
  /\ Exists(name)
  /\ Put(name, Modify(users[name], change))

\* The end of an account, by an admin; never of the last admin.
Delete(caller, name) ==
  /\ IsAdmin(caller) /\ Exists(name)
  /\ IsAdmin(name) => Admins # {name}
  /\ Put(name, NoUser)

AccountsNext ==
  \E name, caller \in Names :
    \/ \E pass \in Passwords : \/ SetUp(name, pass)
                               \/ \E role \in Roles : Create(caller, name, role, pass)
    \/ \E change \in Changes : Update(caller, name, change)
    \/ Delete(caller, name)

AccountsSpec == AccountsInit /\ [][AccountsNext]_users
=============================================================================
