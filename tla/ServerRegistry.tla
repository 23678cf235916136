--------------------------- MODULE ServerRegistry ---------------------------
(***************************************************************************)
(* The server registry (src/registry.rs) and its handlers (servers_create, *)
(* servers_delete, start, stop, restart, config_set, set_opencl and        *)
(* backup_set in src/handlers.rs): the map of servers in memory, the       *)
(* directory of each server on disk, and the backup sidecar Docker runs    *)
(* for it.                                                                 *)
(*                                                                         *)
(* Requests run on several threads and nothing is locked but the map, for  *)
(* the time of one lookup, insert or removal.  A request is the sequence   *)
(* of its file operations, and fs::write is two of them: the file is       *)
(* opened, which empties it, and then filled.                              *)
(*                                                                         *)
(*   create   mkdir -> openjson -> filljson -> openfile -> fillfile        *)
(*            -> insert (-> load -> apply)                                 *)
(*   opencl   openjson -> filljson -> read (-> openfile -> fillfile)       *)
(*            -> reply                                                     *)
(*   backup   (mkdir ->) read -> openfile -> fillfile -> openjson          *)
(*            -> filljson -> reply -> load -> apply                        *)
(*   config   openfile -> fillfile -> reply                                *)
(*   start, stop, restart   load -> apply                                  *)
(*   delete   rm                                                           *)
(*                                                                         *)
(* load and apply are a run of docker compose, which reads the file and    *)
(* then acts on what it has read; that of backup is a task of its own,     *)
(* begun when the request has been answered.  Any operation may fail, and  *)
(* the panel may die between any two.                                      *)
(*                                                                         *)
(* gpu.sh has one content and is only ever added: its writes are left out. *)
(***************************************************************************)
EXTENDS ComposeFile

CONSTANTS
  Servers,    \* ids, each given out once
  Slots,      \* requests, and tasks they leave behind, at a time
  Ops,        \* what may be asked, a subset of OpKinds
  Faults,     \* what may go wrong, a subset of FaultKinds
  NoServer,   \* in place of the definition of a server that is not in the map
  Absent,     \* a file that does not exist
  Empty,      \* a server.json that has been opened and not yet filled
  Torn,       \* a server.json written over by another: no definition
  RequestBound \* bound: no more requests than this

OpKinds    == {"create", "delete", "opencl", "backup", "config", "start", "stop", "restart"}
FaultKinds == {"fail", "crash"}

Defs == [opencl : BOOLEAN, backup : Backups]

ASSUME ServersAssumption == Servers # {}
ASSUME OpsAssumption    == Ops \subseteq OpKinds
ASSUME FaultsAssumption == Faults \subseteq FaultKinds
ASSUME BoundAssumption  == RequestBound \in Nat
ASSUME ValueAssumption  ==
  /\ NoServer \notin Defs
  /\ {Absent, Empty, Torn} \cap Defs = {}
  /\ Absent \notin {Empty, Torn} /\ Empty # Torn /\ Absent \notin Texts

VARIABLES
  servers,  \* the map: the definitions as they were when they came into it
  dir,      \* the server's directory: "none", "made", or with "backups" in it
  json,     \* its server.json
  file,     \* its docker-compose.yml
  sidecar,  \* the sidecar's container, running or halted, if there is one
  job,      \* what each slot is doing, for which server
  def,      \* the definition a job is going to write
  text,     \* the compose text it is going to write, or to apply
  issued,   \* the ids given out
  begun,    \* the number of requests accepted
  kept,     \* history: servers whose create was answered and that no one has
            \*          asked to delete
  damaged,  \* history: a write of its server.json was cut short or overlapped,
            \*          and none has replaced it since
  skipped,  \* history: servers the last load left out for an error of its own
  gone,     \* history: servers whose delete was answered when no request was
            \*          about to make their directory
  lone,     \* history: the busy slots no other request has overlapped
  asked     \* history: the backup settings a lone request was last answered for

disk   == <<dir, json, file>>
work   == <<job, def, text>>
ghosts == <<kept, damaged, skipped, gone, lone, asked>>
taken  == <<issued, begun>>
vars   == <<servers, dir, json, file, sidecar, job, def, text, issued, begun,
            kept, damaged, skipped, gone, lone, asked>>

-----------------------------------------------------------------------------
Listed(s) == servers[s] # NoServer

NewDef == [opencl |-> FALSE, backup |-> Unset]
Idle == [op |-> "none", server |-> CHOOSE s \in Servers : TRUE, at |-> "idle"]

Busy(h) == job[h].at # "idle"
At(h, label) == job[h].at = label

\* The slots at work for a server, other than this one.
Others(h, s) == {k \in Slots \ {h} : Busy(k) /\ job[k].server = s}

\* No settings can be counted on once a second request is under way.
Unsettle(s) == asked' = [asked EXCEPT ![s] = Unset]

\* The step of a request that follows the one it is at.
After(op, at) ==
  CASE at = "mkdir"    -> IF op = "create" THEN "openjson" ELSE "read"
    [] at = "openjson" -> "filljson"
    [] at = "filljson" -> CASE op = "create" -> "openfile"
                            [] op = "opencl" -> "read"
                            [] OTHER -> "reply"
    [] at = "openfile" -> "fillfile"
    [] at = "fillfile" -> CASE op = "create" -> "insert"
                            [] op = "backup" -> "openjson"
                            [] OTHER -> "reply"

Goto(h, label) == job' = [job EXCEPT ![h].at = label]

\* A variant of GoOn (see the variants below): create inserts the server before
\* it has written the compose file.
GoOnUnwritten(h) ==
  Goto(h, IF job[h].op = "create" /\ At(h, "filljson") THEN "insert"
                                                      ELSE After(job[h].op, job[h].at))

GoOn(h) == Goto(h, After(job[h].op, job[h].at))

\* The slot is free again; what it held no longer matters.
Leave(h) ==
  /\ job' = [job EXCEPT ![h] = Idle]
  /\ def' = [def EXCEPT ![h] = NewDef]
  /\ text' = [text EXCEPT ![h] = <<>>]
  /\ lone' = lone \ {h}

\* What a file holds when a request fills it that another has filled since the
\* request opened it: the new bytes, and the end of the old where they were more.
Overlaid(old, new, mixed) == IF old = new THEN {new} ELSE {new, mixed}

CutOff(new) == IF Has(new, "remnant") THEN new ELSE Append(new, Remnant)

-----------------------------------------------------------------------------
(* Variants of the definitions below and above that each contain a mistake  *)
(* the code could contain.  No action uses them: they stand in for the      *)
(* definition of the same first name when a property is tested against that *)
(* mistake.                                                                 *)

\* delete answers whatever comes of remove_dir_all.
RemoveDirUnchecked(h) ==
  LET s == job[h].server IN
  /\ At(h, "rm")
  /\ gone' = IF \E k \in Others(h, s) : At(k, "mkdir") THEN gone ELSE gone \cup {s}
  /\ Leave(h)
  /\ UNCHANGED <<servers, disk, sidecar, taken, kept, damaged, skipped, asked>>

\* Disabling the sidecar runs the same `up -d' as enabling it.
RemovesOrphansNotForBackup(h) == job[h].op # "backup"

\* A write makes the directories it needs.
OpenJsonAnywhere(h) ==
  LET s == job[h].server IN
  /\ At(h, "openjson")
  /\ json' = [json EXCEPT ![s] = Empty]
  /\ damaged' = IF \E k \in Others(h, s) : At(k, "filljson") THEN damaged \cup {s}
                                                            ELSE damaged
  /\ GoOn(h)
  /\ UNCHANGED <<servers, dir, file, sidecar, def, text, taken, kept, skipped, gone, lone, asked>>

-----------------------------------------------------------------------------
\* No server, no directory.
Init ==
  /\ servers = [s \in Servers |-> NoServer]
  /\ dir = [s \in Servers |-> "none"]
  /\ json = [s \in Servers |-> Absent]
  /\ file = [s \in Servers |-> Absent]
  /\ sidecar = [s \in Servers |-> Off]
  /\ job = [h \in Slots |-> Idle]
  /\ def = [h \in Slots |-> NewDef]
  /\ text = [h \in Slots |-> <<>>]
  /\ issued = {} /\ begun = 0
  /\ kept = {} /\ damaged = {} /\ skipped = {} /\ gone = {} /\ lone = {}
  /\ asked = [s \in Servers |-> Unset]

\* A request for s is accepted with what it is going to write.
Accept(h, op, s, at, newDef, newText) ==
  /\ op \in Ops
  /\ begun < RequestBound /\ begun' = begun + 1
  /\ ~Busy(h)
  /\ job' = [job EXCEPT ![h] = [op |-> op, server |-> s, at |-> at]]
  /\ def' = [def EXCEPT ![h] = newDef]
  /\ text' = [text EXCEPT ![h] = newText]
  /\ lone' = (lone \ Others(h, s)) \cup IF Others(h, s) = {} THEN {h} ELSE {}
  /\ Unsettle(s)

\* create: a fresh id, and a definition and a compose file made from the form.
BeginCreate(h, s) ==
  /\ s \notin issued
  /\ issued' = issued \cup {s}
  /\ \E opencl \in BOOLEAN :
       Accept(h, "create", s, "mkdir", [NewDef EXCEPT !.opencl = opencl],
              <<Template(opencl)>>)
  /\ UNCHANGED <<servers, disk, sidecar, kept, damaged, skipped, gone>>

\* delete: the server leaves the map before its directory is touched.
BeginDelete(h, s) ==
  /\ Listed(s)
  /\ servers' = [servers EXCEPT ![s] = NoServer]
  /\ Accept(h, "delete", s, "rm", NewDef, <<>>)
  /\ kept' = kept \ {s}
  /\ UNCHANGED <<disk, sidecar, issued, damaged, skipped, gone>>

\* set_opencl, set_backup: the new definition is the one in the map, changed.
BeginOpencl(h, s) ==
  /\ Listed(s)
  /\ \E enabled \in BOOLEAN :
       Accept(h, "opencl", s, "openjson", [servers[s] EXCEPT !.opencl = enabled], <<>>)
  /\ UNCHANGED <<servers, disk, sidecar, issued, kept, damaged, skipped, gone>>

BeginBackup(h, s) ==
  /\ Listed(s)
  /\ \E cfg \in Configs \cup {Off} :
       Accept(h, "backup", s, IF cfg = Off THEN "read" ELSE "mkdir",
              [servers[s] EXCEPT !.backup = cfg], <<>>)
  /\ UNCHANGED <<servers, disk, sidecar, issued, kept, damaged, skipped, gone>>

\* What an operator makes of the file the page shows: a file of their own, or
\* the same with something added at the end (more of it adds nothing).
Edits(shown) == {<<Own>>, IF Has(shown, "own") THEN shown ELSE Append(shown, Own)}

\* config_set, from a page that config_get has just filled.
BeginConfig(h, s) ==
  /\ Listed(s) /\ file[s] # Absent
  /\ \E edited \in Edits(file[s]) : Accept(h, "config", s, "openfile", NewDef, edited)
  /\ UNCHANGED <<servers, disk, sidecar, issued, kept, damaged, skipped, gone>>

\* start, stop, restart: what they run reads the file for itself.
BeginCompose(h, s) ==
  /\ Listed(s)
  /\ \E op \in {"start", "stop", "restart"} : Accept(h, op, s, "load", NewDef, <<>>)
  /\ UNCHANGED <<servers, disk, sidecar, issued, kept, damaged, skipped, gone>>

-----------------------------------------------------------------------------
\* create_dir_all, of data/ or of backups/: also makes the directories above.
MakeDir(h) ==
  LET s == job[h].server IN
  /\ At(h, "mkdir")
  /\ dir' = [dir EXCEPT ![s] = IF job[h].op = "backup" THEN "backups" ELSE "made"]
  /\ GoOn(h)
  /\ UNCHANGED <<servers, json, file, sidecar, def, text, taken, ghosts>>

\* fs::write of server.json: open, then fill.
OpenJson(h) ==
  LET s == job[h].server IN
  /\ At(h, "openjson") /\ dir[s] # "none"
  /\ json' = [json EXCEPT ![s] = Empty]
  /\ damaged' = IF \E k \in Others(h, s) : At(k, "filljson") THEN damaged \cup {s}
                                                            ELSE damaged
  /\ GoOn(h)
  /\ UNCHANGED <<servers, dir, file, sidecar, def, text, taken, kept, skipped, gone, lone, asked>>

FillJson(h) ==
  LET s == job[h].server IN
  /\ At(h, "filljson")
  /\ \E now \in IF json[s] = Empty THEN {def[h]} ELSE Overlaid(json[s], def[h], Torn) :
       json' = [json EXCEPT ![s] = now]
  /\ damaged' = IF json[s] = Empty /\ \A k \in Others(h, s) : ~At(k, "filljson")
                THEN damaged \ {s} ELSE damaged
  /\ GoOn(h)
  /\ UNCHANGED <<servers, dir, file, sidecar, def, text, taken, kept, skipped, gone, lone, asked>>

\* fs::write of docker-compose.yml.
OpenFile(h) ==
  LET s == job[h].server IN
  /\ At(h, "openfile") /\ dir[s] # "none"
  /\ file' = [file EXCEPT ![s] = <<>>]
  /\ GoOn(h)
  /\ UNCHANGED <<servers, dir, json, sidecar, def, text, taken, ghosts>>

FillFile(h) ==
  LET s == job[h].server IN
  /\ At(h, "fillfile")
  /\ \E now \in IF file[s] = <<>> THEN {text[h]}
                ELSE Overlaid(file[s], text[h], CutOff(text[h])) :
       file' = [file EXCEPT ![s] = now]
  /\ GoOn(h)
  /\ UNCHANGED <<servers, dir, json, sidecar, def, text, taken, ghosts>>

\* set_opencl: a file that is not our template, or that is not there or cannot
\* be read, is left alone.
ReadToRegenerate(h) ==
  LET s == job[h].server
      current == IF file[s] = Absent THEN <<>> ELSE file[s] IN
  /\ At(h, "read") /\ job[h].op = "opencl"
  /\ \/ /\ IsTemplate(current)
        /\ Goto(h, "openfile")
        /\ text' = [text EXCEPT ![h] = Regenerate(def[h].opencl)]
     \/ /\ ~IsTemplate(current) \/ "fail" \in Faults
        /\ Goto(h, "reply") /\ UNCHANGED text
  /\ UNCHANGED <<servers, disk, sidecar, def, taken, ghosts>>

\* set_backup: the old block goes, the new one is appended.
ReadToAppend(h) ==
  LET s == job[h].server IN
  /\ At(h, "read") /\ job[h].op = "backup" /\ file[s] # Absent
  /\ Goto(h, "openfile")
  /\ text' = [text EXCEPT ![h] = WithBackup(file[s], def[h].backup)]
  /\ UNCHANGED <<servers, disk, sidecar, def, taken, ghosts>>

\* The files a request needs are gone, or docker compose does not take them: it
\* answers with an error.
NotFound(h) ==
  LET s == job[h].server IN
  /\ \/ (At(h, "openjson") \/ At(h, "openfile")) /\ dir[s] = "none"
     \/ At(h, "read") /\ job[h].op = "backup" /\ file[s] = Absent
     \/ At(h, "load") /\ (IF file[s] = Absent THEN TRUE ELSE Refusable(file[s]))
  /\ Leave(h)
  /\ Unsettle(s)
  /\ UNCHANGED <<servers, disk, sidecar, taken, kept, damaged, skipped, gone>>

\* The new server enters the map; with start_now it is started, too.
Insert(h) ==
  LET s == job[h].server IN
  /\ At(h, "insert")
  /\ servers' = [servers EXCEPT ![s] = def[h]]
  /\ kept' = kept \cup {s}
  /\ \/ Goto(h, "load") /\ UNCHANGED <<def, text, lone>>
     \/ Leave(h)
  /\ UNCHANGED <<disk, sidecar, taken, damaged, skipped, gone, asked>>

\* The settings are answered for.  For backup a task is left behind, unless the
\* server has left the map.
Reply(h) ==
  LET s == job[h].server IN
  /\ At(h, "reply")
  /\ IF job[h].op = "backup" /\ Listed(s)
     THEN /\ Goto(h, "load") /\ UNCHANGED <<def, text, lone>>
          /\ asked' = [asked EXCEPT ![s] = IF h \in lone THEN def[h].backup ELSE Unset]
     ELSE /\ Leave(h) /\ UNCHANGED asked
  /\ UNCHANGED <<servers, disk, sidecar, taken, kept, damaged, skipped, gone>>

-----------------------------------------------------------------------------
\* docker compose reads the file ...
Load(h) ==
  LET s == job[h].server IN
  /\ At(h, "load") /\ file[s] # Absent /\ Runnable(file[s])
  /\ text' = [text EXCEPT ![h] = file[s]]
  /\ Goto(h, "apply")
  /\ UNCHANGED <<servers, disk, sidecar, def, taken, ghosts>>

\* --remove-orphans: always but when the sidecar is being enabled.
RemovesOrphans(h) == job[h].op = "backup" => def[h].backup = Off

\* ... and brings Docker to it.  `up -d' leaves containers of services that are no
\* longer in it, unless told otherwise; `stop' and `restart' are about the services
\* in it, and about containers that exist: a restart brings back the one there is.
Outcomes(h, now, found) ==
  CASE job[h].op = "stop"    -> IF found # {} /\ now \in Configs THEN {Halted(now)} ELSE {now}
    [] job[h].op = "restart" -> IF found # {} THEN {Awake(now)} ELSE {now}
    [] OTHER                 -> IF found # {} THEN found
                                ELSE IF RemovesOrphans(h) THEN {Off} ELSE {now}

Apply(h) ==
  LET s == job[h].server IN
  /\ At(h, "apply")
  /\ \E after \in Outcomes(h, sidecar[s], Sidecars(text[h])) :
       sidecar' = [sidecar EXCEPT ![s] = after]
  /\ Leave(h)
  /\ UNCHANGED <<servers, disk, taken, kept, damaged, skipped, gone, asked>>

-----------------------------------------------------------------------------
(* remove_dir_all takes the entries away in the order of the directory, and *)
(* the directory itself last.  A file that is removed between being opened  *)
(* and being filled is as if it were filled and then removed: the guards    *)
(* leave only the second order.                                             *)

RemoveJson(h) ==
  LET s == job[h].server IN
  /\ At(h, "rm") /\ json[s] # Absent
  /\ \A k \in Others(h, s) : ~At(k, "filljson")
  /\ json' = [json EXCEPT ![s] = Absent]
  /\ UNCHANGED <<servers, dir, file, sidecar, work, taken, ghosts>>

RemoveFile(h) ==
  LET s == job[h].server IN
  /\ At(h, "rm") /\ file[s] # Absent
  /\ \A k \in Others(h, s) : ~At(k, "fillfile")
  /\ file' = [file EXCEPT ![s] = Absent]
  /\ UNCHANGED <<servers, dir, json, sidecar, work, taken, ghosts>>

RemoveBackups(h) ==
  LET s == job[h].server IN
  /\ At(h, "rm") /\ dir[s] = "backups"
  /\ dir' = [dir EXCEPT ![s] = "made"]
  /\ UNCHANGED <<servers, json, file, sidecar, work, taken, ghosts>>

\* rmdir succeeds on an empty directory only, and then delete answers.
RemoveDir(h) ==
  LET s == job[h].server IN
  /\ At(h, "rm")
  /\ dir[s] # "backups" /\ json[s] = Absent /\ file[s] = Absent
  /\ dir' = [dir EXCEPT ![s] = "none"]
  /\ gone' = IF \E k \in Others(h, s) : At(k, "mkdir") THEN gone ELSE gone \cup {s}
  /\ Leave(h)
  /\ UNCHANGED <<servers, json, file, sidecar, taken, kept, damaged, skipped, asked>>

-----------------------------------------------------------------------------
\* An operation fails (an error of the disk, of Docker): the request stops
\* there and answers with the error; a file it was filling stays empty.
Fail(h) ==
  LET s == job[h].server IN
  /\ "fail" \in Faults
  /\ Busy(h) /\ ~At(h, "reply")
  /\ damaged' = IF At(h, "filljson") THEN damaged \cup {s} ELSE damaged
  /\ Unsettle(s)
  /\ Leave(h)
  /\ UNCHANGED <<servers, disk, sidecar, taken, kept, skipped, gone>>

\* ServerRegistry::load: every server.json that is a definition, no other, and of
\* these not the ones where reading the file or build_instance, which connects to
\* Docker, has failed: load goes on to the next.
Loaded(s, failed) == IF json[s] \in Defs /\ s \notin failed THEN json[s] ELSE NoServer

LoadErrors == IF "fail" \in Faults THEN SUBSET {s \in Servers : json[s] \in Defs} ELSE {{}}

\* The panel dies, at any step, and is started again.  A docker compose that is
\* running is a process of its own and goes on.
Crash ==
  LET live == {h \in Slots : At(h, "apply")} IN
  /\ "crash" \in Faults
  /\ \E failed \in LoadErrors :
       /\ servers' = [s \in Servers |-> Loaded(s, failed)]
       /\ skipped' = failed
  /\ job' = [h \in Slots |-> IF h \in live THEN job[h] ELSE Idle]
  /\ def' = [h \in Slots |-> IF h \in live THEN def[h] ELSE NewDef]
  /\ text' = [h \in Slots |-> IF h \in live THEN text[h] ELSE <<>>]
  /\ damaged' = damaged \cup {job[h].server : h \in {k \in Slots : At(k, "filljson")}}
  /\ asked' = [s \in Servers |->
                 IF \E h \in Slots : Busy(h) /\ job[h].server = s THEN Unset ELSE asked[s]]
  /\ lone' = lone \cap live
  /\ UNCHANGED <<disk, sidecar, taken, kept, gone>>

-----------------------------------------------------------------------------
Request(h) ==
  \E s \in Servers :
    \/ BeginCreate(h, s) \/ BeginDelete(h, s) \/ BeginOpencl(h, s)
    \/ BeginBackup(h, s) \/ BeginConfig(h, s) \/ BeginCompose(h, s)

Serve(h) ==
  \/ MakeDir(h) \/ OpenJson(h) \/ FillJson(h) \/ OpenFile(h) \/ FillFile(h)
  \/ ReadToRegenerate(h) \/ ReadToAppend(h) \/ NotFound(h)
  \/ Insert(h) \/ Reply(h) \/ Load(h) \/ Apply(h)
  \/ RemoveJson(h) \/ RemoveFile(h) \/ RemoveBackups(h) \/ RemoveDir(h)

Next == (\E h \in Slots : Request(h) \/ Serve(h) \/ Fail(h)) \/ Crash

Spec == Init /\ [][Next]_vars

-----------------------------------------------------------------------------
\* Every variable has its type, and files lie in a directory that exists.
TypeOK ==
  /\ servers \in [Servers -> Defs \cup {NoServer}]
  /\ dir \in [Servers -> {"none", "made", "backups"}]
  /\ json \in [Servers -> Defs \cup {Absent, Empty, Torn}]
  /\ file \in [Servers -> Texts \cup {Absent}]
  /\ \A s \in Servers : dir[s] = "none" => json[s] = Absent /\ file[s] = Absent
  /\ sidecar \in [Servers -> Containers]
  /\ job \in [Slots -> [op : OpKinds \cup {"none"}, server : Servers,
                        at : {"idle", "mkdir", "openjson", "filljson", "openfile",
                              "fillfile", "read", "insert", "reply", "load",
                              "apply", "rm"}]]
  /\ def \in [Slots -> Defs]
  /\ text \in [Slots -> Texts]
  /\ issued \subseteq Servers /\ begun \in Nat
  /\ kept \cup damaged \cup skipped \cup gone \subseteq issued
  /\ lone \subseteq {h \in Slots : Busy(h)}
  /\ asked \in [Servers -> Backups]

\* A server whose create was answered stays, whatever settings are saved, fails
\* or is restarted, until someone asks to delete it.  It has a compose file, and
\* a server.json that would be loaded: only a write that was cut short or
\* overlapped another can break that, until the next write of it.  And it is in
\* the map, unless the last load left it out, or found it so broken.
CreatedIsKept ==
  \A s \in kept :
    /\ file[s] # Absent
    /\ s \notin damaged =>
         /\ json[s] \in Defs \/ \E h \in Slots : job[h].server = s /\ At(h, "filljson")
         /\ Listed(s) \/ s \in skipped

\* A server whose delete was answered does not come back, by a restart or by
\* requests that go on with the instance they looked up before: of these only a
\* set_backup that has yet to make its directory makes one again.
DeletedStaysGone == \A s \in gone : ~Listed(s) /\ dir[s] = "none"

\* When the settings of a lone request are answered for and its task is over and
\* has succeeded, the sidecar runs as they say, until the next request.
BackupSettles ==
  \A s \in Servers :
    asked[s] # Unset => \/ sidecar[s] = asked[s]
                        \/ \E h \in Slots : Busy(h) /\ job[h].server = s

\* What `docker compose up' on this text makes of the sidecar is what these
\* settings ask for.
Provides(t, backup) == Sidecars(t) = IF backup \in Configs THEN {backup} ELSE {}

\* The settings a lone request was answered for are in server.json, which the
\* next start of the panel reads, and in the compose file, which the next start
\* of the server reads: one of the two writes alone is never answered for.
SettingsAgree ==
  \A s \in Servers : asked[s] # Unset =>
    /\ json[s] \in Defs /\ json[s].backup = asked[s]
    /\ Provides(file[s], asked[s])

\* set_opencl: "Rewrites server.json + docker-compose.yml to add/remove GPU
\* support."  It leaves the other settings in server.json as they are.
OpenclKeepsBackup ==
  [][\A h \in Slots :
       OpenJson(h) /\ job[h].op = "opencl" /\ json[job[h].server] \in Defs
         => def[h].backup = json[job[h].server].backup]_vars

=============================================================================
