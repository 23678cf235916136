# Miyoubi Panel: specifications

TLA+ models of Miyoubi Panel, a self-hosted web panel (Rust, axum, tokio,
SQLite, Docker) for Minecraft servers, with model-checking configurations for
TLC and proofs for TLAPS. Paths below are relative to the repository, which is
the directory `src/` next to this one; `src/src/` is its Rust source.

## 1. The system and its parts

One process serves HTTP on a tokio runtime. Each handler is a task; each
managed server has one more task, its log pump; a death notice spawns a short
task. What the tasks share is a `Db` handle (one SQLite connection behind one
mutex, taken and released once per query), one `LogBuffer` per server, and the
registry's map of servers.

| Component | State | Operations | What makes it hard | What makes it correct |
|---|---|---|---|---|
| Console log buffer (`logbuffer.rs`, `console_log` in `db.rs`) | 2000 lines in memory, 2000 rows in the table, a broadcast channel of 1024 | `push`, `push_history`, `clear`, `snapshot`, `subscribe`, load at start | two stores under two locks, never both held; a statement may fail; the process may die between any two steps | the stores agree; history survives a restart; dedup drops recent repeats and nothing else; a cleared line stays cleared |
| Console SSE stream (`stream_logs`) | a broadcast receiver and a snapshot per connection | subscribe, snapshot, receive, lag, drop | runs against the pushes; slow readers are overtaken | no gap between snapshot and live lines |
| User store (`users.rs`, the `users_` handlers, `setup_create`) | the `users` table | set up, create, update, set servers, delete, look up | check and write are separate queries; requests overlap | never without an account again; never without an admin by deletion; a name is created once |
| Log pump (`registry.rs` 119-206, `docker.rs` 182-264) | which Docker stream it reads, and from where | replay history, attach, sleep, retry | races with start, restart and clear; Docker closes streams | lines of a session reach the buffer once and in order |
| Activity and death log (`logbuffer.rs` 204-243, 284-329) | `player_activity`, `player_deaths` | append, prune, clear, look up the location later | the lookup runs 800 ms later and asks by name; statements fail one by one | each table is a capped log in order; a place belongs to the player of its row; no row is forgotten |
| Server registry (`registry.rs`) | map of instances, `server.json`, compose files | create, delete, load, set OpenCL, set backup, edit the compose file, start, stop, restart | no lock is held over the file operations; a write empties the file first; settings are written from the definition read at start | a created server stays, a deleted one stays away, the sidecar runs as last asked |
| Compose file and backup block (`backup.rs`, `registry.rs`) | text of `docker-compose.yml` | generate, regenerate, strip and append the block | regeneration and the block know nothing of each other; operators edit the file | as for the registry, whose actions use it |
| TLS setup and renewal (`setup.rs`, `main.rs`) | `tls_config` row, a flag file | wizard, reload | two files replaced and read one after the other; the flag is removed after the reload | the last certificate is served in the end; a choice is made once and can be made again |
| File browser (`files.rs`) | the server's data directory | list, read, write, rename | path normalisation | paths stay below the root |
| Mod manager, dashboard, status, appearance | directory contents; one settings row | mostly reads | little | |
| Browser console (`static/index.html`) | an `EventSource` per page | reconnect, replay, clear | reconnect repeats the snapshot | the screen shows the buffer |

The pump calls `push_history` and `push`; the start, restart and clear handlers
call `clear` and `push`; streams call `subscribe` and then `snapshot`; `push`
writes to the table through `Db` and to the streams through the channel. The
user handlers and the setup page call `UserStore`, which calls `Db`. The
registry's handlers write the files of a server and run docker compose, which
reads them.

## 2. The modules

| Module | Content |
|---|---|
| `LogBuffer` | the buffer, its table, the channel and the streams, one step per lock |
| `MCLogBuffer` | model values and symmetry for `LogBuffer` |
| `LogBufferProofs` | theorems about `LogBuffer` |
| `LogPump` | the log pump, the container it follows, and the handlers that start, stop, restart and clear |
| `MCLogPump` | model values and symmetry for `LogPump` |
| `LogPumpProofs` | theorems about `LogPump` |
| `SequenceFacts` | lemmas on sequences, for all proofs |
| `UserAccounts` | the user store as its comments promise it: each request atomic |
| `UserStore` | the user store as it is written, one step per query, with `UserAccounts` as what it should implement |
| `MCUserStore` | model values and symmetry for `UserStore` |
| `UserStoreProofs` | theorems about `UserStore` |
| `ActivityLog` | the rows a player event adds, their caps, and the delayed lookup of a death's place |
| `CappedLog` | what the comments on these tables, and on the buffer, promise: an ordered log of the newest rows |
| `MCActivityLog` | model values for `ActivityLog` |
| `ActivityLogProofs` | theorems about `ActivityLog` |
| `ComposeFile` | a compose file as a sequence of blocks, and the functions that rewrite it |
| `ServerRegistry` | the map of servers, their directories and their sidecars, one step per file operation |
| `MCServerRegistry` | model values and symmetry for `ServerRegistry` |
| `ServerRegistryProofs` | theorems about `ServerRegistry` |
| `PanelStartup` | the start of the panel, the TLS wizard, certificate renewal |
| `MCPanelStartup` | the module TLC checks for `PanelStartup` |
| `PanelStartupProofs` | theorems about `PanelStartup` |

### LogBuffer

A thread is a task inside `push_inner` or `clear`; `pc` says which lock it
takes next.

- `Push` is the part before the lock: the text is sanitised and `Instant::now()`
  is read (`arg`). `Drop` and `Accept` are the two outcomes of the critical
  section. `Insert`, `Prune` (or `InsertFails`, `PruneFails`) are the two
  statements of `log_append`, which holds the connection from one to the other
  (`DbFree`). They are two steps since SQLite commits each by itself and the
  process can die between them. `Send` is `tx.send`.
- `ClearMem`, then `ClearDb` or `ClearDbFails`, is `clear`.
- `Subscribe`, `Snapshot`, `Recv`, `Lagged`, `Disconnect` are a connection of
  `stream_logs`. The tokio channel is the sequence `sent` with a cursor per
  receiver, the last `ChanCap` messages being those still held.
- `Crash` is the death of the process and the next `LogBuffer::new`, at any
  step; `CrashLoadFails` is the same with `unwrap_or_default` in effect.
- `Tick` advances the clock.

A line is named by the number it got when it was accepted; only its text and
time matter. `kind` is not modelled: nothing in the buffer looks at it except
the activity parser, which is not part of this module. An Instant is a tick,
and `duration_since` saturates at zero as it does in Rust.

Three variables are history, read by the properties only: `line` (what was
accepted), `parted` (lines that a clear, a failed statement or a cap has put on
one side only) and `missed` (lines a connection is excused from). `line` is also what `buf` and `rows` point into.

### LogPump

One server's pump, one container, and requests at `Handlers`. `pump` is the
point `stream_logs_to_buffer` or `pump_logs` waits at: `connect`, `replay`
(`docker logs`), `attach`, `live` (the attach stream), `sleep`; `off` while no
panel runs. `tail` is the local variable of `pump_logs`. `stream` is what
Docker has sent and the pump has not read; `open` says that Docker feeds it.

- `Connect`, `Replay`, `EndOfHistory` are phase 1, `Attach`, `Recv` phase 2.
  `EndOfStream` is `Ok(())`, `StreamFails` an error of the stream, and
  `AttachFails` an error of `attach_container`. The last always takes the final
  branch of `pump_logs`: `to_string` of the error gives the context
  "attaching to container output stream", never the cause it looks for.
- `Begin`, `ComposeUp`, `ComposeStop`, `ComposeFails`, `Clear` are the handlers.
  What docker compose does to the container is a step before the handler goes
  on; a restart is a stop and an up. A command may fail before or after its
  effect. `clear` is one step.
- `Emit`, `Exit`, `DaemonStart` are the container and Docker's restart policy;
  `PanelStops` and `PanelStarts` the panel's process; `Expire` is time.

A line is its number in the container's output, so all lines differ, and each
stands for an event that `player_activity` would get. A server that repeats a
text within two seconds is the business of `LogBuffer`, as are the steps
inside `push` and the caps. The "[panel]" lines of the handlers are left out:
they meet no container line. So are empty lines and the server's chatter about
RCON: `is_rcon_noise` drops them in both phases (`docker.rs:210`, `251`) before
the buffer sees them. They count among the 500 lines `docker logs` gives, which
may hold fewer lines of the model for it. `recent` replaces the clock: the lines stamped
less than `DEDUP_WINDOW` ago, all of which expire together. A line of a later
connection is new anyway, so expiring some before others would change nothing.
Every sleep of the pump is at least the window, so `Wake` empties `recent`.
Docker may or may not grant a stream on a container that is down, so both
`Attach` and `AttachFails` are possible there. Recreating or removing the
container, which empties Docker's log, is not modelled. `pushed` (what this
process has given to the buffer), `owed` and `late` are history.

### UserAccounts and UserStore

`UserAccounts` has one variable, the table, and one atomic action per request.
`UserStore` EXTENDS it and runs each request as its queries: the caller's role
(`Authorise`), `users_all` (`ReadTo...`), `admin_count` for an admin to be
deleted, then `user_upsert` or `user_delete` (`Write`). `setup_create` starts
with `is_empty`. The three updating handlers are one operation with a record of
the fields they change, because all of them write the whole row back. Refusals
before the first query (an empty name, a missing password) change nothing and
are not steps. `DbError` is a query that fails; `CheckEmptyFails` is the one
query whose failure is not an error, since `is_empty` unwraps it to zero.
`changed`, the names whose row another request wrote since this one began, and
`miscounted`, whether its count of accounts failed, are history.

### ActivityLog and CappedLog

One server's pump, its two tables and the lookup tasks. `pump` is where
`push_inner` is with a line that `parse_activity` recognises: `activity` and
`trim` are the two statements of `activity_append`, `death` and `trimdeath`
those of `death_log_append`; a task is spawned when the last has succeeded.
`Ask` is the command that asks the game, `Patch` the UPDATE, `LookupFails` every
early return. `ClearActivity` is the handler, `Crash` the end of the process
and of its tasks.

`Happen` is the game, which goes on without the panel: events are numbered by
it, and the place of a death is named by the number of the death, so that
`lastDeath`, what the game answers, tells an earlier death from a later one.
`Hear` may pass over events, since the pump may (`LogPump`). Leaves and deaths
of villagers go into `player_activity` only, as joins do, so "join" stands for
them. Times of rows are not modelled: rows are ordered by their ids. `excused` is
history: the rows whose lookup failed or was never begun.

`CappedLog` has one variable, the log of event numbers, and two actions, to add
a later event and to wipe. `ActivityLog` implements it twice: for
`player_activity`, and for `player_deaths`, which nothing wipes. The mapping
takes the newest rows up to the cap, because a table may be over its cap
between the two statements, or after a crash there. `LogBuffer` implements it
a third time, with the lines in memory, as long as the process lives: a restart
takes memory from a table that may hold the lines of two threads in another
order.

### ComposeFile and ServerRegistry

A text is a sequence of blocks: the server's service as the template writes it,
with or without GPU lines, the sidecar, and what an operator wrote. That is all
the code can tell: it looks for `AUTOPAUSE_ENABLED`, for the sidecar's comment
line, and for three settings that every block from the template has. So
`StripBackup` cuts everything from the sidecar on, an operator's addition
included, and `Regenerate` keeps nothing of the old text.

A request of `ServerRegistry` is the sequence of its file operations, named in
`job[h].at`; `After` gives their order. `fs::write` is two steps, since the file
is emptied when it is opened; two requests that fill one file overlap in any
way (`Overlaid`). `remove_dir_all` is a step per entry, then `RemoveDir`. `Load`
and `Apply` are a run of docker compose, which reads the file and later acts: up
for a start and after a create, stop and restart for their handlers
(`BeginCompose`), and for `backup_set` the background task that `Reply` begins.
`Outcomes` is what each does to the sidecar: up makes it what the file says, a
stop halts the container of a sidecar that is in the file, and a restart wakes
one that exists with the settings it had. A file may be refused (`NotFound`,
`Refusable`): always if it is empty or cut off, and perhaps if it has a sidecar
or an operator's text, since the sidecar names a service by `sanitize_svc` that
the template named by `sanitize`. A request uses the definition of the instance
it looked up (`def`), which is the one that came into the map. `Fail` is an error
of any operation. `Crash` is the death of the process and `ServerRegistry::load`
after it, which leaves out every `server.json` that is no definition, and any
other whose reading or whose `build_instance` fails (`Loaded`, `LoadErrors`); a
docker compose already running goes on.

An id is given out once. Of the settings of a server, OpenCL and the backup
configuration are kept; the name, paths and port never change. `gpu.sh` has one
content and is only added. The sidecar's container is what Docker runs
(`sidecar`), running or halted; the server's own container is in `LogPump`.
`kept`, `damaged`, `skipped`, `gone`, `lone` and `asked` are history.

### PanelStartup

`phase` follows `main`: the row of `tls_config` is loaded, the wizard runs or
does not, an account may be created, and the panel serves. The wizard's
questions are choices: `Decline` is every answer that saves a disabled row,
`Accept` those that run certbot; the exits without certbot or a domain are
`Stop`, as are panics. `watcher` is the loop of `watch_cert_renewal`, whose
reload reads two files; `certbot` a renewal, which replaces two files and then
runs the hook. `held` is what has been read of a pair: the panel takes no
certificate without its key. `missed` is history.

## 3. What is checked

| Run | Bounds | Shows |
|---|---|---|
| `log_store` | two threads, two texts, caps of 2, window of 2 ticks, all faults, pushes begin while fewer than 2 lines are accepted (so up to 3 lines) | `TypeOK`; `NoRecentDuplicate`; `Coherent`; `JustifiedDrop`; `HistorySurvives` |
| `log_stream` | two threads, one connection, 2 lines in memory and 1 row, channel of 1, failing INSERTs, up to 3 lines, fair | `NoGap`, `RowsCapped`, `ShownTwiceAtMost`, `MemoryIsCappedLog`, `EveryLineIsSent`, `StreamsCatchUp` |
| `log_single` | one thread, one connection, caps of 2, channel of 1, crashes and failing DELETEs, up to 4 lines | `MemoryIsTail`, `FirstShownInOrder` |
| `pump_safe` | two handlers, all operations, tail of 1, all faults, up to 2 lines, fair | `TypeOK`, `EventsInOrder`, `NothingHeardIsLost`, `NoRepeat`, `ClearedStaysCleared`, `RunningIsFollowed` |
| `pump_reconnect` | one handler, up to 2 lines | violates a comment on the pump |
| `users_concurrent` | two requests at a time, two names, two roles, two passwords, failing queries and counts | `TypeOK`, `UndisturbedIsAtomic`, `NothingIsUndone`, `LastAdminGoesByDemotion`, `NeverEmptied` |
| `users_last_admin` | two requests at a time, no failing count | violates the promise of a comment |
| `registry_safe` | one server, two requests at a time, 4 in all, all operations and faults, two backup configurations | `TypeOK`, `CreatedIsKept`, `DeletedStaysGone`, `BackupSettles`, `SettingsAgree` |
| `registry_settings` | one server, one request at a time, no faults | violates what comments say of `set_opencl` |
| `activity` | two players, 3 events, 2 rows of activity and 1 of deaths, all faults, fair | `TypeOK`, `PlacesBelong`, `NoRowForgotten`, `ActivityIsCappedLog`, `DeathsAreCappedLog`, `ComesToRest` |
| `startup` | 4 certificates issued, fair | `TypeOK`, `StaleOnlyIfMissed`, `RenewalIsServed` |
| `reconfigure` | 1 certificate issued | violates the comment on `--reconfigure` |

**The bounds.** With two threads every pair of calls overlaps at every pair of
steps: push with push, push with clear, clear with clear. A cap of 2 with three
or more lines exercises eviction and pruning while one line remains to compare
with. A window of 2 ticks tells a time just inside from a time just outside and
lets a time read before the lock be one tick old. A channel of capacity 1 is
overtaken by the second message. For the user store two requests are what a
race takes, and two names suffice to tell "the last admin" from "an admin".
For the pump, a tail of 1 with two lines tells what Docker replays from what
it has emitted; two handlers let a clear fall into a restart. `LineBound` stops
the container's output and, by the length of the buffer, further restarts of
the panel. `PushBound` and `TimeBound` only stop new pushes and the clock: a push already
under way completes. `log_stream` keeps the failing INSERT, since the broadcast
has to happen in spite of it, and leaves the crash out, since nothing a dead
process owed is delivered. Its window is 0 so that no push is dropped.
`log_single` has the crash and goes on to four lines, so that a second DELETE
meets a table that the first left over its cap; one thread, because its two properties are
about one writer.

One server is enough for the registry: servers share only the map, whose
entries are independent. Four requests are a create, two that overlap, and one
that meets what they have left; a crash may come at any step. Two backup
configurations tell a sidecar that follows the last request from one left by
another. Three events are
two deaths of one player and one of another, in any order, with a table of
deaths that is full after the first. Four certificates are the first, one that
replaces it, one that falls into the reload of that, and one that comes after.
`RequestBound`, `EventBound` and `IssueBound` stop new requests, events and
certificates, never what is under way.

**Fairness.** `FairSpec` assumes weak fairness of the steps of a call already
begun and of an open stream. Both are tokio tasks, polled while they are ready;
a mutex in this code is held for one critical section, never across an await.
No fairness is assumed of callers, clocks, disconnects or crashes.
`StreamsCatchUp` allows for the stream to be closed. For the pump, weak fairness
of its own steps: the runtime polls its task, its sleeps end, and Docker
answers; and strong fairness of `Attach`: a Docker that could serve an attach
again and again does so at last, since one that refuses every attach is never
followed. Nothing is assumed of the container, the handlers or the panel. For
the activity log, weak fairness of a push under way and of the tasks: both
are polled until they are done. For the start, weak fairness of the watcher,
a loop that only sleeps, and of a renewal that has replaced one file; nothing is
assumed of the operator or of certbot's timer.

**Deadlock.** TLC checks it in every run: a clear and a new connection, a new
request, a step of the pump, a crash or a stop is always possible, so this says
only that no state is stuck. That every call gets through is `EveryLineIsSent`.

**What the properties rule out.** `Coherent` says exactly how memory and table
may differ once no call is between them: a line is on one side only if a clear
split it, a statement failed, or a cap removed it. `NoGap` compares the screen,
the receiver, the calls under way and the excused lines of a stream with all
lines ever accepted. `JustifiedDrop` requires, for every line dropped, an equal
line accepted, or loaded at start, less than a window before; the second half
is there because a restart stamps history of any age with the present.
`HistorySurvives` bounds what a crash costs. `MemoryIsTail` relates two stores
that evict on their own, one by position and one by id, across crashes between
any two statements: with one writer no restart changes what a page shows, even
where the table was left over its cap. `MemoryIsCappedLog` is what is left of it
for any number of writers and faults but the crash. `ShownTwiceAtMost` and
`FirstShownInOrder` complete `NoGap` for the reader of a stream: subscribing
before the snapshot costs one repetition of a line, never two, and of one writer
a line is first shown after all older ones, except a line that was evicted or
cleared before the snapshot and is still in the receiver.

The user store keeps no lock from a check to the write that rests on it, so what
can be said of it is which overlap each failure takes. `UndisturbedIsAtomic`
says that a request acts as in `UserAccounts` unless a row its checks are about
was written meanwhile: its caller's and its own, and any row where accounts or
admins were counted (`Relied`). Writes to other accounts never disturb it.
`NothingIsUndone` says that an update is lost, or an account overwritten or
brought back, only by requests for one name that overlap: not by a caller who
has lost the right meanwhile, and not by a setup whose count failed.
`LastAdminGoesByDemotion` names the one way in which the last admin goes without
an overlap: an update that gives that account another role, which `update` does
not check. `NeverEmptied` says that only a delete that overlapped another write
takes the last account, which would open the setup page again. The overlaps
themselves are what the code allows; section 4 lists them.

`EventsInOrder` says that neither reconnecting nor a panel restart records an
event again or out of order. `NothingHeardIsLost` follows each line from the
stream into the buffer, across the end of the container. `NoRepeat` is about
the two histories a new process reads: it loads the table and then gets
Docker's last 500 lines. Only the dedup window keeps these apart, because the
load stamps all lines with the present; `late` marks the executions where the
replay was not over within the window, in which lines do double.
`ClearedStaysCleared` follows a clear across reconnects: the buffer no longer
knows the line, so the window cannot drop it, and only the tail of the pump
keeps Docker from sending it once more.

`CreatedIsKept` relates the map, the compose file and `server.json` across every
interleaving of two requests: create must write everything before the server
enters the map, and no later request may leave a server without its files. Two
things can break it, and the property says no other can. A write of
`server.json` that is cut short or overlaps another (`damaged`) leaves no
definition until the next write of it; and a load may leave out a server for an
error of its own (`skipped`), whose files are then still there for the next.
`DeletedStaysGone` is about requests that go on with an instance looked up
before the delete: they may fail, or make the removal fail, but bring nothing
back, except that a `set_backup` which has yet to make its `backups/` makes the
server's directory with it; such a server is not counted as gone. `BackupSettles`
follows a setting through the file, the answer, the background task and Docker,
if docker compose succeeds, until the next request. `SettingsAgree` is about the
two files a `set_backup` writes one after the other: once a request that met no
other one is answered for, both have its settings, whichever of its steps failed
before in another request or process.

`ActivityIsCappedLog` and `DeathsAreCappedLog` are refinements: whatever fails
and whenever the process dies, a table shows events in order, once, the newest
of them. `PlacesBelong` allows the place of a later death of the same player,
which is what the delay costs, and nothing else. `NoRowForgotten` accounts for
every row without a place.

`StaleOnlyIfMissed` says in which case a served certificate is behind the one on
disk without a flag to tell: a hook that ran between a reload and the removal of
the flag. `RenewalIsServed` says that in every other case it is loaded in the
end, although a reload may read half a renewal.

## 4. Disagreements found

Each of the first four is a run that TLC finds violated.

1. **Two deletes can remove the last two admins** (`users_last_admin`), against
   `users.rs:151`.
2. **A reconnect replays nothing** (`pump_reconnect`), against
   `registry.rs:121-122`: the tail is "0" after the first stream, so lines
   emitted between two attachments are lost to the panel.
3. **Toggling OpenCL loses the backup settings** (`registry_settings`).
   `set_opencl` writes the definition in the map, which `set_backup` never
   updates, to `server.json`; its regenerated compose file has no sidecar. The
   comment in `registry.rs:340` speaks of updating the definition in memory.
4. **`--reconfigure` does not run the wizard** (`reconfigure`). `main.rs:62`
   saves a disabled row, and `setup.rs:55-57` takes a disabled row for a
   decision. `main.rs:60` and `README.md:20` say the wizard runs again.

These can be read off the same actions and have no run of their own:

- `push_inner` inserts its row after it has released the buffer's lock, so a row
  can be written after a `clear` that came later and is in the next load
  (`Accept`, `ClearDb`, `Insert`; `logbuffer.rs:266-268`).
- `log_append` is two autocommitted statements, not "one transaction"
  (`Insert`, `Prune`, `Crash`; `db.rs:249`).
- Two creates of one name, or two setups, that have both checked the table both
  succeed (`ReadToCreate`, `CheckEmpty`, `Write`; `users.rs:134`,
  `handlers.rs:1149`).
- Two requests that change one account write back the row each has read: one
  change is lost, or a deleted account comes back (`ReadToUpdate`, `Write`;
  `users.rs:164`, `195`).
- start and restart clear after compose has returned, by when the pump may have
  stored lines of the new session (`ComposeUp`, `Attach`, `Clear`;
  `registry.rs:130-131`, `179`).
- `get_backup_config` answers from the map, which `set_backup` does not change:
  until a restart it is not the effective configuration (`Reply`;
  `registry.rs:423`, `handlers.rs:677`).
- History replayed to a new process may hold lines no panel has seen, whose
  activity is never recorded (`Replay`; `docker.rs:206-207`), and brings back
  lines that were cleared (`PanelStarts`; `logbuffer.rs:4-7`).
- Turning the sidecar off removes what an operator wrote below it
  (`StripBackup`; `backup.rs:109`).
- A crash or a full disk inside `fs::write` of `server.json` leaves an empty
  file, and the server is not loaded again (`OpenJson`, `Crash`, `Loaded`),
  unless a request writes the file before the next start.
- A server whose `server.json` cannot be read, or whose instance cannot be built
  because Docker cannot be reached, is left out of the map until the next start,
  without a line in the log in the first case (`LoadErrors`; `registry.rs:77-79`,
  `94-100`).
- A `set_backup` under way when its server is deleted can make the server's
  directory again (`MakeDir`; `registry.rs:384-397`).
- Of two deaths within 800 ms the first may get the place of the second
  (`Ask`); a row whose pruning failed gets none (`PruneDeathsFails`).
- A certificate renewed between the reload and the removal of the flag is not
  loaded (`RunHook`, `RemoveFlag`), and a renewal by certbot standalone needs
  the port the panel serves on (`RenewKey`; `main.rs:266`).

Met while reading, outside the models: `backup.rs:66-68` says that two functions
must agree on the service's name, but `sanitize` shortens names, drops and joins
characters that `sanitize_svc` replaces; `README.md:20` has the wizard create
the first account, which only `--cli-setup` does; `setup.rs:143` names a file
that is no longer used; the pump of a deleted server polls on, and its container
is not stopped.

## 5. What is proved

`SequenceFacts` holds the lemmas that several proofs rest on: what appending and
dropping do to the range and the order of a sequence, that the end of an end is
an end, what is left of a log when one entry makes room for another
(`EndMakesRoom`). They are about `Newest` of two modules and the eviction of the
buffer alike.

`LogBufferProofs`, for any threads, connections, texts, capacities of at least
one, window and set of faults:

- `TypeCorrect`: `Spec => []TypeOK`, the capacity of the buffer included. It is
  inductive as it stands. It rests on `NewestProperties`, the lemma on what
  `log_load` and the DELETE keep.
- `MemoryAndTableAgree`: `Spec => []Coherent`. `Coherent` says nothing while a
  call is between the two stores, so it is not inductive. `CoherentInv` adds
  what holds then: every line in memory or in the table on one side only is
  unsaved, parted, or awaits a clear that has wiped memory; and everything in
  memory is younger than such a clear. A clear that completes then removes
  old rows, and what it removes beside them is what `Split` records.
- `StreamsHaveNoGap`: `Spec => []NoGap`. Inductive given the types: a line
  enters as unsent, moves from unsent into every open receiver at once, and
  from the receiver to the screen or, if overtaken, to the excused lines.
- `NoDuplicateWithinWindow`: `Spec => []NoRecentDuplicate`. The scan under the
  lock sees all lines still in memory, so neither eviction nor a time read
  before the lock lets a duplicate in.
- `TableIsCapped`: `Spec => []RowsCapped` if the process does not die and no
  DELETE fails. The table is over its cap only between the INSERT and the
  DELETE of one push, and that push holds the connection.
- `HistoryIsKept`: `Spec => HistorySurvives`, from `CoherentInv` at the step
  `Crash`: what memory has and the table has not is unsaved or parted.
- `DropsAreJustified`: `Spec => JustifiedDrop`. `StampsKnown` says that the
  stamp of a line in memory is that of the accepted line it is, or of the load
  by which this process got it.
- `MemoryIsLog`: `Spec => MemoryIsCappedLog` if the process does not die, for any
  number of threads. Numbers are given under the lock that appends, so memory is
  in order; eviction before an append is the abstract `Newest` after it.
- `OneWriterMemoryIsTail`: `Spec => []MemoryIsTail` for one thread, faults that
  are crashes or failing DELETEs, and a table no shorter than memory, as in the
  code (2000 of each). The hypotheses are needed: two threads insert in either
  order, a failed INSERT or wipe leaves the stores apart, and a shorter table
  cannot refill memory. `TailInv` says what memory is at each step of the call:
  the end of the table, the same with the line not yet inserted, or empty before
  a table about to be wiped.
- `OneWriterShownInOrder`: `Spec => []FirstShownInOrder` for one thread and any
  faults. `WriterInOrder` says that what is accepted and not yet sent is younger
  than what was sent; `StreamsInOrder` that what a receiver holds is in order,
  and that an older line still to come has been shown or is excused.
- `LinesShownTwiceAtMost`: `Spec => []ShownTwiceAtMost` for any threads and
  faults. A line is sent once (`EachOnce`) and a screen is a snapshot followed by
  what was received (`ScreensInParts`), and each has a line once.

`LogPumpProofs`, for any handlers, operations, tail, faults and number of lines:

- `TypeCorrect`: `Spec => []TypeOK`, inductive as it stands.
- `HeardLinesArePushed`: `Spec => []NothingHeardIsLost`, inductive given the
  types.
- `ActivityIsOrdered` and `NoLineRepeats`: `EventsInOrder` and `NoRepeat` follow
  from `PumpInv`. It adds `StreamIsNew` (an attach stream is ordered, younger
  than every event, and holds nothing the buffer has), `Phases` (no stream is
  pending elsewhere, history is read on the first connection only) and
  `WindowHolds` (during a replay in time, the whole buffer is recent). TLC
  checked `PumpInv` on the bounds of `pump_safe` first.
- `ClearsLast`: `Spec => ClearedStaysCleared`. `ReadsOnce` says that what is in
  the stream has not been pushed by this process: the history is asked for only
  before the first push, and an attach stream begins after all that was read.

`UserStoreProofs`, for any set of names, roles, passwords and server lists:

- `TypeCorrect`: `Spec => []TypeOK`.
- `UndisturbedRequestsAreAtomic`: `Spec => UndisturbedIsAtomic`, for any number
  of concurrent requests. The invariant `ReadsHold` says of each fact a request
  established with its queries when it still holds: what it saw of its own row
  (`OwnRow`) and of its caller's (`Authorised`) until another writes that row,
  what it counted (`Counted`) until another writes any. At `Write` these facts
  are the guard of the abstract action.
- `NoUpdateIsLost`: `Spec => NothingIsUndone`, for any number of concurrent
  requests and counts that fail, from `OwnRow` at the step `Write`.
- `OneAtATimeImplements`: with one thread and counts that do not fail, every
  behaviour of `UserStore` is one of `UserAccounts`. No run repeats it: on such
  an instance no row ever changes under a request, and `UndisturbedIsAtomic` says of every
  write what the refinement does.
- `SetupStaysClosed`: `Spec => NeverEmptied`, for any number of concurrent
  requests and counts that fail. No step of `UserAccounts` takes the last
  account: whoever is deleted, an admin stays, the caller or another; so a write
  that does is no such step. `Shape` says that only a delete writes no row.
- `LastAdminIsDemoted`: `Spec => LastAdminGoesByDemotion`, for any number of
  concurrent requests and counts that fail. By `ReadsHold` a request that takes
  the last admin, and whose row no other has written, has read that account to
  change it or to delete it; a delete with no write beside it leaves the admin
  it counted.

`ActivityLogProofs`, for any players, caps, faults and number of events:

- `TypeCorrect`: `Spec => []TypeOK`.
- `ActivityIsLog` and `DeathsAreLog`: `Spec => ActivityIsCappedLog` and
  `Spec => DeathsAreCappedLog`, the two refinements. The invariant is that no
  row is about a later event than the last one heard, and before the INSERT all
  are about earlier ones. An INSERT is then the abstract `Add`; a DELETE, a
  restart and a failure are stutters, since the newest rows of the newest rows
  are the newest rows.
- `PlacesCorrect`: `Spec => []PlacesBelong`. `PlaceInv` adds that row ids are
  below `nextId` and given once, that a task's row, if it is still there, is of
  the task's player, and that what the game answers is the last death of that
  player, so no earlier than the row's.
- `RowsRemembered`: `Spec => []NoRowForgotten`.

`ServerRegistryProofs`, for any servers, requests, configurations and faults:

- `TypeCorrect`: `Spec => []TypeOK`. It needs that requests are for ids given
  out, and that a file being filled has been opened and not removed.
- `DeletedIsGone`: `Spec => []DeletedStaysGone`. A server that is gone is not in
  the map, its id is not given out again, and no request for it is about to make
  a directory or to insert (`GoneIsGone`); so no request can begin for it, those
  under way find no directory to write in, and a restart finds no file.
- `CreatedStays`: `Spec => []CreatedIsKept`. `KeptInv` adds that a create
  is alone with its server until it has inserted it, and has then written both
  files; that a server being removed is not kept; that a server a request is
  under way for is in the map (`Served`), so that a write repairs no file of a
  server that has to stay out; and that, unless the server is damaged, a
  `server.json` about to be filled was emptied by the one request that fills it.
- `SidecarFollows`: `Spec => []BackupSettles`. `LoneWorks` follows a
  `set_backup` no other request overlaps: the text it writes, leaves in the file
  and reads again has one sidecar, its own, or none. `AskedWorks` says that
  settings answered for are what the sidecar runs with, or that such a request
  is on its way to it. It rests on `WithBackupProvides`, the lemma on what
  stripping and appending the block makes of any text.
- `SettingsAreSaved`: `Spec => []SettingsAgree`. To the invariant of
  `SidecarFollows`, `JsonWorks` adds what a lone `set_backup` has left of
  `server.json` before it fills it and before it answers.
- `LastSettingsWin`: for any text and settings, appending a block for the second
  settings to what was written for the first gives what the second would have
  written alone. No sequence of settings leaves a trace of the earlier ones.

`PanelStartupProofs`, for any number of certificates:

- `TypeCorrect`: `Spec => []TypeOK`.
- `OldOnlyIfMissed`: `Spec => []StaleOnlyIfMissed`. The invariant adds that
  certificate and key are a pair unless a renewal is half done, and what holds
  between a reload and the removal of the flag.

The assumptions are the named ASSUMEs of the modules: capacities are positive,
sets of servers are not empty, the values that stand for "no row", "no file" or
"no settings" are not rows, files or settings.

Only model-checked: the liveness properties (`EveryLineIsSent`,
`StreamsCatchUp`, `RunningIsFollowed`, `ComesToRest`, `RenewalIsServed`).
Liveness under fairness is beyond the prover.

## 6. Not modelled

- The file browser and the mod manager: one operation on a directory per
  request, nothing kept between two requests. Path normalisation is a pure
  function on strings.
- The handlers that only read (dashboard, status, statistics, the lists of
  activity and deaths), and the settings row, which is written whole.
- The pages under `static/`, the Docker API beyond the log stream and the
  command that asks for a death's place, and the HTTP redirect.
- Formatting, the regular expressions of the activity parser, the YAML text of
  compose files, sessions and cookies: data the properties do not look at.
- The expiry of certificates and of certbot's timer; recreating a container,
  which empties Docker's log.

## 7. Plan

Done: the console log, the streams, the user store, the log pump, the activity
log, the registry with the compose file, and the start with the renewals. What
could still be added:

1. A composition of the pump with the buffer's own steps, in which a restart's
   clear falls between the two stores of a push.
2. The registry with several pumps: a deleted server's pump, a container that
   is recreated when its compose file has changed.
3. `RowsCapped` with crashes: how far over its cap a table can get when a process
   dies, or a DELETE fails, again and again.
