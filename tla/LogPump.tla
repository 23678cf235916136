------------------------------ MODULE LogPump ------------------------------
(***************************************************************************)
(* The log pump of one server (pump_logs in src/registry.rs and            *)
(* stream_logs_to_buffer in src/docker.rs), the handlers that start, stop, *)
(* restart and clear (src/handlers.rs), and the container they all act on. *)
(*                                                                         *)
(*   off -> connect -> replay -> attach -> live -> sleep -> connect        *)
(*                  `-----------^   |        |       ^                     *)
(*                   tail = "0"     +--------+-------+   (errors)          *)
(*                                                                         *)
(* Docker numbers the lines a container has emitted; a line stands for its *)
(* text, and every line for an activity event.  Of the buffer only these   *)
(* lines are kept: the handlers' own "[panel]" lines and command output    *)
(* meet none of them.  A push is one step here and the buffer never        *)
(* overflows: LogBuffer is about both.  Empty lines, and what              *)
(* is_rcon_noise knows of the server's chatter about RCON, are left out:   *)
(* replay and live stream drop them before the buffer sees them.  They     *)
(* count among the 500 lines of the tail, which may so hold fewer of the   *)
(* lines modelled.                                                         *)
(*                                                                         *)
(* An attach error reads "attaching to container output stream" whatever   *)
(* its cause, since to_string shows the outermost context only: a missing  *)
(* container is an "other" error.  The branches of pump_logs for timeouts  *)
(* and resets are for errors of the stream; these are I/O errors, so none  *)
(* takes the branch for a missing container, which alone keeps the tail.   *)
(***************************************************************************)
EXTENDS Integers, Sequences, Functions

CONSTANTS
  Handlers,   \* requests served at a time
  Ops,        \* what they may ask, a subset of OpKinds
  TailLines,  \* the 500 lines replayed on the first connection
  Faults,     \* what may go wrong, a subset of FaultKinds
  LineBound   \* bound: the container emits no more lines than this

OpKinds    == {"create", "start", "stop", "restart", "clear"}
FaultKinds == {"history", "attach", "stream", "panel"}

ASSUME OpsAssumption       == Ops \subseteq OpKinds
ASSUME TailAssumption      == TailLines \in Nat \ {0}
ASSUME FaultsAssumption    == Faults \subseteq FaultKinds
ASSUME LineBoundAssumption == LineBound \in Nat

VARIABLES
  container,  \* "none", "down" or "up"
  emitted,    \* number of lines the container has emitted
  pump,       \* where the pump is; "off" while the panel is not running
  tail,       \* how much history the next connection asks for
  stream,     \* lines Docker has sent and the pump has not yet read
  open,       \* an attach stream is being fed
  buf,        \* the container's lines in the log buffer
  recent,     \* those of them stamped less than DEDUP_WINDOW ago
  job,        \* what each handler serves, and where it is
  events,     \* lines recorded in player_activity, in order
  pushed,     \* history: lines this process has given to the buffer
  owed,       \* history: lines emitted to a stream that has not failed since,
              \*          and not yet pushed
  late        \* history: stamps of the load expired before the replay was over

docker == <<container, emitted>>
reader == <<pump, tail, stream, open>>
buffer == <<buf, recent>>
ghosts == <<pushed, owed, late>>
vars   == <<container, emitted, pump, tail, stream, open, buf, recent,
            job, events, pushed, owed, late>>

-----------------------------------------------------------------------------
Lines == 1 .. emitted

\* What `docker logs --tail' returns now.
FirstOfTail == IF emitted > TailLines THEN emitted - TailLines + 1 ELSE 1
History == [i \in 1 .. (emitted - FirstOfTail + 1) |-> FirstOfTail + i - 1]

\* push: drop a recent duplicate, else store the line with its time.
IsDup(l) == l \in recent
Store(l) ==
  IF IsDup(l)
  THEN UNCHANGED buffer
  ELSE buf' = Append(buf, l) /\ recent' = recent \cup {l}

Idle == [op |-> "none", at |-> "idle"]
Goto(h, label) == job' = [job EXCEPT ![h].at = label]
Answer(h) == job' = [job EXCEPT ![h] = Idle]

\* The pump gives up its stream and what is in it.
LetGo == stream' = <<>> /\ open' = FALSE /\ owed' = {}

-----------------------------------------------------------------------------
(* Variants of the actions below that each contain a mistake the code could *)
(* contain.  No action uses them: they stand in for the action of the same  *)
(* first name when a property is tested against that mistake.               *)

\* The history is pushed with push.
ReplayRecords ==
  /\ pump = "replay" /\ stream # <<>>
  /\ Store(Head(stream))
  /\ stream' = Tail(stream)
  /\ events' = IF IsDup(Head(stream)) THEN events ELSE Append(events, Head(stream))
  /\ pushed' = pushed \cup {Head(stream)} /\ owed' = owed \ {Head(stream)}
  /\ UNCHANGED <<docker, pump, tail, open, job, late>>

\* tail is not set to "0" when the stream ends.
EndOfStreamKeepsTail ==
  /\ pump = "live" /\ stream = <<>> /\ ~open
  /\ pump' = "sleep"
  /\ UNCHANGED <<docker, tail, stream, open, buffer, job, events, ghosts>>

\* The pump leaves the stream as soon as the container is down.
EndOfStreamUnread ==
  /\ pump = "live" /\ ~open
  /\ pump' = "sleep" /\ tail' = "0" /\ stream' = <<>>
  /\ UNCHANGED <<docker, open, buffer, job, events, ghosts>>

\* An error of attach ends the pump.
AttachFailsForGood ==
  /\ pump = "attach"
  /\ container # "up" \/ "attach" \in Faults
  /\ pump' = "ended" /\ tail' = "0"
  /\ UNCHANGED <<docker, stream, open, buffer, job, events, ghosts>>

\* The old stream is still fed when the pump connects again.
StreamFailsOpen ==
  /\ "stream" \in Faults
  /\ pump = "live"
  /\ pump' \in {"connect", "sleep"} /\ tail' = "0"
  /\ stream' = <<>> /\ owed' = {}
  /\ UNCHANGED <<docker, open, buffer, job, events, pushed, late>>

\* What the comment on pump_logs asks for: tail is left as it is, and the next
\* connection replays the history.
StreamFailsKeepsTail ==
  /\ "stream" \in Faults
  /\ pump = "live"
  /\ pump' \in {"connect", "sleep"}
  /\ LetGo
  /\ UNCHANGED <<docker, tail, buffer, job, events, pushed, late>>

-----------------------------------------------------------------------------
Init ==
  /\ container \in {"none", "up"}
  /\ emitted = 0
  /\ pump = "connect" /\ tail = "500" /\ stream = <<>> /\ open = FALSE
  /\ buf = <<>> /\ recent = {} /\ events = <<>>
  /\ job = [h \in Handlers |-> Idle]
  /\ pushed = {} /\ owed = {} /\ late = FALSE

-----------------------------------------------------------------------------
(* pump_logs and stream_logs_to_buffer *)

\* docker logs, follow=false; nothing is asked for if tail is "0".
Connect ==
  /\ pump = "connect"
  /\ stream' = IF tail = "0" THEN <<>> ELSE History
  /\ pump' = IF tail = "0" THEN "attach" ELSE "replay"
  /\ UNCHANGED <<docker, tail, open, buffer, job, events, ghosts>>

\* push_history: no activity is recorded.
Replay ==
  /\ pump = "replay" /\ stream # <<>>
  /\ Store(Head(stream))
  /\ stream' = Tail(stream)
  /\ pushed' = pushed \cup {Head(stream)}
  /\ UNCHANGED <<docker, pump, tail, open, job, events, owed, late>>

\* The end of the history; or an error item, which is passed over and ends it.
EndOfHistory ==
  /\ pump = "replay"
  /\ stream = <<>> \/ "history" \in Faults
  /\ pump' = "attach"
  /\ stream' = <<>>
  /\ UNCHANGED <<docker, tail, open, buffer, job, events, ghosts>>

\* A stream of what the container emits from now on.  Docker may grant one on
\* a container that is down: it is fed once the container starts.
Attach ==
  /\ pump = "attach" /\ container # "none"
  /\ pump' = "live" /\ open' = TRUE
  /\ UNCHANGED <<docker, tail, stream, buffer, job, events, ghosts>>

\* An error that is none of the kinds pump_logs looks for.
AttachFails ==
  /\ pump = "attach"
  /\ container # "up" \/ "attach" \in Faults
  /\ pump' = "sleep" /\ tail' = "0"
  /\ UNCHANGED <<docker, stream, open, buffer, job, events, ghosts>>

\* push: the line is stored and its event recorded, unless a duplicate.
Recv ==
  /\ pump = "live" /\ stream # <<>>
  /\ Store(Head(stream))
  /\ stream' = Tail(stream)
  /\ events' = IF IsDup(Head(stream)) THEN events ELSE Append(events, Head(stream))
  /\ pushed' = pushed \cup {Head(stream)} /\ owed' = owed \ {Head(stream)}
  /\ UNCHANGED <<docker, pump, tail, open, job, late>>

\* Ok(()): the container has stopped and the stream is read to its end.
EndOfStream ==
  /\ pump = "live" /\ stream = <<>> /\ ~open
  /\ pump' = "sleep" /\ tail' = "0"
  /\ UNCHANGED <<docker, stream, open, buffer, job, events, ghosts>>

\* An I/O error of the stream: after a timeout the pump connects at once,
\* after any other it sleeps.
StreamFails ==
  /\ "stream" \in Faults
  /\ pump = "live"
  /\ pump' \in {"connect", "sleep"} /\ tail' = "0"
  /\ LetGo
  /\ UNCHANGED <<docker, buffer, job, events, pushed, late>>

\* No sleep is shorter than the dedup window: what was pushed before it is
\* recent no more.
Wake ==
  /\ pump = "sleep"
  /\ pump' = "connect"
  /\ recent' = {}
  /\ UNCHANGED <<docker, tail, stream, open, buf, job, events, ghosts>>

-----------------------------------------------------------------------------
(* The handlers *)

\* Only a server just created has no container.
Begin(h, op) ==
  /\ pump # "off" /\ job[h] = Idle
  /\ op = "create" => container = "none"
  /\ job' = [job EXCEPT ![h] = [op |-> op, at |-> IF op = "clear" THEN "clear" ELSE "compose"]]
  /\ UNCHANGED <<docker, reader, buffer, events, ghosts>>

\* docker compose up, or the second half of restart, has had its effect.
ComposeUp(h) ==
  /\ \/ job[h].at = "compose" /\ job[h].op \in {"create", "start"}
     \/ job[h].at = "up"
  /\ container' = "up"
  /\ IF job[h].op = "create" THEN Answer(h) ELSE Goto(h, "clear")
  /\ UNCHANGED <<emitted, reader, buffer, events, ghosts>>

\* docker compose stop, or the first half of restart: a stream of the
\* container that stops ends.  (Without a container there is nothing to stop and
\* nothing to clear, and the handler leaves all as ComposeFails does.)
ComposeStop(h) ==
  /\ job[h].at = "compose" /\ job[h].op \in {"stop", "restart"}
  /\ container # "none"
  /\ container' = "down"
  /\ open' = (open /\ container = "down")
  /\ IF job[h].op = "stop" THEN Answer(h) ELSE Goto(h, "up")
  /\ UNCHANGED <<emitted, pump, tail, stream, buffer, events, ghosts>>

\* The command fails, before or after its effect, and the handler answers
\* with the error.
ComposeFails(h) ==
  /\ job[h].at \in {"compose", "up", "clear"} /\ job[h].op # "clear"
  /\ Answer(h)
  /\ UNCHANGED <<docker, reader, buffer, events, ghosts>>

\* log_buffer.clear()
Clear(h) ==
  /\ job[h].at = "clear"
  /\ buf' = <<>> /\ recent' = {}
  /\ Answer(h)
  /\ UNCHANGED <<docker, reader, events, ghosts>>

-----------------------------------------------------------------------------
(* The environment *)

\* The server logs a line; an attach stream carries it.
Emit ==
  /\ container = "up" /\ emitted < LineBound
  /\ emitted' = emitted + 1
  /\ IF open
     THEN stream' = Append(stream, emitted') /\ owed' = owed \cup {emitted'}
     ELSE UNCHANGED <<stream, owed>>
  /\ UNCHANGED <<container, pump, tail, open, buffer, job, events, pushed, late>>

\* The server exits by itself.
Exit ==
  /\ container = "up"
  /\ container' = "down" /\ open' = FALSE
  /\ UNCHANGED <<emitted, pump, tail, stream, buffer, job, events, ghosts>>

\* Docker restarts it (restart: unless-stopped), or someone does by hand.
DaemonStart ==
  /\ container = "down"
  /\ container' = "up"
  /\ UNCHANGED <<emitted, reader, buffer, job, events, ghosts>>

\* Time passes: what is in the buffer leaves the dedup window.  (All at once:
\* what is stored later can only be met by lines that are new.)
Expire ==
  /\ recent # {}
  /\ recent' = {}
  /\ late' = (late \/ (pump \in {"connect", "replay"} /\ tail = "500"))
  /\ UNCHANGED <<docker, reader, buf, job, events, pushed, owed>>

\* The panel stops, with all its tasks.  (Bound: no more once late replays
\* have filled the buffer beyond the lines there are.)
PanelStops ==
  /\ "panel" \in Faults /\ Len(buf) <= LineBound
  /\ pump # "off"
  /\ pump' = "off"
  /\ LetGo
  /\ job' = [h \in Handlers |-> Idle]
  /\ UNCHANGED <<docker, tail, buffer, events, pushed, late>>

\* It starts again: the buffer is loaded and stamped, the pump begins afresh.
\* (Where the load leaves this server out, see ServerRegistry, it stays off.)
PanelStarts ==
  /\ pump = "off"
  /\ pump' = "connect" /\ tail' = "500"
  /\ recent' = Range(buf)
  /\ pushed' = {}
  /\ UNCHANGED <<docker, stream, open, buf, job, events, owed, late>>

-----------------------------------------------------------------------------
Pump ==
  \/ Connect \/ Replay \/ EndOfHistory \/ Attach \/ AttachFails
  \/ Recv \/ EndOfStream \/ StreamFails \/ Wake

Serve(h) ==
  \/ ComposeUp(h) \/ ComposeStop(h) \/ ComposeFails(h)
  \/ Clear(h)

Environment == Emit \/ Exit \/ DaemonStart \/ Expire \/ PanelStops \/ PanelStarts

Next ==
  \/ Pump
  \/ \E h \in Handlers : Serve(h) \/ \E op \in Ops : Begin(h, op)
  \/ Environment

Spec == Init /\ [][Next]_vars

\* The pump is a tokio task, which the runtime goes on polling, and Docker does
\* not refuse every attach for ever.  Nothing is assumed of the container, the
\* requests or the panel.
FairSpec == Spec /\ WF_vars(Pump) /\ SF_vars(Attach)

-----------------------------------------------------------------------------
\* Every variable has its type, and only a live pump has a stream fed to it.
TypeOK ==
  /\ container \in {"none", "down", "up"}
  /\ emitted \in Nat
  /\ pump \in {"off", "connect", "replay", "attach", "live", "sleep"}
  /\ tail \in {"500", "0"}
  /\ stream \in Seq(Lines)
  /\ buf \in Seq(Lines) /\ recent \subseteq Range(buf)
  /\ job \in [Handlers -> [op : OpKinds \cup {"none"},
                          at : {"idle", "compose", "up", "clear"}]]
  /\ events \in Seq(Lines)
  /\ pushed \subseteq Lines /\ owed \subseteq Lines
  /\ late \in BOOLEAN /\ open \in BOOLEAN /\ (open => pump = "live")

\* Whatever streams fail, handlers run or processes end, activity is recorded
\* in the order of the lines and once per line: no history is recorded again.
EventsInOrder ==
  \A i, j \in DOMAIN events : i < j => events[i] < events[j]

\* What the container says while the pump is attached reaches the buffer, the
\* last words of a server that stops included, unless the stream fails.
NothingHeardIsLost == owed # {} => pump = "live" /\ owed \subseteq Range(stream)

\* The dedup window is what keeps the history a new process loads and the
\* history Docker replays to it from doubling: no line is in the buffer twice,
\* as long as no replay outlasted the window.
NoRepeat ==
  ~late => \A i, j \in DOMAIN buf : i # j => buf[i] # buf[j]

\* What clear has taken from the console stays away until the panel restarts:
\* no line that a process has pushed enters its buffer a second time, however
\* often the pump connects again.
ClearedStaysCleared == [][pushed \cap Range(buf)' \subseteq Range(buf)]_vars

\* A running container is followed in the end (while it and the panel run).
RunningIsFollowed ==
  (container = "up" /\ pump # "off")
    ~> (pump = "live" \/ container # "up" \/ pump = "off")

\* The comment on pump_logs: a reconnect replays the last 500 lines "so
\* history is preserved".  What Docker holds of them when the pump connects has
\* been pushed before or is pushed now.
ReconnectReplays == [][Connect => Range(History) \subseteq pushed \cup Range(stream')]_vars

=============================================================================
