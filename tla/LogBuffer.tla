----------------------------- MODULE LogBuffer -----------------------------
(***************************************************************************)
(* The console log of one Minecraft server (src/logbuffer.rs), together    *)
(* with the console_log table it is persisted to (src/db.rs) and the SSE   *)
(* streams that read it (stream_logs in src/handlers.rs).                  *)
(*                                                                         *)
(* Threads are the tasks that call the buffer: the log pump and the HTTP   *)
(* handlers.  Each runs push_inner or clear, one step per lock it takes:   *)
(*                                                                         *)
(*   push   idle -> lock -> append -> prune -> send -> idle                *)
(*                    \                                                    *)
(*                     +-> idle               (a recent duplicate)         *)
(*   clear  idle -> dbclear -> idle                                        *)
(*                                                                         *)
(* A line is named by its position in `line', the list of all lines ever   *)
(* accepted, so the memory buffer, the table, the broadcast channel and    *)
(* the screens hold line numbers.  push and push_history differ only in    *)
(* the activity rows they write and are one operation here.  A text that   *)
(* sanitises to nothing returns before any effect: a stuttering step.      *)
(***************************************************************************)
EXTENDS Integers, Sequences, Functions

CONSTANTS
  Threads,      \* tasks that push to or clear the buffer
  Clients,      \* SSE connections
  Texts,        \* sanitised line texts
  MaxLines,     \* MAX_LINES, the capacity of the memory buffer
  MaxLogRows,   \* MAX_LOG_ROWS, the rows kept per server in console_log
  ChanCap,      \* capacity of the broadcast channel
  DedupWindow,  \* DEDUP_WINDOW, in ticks of the clock
  Faults,       \* what may go wrong: a subset of FaultKinds
  PushBound,    \* bound: no push starts once this many lines are accepted
  TimeBound     \* bound: the clock stops at this tick

FaultKinds == {"append", "prune", "clear", "load", "crash"}

ASSUME MaxLinesAssumption   == MaxLines \in Nat \ {0}
ASSUME MaxLogRowsAssumption == MaxLogRows \in Nat \ {0}
ASSUME ChanCapAssumption    == ChanCap \in Nat \ {0}
ASSUME WindowAssumption     == DedupWindow \in Nat
ASSUME FaultsAssumption     == Faults \subseteq FaultKinds
ASSUME BoundsAssumption     == PushBound \in Nat /\ TimeBound \in Nat

VARIABLES
  now,      \* the clock
  buf,      \* inner.buf: sequence of [id, at], oldest first
  rows,     \* console_log of this server: line numbers in rowid order
  sent,     \* everything sent on the broadcast channel by this process
  pc,       \* where each thread is
  arg,      \* a push's text and the Instant it read before the lock
  ref,      \* the line a push carries; at a clear, the lines it wiped
  conn,     \* state of each SSE connection
  next,     \* messages of `sent' a connection's receiver is past
  screen,   \* line numbers a connection has yielded, in order
  line,     \* history: every line accepted, with its true time
  parted,   \* history: lines on which memory and table may disagree
  missed,   \* history: lines a connection will not be told of
  started   \* history: time of the last load, and lines accepted by then

store == <<buf, rows, line, parted>>
call  == <<pc, arg, ref>>
sse   == <<conn, next, screen, missed>>
vars  == <<now, buf, rows, sent, pc, arg, ref, conn, next, screen,
           line, parted, missed, started>>

-----------------------------------------------------------------------------
Lines   == 1 .. Len(line)
BufIds  == {e.id : e \in Range(buf)}
RowIds  == Range(rows)
SentIds == Range(sent)
Shown(c) == Range(screen[c])

\* The lines whose push has left the buffer lock and not reached the table.
Unsaved == {ref[t] : t \in {u \in Threads : pc[u] = "append"}}

\* The lines accepted and not yet broadcast.
Unsent == {ref[t] : t \in {u \in Threads : pc[u] \in {"append", "prune", "send"}}}

\* Instant::duration_since saturates at zero.
Since(later, earlier) == IF later > earlier THEN later - earlier ELSE 0

\* The last n elements of s.
Newest(s, n) == SubSeq(s, IF Len(s) > n THEN Len(s) - n + 1 ELSE 1, Len(s))

\* What Newest(s, n) leaves out.
Oldest(s, n) == {s[i] : i \in 1 .. (Len(s) - n)}

\* db.conn is free: log_append holds it from its INSERT to its DELETE.
DbFree == \A t \in Threads : pc[t] # "prune"

\* Variant: the age of the line is not looked at.
IsDupOfAnyAge(t) == \E i \in DOMAIN buf : line[buf[i].id].text = arg[t].text

\* is_dup: an identical text in the buffer within the window.
IsDup(t) ==
  \E i \in DOMAIN buf :
    /\ line[buf[i].id].text = arg[t].text
    /\ Since(arg[t].at, buf[i].at) < DedupWindow

\* Variant: pop_back for pop_front.
MakeRoomAtEnd == IF Len(buf) >= MaxLines THEN SubSeq(buf, 1, Len(buf) - 1) ELSE buf

\* The buffer with room for one more line.
MakeRoom == IF Len(buf) >= MaxLines THEN Tail(buf) ELSE buf
Evicted  == IF Len(buf) >= MaxLines THEN {Head(buf).id} ELSE {}

Goto(t, label) == pc' = [pc EXCEPT ![t] = label]

\* A new process: every task and connection of the last is gone.
\* LogBuffer::new fills the buffer with the lines it loads and stamps them all
\* with the time of the load.
Restart(loaded) ==
  /\ "crash" \in Faults
  /\ buf' = [i \in DOMAIN loaded |-> [id |-> loaded[i], at |-> now]]
  /\ pc' = [t \in Threads |-> "idle"]
  /\ sent' = <<>>
  /\ conn' = [c \in Clients |-> "off"]
  /\ next' = [c \in Clients |-> 0]
  /\ screen' = [c \in Clients |-> <<>>]
  /\ missed' = [c \in Clients |-> {}]
  /\ started' = [time |-> now, lines |-> Len(line)]
  /\ UNCHANGED <<now, rows, line, arg, ref>>

-----------------------------------------------------------------------------
(* Variants of the actions below that each contain a mistake the code could *)
(* contain.  No action uses them: they stand in for the action of the same  *)
(* first name when a property is tested against that mistake.               *)

\* The buffer is compared with `>' and grows one line too long.
AcceptOneTooMany(t) ==
  /\ pc[t] = "lock" /\ ~IsDup(t)
  /\ line' = Append(line, arg[t])
  /\ buf' = Append(IF Len(buf) > MaxLines THEN Tail(buf) ELSE buf,
                   [id |-> Len(line) + 1, at |-> arg[t].at])
  /\ ref' = [ref EXCEPT ![t] = Len(line) + 1]
  /\ Goto(t, "append")
  /\ UNCHANGED <<now, rows, parted, sent, arg, sse, started>>

\* The comparison is made before the lock is taken, and not again under it.
AcceptUnchecked(t) ==
  /\ pc[t] = "lock"
  /\ line' = Append(line, arg[t])
  /\ buf' = Append(MakeRoom, [id |-> Len(line) + 1, at |-> arg[t].at])
  /\ parted' = parted \cup Evicted
  /\ ref' = [ref EXCEPT ![t] = Len(line) + 1]
  /\ Goto(t, "append")
  /\ UNCHANGED <<now, rows, sent, arg, sse, started>>

\* The line is broadcast under the lock as well.
AcceptBroadcasts(t) ==
  /\ pc[t] = "lock" /\ ~IsDup(t)
  /\ line' = Append(line, arg[t])
  /\ buf' = Append(MakeRoom, [id |-> Len(line) + 1, at |-> arg[t].at])
  /\ parted' = parted \cup Evicted
  /\ sent' = Append(sent, Len(line) + 1)
  /\ ref' = [ref EXCEPT ![t] = Len(line) + 1]
  /\ Goto(t, "append")
  /\ UNCHANGED <<now, rows, arg, sse, started>>

\* A failed append returns from push_inner.
InsertFailsAndReturns(t) ==
  /\ "append" \in Faults
  /\ pc[t] = "append" /\ DbFree
  /\ parted' = parted \cup {ref[t]}
  /\ Goto(t, "idle")
  /\ UNCHANGED <<now, buf, rows, line, sent, arg, ref, sse, started>>

\* The DELETE keeps one row too many.
PruneOneTooFew(t) ==
  /\ pc[t] = "prune"
  /\ rows' = Newest(rows, MaxLogRows + 1)
  /\ Goto(t, "send")
  /\ UNCHANGED <<now, buf, line, parted, sent, arg, ref, sse, started>>

\* The DELETE keeps the oldest rows.
PruneKeepsOldest(t) ==
  /\ pc[t] = "prune"
  /\ rows' = SubSeq(rows, 1, IF Len(rows) > MaxLogRows THEN MaxLogRows ELSE Len(rows))
  /\ parted' = parted \cup Oldest(rows, MaxLogRows)
  /\ Goto(t, "send")
  /\ UNCHANGED <<now, buf, line, sent, arg, ref, sse, started>>

\* clear() forgets the table.
ClearDbForgotten(t) ==
  /\ pc[t] = "dbclear" /\ DbFree
  /\ Goto(t, "idle")
  /\ UNCHANGED <<now, store, sent, arg, ref, sse, started>>

\* stream_logs subscribes after it has taken its snapshot.
SnapshotThenSubscribe(c) ==
  \/ /\ conn[c] = "subscribed"
     /\ conn' = [conn EXCEPT ![c] = "snapped"]
     /\ screen' = [screen EXCEPT ![c] = [i \in DOMAIN buf |-> buf[i].id]]
     /\ missed' = [missed EXCEPT ![c] = Lines \ BufIds]
     /\ UNCHANGED <<now, store, call, sent, next, started>>
  \/ /\ conn[c] = "snapped"
     /\ conn' = [conn EXCEPT ![c] = "live"]
     /\ next' = [next EXCEPT ![c] = Len(sent)]
     /\ UNCHANGED <<now, store, call, sent, screen, missed, started>>

\* A receiver that lags subscribes anew, at the end of the channel.
LaggedResubscribes(c) ==
  /\ conn[c] = "live" /\ Len(sent) - next[c] > ChanCap
  /\ next' = [next EXCEPT ![c] = Len(sent)]
  /\ missed' = [missed EXCEPT ![c] =
       @ \cup {sent[i] : i \in (next[c] + 1) .. (Len(sent) - ChanCap)}]
  /\ UNCHANGED <<now, store, call, sent, conn, screen, started>>

\* log_load reads the oldest rows.
CrashLoadsOldest ==
  /\ Restart(SubSeq(rows, 1, IF Len(rows) > MaxLines THEN MaxLines ELSE Len(rows)))
  /\ parted' = parted \cup Oldest(rows, MaxLines)

\* log_load gives the newest row first.
CrashLoadsReversed ==
  /\ Restart([i \in DOMAIN Newest(rows, MaxLines) |-> rows[Len(rows) + 1 - i]])
  /\ parted' = parted \cup Oldest(rows, MaxLines)

-----------------------------------------------------------------------------
Init ==
  /\ now = 0 /\ started = [time |-> 0, lines |-> 0]
  /\ buf = <<>> /\ rows = <<>> /\ sent = <<>> /\ line = <<>>
  /\ parted = {}
  /\ pc = [t \in Threads |-> "idle"]
  /\ arg \in [Threads -> [text : Texts, at : {0}]]
  /\ ref = [t \in Threads |-> 0]
  /\ conn = [c \in Clients |-> "off"]
  /\ next = [c \in Clients |-> 0]
  /\ screen = [c \in Clients |-> <<>>]
  /\ missed = [c \in Clients |-> {}]

-----------------------------------------------------------------------------
(* push_inner *)

\* The text is clean and the time read; the buffer lock is not held yet.
Push(t, text) ==
  /\ pc[t] = "idle" /\ Len(line) < PushBound
  /\ arg' = [arg EXCEPT ![t] = [text |-> text, at |-> now]]
  /\ Goto(t, "lock")
  /\ UNCHANGED <<now, store, sent, ref, sse, started>>

\* Under the buffer lock: identical text seen within the window.
Drop(t) ==
  /\ pc[t] = "lock" /\ IsDup(t)
  /\ Goto(t, "idle")
  /\ UNCHANGED <<now, store, sent, arg, ref, sse, started>>

\* Under the buffer lock: evict the oldest line if full, store the new one.
Accept(t) ==
  /\ pc[t] = "lock" /\ ~IsDup(t)
  /\ line' = Append(line, arg[t])
  /\ buf' = Append(MakeRoom, [id |-> Len(line) + 1, at |-> arg[t].at])
  /\ parted' = parted \cup Evicted
  /\ ref' = [ref EXCEPT ![t] = Len(line) + 1]
  /\ Goto(t, "append")
  /\ UNCHANGED <<now, rows, sent, arg, sse, started>>

\* log_append takes db.conn and inserts the row.
Insert(t) ==
  /\ pc[t] = "append" /\ DbFree
  /\ rows' = Append(rows, ref[t])
  /\ Goto(t, "prune")
  /\ UNCHANGED <<now, buf, line, parted, sent, arg, ref, sse, started>>

\* The INSERT fails: push_inner logs a warning and goes on to broadcast.
InsertFails(t) ==
  /\ "append" \in Faults
  /\ pc[t] = "append" /\ DbFree
  /\ parted' = parted \cup {ref[t]}
  /\ Goto(t, "send")
  /\ UNCHANGED <<now, buf, rows, line, sent, arg, ref, sse, started>>

\* log_append deletes the rows beyond the cap and releases db.conn.
Prune(t) ==
  /\ pc[t] = "prune"
  /\ rows' = Newest(rows, MaxLogRows)
  /\ parted' = parted \cup Oldest(rows, MaxLogRows)
  /\ Goto(t, "send")
  /\ UNCHANGED <<now, buf, line, sent, arg, ref, sse, started>>

\* The DELETE fails: the row stays, the warning is logged, the push goes on.
PruneFails(t) ==
  /\ "prune" \in Faults
  /\ pc[t] = "prune"
  /\ Goto(t, "send")
  /\ UNCHANGED <<now, store, sent, arg, ref, sse, started>>

\* tx.send: the message reaches every receiver subscribed by now.
Send(t) ==
  /\ pc[t] = "send"
  /\ sent' = Append(sent, ref[t])
  /\ Goto(t, "idle")
  /\ UNCHANGED <<now, store, arg, ref, sse, started>>

-----------------------------------------------------------------------------
(* clear *)

\* The memory buffer is emptied under its lock.
ClearMem(t) ==
  /\ pc[t] = "idle"
  /\ buf' = <<>>
  /\ ref' = [ref EXCEPT ![t] = Len(line)]
  /\ Goto(t, "dbclear")
  /\ UNCHANGED <<now, rows, line, parted, sent, arg, sse, started>>

\* The lines a clear separates: those it wiped from memory that are still on
\* their way to the table, and those accepted since that it wipes from the
\* table only.
Split(t) == {i \in Unsaved : i <= ref[t]} \cup {i \in RowIds : i > ref[t]}

\* The rows are deleted under db.conn.
ClearDb(t) ==
  /\ pc[t] = "dbclear" /\ DbFree
  /\ rows' = <<>>
  /\ parted' = parted \cup Split(t)
  /\ Goto(t, "idle")
  /\ UNCHANGED <<now, buf, line, sent, arg, ref, sse, started>>

\* log_clear fails: only a warning, memory is empty and the rows remain.
ClearDbFails(t) ==
  /\ "clear" \in Faults
  /\ pc[t] = "dbclear" /\ DbFree
  /\ parted' = parted \cup {i \in RowIds \cup Unsaved : i <= ref[t]}
  /\ Goto(t, "idle")
  /\ UNCHANGED <<now, buf, rows, line, sent, arg, ref, sse, started>>

-----------------------------------------------------------------------------
(* stream_logs *)

\* The handler subscribes before it takes its snapshot.
Subscribe(c) ==
  /\ conn[c] = "off"
  /\ conn' = [conn EXCEPT ![c] = "subscribed"]
  /\ next' = [next EXCEPT ![c] = Len(sent)]
  /\ UNCHANGED <<now, store, call, sent, screen, missed, started>>

\* The buffer as it is now is yielded first.
Snapshot(c) ==
  /\ conn[c] = "subscribed"
  /\ conn' = [conn EXCEPT ![c] = "live"]
  /\ screen' = [screen EXCEPT ![c] = [i \in DOMAIN buf |-> buf[i].id]]
  /\ missed' = [missed EXCEPT ![c] = Lines \ BufIds]
  /\ UNCHANGED <<now, store, call, sent, next, started>>

\* A receiver the ring has overtaken.
Behind(c) == Len(sent) - next[c] > ChanCap

\* rx.recv() returns the next message.
Recv(c) ==
  /\ conn[c] = "live" /\ next[c] < Len(sent) /\ ~Behind(c)
  /\ screen' = [screen EXCEPT ![c] = Append(@, sent[next[c] + 1])]
  /\ next' = [next EXCEPT ![c] = @ + 1]
  /\ UNCHANGED <<now, store, call, sent, conn, missed, started>>

\* rx.recv() returns Lagged: the loop continues at the oldest message kept.
Lagged(c) ==
  /\ conn[c] = "live" /\ Behind(c)
  /\ next' = [next EXCEPT ![c] = Len(sent) - ChanCap]
  /\ missed' = [missed EXCEPT ![c] =
       @ \cup {sent[i] : i \in (next[c] + 1) .. (Len(sent) - ChanCap)}]
  /\ UNCHANGED <<now, store, call, sent, conn, screen, started>>

\* The browser goes away; the stream is dropped with its receiver.
Disconnect(c) ==
  /\ conn[c] # "off"
  /\ conn' = [conn EXCEPT ![c] = "off"]
  /\ next' = [next EXCEPT ![c] = 0]
  /\ screen' = [screen EXCEPT ![c] = <<>>]
  /\ missed' = [missed EXCEPT ![c] = {}]
  /\ UNCHANGED <<now, store, call, sent, started>>

-----------------------------------------------------------------------------
(* The environment *)

Tick ==
  /\ now < TimeBound
  /\ now' = now + 1
  /\ UNCHANGED <<store, call, sent, sse, started>>

\* The panel dies at any point and comes up again with the newest rows.
Crash ==
  /\ Restart(Newest(rows, MaxLines))
  /\ parted' = parted \cup Oldest(rows, MaxLines)

\* log_load fails, unwrap_or_default: the panel comes up with no history.
CrashLoadFails ==
  /\ "load" \in Faults
  /\ Restart(<<>>)
  /\ parted' = parted \cup RowIds

-----------------------------------------------------------------------------
\* A call that has begun runs on; beginning one is the callers' choice.
Continue(t) ==
  \/ Drop(t) \/ Accept(t)
  \/ Insert(t) \/ InsertFails(t) \/ Prune(t) \/ PruneFails(t) \/ Send(t)
  \/ ClearDb(t) \/ ClearDbFails(t)

Stream(c) == Snapshot(c) \/ Recv(c) \/ Lagged(c)

Next ==
  \/ \E t \in Threads : \/ \E text \in Texts : Push(t, text)
                        \/ ClearMem(t)
                        \/ Continue(t)
  \/ \E c \in Clients : Subscribe(c) \/ Stream(c) \/ Disconnect(c)
  \/ Tick
  \/ Crash
  \/ CrashLoadFails

Spec == Init /\ [][Next]_vars

\* Threads and streams are tokio tasks: the runtime goes on polling them.
Fairness == /\ \A t \in Threads : WF_vars(Continue(t))
            /\ \A c \in Clients : WF_vars(Stream(c))

FairSpec == Spec /\ Fairness

-----------------------------------------------------------------------------
Line == [text : Texts, at : Nat]

\* Every variable has its type; the buffer respects MAX_LINES; what the
\* buffer, the table, the channel and the calls refer to are accepted lines.
TypeOK ==
  /\ now \in Nat
  /\ started \in [time : 0 .. now, lines : 0 .. Len(line)]
  /\ line \in Seq(Line)
  /\ buf \in Seq([id : Lines, at : Nat]) /\ Len(buf) <= MaxLines
  /\ rows \in Seq(Lines)
  /\ sent \in Seq(Lines)
  /\ pc \in [Threads -> {"idle", "lock", "append", "prune", "send", "dbclear"}]
  /\ arg \in [Threads -> Line]
  /\ ref \in [Threads -> 0 .. Len(line)]
  /\ \A t \in Threads : pc[t] \in {"append", "prune", "send"} => ref[t] \in Lines
  /\ conn \in [Clients -> {"off", "subscribed", "live"}]
  /\ next \in [Clients -> 0 .. Len(sent)]
  /\ screen \in [Clients -> Seq(Lines)]
  /\ missed \in [Clients -> SUBSET Lines]
  /\ parted \subseteq Lines

\* stream_logs leaves no gap: every line a live stream was not excused from
\* (gone from the buffer before its snapshot, or overtaken in the channel) is
\* on its screen, waiting in its receiver, or about to be sent.
NoGap ==
  \A c \in Clients : conn[c] = "live" =>
    Lines \subseteq Shown(c) \cup missed[c] \cup Unsent
                    \cup {sent[i] : i \in (next[c] + 1) .. Len(sent)}

\* Dedup under concurrency: of two equal lines in the buffer, the later one
\* unless it was loaded from the table, was stamped a full window after the
\* earlier, although the time is read before the lock is taken.
NoRecentDuplicate ==
  \A i, j \in DOMAIN buf :
    /\ i < j
    /\ line[buf[i].id].text = line[buf[j].id].text
    => \/ Since(buf[j].at, buf[i].at) >= DedupWindow
       \/ buf[j].id <= started.lines

\* Once no call is between the buffer and the table, the two hold the same
\* lines, but for those a clear split, a failed statement or a cap cost one
\* of them.  This bounds what the two unsynchronised stores can disagree on.
Coherent ==
  (\A t \in Threads : pc[t] \notin {"append", "prune", "dbclear"}) =>
    (BufIds \ RowIds) \cup (RowIds \ BufIds) \subseteq parted

\* Whenever db.conn is free the table respects MAX_LOG_ROWS, as the comment
\* on log_append ("in one transaction") has it.
RowsCapped == DbFree => Len(rows) <= MaxLogRows

\* The lines in memory, oldest first.
InMemory == [i \in DOMAIN buf |-> buf[i].id]

\* While one task at a time uses the buffer, memory is the end of the table, in
\* order, whenever no call is under way and whenever a process has come up,
\* wherever the last one died: no restart shows a different console.
MemoryIsTail ==
  (\A t \in Threads : pc[t] = "idle") => InMemory = Newest(rows, MaxLines)

\* The handler of a stream may repeat a line, which it finds in its snapshot and
\* receives as well because it subscribed first, but never shows one a third
\* time, whichever calls and restarts the line went through.
ShownTwiceAtMost ==
  \A c \in Clients : \A i, j, k \in DOMAIN screen[c] :
    i < j /\ j < k /\ screen[c][i] = screen[c][j] => screen[c][j] # screen[c][k]

\* Of one writer, a stream shows every line for the first time after the older
\* ones, but for lines gone from the buffer when it took its snapshot, which
\* it may still receive.
FirstShownInOrder ==
  \A c \in Clients : conn[c] = "live" =>
    \A i, j \in DOMAIN screen[c] :
      i < j /\ screen[c][j] < screen[c][i] =>
        screen[c][j] \in missed[c] \cup {screen[c][k] : k \in 1 .. i}

\* Without a restart, memory is a log of the newest MaxLines lines that nothing
\* but a clear empties, however the calls overlap.
Memory == INSTANCE CappedLog WITH log <- InMemory, Cap <- MaxLines, Wipes <- TRUE
MemoryIsCappedLog == Memory!Spec

\* A line is dropped as a duplicate only if an equal line was accepted less
\* than a window ago, or this process loaded one less than a window ago: the
\* load stamps history of any age with the present.
JustifiedDrop ==
  [][\A t \in Threads : Drop(t) =>
       \E i \in Lines :
         /\ line[i].text = arg[t].text
         /\ \/ Since(arg[t].at, line[i].at) < DedupWindow
            \/ i <= started.lines /\ Since(arg[t].at, started.time) < DedupWindow
    ]_vars

\* History survives a restart whose load succeeds: a crash takes from the
\* buffer only lines whose row was still to be inserted, and those already
\* parted from the table.
HistorySurvives ==
  [][Crash => BufIds \ BufIds' \subseteq parted' \cup Unsaved]_vars

\* Every accepted line is broadcast in the end, whatever becomes of its row
\* (in a process that does not die).
EveryLineIsSent ==
  \A i \in 1 .. PushBound : i \in Lines ~> i \in SentIds

\* A stream that stays open shows in the end every line accepted, but for
\* those it is excused from.
StreamsCatchUp ==
  \A c \in Clients, i \in 1 .. PushBound :
    (conn[c] = "live" /\ i \in Lines)
      ~> (i \in Shown(c) \cup missed[c] \/ conn[c] # "live")

=============================================================================
