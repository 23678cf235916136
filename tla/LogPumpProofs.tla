--------------------------- MODULE LogPumpProofs ---------------------------
(***************************************************************************)
(* What TLAPS proves of LogPump for every number of handlers, every tail   *)
(* and every set of faults.                                                *)
(***************************************************************************)
EXTENDS LogPump, SequenceFacts, TLAPS

Increasing(s) == \A i, j \in DOMAIN s : i < j => s[i] < s[j]
Distinct(s)   == \A i, j \in DOMAIN s : i # j => s[i] # s[j]

-----------------------------------------------------------------------------
(* The inductive invariant *)

\* What an attach stream holds is ordered, and new to the activity table and
\* to the buffer.
StreamIsNew ==
  /\ Increasing(stream)
  /\ \A k \in DOMAIN stream :
       /\ \A i \in DOMAIN events : events[i] < stream[k]
       /\ stream[k] \notin Range(buf)

\* Between streams nothing is pending; history is read on the first connection
\* only.
Phases ==
  /\ pump \notin {"replay", "live"} => stream = <<>>
  /\ pump = "replay" => tail = "500"
  /\ pump = "sleep" => tail = "0"
  /\ pump = "live" => StreamIsNew

\* While history is replayed in time, the whole buffer is recent.
WindowHolds ==
  ~late /\ tail = "500" /\ pump \in {"connect", "replay"} => Range(buf) \subseteq recent

PumpInv == Phases /\ WindowHolds /\ EventsInOrder /\ NoRepeat

-----------------------------------------------------------------------------
(* Lemmas on the operators *)

\* The history Docker replays consists of lines the container has emitted.
LEMMA HistoryTyped ==
  ASSUME emitted \in Nat
  PROVE  History \in Seq(Lines)
<1>. DEFINE n == emitted - FirstOfTail + 1
<1>1. FirstOfTail \in Nat \ {0} /\ n \in Nat
  BY TailAssumption DEF FirstOfTail
<1>2. \A i \in 1 .. n : FirstOfTail + i - 1 \in Lines
  BY <1>1 DEF Lines
<1>3. History \in [1 .. n -> Lines]
  BY <1>2 DEF History
<1>. QED
  BY <1>1, <1>3, MadeSeq

\* Storing a line: the buffer gains it unless it was recent, and then it is.
LEMMA StoreProperties ==
  ASSUME NEW S, buf \in Seq(S), recent \subseteq Range(buf), NEW l \in S, Store(l)
  PROVE  /\ buf' \in Seq(S)
         /\ recent' = recent \cup {l}
         /\ Range(buf') = Range(buf) \cup {l}
<1>1. CASE IsDup(l)
  BY <1>1 DEF Store, IsDup, buffer
<1>2. CASE ~IsDup(l)
  <2>1. buf' = Append(buf, l) /\ recent' = recent \cup {l}
    BY <1>2 DEF Store
  <2>. QED
    BY <2>1, AppendElements
<1>. QED
  BY <1>1, <1>2

\* A new element keeps a sequence free of repetitions.
LEMMA AppendDistinct ==
  ASSUME NEW S, NEW s \in Seq(S), NEW e \in S, Distinct(s), e \notin Range(s)
  PROVE  Distinct(Append(s, e))
<1>1. \A i \in 1 .. Len(s) : s[i] # e
  BY LenProperties DEF Range
<1>2. Len(s) \in Nat /\ DOMAIN s = 1 .. Len(s)
  BY LenProperties
<1>. SUFFICES ASSUME NEW i \in 1 .. (Len(s) + 1), NEW j \in 1 .. (Len(s) + 1), i # j
              PROVE  Append(s, e)[i] # Append(s, e)[j]
  BY AppendElements DEF Distinct
<1>3. \A k \in 1 .. (Len(s) + 1) :
        /\ k \in 1 .. Len(s) => Append(s, e)[k] = s[k]
        /\ k \notin 1 .. Len(s) => k = Len(s) + 1 /\ Append(s, e)[k] = e
  BY <1>2, AppendElements
<1>. QED
  BY <1>1, <1>2, <1>3 DEF Distinct

\* A greater element keeps a sequence ordered.
LEMMA AppendIncreasing ==
  ASSUME NEW s \in Seq(Nat), NEW e \in Nat, Increasing(s), \A i \in DOMAIN s : s[i] < e
  PROVE  Increasing(Append(s, e))
<1>1. Len(s) \in Nat /\ DOMAIN s = 1 .. Len(s)
  BY LenProperties
<1>. SUFFICES ASSUME NEW i \in 1 .. (Len(s) + 1), NEW j \in 1 .. (Len(s) + 1), i < j
              PROVE  Append(s, e)[i] < Append(s, e)[j]
  BY AppendElements DEF Increasing
<1>2. Append(s, e)[Len(s) + 1] = e /\ \A k \in 1 .. Len(s) : Append(s, e)[k] = s[k]
  BY AppendElements
<1>3. i \in 1 .. Len(s) /\ Append(s, e)[i] = s[i]
  BY <1>1, <1>2
<1>4. CASE j = Len(s) + 1
  BY <1>1, <1>2, <1>3, <1>4
<1>5. CASE j \in 1 .. Len(s)
  BY <1>1, <1>2, <1>3, <1>5 DEF Increasing
<1>. QED
  BY <1>1, <1>4, <1>5

-----------------------------------------------------------------------------
(* Type correctness *)

Job == [op : OpKinds \cup {"none"}, at : {"idle", "compose", "up", "clear"}]

\* The types in two parts: what is built of lines, and the two flags.
LinesTyped ==
  /\ container \in {"none", "down", "up"}
  /\ emitted \in Nat
  /\ pump \in {"off", "connect", "replay", "attach", "live", "sleep"}
  /\ tail \in {"500", "0"}
  /\ stream \in Seq(Lines)
  /\ buf \in Seq(Lines) /\ recent \subseteq Range(buf)
  /\ job \in [Handlers -> Job]
  /\ events \in Seq(Lines)
  /\ pushed \subseteq Lines /\ owed \subseteq Lines

FlagsTyped == late \in BOOLEAN /\ open \in BOOLEAN /\ (open => pump = "live")

LEMMA TwoParts == TypeOK <=> LinesTyped /\ FlagsTyped
BY DEF TypeOK, LinesTyped, FlagsTyped, Job

\* The initial states are well typed.
LEMMA TypeInit == Init => TypeOK
<1>. SUFFICES ASSUME Init PROVE TypeOK
  OBVIOUS
<1>1. <<>> \in Seq(Lines) /\ Range(<<>>) = {}
  BY EmptySeq DEF Range
<1>2. LinesTyped
  BY <1>1 DEF Init, LinesTyped, Idle, Job
<1>3. FlagsTyped
  BY DEF Init, FlagsTyped
<1>. QED
  BY <1>2, <1>3, TwoParts

\* The pump's own steps keep the types of what is built of lines,
LEMMA TypePump ==
  ASSUME LinesTyped, Pump
  PROVE  LinesTyped'
<1>. USE DEF LinesTyped, docker, buffer, ghosts
<1>1. CASE Connect
  BY <1>1, HistoryTyped, EmptySeq DEF Connect, Lines
<1>2. ASSUME stream # <<>>, Store(Head(stream)), emitted' = emitted,
             stream' = Tail(stream)
      PROVE  /\ Head(stream) \in Lines /\ stream' \in Seq(Lines)
             /\ buf' \in Seq(Lines) /\ recent' \subseteq Range(buf')
  BY <1>2, TailElements, StoreProperties
<1>3. CASE Replay
  BY <1>2, <1>3 DEF Replay, Lines
<1>4. CASE Recv
  <2>1. Append(events, Head(stream)) \in Seq(Lines)
    BY <1>2, <1>4, AppendElements DEF Recv
  <2>. QED
    BY <1>2, <1>4, <2>1 DEF Recv, Lines
<1>5. <<>> \in Seq(Lines)
  BY EmptySeq
<1>6. CASE EndOfHistory \/ Attach \/ AttachFails
  BY <1>5, <1>6 DEF EndOfHistory, Attach, AttachFails, Lines
<1>7. CASE EndOfStream \/ StreamFails
  BY <1>5, <1>7 DEF EndOfStream, StreamFails, LetGo, Lines
<1>8. CASE Wake
  BY <1>8 DEF Wake, Lines
<1>. QED
  BY <1>1, <1>3, <1>4, <1>6, <1>7, <1>8 DEF Pump

\* A handler that moves on or answers stays a handler.
LEMMA JobMoves ==
  ASSUME NEW h \in Handlers, job \in [Handlers -> Job],
         Answer(h) \/ Goto(h, "up") \/ Goto(h, "clear")
  PROVE  job' \in [Handlers -> Job]
BY DEF Job, Answer, Goto, Idle

\* so do the handlers',
LEMMA TypeHandlers ==
  ASSUME LinesTyped, NEW h \in Handlers, Serve(h) \/ \E op \in Ops : Begin(h, op)
  PROVE  LinesTyped'
<1>. USE DEF LinesTyped, docker, reader, buffer, ghosts
<1>1. CASE \E op \in Ops : Begin(h, op)
  <2>1. job' \in [Handlers -> Job]
    BY <1>1, OpsAssumption DEF Begin, Job, OpKinds
  <2>. QED
    BY <1>1, <2>1 DEF Begin, Lines
<1>2. CASE ComposeUp(h)
  <2>1. Answer(h) \/ Goto(h, "clear")
    BY <1>2 DEF ComposeUp
  <2>2. container' = "up" /\ UNCHANGED <<emitted, reader, buffer, events, ghosts>>
    BY <1>2 DEF ComposeUp
  <2>. QED
    BY <2>1, <2>2, JobMoves DEF Lines
<1>3. CASE ComposeStop(h)
  <2>1. Answer(h) \/ Goto(h, "up")
    BY <1>3 DEF ComposeStop
  <2>2. /\ container' = "down"
        /\ UNCHANGED <<emitted, pump, tail, stream, buffer, events, ghosts>>
    BY <1>3 DEF ComposeStop
  <2>. QED
    BY <2>1, <2>2, JobMoves DEF Lines
<1>4. CASE ComposeFails(h)
  BY <1>4, JobMoves DEF ComposeFails, Lines
<1>5. CASE Clear(h)
  BY <1>5, EmptySeq, JobMoves DEF Clear, Lines
<1>. QED
  BY <1>1, <1>2, <1>3, <1>4, <1>5 DEF Serve

\* and those of the environment.
LEMMA TypeEnvironment ==
  ASSUME LinesTyped, Environment
  PROVE  LinesTyped'
<1>. USE DEF LinesTyped, docker, reader, buffer, ghosts
<1>1. CASE Emit
  <2>1. emitted' \in Nat /\ emitted' \in Lines' /\ Lines \subseteq Lines'
    BY <1>1 DEF Emit, Lines
  <2>2. stream \in Seq(Lines') /\ buf \in Seq(Lines') /\ events \in Seq(Lines')
    BY <2>1, SeqWidens
  <2>3. Append(stream, emitted') \in Seq(Lines')
    BY <2>1, <2>2, AppendElements
  <2>. QED
    BY <1>1, <2>1, <2>2, <2>3 DEF Emit
<1>2. CASE Exit \/ DaemonStart
  BY <1>2 DEF Exit, DaemonStart, Lines
<1>3. CASE Expire
  BY <1>3 DEF Expire, Lines
<1>4. CASE PanelStops
  BY <1>4, EmptySeq DEF PanelStops, LetGo, Idle, Job, Lines
<1>5. CASE PanelStarts
  BY <1>5 DEF PanelStarts, Lines
<1>. QED
  BY <1>1, <1>2, <1>3, <1>4, <1>5 DEF Environment

\* A stream is opened by Attach; it ends, or is let go, with the step that
\* leaves "live" or before it.
LEMMA FlagsStep ==
  ASSUME FlagsTyped, Next
  PROVE  FlagsTyped'
<1>. USE DEF FlagsTyped
<1>1. CASE Pump
  <2>1. CASE Connect \/ Replay \/ EndOfHistory
    BY <2>1 DEF Connect, Replay, EndOfHistory, docker, buffer, ghosts
  <2>2. CASE Attach
    BY <2>2 DEF Attach, docker, buffer, ghosts
  <2>3. CASE AttachFails \/ Wake
    BY <2>3 DEF AttachFails, Wake, docker, buffer, ghosts
  <2>4. CASE Recv \/ EndOfStream
    BY <2>4 DEF Recv, EndOfStream, docker, buffer, ghosts
  <2>5. CASE StreamFails
    BY <2>5 DEF StreamFails, LetGo, docker, buffer, ghosts
  <2>. QED
    BY <1>1, <2>1, <2>2, <2>3, <2>4, <2>5 DEF Pump
<1>2. ASSUME NEW h \in Handlers, Serve(h) \/ \E op \in Ops : Begin(h, op)
      PROVE  FlagsTyped'
  <2>1. CASE ComposeStop(h)
    BY <2>1 DEF ComposeStop, docker, buffer, ghosts
  <2>2. CASE ComposeUp(h) \/ ComposeFails(h) \/ Clear(h) \/ \E op \in Ops : Begin(h, op)
    BY <2>2 DEF ComposeUp, ComposeFails, Clear, Begin, docker, reader, buffer, ghosts
  <2>. QED
    BY <1>2, <2>1, <2>2 DEF Serve
<1>3. CASE Environment
  <2>1. CASE Emit \/ DaemonStart
    BY <2>1 DEF Emit, DaemonStart, docker, reader, buffer, ghosts
  <2>2. CASE Exit
    BY <2>2 DEF Exit, docker, buffer, ghosts
  <2>3. CASE Expire
    <3>1. late' \in BOOLEAN
      BY <2>3, Zenon DEF Expire
    <3>2. open' = open /\ pump' = pump
      BY <2>3 DEF Expire, reader
    <3>. QED
      BY <3>1, <3>2, Zenon
  <2>5. CASE PanelStarts
    BY <2>5 DEF PanelStarts, ghosts
  <2>4. CASE PanelStops
    BY <2>4 DEF PanelStops, LetGo, docker, buffer, ghosts
  <2>. QED
    BY <1>3, <2>1, <2>2, <2>3, <2>4, <2>5 DEF Environment
<1>. QED
  BY <1>1, <1>2, <1>3 DEF Next

\* For every instance: every variable keeps its type, and only a live pump has
\* a stream that Docker feeds.
THEOREM TypeCorrect == Spec => []TypeOK
<1>1. TypeOK /\ [Next]_vars => TypeOK'
  <2>. SUFFICES ASSUME TypeOK, [Next]_vars PROVE TypeOK'
    OBVIOUS
  <2>1. CASE UNCHANGED vars
    BY <2>1 DEF TypeOK, vars, Lines
  <2>2. CASE Next
    <3>1. LinesTyped /\ FlagsTyped
      BY TwoParts
    <3>2. LinesTyped'
      BY <2>2, <3>1, TypePump, TypeHandlers, TypeEnvironment, Zenon DEF Next
    <3>3. FlagsTyped'
      BY <2>2, <3>1, FlagsStep
    <3>. QED
      BY <3>2, <3>3 DEF TypeOK, LinesTyped, FlagsTyped, Job
  <2>. QED
    BY <2>1, <2>2
<1>. QED
  BY <1>1, TypeInit, PTL DEF Spec

-----------------------------------------------------------------------------
(* Nothing the pump hears is lost *)

LEMMA LostInit == Init => NothingHeardIsLost
BY DEF Init, NothingHeardIsLost

\* Every step that reads or drops the stream settles what it carried.
LEMMA LostStep ==
  ASSUME TypeOK, NothingHeardIsLost, [Next]_vars
  PROVE  NothingHeardIsLost'
<1>. USE DEF NothingHeardIsLost, docker, reader, buffer, ghosts
<1>1. CASE Connect \/ Replay \/ EndOfHistory \/ Attach \/ AttachFails \/ Wake
  BY <1>1 DEF Connect, Replay, EndOfHistory, Attach, AttachFails, Wake
<1>2. CASE Recv
  <2>1. Range(stream) = {Head(stream)} \cup Range(Tail(stream))
    BY <1>2, TailElements DEF Recv, TypeOK
  <2>. QED
    BY <1>2, <2>1 DEF Recv
<1>3. CASE EndOfStream
  <2>1. Range(stream) = {}
    BY <1>3 DEF EndOfStream, Range
  <2>. QED
    BY <1>3, <2>1 DEF EndOfStream
<1>4. CASE StreamFails \/ PanelStops
  BY <1>4 DEF StreamFails, PanelStops, LetGo
<1>5. ASSUME NEW h \in Handlers, Serve(h) \/ \E op \in Ops : Begin(h, op)
      PROVE  NothingHeardIsLost'
  BY <1>5 DEF Serve, ComposeUp, ComposeStop, ComposeFails, Clear, Begin
<1>6. CASE Emit
  <2>1. CASE open
    <3>1. stream \in Seq(Nat) /\ emitted' \in Nat
      BY <1>6, SeqWidens DEF Emit, TypeOK, Lines
    <3>2. Range(Append(stream, emitted')) = Range(stream) \cup {emitted'}
      BY <3>1, AppendElements
    <3>3. pump = "live"
      BY <2>1 DEF TypeOK
    <3>. QED
      BY <1>6, <2>1, <3>2, <3>3 DEF Emit
  <2>2. CASE ~open
    BY <1>6, <2>2 DEF Emit
  <2>. QED
    BY <2>1, <2>2
<1>7. CASE Exit \/ DaemonStart \/ Expire \/ PanelStarts
  <2>1. CASE PanelStarts
    BY <2>1 DEF PanelStarts
  <2>2. CASE Exit \/ DaemonStart \/ Expire
    BY <2>2 DEF Exit, DaemonStart, Expire
  <2>. QED
    BY <1>7, <2>1, <2>2
<1>8. CASE UNCHANGED vars
  BY <1>8 DEF vars
<1>. QED
  BY <1>1, <1>2, <1>3, <1>4, <1>5, <1>6, <1>7, <1>8 DEF Next, Pump, Environment

\* For every instance: what is emitted to an attached pump is pushed, or still
\* in the stream the pump reads, unless the stream fails or the panel stops.
THEOREM HeardLinesArePushed == Spec => []NothingHeardIsLost
BY TypeCorrect, LostInit, LostStep, PTL DEF Spec

-----------------------------------------------------------------------------
(* Order and repetition *)

LEMMA PumpInvInit == Init => PumpInv
<1>. SUFFICES ASSUME Init PROVE PumpInv
  OBVIOUS
<1>1. Range(buf) = {} /\ DOMAIN buf = {} /\ DOMAIN events = {}
  BY DEF Init, Range
<1>. QED
  BY <1>1 DEF Init, PumpInv, Phases, WindowHolds, EventsInOrder, NoRepeat

\* What is read from the stream leaves a stream that is still new.
LEMMA RecvKeepsNew ==
  ASSUME TypeOK, StreamIsNew, Recv
  PROVE  /\ StreamIsNew'
         /\ Increasing(events) => Increasing(events')
<1>. DEFINE l == Head(stream)
<1>1. /\ stream # <<>> /\ stream' = Tail(stream) /\ Store(l)
      /\ events' \in {events, Append(events, l)}
  BY DEF Recv
<1>2. stream \in Seq(Nat) /\ events \in Seq(Nat) /\ buf \in Seq(Nat) /\ recent \subseteq Range(buf)
  <2>1. Lines \subseteq Nat
    BY DEF Lines
  <2>. QED
    BY <2>1, SeqWidens DEF TypeOK
<1>3. /\ l \in Nat /\ l = stream[1] /\ DOMAIN stream' = 1 .. (Len(stream) - 1)
      /\ DOMAIN stream = 1 .. Len(stream) /\ Len(stream) \in Nat \ {0}
      /\ \A k \in DOMAIN stream' : k + 1 \in DOMAIN stream /\ stream'[k] = stream[k + 1]
  BY <1>1, <1>2, TailElements
<1>4. Range(buf') = Range(buf) \cup {l}
  BY <1>1, <1>2, <1>3, StoreProperties
<1>5. \A k \in DOMAIN stream' : l < stream'[k] /\ stream'[k] \in Nat
  <2>. SUFFICES ASSUME NEW k \in DOMAIN stream'
                PROVE  stream[1] < stream[k + 1] /\ stream[k + 1] \in Nat
    BY <1>3
  <2>1. k \in Nat /\ k >= 1 /\ 1 \in DOMAIN stream /\ k + 1 \in DOMAIN stream
    BY <1>3
  <2>2. stream[k + 1] \in Nat
    BY <1>2, <2>1, <1>3, ElementOfSeq
  <2>. QED
    BY <2>1, <2>2 DEF StreamIsNew, Increasing
<1>6. Increasing(stream')
  <2>. SUFFICES ASSUME NEW i \in DOMAIN stream', NEW j \in DOMAIN stream', i < j
                PROVE  stream[i + 1] < stream[j + 1]
    BY <1>3 DEF Increasing
  <2>1. i + 1 \in DOMAIN stream /\ j + 1 \in DOMAIN stream /\ i + 1 < j + 1
    BY <1>3
  <2>. QED
    BY <2>1 DEF StreamIsNew, Increasing
<1>7. \A i \in DOMAIN events : events[i] < l
  BY <1>3 DEF StreamIsNew
<1>8. ASSUME NEW k \in DOMAIN stream', NEW i \in DOMAIN events'
      PROVE  events'[i] < stream'[k]
  <2>1. CASE events' = events
    BY <1>3, <1>8, <2>1 DEF StreamIsNew
  <2>2. CASE events' = Append(events, l)
    <3>1. events'[i] = l \/ (i \in DOMAIN events /\ events'[i] = events[i])
      BY <1>2, <1>3, <1>8, <2>2, AppendCases
    <3>. QED
      BY <1>3, <1>5, <1>8, <3>1 DEF StreamIsNew
  <2>. QED
    BY <1>1, <2>1, <2>2
<1>9. ASSUME NEW k \in DOMAIN stream' PROVE stream'[k] \notin Range(buf')
  BY <1>3, <1>4, <1>5, <1>9 DEF StreamIsNew
<1>10. Increasing(events) => Increasing(events')
  BY <1>1, <1>2, <1>3, <1>7, AppendIncreasing
<1>. QED
  BY <1>6, <1>8, <1>9, <1>10 DEF StreamIsNew

\* A line the container emits is new to everything.
LEMMA EmitKeepsNew ==
  ASSUME TypeOK, StreamIsNew, Emit
  PROVE  StreamIsNew'
<1>1. /\ emitted' = emitted + 1 /\ emitted \in Nat
      /\ stream' \in {stream, Append(stream, emitted')}
      /\ buf' = buf /\ events' = events
  BY DEF Emit, TypeOK, buffer
<1>2. Lines \subseteq Nat /\ \A l \in Lines : l < emitted'
  BY <1>1 DEF Lines
<1>3. stream \in Seq(Nat)
  BY <1>2, SeqWidens DEF TypeOK
<1>4. /\ \A i \in DOMAIN stream : stream[i] < emitted'
      /\ \A i \in DOMAIN events : events[i] < emitted'
      /\ emitted' \notin Range(buf)
  <2>1. /\ \A i \in DOMAIN stream : stream[i] \in Lines
        /\ \A i \in DOMAIN events : events[i] \in Lines
        /\ Range(buf) \subseteq Lines
    BY SeqElements DEF TypeOK
  <2>2. emitted' \notin Lines
    BY <1>1 DEF Lines
  <2>. QED
    BY <1>2, <2>1, <2>2
<1>5. CASE stream' = stream
  BY <1>1, <1>5 DEF StreamIsNew
<1>6. CASE stream' = Append(stream, emitted')
  <2>1. emitted' \in Nat
    BY <1>1
  <2>2. Increasing(stream')
    BY <1>3, <1>4, <1>6, <2>1, AppendIncreasing DEF StreamIsNew
  <2>3. \A k \in DOMAIN stream' :
          stream'[k] = emitted' \/ (k \in DOMAIN stream /\ stream'[k] = stream[k])
    BY <1>3, <1>6, <2>1, AppendCases
  <2>. QED
    BY <1>1, <1>4, <2>2, <2>3 DEF StreamIsNew
<1>. QED
  BY <1>1, <1>5, <1>6

\* The phases, and what is new to the tables, are kept by every step.
LEMMA PhasesStep ==
  ASSUME TypeOK, Phases, [Next]_vars
  PROVE  Phases'
<1>. USE DEF Phases, docker, reader, buffer, ghosts
<1>1. CASE Connect
  BY <1>1 DEF Connect, TypeOK
<1>2. CASE Replay \/ EndOfHistory
  BY <1>2 DEF Replay, EndOfHistory
<1>3. CASE Attach
  <2>1. pump' = "live" /\ stream' = <<>> /\ DOMAIN stream' = {}
    BY <1>3 DEF Attach
  <2>. QED
    BY <2>1 DEF StreamIsNew, Increasing
<1>4. CASE AttachFails \/ Wake
  BY <1>4 DEF AttachFails, Wake
<1>5. CASE Recv
  <2>1. StreamIsNew' /\ pump' = "live"
    BY <1>5, RecvKeepsNew DEF Recv
  <2>. QED
    BY <2>1
<1>6. CASE EndOfStream \/ StreamFails \/ PanelStops
  BY <1>6 DEF EndOfStream, StreamFails, PanelStops, LetGo
<1>7. ASSUME UNCHANGED <<pump, tail, stream, events>>, Range(buf') \subseteq Range(buf)
      PROVE  Phases'
  BY <1>7 DEF StreamIsNew, Increasing
<1>8. ASSUME NEW h \in Handlers, Serve(h) \/ \E op \in Ops : Begin(h, op)
      PROVE  Phases'
  <2>1. CASE Clear(h)
    <3>1. Range(buf') = {} /\ UNCHANGED <<pump, tail, stream, events>>
      BY <2>1 DEF Clear, Range
    <3>. QED
      BY <3>1, <1>7
  <2>2. CASE ~Clear(h)
    <3>1. UNCHANGED <<pump, tail, stream, events, buf>>
      BY <1>8, <2>2 DEF Serve, ComposeUp, ComposeStop, ComposeFails, Begin
    <3>. QED
      BY <3>1, <1>7
  <2>. QED
    BY <2>1, <2>2
<1>9. CASE Emit
  <2>1. CASE pump = "live"
    <3>1. StreamIsNew' /\ pump' = pump /\ tail' = tail
      BY <1>9, <2>1, EmitKeepsNew DEF Emit
    <3>. QED
      BY <2>1, <3>1
  <2>2. CASE pump # "live"
    <3>1. UNCHANGED <<pump, tail, stream>>
      BY <1>9, <2>2 DEF Emit, TypeOK
    <3>. QED
      BY <2>2, <3>1
  <2>. QED
    BY <2>1, <2>2
<1>10. CASE Exit \/ DaemonStart \/ Expire
  <2>1. UNCHANGED <<pump, tail, stream, events, buf>>
    BY <1>10 DEF Exit, DaemonStart, Expire
  <2>. QED
    BY <2>1, <1>7
<1>11. CASE PanelStarts
  BY <1>11 DEF PanelStarts
<1>12. CASE UNCHANGED vars
  BY <1>12, <1>7 DEF vars
<1>. QED
  BY <1>1, <1>2, <1>3, <1>4, <1>5, <1>6, <1>8, <1>9, <1>10, <1>11, <1>12
  DEF Next, Pump, Environment

\* Events are recorded by Recv alone.
LEMMA EventsStep ==
  ASSUME TypeOK, Phases, EventsInOrder, [Next]_vars
  PROVE  EventsInOrder'
<1>1. EventsInOrder <=> Increasing(events)
  BY DEF EventsInOrder, Increasing
<1>2. CASE Recv
  <2>1. Increasing(events')
    BY <1>1, <1>2, RecvKeepsNew DEF Phases, Recv
  <2>. QED
    BY <2>1 DEF EventsInOrder, Increasing
<1>3. CASE ~Recv
  <2>1. events' = events
    BY <1>3 DEF Next, Pump, Serve, Environment, Connect, Replay, EndOfHistory, Attach,
       AttachFails, EndOfStream, StreamFails, Wake, Begin, ComposeUp, ComposeStop,
       ComposeFails, Clear, Emit, Exit, DaemonStart, Expire, PanelStops, PanelStarts, vars
  <2>. QED
    BY <2>1 DEF EventsInOrder
<1>. QED
  BY <1>2, <1>3

\* Only Replay and Recv store lines, and a line stored is not there yet: in a
\* replay that is in time the window sees the whole buffer; a line of an attach
\* stream is new.
LEMMA NoRepeatStep ==
  ASSUME TypeOK, Phases, WindowHolds, NoRepeat, [Next]_vars
  PROVE  NoRepeat'
<1>1. NoRepeat <=> (~late => Distinct(buf))
  BY DEF NoRepeat, Distinct
<1>2. ASSUME stream # <<>>, Store(Head(stream)), ~late, late' = late,
             ~IsDup(Head(stream)) => Head(stream) \notin Range(buf)
      PROVE  NoRepeat'
  <2>1. CASE IsDup(Head(stream))
    BY <1>2, <2>1 DEF NoRepeat, Store, buffer
  <2>2. CASE ~IsDup(Head(stream))
    <3>1. buf' = Append(buf, Head(stream)) /\ Head(stream) \in Lines /\ buf \in Seq(Lines)
      BY <1>2, <2>2, TailElements DEF Store, TypeOK
    <3>2. Distinct(buf')
      BY <1>1, <1>2, <2>2, <3>1, AppendDistinct
    <3>. QED
      BY <3>2 DEF NoRepeat, Distinct
  <2>. QED
    BY <2>1, <2>2
<1>3. CASE Replay
  <2>1. stream # <<>> /\ Store(Head(stream)) /\ late' = late /\ pump = "replay"
    BY <1>3 DEF Replay
  <2>2. CASE late
    BY <2>1, <2>2 DEF NoRepeat
  <2>3. CASE ~late
    BY <1>2, <2>1, <2>3 DEF Phases, WindowHolds, IsDup
  <2>. QED
    BY <2>2, <2>3
<1>4. CASE Recv
  <2>1. stream # <<>> /\ Store(Head(stream)) /\ late' = late /\ pump = "live"
    BY <1>4 DEF Recv, ghosts
  <2>2. Head(stream) = stream[1] /\ 1 \in DOMAIN stream
    BY <2>1, TailElements DEF TypeOK
  <2>3. Head(stream) \notin Range(buf)
    BY <2>1, <2>2 DEF Phases, StreamIsNew
  <2>4. CASE late
    BY <2>1, <2>4 DEF NoRepeat
  <2>5. CASE ~late
    BY <1>2, <2>1, <2>3, <2>5
  <2>. QED
    BY <2>4, <2>5
<1>5. ASSUME NEW h \in Handlers, Clear(h) PROVE NoRepeat'
  BY <1>5 DEF Clear, NoRepeat
<1>6. CASE Expire
  BY <1>6 DEF Expire, NoRepeat
<1>7. CASE ~Recv /\ ~Replay /\ ~Expire /\ \A h \in Handlers : ~Clear(h)
  <2>1. buf' = buf /\ late' = late
    BY <1>7 DEF Next, Pump, Serve, Environment, Connect, EndOfHistory, Attach,
       AttachFails, EndOfStream, StreamFails, Wake, Begin, ComposeUp, ComposeStop,
       ComposeFails, Emit, Exit, DaemonStart, PanelStops, PanelStarts, LetGo,
       vars, buffer, ghosts
  <2>. QED
    BY <2>1 DEF NoRepeat
<1>. QED
  BY <1>3, <1>4, <1>5, <1>6, <1>7

\* The window covers the buffer from the start of the panel to the end of the
\* first replay, unless it expires before.
LEMMA WindowStep ==
  ASSUME TypeOK, Phases, WindowHolds, [Next]_vars
  PROVE  WindowHolds'
<1>. USE DEF WindowHolds, docker, reader, buffer, ghosts
<1>1. CASE Connect
  BY <1>1 DEF Connect
<1>2. CASE Replay
  <2>1. Head(stream) \in Lines /\ Store(Head(stream))
    BY <1>2, TailElements DEF Replay, TypeOK
  <2>2. recent' = recent \cup {Head(stream)} /\ Range(buf') = Range(buf) \cup {Head(stream)}
    BY <2>1, StoreProperties DEF TypeOK
  <2>. QED
    BY <1>2, <2>2 DEF Replay
<1>3. CASE EndOfHistory \/ Attach \/ AttachFails \/ Recv \/ EndOfStream
  BY <1>3 DEF EndOfHistory, Attach, AttachFails, Recv, EndOfStream
<1>4. CASE StreamFails \/ PanelStops
  BY <1>4 DEF StreamFails, PanelStops
<1>5. CASE Wake
  BY <1>5 DEF Wake, Phases
<1>6. ASSUME NEW h \in Handlers, Serve(h) \/ \E op \in Ops : Begin(h, op)
      PROVE  WindowHolds'
  <2>1. CASE Clear(h)
    BY <2>1 DEF Clear, Range
  <2>2. CASE ~Clear(h)
    BY <1>6, <2>2 DEF Serve, ComposeUp, ComposeStop, ComposeFails, Begin
  <2>. QED
    BY <2>1, <2>2
<1>7. CASE Emit \/ Exit \/ DaemonStart
  BY <1>7 DEF Emit, Exit, DaemonStart
<1>8. CASE Expire
  BY <1>8 DEF Expire
<1>9. CASE PanelStarts
  BY <1>9 DEF PanelStarts
<1>10. CASE UNCHANGED vars
  BY <1>10 DEF vars
<1>. QED
  BY <1>1, <1>2, <1>3, <1>4, <1>5, <1>6, <1>7, <1>8, <1>9, <1>10
  DEF Next, Pump, Environment

LEMMA PumpInvHolds == Spec => []PumpInv
<1>1. TypeOK /\ PumpInv /\ [Next]_vars => PumpInv'
  BY PhasesStep, EventsStep, NoRepeatStep, WindowStep DEF PumpInv
<1>. QED
  BY <1>1, TypeCorrect, PumpInvInit, PTL DEF Spec

\* For every instance: activity is recorded in the order of the container's
\* lines and at most once per line.
THEOREM ActivityIsOrdered == Spec => []EventsInOrder
<1>1. PumpInv => EventsInOrder
  BY DEF PumpInv
<1>. QED
  BY <1>1, PumpInvHolds, PTL

\* For every instance: while no replay outlasts the dedup window, no line of
\* the container is in the buffer twice.
THEOREM NoLineRepeats == Spec => []NoRepeat
<1>1. PumpInv => NoRepeat
  BY DEF PumpInv
<1>. QED
  BY <1>1, PumpInvHolds, PTL

-----------------------------------------------------------------------------
(* What is cleared stays away *)

\* What the pump has yet to read it has not pushed: history is read once, and
\* an attach stream is younger than it.
Unheard ==
  /\ Increasing(stream)
  /\ \A k \in DOMAIN stream : stream[k] \notin pushed

ReadsOnce ==
  /\ pump \in {"replay", "live"} => Unheard
  /\ pump = "connect" /\ tail = "500" => pushed = {}

\* The lines of the history are in order.
LEMMA HistoryIncreasing ==
  ASSUME emitted \in Nat
  PROVE  Increasing(History)
<1>1. FirstOfTail \in Nat
  BY TailAssumption DEF FirstOfTail
<1>2. DOMAIN History = 1 .. (emitted - FirstOfTail + 1)
      /\ \A i \in DOMAIN History : History[i] = FirstOfTail + i - 1
  BY DEF History
<1>. QED
  BY <1>1, <1>2 DEF Increasing

\* The line that is read is in no part of the stream that is left.
LEMMA UnheardRest ==
  ASSUME TypeOK, Unheard, stream # <<>>, stream' = Tail(stream),
         pushed' = pushed \cup {Head(stream)}
  PROVE  Unheard'
<1>. DEFINE l == Head(stream)
<1>1. stream \in Seq(Nat)
  BY SeqWidens DEF TypeOK, Lines
<1>2. /\ l = stream[1] /\ 1 \in DOMAIN stream
      /\ DOMAIN stream' = 1 .. (Len(stream) - 1) /\ Len(stream) \in Nat
      /\ \A k \in DOMAIN stream' : k + 1 \in DOMAIN stream /\ stream'[k] = stream[k + 1]
  BY <1>1, TailElements
<1>3. ASSUME NEW k \in DOMAIN stream' PROVE stream'[k] \notin pushed'
  <2>1. k \in Nat /\ 1 < k + 1 /\ k + 1 \in DOMAIN stream /\ stream'[k] = stream[k + 1]
    BY <1>2
  <2>2. stream[1] < stream[k + 1] /\ stream[1] \in Nat
    BY <1>1, <1>2, <2>1, ElementOfSeq DEF Unheard, Increasing
  <2>. QED
    BY <1>2, <2>1, <2>2 DEF Unheard
<1>4. ASSUME NEW i \in DOMAIN stream', NEW j \in DOMAIN stream', i < j
      PROVE  stream'[i] < stream'[j]
  <2>1. i \in Nat /\ j \in Nat /\ i + 1 < j + 1
    BY <1>2, <1>4
  <2>. QED
    BY <1>2, <2>1 DEF Unheard, Increasing
<1>. QED
  BY <1>3, <1>4 DEF Unheard, Increasing

\* A line that has just been emitted has not been pushed.
LEMMA UnheardEmit ==
  ASSUME TypeOK, Unheard, Emit
  PROVE  Unheard'
<1>1. /\ emitted' = emitted + 1 /\ emitted \in Nat /\ pushed' = pushed
      /\ stream' \in {stream, Append(stream, emitted')}
  BY DEF Emit, TypeOK
<1>2. stream \in Seq(Nat) /\ emitted' \in Nat
  BY <1>1, SeqWidens DEF TypeOK, Lines
<1>3. emitted' \notin pushed /\ \A i \in DOMAIN stream : stream[i] < emitted'
  <2>1. pushed \subseteq Lines /\ \A i \in DOMAIN stream : stream[i] \in Lines
    BY SeqElements DEF TypeOK
  <2>. QED
    BY <1>1, <2>1 DEF Lines
<1>4. CASE stream' = stream
  BY <1>1, <1>4 DEF Unheard
<1>5. CASE stream' = Append(stream, emitted')
  <2>1. Increasing(stream')
    BY <1>2, <1>3, <1>5, AppendIncreasing DEF Unheard
  <2>2. \A k \in DOMAIN stream' :
          stream'[k] = emitted' \/ (k \in DOMAIN stream /\ stream'[k] = stream[k])
    BY <1>2, <1>5, AppendCases
  <2>. QED
    BY <1>1, <1>3, <2>1, <2>2 DEF Unheard
<1>. QED
  BY <1>1, <1>4, <1>5

LEMMA ReadsOnceStep ==
  ASSUME TypeOK, Phases, ReadsOnce, [Next]_vars
  PROVE  ReadsOnce'
<1>. USE DEF ReadsOnce, docker, reader, buffer, ghosts
<1>1. CASE Connect
  <2>1. CASE tail = "0"
    BY <1>1, <2>1 DEF Connect
  <2>2. CASE tail # "0"
    <3>1. /\ pump' = "replay" /\ stream' = History /\ pushed' = pushed /\ pushed = {}
      BY <1>1, <2>2 DEF Connect, TypeOK
    <3>. QED
      BY <3>1, HistoryIncreasing DEF TypeOK, Unheard, Increasing
  <2>. QED
    BY <2>1, <2>2
<1>2. CASE Replay \/ Recv
  <2>1. /\ pump \in {"replay", "live"} /\ pump' = pump
        /\ stream # <<>> /\ stream' = Tail(stream) /\ pushed' = pushed \cup {Head(stream)}
    BY <1>2 DEF Replay, Recv
  <2>. QED
    BY <2>1, UnheardRest
<1>3. CASE Attach
  <2>1. pump' = "live" /\ stream' = <<>> /\ DOMAIN stream' = {}
    BY <1>3 DEF Attach, Phases
  <2>. QED
    BY <2>1 DEF Unheard, Increasing
<1>4. CASE EndOfHistory \/ AttachFails \/ EndOfStream
  BY <1>4 DEF EndOfHistory, AttachFails, EndOfStream
<1>5. CASE StreamFails \/ PanelStops
  BY <1>5 DEF StreamFails, PanelStops
<1>6. CASE Wake
  BY <1>6 DEF Wake, Phases
<1>7. CASE PanelStarts
  BY <1>7 DEF PanelStarts
<1>8. ASSUME UNCHANGED <<pump, tail, stream, pushed>> PROVE ReadsOnce'
  BY <1>8 DEF Unheard, Increasing
<1>9. ASSUME NEW h \in Handlers, Serve(h) \/ \E op \in Ops : Begin(h, op)
      PROVE  ReadsOnce'
  <2>1. UNCHANGED <<pump, tail, stream, pushed>>
    BY <1>9 DEF Serve, ComposeUp, ComposeStop, ComposeFails, Clear, Begin
  <2>. QED
    BY <2>1, <1>8
<1>10. CASE Emit
  <2>1. pump' = pump /\ tail' = tail /\ pushed' = pushed
    BY <1>10 DEF Emit
  <2>. QED
    BY <1>10, <2>1, UnheardEmit
<1>11. CASE Exit \/ DaemonStart \/ Expire
  <2>1. UNCHANGED <<pump, tail, stream, pushed>>
    BY <1>11 DEF Exit, DaemonStart, Expire
  <2>. QED
    BY <2>1, <1>8
<1>12. CASE UNCHANGED vars
  BY <1>12, <1>8 DEF vars
<1>. QED
  BY <1>1, <1>2, <1>3, <1>4, <1>5, <1>6, <1>7, <1>9, <1>10, <1>11, <1>12
  DEF Next, Pump, Environment

\* Only Replay and Recv add to the buffer, and they add what was not pushed.
LEMMA ClearedStep ==
  ASSUME TypeOK, ReadsOnce, [Next]_vars
  PROVE  pushed \cap Range(buf)' \subseteq Range(buf)
<1>1. CASE Replay \/ Recv
  <2>1. pump \in {"replay", "live"} /\ stream # <<>> /\ Store(Head(stream))
    BY <1>1 DEF Replay, Recv
  <2>2. Head(stream) \in Lines /\ Head(stream) = stream[1] /\ 1 \in DOMAIN stream
    BY <2>1, TailElements DEF TypeOK
  <2>3. Range(buf') = Range(buf) \cup {Head(stream)}
    BY <2>1, <2>2, StoreProperties DEF TypeOK
  <2>. QED
    BY <2>1, <2>2, <2>3 DEF ReadsOnce, Unheard
<1>2. ASSUME NEW h \in Handlers, Clear(h) PROVE Range(buf') = {}
  BY <1>2 DEF Clear, Range
<1>3. CASE ~Recv /\ ~Replay /\ \A h \in Handlers : ~Clear(h)
  <2>1. buf' = buf
    BY <1>3 DEF Next, Pump, Serve, Environment, Connect, EndOfHistory, Attach,
       AttachFails, EndOfStream, StreamFails, Wake, Begin, ComposeUp, ComposeStop,
       ComposeFails, Emit, Exit, DaemonStart, Expire, PanelStops, PanelStarts,
       vars, buffer
  <2>. QED
    BY <2>1
<1>. QED
  BY <1>1, <1>2, <1>3

\* For every instance: what clear has taken from the console comes back no
\* sooner than with a restart of the panel.
THEOREM ClearsLast == Spec => ClearedStaysCleared
<1>1. Init => ReadsOnce
  BY DEF Init, ReadsOnce
<1>2. PumpInv => Phases
  BY DEF PumpInv
<1>3. Spec => []ReadsOnce
  BY <1>1, <1>2, ReadsOnceStep, TypeCorrect, PumpInvHolds, PTL DEF Spec
<1>4. TypeOK /\ ReadsOnce /\ [Next]_vars
        => [pushed \cap Range(buf)' \subseteq Range(buf)]_vars
  BY ClearedStep
<1>. QED
  BY <1>3, <1>4, TypeCorrect, PTL DEF Spec, ClearedStaysCleared

=============================================================================
