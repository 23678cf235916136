-------------------------- MODULE LogBufferProofs --------------------------
(***************************************************************************)
(* What TLAPS proves of LogBuffer for every number of threads and          *)
(* connections, every capacity, window, set of faults and bound.           *)
(***************************************************************************)
EXTENDS LogBuffer, SequenceFacts, TLAPS

LogBufferConstants ==
  /\ MaxLines \in Nat \ {0} /\ MaxLogRows \in Nat \ {0}
  /\ ChanCap \in Nat \ {0} /\ DedupWindow \in Nat

\* The assumptions the proofs rest on, as one fact.
LEMMA ConstantsTyped == LogBufferConstants
BY MaxLinesAssumption, MaxLogRowsAssumption, ChanCapAssumption,
   WindowAssumption DEF LogBufferConstants

-----------------------------------------------------------------------------
(* Lemmas on the operators *)

\* log_load and the pruning DELETE: Newest keeps the order and the elements,
\* respects its limit, and leaves out exactly Oldest.
LEMMA NewestProperties ==
  ASSUME NEW S, NEW s \in Seq(S), NEW n \in Nat
  PROVE  /\ Newest(s, n) \in Seq(S)
         /\ Len(Newest(s, n)) \in 0 .. n
         /\ Range(Newest(s, n)) \subseteq Range(s)
         /\ Range(s) \subseteq Range(Newest(s, n)) \cup Oldest(s, n)
         /\ Oldest(s, n) \subseteq S
<1>. DEFINE m == IF Len(s) > n THEN Len(s) - n + 1 ELSE 1
<1>1. Len(s) \in Nat /\ DOMAIN s = 1 .. Len(s) /\ \A i \in 1 .. Len(s) : s[i] \in S
  BY LenProperties, ElementOfSeq
<1>2. m \in 1 .. (Len(s) + 1)
  BY <1>1
<1>3. Newest(s, n) = SubSeq(s, m, Len(s))
  BY DEF Newest
<1>. HIDE DEF m
<1>4. /\ Newest(s, n) \in Seq(S)
      /\ Len(Newest(s, n)) = IF m <= Len(s) THEN Len(s) - m + 1 ELSE 0
      /\ \A i \in 1 .. (Len(s) - m + 1) : Newest(s, n)[i] = s[m + i - 1]
  BY <1>1, <1>2, <1>3, SubSeqProperties
<1>5. Len(Newest(s, n)) = Len(s) - m + 1
  BY <1>1, <1>2, <1>4
<1>6. DOMAIN Newest(s, n) = 1 .. (Len(s) - m + 1)
  BY <1>4, <1>5, LenProperties
<1>7. Len(Newest(s, n)) \in 0 .. n
  BY <1>1, <1>2, <1>5 DEF m
<1>8. Range(Newest(s, n)) \subseteq Range(s)
  <2>. SUFFICES ASSUME NEW i \in 1 .. (Len(s) - m + 1)
                PROVE  \E j \in DOMAIN s : Newest(s, n)[i] = s[j]
    BY <1>6 DEF Range
  <2>1. m + i - 1 \in 1 .. Len(s)
    BY <1>1, <1>2
  <2>. QED
    BY <2>1, <1>1, <1>4
<1>9. Range(s) \subseteq Range(Newest(s, n)) \cup Oldest(s, n)
  <2>. SUFFICES ASSUME NEW j \in 1 .. Len(s), s[j] \notin Oldest(s, n)
                PROVE  \E i \in DOMAIN Newest(s, n) : Newest(s, n)[i] = s[j]
    BY <1>1 DEF Range
  <2>1. j > Len(s) - n
    BY <1>1 DEF Oldest
  <2>2. j >= m
    BY <1>1, <2>1 DEF m
  <2>3. j - m + 1 \in 1 .. (Len(s) - m + 1) /\ m + (j - m + 1) - 1 = j
    BY <1>1, <1>2, <2>2
  <2>. QED
    BY <2>3, <1>4, <1>6
<1>10. Oldest(s, n) \subseteq S
  <2>. SUFFICES ASSUME NEW i \in 1 .. (Len(s) - n) PROVE s[i] \in S
    BY DEF Oldest
  <2>. QED
    BY <1>1
<1>. QED
  BY <1>4, <1>7, <1>8, <1>9, <1>10

-----------------------------------------------------------------------------
(* Type correctness *)

\* The initial states are well typed.
LEMMA TypeInit == Init => TypeOK
<1>. SUFFICES ASSUME Init PROVE TypeOK
  OBVIOUS
<1>1. line = <<>> /\ Len(line) = 0 /\ Len(buf) = 0 /\ Len(sent) = 0
  BY DEF Init
<1>2. arg \in [Threads -> Line]
  BY DEF Init, Line
<1>. QED
  BY <1>1, <1>2, ConstantsTyped DEF LogBufferConstants, Init, TypeOK, Lines, Line

\* Accepting a line keeps every reference to a line valid.
LEMMA TypeAccept ==
  ASSUME TypeOK, NEW t \in Threads, Accept(t)
  PROVE  TypeOK'
<1>. USE DEF TypeOK
<1>. DEFINE new == Len(line) + 1
            Entry == [id : Lines', at : Nat]
<1>1. /\ line' \in Seq(Line) /\ Len(line') = new /\ Len(line) \in Nat
      /\ arg[t] \in Line /\ arg[t].at \in Nat
  BY AppendElements DEF Accept, Line
<1>2. Lines \subseteq Lines' /\ new \in Lines'
  BY <1>1 DEF Lines
<1>3. buf \in Seq(Entry)
  <2>1. [id : Lines, at : Nat] \subseteq Entry
    BY <1>2
  <2>. QED
    BY <2>1, SeqMonotonic
<1>4. rows \in Seq(Lines') /\ sent \in Seq(Lines')
  BY <1>2, SeqMonotonic
<1>5. MakeRoom \in Seq(Entry) /\ Len(MakeRoom) < MaxLines /\ Evicted \subseteq Lines
  <2>1. CASE Len(buf) >= MaxLines
    <3>1. buf # <<>>
      BY <2>1, <1>3, ConstantsTyped, EmptySeq DEF LogBufferConstants
    <3>2. Tail(buf) \in Seq(Entry) /\ Len(Tail(buf)) = Len(buf) - 1
      BY <3>1, <1>3, HeadTailProperties
    <3>3. Head(buf) \in [id : Lines, at : Nat]
      BY <3>1, HeadTailProperties
    <3>. QED
      BY <2>1, <3>2, <3>3, <1>3, LenProperties, ConstantsTyped
      DEF MakeRoom, Evicted, LogBufferConstants
  <2>2. CASE ~(Len(buf) >= MaxLines)
    BY <2>2, <1>3, LenProperties, ConstantsTyped
    DEF MakeRoom, Evicted, LogBufferConstants
  <2>. QED
    BY <2>1, <2>2
<1>6. buf' \in Seq(Entry) /\ Len(buf') <= MaxLines
  <2>1. [id |-> new, at |-> arg[t].at] \in Entry
    BY <1>1, <1>2
  <2>2. buf' = Append(MakeRoom, [id |-> new, at |-> arg[t].at])
    BY DEF Accept
  <2>3. buf' \in Seq(Entry) /\ Len(buf') = Len(MakeRoom) + 1
    BY <1>5, <2>1, <2>2, AppendElements
  <2>4. Len(MakeRoom) \in Nat
    BY <1>5, LenProperties
  <2>. QED
    BY <1>5, <2>3, <2>4, ConstantsTyped DEF LogBufferConstants
<1>7. \A c \in Clients : screen[c] \in Seq(Lines')
  BY <1>2, SeqMonotonic
<1>8. /\ screen' \in [Clients -> Seq(Lines')]
      /\ missed' \in [Clients -> SUBSET Lines']
      /\ conn' \in [Clients -> {"off", "subscribed", "live"}]
      /\ next' \in [Clients -> 0 .. Len(sent')]
  BY <1>2, <1>7 DEF Accept, sse
<1>9. /\ ref' \in [Threads -> 0 .. Len(line')]
      /\ pc' \in [Threads -> {"idle", "lock", "append", "prune", "send", "dbclear"}]
      /\ \A u \in Threads : pc'[u] \in {"append", "prune", "send"} => ref'[u] \in Lines'
  <2>1. 0 .. Len(line) \subseteq 0 .. Len(line') /\ new \in 0 .. Len(line')
    BY <1>1
  <2>. QED
    BY <2>1, <1>1, <1>2 DEF Accept, Goto
<1>10. /\ now' \in Nat
       /\ started' \in [time : 0 .. now', lines : 0 .. Len(line')]
  <2>1. 0 .. Len(line) \subseteq 0 .. Len(line')
    BY <1>1
  <2>. QED
    BY <2>1 DEF Accept
<1>. QED
  BY <1>1, <1>2, <1>4, <1>5, <1>6, <1>8, <1>9, <1>10 DEF Accept

\* The steps that write the table keep its rows accepted lines.
LEMMA TypeTable ==
  ASSUME TypeOK, NEW t \in Threads,
         \/ Insert(t) \/ InsertFails(t) \/ Prune(t) \/ PruneFails(t)
         \/ ClearDb(t) \/ ClearDbFails(t)
  PROVE  TypeOK'
<1>. USE DEF TypeOK
<1>1. line' = line /\ Lines' = Lines /\ Len(line) \in Nat
  BY LenProperties DEF Insert, InsertFails, Prune, PruneFails, ClearDb, ClearDbFails,
     store, Lines
<1>2. Unsaved \subseteq Lines /\ RowIds \subseteq Lines
  BY RangeOfSeq DEF Unsaved, RowIds
<1>3. CASE Insert(t)
  <2>1. Append(rows, ref[t]) \in Seq(Lines)
    BY <1>3, AppendElements DEF Insert
  <2>. QED
    BY <1>1, <1>3, <2>1 DEF Insert, Goto, sse, Lines
<1>4. CASE InsertFails(t)
  BY <1>1, <1>4 DEF InsertFails, Goto, sse, Lines
<1>5. CASE Prune(t)
  <2>1. Newest(rows, MaxLogRows) \in Seq(Lines) /\ Oldest(rows, MaxLogRows) \subseteq Lines
    BY NewestProperties, ConstantsTyped DEF LogBufferConstants
  <2>. QED
    BY <1>1, <1>5, <2>1 DEF Prune, Goto, sse, Lines
<1>6. CASE PruneFails(t)
  BY <1>1, <1>6 DEF PruneFails, Goto, store, sse, Lines
<1>7. CASE ClearDb(t)
  <2>1. <<>> \in Seq(Lines) /\ Split(t) \subseteq Lines
    BY <1>2, EmptySeq DEF Split
  <2>. QED
    BY <1>1, <1>7, <2>1 DEF ClearDb, Goto, sse, Lines
<1>8. CASE ClearDbFails(t)
  BY <1>1, <1>2, <1>8 DEF ClearDbFails, Goto, sse, Lines
<1>. QED
  BY <1>3, <1>4, <1>5, <1>6, <1>7, <1>8

\* So do the other steps of a call.
LEMMA TypeCall ==
  ASSUME TypeOK, NEW t \in Threads,
         \/ \E text \in Texts : Push(t, text)
         \/ Drop(t) \/ Send(t) \/ ClearMem(t)
  PROVE  TypeOK'
<1>. USE DEF TypeOK
<1>1. line' = line /\ Lines' = Lines /\ Len(line) \in Nat
  BY LenProperties DEF Push, Drop, Send, ClearMem, store, Lines
<1>2. CASE \E text \in Texts : Push(t, text)
  <2>1. PICK text \in Texts : Push(t, text)
    BY <1>2
  <2>. QED
    BY <1>1, <2>1 DEF Push, Goto, store, sse, Lines, Line
<1>3. CASE Drop(t)
  BY <1>1, <1>3 DEF Drop, Goto, store, sse, Lines
<1>4. CASE Send(t)
  <2>1. Append(sent, ref[t]) \in Seq(Lines) /\ Len(sent') = Len(sent) + 1
        /\ Len(sent) \in Nat
    BY <1>4, AppendElements DEF Send
  <2>2. next' \in [Clients -> 0 .. Len(sent')]
    BY <1>4, <2>1 DEF Send, sse
  <2>. QED
    BY <1>1, <1>4, <2>1, <2>2 DEF Send, Goto, store, sse, Lines
<1>5. CASE ClearMem(t)
  <2>1. <<>> \in Seq([id : Lines, at : Nat]) /\ Len(<<>>) = 0
    BY EmptySeq
  <2>. QED
    BY <1>1, <1>5, <2>1, ConstantsTyped
    DEF LogBufferConstants, ClearMem, Goto, sse, Lines
<1>. QED
  BY <1>2, <1>3, <1>4, <1>5

\* The streams only ever hold lines of the buffer and of the channel.
LEMMA TypeStream ==
  ASSUME TypeOK, NEW c \in Clients, Subscribe(c) \/ Stream(c) \/ Disconnect(c)
  PROVE  TypeOK'
<1>. USE DEF TypeOK
<1>1. /\ line' = line /\ Lines' = Lines /\ Len(line) \in Nat
      /\ UNCHANGED <<now, store, call, sent, started>>
      /\ Len(sent) \in Nat
  BY LenProperties
  DEF Subscribe, Stream, Snapshot, Recv, Lagged, Disconnect, store, Lines
<1>2. \A i \in 1 .. Len(sent) : sent[i] \in Lines
  BY ElementOfSeq
<1>3. UNCHANGED <<now, buf, rows, line, parted, pc, arg, ref, sent, started>>
  BY <1>1 DEF store, call
<1>4. SUFFICES /\ conn' \in [Clients -> {"off", "subscribed", "live"}]
               /\ next' \in [Clients -> 0 .. Len(sent)]
               /\ screen' \in [Clients -> Seq(Lines)]
               /\ missed' \in [Clients -> SUBSET Lines]
  BY <1>1, <1>3
<1>5. CASE Subscribe(c)
  BY <1>1, <1>5 DEF Subscribe
<1>6. CASE Snapshot(c)
  <2>. DEFINE ids == [i \in DOMAIN buf |-> buf[i].id]
  <2>1. Len(buf) \in Nat /\ DOMAIN buf = 1 .. Len(buf)
        /\ \A i \in 1 .. Len(buf) : buf[i] \in [id : Lines, at : Nat]
    BY LenProperties, ElementOfSeq
  <2>2. ids \in [1 .. Len(buf) -> Lines]
    BY <2>1
  <2>3. ids \in Seq(Lines)
    BY <2>1, <2>2, MadeSeq
  <2>. QED
    BY <1>6, <2>3 DEF Snapshot
<1>7. CASE Recv(c)
  <2>1. next[c] + 1 \in 1 .. Len(sent)
    BY <1>1, <1>7 DEF Recv
  <2>2. Append(screen[c], sent[next[c] + 1]) \in Seq(Lines)
    BY <1>2, <2>1, AppendElements
  <2>. QED
    BY <1>1, <1>7, <2>1, <2>2 DEF Recv
<1>8. CASE Lagged(c)
  <2>1. Len(sent) - ChanCap \in 0 .. Len(sent)
    BY <1>1, <1>8, ConstantsTyped DEF Lagged, Behind, LogBufferConstants
  <2>2. {sent[i] : i \in (next[c] + 1) .. (Len(sent) - ChanCap)} \subseteq Lines
    BY <1>1, <1>2, <2>1
  <2>. QED
    BY <1>8, <2>1, <2>2 DEF Lagged
<1>9. CASE Disconnect(c)
  <2>1. <<>> \in Seq(Lines)
    BY EmptySeq
  <2>. QED
    BY <1>1, <1>9, <2>1 DEF Disconnect
<1>. QED
  BY <1>5, <1>6, <1>7, <1>8, <1>9 DEF Stream

\* A restart keeps the types, whatever rows it loads.
LEMMA TypeRestart ==
  ASSUME TypeOK,
         NEW loaded \in Seq(Lines), Len(loaded) <= MaxLines, Restart(loaded),
         NEW gone \in SUBSET Lines, parted' = parted \cup gone
  PROVE  TypeOK'
<1>. USE DEF TypeOK
<1>. DEFINE Entry == [id : Lines, at : Nat]
<1>1. Len(line) \in Nat /\ Lines' = Lines
  BY LenProperties DEF Restart, Lines
<1>2. Len(loaded) \in Nat /\ DOMAIN loaded = 1 .. Len(loaded)
      /\ \A i \in 1 .. Len(loaded) : loaded[i] \in Lines
  BY LenProperties, ElementOfSeq
<1>3. [i \in DOMAIN loaded |-> [id |-> loaded[i], at |-> now]] \in [1 .. Len(loaded) -> Entry]
  BY <1>2
<1>4. buf' = [i \in DOMAIN loaded |-> [id |-> loaded[i], at |-> now]]
  BY DEF Restart
<1>5. buf' \in Seq(Entry) /\ Len(buf') <= MaxLines
  BY <1>2, <1>3, <1>4, MadeSeq
<1>6. <<>> \in Seq(Lines) /\ Len(<<>>) = 0
  BY EmptySeq
<1>7. /\ sent' \in Seq(Lines) /\ next' \in [Clients -> 0 .. Len(sent')]
      /\ screen' \in [Clients -> Seq(Lines)]
  BY <1>6 DEF Restart
<1>8. /\ UNCHANGED <<now, rows, line, arg, ref>>
      /\ pc' = [t \in Threads |-> "idle"]
      /\ conn' = [c \in Clients |-> "off"]
      /\ missed' = [c \in Clients |-> {}]
      /\ started' = [time |-> now, lines |-> Len(line)]
  BY DEF Restart
<1>. QED
  BY <1>1, <1>5, <1>7, <1>8

\* The clock and the crash.
LEMMA TypeEnvironment ==
  ASSUME TypeOK, Tick \/ Crash \/ CrashLoadFails
  PROVE  TypeOK'
<1>1. CASE Tick
  BY <1>1, LenProperties DEF Tick, store, call, sse, Lines, TypeOK
<1>2. CASE Crash
  <2>1. rows \in Seq(Lines) /\ MaxLines \in Nat
    BY ConstantsTyped DEF LogBufferConstants, TypeOK
  <2>2. /\ Newest(rows, MaxLines) \in Seq(Lines) /\ Len(Newest(rows, MaxLines)) <= MaxLines
        /\ Oldest(rows, MaxLines) \in SUBSET Lines
    BY <2>1, NewestProperties
  <2>. QED
    BY <1>2, <2>2, TypeRestart DEF Crash
<1>3. CASE CrashLoadFails
  <2>1. <<>> \in Seq(Lines) /\ Len(<<>>) <= MaxLines
    BY EmptySeq, ConstantsTyped DEF LogBufferConstants
  <2>2. RowIds \in SUBSET Lines
    BY LenProperties, ElementOfSeq DEF RowIds, Range, TypeOK
  <2>. QED
    BY <1>3, <2>1, <2>2, TypeRestart DEF CrashLoadFails
<1>. QED
  BY <1>1, <1>2, <1>3

\* Every step, and a stuttering step, keeps the types.
LEMMA TypeStep == TypeOK /\ [Next]_vars => TypeOK'
<1>. SUFFICES ASSUME TypeOK, [Next]_vars PROVE TypeOK'
  OBVIOUS
<1>1. CASE UNCHANGED vars
  BY <1>1 DEF vars, TypeOK, Lines
<1>2. ASSUME NEW t \in Threads, Continue(t) \/ ClearMem(t) \/ \E text \in Texts : Push(t, text)
      PROVE  TypeOK'
  BY <1>2, TypeAccept, TypeTable, TypeCall DEF Continue
<1>3. ASSUME NEW c \in Clients, Subscribe(c) \/ Stream(c) \/ Disconnect(c)
      PROVE  TypeOK'
  BY <1>3, TypeStream
<1>4. CASE Tick \/ Crash \/ CrashLoadFails
  BY <1>4, TypeEnvironment
<1>. QED
  BY <1>1, <1>2, <1>3, <1>4 DEF Next

\* Type correctness, the capacity of the buffer included, for every instance.
THEOREM TypeCorrect == Spec => []TypeOK
BY TypeInit, TypeStep, PTL DEF Spec

-----------------------------------------------------------------------------
(* Coherence of memory and table *)

\* The strengthening of Coherent.  A clear that has wiped memory and not yet
\* the table is what may separate them while calls are under way: everything
\* now in memory is younger than it, and every row it has still to delete is
\* older.
CoherentInv ==
  /\ \A t \in Threads : pc[t] = "dbclear" => \A i \in BufIds : i > ref[t]
  /\ BufIds \subseteq RowIds \cup Unsaved \cup parted
  /\ \A i \in (RowIds \cup Unsaved) \ (BufIds \cup parted) :
       \E t \in Threads : pc[t] = "dbclear" /\ i <= ref[t]

\* It implies Coherent.
LEMMA CoherentImplied == CoherentInv => Coherent
BY DEF CoherentInv, Coherent, Unsaved

\* It holds initially.
LEMMA CoherentInit == Init => CoherentInv
BY DEF Init, CoherentInv, BufIds, RowIds, Unsaved, Range

\* What accepting a line does to the lines in memory.
LEMMA AcceptEffect ==
  ASSUME TypeOK, NEW t \in Threads, Accept(t)
  PROVE  /\ BufIds' \subseteq BufIds \cup {Len(line) + 1}
         /\ BufIds \subseteq BufIds' \cup Evicted
         /\ Len(line) + 1 \in BufIds'
<1>. DEFINE Entry == [id : Nat, at : Nat]
            e == [id |-> Len(line) + 1, at |-> arg[t].at]
<1>1. buf \in Seq(Entry) /\ Len(line) \in Nat
  <2>1. Len(line) \in Nat /\ [id : Lines, at : Nat] \subseteq Entry
    BY LenProperties DEF TypeOK, Lines
  <2>. QED
    BY <2>1, SeqMonotonic DEF TypeOK
<1>2. e \in Entry
  BY <1>1 DEF TypeOK, Line
<1>3. MakeRoom \in Seq(Entry)
      /\ Range(MakeRoom) \subseteq Range(buf)
      /\ \A i \in DOMAIN buf : buf[i] \in Range(MakeRoom) \/ buf[i].id \in Evicted
  <2>1. CASE Len(buf) >= MaxLines
    <3>1. buf # <<>>
      BY <2>1, <1>1, ConstantsTyped, EmptySeq DEF LogBufferConstants
    <3>2. MakeRoom = Tail(buf) /\ Evicted = {buf[1].id}
      BY <2>1, <3>1, <1>1 DEF MakeRoom, Evicted
    <3>3. Tail(buf) \in Seq(Entry) /\ Len(Tail(buf)) = Len(buf) - 1
          /\ \A i \in 1 .. Len(Tail(buf)) : Tail(buf)[i] = buf[i + 1]
      BY <3>1, <1>1, HeadTailProperties
    <3>4. DOMAIN Tail(buf) = 1 .. (Len(buf) - 1) /\ DOMAIN buf = 1 .. Len(buf)
          /\ Len(buf) \in Nat
      BY <3>3, <1>1, LenProperties
    <3>5. \A i \in 1 .. (Len(buf) - 1) : i + 1 \in 1 .. Len(buf)
      BY <3>4
    <3>6. Range(Tail(buf)) \subseteq Range(buf)
      BY <3>3, <3>4, <3>5 DEF Range
    <3>7. ASSUME NEW i \in 1 .. Len(buf), i # 1
          PROVE  buf[i] \in Range(Tail(buf))
      <4>1. i - 1 \in 1 .. (Len(buf) - 1) /\ (i - 1) + 1 = i
        BY <3>4, <3>7
      <4>. QED
        BY <4>1, <3>3, <3>4 DEF Range
    <3>. QED
      BY <3>2, <3>3, <3>4, <3>6, <3>7
  <2>2. CASE ~(Len(buf) >= MaxLines)
    BY <2>2, <1>1 DEF MakeRoom, Range
  <2>. QED
    BY <2>1, <2>2
<1>4. Range(buf') = Range(MakeRoom) \cup {e}
  <2>1. buf' = Append(MakeRoom, e)
    BY DEF Accept
  <2>. HIDE DEF e, Entry
  <2>2. Range(Append(MakeRoom, e)) = Range(MakeRoom) \cup {e}
    BY <1>2, <1>3, AppendElements
  <2>. QED
    BY <2>1, <2>2
<1>5. \A i \in DOMAIN buf : buf[i].id \in BufIds' \/ buf[i].id \in Evicted
  BY <1>3, <1>4 DEF BufIds
<1>6. BufIds \subseteq BufIds' \cup Evicted
  BY <1>5 DEF BufIds, Range
<1>7. BufIds' \subseteq BufIds \cup {e.id}
  BY <1>3, <1>4 DEF BufIds
<1>8. e.id \in BufIds'
  BY <1>4 DEF BufIds
<1>. QED
  BY <1>6, <1>7, <1>8

\* Accepting a line: memory runs ahead of the table by an unsaved line.
LEMMA CoherentAccept ==
  ASSUME TypeOK, CoherentInv, NEW t \in Threads, Accept(t)
  PROVE  CoherentInv'
<1>. DEFINE new == Len(line) + 1
<1>1. /\ BufIds' \subseteq BufIds \cup {new} /\ BufIds \subseteq BufIds' \cup Evicted
      /\ new \in BufIds'
  BY AcceptEffect
<1>2. /\ parted' = parted \cup Evicted /\ RowIds' = RowIds
      /\ pc[t] = "lock" /\ pc' = [pc EXCEPT ![t] = "append"]
      /\ ref' = [ref EXCEPT ![t] = new]
      /\ pc \in [Threads -> {"idle", "lock", "append", "prune", "send", "dbclear"}]
      /\ ref \in [Threads -> 0 .. Len(line)] /\ Len(line) \in Nat
  BY LenProperties DEF Accept, Goto, RowIds, TypeOK
<1>3. Unsaved' = Unsaved \cup {new}
  BY <1>2 DEF Unsaved
<1>4. \A u \in Threads : pc'[u] = "dbclear" =>
        pc[u] = "dbclear" /\ ref'[u] = ref[u] /\ new > ref[u]
  BY <1>2
<1>5. \A u \in Threads : pc[u] = "dbclear" => pc'[u] = "dbclear" /\ ref'[u] = ref[u]
  BY <1>2
<1>6. \A u \in Threads : pc'[u] = "dbclear" => \A i \in BufIds' : i > ref'[u]
  BY <1>1, <1>4 DEF CoherentInv
<1>7. BufIds' \subseteq RowIds' \cup Unsaved' \cup parted'
  BY <1>1, <1>2, <1>3 DEF CoherentInv
<1>8. \A i \in (RowIds' \cup Unsaved') \ (BufIds' \cup parted') :
        \E u \in Threads : pc'[u] = "dbclear" /\ i <= ref'[u]
  BY <1>1, <1>2, <1>3, <1>5 DEF CoherentInv
<1>. HIDE DEF new
<1>. QED
  BY <1>6, <1>7, <1>8 DEF CoherentInv

\* Writing the row: the line moves from unsaved to the table, or is parted.
LEMMA CoherentAppend ==
  ASSUME TypeOK, CoherentInv, NEW t \in Threads,
         Insert(t) \/ InsertFails(t) \/ Prune(t) \/ PruneFails(t)
  PROVE  CoherentInv'
<1>1. /\ pc[t] \in {"append", "prune"} /\ pc' = [pc EXCEPT ![t] = pc'[t]]
      /\ pc'[t] \in {"prune", "send"} /\ BufIds' = BufIds /\ ref' = ref
      /\ pc \in [Threads -> {"idle", "lock", "append", "prune", "send", "dbclear"}]
  BY DEF Insert, InsertFails, Prune, PruneFails, Goto, TypeOK, store, BufIds
<1>2. \A u \in Threads : pc'[u] = "dbclear" <=> pc[u] = "dbclear"
  BY <1>1
<1>3. Unsaved' \subseteq Unsaved /\ Unsaved \subseteq Unsaved' \cup {ref[t]}
  BY <1>1 DEF Unsaved
<1>4. /\ RowIds' \subseteq RowIds \cup Unsaved
      /\ RowIds \subseteq RowIds' \cup parted'
      /\ parted \subseteq parted'
      /\ Unsaved \subseteq Unsaved' \cup RowIds' \cup parted'
  <2>1. CASE Insert(t)
    <3>1. RowIds' = RowIds \cup {ref[t]} /\ parted' = parted /\ ref[t] \in Unsaved
      <4>1. rows' = Append(rows, ref[t]) /\ rows \in Seq(Lines) /\ ref[t] \in Lines
            /\ pc[t] = "append" /\ parted' = parted
        BY <2>1 DEF Insert, TypeOK
      <4>2. Range(Append(rows, ref[t])) = Range(rows) \cup {ref[t]}
        BY <4>1, AppendElements
      <4>. QED
        BY <4>1, <4>2 DEF RowIds, Unsaved
    <3>. QED
      BY <3>1, <1>3
  <2>2. CASE InsertFails(t)
    BY <2>2, <1>3 DEF InsertFails, RowIds
  <2>3. CASE Prune(t)
    <3>1. rows' = Newest(rows, MaxLogRows) /\ parted' = parted \cup Oldest(rows, MaxLogRows)
          /\ pc[t] = "prune" /\ pc'[t] = "send"
      BY <2>3, <1>1 DEF Prune, Goto
    <3>2. RowIds' \subseteq RowIds /\ RowIds \subseteq RowIds' \cup Oldest(rows, MaxLogRows)
      <4>1. rows \in Seq(Lines) /\ MaxLogRows \in Nat
        BY ConstantsTyped DEF LogBufferConstants, TypeOK
      <4>. QED
        BY <3>1, <4>1, NewestProperties DEF RowIds
    <3>3. Unsaved' = Unsaved
      BY <1>1, <3>1 DEF Unsaved
    <3>. QED
      BY <3>1, <3>2, <3>3
  <2>4. CASE PruneFails(t)
    <3>1. Unsaved' = Unsaved
      BY <2>4, <1>1 DEF Unsaved, PruneFails
    <3>. QED
      BY <2>4, <3>1 DEF PruneFails, store, RowIds
  <2>. QED
    BY <2>1, <2>2, <2>3, <2>4
<1>. QED
  BY <1>1, <1>2, <1>3, <1>4 DEF CoherentInv

\* The two halves of a clear.
LEMMA CoherentClear ==
  ASSUME TypeOK, CoherentInv, NEW t \in Threads,
         ClearMem(t) \/ ClearDb(t) \/ ClearDbFails(t)
  PROVE  CoherentInv'
<1>1. /\ pc \in [Threads -> {"idle", "lock", "append", "prune", "send", "dbclear"}]
      /\ ref \in [Threads -> 0 .. Len(line)] /\ Len(line) \in Nat
  BY LenProperties DEF TypeOK
<1>2. RowIds \subseteq 1 .. Len(line) /\ Unsaved \subseteq 1 .. Len(line)
  BY RangeOfSeq DEF TypeOK, RowIds, Unsaved, Lines
<1>3. CASE ClearMem(t)
  <2>1. /\ BufIds' = {} /\ RowIds' = RowIds /\ parted' = parted
        /\ pc'[t] = "dbclear" /\ ref'[t] = Len(line)
    BY <1>1, <1>3 DEF ClearMem, Goto, BufIds, RowIds, Range
  <2>2. Unsaved' = Unsaved
    BY <1>1, <1>3 DEF ClearMem, Goto, Unsaved
  <2>3. \A i \in RowIds' \cup Unsaved' : i <= ref'[t]
    BY <1>2, <2>1, <2>2
  <2>. QED
    BY <2>1, <2>3 DEF CoherentInv
<1>4. CASE ClearDb(t) \/ ClearDbFails(t)
  <2>1. /\ BufIds' = BufIds /\ ref' = ref
        /\ pc[t] = "dbclear" /\ pc' = [pc EXCEPT ![t] = "idle"]
    BY <1>4 DEF ClearDb, ClearDbFails, Goto, BufIds
  <2>2. Unsaved' = Unsaved
    BY <1>1, <2>1 DEF Unsaved
  <2>3. \A u \in Threads : pc'[u] = "dbclear" <=> pc[u] = "dbclear" /\ u # t
    BY <1>1, <2>1
  <2>4. CASE ClearDb(t)
    <3>1. RowIds' = {} /\ parted' = parted \cup Split(t)
      BY <2>4 DEF ClearDb, RowIds, Range
    <3>2. BufIds' \subseteq RowIds' \cup Unsaved' \cup parted'
      BY <3>1, <2>1, <2>2 DEF CoherentInv, Split
    <3>. QED
      BY <1>1, <2>1, <2>2, <2>3, <3>1, <3>2 DEF CoherentInv, Split
  <2>5. CASE ClearDbFails(t)
    <3>1. RowIds' = RowIds
          /\ parted' = parted \cup {i \in RowIds \cup Unsaved : i <= ref[t]}
      BY <2>5 DEF ClearDbFails, RowIds
    <3>. QED
      BY <1>1, <2>1, <2>2, <2>3, <3>1 DEF CoherentInv
  <2>. QED
    BY <1>4, <2>4, <2>5
<1>. QED
  BY <1>3, <1>4

\* A restart rebuilds memory from the table, and no call survives it.
LEMMA CoherentCrash ==
  ASSUME TypeOK, Crash \/ CrashLoadFails
  PROVE  CoherentInv'
<1>1. ASSUME NEW loaded, NEW gone, Restart(loaded), parted' = parted \cup gone,
             Range(loaded) \subseteq RowIds, RowIds \subseteq Range(loaded) \cup gone
      PROVE  CoherentInv'
  <2>1. /\ buf' = [i \in DOMAIN loaded |-> [id |-> loaded[i], at |-> now]]
        /\ rows' = rows /\ pc' = [t \in Threads |-> "idle"]
    BY <1>1 DEF Restart
  <2>2. BufIds' = Range(loaded) /\ RowIds' = RowIds
    BY <2>1 DEF BufIds, RowIds, Range
  <2>3. Unsaved' = {}
    BY <2>1 DEF Unsaved
  <2>. QED
    BY <1>1, <2>1, <2>2, <2>3 DEF CoherentInv
<1>2. CASE Crash
  <2>1. rows \in Seq(Lines) /\ MaxLines \in Nat
    BY ConstantsTyped DEF LogBufferConstants, TypeOK
  <2>2. /\ Range(Newest(rows, MaxLines)) \subseteq RowIds
        /\ RowIds \subseteq Range(Newest(rows, MaxLines)) \cup Oldest(rows, MaxLines)
    BY <2>1, NewestProperties DEF RowIds
  <2>. QED
    BY <1>1, <1>2, <2>2 DEF Crash
<1>3. CASE CrashLoadFails
  <2>1. Range(<<>>) = {}
    BY DEF Range
  <2>. QED
    BY <1>1, <1>3, <2>1 DEF CrashLoadFails
<1>. QED
  BY <1>2, <1>3

\* Every step keeps it.
LEMMA CoherentStep == TypeOK /\ CoherentInv /\ [Next]_vars => CoherentInv'
<1>. SUFFICES ASSUME TypeOK, CoherentInv, [Next]_vars PROVE CoherentInv'
  OBVIOUS
<1>1. ASSUME UNCHANGED <<buf, rows, parted, pc, ref>> PROVE CoherentInv'
  BY <1>1 DEF CoherentInv, BufIds, RowIds, Unsaved
<1>2. ASSUME NEW t \in Threads,
             Drop(t) \/ Send(t) \/ \E text \in Texts : Push(t, text)
      PROVE  CoherentInv'
  <2>1. /\ UNCHANGED <<buf, rows, parted, ref>>
        /\ pc \in [Threads -> {"idle", "lock", "append", "prune", "send", "dbclear"}]
        /\ pc[t] \in {"idle", "lock", "send"}
        /\ pc' = [pc EXCEPT ![t] = pc'[t]] /\ pc'[t] \in {"idle", "lock"}
    BY <1>2 DEF Drop, Send, Push, Goto, store, TypeOK
  <2>2. Unsaved' = Unsaved
    BY <2>1 DEF Unsaved
  <2>3. \A u \in Threads : pc'[u] = "dbclear" <=> pc[u] = "dbclear"
    BY <2>1
  <2>. QED
    BY <2>1, <2>2, <2>3 DEF CoherentInv, BufIds, RowIds
<1>3. ASSUME NEW t \in Threads, Continue(t) \/ ClearMem(t) \/ \E text \in Texts : Push(t, text)
      PROVE  CoherentInv'
  BY <1>2, <1>3, CoherentAccept, CoherentAppend, CoherentClear DEF Continue
<1>4. ASSUME NEW c \in Clients, Subscribe(c) \/ Stream(c) \/ Disconnect(c)
      PROVE  CoherentInv'
  BY <1>1, <1>4
  DEF Subscribe, Stream, Snapshot, Recv, Lagged, Disconnect, store, call
<1>5. CASE Tick
  BY <1>1, <1>5 DEF Tick, store, call
<1>6. CASE Crash \/ CrashLoadFails
  BY <1>6, CoherentCrash
<1>7. CASE UNCHANGED vars
  BY <1>1, <1>7 DEF vars
<1>. QED
  BY <1>3, <1>4, <1>5, <1>6, <1>7 DEF Next

\* For every instance: once no call is between memory and table, they differ
\* only on lines a clear split, a failed statement or a cap parted.
THEOREM MemoryAndTableAgree == Spec => []Coherent
<1>1. Spec => []CoherentInv
  BY TypeCorrect, CoherentInit, CoherentStep, PTL DEF Spec
<1>. QED
  BY <1>1, CoherentImplied, PTL

-----------------------------------------------------------------------------
(* The streams have no gap *)

\* The messages a connection's receiver has still to read.
Waiting(c) == {sent[i] : i \in (next[c] + 1) .. Len(sent)}

\* NoGap of one connection.
Covered(c) == Lines \subseteq Shown(c) \cup missed[c] \cup Unsent \cup Waiting(c)

\* NoGap is inductive: it only needs the types.
LEMMA NoGapInit == Init => NoGap
BY DEF Init, NoGap

\* A line enters as unsent and leaves Unsent into every open receiver.
LEMMA NoGapPush ==
  ASSUME TypeOK, NoGap, NEW t \in Threads, Accept(t) \/ Send(t)
  PROVE  NoGap'
<1>. SUFFICES ASSUME NEW c \in Clients, conn'[c] = "live"
              PROVE  Covered(c)'
  BY DEF NoGap, Covered, Waiting
<1>1. /\ UNCHANGED sse
      /\ pc \in [Threads -> {"idle", "lock", "append", "prune", "send", "dbclear"}]
      /\ ref \in [Threads -> 0 .. Len(line)]
      /\ next[c] \in 0 .. Len(sent) /\ Len(line) \in Nat /\ Len(sent) \in Nat
  BY LenProperties DEF Accept, Send, TypeOK
<1>2. Covered(c) /\ Shown(c)' = Shown(c) /\ missed'[c] = missed[c] /\ next'[c] = next[c]
  BY <1>1 DEF NoGap, Covered, Waiting, sse, Shown
<1>3. CASE Accept(t)
  <2>1. pc' = [pc EXCEPT ![t] = "append"] /\ ref' = [ref EXCEPT ![t] = Len(line) + 1]
        /\ pc[t] = "lock" /\ sent' = sent
    BY <1>3 DEF Accept, Goto
  <2>2. Unsent' = Unsent \cup {Len(line) + 1}
    BY <1>1, <2>1 DEF Unsent
  <2>3. Lines' = Lines \cup {Len(line) + 1}
    <3>1. Len(line') = Len(line) + 1
      BY <1>3, AppendElements DEF Accept, TypeOK
    <3>. QED
      BY <3>1, <1>1 DEF Lines
  <2>4. Waiting(c)' = Waiting(c)
    BY <1>2, <2>1 DEF Waiting
  <2>. QED
    BY <1>2, <2>2, <2>3, <2>4 DEF Covered
<1>4. CASE Send(t)
  <2>1. pc' = [pc EXCEPT ![t] = "idle"] /\ ref' = ref /\ line' = line
        /\ pc[t] = "send" /\ sent' = Append(sent, ref[t])
    BY <1>4 DEF Send, Goto, store
  <2>2. Unsent \subseteq Unsent' \cup {ref[t]}
    BY <1>1, <2>1 DEF Unsent
  <2>3. /\ Len(sent') = Len(sent) + 1 /\ sent'[Len(sent) + 1] = ref[t]
        /\ \A i \in 1 .. Len(sent) : sent'[i] = sent[i]
    BY <2>1, AppendElements DEF TypeOK
  <2>4. Len(sent) + 1 \in (next[c] + 1) .. Len(sent')
    BY <1>1, <2>3
  <2>5. ref[t] \in Waiting(c)'
    BY <1>2, <2>3, <2>4 DEF Waiting
  <2>6. \A i \in (next[c] + 1) .. Len(sent) :
          i \in (next[c] + 1) .. Len(sent') /\ i \in 1 .. Len(sent)
    BY <1>1, <2>3
  <2>7. Waiting(c) \subseteq Waiting(c)'
    BY <1>2, <2>3, <2>6 DEF Waiting
  <2>8. Lines' = Lines
    BY <2>1 DEF Lines
  <2>. QED
    BY <1>2, <2>2, <2>5, <2>7, <2>8 DEF Covered
<1>. QED
  BY <1>3, <1>4

\* The steps of a stream move lines towards the screen, or excuse them.
LEMMA NoGapStream ==
  ASSUME TypeOK, NoGap, NEW d \in Clients, Subscribe(d) \/ Stream(d) \/ Disconnect(d)
  PROVE  NoGap'
<1>. SUFFICES ASSUME NEW c \in Clients, conn'[c] = "live"
              PROVE  Covered(c)'
  BY DEF NoGap, Covered, Waiting
<1>1. /\ UNCHANGED <<buf, line, sent, pc, ref>>
      /\ conn \in [Clients -> {"off", "subscribed", "live"}]
      /\ next \in [Clients -> 0 .. Len(sent)]
      /\ screen \in [Clients -> Seq(Lines)]
      /\ missed \in [Clients -> SUBSET Lines]
      /\ sent \in Seq(Lines) /\ Len(sent) \in Nat
  BY LenProperties
  DEF Subscribe, Stream, Snapshot, Recv, Lagged, Disconnect, store, call, TypeOK
<1>2. Lines' = Lines /\ Unsent' = Unsent
  BY <1>1 DEF Lines, Unsent
<1>3. CASE c # d
  <2>1. conn'[c] = conn[c] /\ next'[c] = next[c] /\ screen'[c] = screen[c]
        /\ missed'[c] = missed[c]
    BY <1>1, <1>3 DEF Subscribe, Stream, Snapshot, Recv, Lagged, Disconnect
  <2>2. Covered(c) /\ Shown(c)' = Shown(c) /\ Waiting(c)' = Waiting(c)
    BY <1>1, <2>1 DEF NoGap, Covered, Waiting, Shown
  <2>. QED
    BY <1>2, <2>1, <2>2 DEF Covered
<1>4. CASE c = d /\ Snapshot(c)
  <2>1. screen'[c] = [i \in DOMAIN buf |-> buf[i].id] /\ missed'[c] = Lines \ BufIds
    BY <1>1, <1>4 DEF Snapshot
  <2>2. Shown(c)' = BufIds
    BY <2>1 DEF Shown, BufIds, Range
  <2>. QED
    BY <1>2, <2>1, <2>2 DEF Covered
<1>5. CASE c = d /\ Recv(c)
  <2>1. /\ screen'[c] = Append(screen[c], sent[next[c] + 1])
        /\ next'[c] = next[c] + 1 /\ missed' = missed /\ conn[c] = "live"
        /\ next[c] + 1 \in 1 .. Len(sent)
    BY <1>1, <1>5 DEF Recv
  <2>2. sent[next[c] + 1] \in Lines
    BY <1>1, <2>1, ElementOfSeq
  <2>3. Shown(c)' = Shown(c) \cup {sent[next[c] + 1]}
    <3>1. screen[c] \in Seq(Lines)
      BY <1>1
    <3>. QED
      BY <2>1, <2>2, <3>1, AppendElements DEF Shown
  <2>4. \A i \in (next[c] + 1) .. Len(sent) :
          i = next[c] + 1 \/ i \in (next'[c] + 1) .. Len(sent)
    BY <1>1, <2>1
  <2>5. Waiting(c) \subseteq Waiting(c)' \cup {sent[next[c] + 1]}
    BY <1>1, <2>4 DEF Waiting
  <2>6. Covered(c)
    BY <2>1 DEF NoGap, Covered, Waiting
  <2>. QED
    BY <1>2, <2>1, <2>3, <2>5, <2>6 DEF Covered
<1>6. CASE c = d /\ Lagged(c)
  <2>. DEFINE passed == {sent[i] : i \in (next[c] + 1) .. (Len(sent) - ChanCap)}
  <2>1. /\ screen' = screen /\ next'[c] = Len(sent) - ChanCap /\ conn[c] = "live"
        /\ missed'[c] = missed[c] \cup passed
        /\ ChanCap \in Nat
    BY <1>1, <1>6, ConstantsTyped DEF Lagged, LogBufferConstants
  <2>2. Waiting(c) \subseteq Waiting(c)' \cup passed
    <3>1. \A i \in (next[c] + 1) .. Len(sent) :
            \/ i \in (next[c] + 1) .. (Len(sent) - ChanCap)
            \/ i \in (next'[c] + 1) .. Len(sent)
      BY <1>1, <2>1
    <3>. QED
      BY <1>1, <3>1 DEF Waiting
  <2>. HIDE DEF passed
  <2>3. Covered(c) /\ Shown(c)' = Shown(c)
    BY <2>1 DEF NoGap, Covered, Waiting, Shown
  <2>. QED
    BY <1>2, <2>1, <2>2, <2>3 DEF Covered
<1>7. CASE c = d /\ (Subscribe(c) \/ Disconnect(c))
  BY <1>1, <1>7 DEF Subscribe, Disconnect
<1>. QED
  BY <1>3, <1>4, <1>5, <1>6, <1>7 DEF Stream

\* Every step keeps it.
LEMMA NoGapStep == TypeOK /\ NoGap /\ [Next]_vars => NoGap'
<1>. SUFFICES ASSUME TypeOK, NoGap, [Next]_vars PROVE NoGap'
  OBVIOUS
<1>1. ASSUME UNCHANGED <<line, sent, conn, next, screen, missed>>, Unsent' = Unsent
      PROVE  NoGap'
  BY <1>1 DEF NoGap, Lines, Shown
<1>2. ASSUME NEW t \in Threads,
             \/ Drop(t) \/ Insert(t) \/ InsertFails(t) \/ Prune(t) \/ PruneFails(t)
             \/ ClearMem(t) \/ ClearDb(t) \/ ClearDbFails(t)
             \/ \E text \in Texts : Push(t, text)
      PROVE  NoGap'
  <2>1. UNCHANGED <<line, sent, conn, next, screen, missed>>
    BY <1>2 DEF Drop, Insert, InsertFails, Prune, PruneFails, ClearMem, ClearDb,
                ClearDbFails, Push, store, sse
  <2>2. pc' = [pc EXCEPT ![t] = pc'[t]]
    BY <1>2 DEF Drop, Insert, InsertFails, Prune, PruneFails, ClearMem, ClearDb,
                ClearDbFails, Push, Goto, TypeOK
  <2>3. pc \in [Threads -> {"idle", "lock", "append", "prune", "send", "dbclear"}]
        /\ ref \in [Threads -> 0 .. Len(line)]
    BY DEF TypeOK
  <2>4. CASE pc[t] \in {"append", "prune"}
    <3>1. pc'[t] \in {"prune", "send"} /\ ref' = ref
      BY <1>2, <2>3, <2>4 DEF Drop, Insert, InsertFails, Prune, PruneFails, ClearMem,
                  ClearDb, ClearDbFails, Push, Goto
    <3>2. Unsent' = Unsent
      BY <2>2, <2>3, <2>4, <3>1 DEF Unsent
    <3>. QED
      BY <1>1, <2>1, <3>2
  <2>5. CASE pc[t] \in {"idle", "lock", "dbclear"}
    <3>1. pc'[t] \in {"idle", "lock", "dbclear"}
          /\ \A u \in Threads : u # t => ref'[u] = ref[u]
      BY <1>2, <2>3, <2>5 DEF Drop, Insert, InsertFails, Prune, PruneFails, ClearMem,
                  ClearDb, ClearDbFails, Push, Goto
    <3>2. Unsent' = Unsent
      BY <2>2, <2>3, <2>5, <3>1 DEF Unsent
    <3>. QED
      BY <1>1, <2>1, <3>2
  <2>. QED
    BY <1>2, <2>4, <2>5 DEF Drop, Insert, InsertFails, Prune, PruneFails, ClearMem,
                ClearDb, ClearDbFails, Push
<1>3. ASSUME NEW t \in Threads, Continue(t) \/ ClearMem(t) \/ \E text \in Texts : Push(t, text)
      PROVE  NoGap'
  BY <1>2, <1>3, NoGapPush DEF Continue
<1>4. ASSUME NEW c \in Clients, Subscribe(c) \/ Stream(c) \/ Disconnect(c)
      PROVE  NoGap'
  BY <1>4, NoGapStream
<1>5. CASE Tick
  BY <1>1, <1>5 DEF Tick, store, call, sse, Unsent
<1>6. CASE Crash \/ CrashLoadFails
  BY <1>6 DEF Crash, CrashLoadFails, Restart, NoGap
<1>7. CASE UNCHANGED vars
  BY <1>1, <1>7 DEF vars, Unsent
<1>. QED
  BY <1>3, <1>4, <1>5, <1>6, <1>7 DEF Next

\* For every instance: a live stream has shown, been excused from, or has yet
\* to receive every line accepted.
THEOREM StreamsHaveNoGap == Spec => []NoGap
BY TypeCorrect, NoGapInit, NoGapStep, PTL DEF Spec

-----------------------------------------------------------------------------
(* Dedup *)

\* NoRecentDuplicate for one pair of positions.
FarApart(i, j) ==
  line[buf[i].id].text = line[buf[j].id].text
    => \/ Since(buf[j].at, buf[i].at) >= DedupWindow
       \/ buf[j].id <= started.lines

\* Initially the buffer is empty.
LEMMA DedupInit == Init => NoRecentDuplicate
BY DEF Init, NoRecentDuplicate

\* is_dup compares the new line with every line the buffer still holds, so
\* neither eviction nor a time read before the lock lets a duplicate in.
LEMMA DedupAccept ==
  ASSUME TypeOK, NoRecentDuplicate, NEW t \in Threads, Accept(t)
  PROVE  NoRecentDuplicate'
<1>. DEFINE Entry == [id : Nat, at : Nat]
            e == [id |-> Len(line) + 1, at |-> arg[t].at]
<1>1. /\ buf \in Seq(Entry) /\ Len(line) \in Nat
      /\ Len(buf) \in Nat /\ DOMAIN buf = 1 .. Len(buf)
      /\ arg[t] \in Line /\ e \in Entry /\ started' = started
  <2>1. Len(line) \in Nat /\ [id : Lines, at : Nat] \subseteq Entry
    BY LenProperties DEF TypeOK, Lines
  <2>2. buf \in Seq(Entry)
    BY <2>1, SeqMonotonic DEF TypeOK
  <2>3. Len(buf) \in Nat /\ DOMAIN buf = 1 .. Len(buf)
    BY <2>2, LenProperties
  <2>4. arg[t] \in Line /\ e \in Entry
    BY <2>1 DEF TypeOK, Line
  <2>5. started' = started
    BY DEF Accept
  <2>. HIDE DEF e, Entry
  <2>. QED
    BY <2>1, <2>2, <2>3, <2>4, <2>5
<1>2. /\ \A k \in Lines : line'[k] = line[k]
      /\ line'[Len(line) + 1] = arg[t]
  BY <1>1, AppendElements DEF Accept, TypeOK, Lines
<1>3. \A i \in DOMAIN buf : buf[i].id \in Lines /\ buf[i].at \in Nat
  <2>1. \A i \in 1 .. Len(buf) : buf[i] \in [id : Lines, at : Nat]
    BY ElementOfSeq DEF TypeOK
  <2>. QED
    BY <1>1, <2>1
<1>4. \A i, j \in DOMAIN buf : i < j => FarApart(i, j)
  BY DEF NoRecentDuplicate, FarApart
<1>5. PICK off \in {0, 1} :
        /\ MakeRoom \in Seq(Entry) /\ Len(MakeRoom) = Len(buf) - off
        /\ DOMAIN MakeRoom = 1 .. (Len(buf) - off) /\ Len(buf) - off \in Nat
        /\ \A i \in 1 .. (Len(buf) - off) : MakeRoom[i] = buf[i + off]
  <2>1. CASE Len(buf) >= MaxLines
    <3>1. buf # <<>>
      BY <2>1, <1>1, ConstantsTyped, EmptySeq DEF LogBufferConstants
    <3>2. Tail(buf) \in Seq(Entry) /\ Len(Tail(buf)) = Len(buf) - 1
          /\ \A i \in 1 .. Len(Tail(buf)) : Tail(buf)[i] = buf[i + 1]
      BY <3>1, <1>1, HeadTailProperties
    <3>3. DOMAIN Tail(buf) = 1 .. Len(Tail(buf)) /\ Len(Tail(buf)) \in Nat
      BY <3>2, LenProperties
    <3>4. MakeRoom = Tail(buf)
      BY <2>1 DEF MakeRoom
    <3>5. 1 \in {0, 1}
      OBVIOUS
    <3>. QED
      BY <3>2, <3>3, <3>4, <3>5
  <2>2. CASE ~(Len(buf) >= MaxLines)
    <3>1. MakeRoom = buf /\ 0 \in {0, 1}
      BY <2>2 DEF MakeRoom
    <3>2. Len(buf) - 0 = Len(buf) /\ \A i \in 1 .. Len(buf) : i + 0 = i
      BY <1>1
    <3>. QED
      BY <1>1, <3>1, <3>2
  <2>. QED
    BY <2>1, <2>2
<1>. DEFINE n == Len(buf) - off
<1>6. /\ DOMAIN buf' = 1 .. (n + 1) /\ buf'[n + 1] = e /\ n \in Nat
      /\ \A i \in 1 .. n : buf'[i] = buf[i + off]
  <2>1. buf' = Append(MakeRoom, e)
    BY DEF Accept
  <2>. HIDE DEF e, Entry
  <2>2. /\ DOMAIN Append(MakeRoom, e) = 1 .. (Len(MakeRoom) + 1)
        /\ \A i \in 1 .. Len(MakeRoom) : Append(MakeRoom, e)[i] = MakeRoom[i]
        /\ Append(MakeRoom, e)[Len(MakeRoom) + 1] = e
    BY <1>1, <1>5, AppendElements
  <2>. QED
    BY <2>1, <2>2, <1>5
<1>7. \A i \in 1 .. n : i + off \in DOMAIN buf
  <2>1. off \in Nat /\ Len(buf) \in Nat /\ DOMAIN buf = 1 .. Len(buf)
    BY <1>1, <1>5
  <2>2. \A i \in 1 .. (Len(buf) - off) : i + off \in 1 .. Len(buf)
    BY <2>1
  <2>. QED
    BY <2>1, <2>2
<1>12. n \in Nat /\ off \in Nat
  BY <1>5, <1>6
<1>. HIDE DEF n, e, Entry
<1>8. SUFFICES ASSUME NEW i \in 1 .. (n + 1), NEW j \in 1 .. (n + 1), i < j
               PROVE  FarApart(i, j)'
  BY <1>6 DEF NoRecentDuplicate, FarApart
<1>9. i \in 1 .. n /\ i + off \in DOMAIN buf /\ buf'[i] = buf[i + off]
      /\ line'[buf'[i].id] = line[buf[i + off].id]
  <2>1. i \in 1 .. n
    BY <1>8, <1>12
  <2>. QED
    BY <2>1, <1>2, <1>3, <1>6, <1>7
<1>10. CASE j = n + 1
  <2>1. buf'[j] = e /\ line'[buf'[j].id].text = arg[t].text
    BY <1>10, <1>2, <1>6 DEF e
  <2>2. ~IsDup(t)
    BY DEF Accept
  <2>3. \/ line[buf[i + off].id].text # arg[t].text
        \/ ~(Since(arg[t].at, buf[i + off].at) < DedupWindow)
    BY <1>9, <2>2 DEF IsDup
  <2>4. Since(arg[t].at, buf[i + off].at) \in Nat /\ DedupWindow \in Nat
    <3>1. arg[t].at \in Nat /\ buf[i + off].at \in Nat
      BY <1>1, <1>3, <1>9 DEF Line
    <3>. QED
      BY <3>1, ConstantsTyped DEF Since, LogBufferConstants
  <2>5. line'[buf'[i].id].text = line'[buf'[j].id].text
          => Since(arg[t].at, buf[i + off].at) >= DedupWindow
    BY <1>9, <2>1, <2>3, <2>4
  <2>. QED
    BY <1>9, <2>1, <2>5 DEF FarApart, Since, e
<1>11. CASE j # n + 1
  <2>1. j \in 1 .. n
    BY <1>11, <1>12
  <2>2. j + off \in DOMAIN buf /\ buf'[j] = buf[j + off]
        /\ line'[buf'[j].id] = line[buf[j + off].id]
    BY <2>1, <1>2, <1>3, <1>6, <1>7
  <2>3. FarApart(i + off, j + off)
    <3>1. i + off < j + off
      BY <1>8, <1>12
    <3>. QED
      BY <3>1, <2>2, <1>4, <1>9
  <2>. QED
    BY <2>2, <2>3, <1>1, <1>9 DEF FarApart, Since
<1>. QED
  BY <1>10, <1>11

\* Every step keeps it: the other steps leave, empty or reload the buffer.
LEMMA DedupStep == TypeOK /\ NoRecentDuplicate /\ [Next]_vars => NoRecentDuplicate'
<1>. SUFFICES ASSUME TypeOK, NoRecentDuplicate, [Next]_vars PROVE NoRecentDuplicate'
  OBVIOUS
<1>1. ASSUME UNCHANGED <<buf, line, started>> PROVE NoRecentDuplicate'
  BY <1>1 DEF NoRecentDuplicate, Since
<1>2. ASSUME NEW t \in Threads, ClearMem(t) PROVE NoRecentDuplicate'
  BY <1>2 DEF ClearMem, NoRecentDuplicate
<1>3. ASSUME NEW t \in Threads, Continue(t) \/ ClearMem(t) \/ \E text \in Texts : Push(t, text)
      PROVE  NoRecentDuplicate'
  <2>1. CASE Accept(t)
    BY <2>1, DedupAccept
  <2>2. CASE \/ Drop(t) \/ Insert(t) \/ InsertFails(t) \/ Prune(t) \/ PruneFails(t)
             \/ Send(t) \/ ClearDb(t) \/ ClearDbFails(t)
             \/ \E text \in Texts : Push(t, text)
    BY <1>1, <2>2 DEF Drop, Insert, InsertFails, Prune, PruneFails, Send, ClearDb,
                ClearDbFails, Push, store
  <2>. QED
    BY <1>2, <1>3, <2>1, <2>2 DEF Continue
<1>4. ASSUME NEW c \in Clients, Subscribe(c) \/ Stream(c) \/ Disconnect(c)
      PROVE  NoRecentDuplicate'
  BY <1>1, <1>4
  DEF Subscribe, Stream, Snapshot, Recv, Lagged, Disconnect, store
<1>5. CASE Tick
  BY <1>1, <1>5 DEF Tick, store
<1>6. ASSUME NEW loaded \in Seq(Lines), Restart(loaded) PROVE NoRecentDuplicate'
  <2>1. buf' = [i \in DOMAIN loaded |-> [id |-> loaded[i], at |-> now]]
        /\ started'.lines = Len(line)
    BY <1>6 DEF Restart
  <2>2. \A i \in DOMAIN loaded : loaded[i] \in 1 .. Len(line)
    BY LenProperties, ElementOfSeq DEF Lines
  <2>3. \A i \in DOMAIN buf' : buf'[i].id <= started'.lines
    BY <2>1, <2>2, LenProperties DEF TypeOK
  <2>. QED
    BY <2>3 DEF NoRecentDuplicate
<1>8. CASE Crash
  <2>1. rows \in Seq(Lines) /\ MaxLines \in Nat
    BY ConstantsTyped DEF LogBufferConstants, TypeOK
  <2>. QED
    BY <1>6, <1>8, <2>1, NewestProperties DEF Crash
<1>9. CASE CrashLoadFails
  BY <1>6, <1>9, EmptySeq DEF CrashLoadFails
<1>7. CASE UNCHANGED vars
  BY <1>1, <1>7 DEF vars
<1>. QED
  BY <1>3, <1>4, <1>5, <1>7, <1>8, <1>9 DEF Next

\* For every instance: no two equal lines accepted by one process within the
\* window are in the buffer together.
THEOREM NoDuplicateWithinWindow == Spec => []NoRecentDuplicate
BY TypeCorrect, DedupInit, DedupStep, PTL DEF Spec

-----------------------------------------------------------------------------
(* The cap of the table, restarts, and what is dropped *)

\* Every step of a database whose DELETEs succeed, in a process that does not
\* die, keeps the table within its cap: rows are added under the connection's
\* lock only, and pruned before it is released.
LEMMA CapStep ==
  ASSUME "crash" \notin Faults, "prune" \notin Faults,
         TypeOK, RowsCapped, [Next]_vars
  PROVE  RowsCapped'
<1>1. ASSUME rows' = rows, \A t \in Threads : pc[t] = "prune" => pc'[t] = "prune"
      PROVE  RowsCapped'
  BY <1>1 DEF RowsCapped, DbFree
<1>2. ASSUME NEW t \in Threads, Continue(t) \/ ClearMem(t) \/ \E text \in Texts : Push(t, text)
      PROVE  RowsCapped'
  <2>1. CASE Insert(t)
    BY <2>1 DEF Insert, Goto, TypeOK, RowsCapped, DbFree
  <2>2. CASE Prune(t)
    <3>1. rows \in Seq(Lines) /\ MaxLogRows \in Nat
      BY ConstantsTyped DEF LogBufferConstants, TypeOK
    <3>2. Len(Newest(rows, MaxLogRows)) <= MaxLogRows
      BY <3>1, NewestProperties
    <3>. QED
      BY <2>2, <3>2 DEF Prune, RowsCapped
  <2>3. CASE ClearDb(t)
    <3>1. rows' = <<>> /\ Len(rows') = 0 /\ MaxLogRows \in Nat
      BY <2>3, ConstantsTyped DEF ClearDb, LogBufferConstants
    <3>. QED
      BY <3>1 DEF RowsCapped
  <2>4. CASE Drop(t) \/ Accept(t) \/ InsertFails(t) \/ Send(t) \/ ClearDbFails(t)
             \/ ClearMem(t) \/ \E text \in Texts : Push(t, text)
    <3>1. rows' = rows /\ pc[t] # "prune" /\ pc' = [pc EXCEPT ![t] = pc'[t]]
      BY <2>4 DEF Drop, Accept, InsertFails, Send, ClearDbFails, ClearMem, Push, Goto,
         store, TypeOK
    <3>. QED
      BY <1>1, <3>1 DEF TypeOK
  <2>. QED
    BY <1>2, <2>1, <2>2, <2>3, <2>4 DEF Continue, PruneFails
<1>3. ASSUME NEW c \in Clients, Subscribe(c) \/ Stream(c) \/ Disconnect(c)
      PROVE  RowsCapped'
  BY <1>1, <1>3
  DEF Subscribe, Stream, Snapshot, Recv, Lagged, Disconnect, store, call
<1>4. CASE Tick
  BY <1>1, <1>4 DEF Tick, store, call
<1>5. CASE UNCHANGED vars
  BY <1>1, <1>5 DEF vars
<1>. QED
  BY <1>2, <1>3, <1>4, <1>5 DEF Next, Crash, CrashLoadFails, Restart

\* For every instance in which the process does not die and a DELETE does not
\* fail: the table respects its cap whenever the connection is free, whatever
\* the threads and whatever else fails.
THEOREM TableIsCapped ==
  ASSUME "crash" \notin Faults, "prune" \notin Faults
  PROVE  Spec => []RowsCapped
<1>1. Init => RowsCapped
  BY ConstantsTyped DEF Init, RowsCapped, LogBufferConstants
<1>2. TypeOK /\ RowsCapped /\ [Next]_vars => RowsCapped'
  BY CapStep
<1>. QED
  BY <1>1, <1>2, TypeCorrect, PTL DEF Spec

\* What a restart takes out of memory was never in the table, or is parted
\* from it, or is too old to be loaded.
LEMMA CrashKeepsHistory ==
  ASSUME TypeOK, CoherentInv, Crash
  PROVE  BufIds \ BufIds' \subseteq parted' \cup Unsaved
<1>1. /\ BufIds' = Range(Newest(rows, MaxLines))
      /\ parted' = parted \cup Oldest(rows, MaxLines)
  BY DEF Crash, Restart, BufIds, Range
<1>2. rows \in Seq(Lines) /\ MaxLines \in Nat
  BY ConstantsTyped DEF LogBufferConstants, TypeOK
<1>3. RowIds \subseteq Range(Newest(rows, MaxLines)) \cup Oldest(rows, MaxLines)
  BY <1>2, NewestProperties DEF RowIds
<1>. QED
  BY <1>1, <1>3 DEF CoherentInv

\* For every instance: a restart whose load succeeds costs the buffer only
\* lines that were not yet in the table or had been parted from it.
THEOREM HistoryIsKept == Spec => HistorySurvives
<1>1. TypeOK /\ CoherentInv /\ [Next]_vars
        => [Crash => BufIds \ BufIds' \subseteq parted' \cup Unsaved]_vars
  BY CrashKeepsHistory
<1>2. Spec => []CoherentInv
  BY TypeCorrect, CoherentInit, CoherentStep, PTL DEF Spec
<1>. QED
  BY <1>1, <1>2, TypeCorrect, PTL DEF Spec, HistorySurvives

\* What dedup compares with: a line in memory carries the time it was accepted
\* with, or that of the load which brought it in.
StampsKnown ==
  \A e \in Range(buf) :
    \/ e.at = line[e.id].at
    \/ e.id <= started.lines /\ e.at = started.time

\* A new line joins those in memory, of which the oldest may leave.
LEMMA StampsAccept ==
  ASSUME TypeOK, StampsKnown, NEW t \in Threads, Accept(t)
  PROVE  StampsKnown'
<1>. DEFINE Entry == [id : Lines, at : Nat]
            e == [id |-> Len(line) + 1, at |-> arg[t].at]
            Either == Lines \cup {Len(line) + 1}
<1>1. /\ Len(line) \in Nat /\ arg[t] \in Line /\ started' = started
      /\ line' = Append(line, arg[t]) /\ buf' = Append(MakeRoom, e)
  BY LenProperties DEF TypeOK, Accept
<1>2. /\ \A k \in Lines : line'[k] = line[k]
      /\ line'[Len(line) + 1] = arg[t]
  BY <1>1, AppendElements DEF TypeOK, Lines
<1>3. MakeRoom \in Seq(Entry) /\ Range(MakeRoom) \subseteq Range(buf)
  <2>1. CASE Len(buf) >= MaxLines
    <3>1. buf \in Seq(Entry) /\ buf # <<>>
      BY <2>1, ConstantsTyped, EmptySeq DEF TypeOK, LogBufferConstants
    <3>2. /\ Tail(buf) \in Seq(Entry)
          /\ DOMAIN Tail(buf) = 1 .. (Len(buf) - 1)
          /\ DOMAIN buf = 1 .. Len(buf) /\ Len(buf) \in Nat \ {0}
          /\ \A i \in 1 .. (Len(buf) - 1) : Tail(buf)[i] = buf[i + 1]
      BY <3>1, TailElements
    <3>3. \A i \in 1 .. (Len(buf) - 1) : i + 1 \in DOMAIN buf
      BY <3>2
    <3>4. Range(Tail(buf)) \subseteq Range(buf)
      BY <3>2, <3>3 DEF Range
    <3>. QED
      BY <2>1, <3>2, <3>4 DEF MakeRoom
  <2>2. CASE ~(Len(buf) >= MaxLines)
    BY <2>2 DEF MakeRoom, TypeOK
  <2>. QED
    BY <2>1, <2>2
<1>4. Range(buf') \subseteq Range(buf) \cup {e}
  <2>1. MakeRoom \in Seq([id : Either, at : Nat])
    BY <1>3, SeqWidens
  <2>2. e \in [id : Either, at : Nat]
    BY <1>1 DEF Line
  <2>3. \A i \in DOMAIN buf' :
          buf'[i] = e \/ (i \in DOMAIN MakeRoom /\ buf'[i] = MakeRoom[i])
    <3>. DEFINE Both == [id : Either, at : Nat]
    <3>1. MakeRoom \in Seq(Both) /\ e \in Both /\ buf' = Append(MakeRoom, e)
      BY <1>1, <2>1, <2>2
    <3>. HIDE DEF e, Both
    <3>. QED
      BY <3>1, AppendCases
  <2>. HIDE DEF e
  <2>. QED
    BY <1>3, <2>3 DEF Range
<1>5. \A x \in Range(buf) : x.id \in Lines
  <2>1. buf \in Seq(Entry)
    BY DEF TypeOK
  <2>2. Range(buf) \subseteq Entry
    BY <2>1, SeqElements
  <2>. QED
    BY <2>2
<1>6. ASSUME NEW x \in Range(buf)
      PROVE  x.at = line'[x.id].at \/ (x.id <= started'.lines /\ x.at = started'.time)
  BY <1>1, <1>2, <1>5, <1>6 DEF StampsKnown
<1>7. e.at = line'[e.id].at
  BY <1>2
<1>. QED
  BY <1>4, <1>6, <1>7 DEF StampsKnown

\* Every step keeps the stamps known.
LEMMA StampsStep == TypeOK /\ StampsKnown /\ [Next]_vars => StampsKnown'
<1>. SUFFICES ASSUME TypeOK, StampsKnown, [Next]_vars PROVE StampsKnown'
  OBVIOUS
<1>1. ASSUME UNCHANGED <<buf, line, started>> PROVE StampsKnown'
  BY <1>1 DEF StampsKnown
<1>2. ASSUME NEW t \in Threads, Continue(t) \/ ClearMem(t) \/ \E text \in Texts : Push(t, text)
      PROVE  StampsKnown'
  <2>1. CASE ClearMem(t)
    BY <2>1 DEF ClearMem, StampsKnown, Range
  <2>2. CASE Accept(t)
    BY <2>2, StampsAccept
  <2>. QED
    BY <1>1, <1>2, <2>1, <2>2
    DEF Continue, Drop, Insert, InsertFails, Prune, PruneFails, Send, ClearDb,
        ClearDbFails, Push, store
<1>3. ASSUME NEW c \in Clients, Subscribe(c) \/ Stream(c) \/ Disconnect(c)
      PROVE  StampsKnown'
  BY <1>1, <1>3
  DEF Subscribe, Stream, Snapshot, Recv, Lagged, Disconnect, store
<1>4. CASE Tick
  BY <1>1, <1>4 DEF Tick, store
<1>5. ASSUME NEW loaded \in Seq(Lines), Restart(loaded) PROVE StampsKnown'
  <2>1. /\ buf' = [i \in DOMAIN loaded |-> [id |-> loaded[i], at |-> now]]
        /\ started'.lines = Len(line) /\ started'.time = now
    BY <1>5 DEF Restart
  <2>2. \A i \in DOMAIN loaded : loaded[i] \in 1 .. Len(line)
    BY LenProperties, ElementOfSeq DEF Lines
  <2>3. \A i \in DOMAIN loaded : loaded[i] <= Len(line)
    BY <2>2, LenProperties DEF TypeOK
  <2>. QED
    BY <2>1, <2>3 DEF StampsKnown, Range
<1>6. CASE Crash
  <2>1. rows \in Seq(Lines) /\ MaxLines \in Nat
    BY ConstantsTyped DEF LogBufferConstants, TypeOK
  <2>. QED
    BY <1>5, <1>6, <2>1, NewestProperties DEF Crash
<1>7. CASE CrashLoadFails
  BY <1>5, <1>7, EmptySeq DEF CrashLoadFails
<1>8. CASE UNCHANGED vars
  BY <1>1, <1>8 DEF vars
<1>. QED
  BY <1>2, <1>3, <1>4, <1>6, <1>7, <1>8 DEF Next

\* A line is dropped for an equal one in memory, whose stamp is known.
LEMMA DropIsJustified ==
  ASSUME TypeOK, StampsKnown, NEW t \in Threads, Drop(t)
  PROVE  \E i \in Lines :
           /\ line[i].text = arg[t].text
           /\ \/ Since(arg[t].at, line[i].at) < DedupWindow
              \/ i <= started.lines /\ Since(arg[t].at, started.time) < DedupWindow
<1>1. PICK j \in DOMAIN buf : /\ line[buf[j].id].text = arg[t].text
                              /\ Since(arg[t].at, buf[j].at) < DedupWindow
  BY DEF Drop, IsDup
<1>2. buf[j].id \in Lines /\ buf[j] \in Range(buf)
  <2>1. buf \in Seq([id : Lines, at : Nat])
    BY DEF TypeOK
  <2>2. buf[j] \in [id : Lines, at : Nat]
    BY <2>1, SeqElements
  <2>. QED
    BY <2>2 DEF Range
<1>. QED
  BY <1>1, <1>2 DEF StampsKnown

\* For every instance: a line is dropped as a duplicate only if an equal line
\* was accepted, or loaded by this process, less than a window before.
THEOREM DropsAreJustified == Spec => JustifiedDrop
<1>. DEFINE Justified ==
       \A t \in Threads : Drop(t) =>
         \E i \in Lines :
           /\ line[i].text = arg[t].text
           /\ \/ Since(arg[t].at, line[i].at) < DedupWindow
              \/ i <= started.lines /\ Since(arg[t].at, started.time) < DedupWindow
<1>1. Init => StampsKnown
  BY DEF Init, StampsKnown, Range
<1>2. TypeOK /\ StampsKnown => Justified
  BY DropIsJustified
<1>. HIDE DEF Justified
<1>3. Spec => [][Justified]_vars
  BY <1>1, <1>2, StampsStep, TypeCorrect, PTL DEF Spec
<1>. QED
  BY <1>3 DEF Justified, JustifiedDrop

-----------------------------------------------------------------------------
(* Memory as a log, and as the end of the table *)

\* The lines in memory are a sequence as long as the buffer.
LEMMA InMemoryShape ==
  ASSUME TypeOK
  PROVE  /\ InMemory \in Seq(Lines) /\ InMemory \in Seq(Nat)
         /\ Len(InMemory) = Len(buf) /\ Len(buf) \in Nat /\ Len(buf) <= MaxLines
         /\ DOMAIN buf = 1 .. Len(buf) /\ DOMAIN InMemory = 1 .. Len(buf)
         /\ \A i \in 1 .. Len(buf) : InMemory[i] = buf[i].id /\ InMemory[i] \in Lines
<1>1. /\ DOMAIN buf = 1 .. Len(buf) /\ Len(buf) \in Nat /\ Len(buf) <= MaxLines
      /\ \A i \in DOMAIN buf : buf[i].id \in Lines
  <2>. DEFINE Entry == [id : Lines, at : Nat]
  <2>1. buf \in Seq(Entry) /\ Len(buf) <= MaxLines
    BY DEF TypeOK
  <2>. HIDE DEF Entry
  <2>2. DOMAIN buf = 1 .. Len(buf) /\ Len(buf) \in Nat /\ \A i \in DOMAIN buf : buf[i] \in Entry
    BY <2>1, LenProperties, SeqElements
  <2>. QED
    BY <2>1, <2>2 DEF Entry
<1>2. InMemory \in [1 .. Len(buf) -> Lines]
  BY <1>1 DEF InMemory
<1>3. InMemory \in Seq(Lines) /\ Len(InMemory) = Len(buf)
  BY <1>1, <1>2, MadeSeq
<1>4. Lines \subseteq Nat
  BY LenProperties DEF TypeOK, Lines
<1>. QED
  BY <1>1, <1>2, <1>3, <1>4, SeqWidens DEF InMemory

\* What accepting a line makes of memory: the newest of it and the line.
LEMMA AcceptMemory ==
  ASSUME TypeOK, NEW t \in Threads, Accept(t)
  PROVE  InMemory' = EndOf(Append(InMemory, Len(line) + 1), MaxLines)
<1>. DEFINE Entry == [id : Nat, at : Nat]
            new == Len(line) + 1
            e == [id |-> new, at |-> arg[t].at]
            room == IF Len(buf) >= MaxLines THEN Tail(InMemory) ELSE InMemory
<1>1. /\ InMemory \in Seq(Nat) /\ Len(InMemory) = Len(buf) /\ Len(buf) \in Nat
      /\ Len(buf) <= MaxLines /\ MaxLines \in Nat \ {0} /\ DOMAIN buf = 1 .. Len(buf)
      /\ \A i \in 1 .. Len(buf) : InMemory[i] = buf[i].id
  BY InMemoryShape, MaxLinesAssumption
<1>2. buf \in Seq(Entry) /\ new \in Nat /\ e \in Entry
  <2>1. Len(line) \in Nat /\ [id : Lines, at : Nat] \subseteq Entry
    BY LenProperties DEF TypeOK, Lines
  <2>2. buf \in Seq(Entry)
    BY <2>1, SeqMonotonic DEF TypeOK
  <2>3. arg[t].at \in Nat
    BY DEF TypeOK, Line
  <2>. QED
    BY <2>1, <2>2, <2>3
<1>3. /\ MakeRoom \in Seq(Entry) /\ room \in Seq(Nat) /\ Len(room) = Len(MakeRoom)
      /\ \A i \in 1 .. Len(MakeRoom) : room[i] = MakeRoom[i].id
  <2>1. CASE Len(buf) >= MaxLines
    <3>1. buf # <<>> /\ InMemory # <<>>
      BY <1>1, <1>2, <2>1, EmptySeq
    <3>2. /\ Tail(buf) \in Seq(Entry) /\ Len(Tail(buf)) = Len(buf) - 1
          /\ \A i \in 1 .. Len(Tail(buf)) : Tail(buf)[i] = buf[i + 1]
      BY <1>2, <3>1, HeadTailProperties
    <3>3. /\ Tail(InMemory) \in Seq(Nat) /\ Len(Tail(InMemory)) = Len(InMemory) - 1
          /\ \A i \in 1 .. Len(Tail(InMemory)) : Tail(InMemory)[i] = InMemory[i + 1]
      BY <1>1, <3>1, HeadTailProperties
    <3>4. MakeRoom = Tail(buf) /\ room = Tail(InMemory)
      BY <2>1 DEF MakeRoom
    <3>5. \A i \in 1 .. (Len(buf) - 1) : i + 1 \in 1 .. Len(buf)
      BY <1>1
    <3>6. \A i \in 1 .. (Len(buf) - 1) : Tail(InMemory)[i] = Tail(buf)[i].id
      BY <1>1, <3>2, <3>3, <3>5
    <3>. HIDE DEF room, Entry
    <3>. QED
      BY <1>1, <3>2, <3>3, <3>4, <3>6
  <2>2. CASE ~(Len(buf) >= MaxLines)
    BY <1>1, <1>2, <2>2 DEF MakeRoom
  <2>. QED
    BY <2>1, <2>2
<1>4. InMemory' = Append(room, new)
  <2>. HIDE DEF room, new, Entry
  <2>1. /\ buf' = Append(MakeRoom, e)
    BY DEF Accept, new
  <2>. HIDE DEF e
  <2>2. /\ DOMAIN buf' = 1 .. (Len(MakeRoom) + 1) /\ Len(MakeRoom) \in Nat
        /\ \A i \in 1 .. Len(MakeRoom) : buf'[i] = MakeRoom[i]
        /\ buf'[Len(MakeRoom) + 1] = e
    BY <1>2, <1>3, <2>1, AppendElements
  <2>3. e.id = new
    BY DEF e
  <2>4. /\ Append(room, new) \in Seq(Nat) /\ DOMAIN Append(room, new) = 1 .. (Len(MakeRoom) + 1)
        /\ \A i \in 1 .. Len(MakeRoom) : Append(room, new)[i] = room[i]
        /\ Append(room, new)[Len(MakeRoom) + 1] = new
    BY <1>2, <1>3, AppendElements
  <2>5. \A i \in 1 .. (Len(MakeRoom) + 1) : buf'[i].id = Append(room, new)[i]
    <3>. SUFFICES ASSUME NEW i \in 1 .. (Len(MakeRoom) + 1) PROVE buf'[i].id = Append(room, new)[i]
      OBVIOUS
    <3>1. i \in 1 .. Len(MakeRoom) \/ i = Len(MakeRoom) + 1
      BY <2>2
    <3>. QED
      BY <1>3, <2>2, <2>3, <2>4, <3>1
  <2>6. InMemory' = [i \in 1 .. (Len(MakeRoom) + 1) |-> buf'[i].id]
    BY <2>2 DEF InMemory
  <2>7. Append(room, new) = [i \in 1 .. (Len(MakeRoom) + 1) |-> Append(room, new)[i]]
    <3>. DEFINE v == Append(room, new)
    <3>1. v \in Seq(Nat) /\ DOMAIN v = 1 .. (Len(MakeRoom) + 1)
      BY <2>4
    <3>. HIDE DEF v
    <3>2. v = [i \in DOMAIN v |-> v[i]]
      BY <3>1, SeqDef
    <3>. QED
      BY <3>1, <3>2 DEF v
  <2>. QED
    BY <2>5, <2>6, <2>7
<1>5. EndOf(Append(InMemory, new), MaxLines) = Append(room, new)
  <2>. HIDE DEF new
  <2>. QED
    BY <1>1, <1>2, EndMakesRoom
<1>. QED
  BY <1>4, <1>5

\* Restart leaves in memory what it has loaded.
LEMMA RestartMemory ==
  ASSUME NEW S, NEW loaded \in Seq(S), Restart(loaded)
  PROVE  InMemory' = loaded
<1>1. InMemory' = [i \in DOMAIN loaded |-> loaded[i]]
  BY DEF Restart, InMemory
<1>2. loaded = [i \in DOMAIN loaded |-> loaded[i]]
  BY SeqDef, LenProperties
<1>. QED
  BY <1>1, <1>2

\* Newest is the end of a sequence, as the lemmas of SequenceFacts have it.
LEMMA NewestIsEnd == \A s, n : Newest(s, n) = EndOf(s, n) /\ Memory!Newest(s, n) = EndOf(s, n)
BY DEF Newest, Memory!Newest, EndOf

\* A step of a process that lives on changes memory as CappedLog does, or not.
LEMMA MemoryStep ==
  ASSUME "crash" \notin Faults, TypeOK, [Next]_vars
  PROVE  [Memory!Next]_InMemory
<1>1. ASSUME NEW t \in Threads, Accept(t) PROVE Memory!Add
  <2>. DEFINE new == Len(line) + 1
              u == Append(InMemory, new)
  <2>1. /\ InMemory \in Seq(Nat) /\ Len(InMemory) \in Nat /\ new \in Nat /\ MaxLines \in Nat \ {0}
        /\ \A i \in DOMAIN InMemory : InMemory[i] < new
    <3>1. Len(line) \in Nat
      BY LenProperties DEF TypeOK
    <3>. QED
      BY <3>1, InMemoryShape, MaxLinesAssumption DEF Lines
  <2>2. InMemory' = EndOf(u, MaxLines)
    BY <1>1, AcceptMemory
  <2>3. u \in Seq(Nat) /\ Len(u) = Len(InMemory) + 1 /\ u[Len(InMemory) + 1] = new
    BY <2>1, AppendElements
  <2>4. InMemory' # <<>> /\ InMemory'[Len(InMemory')] = new
    <3>. DEFINE v == EndOf(u, MaxLines)
    <3>1. /\ v \in Seq(Nat) /\ Len(v) = IF Len(u) > MaxLines THEN MaxLines ELSE Len(u)
          /\ \A i \in 1 .. Len(v) : v[i] = u[Len(u) - Len(v) + i]
      <4>. HIDE DEF u
      <4>1. MaxLines \in Nat /\ u \in Seq(Nat)
        BY <2>1, <2>3
      <4>. QED
        BY <4>1, EndShape
    <3>2. Len(v) \in Nat \ {0} /\ Len(u) - Len(v) + Len(v) = Len(u) /\ Len(v) \in 1 .. Len(v)
      <4>. HIDE DEF u, v
      <4>. QED
        BY <2>1, <2>3, <3>1
    <3>3. v[Len(v)] = new
      <4>. HIDE DEF u, v
      <4>. QED
        BY <2>3, <3>1, <3>2
    <3>. QED
      BY <2>2, <3>2, <3>3
  <2>5. InMemory' = Memory!Newest(Append(InMemory, new), MaxLines)
    BY <2>2, NewestIsEnd
  <2>. QED
    BY <2>1, <2>4, <2>5 DEF Memory!Add
<1>2. ASSUME NEW t \in Threads, ClearMem(t) PROVE Memory!Wipe
  BY <1>2 DEF ClearMem, Memory!Wipe, InMemory
<1>3. CASE buf' = buf
  BY <1>3 DEF InMemory
<1>4. buf' = buf \/ \E t \in Threads : Accept(t) \/ ClearMem(t)
  BY DEF Next, Continue, Push, Drop, Insert, InsertFails, Prune, PruneFails, Send, ClearDb,
     ClearDbFails, Subscribe, Stream, Snapshot, Recv, Lagged, Disconnect, Tick, Crash,
     CrashLoadFails, Restart, store, vars
<1>. QED
  BY <1>1, <1>2, <1>3, <1>4 DEF Memory!Next

\* Without a restart, memory implements the capped log, for any number of
\* threads and any failing statements.
THEOREM MemoryIsLog ==
  ASSUME "crash" \notin Faults
  PROVE  Spec => MemoryIsCappedLog
<1>1. TypeOK /\ [Next]_vars => [Memory!Next]_InMemory
  BY MemoryStep
<1>2. Init => Memory!Init
  BY DEF Init, Memory!Init, InMemory
<1>. QED
  BY <1>1, <1>2, TypeCorrect, PTL DEF Spec, MemoryIsCappedLog, Memory!Spec

\* Where a lone task is in a call, memory is the end of the table: with the line
\* it has accepted and not inserted, and not while it clears.
TailInv ==
  \A t \in Threads :
    /\ pc[t] \in {"idle", "lock", "prune", "send"} => InMemory = EndOf(rows, MaxLines)
    /\ pc[t] = "append" => InMemory = EndOf(Append(rows, ref[t]), MaxLines)
    /\ pc[t] = "dbclear" => buf = <<>>

LEMMA TailStep ==
  ASSUME NEW only, Threads = {only}, Faults \subseteq {"crash", "prune"}, MaxLines <= MaxLogRows,
         TypeOK, TailInv, [Next]_vars
  PROVE  TailInv'
<1>. DEFINE At(l) == pc[only] = l
<1>1. /\ rows \in Seq(Lines) /\ MaxLines \in Nat \ {0} /\ MaxLogRows \in Nat
      /\ pc \in [Threads -> {"idle", "lock", "append", "prune", "send", "dbclear"}]
      /\ ref \in [Threads -> 0 .. Len(line)] /\ Len(line) \in Nat
  BY ConstantsTyped, LenProperties DEF TypeOK, LogBufferConstants
<1>2. ASSUME UNCHANGED <<buf, rows>>, pc[only] \in {"idle", "lock", "prune", "send"},
             pc'[only] \in {"idle", "lock", "prune", "send"}
      PROVE  TailInv'
  BY <1>2 DEF TailInv, InMemory
<1>3. ASSUME UNCHANGED <<buf, rows, pc, ref>> PROVE TailInv'
  BY <1>3 DEF TailInv, InMemory
<1>4. CASE Accept(only)
  <2>. DEFINE new == Len(line) + 1
  <2>1. /\ pc'[only] = "append" /\ ref'[only] = new /\ rows' = rows
        /\ InMemory = EndOf(rows, MaxLines)
    BY <1>1, <1>4 DEF Accept, Goto, TailInv
  <2>2. InMemory' = EndOf(Append(EndOf(rows, MaxLines), new), MaxLines)
    BY <1>4, <2>1, AcceptMemory
  <2>3. rows \in Seq(Nat) /\ new \in Nat
    BY <1>1, SeqWidens DEF Lines
  <2>4. InMemory' = EndOf(Append(rows, new), MaxLines)
    <3>. HIDE DEF new
    <3>. QED
      BY <1>1, <2>2, <2>3, EndOfAppend
  <2>. QED
    BY <2>1, <2>4 DEF TailInv
<1>5. CASE Insert(only)
  BY <1>1, <1>5 DEF Insert, Goto, TailInv, InMemory
<1>6. CASE Prune(only)
  <2>1. /\ pc'[only] = "send" /\ InMemory' = EndOf(rows, MaxLines)
        /\ rows' = EndOf(rows, MaxLogRows)
    BY <1>1, <1>6, NewestIsEnd DEF Prune, Goto, TailInv, InMemory
  <2>. QED
    BY <1>1, <2>1, EndOfEnd DEF TailInv
<1>7. CASE ClearMem(only)
  BY <1>1, <1>7 DEF ClearMem, Goto, TailInv
<1>8. CASE ClearDb(only)
  <2>1. pc'[only] = "idle" /\ rows' = <<>> /\ InMemory' = <<>>
    BY <1>1, <1>8 DEF ClearDb, Goto, TailInv, InMemory
  <2>. QED
    BY <1>1, <2>1, EndOfNone DEF TailInv
<1>9. CASE Crash
  <2>1. EndOf(rows, MaxLines) \in Seq(Lines)
    BY <1>1, EndShape
  <2>2. InMemory' = EndOf(rows, MaxLines)
    BY <1>9, <2>1, RestartMemory, NewestIsEnd DEF Crash
  <2>3. rows' = rows /\ pc' = [t \in Threads |-> "idle"]
    BY <1>9 DEF Crash, Restart
  <2>. QED
    BY <2>2, <2>3 DEF TailInv
<1>10. CASE Drop(only) \/ PruneFails(only) \/ Send(only) \/ \E text \in Texts : Push(only, text)
  <2>1. /\ UNCHANGED <<buf, rows>> /\ pc[only] \in {"idle", "lock", "prune", "send"}
        /\ pc'[only] \in {"idle", "lock", "prune", "send"}
    BY <1>1, <1>10 DEF Drop, PruneFails, Send, Push, Goto, store
  <2>. QED
    BY <1>2, <2>1
<1>11. CASE Tick \/ (\E c \in Clients : Subscribe(c) \/ Stream(c) \/ Disconnect(c)) \/ UNCHANGED vars
  BY <1>3, <1>11 DEF Tick, Subscribe, Stream, Snapshot, Recv, Lagged, Disconnect, store, call, vars
<1>12. ~InsertFails(only) /\ ~ClearDbFails(only) /\ ~CrashLoadFails
  BY DEF InsertFails, ClearDbFails, CrashLoadFails
<1>. QED
  BY <1>4, <1>5, <1>6, <1>7, <1>8, <1>9, <1>10, <1>11, <1>12 DEF Next, Continue

\* For every instance in which one task at a time uses the buffer, no statement
\* but a DELETE of the pruning and no load fails, and the table is not capped
\* below the buffer.
THEOREM OneWriterMemoryIsTail ==
  ASSUME NEW only, Threads = {only}, Faults \subseteq {"crash", "prune"}, MaxLines <= MaxLogRows
  PROVE  Spec => []MemoryIsTail
<1>1. Init => TailInv
  BY EndOfNone, MaxLinesAssumption DEF Init, TailInv, InMemory
<1>2. TypeOK /\ TailInv /\ [Next]_vars => TailInv'
  BY TailStep
<1>3. TailInv => MemoryIsTail
  BY NewestIsEnd DEF TailInv, MemoryIsTail
<1>. QED
  BY <1>1, <1>2, <1>3, TypeCorrect, PTL DEF Spec

-----------------------------------------------------------------------------
(* Of one writer, lines are first shown in order *)

Rising(s) == \A i, j \in DOMAIN s : i < j => s[i] < s[j]

LEMMA RisingAppend ==
  ASSUME NEW s \in Seq(Nat), Rising(s), NEW e \in Nat, \A i \in DOMAIN s : s[i] < e
  PROVE  Rising(Append(s, e))
<1>1. /\ DOMAIN Append(s, e) = 1 .. (Len(s) + 1) /\ DOMAIN s = 1 .. Len(s) /\ Len(s) \in Nat
      /\ \A i \in 1 .. Len(s) : Append(s, e)[i] = s[i]
      /\ Append(s, e)[Len(s) + 1] = e
  BY AppendElements
<1>. SUFFICES ASSUME NEW i \in 1 .. (Len(s) + 1), NEW j \in 1 .. (Len(s) + 1), i < j
              PROVE  Append(s, e)[i] < Append(s, e)[j]
  BY <1>1 DEF Rising
<1>2. i \in 1 .. Len(s) /\ (j \in 1 .. Len(s) \/ j = Len(s) + 1)
  BY <1>1
<1>. QED
  BY <1>1, <1>2 DEF Rising

LEMMA RisingEnd ==
  ASSUME NEW s \in Seq(Nat), Rising(s), NEW n \in Nat
  PROVE  Rising(EndOf(s, n))
<1>. DEFINE t == EndOf(s, n)
            a == Len(s)
            b == Len(t)
<1>1. /\ t \in Seq(Nat) /\ a \in Nat /\ DOMAIN s = 1 .. a /\ b \in Nat /\ DOMAIN t = 1 .. b
      /\ \A i \in 1 .. b : a - b + i \in 1 .. a /\ t[i] = s[a - b + i]
  BY EndShape, LenProperties
<1>. HIDE DEF t, a, b
<1>2. ASSUME NEW i \in 1 .. b, NEW j \in 1 .. b, i < j PROVE t[i] < t[j]
  <2>1. a - b + i < a - b + j
    BY <1>1, <1>2
  <2>. QED
    BY <1>1, <2>1 DEF Rising
<1>3. Rising(t)
  BY <1>1, <1>2 DEF Rising
<1>. QED
  BY <1>3 DEF t

\* Up to position i a stream has shown line l, or is excused from it.
ShownBy(c, l, i) == l \in missed[c] \cup {screen[c][k] : k \in 1 .. i}

\* What a stream will receive is no older than what it shows, or shown already.
WaitsInOrder(c) ==
  \A k \in DOMAIN sent : next[c] < k =>
    \A i \in DOMAIN screen[c] : sent[k] < screen[c][i] => ShownBy(c, sent[k], i)

ShowsInOrder(c) ==
  \A i, j \in DOMAIN screen[c] :
    i < j /\ screen[c][j] < screen[c][i] => ShownBy(c, screen[c][j], i)

\* The line a lone writer is at work on is the last, and neither in the table nor
\* sent before it has got there; memory, table and channel are in order.
WriterInOrder ==
  /\ Rising(InMemory) /\ Rising(rows) /\ Rising(sent)
  /\ \A t \in Threads : pc[t] \in {"append", "prune", "send"} =>
       ref[t] = Len(line) /\ \A i \in DOMAIN sent : sent[i] < ref[t]
  /\ \A t \in Threads : pc[t] = "append" => \A i \in DOMAIN rows : rows[i] < ref[t]

StreamsInOrder ==
  \A c \in Clients : conn[c] = "live" => WaitsInOrder(c) /\ ShowsInOrder(c)

LEMMA WriterInOrderStep ==
  ASSUME NEW only, Threads = {only}, TypeOK, WriterInOrder, [Next]_vars
  PROVE  WriterInOrder'
<1>1. /\ Len(line) \in Nat /\ MaxLines \in Nat /\ MaxLogRows \in Nat
      /\ pc \in [Threads -> {"idle", "lock", "append", "prune", "send", "dbclear"}]
      /\ ref \in [Threads -> 0 .. Len(line)]
  BY ConstantsTyped, LenProperties DEF TypeOK, LogBufferConstants
<1>2. /\ rows \in Seq(Nat) /\ sent \in Seq(Nat) /\ InMemory \in Seq(Nat)
      /\ \A i \in DOMAIN rows : rows[i] \in Nat /\ rows[i] < Len(line) + 1
      /\ \A i \in DOMAIN sent : sent[i] \in Nat /\ sent[i] < Len(line) + 1
      /\ \A i \in DOMAIN InMemory : InMemory[i] \in Nat /\ InMemory[i] < Len(line) + 1
  <2>1. Lines \subseteq Nat /\ \A l \in Lines : l < Len(line) + 1
    BY <1>1 DEF Lines
  <2>2. rows \in Seq(Lines) /\ sent \in Seq(Lines) /\ InMemory \in Seq(Lines)
    BY InMemoryShape DEF TypeOK
  <2>. QED
    BY <2>1, <2>2, SeqWidens, SeqElements
<1>3. Rising(<<>>)
  BY DEF Rising
<1>4. ASSUME UNCHANGED <<buf, rows, line, sent>>,
             pc'[only] \notin {"append", "prune", "send"} \/
               (ref' = ref /\ pc'[only] \in {"prune", "send"} /\ pc[only] \in {"append", "prune", "send"})
      PROVE  WriterInOrder'
  BY <1>4 DEF WriterInOrder, InMemory
<1>5. ASSUME UNCHANGED <<buf, rows, line, sent, pc, ref>> PROVE WriterInOrder'
  BY <1>5 DEF WriterInOrder, InMemory
<1>6. CASE Accept(only)
  <2>. DEFINE new == Len(line) + 1
  <2>1. /\ pc'[only] = "append" /\ ref'[only] = new /\ rows' = rows /\ sent' = sent
        /\ line' = Append(line, arg[only]) /\ arg[only] \in Line /\ line \in Seq(Line)
    BY <1>1, <1>6 DEF Accept, Goto, TypeOK
  <2>2. Len(line') = new /\ new \in Nat
    BY <1>1, <2>1, AppendElements
  <2>3. Rising(Append(InMemory, new)) /\ Append(InMemory, new) \in Seq(Nat)
    BY <1>2, <2>2, RisingAppend, AppendElements DEF WriterInOrder
  <2>4. Rising(InMemory')
    <3>. HIDE DEF new
    <3>1. InMemory' = EndOf(Append(InMemory, new), MaxLines)
      BY <1>6, AcceptMemory DEF new
    <3>. QED
      BY <1>1, <2>3, <3>1, RisingEnd
  <2>. QED
    BY <1>2, <2>1, <2>2, <2>4 DEF WriterInOrder
<1>7. CASE Insert(only)
  <2>1. /\ pc[only] = "append" /\ pc'[only] = "prune" /\ ref' = ref /\ rows' = Append(rows, ref[only])
        /\ UNCHANGED <<buf, line, sent>>
    BY <1>1, <1>7 DEF Insert, Goto
  <2>2. Rising(rows')
    BY <1>1, <1>2, <2>1, RisingAppend DEF WriterInOrder
  <2>. QED
    BY <2>1, <2>2 DEF WriterInOrder, InMemory
<1>8. CASE Prune(only)
  <2>1. /\ pc[only] = "prune" /\ pc'[only] = "send" /\ ref' = ref
        /\ rows' = EndOf(rows, MaxLogRows) /\ UNCHANGED <<buf, line, sent>>
    BY <1>1, <1>8, NewestIsEnd DEF Prune, Goto
  <2>2. Rising(rows')
    BY <1>1, <1>2, <2>1, RisingEnd DEF WriterInOrder
  <2>. QED
    BY <2>1, <2>2 DEF WriterInOrder, InMemory
<1>9. CASE Send(only)
  <2>1. /\ pc[only] = "send" /\ pc'[only] = "idle" /\ sent' = Append(sent, ref[only])
        /\ UNCHANGED <<buf, rows, line>>
    BY <1>1, <1>9 DEF Send, Goto, store
  <2>2. Rising(sent')
    BY <1>1, <1>2, <2>1, RisingAppend DEF WriterInOrder
  <2>. QED
    BY <2>1, <2>2 DEF WriterInOrder, InMemory
<1>10. CASE ClearMem(only)
  <2>1. /\ pc'[only] = "dbclear" /\ InMemory' = <<>> /\ UNCHANGED <<rows, line, sent>>
    BY <1>1, <1>10 DEF ClearMem, Goto, InMemory
  <2>. QED
    BY <1>3, <2>1 DEF WriterInOrder
<1>11. CASE ClearDb(only)
  <2>1. /\ pc'[only] = "idle" /\ rows' = <<>> /\ UNCHANGED <<buf, line, sent>>
    BY <1>1, <1>11 DEF ClearDb, Goto
  <2>. QED
    BY <1>3, <2>1 DEF WriterInOrder, InMemory
<1>12. ASSUME NEW loaded \in Seq(Nat), Restart(loaded), Rising(loaded)
       PROVE  WriterInOrder'
  <2>1. InMemory' = loaded
    BY <1>12, RestartMemory
  <2>2. /\ rows' = rows /\ sent' = <<>> /\ \A t \in Threads : pc'[t] = "idle"
    BY <1>12 DEF Restart
  <2>. QED
    BY <1>3, <1>12, <2>1, <2>2 DEF WriterInOrder
<1>13. CASE Crash
  <2>1. EndOf(rows, MaxLines) \in Seq(Nat) /\ Rising(EndOf(rows, MaxLines))
    BY <1>1, <1>2, EndShape, RisingEnd DEF WriterInOrder
  <2>2. Restart(EndOf(rows, MaxLines))
    BY <1>13, NewestIsEnd DEF Crash
  <2>. QED
    BY <1>12, <2>1, <2>2
<1>14. CASE CrashLoadFails
  <2>1. <<>> \in Seq(Nat) /\ Restart(<<>>)
    BY <1>14 DEF CrashLoadFails
  <2>. QED
    BY <1>3, <1>12, <2>1
<1>15. CASE Drop(only) \/ InsertFails(only) \/ PruneFails(only) \/ ClearDbFails(only)
            \/ \E text \in Texts : Push(only, text)
  BY <1>1, <1>4, <1>15 DEF Drop, InsertFails, PruneFails, ClearDbFails, Push, Goto, store
<1>16. CASE Tick \/ (\E c \in Clients : Subscribe(c) \/ Stream(c) \/ Disconnect(c)) \/ UNCHANGED vars
  BY <1>5, <1>16 DEF Tick, Subscribe, Stream, Snapshot, Recv, Lagged, Disconnect, store, call, vars
<1>. QED
  BY <1>6, <1>7, <1>8, <1>9, <1>10, <1>11, <1>13, <1>14, <1>15, <1>16 DEF Next, Continue

\* What is excused and shown stays so.
LEMMA StreamsInOrderStep ==
  ASSUME NEW only, Threads = {only}, TypeOK, WriterInOrder, StreamsInOrder, [Next]_vars
  PROVE  StreamsInOrder'
<1>1. /\ Len(line) \in Nat /\ Len(sent) \in Nat /\ DOMAIN sent = 1 .. Len(sent)
      /\ \A k \in DOMAIN sent : sent[k] \in Lines
      /\ Lines \subseteq Nat /\ \A l \in Lines : l <= Len(line)
  BY LenProperties, SeqElements DEF TypeOK, Lines
<1>2. ASSUME NEW c \in Clients
      PROVE  /\ screen[c] \in Seq(Lines) /\ next[c] \in 0 .. Len(sent) /\ Len(screen[c]) \in Nat
             /\ DOMAIN screen[c] = 1 .. Len(screen[c])
             /\ \A i \in DOMAIN screen[c] : screen[c][i] \in Lines
  <2>1. screen[c] \in Seq(Lines) /\ next[c] \in 0 .. Len(sent)
    BY DEF TypeOK
  <2>. QED
    BY <2>1, LenProperties, SeqElements
<1>3. ASSUME UNCHANGED <<sent, sse>> PROVE StreamsInOrder'
  BY <1>3 DEF sse, StreamsInOrder, WaitsInOrder, ShowsInOrder, ShownBy
<1>4. CASE Send(only)
  <2>1. /\ UNCHANGED sse /\ sent' = Append(sent, ref[only]) /\ ref[only] = Len(line) /\ ref[only] \in Lines
    BY <1>4 DEF Send, WriterInOrder, TypeOK
  <2>2. /\ sent \in Seq(Lines) /\ DOMAIN sent' = 1 .. (Len(sent) + 1)
        /\ \A k \in 1 .. Len(sent) : sent'[k] = sent[k]
        /\ sent'[Len(sent) + 1] = Len(line)
    BY <2>1, AppendElements DEF TypeOK
  <2>3. ASSUME NEW c \in Clients, conn[c] = "live" PROVE WaitsInOrder(c)'
    <3>. SUFFICES ASSUME NEW k \in 1 .. (Len(sent) + 1), next[c] < k, NEW i \in DOMAIN screen[c],
                         sent'[k] < screen[c][i]
                  PROVE  ShownBy(c, sent'[k], i)
      BY <2>1, <2>2 DEF sse, WaitsInOrder, ShownBy
    <3>0. screen[c][i] \in Nat /\ screen[c][i] <= Len(line)
      BY <1>1, <1>2
    <3>1. k # Len(sent) + 1
      BY <1>1, <2>2, <3>0
    <3>2. k \in DOMAIN sent /\ sent'[k] = sent[k]
      BY <1>1, <2>2, <3>1
    <3>. QED
      BY <2>3, <3>2 DEF StreamsInOrder, WaitsInOrder
  <2>. QED
    BY <2>1, <2>3 DEF sse, StreamsInOrder, ShowsInOrder, ShownBy
<1>5. ASSUME NEW d \in Clients, Snapshot(d) PROVE StreamsInOrder'
  <2>1. /\ UNCHANGED <<sent, next>> /\ screen'[d] = InMemory /\ missed'[d] = Lines \ BufIds
        /\ \A c \in Clients : c # d =>
             conn'[c] = conn[c] /\ screen'[c] = screen[c] /\ missed'[c] = missed[c]
    BY <1>5 DEF Snapshot, InMemory, TypeOK
  <2>2. /\ DOMAIN InMemory = DOMAIN buf
        /\ \A i \in DOMAIN buf : i \in Nat /\ InMemory[i] = buf[i].id /\ InMemory[i] \in Nat
        /\ \A i, j \in DOMAIN InMemory : i < j => InMemory[i] < InMemory[j]
        /\ DOMAIN buf = 1 .. Len(buf) /\ Len(buf) \in Nat
    BY <1>1, InMemoryShape DEF WriterInOrder, Rising
  <2>3. ASSUME NEW k \in DOMAIN sent, NEW i \in DOMAIN InMemory, sent[k] < InMemory[i]
        PROVE  sent[k] \in (Lines \ BufIds) \cup {InMemory[m] : m \in 1 .. i}
    <3>. SUFFICES ASSUME sent[k] \in BufIds PROVE sent[k] \in {InMemory[m] : m \in 1 .. i}
      BY <1>1
    <3>1. PICK m \in DOMAIN buf : buf[m].id = sent[k]
      BY DEF BufIds, Range
    <3>2. InMemory[m] < InMemory[i] /\ m \in DOMAIN InMemory
      BY <2>2, <2>3, <3>1
    <3>3. m < i
      <4>1. ~(i < m)
        BY <2>2, <3>2
      <4>2. i # m
        BY <2>2, <3>2
      <4>. QED
        BY <2>2, <3>2, <4>1, <4>2
    <3>. QED
      BY <2>2, <3>1, <3>2, <3>3
  <2>4. WaitsInOrder(d)'
    BY <2>1, <2>3 DEF WaitsInOrder, ShownBy
  <2>5. ShowsInOrder(d)'
    <3>. SUFFICES ASSUME NEW i \in DOMAIN InMemory, NEW j \in DOMAIN InMemory, i < j,
                         InMemory[j] < InMemory[i]
                  PROVE  FALSE
      BY <2>1 DEF ShowsInOrder
    <3>. QED
      BY <2>2
  <2>6. ASSUME NEW c \in Clients, c # d, conn'[c] = "live" PROVE WaitsInOrder(c)' /\ ShowsInOrder(c)'
    BY <2>1, <2>6 DEF StreamsInOrder, WaitsInOrder, ShowsInOrder, ShownBy
  <2>. QED
    BY <2>4, <2>5, <2>6 DEF StreamsInOrder
<1>6. ASSUME NEW d \in Clients, Recv(d) PROVE StreamsInOrder'
  <2>. DEFINE n == next[d] + 1
              x == sent[n]
              l == Len(screen[d])
  <2>1. /\ UNCHANGED <<sent, conn, missed>> /\ conn[d] = "live"
        /\ screen'[d] = Append(screen[d], x) /\ next'[d] = n
        /\ \A c \in Clients : c # d => screen'[c] = screen[c] /\ next'[c] = next[c]
    BY <1>6 DEF Recv, TypeOK
  <2>2. n \in DOMAIN sent /\ next[d] < n /\ n \in Nat /\ next[d] \in Nat
    BY <1>1, <1>2, <1>6 DEF Recv
  <2>3. /\ x \in Lines /\ l \in Nat /\ DOMAIN screen[d] = 1 .. l
        /\ DOMAIN screen'[d] = 1 .. (l + 1)
        /\ \A i \in 1 .. l : screen'[d][i] = screen[d][i]
        /\ screen'[d][l + 1] = x
    BY <1>1, <1>2, <2>1, <2>2, AppendElements
  <2>. HIDE DEF n, x, l
  <2>4. ASSUME NEW y, NEW i \in 1 .. l, ShownBy(d, y, i) PROVE ShownBy(d, y, i)'
    <3>1. ASSUME NEW m \in 1 .. i PROVE screen'[d][m] = screen[d][m]
      BY <2>3
    <3>. QED
      BY <2>1, <2>4, <3>1 DEF ShownBy
  <2>5. WaitsInOrder(d) /\ ShowsInOrder(d)
    BY <2>1 DEF StreamsInOrder
  <2>6. WaitsInOrder(d)'
    <3>. SUFFICES ASSUME NEW k \in DOMAIN sent, n < k, NEW i \in 1 .. (l + 1),
                         sent[k] < screen'[d][i], NEW y, y = sent[k]
                  PROVE  ShownBy(d, y, i)'
      BY <2>1, <2>3 DEF WaitsInOrder, ShownBy
    <3>1. x < sent[k] /\ x \in Nat /\ sent[k] \in Nat
      BY <1>1, <2>2, <2>3 DEF x, WriterInOrder, Rising
    <3>2. i # l + 1
      BY <2>3, <3>1
    <3>3. i \in 1 .. l /\ next[d] < k
      BY <1>1, <2>2, <2>3, <3>2
    <3>4. ShownBy(d, y, i)
      BY <2>3, <2>5, <3>3 DEF WaitsInOrder
    <3>. QED
      BY <2>4, <3>3, <3>4
  <2>7. ShowsInOrder(d)'
    <3>. SUFFICES ASSUME NEW i \in 1 .. (l + 1), NEW j \in 1 .. (l + 1), i < j,
                         screen'[d][j] < screen'[d][i], NEW y, y = screen'[d][j]
                  PROVE  ShownBy(d, y, i)'
      BY <2>3 DEF ShowsInOrder, ShownBy
    <3>1. i \in 1 .. l /\ (j \in 1 .. l \/ j = l + 1)
      BY <2>3
    <3>2. CASE j \in 1 .. l
      <4>1. ShownBy(d, y, i)
        BY <2>3, <2>5, <3>1, <3>2 DEF ShowsInOrder
      <4>. QED
        BY <2>4, <3>1, <4>1
    <3>3. CASE j = l + 1
      <4>1. y = sent[n] /\ sent[n] < screen[d][i]
        BY <2>3, <3>1, <3>3 DEF x
      <4>2. ShownBy(d, y, i)
        BY <2>2, <2>3, <2>5, <3>1, <4>1 DEF WaitsInOrder
      <4>. QED
        BY <2>4, <3>1, <4>2
    <3>. QED
      BY <3>1, <3>2, <3>3
  <2>8. ASSUME NEW c \in Clients, c # d, conn'[c] = "live" PROVE WaitsInOrder(c)' /\ ShowsInOrder(c)'
    BY <2>1, <2>8 DEF StreamsInOrder, WaitsInOrder, ShowsInOrder, ShownBy
  <2>. QED
    BY <2>6, <2>7, <2>8 DEF StreamsInOrder
<1>7. ASSUME NEW d \in Clients, Lagged(d) PROVE StreamsInOrder'
  <2>1. /\ UNCHANGED <<sent, conn, screen>> /\ missed[d] \subseteq missed'[d] /\ next[d] < next'[d]
        /\ \A c \in Clients : c # d => missed'[c] = missed[c] /\ next'[c] = next[c]
    BY <1>1, <1>2, <1>7, ConstantsTyped DEF Lagged, Behind, TypeOK, LogBufferConstants
  <2>2. next'[d] \in Nat
    BY <1>1, <1>2, <1>7, ConstantsTyped DEF Lagged, Behind, TypeOK, LogBufferConstants
  <2>3. \A c \in Clients : next[c] \in Nat /\ next'[c] \in Nat
    BY <1>2, <2>1, <2>2
  <2>4. ASSUME NEW c \in Clients PROVE missed[c] \subseteq missed'[c] /\ next[c] <= next'[c]
    <3>1. CASE c = d
      BY <2>1, <2>3, <3>1
    <3>2. CASE c # d
      BY <2>1, <2>3, <3>2
    <3>. QED
      BY <3>1, <3>2
  <2>5. \A c \in Clients : \A y, i : ShownBy(c, y, i) => ShownBy(c, y, i)'
    BY <2>1, <2>4 DEF ShownBy
  <2>6. ASSUME NEW c \in Clients, conn[c] = "live" PROVE WaitsInOrder(c)'
    <3>. SUFFICES ASSUME NEW k \in DOMAIN sent, next'[c] < k, NEW i \in DOMAIN screen[c],
                         sent[k] < screen[c][i], NEW y, y = sent[k]
                  PROVE  ShownBy(c, y, i)'
      BY <2>1 DEF WaitsInOrder, ShownBy
    <3>1. next[c] < k
      BY <1>1, <2>3, <2>4
    <3>2. ShownBy(c, y, i)
      BY <2>6, <3>1 DEF StreamsInOrder, WaitsInOrder
    <3>. QED
      BY <2>5, <3>2
  <2>7. ASSUME NEW c \in Clients, conn[c] = "live" PROVE ShowsInOrder(c)'
    <3>. SUFFICES ASSUME NEW i \in DOMAIN screen[c], NEW j \in DOMAIN screen[c], i < j,
                         screen[c][j] < screen[c][i], NEW y, y = screen[c][j]
                  PROVE  ShownBy(c, y, i)'
      BY <2>1 DEF ShowsInOrder, ShownBy
    <3>1. ShownBy(c, y, i)
      BY <2>7 DEF StreamsInOrder, ShowsInOrder
    <3>. QED
      BY <2>5, <3>1
  <2>. QED
    BY <2>1, <2>6, <2>7 DEF StreamsInOrder
<1>8. ASSUME NEW d \in Clients, Subscribe(d) \/ Disconnect(d) PROVE StreamsInOrder'
  <2>1. /\ sent' = sent /\ conn'[d] # "live"
        /\ \A c \in Clients : c # d =>
             /\ conn'[c] = conn[c] /\ screen'[c] = screen[c]
             /\ missed'[c] = missed[c] /\ next'[c] = next[c]
    BY <1>8 DEF Subscribe, Disconnect, TypeOK
  <2>. QED
    BY <2>1 DEF StreamsInOrder, WaitsInOrder, ShowsInOrder, ShownBy
<1>9. CASE Crash \/ CrashLoadFails
  BY <1>9 DEF Crash, CrashLoadFails, Restart, StreamsInOrder
<1>10. CASE UNCHANGED vars
  BY <1>3, <1>10 DEF vars, sse
<1>11. CASE Tick \/ Drop(only) \/ Accept(only) \/ Insert(only) \/ InsertFails(only) \/ Prune(only)
            \/ PruneFails(only) \/ ClearMem(only) \/ ClearDb(only) \/ ClearDbFails(only)
            \/ \E text \in Texts : Push(only, text)
  BY <1>3, <1>11 DEF Tick, Drop, Accept, Insert, InsertFails, Prune, PruneFails, ClearMem,
     ClearDb, ClearDbFails, Push
<1>. QED
  BY <1>4, <1>5, <1>6, <1>7, <1>8, <1>9, <1>10, <1>11 DEF Next, Continue, Stream

\* For every instance in which one task at a time uses the buffer, whatever fails
\* and whenever the panel dies.
THEOREM OneWriterShownInOrder ==
  ASSUME NEW only, Threads = {only}
  PROVE  Spec => []FirstShownInOrder
<1>1. Init => WriterInOrder /\ StreamsInOrder
  BY DEF Init, WriterInOrder, StreamsInOrder, Rising, InMemory
<1>2. TypeOK /\ WriterInOrder /\ StreamsInOrder /\ [Next]_vars => WriterInOrder' /\ StreamsInOrder'
  BY WriterInOrderStep, StreamsInOrderStep
<1>3. StreamsInOrder => FirstShownInOrder
  BY DEF StreamsInOrder, ShowsInOrder, ShownBy, FirstShownInOrder
<1>. QED
  BY <1>1, <1>2, <1>3, TypeCorrect, PTL DEF Spec

-----------------------------------------------------------------------------
(* A stream shows a line twice at most *)

Distinct(s) == \A i, j \in DOMAIN s : s[i] = s[j] => i = j

LEMMA DistinctAppend ==
  ASSUME NEW S, NEW s \in Seq(S), Distinct(s), NEW e \in S, e \notin Range(s)
  PROVE  Distinct(Append(s, e))
<1>1. /\ DOMAIN Append(s, e) = 1 .. (Len(s) + 1) /\ DOMAIN s = 1 .. Len(s) /\ Len(s) \in Nat
      /\ \A i \in 1 .. Len(s) : Append(s, e)[i] = s[i]
      /\ Append(s, e)[Len(s) + 1] = e
  BY AppendElements
<1>2. \A i \in 1 .. Len(s) : s[i] # e
  BY <1>1 DEF Range
<1>. SUFFICES ASSUME NEW i \in 1 .. (Len(s) + 1), NEW j \in 1 .. (Len(s) + 1),
                     Append(s, e)[i] = Append(s, e)[j]
              PROVE  i = j
  BY <1>1 DEF Distinct
<1>3. (i \in 1 .. Len(s) \/ i = Len(s) + 1) /\ (j \in 1 .. Len(s) \/ j = Len(s) + 1)
  BY <1>1
<1>. QED
  BY <1>1, <1>2, <1>3 DEF Distinct

LEMMA DistinctEnd ==
  ASSUME NEW S, NEW s \in Seq(S), Distinct(s), NEW n \in Nat
  PROVE  Distinct(EndOf(s, n)) /\ Range(EndOf(s, n)) \subseteq Range(s)
<1>. DEFINE t == EndOf(s, n)
            a == Len(s)
            b == Len(t)
<1>1. /\ t \in Seq(S) /\ a \in Nat /\ DOMAIN s = 1 .. a /\ b \in Nat /\ DOMAIN t = 1 .. b
      /\ \A i \in 1 .. b : a - b + i \in 1 .. a /\ t[i] = s[a - b + i]
  BY EndShape, LenProperties
<1>. HIDE DEF t, a, b
<1>2. ASSUME NEW i \in 1 .. b, NEW j \in 1 .. b, t[i] = t[j] PROVE i = j
  <2>1. a - b + i = a - b + j
    BY <1>1, <1>2 DEF Distinct
  <2>. QED
    BY <1>1, <2>1
<1>3. Distinct(t)
  BY <1>1, <1>2 DEF Distinct
<1>4. Range(t) \subseteq Range(s)
  BY <1>1 DEF Range
<1>. QED
  BY <1>3, <1>4 DEF t

Carries(t) == pc[t] \in {"append", "prune", "send"}

\* A line is in each place once, carried by one push, and comes to the table and
\* to the channel by that push only.
EachOnce ==
  /\ Distinct(InMemory) /\ Distinct(rows) /\ Distinct(sent)
  /\ \A t, u \in Threads : Carries(t) /\ Carries(u) /\ t # u => ref[t] # ref[u]
  /\ \A t \in Threads : Carries(t) => ref[t] \notin SentIds
  /\ \A t \in Threads : pc[t] = "append" => ref[t] \notin RowIds

\* The first m lines of a screen are its snapshot, the others were received.
TwoParts(c, m) ==
  /\ \A i, j \in 1 .. m : screen[c][i] = screen[c][j] => i = j
  /\ \A i, j \in DOMAIN screen[c] :
       m < i /\ m < j /\ screen[c][i] = screen[c][j] => i = j
  /\ \A i \in DOMAIN screen[c] :
       m < i => \E k \in DOMAIN sent : k <= next[c] /\ sent[k] = screen[c][i]

ScreensInParts == \A c \in Clients : \E m \in 0 .. Len(screen[c]) : TwoParts(c, m)

LEMMA EachOnceStep ==
  ASSUME TypeOK, EachOnce, [Next]_vars
  PROVE  EachOnce'
<1>1. /\ Len(line) \in Nat /\ MaxLines \in Nat /\ MaxLogRows \in Nat
      /\ pc \in [Threads -> {"idle", "lock", "append", "prune", "send", "dbclear"}]
      /\ ref \in [Threads -> 0 .. Len(line)]
      /\ \A t \in Threads : Carries(t) => ref[t] \in Lines
  BY ConstantsTyped, LenProperties DEF TypeOK, LogBufferConstants, Carries
<1>2. /\ rows \in Seq(Lines) /\ sent \in Seq(Lines) /\ InMemory \in Seq(Lines)
      /\ RowIds \subseteq Lines /\ SentIds \subseteq Lines /\ Range(InMemory) \subseteq Lines
  BY InMemoryShape, SeqElements DEF TypeOK, RowIds, SentIds
<1>3. Distinct(<<>>) /\ Range(<<>>) = {}
  BY DEF Distinct, Range
<1>4. ASSUME NEW t \in Threads, UNCHANGED <<buf, rows, sent>>,
             \A u \in Threads : u # t => pc'[u] = pc[u] /\ ref'[u] = ref[u],
             ~Carries(t)' \/ (ref'[t] = ref[t] /\ Carries(t) /\ pc'[t] # "append")
      PROVE  EachOnce'
  BY <1>4 DEF EachOnce, InMemory, Carries, SentIds, RowIds
<1>5. ASSUME UNCHANGED <<buf, rows, sent, pc, ref>> PROVE EachOnce'
  BY <1>5 DEF EachOnce, InMemory, Carries, SentIds, RowIds
<1>6. ASSUME NEW t \in Threads, Accept(t) PROVE EachOnce'
  <2>. DEFINE new == Len(line) + 1
  <2>1. /\ pc'[t] = "append" /\ ref'[t] = new /\ UNCHANGED <<rows, sent>>
        /\ \A u \in Threads : u # t => pc'[u] = pc[u] /\ ref'[u] = ref[u]
    BY <1>1, <1>6 DEF Accept, Goto
  <2>2. new \notin Lines /\ new \in Nat /\ Lines \subseteq Nat
    BY <1>1 DEF Lines
  <2>. HIDE DEF new
  <2>3. InMemory \in Seq(Nat) /\ new \notin Range(InMemory)
    BY <1>2, <2>2, SeqWidens
  <2>4. Append(InMemory, new) \in Seq(Nat) /\ Distinct(Append(InMemory, new))
    BY <2>2, <2>3, DistinctAppend, AppendElements DEF EachOnce
  <2>5. InMemory' = EndOf(Append(InMemory, new), MaxLines)
    BY <1>6, AcceptMemory DEF new
  <2>6. Distinct(InMemory')
    BY <1>1, <2>4, <2>5, DistinctEnd
  <2>7. \A u \in Threads : Carries(u) => ref[u] # new
    BY <1>1, <2>2
  <2>. QED
    BY <1>2, <2>1, <2>2, <2>6, <2>7 DEF EachOnce, Carries, RowIds, SentIds
<1>7. ASSUME NEW t \in Threads, Insert(t) PROVE EachOnce'
  <2>1. /\ pc[t] = "append" /\ pc'[t] = "prune" /\ ref' = ref /\ rows' = Append(rows, ref[t])
        /\ UNCHANGED <<buf, sent>> /\ ref[t] \in Lines
        /\ \A u \in Threads : u # t => pc'[u] = pc[u]
    BY <1>1, <1>7 DEF Insert, Goto, Carries
  <2>2. Distinct(rows') /\ RowIds' = RowIds \cup {ref[t]}
    BY <1>2, <2>1, DistinctAppend, AppendElements DEF EachOnce, RowIds
  <2>. QED
    BY <2>1, <2>2 DEF EachOnce, InMemory, Carries, SentIds
<1>8. ASSUME NEW t \in Threads, Prune(t) PROVE EachOnce'
  <2>1. /\ pc[t] = "prune" /\ pc'[t] = "send" /\ ref' = ref
        /\ rows' = EndOf(rows, MaxLogRows) /\ UNCHANGED <<buf, sent>>
        /\ \A u \in Threads : u # t => pc'[u] = pc[u]
    BY <1>1, <1>8, NewestIsEnd DEF Prune, Goto
  <2>2. Distinct(rows') /\ RowIds' \subseteq RowIds
    BY <1>1, <1>2, <2>1, DistinctEnd DEF EachOnce, RowIds
  <2>. QED
    BY <2>1, <2>2 DEF EachOnce, InMemory, Carries, SentIds
<1>9. ASSUME NEW t \in Threads, Send(t) PROVE EachOnce'
  <2>1. /\ pc[t] = "send" /\ pc'[t] = "idle" /\ sent' = Append(sent, ref[t]) /\ ref[t] \in Lines
        /\ UNCHANGED <<buf, rows, ref>>
        /\ \A u \in Threads : u # t => pc'[u] = pc[u]
    BY <1>1, <1>9 DEF Send, Goto, store, Carries
  <2>2. Distinct(sent') /\ SentIds' = SentIds \cup {ref[t]}
    BY <1>2, <2>1, DistinctAppend, AppendElements DEF EachOnce, SentIds, Carries
  <2>. QED
    BY <2>1, <2>2 DEF EachOnce, InMemory, Carries, RowIds
<1>10. ASSUME NEW t \in Threads, ClearMem(t) PROVE EachOnce'
  <2>1. /\ pc'[t] = "dbclear" /\ InMemory' = <<>> /\ UNCHANGED <<rows, sent>>
        /\ \A u \in Threads : u # t => pc'[u] = pc[u] /\ ref'[u] = ref[u]
    BY <1>1, <1>10 DEF ClearMem, Goto, InMemory
  <2>. QED
    BY <1>3, <2>1 DEF EachOnce, Carries, SentIds, RowIds
<1>11. ASSUME NEW t \in Threads, ClearDb(t) PROVE EachOnce'
  <2>1. /\ pc'[t] = "idle" /\ rows' = <<>> /\ UNCHANGED <<buf, sent, ref>>
        /\ \A u \in Threads : u # t => pc'[u] = pc[u]
    BY <1>1, <1>11 DEF ClearDb, Goto
  <2>. QED
    BY <1>3, <2>1 DEF EachOnce, InMemory, Carries, SentIds, RowIds
<1>12. ASSUME NEW loaded \in Seq(Lines), Restart(loaded), Distinct(loaded)
       PROVE  EachOnce'
  <2>1. InMemory' = loaded
    BY <1>12, RestartMemory
  <2>2. /\ rows' = rows /\ sent' = <<>> /\ \A t \in Threads : pc'[t] = "idle"
    BY <1>12 DEF Restart
  <2>. QED
    BY <1>3, <1>12, <2>1, <2>2 DEF EachOnce, Carries
<1>13. CASE Crash
  <2>1. EndOf(rows, MaxLines) \in Seq(Lines) /\ Distinct(EndOf(rows, MaxLines))
    BY <1>1, <1>2, EndShape, DistinctEnd DEF EachOnce
  <2>2. Restart(EndOf(rows, MaxLines))
    BY <1>13, NewestIsEnd DEF Crash
  <2>. QED
    BY <1>12, <2>1, <2>2
<1>14. CASE CrashLoadFails
  <2>1. <<>> \in Seq(Lines) /\ Restart(<<>>)
    BY <1>14 DEF CrashLoadFails
  <2>. QED
    BY <1>3, <1>12, <2>1
<1>15. ASSUME NEW t \in Threads,
              Drop(t) \/ InsertFails(t) \/ PruneFails(t) \/ ClearDbFails(t)
              \/ \E text \in Texts : Push(t, text)
       PROVE  EachOnce'
  <2>1. /\ UNCHANGED <<buf, rows, sent, ref>>
        /\ \A u \in Threads : u # t => pc'[u] = pc[u]
        /\ pc'[t] \in {"idle", "lock"} \/ (Carries(t) /\ pc'[t] = "send")
    BY <1>1, <1>15 DEF Drop, InsertFails, PruneFails, ClearDbFails, Push, Goto, store, Carries
  <2>. QED
    BY <1>4, <2>1 DEF Carries
<1>16. CASE Tick \/ (\E c \in Clients : Subscribe(c) \/ Stream(c) \/ Disconnect(c)) \/ UNCHANGED vars
  BY <1>5, <1>16 DEF Tick, Subscribe, Stream, Snapshot, Recv, Lagged, Disconnect, store, call, vars
<1>. QED
  BY <1>6, <1>7, <1>8, <1>9, <1>10, <1>11, <1>13, <1>14, <1>15, <1>16 DEF Next, Continue

LEMMA ScreensInPartsStep ==
  ASSUME TypeOK, EachOnce, ScreensInParts, [Next]_vars
  PROVE  ScreensInParts'
<1>1. Len(sent) \in Nat /\ DOMAIN sent = 1 .. Len(sent)
  BY LenProperties DEF TypeOK
<1>2. ASSUME NEW c \in Clients
      PROVE  /\ screen[c] \in Seq(Lines) /\ next[c] \in 0 .. Len(sent) /\ Len(screen[c]) \in Nat
             /\ DOMAIN screen[c] = 1 .. Len(screen[c])
  BY LenProperties DEF TypeOK
<1>3. ASSUME NEW c \in Clients, screen'[c] = screen[c], next'[c] \in Nat, next[c] <= next'[c],
             sent' = sent \/ \E e \in Lines : sent' = Append(sent, e)
      PROVE  \E m \in 0 .. Len(screen'[c]) : TwoParts(c, m)'
  <2>1. PICK m \in 0 .. Len(screen[c]) : TwoParts(c, m)
    BY DEF ScreensInParts
  <2>2. DOMAIN sent \subseteq DOMAIN sent' /\ \A k \in DOMAIN sent : sent'[k] = sent[k] /\ k \in Nat
    <3>1. CASE sent' = sent
      BY <1>1, <3>1
    <3>2. ASSUME NEW e \in Lines, sent' = Append(sent, e)
          PROVE  DOMAIN sent \subseteq DOMAIN sent' /\ \A k \in DOMAIN sent : sent'[k] = sent[k]
      <4>1. /\ DOMAIN sent' = 1 .. (Len(sent) + 1)
            /\ \A k \in 1 .. Len(sent) : sent'[k] = sent[k]
        BY <3>2, AppendElements DEF TypeOK
      <4>2. \A k \in 1 .. Len(sent) : k \in 1 .. (Len(sent) + 1)
        BY <1>1
      <4>. QED
        BY <1>1, <4>1, <4>2
    <3>. QED
      BY <1>1, <1>3, <3>1, <3>2
  <2>3. ASSUME NEW i \in DOMAIN screen[c], m < i
        PROVE  \E k \in DOMAIN sent' : k <= next'[c] /\ sent'[k] = screen[c][i]
    <3>1. PICK k \in DOMAIN sent : k <= next[c] /\ sent[k] = screen[c][i]
      BY <2>1, <2>3 DEF TwoParts
    <3>2. k <= next'[c]
      BY <1>1, <1>2, <1>3, <3>1
    <3>. QED
      BY <2>2, <3>1, <3>2
  <2>. QED
    BY <1>3, <2>1, <2>3 DEF TwoParts
<1>4. ASSUME NEW c \in Clients, screen'[c] = <<>>
      PROVE  \E m \in 0 .. Len(screen'[c]) : TwoParts(c, m)'
  <2>1. 0 \in 0 .. Len(screen'[c]) /\ DOMAIN screen'[c] = {}
    BY <1>4
  <2>2. \A i : i \notin 1 .. 0
    OBVIOUS
  <2>3. ASSUME NEW m, m = 0 PROVE TwoParts(c, m)'
    BY <2>1, <2>2, <2>3 DEF TwoParts
  <2>. QED
    BY <2>1, <2>3
<1>5. ASSUME UNCHANGED <<screen, next>>, sent' = sent \/ \E e \in Lines : sent' = Append(sent, e)
      PROVE  ScreensInParts'
  BY <1>2, <1>3, <1>5 DEF ScreensInParts
<1>6. ASSUME NEW d \in Clients, Snapshot(d) PROVE ScreensInParts'
  <2>1. /\ UNCHANGED <<sent, next>> /\ screen'[d] = InMemory
        /\ \A c \in Clients : c # d => screen'[c] = screen[c]
    BY <1>6 DEF Snapshot, InMemory, TypeOK
  <2>2. DOMAIN InMemory = 1 .. Len(InMemory) /\ Len(InMemory) \in Nat
    BY InMemoryShape
  <2>3. ASSUME NEW m, m = Len(InMemory) PROVE TwoParts(d, m)'
    <3>1. \A i \in DOMAIN InMemory : ~(m < i)
      BY <2>2, <2>3
    <3>2. \A i, j \in 1 .. m : InMemory[i] = InMemory[j] => i = j
      BY <2>2, <2>3 DEF EachOnce, Distinct
    <3>. QED
      BY <2>1, <3>1, <3>2 DEF TwoParts
  <2>4. \E m \in 0 .. Len(screen'[d]) : TwoParts(d, m)'
    BY <2>1, <2>2, <2>3
  <2>. QED
    BY <1>2, <1>3, <2>1, <2>4 DEF ScreensInParts
<1>7. ASSUME NEW d \in Clients, Recv(d) PROVE ScreensInParts'
  <2>. DEFINE n == next[d] + 1
              x == sent[n]
              l == Len(screen[d])
  <2>1. /\ sent' = sent /\ screen'[d] = Append(screen[d], x) /\ next'[d] = n
        /\ \A c \in Clients : c # d => screen'[c] = screen[c] /\ next'[c] = next[c]
    BY <1>7 DEF Recv, TypeOK
  <2>2. n \in DOMAIN sent /\ n \in Nat /\ next[d] \in Nat /\ next[d] < n
    BY <1>1, <1>2, <1>7 DEF Recv
  <2>3. /\ x \in Lines /\ l \in Nat /\ DOMAIN screen[d] = 1 .. l
        /\ DOMAIN screen'[d] = 1 .. (l + 1) /\ Len(screen'[d]) = l + 1
        /\ \A i \in 1 .. l : screen'[d][i] = screen[d][i]
        /\ screen'[d][l + 1] = x
    <3>1. x \in Lines
      BY <2>2, SeqElements DEF TypeOK
    <3>. HIDE DEF x
    <3>. QED
      BY <1>2, <2>1, <3>1, AppendElements
  <2>4. PICK m \in 0 .. l : TwoParts(d, m)
    BY DEF ScreensInParts
  <2>. HIDE DEF n, l
  <2>5. ASSUME NEW i \in 1 .. l, m < i PROVE screen[d][i] # x
    <3>1. PICK k \in DOMAIN sent : k <= next[d] /\ sent[k] = screen[d][i]
      BY <2>3, <2>4, <2>5 DEF TwoParts
    <3>2. k # n
      BY <1>1, <2>2, <3>1
    <3>. QED
      BY <2>2, <3>1, <3>2 DEF EachOnce, Distinct
  <2>6. \A i \in 1 .. (l + 1) : i \in 1 .. l \/ i = l + 1
    BY <2>3
  <2>7. \A i, j \in 1 .. m : screen'[d][i] = screen'[d][j] => i = j
    <3>1. \A i \in 1 .. m : i \in 1 .. l
      BY <2>3
    <3>. QED
      BY <2>3, <2>4, <3>1 DEF TwoParts
  <2>8. \A i, j \in 1 .. (l + 1) : m < i /\ m < j /\ screen'[d][i] = screen'[d][j] => i = j
    <3>. SUFFICES ASSUME NEW i \in 1 .. (l + 1), NEW j \in 1 .. (l + 1), m < i, m < j,
                         screen'[d][i] = screen'[d][j]
                  PROVE  i = j
      OBVIOUS
    <3>. HIDE DEF x
    <3>1. CASE i \in 1 .. l /\ j \in 1 .. l
      BY <2>3, <2>4, <3>1 DEF TwoParts
    <3>2. CASE i = l + 1 /\ j \in 1 .. l
      BY <2>3, <2>5, <3>2
    <3>3. CASE i \in 1 .. l /\ j = l + 1
      BY <2>3, <2>5, <3>3
    <3>. QED
      BY <2>6, <3>1, <3>2, <3>3
  <2>9. ASSUME NEW i \in 1 .. (l + 1), m < i
        PROVE  \E k \in DOMAIN sent : k <= n /\ sent[k] = screen'[d][i]
    <3>1. CASE i = l + 1
      BY <2>2, <2>3, <3>1
    <3>2. CASE i \in 1 .. l
      <4>1. PICK k \in DOMAIN sent : k <= next[d] /\ sent[k] = screen[d][i]
        BY <2>3, <2>4, <2>9, <3>2 DEF TwoParts
      <4>2. k <= n
        BY <1>1, <2>2, <4>1
      <4>. QED
        BY <2>3, <3>2, <4>1, <4>2
    <3>. QED
      BY <2>6, <3>1, <3>2
  <2>10. TwoParts(d, m)'
    BY <2>1, <2>3, <2>7, <2>8, <2>9 DEF TwoParts
  <2>11. \E k \in 0 .. Len(screen'[d]) : TwoParts(d, k)'
    <3>1. m \in 0 .. Len(screen'[d])
      BY <2>3
    <3>. QED
      BY <2>10, <3>1
  <2>. QED
    BY <1>2, <1>3, <2>1, <2>11 DEF ScreensInParts
<1>8. ASSUME NEW d \in Clients, Subscribe(d) \/ Lagged(d) PROVE ScreensInParts'
  <2>1. /\ UNCHANGED <<sent, screen>> /\ next'[d] \in Nat /\ next[d] <= next'[d]
        /\ \A c \in Clients : c # d => next'[c] = next[c]
    BY <1>1, <1>2, <1>8, ConstantsTyped DEF Subscribe, Lagged, Behind, TypeOK, LogBufferConstants
  <2>. QED
    BY <1>2, <1>3, <2>1 DEF ScreensInParts
<1>9. ASSUME NEW d \in Clients, Disconnect(d) PROVE ScreensInParts'
  <2>1. /\ sent' = sent /\ screen'[d] = <<>>
        /\ \A c \in Clients : c # d => screen'[c] = screen[c] /\ next'[c] = next[c]
    BY <1>9 DEF Disconnect, TypeOK
  <2>. QED
    BY <1>2, <1>3, <1>4, <2>1 DEF ScreensInParts
<1>10. CASE Crash \/ CrashLoadFails
  <2>1. \A c \in Clients : screen'[c] = <<>>
    BY <1>10 DEF Crash, CrashLoadFails, Restart
  <2>. QED
    BY <1>4, <2>1 DEF ScreensInParts
<1>11. ASSUME NEW t \in Threads, Send(t) PROVE ScreensInParts'
  BY <1>5, <1>11 DEF Send, sse, TypeOK
<1>12. CASE UNCHANGED vars
  BY <1>5, <1>12 DEF vars, sse
<1>13. CASE Tick \/ \E t \in Threads :
              \/ Drop(t) \/ Accept(t) \/ Insert(t) \/ InsertFails(t) \/ Prune(t)
              \/ PruneFails(t) \/ ClearMem(t) \/ ClearDb(t) \/ ClearDbFails(t)
              \/ \E text \in Texts : Push(t, text)
  BY <1>5, <1>13 DEF Tick, Drop, Accept, Insert, InsertFails, Prune, PruneFails, ClearMem,
     ClearDb, ClearDbFails, Push, sse
<1>. QED
  BY <1>6, <1>7, <1>8, <1>9, <1>10, <1>11, <1>12, <1>13 DEF Next, Continue, Stream

LEMMA PartsImplyTwice ==
  ASSUME TypeOK, ScreensInParts
  PROVE  ShownTwiceAtMost
<1>. SUFFICES ASSUME NEW c \in Clients, NEW i \in DOMAIN screen[c], NEW j \in DOMAIN screen[c],
                     NEW k \in DOMAIN screen[c], i < j, j < k,
                     screen[c][i] = screen[c][j], screen[c][j] = screen[c][k]
              PROVE  FALSE
  BY DEF ShownTwiceAtMost
<1>1. screen[c] \in Seq(Lines) /\ DOMAIN screen[c] = 1 .. Len(screen[c]) /\ Len(screen[c]) \in Nat
  BY LenProperties DEF TypeOK
<1>2. PICK m \in 0 .. Len(screen[c]) : TwoParts(c, m)
  BY DEF ScreensInParts
<1>3. CASE j <= m
  <2>1. i \in 1 .. m /\ j \in 1 .. m /\ i # j
    BY <1>1, <1>3
  <2>. QED
    BY <1>2, <2>1 DEF TwoParts
<1>4. CASE m < j
  <2>1. m < j /\ m < k /\ j # k
    BY <1>1, <1>4
  <2>. QED
    BY <1>2, <2>1 DEF TwoParts
<1>. QED
  BY <1>1, <1>3, <1>4

\* For every instance, however the calls and streams interleave, whatever fails
\* and whenever the panel dies.
THEOREM LinesShownTwiceAtMost == Spec => []ShownTwiceAtMost
<1>1. Init => EachOnce /\ ScreensInParts
  <2>1. ASSUME Init PROVE EachOnce
    BY <2>1 DEF Init, EachOnce, Distinct, InMemory, Carries
  <2>2. ASSUME Init PROVE ScreensInParts
    <3>1. \A c \in Clients : screen[c] = <<>>
      BY <2>2 DEF Init
    <3>2. ASSUME NEW c \in Clients PROVE TwoParts(c, 0) /\ 0 \in 0 .. Len(screen[c])
      BY <3>1 DEF TwoParts
    <3>. QED
      BY <3>2 DEF ScreensInParts
  <2>. QED
    BY <2>1, <2>2
<1>2. TypeOK /\ EachOnce /\ ScreensInParts /\ [Next]_vars => EachOnce' /\ ScreensInParts'
  BY EachOnceStep, ScreensInPartsStep
<1>. QED
  BY <1>1, <1>2, PartsImplyTwice, TypeCorrect, PTL DEF Spec

=============================================================================
