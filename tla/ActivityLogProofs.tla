------------------------- MODULE ActivityLogProofs -------------------------
(***************************************************************************)
(* What TLAPS proves of ActivityLog for every set of players, all caps and *)
(* any faults: both tables implement CappedLog, and the place in a row     *)
(* belongs to it.                                                          *)
(***************************************************************************)
EXTENDS ActivityLog, SequenceFacts

Event == [player : Players, kind : {"join", "death"}]

-----------------------------------------------------------------------------
(* Lemmas on Newest *)

\* Newest is the end of a sequence, as the lemmas of SequenceFacts have it.
LEMMA NewestShape ==
  ASSUME NEW S, NEW s \in Seq(S), NEW n \in Nat
  PROVE  /\ Newest(s, n) \in Seq(S)
         /\ Len(s) \in Nat
         /\ Len(Newest(s, n)) = IF Len(s) > n THEN n ELSE Len(s)
         /\ \A i \in 1 .. Len(Newest(s, n)) :
              /\ Len(s) - Len(Newest(s, n)) + i \in 1 .. Len(s)
              /\ Newest(s, n)[i] = s[Len(s) - Len(Newest(s, n)) + i]
<1>1. Newest(s, n) = EndOf(s, n)
  BY DEF Newest, EndOf
<1>. QED
  BY <1>1, EndShape

\* Pruning twice is pruning once.
LEMMA NewestOfNewest ==
  ASSUME NEW S, NEW s \in Seq(S), NEW n \in Nat
  PROVE  Newest(Newest(s, n), n) = Newest(s, n)
<1>1. \A t : Newest(t, n) = EndOf(t, n)
  BY DEF Newest, EndOf
<1>. QED
  BY <1>1, EndOfEnd

\* What is appended to the newest could as well be appended to them all.
LEMMA NewestOfAppend ==
  ASSUME NEW S, NEW s \in Seq(S), NEW e \in S, NEW n \in Nat \ {0}
  PROVE  Newest(Append(Newest(s, n), e), n) = Newest(Append(s, e), n)
<1>1. \A t : Newest(t, n) = EndOf(t, n)
  BY DEF Newest, EndOf
<1>. QED
  BY <1>1, EndOfAppend

\* Nothing of nothing.
LEMMA NewestOfNone ==
  ASSUME NEW n \in Nat
  PROVE  Newest(<<>>, n) = <<>>
BY EndOfNone DEF Newest, EndOf

\* CappedLog's Newest is that of ActivityLog.
LEMMA NewestIsNewest ==
  ASSUME NEW s, NEW n
  PROVE  Activity!Newest(s, n) = Newest(s, n) /\ Deaths!Newest(s, n) = Newest(s, n)
BY DEF Activity!Newest, Deaths!Newest, Newest

-----------------------------------------------------------------------------
(* Type correctness, and the order of the rows *)

\* What the pump is at work on: an event of the game, for the table of deaths a
\* death, and the row it has just inserted there.
PumpKnows ==
  /\ pump # "idle" => heard \in DOMAIN game
  /\ pump \in {"death", "trimdeath"} => IsDeath(heard)
  /\ pump = "trimdeath" => deaths # <<>> /\ LastRow.event = heard

\* Rows are about events up to the one heard, and about earlier ones until its
\* own row is inserted.
RowsAreOld ==
  /\ \A i \in DOMAIN activity : activity[i] <= heard /\ (pump = "activity" => activity[i] < heard)
  /\ \A i \in DOMAIN deaths :
       /\ deaths[i].event <= heard
       /\ pump \in {"activity", "trim", "death"} => deaths[i].event < heard

LogInv == TypeOK /\ PumpKnows /\ RowsAreOld

LEMMA LogInit == Init => LogInv
<1>. SUFFICES ASSUME Init PROVE LogInv
  OBVIOUS
<1>1. <<>> \in Seq(Event) /\ <<>> \in Seq(Nat) /\ <<>> \in Seq(Row) /\ Len(<<>>) = 0
      /\ DOMAIN <<>> = {}
  OBVIOUS
<1>. QED
  BY <1>1 DEF Init, LogInv, TypeOK, PumpKnows, RowsAreOld, Event, Nowhere

\* The elements of the pruned rows are among those there were.
LEMMA NewestElements ==
  ASSUME NEW S, NEW s \in Seq(S), NEW n \in Nat
  PROVE  \A i \in DOMAIN Newest(s, n) : \E j \in DOMAIN s : Newest(s, n)[i] = s[j]
<1>1. DOMAIN Newest(s, n) = 1 .. Len(Newest(s, n)) /\ DOMAIN s = 1 .. Len(s)
  BY NewestShape, LenProperties
<1>. SUFFICES ASSUME NEW i \in 1 .. Len(Newest(s, n))
              PROVE  \E j \in 1 .. Len(s) : Newest(s, n)[i] = s[j]
  BY <1>1
<1>2. /\ Len(s) - Len(Newest(s, n)) + i \in 1 .. Len(s)
      /\ Newest(s, n)[i] = s[Len(s) - Len(Newest(s, n)) + i]
  BY NewestShape
<1>. QED
  BY <1>2

\* An event of the game stays as it is.
LEMMA HappenKeeps ==
  ASSUME TypeOK, Happen
  PROVE  /\ game' \in Seq(Event) /\ DOMAIN game \subseteq DOMAIN game'
         /\ Len(game') = Len(game) + 1 /\ Len(game) \in Nat
         /\ DOMAIN game = 1 .. Len(game) /\ DOMAIN game' = 1 .. Len(game')
         /\ \A n \in DOMAIN game : game'[n] = game[n]
         /\ lastDeath' \in [Players -> 0 .. Len(game')]
<1>1. PICK p \in Players, kind \in {"join", "death"} :
        /\ game' = Append(game, [player |-> p, kind |-> kind])
        /\ lastDeath' = IF kind = "death" THEN [lastDeath EXCEPT ![p] = Len(game) + 1]
                                          ELSE lastDeath
  BY DEF Happen
<1>2. [player |-> p, kind |-> kind] \in Event /\ game \in Seq(Event)
  BY DEF Event, TypeOK
<1>3. /\ game' \in Seq(Event) /\ Len(game') = Len(game) + 1 /\ Len(game) \in Nat
      /\ DOMAIN game = 1 .. Len(game) /\ DOMAIN game' = 1 .. (Len(game) + 1)
      /\ \A n \in 1 .. Len(game) : game'[n] = game[n]
  BY <1>1, <1>2, AppendElements
<1>4. lastDeath' \in [Players -> 0 .. Len(game')]
  BY <1>1, <1>3 DEF TypeOK
<1>. QED
  BY <1>3, <1>4

\* The events of the game, and the row inserted last.
LEMMA Elements ==
  ASSUME TypeOK
  PROVE  /\ Len(game) \in Nat /\ DOMAIN game = 1 .. Len(game) /\ heard \in Nat
         /\ \A n \in DOMAIN game : game[n] \in Event
         /\ deaths # <<>> => Len(deaths) \in DOMAIN deaths /\ LastRow \in Row
         /\ \A i \in DOMAIN activity : activity[i] \in Nat
         /\ \A i \in DOMAIN deaths : deaths[i] \in Row /\ deaths[i].event \in Nat
<1>1. game \in Seq(Event) /\ deaths \in Seq(Row) /\ heard \in 0 .. Len(game)
  BY DEF TypeOK, Event
<1>2. /\ Len(game) \in Nat /\ DOMAIN game = 1 .. Len(game)
      /\ \A n \in DOMAIN game : game[n] \in Event
  BY <1>1, LenProperties, SeqElements
<1>3. ASSUME deaths # <<>>
      PROVE  Len(deaths) \in DOMAIN deaths /\ LastRow \in Row
  <2>1. Len(deaths) \in Nat /\ DOMAIN deaths = 1 .. Len(deaths) /\ Len(deaths) # 0
    BY <1>1, <1>3, LenProperties, EmptySeq
  <2>2. Len(deaths) \in DOMAIN deaths
    BY <2>1
  <2>. QED
    BY <1>1, <2>2, SeqElements DEF LastRow
<1>4. \A i \in DOMAIN activity : activity[i] \in Nat
  BY SeqElements DEF TypeOK
<1>5. \A i \in DOMAIN deaths : deaths[i] \in Row /\ deaths[i].event \in Nat
  <2>1. \A i \in DOMAIN deaths : deaths[i] \in Row
    BY <1>1, SeqElements
  <2>. QED
    BY <2>1 DEF Row
<1>. QED
  BY <1>1, <1>2, <1>3, <1>4, <1>5

\* The UPDATE changes places, and nothing else of the rows.
LEMMA PatchShape ==
  ASSUME TypeOK, NEW task \in lookups, Patch(task)
  PROVE  /\ deaths' \in Seq(Row) /\ Len(deaths') = Len(deaths)
         /\ DOMAIN deaths' = DOMAIN deaths
         /\ \A i \in DOMAIN deaths :
              /\ deaths[i] \in Row
              /\ deaths'[i].event = deaths[i].event /\ deaths'[i].id = deaths[i].id
              /\ deaths'[i].place = IF deaths[i].id = task.row THEN task.place
                                                              ELSE deaths[i].place
<1>1. /\ Len(deaths) \in Nat /\ DOMAIN deaths = 1 .. Len(deaths)
      /\ \A i \in DOMAIN deaths : deaths[i] \in Row
  BY LenProperties, SeqElements DEF TypeOK
<1>2. task.place \in Nat
  BY DEF TypeOK, Task
<1>3. deaths' = [i \in DOMAIN deaths |->
                   IF deaths[i].id = task.row THEN [deaths[i] EXCEPT !.place = task.place]
                   ELSE deaths[i]]
  BY DEF Patch
<1>4. ASSUME NEW i \in DOMAIN deaths
      PROVE  /\ deaths'[i] \in Row
             /\ deaths'[i].event = deaths[i].event /\ deaths'[i].id = deaths[i].id
             /\ deaths'[i].place = IF deaths[i].id = task.row THEN task.place
                                                             ELSE deaths[i].place
  BY <1>1, <1>2, <1>3 DEF Row
<1>5. deaths' \in [1 .. Len(deaths) -> Row]
  BY <1>1, <1>3, <1>4
<1>. QED
  BY <1>1, <1>4, <1>5, MadeSeq

\* A task that has its answer.
LEMMA AskedTask ==
  ASSUME NEW task \in Task, NEW place \in Nat
  PROVE  [task EXCEPT !.at = "found", !.place = place] \in Task
BY DEF Task

LEMMA LogPush ==
  ASSUME LogInv, Push
  PROVE  LogInv'
<1>. USE DEF LogInv, TypeOK, PumpKnows, RowsAreOld
<1>0. /\ Len(game) \in Nat /\ DOMAIN game = 1 .. Len(game) /\ heard \in Nat
      /\ \A n \in DOMAIN game : game[n] \in Event
      /\ deaths # <<>> => LastRow \in Row
  BY Elements
<1>1. CASE InsertActivity
  <2>1. /\ activity' \in Seq(Nat)
        /\ \A i \in DOMAIN activity' : activity'[i] = heard
             \/ (i \in DOMAIN activity /\ activity'[i] = activity[i])
    BY <1>0, <1>1, AppendElements, AppendCases DEF InsertActivity
  <2>2. heard <= heard /\ \A i \in DOMAIN activity : activity[i] <= heard
    BY <1>0
  <2>3. \A i \in DOMAIN activity' : activity'[i] <= heard
    BY <2>1, <2>2
  <2>. QED
    BY <1>1, <2>1, <2>3 DEF InsertActivity, Goto, world
<1>2. CASE InsertActivityFails
  BY <1>0, <1>2 DEF InsertActivityFails, AfterActivity, Goto, world, tables, IsDeath, LastRow
<1>3. CASE PruneActivity
  <2>1. activity' \in Seq(Nat) /\ \A i \in DOMAIN activity' : \E j \in DOMAIN activity : activity'[i] = activity[j]
    BY <1>3, CapAssumption, NewestShape, NewestElements DEF PruneActivity
  <2>. QED
    BY <1>0, <1>3, <2>1 DEF PruneActivity, AfterActivity, Goto, world, IsDeath, LastRow
<1>4. CASE PruneActivityFails
  BY <1>0, <1>4 DEF PruneActivityFails, AfterActivity, Goto, world, tables, IsDeath, LastRow
<1>5. CASE InsertDeath
  <2>. DEFINE new == [id |-> nextId, event |-> heard, place |-> Nowhere]
  <2>1. new \in Row
    BY <1>0 DEF Row, Nowhere
  <2>2. /\ deaths' \in Seq(Row) /\ deaths' # <<>> /\ LastRow' = new
        /\ \A i \in DOMAIN deaths' : deaths'[i] = new
             \/ (i \in DOMAIN deaths /\ deaths'[i] = deaths[i])
    <3>1. deaths' = Append(deaths, new) /\ deaths \in Seq(Row)
      BY <1>5 DEF InsertDeath
    <3>. HIDE DEF new
    <3>2. /\ deaths' \in Seq(Row) /\ deaths' # <<>> /\ Len(deaths') = Len(deaths) + 1
          /\ deaths'[Len(deaths) + 1] = new
      BY <2>1, <3>1, AppendProperties
    <3>3. \A i \in DOMAIN deaths' : deaths'[i] = new
             \/ (i \in DOMAIN deaths /\ deaths'[i] = deaths[i])
      BY <2>1, <3>1, AppendCases
    <3>. QED
      BY <3>2, <3>3 DEF LastRow
  <2>3. LastRow'.event = heard
    BY <2>2
  <2>. QED
    BY <1>0, <1>5, <2>2, <2>3 DEF InsertDeath, Goto, world, IsDeath
<1>6. CASE InsertDeathFails
  BY <1>0, <1>6 DEF InsertDeathFails, Goto, world, tables
<1>7. CASE PruneDeaths
  <2>1. deaths' \in Seq(Row) /\ \A i \in DOMAIN deaths' : \E j \in DOMAIN deaths : deaths'[i] = deaths[j]
    BY <1>7, CapAssumption, NewestShape, NewestElements DEF PruneDeaths
  <2>2. LastRow \in Row /\ game[heard] \in Event
    BY <1>0, <1>7 DEF PruneDeaths
  <2>3. lookups' \subseteq Task
    BY <1>7, <2>2 DEF PruneDeaths, Task, Row, Event, Nowhere
  <2>. QED
    BY <1>0, <1>7, <2>1, <2>3 DEF PruneDeaths, Goto, world
<1>8. CASE PruneDeathsFails
  <2>1. LastRow \in Row
    BY <1>0, <1>8 DEF PruneDeathsFails
  <2>. QED
    BY <1>0, <1>8, <2>1 DEF PruneDeathsFails, Goto, world, tables, Row
<1>. QED
  BY <1>1, <1>2, <1>3, <1>4, <1>5, <1>6, <1>7, <1>8 DEF Push

LEMMA LogStep ==
  ASSUME LogInv, [Next]_vars
  PROVE  LogInv'
<1>. USE DEF LogInv, TypeOK, PumpKnows, RowsAreOld
<1>0. /\ Len(game) \in Nat /\ DOMAIN game = 1 .. Len(game) /\ heard \in Nat
      /\ \A n \in DOMAIN game : game[n] \in Event
      /\ deaths # <<>> => LastRow \in Row
  BY Elements
<1>1. CASE Happen
  <2>1. /\ game' \in Seq(Event) /\ DOMAIN game \subseteq DOMAIN game'
        /\ heard \in 0 .. Len(game')
        /\ \A n \in DOMAIN game : game'[n] = game[n]
        /\ lastDeath' \in [Players -> 0 .. Len(game')]
    BY <1>0, <1>1, HappenKeeps
  <2>. QED
    BY <1>0, <1>1, <2>1 DEF Happen, tables, IsDeath, LastRow, Event
<1>2. CASE Hear
  <2>1. heard' \in DOMAIN game /\ heard' \in 0 .. Len(game) /\ heard < heard'
    BY <1>0, <1>2 DEF Hear
  <2>2. /\ \A i \in DOMAIN activity : activity[i] < heard' /\ activity[i] <= heard'
        /\ \A i \in DOMAIN deaths : deaths[i].event < heard' /\ deaths[i].event <= heard'
    BY <1>0, <2>1, Elements
  <2>. QED
    BY <1>0, <1>2, <2>1, <2>2 DEF Hear, Goto, world, tables
<1>3. CASE Push
  BY <1>3, LogPush
<1>4. CASE ClearActivity
  <2>1. activity' \in Seq(Nat) /\ DOMAIN activity' = {}
    BY <1>4 DEF ClearActivity
  <2>. QED
    BY <1>4, <2>1 DEF ClearActivity, world, IsDeath, LastRow
<1>5. CASE LookUp
  <2>1. PICK task \in lookups : Ask(task) \/ LookupFails(task) \/ Patch(task)
    BY <1>5 DEF LookUp
  <2>2. CASE Ask(task)
    <3>0. task \in Task /\ lastDeath[task.player] \in Nat
      BY <1>0 DEF Task
    <3>1. [task EXCEPT !.at = "found", !.place = lastDeath[task.player]] \in Task
      BY <3>0, AskedTask
    <3>. QED
      BY <2>2, <3>1 DEF Ask, world, tables, IsDeath, LastRow
  <2>3. CASE LookupFails(task)
    BY <2>3 DEF LookupFails, world, tables, IsDeath, LastRow, Task
  <2>4. CASE Patch(task)
    <3>1. /\ deaths' \in Seq(Row) /\ Len(deaths') = Len(deaths) /\ DOMAIN deaths' = DOMAIN deaths
          /\ \A i \in DOMAIN deaths : deaths'[i].event = deaths[i].event
      BY <2>4, PatchShape
    <3>2. deaths # <<>> => LastRow'.event = LastRow.event /\ deaths' # <<>>
      BY <3>1, Elements, EmptySeq DEF LastRow
    <3>. QED
      BY <2>4, <3>1, <3>2 DEF Patch, world, IsDeath
  <2>. QED
    BY <2>1, <2>2, <2>3, <2>4
<1>6. CASE Crash
  <2>1. excused' \subseteq Nat
    BY <1>0, <1>6 DEF Crash, Task, Row
  <2>. QED
    BY <1>6, <2>1 DEF Crash, world, tables
<1>7. CASE UNCHANGED vars
  BY <1>7 DEF vars, IsDeath, LastRow
<1>. QED
  BY <1>1, <1>2, <1>3, <1>4, <1>5, <1>6, <1>7 DEF Next

\* Type correctness for every instance.
THEOREM TypeCorrect == Spec => []TypeOK
<1>1. LogInv => TypeOK
  BY DEF LogInv
<1>2. LogInv /\ [Next]_vars => LogInv'
  BY LogStep
<1>. QED
  BY <1>1, <1>2, LogInit, PTL DEF Spec

-----------------------------------------------------------------------------
(* Both tables implement CappedLog *)

\* Appending a later event to the table adds it to the log that is read.
LEMMA AppendAdds ==
  ASSUME NEW rows \in Seq(Nat), NEW e \in Nat, NEW n \in Nat \ {0},
         \A i \in DOMAIN rows : rows[i] < e,
         NEW old, old = Newest(rows, n),
         NEW new, new = Newest(Append(rows, e), n)
  PROVE  /\ new # <<>> /\ new[Len(new)] = e
         /\ \A i \in DOMAIN old : old[i] < e
         /\ new = Newest(Append(old, e), n)
<1>1. \A i \in DOMAIN old : old[i] < e
  BY NewestElements
<1>. DEFINE all == Append(rows, e)
<1>2. all \in Seq(Nat) /\ Len(all) = Len(rows) + 1 /\ all[Len(all)] = e /\ Len(rows) \in Nat
  BY AppendElements
<1>3. /\ new \in Seq(Nat) /\ Len(new) = IF Len(all) > n THEN n ELSE Len(all)
      /\ \A i \in 1 .. Len(new) : new[i] = all[Len(all) - Len(new) + i]
  <2>1. new = Newest(all, n)
    OBVIOUS
  <2>. HIDE DEF all
  <2>2. /\ Newest(all, n) \in Seq(Nat)
        /\ Len(Newest(all, n)) = IF Len(all) > n THEN n ELSE Len(all)
        /\ \A i \in 1 .. Len(Newest(all, n)) :
             Newest(all, n)[i] = all[Len(all) - Len(Newest(all, n)) + i]
    BY <1>2, NewestShape
  <2>. QED
    BY <2>1, <2>2
<1>4. Len(new) \in Nat /\ Len(new) \in 1 .. Len(new) /\ Len(all) - Len(new) + Len(new) = Len(all)
  <2>. HIDE DEF all
  <2>. QED
    BY <1>2, <1>3
<1>5. new[Len(new)] = e
  BY <1>2, <1>3, <1>4
<1>6. new # <<>>
  BY <1>4, EmptySeq
<1>. QED
  BY <1>1, <1>5, <1>6, NewestOfAppend

LEMMA ActivityInit == Init => Activity!Init
<1>1. Newest(<<>>, ActivityCap) = <<>>
  BY CapAssumption, NewestOfNone
<1>. QED
  BY <1>1 DEF Init, Activity!Init

LEMMA ActivityStep ==
  ASSUME LogInv, [Next]_vars
  PROVE  [Activity!Next]_(Newest(activity, ActivityCap))
<1>. DEFINE log == Newest(activity, ActivityCap)
<1>0. activity \in Seq(Nat) /\ ActivityCap \in Nat \ {0} /\ heard \in Nat
  BY CapAssumption, Elements DEF LogInv, TypeOK
<1>1. CASE InsertActivity
  <2>1. activity' = Append(activity, heard) /\ \A i \in DOMAIN activity : activity[i] < heard
    BY <1>1 DEF InsertActivity, LogInv, RowsAreOld
  <2>2. /\ log' # <<>> /\ log'[Len(log')] = heard
        /\ \A i \in DOMAIN log : log[i] < heard
        /\ log' = Newest(Append(log, heard), ActivityCap)
    <3>1. log' = Newest(Append(activity, heard), ActivityCap)
      BY <2>1
    <3>. HIDE DEF log
    <3>2. log = Newest(activity, ActivityCap)
      BY DEF log
    <3>. QED
      BY <1>0, <2>1, <3>1, <3>2, AppendAdds
  <2>3. Activity!Add
    BY <1>0, <2>2, NewestIsNewest DEF Activity!Add
  <2>. QED
    BY <2>3 DEF Activity!Next
<1>2. CASE PruneActivity
  <2>1. log' = log
    BY <1>0, <1>2, NewestOfNewest DEF PruneActivity
  <2>. QED
    BY <2>1
<1>3. CASE ClearActivity
  <2>1. log' = <<>>
    BY <1>0, <1>3, NewestOfNone DEF ClearActivity
  <2>2. Activity!Wipe
    BY <2>1 DEF Activity!Wipe
  <2>. QED
    BY <2>2 DEF Activity!Next
<1>4. CASE activity' = activity
  BY <1>4
<1>5. activity' = activity \/ InsertActivity \/ PruneActivity \/ ClearActivity
  BY DEF Next, Happen, Hear, Push, InsertActivityFails, PruneActivityFails, InsertDeath,
     InsertDeathFails, PruneDeaths, PruneDeathsFails, LookUp, Ask, LookupFails, Patch,
     Crash, vars, tables
<1>. QED
  BY <1>1, <1>2, <1>3, <1>4, <1>5

\* What activity_load returns is the log its comments promise, for all caps,
\* whatever statements fail and whenever the panel dies.
THEOREM ActivityIsLog == Spec => ActivityIsCappedLog
<1>1. LogInv /\ [Next]_vars => [Activity!Next]_(Newest(activity, ActivityCap))
  BY ActivityStep
<1>2. LogInv /\ [Next]_vars => LogInv'
  BY LogStep
<1>3. Init => LogInv /\ Activity!Init
  BY LogInit, ActivityInit
<1>. QED
  BY <1>1, <1>2, <1>3, PTL DEF Spec, ActivityIsCappedLog, Activity!Spec

\* The events of the rows of deaths, and of those rows with one more or pruned.
LEMMA EventsShape ==
  ASSUME NEW rows \in Seq(Row)
  PROVE  /\ [i \in DOMAIN rows |-> rows[i].event] \in Seq(Nat)
         /\ Len([i \in DOMAIN rows |-> rows[i].event]) = Len(rows)
         /\ DOMAIN rows = 1 .. Len(rows) /\ Len(rows) \in Nat
<1>1. /\ DOMAIN rows = 1 .. Len(rows) /\ Len(rows) \in Nat
      /\ \A i \in DOMAIN rows : rows[i] \in Row
  BY LenProperties, SeqElements
<1>2. [i \in DOMAIN rows |-> rows[i].event] \in [1 .. Len(rows) -> Nat]
  BY <1>1 DEF Row
<1>. QED
  BY <1>1, <1>2, MadeSeq

LEMMA EventsOfAppend ==
  ASSUME NEW rows \in Seq(Row), NEW row \in Row
  PROVE  [i \in DOMAIN Append(rows, row) |-> Append(rows, row)[i].event]
           = Append([i \in DOMAIN rows |-> rows[i].event], row.event)
<1>. DEFINE all == Append(rows, row)
            l == [i \in DOMAIN all |-> all[i].event]
            old == [i \in DOMAIN rows |-> rows[i].event]
            r == Append(old, row.event)
<1>1. /\ all \in Seq(Row) /\ Len(all) = Len(rows) + 1 /\ DOMAIN all = 1 .. (Len(rows) + 1)
      /\ DOMAIN rows = 1 .. Len(rows) /\ Len(rows) \in Nat
      /\ \A i \in 1 .. Len(rows) : all[i] = rows[i]
      /\ all[Len(rows) + 1] = row
  BY AppendElements
<1>2. l \in Seq(Nat) /\ Len(l) = Len(all)
  <2>. HIDE DEF all
  <2>. QED
    BY <1>1, EventsShape
<1>3. old \in Seq(Nat) /\ Len(old) = Len(rows) /\ row.event \in Nat
  BY EventsShape DEF Row
<1>4. /\ r \in Seq(Nat) /\ Len(r) = Len(rows) + 1
      /\ \A i \in 1 .. Len(rows) : r[i] = old[i]
      /\ r[Len(rows) + 1] = row.event
  <2>. HIDE DEF old
  <2>. QED
    BY <1>3, AppendElements
<1>5. ASSUME NEW i \in 1 .. Len(l)
      PROVE  l[i] = r[i]
  <2>1. i \in 1 .. Len(rows) \/ i = Len(rows) + 1
    BY <1>1, <1>2
  <2>2. l[i] = all[i].event
    BY <1>1, <1>2
  <2>3. CASE i \in 1 .. Len(rows)
    <3>1. old[i] = rows[i].event
      BY <1>1, <2>3
    <3>. HIDE DEF l, old, r, all
    <3>. QED
      BY <1>1, <1>4, <2>2, <2>3, <3>1
  <2>4. CASE i = Len(rows) + 1
    <3>. HIDE DEF l, old, r, all
    <3>. QED
      BY <1>1, <1>4, <2>2, <2>4
  <2>. QED
    BY <2>1, <2>3, <2>4
<1>6. l = r
  <2>. HIDE DEF l, r
  <2>. QED
    BY <1>1, <1>2, <1>4, <1>5, SeqEqual
<1>. QED
  BY <1>6

LEMMA EventsOfNewest ==
  ASSUME NEW rows \in Seq(Row), NEW n \in Nat
  PROVE  [i \in DOMAIN Newest(rows, n) |-> Newest(rows, n)[i].event]
           = Newest([i \in DOMAIN rows |-> rows[i].event], n)
<1>. DEFINE kept == Newest(rows, n)
            l == [i \in DOMAIN kept |-> kept[i].event]
            old == [i \in DOMAIN rows |-> rows[i].event]
            r == Newest(old, n)
<1>1. /\ kept \in Seq(Row) /\ Len(rows) \in Nat
      /\ Len(kept) = IF Len(rows) > n THEN n ELSE Len(rows)
      /\ \A i \in 1 .. Len(kept) :
           /\ Len(rows) - Len(kept) + i \in 1 .. Len(rows)
           /\ kept[i] = rows[Len(rows) - Len(kept) + i]
  BY NewestShape
<1>2. l \in Seq(Nat) /\ Len(l) = Len(kept) /\ DOMAIN kept = 1 .. Len(kept)
  <2>. HIDE DEF kept
  <2>. QED
    BY <1>1, EventsShape
<1>3. old \in Seq(Nat) /\ Len(old) = Len(rows) /\ DOMAIN rows = 1 .. Len(rows)
  BY EventsShape
<1>4. /\ r \in Seq(Nat) /\ Len(r) = IF Len(rows) > n THEN n ELSE Len(rows)
      /\ \A i \in 1 .. Len(r) : r[i] = old[Len(rows) - Len(r) + i]
  <2>. HIDE DEF old
  <2>1. /\ r \in Seq(Nat) /\ Len(r) = IF Len(old) > n THEN n ELSE Len(old)
        /\ \A i \in 1 .. Len(r) : r[i] = old[Len(old) - Len(r) + i]
    BY <1>3, NewestShape
  <2>. QED
    BY <1>3, <2>1
<1>5. ASSUME NEW i \in 1 .. Len(l)
      PROVE  l[i] = r[i]
  <2>1. l[i] = kept[i].event
    BY <1>2
  <2>2. Len(rows) - Len(kept) + i \in DOMAIN rows /\ kept[i] = rows[Len(rows) - Len(kept) + i]
    BY <1>1, <1>2, <1>3
  <2>3. old[Len(rows) - Len(kept) + i] = rows[Len(rows) - Len(kept) + i].event
    BY <2>2
  <2>4. Len(r) = Len(kept)
    BY <1>1, <1>4
  <2>. HIDE DEF l, old, r, kept
  <2>. QED
    BY <1>2, <1>4, <2>1, <2>2, <2>3, <2>4
<1>6. l = r
  <2>. HIDE DEF l, r, kept
  <2>. QED
    BY <1>1, <1>2, <1>4, <1>5, SeqEqual
<1>. QED
  BY <1>6

LEMMA DeathsInit == Init => Deaths!Init
<1>1. <<>> \in Seq(Nat) /\ Len(<<>>) = 0 /\ DeathCap \in Nat /\ <<>> \in Seq(Row)
  BY CapAssumption
<1>2. Newest(<<>>, DeathCap) = <<>>
  BY <1>1, NewestOfNone
<1>3. [i \in DOMAIN <<>> |-> <<>>[i].event] = <<>>
  BY <1>1, EventsShape, EmptySeq
<1>4. Init => Newest([i \in DOMAIN deaths |-> deaths[i].event], DeathCap) = <<>>
  BY <1>2, <1>3 DEF Init
<1>. QED
  BY <1>4 DEF Deaths!Init, DeathEvents

LEMMA DeathsStep ==
  ASSUME LogInv, [Next]_vars
  PROVE  [Deaths!Next]_(Newest(DeathEvents, DeathCap))
<1>. DEFINE log == Newest(DeathEvents, DeathCap)
<1>0. /\ deaths \in Seq(Row) /\ DeathCap \in Nat \ {0} /\ heard \in Nat
      /\ DeathEvents \in Seq(Nat) /\ DOMAIN DeathEvents = DOMAIN deaths
  BY CapAssumption, Elements, EventsShape DEF LogInv, TypeOK, DeathEvents
<1>1. CASE InsertDeath
  <2>. DEFINE new == [id |-> nextId, event |-> heard, place |-> Nowhere]
  <2>0. new \in Row /\ new.event = heard
    BY <1>0 DEF LogInv, TypeOK, Row, Nowhere
  <2>1. deaths' = Append(deaths, new)
    BY <1>1 DEF InsertDeath
  <2>2. DeathEvents' = Append(DeathEvents, heard)
    <3>. HIDE DEF new
    <3>1. DeathEvents' = [i \in DOMAIN Append(deaths, new) |-> Append(deaths, new)[i].event]
      BY <2>1 DEF DeathEvents
    <3>. QED
      BY <1>0, <2>0, <3>1, EventsOfAppend DEF DeathEvents
  <2>3. \A i \in DOMAIN DeathEvents : DeathEvents[i] < heard
    BY <1>0, <1>1 DEF InsertDeath, LogInv, RowsAreOld, DeathEvents
  <2>4. /\ log' # <<>> /\ log'[Len(log')] = heard
        /\ \A i \in DOMAIN log : log[i] < heard
        /\ log' = Newest(Append(log, heard), DeathCap)
    <3>1. log' = Newest(Append(DeathEvents, heard), DeathCap)
      BY <2>2
    <3>. HIDE DEF log
    <3>2. log = Newest(DeathEvents, DeathCap)
      BY DEF log
    <3>. QED
      BY <1>0, <2>3, <3>1, <3>2, AppendAdds
  <2>5. Deaths!Add
    BY <1>0, <2>4, NewestIsNewest DEF Deaths!Add
  <2>. QED
    BY <2>5 DEF Deaths!Next
<1>2. CASE PruneDeaths
  <2>1. DeathEvents' = Newest(DeathEvents, DeathCap)
    <3>1. DeathEvents' = [i \in DOMAIN Newest(deaths, DeathCap) |->
                            Newest(deaths, DeathCap)[i].event]
      BY <1>2 DEF DeathEvents, PruneDeaths
    <3>. QED
      BY <1>0, <3>1, EventsOfNewest DEF DeathEvents
  <2>2. log' = log
    BY <1>0, <2>1, NewestOfNewest
  <2>. QED
    BY <2>2
<1>3. CASE LookUp /\ deaths' # deaths
  <2>1. PICK task \in lookups : Patch(task)
    BY <1>3 DEF LookUp, Ask, LookupFails, tables
  <2>2. DeathEvents' = DeathEvents
    BY <2>1, PatchShape DEF DeathEvents, LogInv
  <2>. QED
    BY <2>2
<1>4. CASE deaths' = deaths
  BY <1>4 DEF DeathEvents
<1>5. deaths' = deaths \/ InsertDeath \/ PruneDeaths \/ LookUp
  BY DEF Next, Happen, Hear, Push, InsertActivity, InsertActivityFails, PruneActivity,
     PruneActivityFails, InsertDeathFails, PruneDeathsFails, ClearActivity, Crash, vars, tables
<1>. QED
  BY <1>1, <1>2, <1>3, <1>4, <1>5

\* So is the log of deaths, which no clear empties.
THEOREM DeathsAreLog == Spec => DeathsAreCappedLog
<1>1. LogInv /\ [Next]_vars => [Deaths!Next]_(Newest(DeathEvents, DeathCap))
  BY DeathsStep
<1>2. LogInv /\ [Next]_vars => LogInv'
  BY LogStep
<1>3. Init => LogInv /\ Deaths!Init
  BY LogInit, DeathsInit
<1>. QED
  BY <1>1, <1>2, <1>3, PTL DEF Spec, DeathsAreCappedLog, Deaths!Spec

-----------------------------------------------------------------------------
(* The place in a row belongs to it *)

\* A death of that player, which is the event or a later one.
Fits(place, player, event) ==
  /\ place \in DOMAIN game /\ place >= event
  /\ IsDeath(place) /\ game[place].player = player

\* The game knows of each player the last death.
LastIsLast ==
  \A p \in Players :
    /\ lastDeath[p] # Nowhere => Fits(lastDeath[p], p, 1)
    /\ \A n \in DOMAIN game : IsDeath(n) /\ game[n].player = p =>
         n <= lastDeath[p] /\ lastDeath[p] # Nowhere

\* Rows are about deaths, and an id is given once.
RowsKnown ==
  /\ \A i \in DOMAIN deaths :
       /\ deaths[i].id < nextId
       /\ deaths[i].event \in DOMAIN game /\ IsDeath(deaths[i].event)
  /\ \A i, j \in DOMAIN deaths : deaths[i].id = deaths[j].id => i = j

\* If the row of a task is still there it is about the player the task asks for,
\* and what the task has found belongs to it.
TaskFits(task) ==
  /\ task.row < nextId
  /\ \A i \in DOMAIN deaths : deaths[i].id = task.row =>
       /\ game[deaths[i].event].player = task.player
       /\ task.at = "found" => Fits(task.place, task.player, deaths[i].event)

TasksFit == \A task \in lookups : TaskFits(task)

PlaceInv == LogInv /\ LastIsLast /\ RowsKnown /\ TasksFit /\ PlacesBelong

LEMMA PlaceInit == Init => PlaceInv
<1>. SUFFICES ASSUME Init PROVE PlaceInv
  OBVIOUS
<1>1. DOMAIN <<>> = {}
  OBVIOUS
<1>. QED
  BY <1>1, LogInit DEF Init, PlaceInv, LastIsLast, RowsKnown, TasksFit, PlacesBelong, Nowhere

\* What belongs to a row still does when the game has gone on.
LEMMA FitsLater ==
  ASSUME TypeOK, Happen, NEW place, NEW player, NEW event, Fits(place, player, event)
  PROVE  Fits(place, player, event)'
BY HappenKeeps DEF Fits, IsDeath

LEMMA LastHappens ==
  ASSUME TypeOK, LastIsLast, Happen
  PROVE  LastIsLast'
<1>1. PICK q \in Players, kind \in {"join", "death"} :
        /\ game' = Append(game, [player |-> q, kind |-> kind])
        /\ lastDeath' = IF kind = "death" THEN [lastDeath EXCEPT ![q] = Len(game) + 1]
                                          ELSE lastDeath
  BY DEF Happen
<1>. DEFINE new == [player |-> q, kind |-> kind]
            last == Len(game) + 1
<1>2. new \in Event /\ game \in Seq(Event) /\ new.player = q /\ new.kind = kind
  BY DEF Event, TypeOK
<1>3. /\ Len(game) \in Nat /\ DOMAIN game = 1 .. Len(game) /\ DOMAIN game' = 1 .. last
      /\ game'[last] = new
      /\ \A n \in 1 .. Len(game) : game'[n] = game[n]
  <2>1. game' = Append(game, new)
    BY <1>1
  <2>. HIDE DEF new
  <2>. QED
    BY <1>2, <2>1, AppendElements
<1>. HIDE DEF new
<1>. SUFFICES ASSUME NEW p \in Players
              PROVE  /\ lastDeath'[p] # Nowhere => Fits(lastDeath[p], p, 1)'
                     /\ \A n \in DOMAIN game' : (IsDeath(n) /\ game[n].player = p)' =>
                          n <= lastDeath'[p] /\ lastDeath'[p] # Nowhere
  BY DEF LastIsLast
<1>4. lastDeath \in [Players -> 0 .. Len(game)] /\ lastDeath[p] \in 0 .. Len(game)
  BY DEF TypeOK
<1>5. CASE kind = "death" /\ p = q
  <2>1. lastDeath'[p] = last
    BY <1>1, <1>4, <1>5
  <2>2. game'[last].kind = "death" /\ game'[last].player = p
    BY <1>2, <1>3, <1>5
  <2>3. last \in 1 .. last /\ last >= 1 /\ last # 0 /\ \A n \in 1 .. last : n <= last
    BY <1>3
  <2>4. Fits(lastDeath[p], p, 1)'
    BY <1>3, <2>1, <2>2, <2>3 DEF Fits, IsDeath
  <2>. QED
    BY <1>3, <2>1, <2>3, <2>4 DEF Nowhere
<1>6. CASE ~(kind = "death" /\ p = q)
  <2>1. lastDeath'[p] = lastDeath[p]
    BY <1>1, <1>4, <1>6
  <2>2. ~(game'[last].kind = "death" /\ game'[last].player = p)
    BY <1>2, <1>3, <1>6
  <2>3. lastDeath[p] # Nowhere => Fits(lastDeath[p], p, 1)
    BY DEF LastIsLast
  <2>4. lastDeath'[p] # Nowhere => Fits(lastDeath[p], p, 1)'
    BY <2>1, <2>3, FitsLater DEF Fits
  <2>5. ASSUME NEW n \in DOMAIN game', (IsDeath(n) /\ game[n].player = p)'
        PROVE  n <= lastDeath'[p] /\ lastDeath'[p] # Nowhere
    <3>1. n \in 1 .. Len(game)
      BY <1>3, <2>2, <2>5 DEF IsDeath
    <3>2. IsDeath(n) /\ game[n].player = p
      BY <1>3, <2>5, <3>1 DEF IsDeath
    <3>. QED
      BY <1>3, <2>1, <3>1, <3>2 DEF LastIsLast
  <2>. QED
    BY <2>4, <2>5
<1>. QED
  BY <1>5, <1>6

LEMMA PlaceHappens ==
  ASSUME PlaceInv, Happen
  PROVE  LastIsLast' /\ RowsKnown' /\ TasksFit' /\ PlacesBelong'
<1>1. TypeOK
  BY DEF PlaceInv, LogInv
<1>2. LastIsLast'
  BY <1>1, LastHappens DEF PlaceInv
<1>3. /\ DOMAIN game \subseteq DOMAIN game' /\ \A n \in DOMAIN game : game'[n] = game[n]
  BY <1>1, HappenKeeps
<1>4. UNCHANGED <<deaths, nextId, lookups>>
  BY DEF Happen, tables
<1>5. RowsKnown'
  BY <1>3, <1>4 DEF PlaceInv, RowsKnown, IsDeath
<1>6. TasksFit'
  <2>. SUFFICES ASSUME NEW task \in lookups
                PROVE  TaskFits(task)'
    BY <1>4 DEF TasksFit
  <2>1. TaskFits(task)
    BY DEF PlaceInv, TasksFit
  <2>. SUFFICES ASSUME NEW i \in DOMAIN deaths, deaths[i].id = task.row
                PROVE  /\ game'[deaths[i].event].player = task.player
                       /\ task.at = "found" => Fits(task.place, task.player, deaths[i].event)'
    BY <1>4, <2>1 DEF TaskFits
  <2>2. /\ deaths[i].event \in DOMAIN game
        /\ game[deaths[i].event].player = task.player
        /\ task.at = "found" => Fits(task.place, task.player, deaths[i].event)
    BY <2>1 DEF PlaceInv, RowsKnown, TaskFits
  <2>3. ASSUME Fits(task.place, task.player, deaths[i].event)
        PROVE  Fits(task.place, task.player, deaths[i].event)'
    BY <1>3, <1>4, <2>3 DEF Fits, IsDeath
  <2>. QED
    BY <1>3, <2>2, <2>3
<1>7. PlacesBelong'
  BY <1>3, <1>4 DEF PlaceInv, RowsKnown, PlacesBelong, IsDeath
<1>. QED
  BY <1>2, <1>5, <1>6, <1>7

\* Pruning keeps rows: their ids stay apart, and the last one stays.
LEMMA PrunedRows ==
  ASSUME RowsKnown, TypeOK, NEW kept, kept = Newest(deaths, DeathCap)
  PROVE  /\ DOMAIN kept = 1 .. Len(kept)
         /\ \A i \in DOMAIN kept : \E k \in DOMAIN deaths : kept[i] = deaths[k]
         /\ \A i, j \in DOMAIN kept : kept[i].id = kept[j].id => i = j
<1>1. /\ deaths \in Seq(Row) /\ DeathCap \in Nat
      /\ DOMAIN deaths = 1 .. Len(deaths) /\ Len(deaths) \in Nat
  BY CapAssumption, LenProperties DEF TypeOK
<1>2. /\ kept \in Seq(Row)
      /\ \A i \in 1 .. Len(kept) :
           /\ Len(deaths) - Len(kept) + i \in 1 .. Len(deaths)
           /\ kept[i] = deaths[Len(deaths) - Len(kept) + i]
  BY <1>1, NewestShape
<1>3. DOMAIN kept = 1 .. Len(kept) /\ Len(kept) \in Nat
  BY <1>2, LenProperties
<1>4. ASSUME NEW i \in 1 .. Len(kept), NEW j \in 1 .. Len(kept), kept[i].id = kept[j].id
      PROVE  i = j
  <2>1. /\ Len(deaths) - Len(kept) + i \in DOMAIN deaths
        /\ Len(deaths) - Len(kept) + j \in DOMAIN deaths
        /\ kept[i] = deaths[Len(deaths) - Len(kept) + i]
        /\ kept[j] = deaths[Len(deaths) - Len(kept) + j]
    BY <1>1, <1>2
  <2>2. \A a, b \in DOMAIN deaths : deaths[a].id = deaths[b].id => a = b
    BY DEF RowsKnown
  <2>3. Len(deaths) - Len(kept) + i = Len(deaths) - Len(kept) + j
    BY <1>4, <2>1, <2>2
  <2>. QED
    BY <1>1, <1>3, <2>3
<1>. QED
  BY <1>1, <1>2, <1>3, <1>4

LEMMA PlacePush ==
  ASSUME PlaceInv, Push, deaths' # deaths \/ lookups' # lookups
  PROVE  RowsKnown' /\ TasksFit' /\ PlacesBelong'
<1>0. /\ TypeOK /\ heard \in DOMAIN game /\ Len(deaths) \in Nat /\ nextId \in Nat
      /\ DOMAIN deaths = 1 .. Len(deaths)
      /\ \A i \in DOMAIN deaths : deaths[i] \in Row
  BY LenProperties, Elements DEF PlaceInv, LogInv, TypeOK, PumpKnows, Push, InsertActivity,
     InsertActivityFails, PruneActivity, PruneActivityFails, InsertDeath, InsertDeathFails,
     PruneDeaths, PruneDeathsFails
<1>1. CASE InsertDeath
  <2>. DEFINE new == [id |-> nextId, event |-> heard, place |-> Nowhere]
  <2>1. new \in Row /\ new.id = nextId /\ new.event = heard /\ new.place = Nowhere
    BY <1>0 DEF TypeOK, Row, Nowhere
  <2>2. deaths' = Append(deaths, new) /\ nextId' = nextId + 1 /\ game' = game
        /\ lookups' = lookups /\ IsDeath(heard)
    BY <1>1 DEF InsertDeath, world, PlaceInv, LogInv, PumpKnows
  <2>. HIDE DEF new
  <2>3. /\ DOMAIN deaths' = 1 .. (Len(deaths) + 1) /\ deaths'[Len(deaths) + 1] = new
        /\ \A i \in 1 .. Len(deaths) : deaths'[i] = deaths[i]
    BY <2>1, <2>2, AppendElements DEF TypeOK, PlaceInv, LogInv
  <2>4. \A i \in DOMAIN deaths' : i = Len(deaths) + 1 \/ i \in DOMAIN deaths
    BY <1>0, <2>3
  <2>5. \A i \in DOMAIN deaths : deaths[i].id \in Nat /\ deaths[i].id < nextId
                                 /\ deaths[i].id < nextId + 1 /\ deaths[i].id # nextId
    <3>1. \A i \in DOMAIN deaths : deaths[i].id \in Nat /\ deaths[i].id < nextId
      BY <1>0 DEF Row, PlaceInv, RowsKnown
    <3>. QED
      BY <1>0, <3>1
  <2>6. nextId < nextId + 1
    BY <1>0
  <2>7. RowsKnown'
    <3>1. \A i \in DOMAIN deaths' :
            /\ deaths'[i].id < nextId + 1
            /\ deaths'[i].event \in DOMAIN game /\ IsDeath(deaths'[i].event)
      BY <1>0, <2>1, <2>2, <2>3, <2>4, <2>5, <2>6 DEF PlaceInv, RowsKnown
    <3>2. \A i, j \in DOMAIN deaths' : deaths'[i].id = deaths'[j].id => i = j
      BY <1>0, <2>1, <2>3, <2>4, <2>5 DEF PlaceInv, RowsKnown
    <3>. QED
      BY <2>2, <3>1, <3>2 DEF RowsKnown, IsDeath
  <2>8. TasksFit'
    <3>. SUFFICES ASSUME NEW task \in lookups PROVE TaskFits(task)'
      BY <2>2 DEF TasksFit
    <3>1. TaskFits(task) /\ task.row \in Nat
      BY <1>0 DEF PlaceInv, TasksFit, TypeOK, Task
    <3>2. task.row < nextId + 1 /\ task.row # nextId
      BY <1>0, <3>1 DEF TaskFits
    <3>. QED
      BY <1>0, <2>1, <2>2, <2>3, <2>4, <3>1, <3>2 DEF TaskFits, Fits, IsDeath
  <2>9. PlacesBelong'
    BY <1>0, <2>1, <2>2, <2>3, <2>4 DEF PlaceInv, PlacesBelong, IsDeath
  <2>. QED
    BY <2>7, <2>8, <2>9
<1>2. CASE PruneDeaths
  <2>0. PICK new : new = [player |-> game[heard].player, row |-> LastRow.id,
                          at |-> "sleep", place |-> Nowhere]
    OBVIOUS
  <2>1. deaths' = Newest(deaths, DeathCap) /\ lookups' = lookups \cup {new}
        /\ game' = game /\ nextId' = nextId
    BY <1>2, <2>0 DEF PruneDeaths, world
  <2>2. /\ \A i \in DOMAIN deaths' : \E k \in DOMAIN deaths : deaths'[i] = deaths[k]
        /\ \A i, j \in DOMAIN deaths' : deaths'[i].id = deaths'[j].id => i = j
    BY <1>0, <2>1, PrunedRows DEF PlaceInv
  <2>3. Len(deaths) \in DOMAIN deaths /\ deaths[Len(deaths)].event = heard
    BY <1>0, <1>2, Elements DEF PruneDeaths, PlaceInv, LogInv, PumpKnows, LastRow
  <2>4. RowsKnown'
    BY <2>1, <2>2 DEF PlaceInv, RowsKnown, IsDeath
  <2>5. ASSUME NEW task \in lookups PROVE TaskFits(task)'
    BY <2>1, <2>2, <2>5 DEF PlaceInv, TasksFit, TaskFits, Fits, IsDeath
  <2>6. /\ new.row = deaths[Len(deaths)].id /\ new.player = game[heard].player
        /\ new.at # "found"
    BY <2>0 DEF LastRow
  <2>7. TaskFits(new)'
    <3>1. \A k \in DOMAIN deaths : deaths[k].id = new.row => deaths[k].event = heard
      BY <2>3, <2>6 DEF PlaceInv, RowsKnown
    <3>2. new.row < nextId
      BY <2>3, <2>6 DEF PlaceInv, RowsKnown
    <3>. QED
      BY <2>1, <2>2, <2>6, <3>1, <3>2 DEF TaskFits
  <2>8. TasksFit'
    BY <2>1, <2>5, <2>7 DEF TasksFit
  <2>9. PlacesBelong'
    BY <2>1, <2>2 DEF PlaceInv, PlacesBelong, IsDeath
  <2>. QED
    BY <2>4, <2>8, <2>9
<1>3. InsertDeath \/ PruneDeaths
  BY DEF Push, InsertActivity, InsertActivityFails, PruneActivity, PruneActivityFails,
     InsertDeathFails, PruneDeathsFails, tables
<1>. QED
  BY <1>1, <1>2, <1>3

LEMMA PlaceLookUp ==
  ASSUME PlaceInv, LookUp
  PROVE  RowsKnown' /\ TasksFit' /\ PlacesBelong'
<1>0. TypeOK /\ game' = game /\ nextId' = nextId /\ lookups \subseteq Task
  BY DEF PlaceInv, LogInv, LookUp, Ask, LookupFails, Patch, world, tables, TypeOK
<1>1. PICK task \in lookups : Ask(task) \/ LookupFails(task) \/ Patch(task)
  BY DEF LookUp
<1>2. task \in Task /\ TaskFits(task)
  BY <1>0 DEF PlaceInv, TasksFit
<1>3. CASE Ask(task)
  <2>0. PICK new : new = [task EXCEPT !.at = "found", !.place = lastDeath[task.player]]
    OBVIOUS
  <2>1. new.row = task.row /\ new.player = task.player /\ new.place = lastDeath[task.player]
        /\ task.player \in Players
    BY <1>2, <2>0 DEF Task
  <2>2. lookups' = (lookups \ {task}) \cup {new} /\ deaths' = deaths
    BY <1>3, <2>0 DEF Ask, tables
  <2>3. RowsKnown' /\ PlacesBelong'
    BY <1>0, <2>2 DEF PlaceInv, RowsKnown, PlacesBelong, IsDeath
  <2>4. TaskFits(new)'
    <3>. SUFFICES ASSUME NEW i \in DOMAIN deaths, deaths[i].id = new.row
                  PROVE  /\ game[deaths[i].event].player = new.player
                         /\ Fits(new.place, new.player, deaths[i].event)
      BY <1>0, <1>2, <2>1, <2>2 DEF TaskFits, Fits, IsDeath
    <3>1. game[deaths[i].event].player = new.player
      BY <1>2, <2>1 DEF TaskFits
    <3>2. deaths[i].event \in DOMAIN game /\ IsDeath(deaths[i].event)
      BY DEF PlaceInv, RowsKnown
    <3>3. deaths[i].event <= lastDeath[new.player] /\ lastDeath[new.player] # Nowhere
      BY <2>1, <3>1, <3>2 DEF PlaceInv, LastIsLast
    <3>4. Fits(lastDeath[new.player], new.player, 1)
      BY <2>1, <3>3 DEF PlaceInv, LastIsLast
    <3>5. deaths[i].event \in Nat /\ lastDeath[new.player] \in Nat
      BY <1>0, <2>1, Elements DEF TypeOK
    <3>6. lastDeath[new.player] >= deaths[i].event
      BY <3>3, <3>5
    <3>. QED
      BY <2>1, <3>1, <3>4, <3>6 DEF Fits
  <2>5. \A t \in lookups : TaskFits(t)'
    BY <1>0, <2>2 DEF PlaceInv, TasksFit, TaskFits, Fits, IsDeath
  <2>. QED
    BY <2>2, <2>3, <2>4, <2>5 DEF TasksFit
<1>4. CASE LookupFails(task)
  <2>1. deaths' = deaths /\ lookups' \subseteq lookups
    BY <1>4 DEF LookupFails, tables
  <2>. QED
    BY <1>0, <2>1 DEF PlaceInv, RowsKnown, TasksFit, TaskFits, PlacesBelong, Fits, IsDeath
<1>5. CASE Patch(task)
  <2>1. task.at = "found" /\ lookups' = lookups \ {task}
    BY <1>5 DEF Patch
  <2>2. /\ DOMAIN deaths' = DOMAIN deaths
        /\ \A i \in DOMAIN deaths :
             /\ deaths'[i].event = deaths[i].event /\ deaths'[i].id = deaths[i].id
             /\ deaths'[i].place = IF deaths[i].id = task.row THEN task.place
                                                              ELSE deaths[i].place
    BY <1>0, <1>5, PatchShape
  <2>3. RowsKnown'
    BY <1>0, <2>2 DEF PlaceInv, RowsKnown, IsDeath
  <2>4. TasksFit'
    <3>. SUFFICES ASSUME NEW t \in lookups PROVE TaskFits(t)'
      BY <2>1 DEF TasksFit
    <3>1. TaskFits(t)
      BY DEF PlaceInv, TasksFit
    <3>. QED
      BY <1>0, <2>2, <3>1 DEF TaskFits, Fits, IsDeath
  <2>5. PlacesBelong'
    <3>. SUFFICES ASSUME NEW i \in DOMAIN deaths, deaths'[i].place # Nowhere
                  PROVE  Fits(deaths'[i].place, game[deaths[i].event].player, deaths[i].event)
      BY <1>0, <2>2 DEF PlacesBelong, Fits, IsDeath
    <3>1. CASE deaths[i].id = task.row
      BY <1>2, <2>1, <2>2, <3>1 DEF TaskFits
    <3>2. CASE deaths[i].id # task.row
      BY <2>2, <3>2 DEF PlaceInv, PlacesBelong, Fits
    <3>. QED
      BY <3>1, <3>2
  <2>. QED
    BY <2>3, <2>4, <2>5
<1>. QED
  BY <1>1, <1>3, <1>4, <1>5

LEMMA PlaceStep ==
  ASSUME PlaceInv, [Next]_vars
  PROVE  PlaceInv'
<1>1. LogInv'
  BY LogStep DEF PlaceInv
<1>2. CASE Happen
  BY <1>1, <1>2, PlaceHappens DEF PlaceInv
<1>3. ~Happen => world' = world
  BY DEF Next, Hear, Push, InsertActivity, InsertActivityFails, PruneActivity,
     PruneActivityFails, InsertDeath, InsertDeathFails, PruneDeaths, PruneDeathsFails,
     LookUp, Ask, LookupFails, Patch, ClearActivity, Crash, vars, world
<1>4. ASSUME world' = world
      PROVE  LastIsLast'
  BY <1>4 DEF PlaceInv, LastIsLast, Fits, IsDeath, world
<1>5. ASSUME world' = world, deaths' = deaths, nextId' = nextId, lookups' \subseteq lookups
      PROVE  RowsKnown' /\ TasksFit' /\ PlacesBelong'
  BY <1>5 DEF PlaceInv, RowsKnown, TasksFit, TaskFits, PlacesBelong, Fits, IsDeath, world
<1>6. CASE Push /\ (deaths' # deaths \/ lookups' # lookups)
  <2>1. world' = world
    BY <1>6 DEF Push, InsertActivity, InsertActivityFails, PruneActivity, PruneActivityFails,
       InsertDeath, InsertDeathFails, PruneDeaths, PruneDeathsFails
  <2>. QED
    BY <1>1, <1>4, <1>6, <2>1, PlacePush DEF PlaceInv
<1>7. CASE LookUp
  <2>1. world' = world
    BY <1>7 DEF LookUp, Ask, LookupFails, Patch
  <2>. QED
    BY <1>1, <1>4, <1>7, <2>1, PlaceLookUp DEF PlaceInv
<1>8. CASE Hear \/ ClearActivity \/ Crash \/ UNCHANGED vars
           \/ (Push /\ deaths' = deaths /\ lookups' = lookups)
  <2>1. world' = world /\ deaths' = deaths /\ nextId' = nextId /\ lookups' \subseteq lookups
    BY <1>8 DEF Hear, ClearActivity, Crash, Push, InsertActivity, InsertActivityFails,
       PruneActivity, PruneActivityFails, InsertDeath, InsertDeathFails, PruneDeaths,
       PruneDeathsFails, vars, world, tables
  <2>. QED
    BY <1>1, <1>4, <1>5, <2>1 DEF PlaceInv
<1>. QED
  BY <1>2, <1>6, <1>7, <1>8 DEF Next

\* Whatever deaths, lookups and prunings interleave, for any number of players
\* and any cap, a row's place is where its player died, then or later.
THEOREM PlacesCorrect == Spec => []PlacesBelong
<1>1. PlaceInv => PlacesBelong
  BY DEF PlaceInv
<1>2. PlaceInv /\ [Next]_vars => PlaceInv'
  BY PlaceStep
<1>. QED
  BY <1>1, <1>2, PlaceInit, PTL DEF Spec

-----------------------------------------------------------------------------
(* No row is forgotten *)

\* A row is dealt with: it has its place, or gave it up, or is being looked up.
Remembered(row) ==
  \/ row.place # Nowhere \/ row.id \in excused
  \/ \E task \in lookups : task.row = row.id

LEMMA ForgottenStep ==
  ASSUME PlaceInv, NoRowForgotten, [Next]_vars
  PROVE  NoRowForgotten'
<1>0. /\ TypeOK /\ Len(deaths) \in Nat /\ DOMAIN deaths = 1 .. Len(deaths)
      /\ \A i \in DOMAIN deaths : deaths[i] \in Row
  BY LenProperties, Elements DEF PlaceInv, LogInv, TypeOK
<1>1. \A i \in DOMAIN deaths :
        Remembered(deaths[i]) \/ (pump = "trimdeath" /\ i = Len(deaths))
  BY DEF NoRowForgotten, Remembered
<1>2. SUFFICES \A i \in DOMAIN deaths' :
                 Remembered(deaths[i])' \/ (pump' = "trimdeath" /\ i = Len(deaths'))
  BY DEF NoRowForgotten, Remembered
<1>3. CASE InsertDeath
  <2>. DEFINE new == [id |-> nextId, event |-> heard, place |-> Nowhere]
  <2>1. new \in Row
    BY <1>0, Elements DEF TypeOK, Row, Nowhere
  <2>2. deaths' = Append(deaths, new) /\ pump' = "trimdeath" /\ pump = "death"
        /\ lookups' = lookups /\ excused' = excused
    BY <1>3 DEF InsertDeath, Goto
  <2>. HIDE DEF new
  <2>3. /\ DOMAIN deaths' = 1 .. (Len(deaths) + 1) /\ Len(deaths') = Len(deaths) + 1
        /\ \A i \in 1 .. Len(deaths) : deaths'[i] = deaths[i]
    BY <2>1, <2>2, AppendElements DEF TypeOK, PlaceInv, LogInv
  <2>4. \A i \in DOMAIN deaths' : i = Len(deaths') \/ i \in DOMAIN deaths
    BY <1>0, <2>3
  <2>. QED
    BY <1>0, <1>1, <2>2, <2>3, <2>4 DEF Remembered
<1>4. CASE PruneDeaths
  <2>1. PICK new : new = [player |-> game[heard].player, row |-> LastRow.id,
                          at |-> "sleep", place |-> Nowhere]
    OBVIOUS
  <2>2. deaths' = Newest(deaths, DeathCap) /\ lookups' = lookups \cup {new}
        /\ excused' = excused
    BY <1>4, <2>1 DEF PruneDeaths
  <2>3. /\ deaths' = Newest(deaths, DeathCap) /\ lookups \subseteq lookups'
        /\ excused' = excused
        /\ \E task \in lookups' : task.row = deaths[Len(deaths)].id
    BY <2>1, <2>2 DEF LastRow
  <2>4. \A i \in DOMAIN deaths' : \E k \in DOMAIN deaths : deaths'[i] = deaths[k]
    BY <1>0, <2>3, PrunedRows DEF PlaceInv
  <2>. QED
    BY <1>1, <2>3, <2>4 DEF Remembered
<1>5. CASE LookUp
  <2>1. PICK task \in lookups : Ask(task) \/ LookupFails(task) \/ Patch(task)
    BY <1>5 DEF LookUp
  <2>2. task \in Task /\ TaskFits(task) /\ pump' = pump
    BY <1>0, <2>1 DEF TypeOK, PlaceInv, TasksFit, Ask, LookupFails, Patch
  <2>3. CASE Ask(task)
    <3>0. PICK new : new = [task EXCEPT !.at = "found", !.place = lastDeath[task.player]]
      OBVIOUS
    <3>1. lookups' = (lookups \ {task}) \cup {new} /\ deaths' = deaths /\ excused' = excused
      BY <2>3, <3>0 DEF Ask, tables
    <3>2. new.row = task.row
      BY <2>2, <3>0 DEF Task
    <3>. QED
      BY <1>1, <2>2, <3>1, <3>2 DEF Remembered
  <2>4. CASE LookupFails(task)
    <3>1. deaths' = deaths /\ lookups' = lookups \ {task} /\ excused' = excused \cup {task.row}
      BY <2>4 DEF LookupFails, tables
    <3>. QED
      BY <1>1, <2>2, <3>1 DEF Remembered
  <2>5. CASE Patch(task)
    <3>1. /\ DOMAIN deaths' = DOMAIN deaths /\ Len(deaths') = Len(deaths)
          /\ \A i \in DOMAIN deaths :
               /\ deaths'[i].id = deaths[i].id
               /\ deaths'[i].place = IF deaths[i].id = task.row THEN task.place
                                                                ELSE deaths[i].place
      BY <1>0, <2>5, PatchShape
    <3>2. lookups' = lookups \ {task} /\ excused' = excused /\ task.at = "found"
      BY <2>5 DEF Patch
    <3>3. \A i \in DOMAIN deaths : deaths[i].id = task.row => task.place # Nowhere
      <4>1. Len(game) \in Nat /\ DOMAIN game = 1 .. Len(game)
        BY <1>0, Elements
      <4>. QED
        BY <2>2, <3>2, <4>1 DEF TaskFits, Fits, Nowhere
    <3>. QED
      BY <1>1, <2>2, <3>1, <3>2, <3>3 DEF Remembered
  <2>. QED
    BY <2>1, <2>3, <2>4, <2>5
<1>6. CASE PruneDeathsFails
  <2>1. deaths' = deaths /\ lookups' = lookups
        /\ excused' = excused \cup {deaths[Len(deaths)].id}
    BY <1>6 DEF PruneDeathsFails, tables, LastRow
  <2>. QED
    BY <1>1, <2>1 DEF Remembered
<1>7. CASE Crash
  <2>1. /\ deaths' = deaths /\ excused \subseteq excused'
        /\ \A task \in lookups : task.row \in excused'
        /\ pump = "trimdeath" => deaths[Len(deaths)].id \in excused'
    BY <1>7 DEF Crash, tables, LastRow
  <2>. QED
    BY <1>1, <2>1 DEF Remembered
<1>8. CASE /\ deaths' = deaths /\ lookups' = lookups /\ excused' = excused
           /\ pump = "trimdeath" => pump' = "trimdeath"
  BY <1>1, <1>8 DEF Remembered
<1>9. \/ InsertDeath \/ PruneDeaths \/ LookUp \/ PruneDeathsFails \/ Crash
      \/ /\ deaths' = deaths /\ lookups' = lookups /\ excused' = excused
         /\ pump = "trimdeath" => pump' = "trimdeath"
  BY DEF Next, Happen, Hear, Push, InsertActivity, InsertActivityFails, PruneActivity,
     PruneActivityFails, InsertDeathFails, ClearActivity, vars, tables, Goto, AfterActivity
<1>. QED
  BY <1>3, <1>4, <1>5, <1>6, <1>7, <1>8, <1>9

\* A row without a place is one whose lookup runs, or went wrong: never one that
\* slipped through.
THEOREM RowsRemembered == Spec => []NoRowForgotten
<1>1. Init => NoRowForgotten
  BY DEF Init, NoRowForgotten
<1>2. PlaceInv /\ NoRowForgotten /\ [Next]_vars => PlaceInv' /\ NoRowForgotten'
  BY PlaceStep, ForgottenStep
<1>. QED
  BY <1>1, <1>2, PlaceInit, PTL DEF Spec

=============================================================================
