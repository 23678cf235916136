---------------------------- MODULE ActivityLog ----------------------------
(***************************************************************************)
(* The activity and death log: what push_inner (src/logbuffer.rs) does     *)
(* with a line that is a player event, the tables player_activity and      *)
(* player_deaths (src/db.rs), and the task that looks up where a player    *)
(* died, 800 ms after the line was read.                                   *)
(*                                                                         *)
(*   pump     idle -> activity -> trim (-> death -> trimdeath) -> idle     *)
(*   lookup   sleep -> found, or the end                                   *)
(*                                                                         *)
(* An append is an INSERT and a pruning DELETE under one lock of the       *)
(* connection, which SQLite commits one by one.  Each server has one pump, *)
(* which reads the lines of its game in order and may miss some (LogPump). *)
(* Events are numbered by the game; a death's place is known by the number *)
(* of the death.  parse_activity tells a player's death from what is only  *)
(* activity: join, leave and the death of a villager.                      *)
(***************************************************************************)
EXTENDS Integers, Sequences

CONSTANTS
  Players,
  ActivityCap,  \* MAX_ACTIVITY_ROWS
  DeathCap,     \* MAX_DEATH_ROWS
  Faults,       \* what may go wrong, a subset of FaultKinds
  EventBound    \* bound: a game has no more events than this

FaultKinds == {"statement", "command", "crash"}

ASSUME CapAssumption    == ActivityCap \in Nat \ {0} /\ DeathCap \in Nat \ {0}
ASSUME FaultsAssumption == Faults \subseteq FaultKinds
ASSUME BoundAssumption  == EventBound \in Nat

VARIABLES
  game,      \* the events of the game, in order
  lastDeath, \* what LastDeathLocation of each player is in the game
  heard,     \* the number of the last event the pump has read
  pump,      \* where the pump is
  activity,  \* the rows of player_activity: numbers of events
  deaths,    \* the rows of player_deaths
  nextId,    \* AUTOINCREMENT of player_deaths
  lookups,   \* the tasks that look up a place
  excused    \* history: ids of rows whose lookup failed or was never begun

tables == <<activity, deaths, nextId>>
world  == <<game, lastDeath>>
vars   == <<game, lastDeath, heard, pump, activity, deaths, nextId, lookups, excused>>

-----------------------------------------------------------------------------
Nowhere == 0   \* NULL in dim and coords

Row == [id : Nat, event : Nat, place : Nat]
Task == [player : Players, row : Nat,
         at : {"sleep", "found"}, place : Nat]

IsDeath(n) == game[n].kind = "death"

Newest(rows, n) == SubSeq(rows, IF Len(rows) > n THEN Len(rows) - n + 1 ELSE 1, Len(rows))

\* No append is between its two statements.
DbFree == pump \notin {"trim", "trimdeath"}

Goto(label) == pump' = label

\* After activity_append: only a death goes into the other table.
AfterActivity == Goto(IF IsDeath(heard) THEN "death" ELSE "idle")

\* The row appended last.
LastRow == deaths[Len(deaths)]

-----------------------------------------------------------------------------
(* Variants of the definitions below that each contain a mistake the code   *)
(* could contain.  No action uses them: they stand in for the definition of *)
(* the same first name when a property is tested against that mistake.      *)

\* Rows are pruned by the other table's cap.
PruneActivityByDeathCap ==
  /\ pump = "trim"
  /\ activity' = Newest(activity, DeathCap)
  /\ AfterActivity
  /\ UNCHANGED <<world, heard, deaths, nextId, lookups, excused>>

\* The rows are kept, and the new one given up, when the table is full.
PruneDeathsNewest ==
  /\ pump = "trimdeath"
  /\ deaths' = SubSeq(deaths, 1, IF Len(deaths) > DeathCap THEN DeathCap ELSE Len(deaths))
  /\ lookups' = lookups \cup
       {[player |-> game[heard].player, row |-> LastRow.id,
         at |-> "sleep", place |-> Nowhere]}
  /\ Goto("idle")
  /\ UNCHANGED <<world, heard, activity, nextId, excused>>

\* The row is found by the newest of the table instead of by its id.
PatchNewest(task) ==
  /\ task \in lookups /\ task.at = "found" /\ DbFree
  /\ deaths' = [i \in DOMAIN deaths |->
                  IF i = Len(deaths) THEN [deaths[i] EXCEPT !.place = task.place]
                  ELSE deaths[i]]
  /\ lookups' = lookups \ {task}
  /\ UNCHANGED <<world, heard, pump, activity, nextId, excused>>

\* One lookup per player is thought to be enough.
PruneDeathsOneLookup ==
  /\ pump = "trimdeath"
  /\ deaths' = Newest(deaths, DeathCap)
  /\ lookups' =
       IF \E task \in lookups : task.player = game[heard].player THEN lookups
       ELSE lookups \cup
         {[player |-> game[heard].player, row |-> LastRow.id,
           at |-> "sleep", place |-> Nowhere]}
  /\ Goto("idle")
  /\ UNCHANGED <<world, heard, activity, nextId, excused>>

\* A row that cannot be inserted stops the pump.
InsertDeathFailsForGood ==
  /\ "statement" \in Faults
  /\ pump = "death" /\ DbFree
  /\ Goto("ended")
  /\ UNCHANGED <<world, heard, tables, lookups, excused>>

\* A lookup that fails is begun again.
LookupFailsAndRetries(task) ==
  /\ task \in lookups
  /\ \/ task.at = "sleep" /\ "command" \in Faults
     \/ task.at = "found" /\ "statement" \in Faults /\ DbFree
  /\ lookups' = (lookups \ {task}) \cup {[task EXCEPT !.at = "sleep", !.place = Nowhere]}
  /\ UNCHANGED <<world, heard, pump, tables, excused>>

-----------------------------------------------------------------------------
Init ==
  /\ game = <<>>
  /\ lastDeath = [p \in Players |-> Nowhere]
  /\ heard = 0
  /\ pump = "idle"
  /\ activity = <<>>
  /\ deaths = <<>>
  /\ nextId = 1
  /\ lookups = {}
  /\ excused = {}

\* The game goes on, whatever the panel does.
Happen ==
  /\ Len(game) < EventBound
  /\ \E p \in Players, kind \in {"join", "death"} :
       /\ game' = Append(game, [player |-> p, kind |-> kind])
       /\ lastDeath' = IF kind = "death" THEN [lastDeath EXCEPT ![p] = Len(game) + 1]
                                        ELSE lastDeath
  /\ UNCHANGED <<heard, pump, tables, lookups, excused>>

\* The pump pushes the line of a later event, which parse_activity recognises.
Hear ==
  /\ pump = "idle"
  /\ \E n \in heard + 1 .. Len(game) : heard' = n
  /\ Goto("activity")
  /\ UNCHANGED <<world, tables, lookups, excused>>

-----------------------------------------------------------------------------
\* activity_append: INSERT, then DELETE.  Failing, it is logged and no more.
InsertActivity ==
  /\ pump = "activity" /\ DbFree
  /\ activity' = Append(activity, heard)
  /\ Goto("trim")
  /\ UNCHANGED <<world, heard, deaths, nextId, lookups, excused>>

InsertActivityFails ==
  /\ "statement" \in Faults
  /\ pump = "activity" /\ DbFree
  /\ AfterActivity
  /\ UNCHANGED <<world, heard, tables, lookups, excused>>

PruneActivity ==
  /\ pump = "trim"
  /\ activity' = Newest(activity, ActivityCap)
  /\ AfterActivity
  /\ UNCHANGED <<world, heard, deaths, nextId, lookups, excused>>

PruneActivityFails ==
  /\ "statement" \in Faults
  /\ pump = "trim"
  /\ AfterActivity
  /\ UNCHANGED <<world, heard, tables, lookups, excused>>

\* death_log_append: INSERT, then DELETE; the task is spawned when both are done.
InsertDeath ==
  /\ pump = "death" /\ DbFree
  /\ deaths' = Append(deaths, [id |-> nextId, event |-> heard, place |-> Nowhere])
  /\ nextId' = nextId + 1
  /\ Goto("trimdeath")
  /\ UNCHANGED <<world, heard, activity, lookups, excused>>

InsertDeathFails ==
  /\ "statement" \in Faults
  /\ pump = "death" /\ DbFree
  /\ Goto("idle")
  /\ UNCHANGED <<world, heard, tables, lookups, excused>>

PruneDeaths ==
  /\ pump = "trimdeath"
  /\ deaths' = Newest(deaths, DeathCap)
  /\ lookups' = lookups \cup
       {[player |-> game[heard].player, row |-> LastRow.id,
         at |-> "sleep", place |-> Nowhere]}
  /\ Goto("idle")
  /\ UNCHANGED <<world, heard, activity, nextId, excused>>

PruneDeathsFails ==
  /\ "statement" \in Faults
  /\ pump = "trimdeath"
  /\ excused' = excused \cup {LastRow.id}
  /\ Goto("idle")
  /\ UNCHANGED <<world, heard, tables, lookups>>

-----------------------------------------------------------------------------
\* After 800 ms the game is asked where the player died, by name.
Ask(task) ==
  /\ task \in lookups /\ task.at = "sleep"
  /\ lookups' = (lookups \ {task}) \cup
       {[task EXCEPT !.at = "found", !.place = lastDeath[task.player]]}
  /\ UNCHANGED <<world, heard, pump, tables, excused>>

\* The command fails, its answer has neither coordinates nor a dimension, or
\* the UPDATE fails.
LookupFails(task) ==
  /\ task \in lookups
  /\ \/ task.at = "sleep" /\ "command" \in Faults
     \/ task.at = "found" /\ "statement" \in Faults /\ DbFree
  /\ lookups' = lookups \ {task}
  /\ excused' = excused \cup {task.row}
  /\ UNCHANGED <<world, heard, pump, tables>>

\* death_log_update_coords: nothing if the row has been pruned since.
Patch(task) ==
  /\ task \in lookups /\ task.at = "found" /\ DbFree
  /\ deaths' = [i \in DOMAIN deaths |->
                  IF deaths[i].id = task.row THEN [deaths[i] EXCEPT !.place = task.place]
                  ELSE deaths[i]]
  /\ lookups' = lookups \ {task}
  /\ UNCHANGED <<world, heard, pump, activity, nextId, excused>>

\* The activity_clear handler; deaths stay.
ClearActivity ==
  /\ DbFree /\ activity # <<>>
  /\ activity' = <<>>
  /\ UNCHANGED <<world, heard, pump, deaths, nextId, lookups, excused>>

\* The panel dies, at any step, and with it every task; it starts again.
Crash ==
  /\ "crash" \in Faults
  /\ pump' = "idle"
  /\ lookups' = {}
  /\ excused' = excused \cup {task.row : task \in lookups}
                        \cup (IF pump = "trimdeath" THEN {LastRow.id} ELSE {})
  /\ UNCHANGED <<world, heard, tables>>

-----------------------------------------------------------------------------
Push ==
  \/ InsertActivity \/ InsertActivityFails
  \/ PruneActivity \/ PruneActivityFails
  \/ InsertDeath \/ InsertDeathFails
  \/ PruneDeaths \/ PruneDeathsFails

LookUp == \E task \in lookups : Ask(task) \/ LookupFails(task) \/ Patch(task)

Next ==
  \/ Happen \/ Hear \/ Push \/ ClearActivity
  \/ LookUp
  \/ Crash

Spec == Init /\ [][Next]_vars

\* A push runs to its end and a task is polled until it is done: tokio goes on
\* with both.  Nothing is assumed of the game, the pump or the panel.
FairSpec == Spec /\ WF_vars(Push) /\ WF_vars(LookUp)

-----------------------------------------------------------------------------
\* Every variable has its type, and rows are about events of the game.
TypeOK ==
  /\ game \in Seq([player : Players, kind : {"join", "death"}])
  /\ lastDeath \in [Players -> 0 .. Len(game)]
  /\ heard \in 0 .. Len(game)
  /\ pump \in {"idle", "activity", "trim", "death", "trimdeath"}
  /\ activity \in Seq(Nat)
  /\ deaths \in Seq(Row)
  /\ nextId \in Nat
  /\ lookups \subseteq Task
  /\ excused \subseteq Nat

\* Either table, read up to its cap, is the log its comments promise, whatever
\* statements fail and whenever the panel dies: events come in order and once,
\* the newest stay, and no event is lost but to a newer one or to a clear.
Activity == INSTANCE CappedLog WITH
  log <- Newest(activity, ActivityCap), Cap <- ActivityCap, Wipes <- TRUE

DeathEvents == [i \in DOMAIN deaths |-> deaths[i].event]

Deaths == INSTANCE CappedLog WITH
  log <- Newest(DeathEvents, DeathCap), Cap <- DeathCap, Wipes <- FALSE

ActivityIsCappedLog == Activity!Spec
DeathsAreCappedLog  == Deaths!Spec

\* However deaths, tasks and prunings interleave, the place in a row is where
\* the player of that row died, then or later: never another player's, never
\* that of an earlier death.
PlacesBelong ==
  \A i \in DOMAIN deaths :
    LET row == deaths[i] IN
    row.place # Nowhere =>
      /\ row.place \in DOMAIN game /\ row.place >= row.event
      /\ IsDeath(row.place)
      /\ game[row.place].player = game[row.event].player

\* A row without a place has a task that will look it up, unless the lookup
\* failed or could not be begun.
NoRowForgotten ==
  \A i \in DOMAIN deaths :
    LET row == deaths[i] IN
    \/ row.place # Nowhere \/ row.id \in excused
    \/ \E task \in lookups : task.row = row.id
    \/ pump = "trimdeath" /\ i = Len(deaths)

\* An event that a pump has read is dealt with in the end, and so is the place
\* of a death: the panel comes to rest.
ComesToRest ==
  (pump = "activity") ~> (pump = "idle" /\ lookups = {})

=============================================================================
