----------------------------- MODULE CappedLog -----------------------------
(***************************************************************************)
(* What the tables of player events promise to a reader (the comments on   *)
(* player_activity and player_deaths in src/db.rs), and the console buffer *)
(* in memory (src/logbuffer.rs): a log in the order things happened, of    *)
(* which the newest Cap are kept, and that nothing but a clear empties.    *)
(***************************************************************************)
EXTENDS Integers, Sequences

CONSTANTS
  Cap,     \* MAX_ACTIVITY_ROWS, MAX_DEATH_ROWS, MAX_LINES
  Wipes    \* whether the log can be cleared

VARIABLE log   \* the numbers of the events kept, oldest first

Newest(rows, n) == SubSeq(rows, IF Len(rows) > n THEN Len(rows) - n + 1 ELSE 1, Len(rows))

Init == log = <<>>

\* An event later than those recorded; the oldest makes room for it.
Add ==
  /\ log' # <<>>
  /\ LET event == log'[Len(log')] IN
       /\ event \in Nat
       /\ \A i \in DOMAIN log : log[i] < event
       /\ log' = Newest(Append(log, event), Cap)

Wipe == Wipes /\ log' = <<>>

Next == Add \/ Wipe

Spec == Init /\ [][Next]_log
=============================================================================
