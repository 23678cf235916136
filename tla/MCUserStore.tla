---------------------------- MODULE MCUserStore ----------------------------
(* UserStore on two usernames and at most two requests at a time.         *)
EXTENDS UserStore, TLC

CONSTANTS t1, t2, a, b, p, q, all, some   \* model values for the cfg files

\* Requests, usernames and passwords are interchangeable.
Interchangeable ==
  Permutations(Threads) \cup Permutations(Names) \cup Permutations(Passwords)
=============================================================================
