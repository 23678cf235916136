-------------------------- MODULE MCServerRegistry --------------------------
(* ServerRegistry on one server and two or three requests at a time.       *)
EXTENDS ServerRegistry, TLC

CONSTANTS s1, s2, h1, h2, h3, hourly, nightly   \* model values for the cfg files

\* Slots and servers are interchangeable, and so are backup schedules.
Interchangeable ==
  Permutations(Slots) \cup Permutations(Servers) \cup Permutations(Configs)
=============================================================================
