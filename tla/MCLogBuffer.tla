---------------------------- MODULE MCLogBuffer ----------------------------
(* LogBuffer on small sets of threads, connections and texts.             *)
EXTENDS LogBuffer, TLC

CONSTANTS t1, t2, c1, x, y   \* model values for the cfg files

\* Threads are interchangeable, and so are texts.
ThreadsAndTexts == Permutations(Threads) \cup Permutations(Texts)
=============================================================================
