----------------------------- MODULE MCLogPump -----------------------------
(* LogPump with at most two requests at a time.                           *)
EXTENDS LogPump, TLC

CONSTANTS h1, h2   \* model values for the cfg files

\* Requests are interchangeable.
Interchangeable == Permutations(Handlers)
=============================================================================
