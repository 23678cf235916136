--------------------------- MODULE MCActivityLog ---------------------------
(* ActivityLog with two players and tables of one or two rows.             *)
EXTENDS ActivityLog, TLC

CONSTANTS steve, alex   \* model values for the cfg files
=============================================================================
