--------------------------- MODULE MCPanelStartup ---------------------------
(* PanelStartup, which has no constants but a bound.                       *)
EXTENDS PanelStartup
=============================================================================
