--------------------------- MODULE MCGatewayDaemon ---------------------------
(* Instances of GatewayDaemon for TLC. *)
EXTENDS GatewayDaemon

\* A flag that the main loop comes to before quit, and one that it comes to
\* after it; SIGTERM sets quit itself.
FirstFlag == {"command"}
LastFlag == {"quitServer"}

==============================================================================
