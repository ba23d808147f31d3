--------------------------- MODULE MCOtaController ---------------------------
(* OtaController with a watchdog of six polls. *)
EXTENDS OtaController

MCTimeoutMs == 3000
MCPollMs == 500
=============================================================================
