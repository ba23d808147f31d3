--------------------------- MODULE MCStorageCycle ---------------------------
(* StorageCycle on a short interval and two firmware versions. *)
EXTENDS StorageCycle

MCFirmware == 1..2
=============================================================================
