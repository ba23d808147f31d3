--------------------------- MODULE MCWaterTankApp ---------------------------
(* WaterTankApp with a short commit interval and two firmware versions. *)
EXTENDS WaterTankApp

MCFirmware == 1..2
=============================================================================
