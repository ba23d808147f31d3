-------------------------- MODULE MCWaterTankLogic --------------------------
(* WaterTankLogicHistory on the levels of a small tank. *)
EXTENDS WaterTankLogicHistory

\* Empty, and four levels whose distances lie on both sides of the smallest
\* change the logic reports (5 permille).
MCLevels == {0, 100, 104, 105, 110}
=============================================================================
