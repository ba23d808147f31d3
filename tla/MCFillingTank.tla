--------------------------- MODULE MCFillingTank ---------------------------
(* FillingTank at the bottom of the tank, with the slowest flow seen. *)
EXTENDS FillingTank

MCStretches == {<<0, 60>>, <<1350, 1410>>}
MCLevels    == 0..1000
MCSpikes    == {-74, 6, 74}
MCReadings  == {"OK", "WEAK_SIGNAL", "TIMEOUT"}
=============================================================================
