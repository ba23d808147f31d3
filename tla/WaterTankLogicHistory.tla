------------------------ MODULE WaterTankLogicHistory ------------------------
(***************************************************************************)
(* WaterTankLogic with the history its promises are about: the readings a  *)
(* mode change or a trend change rests on.  The history variables only     *)
(* record; they never constrain the logic.                                 *)
(***************************************************************************)
EXTENDS WaterTankLogic

VARIABLES
  streak,    \* run of equal raw directions, as in FillTrend
  opposed    \* readings against the current mode since it was entered, up to 2

hvars == <<vars, streak, opposed>>

Trend == INSTANCE FillTrend WITH
           Still <- "STABLE", NoTrend <- "UNKNOWN", trend <- fill_state

\* OK readings speak against the backup mode, failed ones against leaving it
\* off; a weak reading speaks for neither.
Opposes(result) ==
  IF backup_mode_active THEN result = "OK" ELSE result \notin Successes

RecordTrend(result, level) ==
  IF result \notin Successes
  THEN UNCHANGED streak
  ELSE streak' = IF last_level_permille = 0 THEN Trend!NoStreak
                 ELSE Trend!Extended(streak,
                        RawDirection(level, last_level_permille))

RecordMode(result) ==
  opposed' = IF backup_mode_active' # backup_mode_active THEN 0
             ELSE IF Opposes(result) /\ opposed < 2 THEN opposed + 1
             ELSE opposed

HInit ==
  /\ Init
  /\ streak = Trend!NoStreak
  /\ opposed = 0

HMeasure(result, level) ==
  /\ Measure(result, level)
  /\ RecordTrend(result, level)
  /\ RecordMode(result)

HNext == \E result \in UsResults, level \in Levels : HMeasure(result, level)

HSpec == HInit /\ [][HNext]_hvars

-----------------------------------------------------------------------------
\* Types of the logic and of the recorded history.
HTypeOK ==
  /\ TypeOK
  /\ streak \in [dir : FillStates, len : 0..Confirmations]
  /\ opposed \in 0..2

\* update_fill_state, with its pending trend and its counter, behaves as
\* FillTrend: the trend follows the last Confirmations samples, no sample is
\* counted twice and none is forgotten by a change of direction.
ImplementsFillTrend == Trend!Spec

\* How the window and the samples behind it relate: what is pending is what
\* the last pending_state_count samples showed, and the last sample before an
\* empty window agreed with the trend.
WindowMatchesSamples ==
  IF pending_state_count = 0
  THEN streak.len > 0 => streak.dir = fill_state
  ELSE streak = [dir |-> pending_fill_state, len |-> pending_state_count]

\* The mode does not flap: update_operation_mode leaves or re-enters the
\* backup mode only after two readings, since the last change, that speak
\* against the current mode.
TwoReadingsPerModeChange ==
  [][backup_mode_active' # backup_mode_active
       => opposed >= 1 /\ Opposes(last_result')]_hvars

\* FILL_STATE_CONFIRMATIONS_REQUIRED, water_tank_types.hpp line 22:
\* "Consecutive samples needed to confirm FillState transition".
ConfirmsEveryTransition ==
  [][(fill_state \in Directions /\ fill_state' # fill_state)
       => (streak'.dir = fill_state' /\ streak'.len = Confirmations)]_hvars
=============================================================================
