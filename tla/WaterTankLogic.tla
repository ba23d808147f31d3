--------------------------- MODULE WaterTankLogic ---------------------------
(***************************************************************************)
(* The domain logic of the tank node, main/src/water_tank_logic.cpp.       *)
(*                                                                         *)
(* Each wake-up takes one ultrasonic reading and folds it into the         *)
(* statistics that survive deep sleep (struct WaterTankStats): the trend   *)
(* of the level (fill_state, behind a confirmation window) and the backup  *)
(* mode (behind a leaky counter of failed readings).  From the two the     *)
(* node computes how long it sleeps.                                       *)
(*                                                                         *)
(* A level stands for what TankGeometry makes of the measured distance, so *)
(* last_distance_cm is left out, and level_permille, which                 *)
(* process_reading makes equal to last_level_permille, is left out too.    *)
(* Times are in seconds: every product the code computes in microseconds   *)
(* and float is a whole number of seconds.                                 *)
(***************************************************************************)
EXTENDS Integers

CONSTANTS
  Levels,                \* the permille values a successful reading may give
  LevelDeltaMin,         \* LEVEL_DELTA_MIN
  Confirmations,         \* FILL_STATE_CONFIRMATIONS_REQUIRED
  FailuresThreshold      \* CONSECUTIVE_FAILURES_THRESHOLD

ASSUME LevelsAssumption == Levels \subseteq Nat
ASSUME LevelDeltaMinAssumption == LevelDeltaMin \in Nat
\* The first sample of a new direction only opens the window (line 145), so
\* the code never confirms on fewer than two.
ASSUME ConfirmationsAssumption == Confirmations \in Nat /\ Confirmations >= 2
\* The exit threshold is two below it in a uint8_t.
ASSUME FailuresThresholdAssumption ==
         FailuresThreshold \in Nat /\ FailuresThreshold >= 2

VARIABLES
  last_result,           \* UsResult of the last reading
  last_level_permille,   \* level of the last successful reading, 0 before any
  fill_state,            \* the confirmed trend
  pending_fill_state,    \* the trend waiting for confirmation, or UNKNOWN
  pending_state_count,   \* samples that support it
  backup_mode_active,
  consecutive_failures

trendVars == <<last_level_permille, fill_state, pending_fill_state,
               pending_state_count>>
modeVars  == <<backup_mode_active, consecutive_failures>>
vars      == <<last_result, trendVars, modeVars>>

-----------------------------------------------------------------------------
Successes  == {"OK", "WEAK_SIGNAL"}                    \* ultrasonic::is_success
UsFailures == {"TIMEOUT", "OUT_OF_RANGE", "HIGH_VARIANCE",
               "INSUFFICIENT_SAMPLES", "ECHO_STUCK", "HW_FAULT"}
UsResults  == Successes \cup UsFailures

Directions == {"STABLE", "FILLING", "DRAINING"}
FillStates == Directions \cup {"UNKNOWN"}

\* The defaults of struct WaterTankStats.
Init ==
  /\ last_result = "HW_FAULT"
  /\ last_level_permille = 0
  /\ fill_state = "UNKNOWN"
  /\ pending_fill_state = "UNKNOWN"
  /\ pending_state_count = 0
  /\ backup_mode_active = FALSE
  /\ consecutive_failures = 0

-----------------------------------------------------------------------------
(* update_fill_state *)

\* Mutant: a change of LEVEL_DELTA_MIN itself does not count yet.
RawDirectionInclusive(current, last) ==
  IF current - last \in (-LevelDeltaMin)..LevelDeltaMin THEN "STABLE"
  ELSE IF current > last THEN "FILLING" ELSE "DRAINING"

RawDirection(current, last) ==
  IF current - last \in (1 - LevelDeltaMin)..(LevelDeltaMin - 1) THEN "STABLE"
  ELSE IF current > last THEN "FILLING" ELSE "DRAINING"

\* Mutant: the support of the dropped trend is not reset.
SettleKeepingCount(state) ==
  /\ fill_state' = state
  /\ pending_fill_state' = "UNKNOWN"
  /\ UNCHANGED pending_state_count

\* Adopt a trend and close the confirmation window.
Settle(state) ==
  /\ fill_state' = state
  /\ pending_fill_state' = "UNKNOWN"
  /\ pending_state_count' = 0

\* Mutant: the window is left open when the trend is contradicted.
KeepWindow(raw) == UNCHANGED <<fill_state, pending_fill_state, pending_state_count>>

\* The sample agrees with the confirmed trend: what was pending is dropped.
Agree(raw) == Settle(raw)

\* Mutant: one more supporting sample than the window asks for is awaited.
SupportLate(raw) ==
  IF pending_state_count >= Confirmations
  THEN Settle(raw)
  ELSE /\ pending_state_count' = pending_state_count + 1
       /\ UNCHANGED <<fill_state, pending_fill_state>>

\* The sample agrees with the pending trend: count it, and confirm.
Support(raw) ==
  IF pending_state_count + 1 >= Confirmations
  THEN Settle(raw)
  ELSE /\ pending_state_count' = pending_state_count + 1
       /\ UNCHANGED <<fill_state, pending_fill_state>>

\* Mutant: the new direction inherits the support of the one it replaces.
ChallengeInheriting(raw) ==
  /\ pending_fill_state' = raw
  /\ pending_state_count' = pending_state_count + 1
  /\ UNCHANGED fill_state

\* A direction of its own opens the window anew.
Challenge(raw) ==
  /\ pending_fill_state' = raw
  /\ pending_state_count' = 1
  /\ UNCHANGED fill_state

UpdateFillState(level) ==
  LET raw == RawDirection(level, last_level_permille) IN
  IF last_level_permille = 0            THEN Settle("STABLE")
  ELSE IF fill_state \in {"UNKNOWN", raw} THEN Agree(raw)
  ELSE IF raw = pending_fill_state      THEN Support(raw)
  ELSE Challenge(raw)

ProcessReading(result, level) ==
  /\ last_result' = result
  /\ IF result \in Successes
     THEN /\ UpdateFillState(level)
          /\ last_level_permille' = level
     ELSE UNCHANGED trendVars

-----------------------------------------------------------------------------
(* update_operation_mode *)

FailuresAfter(result) ==
  CASE result \notin Successes /\ consecutive_failures < FailuresThreshold
         -> consecutive_failures + 1
    [] result = "OK" /\ consecutive_failures > 0
         -> consecutive_failures - 1
    [] OTHER -> consecutive_failures

\* Mutant: the exit threshold next to the entry threshold, no deadband.
NoDeadband == FailuresThreshold - 1

BackupExitThreshold == FailuresThreshold - 2

BackupAfter(failures) ==
  IF failures >= FailuresThreshold THEN TRUE
  ELSE IF failures <= BackupExitThreshold THEN FALSE
  ELSE backup_mode_active

\* Mutant: the mode is evaluated before the reading is counted.
UpdateOperationModeEarly(result) ==
  /\ consecutive_failures' = FailuresAfter(result)
  /\ backup_mode_active' = BackupAfter(consecutive_failures)

UpdateOperationMode(result) ==
  /\ consecutive_failures' = FailuresAfter(result)
  /\ backup_mode_active' = BackupAfter(FailuresAfter(result))

\* WaterTankApp::run folds a reading in by one call after the other.
Measure(result, level) ==
  /\ ProcessReading(result, level)
  /\ UpdateOperationMode(result)

Next == \E result \in UsResults, level \in Levels : Measure(result, level)

Spec == Init /\ [][Next]_vars

-----------------------------------------------------------------------------
(* calculate_sleep_time_us *)

BackupModeSleep == 15
TimerUnknown    == 60

TimerStable(is_night) == IF is_night THEN 900 ELSE 300

TrendTimer(is_night) ==
  CASE fill_state = "FILLING"  -> 60
    [] fill_state = "DRAINING" -> 120
    [] fill_state = "STABLE"   -> TimerStable(is_night)
    [] OTHER                   -> TimerUnknown

\* WEAK_SLEEP_FACTOR is a half, INVALID_SLEEP_FACTOR a quarter.
SensedTimer(is_night) ==
  CASE last_result = "OK"          -> TrendTimer(is_night)
    [] last_result = "WEAK_SIGNAL" -> TrendTimer(is_night) \div 2
    [] OTHER                       -> TimerUnknown \div 4

SleepTime(tank_full, is_night) ==
  IF backup_mode_active
  THEN IF tank_full THEN TimerStable(is_night) ELSE BackupModeSleep
  ELSE SensedTimer(is_night)

-----------------------------------------------------------------------------
(* Properties *)

\* Types and ranges; the window never holds as many samples as confirm, and the
\* failure counter never passes its threshold.
TypeOK ==
  /\ last_result \in UsResults
  /\ last_level_permille \in Levels \cup {0}
  /\ fill_state \in FillStates
  /\ pending_fill_state \in FillStates
  /\ pending_state_count \in 0..(Confirmations - 1)
  /\ backup_mode_active \in BOOLEAN
  /\ consecutive_failures \in 0..FailuresThreshold

\* The confirmation window is open exactly when a trend other than the
\* confirmed one has support, and the trend is unknown only as long as no
\* level is known: the adopt-at-once branch of update_fill_state (lines
\* 121-126) is never what moves the trend of a node that has a level.
WindowConsistent ==
  /\ pending_fill_state = "UNKNOWN" <=> pending_state_count = 0
  /\ pending_fill_state # "UNKNOWN" => pending_fill_state # fill_state
  /\ fill_state = "UNKNOWN" => last_level_permille = 0 /\ pending_state_count = 0

\* The counter of update_operation_mode and the mode agree outside the
\* deadband, in the state a wake-up reads back from RTC memory.
ModeFollowsFailures ==
  IF backup_mode_active THEN consecutive_failures > BackupExitThreshold
                        ELSE consecutive_failures < FailuresThreshold
=============================================================================
