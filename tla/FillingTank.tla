---------------------------- MODULE FillingTank ----------------------------
(***************************************************************************)
(* The node and its tank: water rises and falls while the node sleeps as   *)
(* long as WaterTankLogic told it to, and each wake-up measures a distance *)
(* that TankGeometry makes a level of.  It answers what the trend the node *)
(* keeps is worth, and what LEVEL_DELTA_MIN is in millimetres              *)
(* (docs/ISSUE_fill_state_detection.md, findings 1 to 3).                  *)
(*                                                                         *)
(* A reading may fail, be weak, or be a spike: an OK reading far from the  *)
(* surface, as seen in the field.                                          *)
(***************************************************************************)
EXTENDS WaterTankLogic, TankGeometry

CONSTANTS
  Stretches,     \* bound: <<top, bottom>> of the part of the tank the water uses, mm
  FlowPerMinute, \* mm the surface moves in a minute when water flows
  Spikes,        \* errors of a spike, in mm
  Readings,      \* bound: the results the sensor gives
  Nights         \* bound: the values of is_night

\* What calculate_permille returns (TankGeometry) is a level of the logic.
ASSUME TableLevelsAssumption == 0..1000 \subseteq Levels
ASSUME StretchesAssumption ==
         \A s \in Stretches : /\ s[1] \in Nat /\ s[2] \in Nat
                              /\ s[1] <= s[2] /\ s[2] <= EmptyEntry.depth
ASSUME FlowAssumption     == FlowPerMinute \in Nat
ASSUME SpikesAssumption   == Spikes \subseteq Int
ASSUME ReadingsAssumption == Readings \subseteq UsResults
ASSUME NightsAssumption   == Nights \subseteq BOOLEAN

VARIABLES
  stretch,   \* the part of the tank in use
  depth,     \* of the surface, in mm below the full-water line
  flow,      \* history: how the water moved through the last interval
  clean,     \* history: OK readings in a row that were no spikes, up to 3
  steady,    \* history: intervals in a row with this flow, up to 2
  settled    \* history: has the trend had all it needs to follow the flow?

tankVars == <<vars, stretch, depth, flow, clean, steady, settled>>

FInit ==
  /\ Init
  /\ stretch \in Stretches /\ depth \in {stretch[1], stretch[2]}
  /\ flow = "MIXED" /\ clean = 0 /\ steady = 0 /\ settled = FALSE

-----------------------------------------------------------------------------
(* While the node sleeps *)

Surface(dir, sleep) ==
  CASE dir = "FILLING"  -> depth - (FlowPerMinute * sleep) \div 60
    [] dir = "DRAINING" -> depth + (FlowPerMinute * sleep) \div 60
    [] dir = "STABLE"   -> depth

\* The water stops at the ends of its stretch.  A flow counts for the trend
\* when it lasts through an interval of at least a minute.
Flow(dir, sleep) ==
  LET reached == Surface(dir, sleep)
      stopped == stretch[1] + Clip(reached - stretch[1], stretch[2] - stretch[1])
  IN /\ depth' = stopped
     /\ flow' = IF dir = "STABLE" \/ (sleep >= 60 /\ stopped = reached)
                THEN dir ELSE "MIXED"
     /\ UNCHANGED stretch

-----------------------------------------------------------------------------
(* A wake-up *)

Count(n, most) == IF n < most THEN n + 1 ELSE n

\* An interval supports the flow when a reading on either side of it shows it;
\* level 0 shows nothing, update_fill_state takes it for no level at all.
RecordFlow(result, spike) ==
  /\ clean' = IF result = "OK" /\ spike = 0 THEN Count(clean, 3) ELSE 0
  /\ steady' = IF flow' = "MIXED" \/ last_level_permille = 0 \/ result # "OK" THEN 0
               ELSE IF flow' = flow THEN Count(steady, 2) ELSE 1
  /\ settled' = /\ steady' > 0 /\ result = "OK"
                /\ \/ steady' = 2 /\ clean' = 3
                   \/ settled /\ flow' = flow /\ (spike = 0 \/ clean = 3)

\* What run does with a reading: process_reading, update_operation_mode and,
\* before it, the sleep they led to the last time.
WakeUp(dir, result, spike, tank_full, is_night) ==
  /\ Flow(dir, SleepTime(tank_full, is_night))
  /\ Measure(result, calculate_permille(OFFSET_MM + depth' + spike))
  /\ RecordFlow(result, spike)

\* The float switch is asked in backup mode only.
FNext ==
  \E dir \in Directions, result \in Readings, is_night \in Nights,
     tank_full \in (IF backup_mode_active THEN BOOLEAN ELSE {FALSE}) :
    \E spike \in (IF result = "OK" THEN Spikes ELSE {}) \cup {0} :
      WakeUp(dir, result, spike, tank_full, is_night)

FSpec == FInit /\ [][FNext]_tankVars

-----------------------------------------------------------------------------
(* Properties *)

\* Types of the logic and the tank: the water stays in its stretch, and the
\* level the node keeps is one the table gives.
FTypeOK ==
  /\ TypeOK
  /\ stretch \in Stretches /\ depth \in stretch[1]..stretch[2]
  /\ flow \in Directions \cup {"MIXED"}
  /\ clean \in 0..3 /\ steady \in 0..2 /\ settled \in BOOLEAN

\* The level of the surface as measured is the volume of the stacked cylinders
\* below it, to the nearest permille: interpolation, clamps and the single
\* rounding of calculate_permille lose nothing and repeat nothing.
LevelFollowsVolume == FollowsVolume(OFFSET_MM + depth)

\* LEVEL_DELTA_MIN in millimetres, the question finding 2 of
\* docs/ISSUE_fill_state_detection.md leaves open: a move of the surface of
\* up to 5 mm is never taken for a direction, one of 8 mm always is, in
\* whichever segments its two ends lie.
DeltaInMillimetres ==
  \A move \in {-8} \cup -5..5 \cup {8} :
    LET seen == RawDirection(calculate_permille(OFFSET_MM + (depth + move)),
                             calculate_permille(OFFSET_MM + depth))
    IN /\ move \in -5..5 => seen = "STABLE"
       /\ move \in {-8, 8} /\ depth + move \in 0..EmptyEntry.depth
            => seen = IF move < 0 THEN "FILLING" ELSE "DRAINING"

\* The trend follows the water: once a flow showed in three clean readings in a
\* row, at the pace the node itself chose, fill_state is that flow and stays it
\* while the flow lasts, whatever a spike shows, as long as three clean
\* readings lie between one spike and the next.  (Nothing is claimed from a
\* reading of level 0 on, that of a spike included, until the flow showed again.)
TrendFollowsWater == settled => fill_state = flow
=============================================================================
