------------------------- MODULE FillingTankProofs -------------------------
(***************************************************************************)
(* What FillingTank promises of the level and of the trend, for every      *)
(* stretch of the tank, every flow and every error of a spike.             *)
(*                                                                         *)
(* The trend rests on three readings, of which the state holds only what   *)
(* they left behind: TrendInv says what the window shows of the last two   *)
(* intervals, and what a spike may have left in it.                        *)
(***************************************************************************)
EXTENDS FillingTank, TankGeometryProofs

\* The water is in its stretch of the tank.
DepthInv ==
  /\ stretch \in Stretches
  /\ depth \in Int /\ stretch[1] <= depth /\ depth <= stretch[2]

\* A stretch of the tank lies inside the table.
LEMMA StretchTypes ==
  ASSUME NEW s \in Stretches
  PROVE  /\ s[1] \in Nat /\ s[2] \in Nat
         /\ s[1] <= s[2] /\ s[2] <= 1410
<1>1. EmptyEntry.depth = 1410
  BY Entries DEF EmptyEntry, LUT_SIZE
<1> QED
  BY <1>1, StretchesAssumption

\* The level of a distance is that of the depth it stands for.
LEMMA LevelOfDepth ==
  ASSUME NEW d \in Int
  PROVE  calculate_permille(OFFSET_MM + d) = depth_to_permille(d)
<1> DEFINE x == OFFSET_MM + d
<1>1. x - OFFSET_MM = d
  BY DEF OFFSET_MM
<1>2. calculate_permille(x) = depth_to_permille(x - OFFSET_MM)
  BY DEF calculate_permille
<1> HIDE DEF x
<1>3. calculate_permille(x) = depth_to_permille(d)
  BY <1>1, <1>2
<1> QED
  BY <1>3 DEF x

\* calculate_sleep_time_us gives a whole number of seconds, in every mode.
LEMMA SleepIsNat ==
  ASSUME NEW tank_full \in BOOLEAN, NEW is_night \in BOOLEAN
  PROVE  SleepTime(tank_full, is_night) \in Nat
<1>1. TimerStable(is_night) \in Nat
  BY DEF TimerStable
<1>2. TrendTimer(is_night) \in Nat
  BY <1>1 DEF TrendTimer, TimerUnknown
<1>3. SensedTimer(is_night) \in Nat
  BY <1>2 DEF SensedTimer, TimerUnknown
<1> QED
  BY <1>1, <1>3 DEF SleepTime, BackupModeSleep

\* The surface moves by whole millimetres.
LEMMA SurfaceIsInt ==
  ASSUME NEW dir \in Directions, NEW sleep \in Nat, depth \in Int
  PROVE  Surface(dir, sleep) \in Int
<1>1. (FlowPerMinute * sleep) \div 60 \in Int
  <2>1. FlowPerMinute * sleep \in Nat
    BY FlowAssumption
  <2> QED BY <2>1
<1> QED
  BY <1>1 DEF Surface, Directions

\* The water stays in its stretch of the tank.
LEMMA DepthInvariant == FSpec => []DepthInv
<1>1. FInit => DepthInv
  BY StretchTypes DEF FInit, DepthInv
<1>2. DepthInv /\ [FNext]_tankVars => DepthInv'
  <2> SUFFICES ASSUME DepthInv, [FNext]_tankVars
               PROVE  DepthInv'
    OBVIOUS
  <2>1. CASE UNCHANGED tankVars
    BY <2>1 DEF tankVars, DepthInv
  <2>2. CASE FNext
    <3>1. PICK dir \in Directions, tank_full \in BOOLEAN, is_night \in BOOLEAN :
            Flow(dir, SleepTime(tank_full, is_night))
      BY <2>2, NightsAssumption DEF FNext, WakeUp
    <3> DEFINE reached == Surface(dir, SleepTime(tank_full, is_night))
    <3>2. reached \in Int
      BY SleepIsNat, SurfaceIsInt DEF DepthInv
    <3>3. /\ stretch' = stretch
          /\ depth' = stretch[1] + Clip(reached - stretch[1], stretch[2] - stretch[1])
      BY <3>1 DEF Flow
    <3> HIDE DEF reached
    <3> QED BY <3>2, <3>3, StretchTypes DEF DepthInv, Clip
  <2> QED BY <2>1, <2>2
<1> QED
  BY <1>1, <1>2, PTL DEF FSpec

\* The level of the surface is the volume to the nearest permille, wherever
\* the water is.
THEOREM LevelIsVolume == FSpec => []LevelFollowsVolume
<1>1. DepthInv => LevelFollowsVolume
  <2> SUFFICES ASSUME DepthInv PROVE LevelFollowsVolume
    OBVIOUS
  <2>1. OFFSET_MM + depth \in Int
    BY DEF DepthInv, OFFSET_MM
  <2> QED BY <2>1, LevelFollows DEF LevelFollowsVolume
<1> QED
  BY <1>1, DepthInvariant, PTL

\* With LEVEL_DELTA_MIN at 5 permille, 5 mm are still water and 8 mm are not,
\* wherever the water is.
THEOREM DeltaMeansMillimetres ==
  ASSUME LevelDeltaMin = 5
  PROVE  FSpec => []DeltaInMillimetres
<1>1. ASSUME DepthInv PROVE DeltaInMillimetres
  <2> SUFFICES ASSUME NEW move \in {-8} \cup -5..5 \cup {8}
               PROVE  LET seen == RawDirection(calculate_permille(OFFSET_MM + (depth + move)),
                                               calculate_permille(OFFSET_MM + depth))
                      IN /\ move \in -5..5 => seen = "STABLE"
                         /\ move \in {-8, 8} /\ depth + move \in 0..EmptyEntry.depth
                              => seen = IF move < 0 THEN "FILLING" ELSE "DRAINING"
    BY DEF DeltaInMillimetres
  <2> DEFINE p == depth_to_permille(depth)
             q == depth_to_permille(depth + move)
  <2>1. depth \in Int /\ move \in Int /\ depth + move \in Int
    BY <1>1 DEF DepthInv
  <2>2. depth >= 0 /\ depth <= 1410
    BY <1>1, StretchTypes DEF DepthInv
  <2>3. /\ calculate_permille(OFFSET_MM + depth) = p
        /\ calculate_permille(OFFSET_MM + (depth + move)) = q
    BY <2>1, LevelOfDepth
  <2>4. p \in Int /\ q \in Int
    BY <2>1, LevelNearVolume, SMT
  <2>5. CASE move >= 0
    <3>1. move \in Nat
      BY <2>1, <2>5
    <3>2. /\ move <= 5 => p - q > -5 /\ p - q < 5
          /\ depth >= 0 /\ depth + move <= 1410 /\ move >= 8 => p - q >= 5
      BY <2>1, <3>1, LevelMoves, SMT
    <3> HIDE DEF p, q
    <3> QED BY <2>1, <2>2, <2>3, <2>4, <2>5, <3>2, Entries, LevelDeltaMin = 5
            DEF RawDirection, EmptyEntry, LUT_SIZE
  <2>6. CASE move < 0
    <3> DEFINE d == depth + move
               m == -move
    <3>1. d \in Int /\ m \in Nat /\ d + m = depth
      BY <2>1, <2>6
    <3>2. /\ m <= 5 => depth_to_permille(d) - depth_to_permille(d + m) > -5
                       /\ depth_to_permille(d) - depth_to_permille(d + m) < 5
          /\ d >= 0 /\ d + m <= 1410 /\ m >= 8 =>
               depth_to_permille(d) - depth_to_permille(d + m) >= 5
      <4> HIDE DEF d, m
      <4> QED BY <3>1, LevelMoves, SMT
    <3>3. /\ move >= -5 => q - p > -5 /\ q - p < 5
          /\ depth + move >= 0 /\ move <= -8 => q - p >= 5
      BY <2>1, <2>2, <3>1, <3>2
    <3> HIDE DEF p, q
    <3> QED BY <2>1, <2>2, <2>3, <2>4, <2>6, <3>3, Entries, LevelDeltaMin = 5
            DEF RawDirection, EmptyEntry, LUT_SIZE
  <2> QED BY <2>1, <2>5, <2>6
<1> QED
  BY <1>1, DepthInvariant, PTL

-----------------------------------------------------------------------------
(* The values of the variables *)

\* What a reading is made a level of is a level the logic takes.
LEMMA ReadingIsLevel ==
  ASSUME NEW d \in Int, NEW spike \in Int
  PROVE  /\ calculate_permille(OFFSET_MM + d + spike) \in Levels
         /\ calculate_permille(OFFSET_MM + d + spike) = depth_to_permille(d + spike)
<1>1. d + spike \in Int /\ OFFSET_MM + d + spike = OFFSET_MM + (d + spike)
  BY DEF OFFSET_MM
<1> DEFINE x == d + spike
<1> HIDE DEF x
<1>2. x \in Int
  BY <1>1 DEF x
<1>3. calculate_permille(OFFSET_MM + x) = depth_to_permille(x)
  BY <1>2, LevelOfDepth
<1>4. depth_to_permille(x) \in 0..1000
  <2>1. /\ depth_to_permille(x) \in Int
        /\ 0 <= depth_to_permille(x) /\ depth_to_permille(x) <= 1000
    BY <1>2, LevelNearVolume, SMT
  <2> QED
    BY <2>1
<1> QED
  BY <1>1, <1>3, <1>4, TableLevelsAssumption DEF x

\* A reading keeps the statistics of the logic in their types and the confirmation
\* window consistent.
LEMMA MeasureKeeps ==
  ASSUME TypeOK, WindowConsistent, NEW result \in UsResults, NEW level \in Levels,
         Measure(result, level)
  PROVE  TypeOK' /\ WindowConsistent'
<1>1. /\ last_result' = result
      /\ consecutive_failures' = FailuresAfter(result)
      /\ backup_mode_active' = BackupAfter(FailuresAfter(result))
  BY DEF Measure, ProcessReading, UpdateOperationMode
<1>2. consecutive_failures' \in 0..FailuresThreshold
  BY <1>1, FailuresThresholdAssumption DEF FailuresAfter, TypeOK
<1>3. backup_mode_active' \in BOOLEAN
  BY <1>1 DEF BackupAfter, TypeOK
<1>4. /\ last_level_permille' \in Levels \cup {0}
      /\ fill_state' \in FillStates /\ pending_fill_state' \in FillStates
      /\ pending_state_count' \in 0..(Confirmations - 1)
      /\ WindowConsistent'
  <2>1. CASE result \notin Successes
    <3>1. UNCHANGED trendVars
      BY <2>1 DEF Measure, ProcessReading
    <3> QED
      BY <3>1 DEF trendVars, TypeOK, WindowConsistent
  <2>2. CASE result \in Successes
    <3> DEFINE raw == RawDirection(level, last_level_permille)
    <3>1. UpdateFillState(level) /\ last_level_permille' = level
      BY <2>2 DEF Measure, ProcessReading
    <3>2. raw \in Directions
      BY DEF RawDirection, Directions
    <3>3. CASE Settle("STABLE") \/ Settle(raw)
      BY <3>1, <3>2, <3>3, ConfirmationsAssumption
      DEF Settle, WindowConsistent, FillStates, Directions
    <3>4. CASE /\ pending_fill_state' = raw /\ UNCHANGED fill_state
               /\ pending_state_count' \in 1..(Confirmations - 1)
               /\ fill_state \notin {"UNKNOWN", raw}
      BY <3>1, <3>2, <3>4 DEF WindowConsistent, FillStates, Directions, TypeOK
    <3>5. (Settle("STABLE") \/ Settle(raw))
            \/ /\ pending_fill_state' = raw /\ UNCHANGED fill_state
               /\ pending_state_count' \in 1..(Confirmations - 1)
               /\ fill_state \notin {"UNKNOWN", raw}
      BY <3>1, ConfirmationsAssumption
      DEF UpdateFillState, Agree, Support, Challenge, TypeOK
    <3> HIDE DEF raw
    <3> QED
      BY <3>3, <3>4, <3>5
  <2> QED
    BY <2>1, <2>2
<1> QED
  BY <1>1, <1>2, <1>3, <1>4 DEF TypeOK

FInv == FTypeOK /\ WindowConsistent

\* A wake-up, with the reading it takes.
LEMMA WakeUpParts ==
  ASSUME FInv, DepthInv', FNext
  PROVE  \E dir \in Directions, sleep \in Nat, result \in UsResults, spike \in Int :
           /\ Flow(dir, sleep)
           /\ Measure(result, depth_to_permille(depth' + spike))
           /\ depth_to_permille(depth' + spike) \in Levels
           /\ RecordFlow(result, spike)
<1>1. PICK dir \in Directions, result \in Readings, is_night \in Nights,
           tank_full \in BOOLEAN, spike \in Spikes \cup {0} :
             WakeUp(dir, result, spike, tank_full, is_night)
  BY DEF FNext
<1>2. /\ result \in UsResults /\ is_night \in BOOLEAN /\ spike \in Int
      /\ depth' \in Int
  BY <1>1, ReadingsAssumption, NightsAssumption, SpikesAssumption DEF DepthInv
<1>3. SleepTime(tank_full, is_night) \in Nat
  BY <1>2, SleepIsNat
<1> DEFINE sleep == SleepTime(tank_full, is_night)
           level == depth_to_permille(depth' + spike)
<1>4. /\ calculate_permille(OFFSET_MM + depth' + spike) = level
      /\ level \in Levels
  BY <1>2, ReadingIsLevel
<1>5. /\ Flow(dir, sleep) /\ RecordFlow(result, spike)
      /\ Measure(result, calculate_permille(OFFSET_MM + depth' + spike))
  BY <1>1 DEF WakeUp
<1>6. Measure(result, level)
  BY <1>4, <1>5
<1> HIDE DEF sleep
<1> QED
  BY <1>2, <1>3, <1>4, <1>5, <1>6 DEF sleep

\* The logic, the water and the history keep their types.
LEMMA FInvariant == FSpec => []FInv
<1>1. FInit => FInv
  <2> SUFFICES ASSUME FInit PROVE FInv
    OBVIOUS
  <2>1. TypeOK /\ WindowConsistent
    <3>1. /\ pending_state_count \in 0..(Confirmations - 1)
          /\ consecutive_failures \in 0..FailuresThreshold
      BY ConfirmationsAssumption, FailuresThresholdAssumption DEF FInit, Init
    <3>2. last_result \in UsResults
      BY DEF FInit, Init, UsResults, UsFailures
    <3> QED
      BY <3>1, <3>2 DEF FInit, Init, TypeOK, WindowConsistent, FillStates
  <2>2. depth \in stretch[1]..stretch[2]
    BY StretchTypes DEF FInit
  <2>3. /\ stretch \in Stretches /\ flow = "MIXED"
        /\ clean = 0 /\ steady = 0 /\ settled = FALSE
    BY DEF FInit
  <2>4. clean \in 0..3 /\ steady \in 0..2 /\ settled \in BOOLEAN
    <3>1. settled \in BOOLEAN
      BY <2>3, Zenon
    <3> QED
      BY <2>3, <3>1
  <2> QED
    BY <2>1, <2>2, <2>3, <2>4 DEF FInv, FTypeOK
<1>2. FInv /\ DepthInv' /\ [FNext]_tankVars => FInv'
  <2> SUFFICES ASSUME FInv, DepthInv', [FNext]_tankVars
               PROVE  FInv'
    OBVIOUS
  <2>1. CASE FNext
    <3>1. PICK dir \in Directions, sleep \in Nat, result \in UsResults, spike \in Int :
            /\ Flow(dir, sleep)
            /\ Measure(result, depth_to_permille(depth' + spike))
            /\ depth_to_permille(depth' + spike) \in Levels
            /\ RecordFlow(result, spike)
      BY <2>1, WakeUpParts
    <3>2. TypeOK' /\ WindowConsistent'
      <4> DEFINE level == depth_to_permille(depth' + spike)
      <4>1. Measure(result, level) /\ level \in Levels
        BY <3>1
      <4> HIDE DEF level
      <4> QED
        BY <4>1, MeasureKeeps DEF FInv, FTypeOK
    <3>3. stretch' \in Stretches /\ depth' \in stretch'[1]..stretch'[2]
      BY StretchTypes DEF DepthInv
    <3>4. flow' \in Directions \cup {"MIXED"}
      BY <3>1 DEF Flow
    <3>5. clean' \in 0..3 /\ steady' \in 0..2
      BY <3>1 DEF RecordFlow, Count, FInv, FTypeOK
    <3>6. settled' \in BOOLEAN
      BY <3>1, Zenon DEF RecordFlow
    <3> QED
      BY <3>2, <3>3, <3>4, <3>5, <3>6 DEF FInv, FTypeOK
  <2>2. CASE UNCHANGED tankVars
    BY <2>2 DEF tankVars, vars, trendVars, modeVars, FInv, FTypeOK, TypeOK,
                WindowConsistent
  <2> QED
    BY <2>1, <2>2
<1> QED
  BY <1>1, <1>2, DepthInvariant, PTL DEF FSpec

\* What the node keeps stays in its type: every reading of the sensor, a spike
\* too, becomes a level of the table, and the surface never leaves its stretch.
THEOREM FTypeCorrect == FSpec => []FTypeOK
BY FInvariant, PTL DEF FInv

-----------------------------------------------------------------------------
(* The trend and the water *)

\* The surface went from one depth to the other as it does in direction dir, by
\* what a flow moves it in a minute at least.
Moved(before, after, dir) ==
  CASE dir = "FILLING"  -> before - after >= 8
    [] dir = "DRAINING" -> after - before >= 8
    [] dir = "STABLE"   -> before = after

\* After a clean reading the level the node keeps is that of the surface.
LevelKnown == clean >= 1 => last_level_permille = depth_to_permille(depth)

\* Two clean readings around an interval show its flow: it is the trend or waits
\* to be confirmed.
FlowShown == steady >= 1 /\ clean >= 2 => flow \in {fill_state, pending_fill_state}

\* Once settled the trend is the flow, and a clean reading after another leaves
\* nothing pending.
TrendSettled ==
  settled => /\ steady >= 1 /\ flow # "MIXED" /\ fill_state = flow
             /\ clean >= 2 => pending_fill_state = "UNKNOWN"

\* Right after a spike, what is pending is the direction of the spike itself, seen
\* from a depth the surface has left with the flow.
SpikeRemembered ==
  settled /\ clean = 0 =>
    \E before \in 0..EmptyEntry.depth :
      /\ Moved(before, depth, flow)
      /\ pending_fill_state \in
           {"UNKNOWN", RawDirection(last_level_permille, depth_to_permille(before))}

TrendInv == LevelKnown /\ FlowShown /\ TrendSettled /\ SpikeRemembered

\* The surface keeps to its flow, by 8 mm or more if it moves at all.
LEMMA FlowMoves ==
  ASSUME FlowPerMinute >= 8, DepthInv, NEW dir \in Directions, NEW sleep \in Nat,
         Flow(dir, sleep), flow' # "MIXED"
  PROVE  flow' = dir /\ Moved(depth, depth', dir)
<1>1. flow' = dir
  BY DEF Flow
<1>2. CASE dir = "STABLE"
  BY <1>1, <1>2, StretchTypes DEF Flow, Surface, Clip, Moved, DepthInv
<1>3. CASE dir # "STABLE"
  <2> DEFINE moved == (FlowPerMinute * sleep) \div 60
  <2>1. sleep >= 60 /\ depth' = Surface(dir, sleep)
    BY <1>1, <1>3 DEF Flow
  <2>2. moved \in Int /\ moved >= 8
    <3>1. FlowPerMinute * sleep \in Nat /\ FlowPerMinute * sleep >= 480
      <4>1. FlowPerMinute * 60 >= 480 /\ FlowPerMinute \in Nat
        BY FlowAssumption
      <4>2. FlowPerMinute * sleep = FlowPerMinute * 60 + FlowPerMinute * (sleep - 60)
        BY <2>1, <4>1, SMT
      <4>3. FlowPerMinute * (sleep - 60) >= 0
        BY <2>1, <4>1, SMT
      <4> QED
        BY <4>1, <4>2, <4>3, SMT
    <3> QED
      BY <3>1, SMT
  <2>3. depth' = IF dir = "FILLING" THEN depth - moved ELSE depth + moved
    BY <1>3, <2>1 DEF Surface, Directions
  <2> HIDE DEF moved
  <2>4. CASE dir = "FILLING"
    <3>1. depth - depth' >= 8
      BY <2>2, <2>3, <2>4 DEF DepthInv
    <3> QED
      BY <1>1, <2>4, <3>1 DEF Moved
  <2>5. CASE dir = "DRAINING"
    <3>1. depth' - depth >= 8
      BY <2>2, <2>3, <2>5 DEF DepthInv
    <3> QED
      BY <1>1, <2>5, <3>1 DEF Moved
  <2> QED
    BY <1>3, <2>4, <2>5 DEF Directions
<1> QED
  BY <1>2, <1>3

\* Two clean readings show how the water moved between them.
LEMMA MoveShows ==
  ASSUME LevelDeltaMin = 5, NEW dir \in Directions,
         NEW before \in Int, 0 <= before, before <= 1410,
         NEW after \in Int, 0 <= after, after <= 1410, Moved(before, after, dir)
  PROVE  RawDirection(depth_to_permille(after), depth_to_permille(before)) = dir
<1> DEFINE p == depth_to_permille(before)
           q == depth_to_permille(after)
<1>1. p \in Int /\ q \in Int
  BY LevelNearVolume, SMT
<1>2. CASE dir = "STABLE"
  <2>1. p = q
    BY <1>2 DEF Moved
  <2> HIDE DEF p, q
  <2>2. p - p = 0 /\ q - p = 0
    BY <1>1, <2>1
  <2> QED
    BY <1>1, <1>2, <2>2 DEF RawDirection, p, q
<1>3. CASE dir = "FILLING"
  <2> DEFINE m == before - after
  <2>1. m \in Nat /\ m >= 8 /\ after + m = before /\ after + m <= 1410
    BY <1>3 DEF Moved
  <2> HIDE DEF m
  <2>2. 95700 * (depth_to_permille(after) - depth_to_permille(after + m))
          >= 64350 * m - 95700
    BY <2>1, LevelMoves, SMT
  <2>3. 95700 * (q - p) >= 64350 * m - 95700
    BY <2>1, <2>2
  <2> HIDE DEF p, q
  <2>4. q - p >= 5
    BY <1>1, <2>1, <2>3, SMT
  <2>5. RawDirection(q, p) = "FILLING"
    BY <1>1, <2>4 DEF RawDirection
  <2> QED
    BY <1>3, <2>5 DEF p, q
<1>4. CASE dir = "DRAINING"
  <2> DEFINE m == after - before
  <2>1. m \in Nat /\ m >= 8 /\ before + m = after /\ before + m <= 1410
    BY <1>4 DEF Moved
  <2> HIDE DEF m
  <2>2. 95700 * (depth_to_permille(before) - depth_to_permille(before + m))
          >= 64350 * m - 95700
    BY <2>1, LevelMoves, SMT
  <2>3. 95700 * (p - q) >= 64350 * m - 95700
    BY <2>1, <2>2
  <2> HIDE DEF p, q
  <2>4. p - q >= 5
    BY <1>1, <2>1, <2>3, SMT
  <2>5. RawDirection(q, p) = "DRAINING"
    BY <1>1, <2>4 DEF RawDirection
  <2> QED
    BY <1>4, <2>5 DEF p, q
<1> QED
  BY <1>2, <1>3, <1>4 DEF Directions

\* On the way to a spike and back the node does not see one wrong direction twice:
\* through the two intervals the level changes too much for that.
LEMMA SpikeReturns ==
  ASSUME LevelDeltaMin = 5, NEW dir \in Directions, NEW seen \in Int,
         NEW first \in Int, 0 <= first, first <= 1410,
         NEW second \in Int, 0 <= second, second <= 1410,
         NEW third \in Int, 0 <= third, third <= 1410,
         Moved(first, second, dir), Moved(second, third, dir),
         RawDirection(seen, depth_to_permille(first))
           = RawDirection(depth_to_permille(third), seen)
  PROVE  RawDirection(depth_to_permille(third), seen) = dir
<1> DEFINE p == depth_to_permille(first)
           q == depth_to_permille(third)
<1>1. p \in Int /\ q \in Int
  BY LevelNearVolume, SMT
<1>2. CASE dir = "STABLE"
  <2>1. p = q
    BY <1>2 DEF Moved
  <2> HIDE DEF p, q
  <2>2. RawDirection(seen, p) = RawDirection(p, seen)
    BY <2>1 DEF p, q
  <2> QED
    BY <1>1, <1>2, <2>1, <2>2 DEF RawDirection, p, q
<1>3. CASE dir = "FILLING"
  <2> DEFINE m == first - third
  <2>1. m \in Nat /\ m >= 16 /\ third + m = first
    BY <1>3 DEF Moved
  <2> HIDE DEF m
  <2>2. 95700 * (depth_to_permille(third) - depth_to_permille(third + m))
          >= 64350 * m - 95700
    BY <2>1, LevelMoves, SMT
  <2>3. 95700 * (q - p) >= 64350 * m - 95700
    BY <2>1, <2>2
  <2> HIDE DEF p, q
  <2>4. q - p >= 10
    BY <1>1, <2>1, <2>3, SMT
  <2>5. RawDirection(q, seen) = "FILLING"
    <3>1. RawDirection(seen, p) = RawDirection(q, seen)
      BY DEF p, q
    <3> QED
      BY <1>1, <2>4, <3>1 DEF RawDirection
  <2> QED
    BY <1>3, <2>5 DEF q
<1>4. CASE dir = "DRAINING"
  <2> DEFINE m == third - first
  <2>1. m \in Nat /\ m >= 16 /\ first + m = third
    BY <1>4 DEF Moved
  <2> HIDE DEF m
  <2>2. 95700 * (depth_to_permille(first) - depth_to_permille(first + m))
          >= 64350 * m - 95700
    BY <2>1, LevelMoves, SMT
  <2>3. 95700 * (p - q) >= 64350 * m - 95700
    BY <2>1, <2>2
  <2> HIDE DEF p, q
  <2>4. p - q >= 10
    BY <1>1, <2>1, <2>3, SMT
  <2>5. RawDirection(q, seen) = "DRAINING"
    <3>1. RawDirection(seen, p) = RawDirection(q, seen)
      BY DEF p, q
    <3> QED
      BY <1>1, <2>4, <3>1 DEF RawDirection
  <2> QED
    BY <1>4, <2>5 DEF q
<1> QED
  BY <1>2, <1>3, <1>4 DEF Directions

\* What update_fill_state makes of a reading that shows direction dir when that
\* is the trend, or is waiting, or is neither.
LEMMA ReadingCases ==
  ASSUME Confirmations = 2, FInv, last_level_permille # 0, NEW level \in Levels,
         NEW dir \in Directions, RawDirection(level, last_level_permille) = dir,
         NEW result \in Successes, Measure(result, level)
  PROVE  /\ dir \in {fill_state, pending_fill_state} =>
              fill_state' = dir /\ pending_fill_state' = "UNKNOWN"
         /\ dir \notin {fill_state, pending_fill_state} =>
              fill_state' = fill_state /\ pending_fill_state' = dir
         /\ last_level_permille' = level
<1>1. UpdateFillState(level) /\ last_level_permille' = level
  BY DEF Measure, ProcessReading
<1>2. fill_state # "UNKNOWN" /\ dir # "UNKNOWN"
  BY DEF FInv, WindowConsistent, Directions
<1>3. CASE fill_state = dir
  BY <1>1, <1>2, <1>3 DEF UpdateFillState, Agree, Settle
<1>4. CASE fill_state # dir /\ pending_fill_state = dir
  <2>1. Support(dir)
    BY <1>1, <1>2, <1>4 DEF UpdateFillState
  <2>2. pending_state_count + 1 >= Confirmations
    BY <1>2, <1>4 DEF FInv, FTypeOK, TypeOK, WindowConsistent
  <2> QED
    BY <1>1, <1>4, <2>1, <2>2 DEF Support, Settle
<1>5. CASE fill_state # dir /\ pending_fill_state # dir
  BY <1>1, <1>2, <1>5 DEF UpdateFillState, Challenge
<1> QED
  BY <1>3, <1>4, <1>5

\* The parts of TrendInv, one wake-up later.  An interval counts for the trend
\* only between two OK readings, the earlier one with a level to compare with.
LEMMA TrendStep ==
  ASSUME LevelDeltaMin = 5, Confirmations = 2, FlowPerMinute >= 8,
         FInv, DepthInv, DepthInv', TrendInv,
         NEW dir \in Directions, NEW sleep \in Nat, NEW result \in UsResults,
         NEW spike \in Int, Flow(dir, sleep),
         Measure(result, depth_to_permille(depth' + spike)),
         depth_to_permille(depth' + spike) \in Levels, RecordFlow(result, spike)
  PROVE  TrendInv'
<1> DEFINE level == depth_to_permille(depth' + spike)
           raw   == RawDirection(level, last_level_permille)
<1>1. /\ depth \in Int /\ 0 <= depth /\ depth <= 1410
      /\ depth' \in Int /\ 0 <= depth' /\ depth' <= 1410
  BY StretchTypes DEF DepthInv
<1>2. /\ clean \in 0..3 /\ steady \in 0..2 /\ clean' \in 0..3
      /\ clean' >= 1 => result = "OK" /\ spike = 0
      /\ clean' >= 2 => clean >= 1
      /\ clean' = 3 => clean >= 2
  BY DEF RecordFlow, Count, FInv, FTypeOK
<1>3. steady' >= 1 => /\ result = "OK" /\ last_level_permille # 0 /\ flow' # "MIXED"
                      /\ flow' = dir /\ Moved(depth, depth', dir)
  BY FlowMoves DEF RecordFlow
<1>4. steady' = 2 => steady >= 1 /\ flow' = flow
  BY DEF RecordFlow, Count, FInv, FTypeOK
<1>5. settled' => /\ steady' >= 1
                  /\ \/ steady' = 2 /\ clean' = 3
                     \/ settled /\ flow' = flow /\ (spike = 0 \/ clean = 3)
  <2>1. settled' => /\ steady' > 0
                    /\ \/ steady' = 2 /\ clean' = 3
                       \/ settled /\ flow' = flow /\ (spike = 0 \/ clean = 3)
    BY Zenon DEF RecordFlow
  <2>2. steady' \in 0..2
    BY DEF RecordFlow, Count, FInv, FTypeOK
  <2> QED
    BY <2>1, <2>2
<1>6. result \in Successes => last_level_permille' = level
  BY DEF Measure, ProcessReading
<1>7. LevelKnown'
  BY <1>1, <1>2, <1>6 DEF LevelKnown, Successes
\* What a reading says of the flow that led to it.
<1>8. ASSUME steady' >= 1
      PROVE  /\ raw \in Directions
             /\ raw \in {fill_state, pending_fill_state} =>
                  fill_state' = raw /\ pending_fill_state' = "UNKNOWN"
             /\ raw \notin {fill_state, pending_fill_state} =>
                  fill_state' = fill_state /\ pending_fill_state' = raw
  <2>1. raw \in Directions
    BY DEF RawDirection, Directions
  <2>2. result \in Successes /\ last_level_permille # 0
    BY <1>3, <1>8 DEF Successes
  <2> HIDE DEF level
  <2>3. level \in Levels /\ Measure(result, level)
    BY DEF level
  <2> QED
    BY <2>1, <2>2, <2>3, ReadingCases
<1>9. ASSUME steady' >= 1, clean >= 1, spike = 0
      PROVE  raw = flow'
  <2>1. last_level_permille = depth_to_permille(depth)
    BY <1>9 DEF TrendInv, LevelKnown
  <2>2. level = depth_to_permille(depth')
    BY <1>1, <1>9
  <2>3. RawDirection(depth_to_permille(depth'), depth_to_permille(depth)) = dir
    BY <1>1, <1>3, <1>9, MoveShows
  <2> HIDE DEF level
  <2> QED
    BY <1>3, <1>9, <2>1, <2>2, <2>3
<1> HIDE DEF level, raw
<1>10. FlowShown'
  <2> SUFFICES ASSUME steady' >= 1, clean' >= 2
               PROVE  flow' \in {fill_state', pending_fill_state'}
    BY DEF FlowShown
  <2>1. raw = flow'
    BY <1>2, <1>9
  <2> QED
    BY <1>8, <2>1
<1>11. TrendSettled' /\ SpikeRemembered'
  <2> SUFFICES ASSUME settled'
               PROVE  /\ fill_state' = flow'
                      /\ clean' >= 2 => pending_fill_state' = "UNKNOWN"
                      /\ SpikeRemembered'
    BY <1>3, <1>5 DEF TrendSettled, SpikeRemembered
  <2>1. steady' >= 1
    BY <1>5
  <2>2. CASE steady' = 2 /\ clean' = 3
    <3>1. raw = flow'
      BY <1>2, <1>9, <2>2
    <3>2. raw \in {fill_state, pending_fill_state}
      BY <1>2, <1>4, <2>2, <3>1 DEF TrendInv, FlowShown
    <3> QED
      BY <1>8, <2>1, <2>2, <3>1, <3>2 DEF SpikeRemembered
  <2>3. CASE settled /\ flow' = flow /\ spike = 0 /\ clean >= 1
    <3>1. raw = flow' /\ raw = fill_state
      BY <1>9, <2>1, <2>3 DEF TrendInv, TrendSettled
    <3>2. clean' # 0
      BY <1>2, <1>3, <2>1, <2>3 DEF RecordFlow, Count
    <3> QED
      BY <1>8, <2>1, <3>1, <3>2 DEF SpikeRemembered
  <2>4. CASE settled /\ flow' = flow /\ spike = 0 /\ clean = 0
    <3>1. PICK before \in 0..EmptyEntry.depth :
            /\ Moved(before, depth, flow)
            /\ pending_fill_state \in
                 {"UNKNOWN", RawDirection(last_level_permille, depth_to_permille(before))}
      BY <2>4 DEF TrendInv, SpikeRemembered
    <3>2. before \in Int /\ 0 <= before /\ before <= 1410
      BY Entries DEF EmptyEntry, LUT_SIZE
    <3>3. level = depth_to_permille(depth')
      BY <1>1, <2>4 DEF level
    <3>4. last_level_permille \in Int
      BY LevelsAssumption DEF FInv, FTypeOK, TypeOK
    <3>5. raw = flow' \/ raw # pending_fill_state
      <4> SUFFICES ASSUME raw = pending_fill_state PROVE raw = flow'
        OBVIOUS
      <4>1. RawDirection(last_level_permille, depth_to_permille(before)) = raw
        BY <1>8, <2>1, <3>1 DEF Directions
      <4>2. Moved(depth, depth', dir) /\ Moved(before, depth, dir) /\ flow' = dir
        BY <1>3, <2>1, <2>4, <3>1
      <4>3. raw = RawDirection(depth_to_permille(depth'), last_level_permille)
        BY <3>3 DEF raw
      <4> QED
        BY <1>1, <3>2, <3>4, <4>1, <4>2, <4>3, SpikeReturns
    <3>6. fill_state = flow'
      BY <2>4 DEF TrendInv, TrendSettled
    <3>7. fill_state' = flow'
      BY <1>8, <2>1, <3>5, <3>6
    <3>8. clean' = 1
      BY <1>2, <1>3, <2>1, <2>4 DEF RecordFlow, Count
    <3> QED
      BY <3>7, <3>8 DEF SpikeRemembered
  <2>5. CASE settled /\ flow' = flow /\ spike # 0 /\ clean = 3
    <3>1. clean' = 0
      BY <2>5 DEF RecordFlow
    <3>2. fill_state = flow' /\ pending_fill_state = "UNKNOWN"
      BY <2>5 DEF TrendInv, TrendSettled
    <3>3. /\ fill_state' = flow'
          /\ pending_fill_state' \in {"UNKNOWN", raw}
      BY <1>8, <2>1, <3>2 DEF Directions
    <3>4. raw = RawDirection(last_level_permille', depth_to_permille(depth))
      <4>1. last_level_permille = depth_to_permille(depth)
        BY <2>5 DEF TrendInv, LevelKnown
      <4>2. last_level_permille' = level
        BY <1>3, <1>6, <2>1 DEF Successes
      <4> QED
        BY <4>1, <4>2 DEF raw
    <3>5. Moved(depth, depth', flow') /\ depth \in 0..EmptyEntry.depth
      BY <1>1, <1>3, <2>1, Entries DEF EmptyEntry, LUT_SIZE
    <3>6. SpikeRemembered'
      BY <3>3, <3>4, <3>5 DEF SpikeRemembered
    <3> QED
      BY <3>1, <3>3, <3>6
  <2> QED
    BY <1>2, <1>5, <2>2, <2>3, <2>4, <2>5
<1> QED
  BY <1>7, <1>10, <1>11 DEF TrendInv

\* With the constants of the code and water that moves 8 mm a minute or more,
\* the confirmed trend is the flow whenever the readings allow it, in every part
\* of the tank and for spikes of every size.
THEOREM TrendIsFlow ==
  ASSUME LevelDeltaMin = 5, Confirmations = 2, FlowPerMinute >= 8
  PROVE  FSpec => []TrendFollowsWater
<1>1. FInit => TrendInv
  BY DEF FInit, TrendInv, LevelKnown, FlowShown, TrendSettled, SpikeRemembered
<1>2. FInv /\ DepthInv /\ DepthInv' /\ TrendInv /\ [FNext]_tankVars => TrendInv'
  <2> SUFFICES ASSUME FInv, DepthInv, DepthInv', TrendInv, [FNext]_tankVars
               PROVE  TrendInv'
    OBVIOUS
  <2>1. CASE FNext
    <3>1. PICK dir \in Directions, sleep \in Nat, result \in UsResults, spike \in Int :
            /\ Flow(dir, sleep)
            /\ Measure(result, depth_to_permille(depth' + spike))
            /\ depth_to_permille(depth' + spike) \in Levels
            /\ RecordFlow(result, spike)
      BY <2>1, WakeUpParts
    <3> QED
      BY <3>1, TrendStep
  <2>2. CASE UNCHANGED tankVars
    BY <2>2 DEF tankVars, vars, trendVars, TrendInv, LevelKnown, FlowShown,
                TrendSettled, SpikeRemembered
  <2> QED
    BY <2>1, <2>2
<1>3. TrendInv => TrendFollowsWater
  BY DEF TrendInv, TrendSettled, TrendFollowsWater
<1> QED
  BY <1>1, <1>2, <1>3, FInvariant, DepthInvariant, PTL DEF FSpec
=============================================================================
