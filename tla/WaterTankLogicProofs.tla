------------------------ MODULE WaterTankLogicProofs ------------------------
(***************************************************************************)
(* Proofs about WaterTankLogicHistory, for any set of levels, any smallest *)
(* change, any window of two samples or more and any failure threshold.    *)
(*                                                                         *)
(* HInv is the inductive invariant: types, the consistency of the          *)
(* confirmation window, its relation to the samples recorded in streak,    *)
(* and the relation of the failure counter to the readings recorded in     *)
(* opposed.                                                                *)
(***************************************************************************)
EXTENDS WaterTankLogicHistory, TLAPS

\* Inside the deadband the node must have seen a reading that speaks against
\* its mode; without one the counter is where the last change left it.
ModeMatchesReadings ==
  opposed = 0 => IF backup_mode_active
                 THEN consecutive_failures = FailuresThreshold
                 ELSE consecutive_failures <= BackupExitThreshold

HInv ==
  /\ HTypeOK
  /\ WindowConsistent
  /\ WindowMatchesSamples
  /\ ModeFollowsFailures
  /\ ModeMatchesReadings

USE LevelsAssumption, LevelDeltaMinAssumption, ConfirmationsAssumption,
    FailuresThresholdAssumption

-----------------------------------------------------------------------------
\* RawDirection classifies every pair of levels.
LEMMA RawDirectionType ==
  ASSUME NEW current, NEW last
  PROVE  RawDirection(current, last) \in Directions
BY DEF RawDirection, Directions

\* A reading that is no success leaves trend, window and recorded samples.
LEMMA FailureKeepsTrend ==
  ASSUME NEW result \in UsResults, NEW level \in Levels,
         HMeasure(result, level), result \notin Successes
  PROVE  UNCHANGED <<trendVars, streak>>
BY DEF HMeasure, Measure, ProcessReading, RecordTrend, trendVars

\* update_fill_state keeps the confirmation window well formed and in step
\* with the samples behind it.
LEMMA WindowStep ==
  ASSUME HInv, NEW result \in UsResults, NEW level \in Levels,
         HMeasure(result, level)
  PROVE  /\ last_level_permille' \in Levels \cup {0}
         /\ fill_state' \in FillStates
         /\ pending_fill_state' \in FillStates
         /\ pending_state_count' \in 0..(Confirmations - 1)
         /\ streak' \in [dir : FillStates, len : 0..Confirmations]
         /\ WindowConsistent'
         /\ WindowMatchesSamples'
<1> DEFINE raw == RawDirection(level, last_level_permille)
<1>0. raw \in Directions
  BY RawDirectionType
<1>1. CASE result \notin Successes
  <2>1. UNCHANGED <<trendVars, streak>>
    BY <1>1, FailureKeepsTrend
  <2> QED
    BY <2>1 DEF HInv, HTypeOK, TypeOK, WindowConsistent, WindowMatchesSamples,
                trendVars
<1>2. CASE result \in Successes /\ last_level_permille = 0
  <2>1. /\ fill_state' = "STABLE"
        /\ pending_fill_state' = "UNKNOWN"
        /\ pending_state_count' = 0
        /\ last_level_permille' = level
        /\ streak' = [dir |-> "UNKNOWN", len |-> 0]
    BY <1>2 DEF HMeasure, Measure, ProcessReading, UpdateFillState, Settle,
                RecordTrend, Trend!NoStreak
  <2> QED
    BY <2>1 DEF WindowConsistent, WindowMatchesSamples, FillStates, Directions
<1>3. CASE result \in Successes /\ last_level_permille # 0
  <2>1. /\ last_level_permille' = level
        /\ streak' = Trend!Extended(streak, raw)
        /\ UpdateFillState(level)
        /\ fill_state # "UNKNOWN"
    BY <1>3 DEF HMeasure, Measure, ProcessReading, RecordTrend, HInv,
                WindowConsistent
  <2>2. streak' \in [dir : FillStates, len : 0..Confirmations]
    BY <2>1, <1>0 DEF Trend!Extended, HInv, HTypeOK, FillStates
  <2>3. CASE fill_state = raw
    <3>1. /\ fill_state' = raw
          /\ pending_fill_state' = "UNKNOWN"
          /\ pending_state_count' = 0
      BY <1>3, <2>1, <2>3 DEF UpdateFillState, Agree, Settle
    <3>2. streak'.dir = raw
      BY <2>1 DEF Trend!Extended
    <3> QED
      BY <1>0, <2>1, <2>2, <3>1, <3>2
      DEF WindowConsistent, WindowMatchesSamples, FillStates, Directions
  <2>4. CASE fill_state # raw /\ raw = pending_fill_state
    <3>1. Support(raw)
      BY <1>3, <2>1, <2>4 DEF UpdateFillState
    <3>2. /\ pending_state_count \in 1..(Confirmations - 1)
          /\ streak = [dir |-> raw, len |-> pending_state_count]
      BY <1>0, <2>4 DEF HInv, HTypeOK, TypeOK, WindowConsistent,
                        WindowMatchesSamples, Directions
    <3>3. streak' = [dir |-> raw, len |-> pending_state_count + 1]
      BY <2>1, <3>2 DEF Trend!Extended
    <3>4. CASE pending_state_count + 1 >= Confirmations
      BY <1>0, <2>1, <2>2, <3>1, <3>3, <3>4
      DEF Support, Settle, WindowConsistent, WindowMatchesSamples, FillStates,
          Directions
    <3>5. CASE pending_state_count + 1 < Confirmations
      <4>1. /\ pending_state_count' = pending_state_count + 1
            /\ fill_state' = fill_state
            /\ pending_fill_state' = raw
        BY <2>4, <3>1, <3>2, <3>5 DEF Support
      <4> QED
        BY <1>0, <2>1, <2>2, <2>4, <3>2, <3>3, <3>5, <4>1
        DEF HInv, HTypeOK, TypeOK, WindowConsistent, WindowMatchesSamples,
            FillStates, Directions
    <3> QED
      BY <3>2, <3>4, <3>5
  <2>5. CASE fill_state # raw /\ raw # pending_fill_state
    <3>1. /\ fill_state' = fill_state
          /\ pending_fill_state' = raw
          /\ pending_state_count' = 1
      BY <1>3, <2>1, <2>5 DEF UpdateFillState, Challenge
    <3>2. streak' = [dir |-> raw, len |-> 1]
      <4>1. streak.len > 0 => streak.dir # raw
        BY <2>5 DEF HInv, HTypeOK, TypeOK, WindowMatchesSamples
      <4>2. streak.len = 0 => streak.len + 1 = 1
        OBVIOUS
      <4>3. streak.len \in 0..Confirmations
        BY DEF HInv, HTypeOK
      <4> QED
        BY <2>1, <4>1, <4>2, <4>3 DEF Trend!Extended
    <3> QED
      BY <1>0, <2>1, <2>2, <2>5, <3>1, <3>2
      DEF HInv, HTypeOK, TypeOK, WindowConsistent, WindowMatchesSamples,
          FillStates, Directions
  <2> QED
    BY <2>3, <2>4, <2>5
<1> QED
  BY <1>1, <1>2, <1>3

\* At a mode change the counter crosses a threshold by one, so it stood
\* inside the deadband and the reading spoke against the mode.
LEMMA ModeChange ==
  ASSUME HInv, NEW result \in UsResults, NEW level \in Levels,
         HMeasure(result, level), backup_mode_active' # backup_mode_active
  PROVE  /\ consecutive_failures = FailuresThreshold - 1
         /\ Opposes(result)
         /\ IF backup_mode_active'
            THEN consecutive_failures' = FailuresThreshold
            ELSE consecutive_failures' = BackupExitThreshold
<1>1. /\ consecutive_failures' = FailuresAfter(result)
      /\ backup_mode_active' = BackupAfter(consecutive_failures')
  BY DEF HMeasure, Measure, UpdateOperationMode
<1>2. /\ consecutive_failures \in 0..FailuresThreshold
      /\ backup_mode_active \in BOOLEAN
  BY DEF HInv, HTypeOK, TypeOK
<1>3. CASE backup_mode_active = TRUE
  <2>1. backup_mode_active' = FALSE
    BY <1>1, <1>2, <1>3 DEF BackupAfter
  <2>2. consecutive_failures' <= BackupExitThreshold
    BY <1>1, <1>3, <2>1 DEF BackupAfter
  <2>3. consecutive_failures > BackupExitThreshold
    BY <1>3 DEF HInv, ModeFollowsFailures
  <2> QED
    BY <1>1, <1>2, <1>3, <2>1, <2>2, <2>3
    DEF FailuresAfter, BackupExitThreshold, Opposes
<1>4. CASE backup_mode_active = FALSE
  <2>1. backup_mode_active' = TRUE
    BY <1>1, <1>2, <1>4 DEF BackupAfter
  <2>2. consecutive_failures' >= FailuresThreshold
    BY <1>1, <1>4, <2>1 DEF BackupAfter
  <2>3. consecutive_failures < FailuresThreshold
    BY <1>4 DEF HInv, ModeFollowsFailures
  <2> QED
    BY <1>1, <1>2, <1>4, <2>1, <2>2, <2>3 DEF FailuresAfter, Opposes
<1> QED
  BY <1>2, <1>3, <1>4

\* update_operation_mode keeps the counter in its range, and the counter, the
\* mode and the readings since the last mode change in step.
LEMMA ModeStep ==
  ASSUME HInv, NEW result \in UsResults, NEW level \in Levels,
         HMeasure(result, level)
  PROVE  /\ last_result' \in UsResults
         /\ consecutive_failures' \in 0..FailuresThreshold
         /\ backup_mode_active' \in BOOLEAN
         /\ opposed' \in 0..2
         /\ ModeFollowsFailures'
         /\ ModeMatchesReadings'
<1>1. /\ last_result' = result
      /\ consecutive_failures' = FailuresAfter(result)
      /\ backup_mode_active' = BackupAfter(FailuresAfter(result))
  BY DEF HMeasure, Measure, ProcessReading, UpdateOperationMode
<1>2. /\ consecutive_failures \in 0..FailuresThreshold
      /\ backup_mode_active \in BOOLEAN
      /\ opposed \in 0..2
  BY DEF HInv, HTypeOK, TypeOK
<1>3. consecutive_failures' \in 0..FailuresThreshold
  BY <1>1, <1>2 DEF FailuresAfter
<1>4. backup_mode_active' \in BOOLEAN
  BY <1>1, <1>2 DEF BackupAfter
<1>5. opposed' \in 0..2
  BY <1>2 DEF HMeasure, RecordMode
<1>6. ModeFollowsFailures'
  BY <1>1, <1>2, <1>3
  DEF HInv, ModeFollowsFailures, BackupAfter, BackupExitThreshold
<1>7. ModeMatchesReadings'
  <2> SUFFICES ASSUME opposed' = 0
               PROVE  IF backup_mode_active'
                      THEN consecutive_failures' = FailuresThreshold
                      ELSE consecutive_failures' <= BackupExitThreshold
    BY DEF ModeMatchesReadings, BackupExitThreshold
  <2>1. CASE backup_mode_active' # backup_mode_active
    BY <1>3, <2>1, ModeChange DEF BackupExitThreshold
  <2>2. CASE backup_mode_active' = backup_mode_active
    <3>1. opposed = 0 /\ ~Opposes(result)
      BY <1>2, <2>2 DEF HMeasure, RecordMode
    <3> QED
      BY <1>1, <1>2, <2>2, <3>1
      DEF HInv, ModeMatchesReadings, FailuresAfter, Opposes, Successes,
          BackupExitThreshold, UsResults, UsFailures
  <2> QED
    BY <2>1, <2>2
<1> QED
  BY <1>1, <1>3, <1>4, <1>5, <1>6, <1>7

\* The strengthened invariant holds in every reachable state.
THEOREM LogicInvariant == HSpec => []HInv
<1>1. HInit => HInv
  <2> SUFFICES ASSUME HInit
               PROVE  HInv
    OBVIOUS
  <2>1. TypeOK
    <3>1. pending_state_count \in 0..(Confirmations - 1)
      BY DEF HInit, Init
    <3>2. consecutive_failures \in 0..FailuresThreshold
      BY DEF HInit, Init
    <3>3. last_result \in UsResults
      BY DEF HInit, Init, UsResults, UsFailures
    <3> QED
      BY <3>1, <3>2, <3>3 DEF HInit, Init, TypeOK, FillStates, Directions
  <2>2. HTypeOK
    <3>1. streak \in [dir : FillStates, len : 0..Confirmations]
      BY DEF HInit, Trend!NoStreak, FillStates
    <3>2. opposed \in 0..2
      BY DEF HInit
    <3> QED
      BY <2>1, <3>1, <3>2 DEF HTypeOK
  <2>3. WindowConsistent /\ WindowMatchesSamples
    BY DEF HInit, Init, WindowConsistent, WindowMatchesSamples, Trend!NoStreak
  <2>4. ModeFollowsFailures /\ ModeMatchesReadings
    BY DEF HInit, Init, ModeFollowsFailures, ModeMatchesReadings,
           BackupExitThreshold
  <2> QED
    BY <2>2, <2>3, <2>4 DEF HInv
<1>2. HInv /\ [HNext]_hvars => HInv'
  <2> SUFFICES ASSUME HInv, [HNext]_hvars
               PROVE  HInv'
    OBVIOUS
  <2>1. CASE HNext
    <3>1. PICK result \in UsResults, level \in Levels : HMeasure(result, level)
      BY <2>1 DEF HNext
    <3> QED
      BY <3>1, WindowStep, ModeStep DEF HInv, HTypeOK, TypeOK
  <2>2. CASE UNCHANGED hvars
    BY <2>2 DEF hvars, vars, trendVars, modeVars, HInv, HTypeOK, TypeOK,
                WindowConsistent, WindowMatchesSamples, ModeFollowsFailures,
                ModeMatchesReadings, BackupExitThreshold
  <2> QED
    BY <2>1, <2>2
<1> QED
  BY <1>1, <1>2, PTL DEF HSpec

-----------------------------------------------------------------------------
\* Type correctness of the statistics and of the recorded history.
THEOREM LogicTypeCorrect == HSpec => []HTypeOK
BY LogicInvariant, PTL DEF HInv

\* The confirmation window is open exactly when a rival trend has support,
\* and the trend is unknown only as long as no level is known.
THEOREM WindowIsConsistent == HSpec => []WindowConsistent
BY LogicInvariant, PTL DEF HInv

\* The pending trend is what the last samples showed, one by one.
THEOREM WindowIsFaithful == HSpec => []WindowMatchesSamples
BY LogicInvariant, PTL DEF HInv

\* Counter and mode agree whenever the node wakes up.
THEOREM ModeIsConsistent == HSpec => []ModeFollowsFailures
BY LogicInvariant, PTL DEF HInv

-----------------------------------------------------------------------------
\* The mode changes only after two readings against it: the deadband between
\* the two thresholds of update_operation_mode is wide enough.
THEOREM NoModeFlapping == HSpec => TwoReadingsPerModeChange
<1> DEFINE Flip == backup_mode_active' # backup_mode_active
                     => opposed >= 1 /\ Opposes(last_result')
<1>1. HInv /\ [HNext]_hvars => [Flip]_hvars
  <2> SUFFICES ASSUME HInv, HNext
               PROVE  Flip
    OBVIOUS
  <2>1. PICK result \in UsResults, level \in Levels : HMeasure(result, level)
    BY DEF HNext
  <2>2. last_result' = result /\ opposed \in 0..2
    BY <2>1 DEF HMeasure, Measure, ProcessReading, HInv, HTypeOK
  <2>3. SUFFICES ASSUME backup_mode_active' # backup_mode_active
                 PROVE  opposed # 0 /\ Opposes(result)
    BY <2>2
  <2>4. /\ consecutive_failures = FailuresThreshold - 1
        /\ Opposes(result)
    BY <2>1, <2>3, ModeChange
  <2>5. opposed # 0
    BY <2>4 DEF HInv, ModeMatchesReadings, BackupExitThreshold
  <2> QED
    BY <2>4, <2>5
<1> QED
  BY <1>1, LogicInvariant, PTL DEF HSpec, TwoReadingsPerModeChange

-----------------------------------------------------------------------------
\* A reading maps to a step of FillTrend, a failed one to a stutter.
LEMMA TrendStep ==
  ASSUME HInv, NEW result \in UsResults, NEW level \in Levels,
         HMeasure(result, level)
  PROVE  Trend!Next \/ UNCHANGED <<fill_state, streak>>
<1> DEFINE raw == RawDirection(level, last_level_permille)
<1>0. raw \in Directions
  BY RawDirectionType
<1>1. CASE result \notin Successes
  BY <1>1, FailureKeepsTrend DEF trendVars
<1>2. CASE result \in Successes /\ last_level_permille = 0
  BY <1>2 DEF HMeasure, Measure, ProcessReading, UpdateFillState, Settle,
              RecordTrend, Trend!Next, Trend!Restart
<1>3. CASE result \in Successes /\ last_level_permille # 0
  <2>1. /\ streak' = Trend!Extended(streak, raw)
        /\ UpdateFillState(level)
        /\ fill_state # "UNKNOWN"
    BY <1>3 DEF HMeasure, Measure, ProcessReading, RecordTrend, HInv,
                WindowConsistent
  <2>2. streak \in [dir : FillStates, len : 0..Confirmations]
    BY DEF HInv, HTypeOK
  <2>3. fill_state' = IF streak'.len >= Confirmations THEN raw ELSE fill_state
    <3>1. CASE fill_state = raw
      BY <1>3, <2>1, <3>1 DEF UpdateFillState, Agree, Settle
    <3>2. CASE fill_state # raw /\ raw = pending_fill_state
      <4>1. Support(raw)
        BY <1>3, <2>1, <3>2 DEF UpdateFillState
      <4>2. /\ pending_state_count \in 1..(Confirmations - 1)
            /\ streak = [dir |-> raw, len |-> pending_state_count]
        BY <1>0, <3>2 DEF HInv, HTypeOK, TypeOK, WindowConsistent,
                          WindowMatchesSamples, Directions
      <4>3. streak'.len = pending_state_count + 1
        BY <2>1, <4>2 DEF Trend!Extended
      <4> QED
        BY <4>1, <4>2, <4>3 DEF Support, Settle
    <3>3. CASE fill_state # raw /\ raw # pending_fill_state
      <4>1. fill_state' = fill_state
        BY <1>3, <2>1, <3>3 DEF UpdateFillState, Challenge
      <4>2. streak.len > 0 => streak.dir # raw
        BY <3>3 DEF HInv, HTypeOK, TypeOK, WindowMatchesSamples
      <4>3. streak'.len = 1
        BY <2>1, <2>2, <4>2 DEF Trend!Extended
      <4> QED
        BY <4>1, <4>3
    <3> QED
      BY <3>1, <3>2, <3>3
  <2>4. Trend!Sample(raw)
    BY <2>1, <2>3 DEF Trend!Sample
  <2> QED
    BY <1>0, <2>4 DEF Trend!Next
<1> QED
  BY <1>1, <1>2, <1>3

\* The confirmation window implements the abstract trend follower.
THEOREM TrendRefinement == HSpec => ImplementsFillTrend
<1>1. HInit => Trend!Init
  BY DEF HInit, Init, Trend!Init
<1>2. HInv /\ [HNext]_hvars => [Trend!Next]_<<fill_state, streak>>
  <2>1. HInv /\ HNext => Trend!Next \/ UNCHANGED <<fill_state, streak>>
    BY TrendStep DEF HNext
  <2>2. UNCHANGED hvars => UNCHANGED <<fill_state, streak>>
    BY DEF hvars, vars, trendVars
  <2> QED
    BY <2>1, <2>2
<1> QED
  BY <1>1, <1>2, LogicInvariant, PTL DEF HSpec, ImplementsFillTrend, Trend!Spec
=============================================================================
