------------------------- MODULE StorageCycleProofs -------------------------
(***************************************************************************)
(* Proofs about StorageCycle, for any commit interval, any bound on the    *)
(* failed writes in a row, any set of firmware versions and any outcomes   *)
(* of the saves.                                                           *)
(*                                                                         *)
(* What bounds a loss of power is that the counter of sessions and the     *)
(* number of measurements flash lacks move together: one session adds one  *)
(* to each, and a save that fails after the counter was reset is paid for  *)
(* by commit_failures.  IInv states this for the copy in RAM, at every     *)
(* stage of a session, and for the copy in RTC memory.                     *)
(***************************************************************************)
EXTENDS StorageCycle, TLAPS

\* What the failed writes since the last good one may have cost.
Allowance == NvsCommitInterval * commit_failures

\* A copy that may be put to sleep: its next session is within the interval.
Kept(copy) ==
  /\ copy.cycles < NvsCommitInterval
  /\ copy.ahead <= copy.cycles + Allowance

TankInv ==
  /\ rtc_tank # NoCopy => Kept(rtc_tank)
  /\ phase = "loaded" /\ sound => tank.ahead + 1 <= tank.cycles + Allowance
  /\ phase = "measured" => tank.ahead <= tank.cycles + Allowance
  /\ phase \in {"saving_core", "saving_tank"} =>
       IF periodic
       THEN tank.cycles = 0 /\ tank.ahead <= NvsCommitInterval + Allowance
       ELSE Kept(tank)

\* Unless a commit of core data is pending or failed, flash has what RAM has.
CoreInFlash ==
  ~core_commit_failed /\ ~pending_core_commit => ~core.unsaved /\ core.fw = nvs_fw

CoreInv ==
  /\ CoreEventsAreDurable
  /\ phase \in {"core_loaded", "loaded"} /\ sound => CoreInFlash
  /\ phase \in {"measured", "saving_core"} => CoreInFlash

IInv == TypeOK /\ TankInv /\ CoreInv

USE IntervalAssumption, OutcomesAssumption, MaxFailuresAssumption,
    FirmwareAssumption, NoCopyAssumption

-----------------------------------------------------------------------------
\* The allowance is a number and grows by one interval with each failed write.
LEMMA AllowanceGrows ==
  ASSUME TypeOK
  PROVE  /\ Allowance \in Nat
         /\ NvsCommitInterval * (commit_failures + 1) = Allowance + NvsCommitInterval
         /\ NvsCommitInterval * (1 + commit_failures) = Allowance + NvsCommitInterval
         /\ NvsCommitInterval * 0 = 0
<1>1. NvsCommitInterval \in Nat /\ commit_failures \in Nat
  BY DEF TypeOK
<1>2. \A n, f \in Nat : /\ n * f \in Nat
                        /\ n * (f + 1) = n * f + n
                        /\ n * (1 + f) = n * f + n
                        /\ n * 0 = 0
  OBVIOUS
<1> QED
  BY <1>1, <1>2 DEF Allowance

\* A node fresh from the factory satisfies the invariant.
LEMMA InitStep ==
  ASSUME Init
  PROVE  IInv
<1>1. DefaultCore \in CoreData /\ DefaultTank \in TankData
  BY DEF DefaultCore, DefaultTank, CoreData, TankData
<1>2. 0 \in 0..(NvsCommitInterval - 1) /\ 0 \in 0..MaxCommitFailures
  OBVIOUS
<1>3. tank.cycles = 0
  BY DEF Init, StorageInit, DefaultTank
<1>4. TypeOK
  <2>1. /\ core \in CoreData /\ tank \in TankData
        /\ rtc_core = NoCopy /\ rtc_tank = NoCopy
    BY <1>1 DEF Init, StorageInit
  <2>2. /\ pending_core_commit \in BOOLEAN /\ pending_tank_commit \in BOOLEAN
        /\ periodic \in BOOLEAN /\ core_commit_failed \in BOOLEAN
        /\ sound \in BOOLEAN
    BY DEF Init, StorageInit
  <2>3. /\ nvs_fw \in Nat /\ nvs_cycles \in 0..(NvsCommitInterval - 1)
        /\ tank.cycles \in 0..NvsCommitInterval
        /\ commit_failures \in 0..MaxCommitFailures
    BY <1>2, <1>3 DEF Init, StorageInit
  <2>4. phase \in Phases
    BY DEF Init, Phases
  <2> QED
    BY <2>1, <2>2, <2>3, <2>4 DEF TypeOK
<1>5. TankInv /\ CoreInv
  BY DEF Init, StorageInit, TankInv, CoreInv, CoreEventsAreDurable
<1> QED
  BY <1>4, <1>5 DEF IInv

\* Loading core data touches no tank data; a sound session loads what flash has,
\* or what RTC memory has and flash need not have after a failed write.
LEMMA LoadCoreStep ==
  ASSUME IInv, NEW ok \in BOOLEAN, NEW boot_event \in BOOLEAN,
         LoadCore(ok, boot_event)
  PROVE  IInv'
<1>1. UNCHANGED Allowance
  BY DEF LoadCore, InitCoreStorage, nvsVars, Allowance
<1>2. UNCHANGED <<tank, pending_tank_commit, periodic, rtc_core, rtc_tank, nvs_fw,
                  nvs_cycles, commit_failures, core_commit_failed>>
  BY DEF LoadCore, InitCoreStorage, nvsVars, rtcVars
<1>3. core' \in CoreData /\ pending_core_commit' \in BOOLEAN
  BY DEF LoadCore, InitCoreStorage, DefaultCore, CoreData, IInv, TypeOK
<1>4. TypeOK'
  BY <1>2, <1>3 DEF LoadCore, Moves, IInv, TypeOK, Phases
<1>5. TankInv'
  BY <1>1, <1>2 DEF LoadCore, Moves, IInv, TankInv, Kept
<1>6. ok => CoreInFlash'
  BY <1>2 DEF LoadCore, InitCoreStorage, IInv, CoreInv, CoreEventsAreDurable,
              CoreInFlash
<1>7. CoreInv'
  BY <1>2, <1>6 DEF LoadCore, Moves, IInv, CoreInv, CoreEventsAreDurable
<1> QED
  BY <1>4, <1>5, <1>7 DEF IInv

\* Loading tank data counts the session: the counter gets ahead of the
\* measurements by the one this session may make.
LEMMA LoadTankStep ==
  ASSUME IInv, NEW ok \in BOOLEAN, LoadTank(ok)
  PROVE  IInv'
<1>1. UNCHANGED <<core, pending_core_commit, pending_tank_commit, periodic, rtc_core,
                  rtc_tank, nvs_fw, nvs_cycles, commit_failures, core_commit_failed>>
  BY DEF LoadTank, InitTankStorage, nvsVars, rtcVars
<1>2. UNCHANGED Allowance /\ Allowance \in Nat
  BY <1>1, AllowanceGrows DEF Allowance, IInv
<1>3. /\ StoredTank \in TankData
      /\ StoredTank.cycles \in 0..(NvsCommitInterval - 1)
      /\ StoredTank.ahead <= StoredTank.cycles + Allowance
  BY <1>2 DEF StoredTank, TankData, IInv, TypeOK, TankInv, Kept
<1>4. /\ ~ok => tank' = DefaultTank
      /\ ok => /\ tank' \in TankData
               /\ tank'.cycles = StoredTank.cycles + 1
               /\ tank'.ahead = StoredTank.ahead
  BY <1>3 DEF LoadTank, InitTankStorage, TankData
<1>5. TypeOK'
  BY <1>1, <1>3, <1>4 DEF LoadTank, Moves, IInv, TypeOK, Phases, DefaultTank, TankData
<1>6. TankInv'
  <2>1. sound' => tank'.ahead + 1 <= tank'.cycles + Allowance'
    BY <1>2, <1>3, <1>4 DEF LoadTank, TankData
  <2> QED
    BY <1>1, <1>2, <2>1 DEF LoadTank, Moves, IInv, TankInv, Kept
<1>7. CoreInv'
  BY <1>1 DEF LoadTank, Moves, IInv, CoreInv, CoreEventsAreDurable, CoreInFlash
<1> QED
  BY <1>5, <1>6, <1>7 DEF IInv

\* A version other than the recorded one asks for a commit.
LEMMA SeeVersionStep ==
  ASSUME IInv, NEW fw \in Firmware, SeeVersion(fw)
  PROVE  IInv'
<1>1. UNCHANGED <<tank, pending_tank_commit, periodic, rtc_core, rtc_tank, nvs_fw,
                  nvs_cycles, commit_failures, core_commit_failed>>
  BY DEF SeeVersion, UpdateRunningVersion, nvsVars, rtcVars
<1>2. /\ core' \in CoreData
      /\ pending_core_commit' \in BOOLEAN
      /\ ~pending_core_commit' => ~pending_core_commit /\ core' = core
  BY DEF SeeVersion, UpdateRunningVersion, IInv, TypeOK, CoreData
<1>3. TypeOK'
  BY <1>1, <1>2 DEF SeeVersion, Moves, IInv, TypeOK, Phases
<1>4. TankInv'
  BY <1>1 DEF SeeVersion, Moves, IInv, TankInv, Kept, Allowance
<1>5. CoreInv'
  BY <1>1, <1>2 DEF SeeVersion, Moves, IInv, CoreInv, CoreEventsAreDurable, CoreInFlash
<1> QED
  BY <1>3, <1>4, <1>5 DEF IInv

\* A measurement uses up the lead of the counter.
LEMMA RecordStep ==
  ASSUME IInv, Record
  PROVE  IInv'
<1>1. UNCHANGED <<core, pending_core_commit, pending_tank_commit, periodic, rtc_core,
                  rtc_tank, nvs_fw, nvs_cycles, commit_failures, core_commit_failed>>
  BY DEF Record, RecordMeasurement, nvsVars, rtcVars
<1>2. /\ tank' \in TankData
      /\ tank'.cycles = tank.cycles
      /\ tank'.ahead = tank.ahead + 1
  BY DEF Record, RecordMeasurement, IInv, TypeOK, TankData
<1>3. TypeOK'
  BY <1>1, <1>2 DEF Record, Moves, IInv, TypeOK, Phases
<1>4. TankInv'
  BY <1>1, <1>2 DEF Record, Moves, IInv, TankInv, Kept, Allowance
<1>5. CoreInv'
  BY <1>1 DEF Record, Moves, IInv, CoreInv, CoreEventsAreDurable, CoreInFlash
<1> QED
  BY <1>3, <1>4, <1>5 DEF IInv

\* Every event of a session asks for the commit it needs.
LEMMA RecordEventStep ==
  ASSUME IInv, RecordEvent
  PROVE  IInv'
<1>1. UNCHANGED <<tank, periodic, rtc_core, rtc_tank, nvs_fw, nvs_cycles,
                  commit_failures, core_commit_failed>>
  BY DEF RecordEvent, RecordTimeSync, RequestCoreCommit, RequestFullCommit, nvsVars,
         rtcVars
<1>2. core' \in CoreData /\ pending_core_commit' = TRUE
      /\ pending_tank_commit' \in BOOLEAN
  BY DEF RecordEvent, RecordTimeSync, RequestCoreCommit, RequestFullCommit, IInv,
         TypeOK, CoreData
<1>3. TypeOK'
  BY <1>1, <1>2 DEF RecordEvent, Moves, IInv, TypeOK, Phases
<1>4. TankInv'
  BY <1>1 DEF RecordEvent, Moves, IInv, TankInv, Kept, Allowance
<1>5. CoreInv'
  BY <1>1, <1>2 DEF RecordEvent, Moves, IInv, CoreInv, CoreEventsAreDurable, CoreInFlash
<1> QED
  BY <1>3, <1>4, <1>5 DEF IInv

\* Resetting the counter is safe because it makes the save periodic: flash is
\* written, or one more failure is counted.
LEMMA StartSaveStep ==
  ASSUME IInv, StartSave
  PROVE  IInv'
<1>1. UNCHANGED <<core, pending_core_commit, pending_tank_commit, rtc_core, rtc_tank,
                  nvs_fw, nvs_cycles, commit_failures, core_commit_failed>>
  BY DEF StartSave, BeginSave, nvsVars, rtcVars
<1>2. UNCHANGED Allowance
  BY <1>1 DEF Allowance
<1>3. /\ periodic' = (tank.cycles >= NvsCommitInterval)
      /\ tank' = IF periodic' THEN [tank EXCEPT !.cycles = 0] ELSE tank
  BY DEF StartSave, BeginSave
<1>4. CASE tank.cycles >= NvsCommitInterval
  <2>1. /\ periodic' = TRUE /\ tank' \in TankData
        /\ tank'.cycles = 0 /\ tank'.ahead = tank.ahead
    BY <1>3, <1>4 DEF IInv, TypeOK, TankData
  <2>2. tank'.ahead <= NvsCommitInterval + Allowance
    BY <2>1, AllowanceGrows DEF StartSave, Moves, IInv, TankInv, TypeOK, TankData
  <2>3. TypeOK'
    BY <1>1, <2>1 DEF StartSave, Moves, IInv, TypeOK, Phases
  <2>4. TankInv'
    BY <1>1, <1>2, <2>1, <2>2 DEF StartSave, Moves, IInv, TankInv, Kept
  <2> QED
    BY <1>1, <2>3, <2>4 DEF StartSave, Moves, IInv, CoreInv, CoreEventsAreDurable,
                            CoreInFlash
<1>5. CASE ~(tank.cycles >= NvsCommitInterval)
  <2>1. periodic' \in BOOLEAN /\ ~periodic'
    <3>1. (tank.cycles >= NvsCommitInterval) = FALSE
      BY <1>5
    <3> QED
      BY <1>3, <3>1, Zenon
  <2>2. tank' = tank
    BY <1>3, <2>1
  <2>3. Kept(tank)
    BY <1>5 DEF StartSave, Moves, Kept, IInv, TankInv, TypeOK
  <2>4. TypeOK'
    BY <1>1, <2>1, <2>2 DEF StartSave, Moves, IInv, TypeOK, Phases
  <2>5. TankInv'
    BY <1>1, <1>2, <2>1, <2>2, <2>3 DEF StartSave, Moves, IInv, TankInv, Kept
  <2> QED
    BY <1>1, <2>4, <2>5 DEF StartSave, Moves, IInv, CoreInv, CoreEventsAreDurable,
                            CoreInFlash
<1> QED
  BY <1>4, <1>5

\* A core commit that is neither pending nor forced finds flash up to date.
LEMMA StoreCoreStep ==
  ASSUME IInv, NEW outcome \in SaveOutcomes, StoreCore(outcome)
  PROVE  IInv'
<1> DEFINE force == pending_core_commit \/ periodic
           saved == IF force THEN [core EXCEPT !.unsaved = FALSE] ELSE core
<1>1. UNCHANGED <<tank, pending_tank_commit, periodic, rtc_tank, nvs_cycles,
                  commit_failures>>
  BY DEF StoreCore, SaveCore
<1>2. core \in CoreData /\ saved \in CoreData /\ saved.fw = core.fw
  BY DEF IInv, TypeOK, CoreData
<1>3. CoreInFlash
  BY DEF StoreCore, Moves, IInv, CoreInv
<1>4. /\ core' \in CoreData /\ rtc_core' \in CoreData \cup {NoCopy} /\ nvs_fw' \in Nat
      /\ pending_core_commit' \in BOOLEAN /\ core_commit_failed' \in BOOLEAN
      /\ CoreEventsAreDurable'
  <2>1. CASE /\ core' = saved /\ rtc_core' = saved
             /\ nvs_fw' = IF force THEN core.fw ELSE nvs_fw
             /\ core_commit_failed' = (core_commit_failed /\ ~force)
             /\ pending_core_commit' = FALSE
    <3>1. CASE force
      <4>1. saved.unsaved = FALSE /\ nvs_fw' = saved.fw /\ core.fw \in Nat
        BY <1>2, <2>1, <3>1 DEF CoreData
      <4> QED
        BY <1>2, <2>1, <4>1 DEF IInv, TypeOK, CoreEventsAreDurable
    <3>2. CASE ~force
      <4>1. saved = core /\ nvs_fw' = nvs_fw /\ core_commit_failed' = core_commit_failed
        BY <2>1, <3>2 DEF IInv, TypeOK
      <4> QED
        BY <1>2, <1>3, <2>1, <3>2, <4>1 DEF IInv, TypeOK, CoreEventsAreDurable, CoreInFlash
    <3> QED
      BY <3>1, <3>2
  <2>2. CASE /\ rtc_core' = core
             /\ core_commit_failed' = TRUE
             /\ UNCHANGED <<core, nvs_fw, pending_core_commit>>
    BY <1>2, <2>2 DEF IInv, TypeOK, CoreEventsAreDurable
  <2>3. CASE UNCHANGED <<core, rtc_core, nvs_fw, core_commit_failed, pending_core_commit>>
    BY <1>2, <2>3 DEF IInv, TypeOK, CoreInv, CoreEventsAreDurable
  <2> QED
    BY <2>1, <2>2, <2>3 DEF StoreCore, SaveCore
<1>5. TypeOK'
  BY <1>1, <1>4 DEF StoreCore, Moves, IInv, TypeOK, Phases
<1>6. TankInv'
  BY <1>1 DEF StoreCore, Moves, IInv, TankInv, Kept, Allowance
<1>7. CoreInv'
  BY <1>4 DEF StoreCore, Moves, CoreInv
<1> QED
  BY <1>5, <1>6, <1>7 DEF IInv

\* A write that fails is paid for by one more interval of allowance.
LEMMA StoreTankStep ==
  ASSUME IInv, NEW outcome \in SaveOutcomes, StoreTank(outcome)
  PROVE  IInv'
<1> DEFINE saved == IF ForceTank THEN [tank EXCEPT !.ahead = 0] ELSE tank
<1>1. UNCHANGED <<core, pending_core_commit, periodic, rtc_core, nvs_fw,
                  core_commit_failed>>
  BY DEF StoreTank, SaveTank
<1>2. /\ tank \in TankData /\ saved \in TankData /\ saved.cycles = tank.cycles
      /\ ForceTank => saved.ahead = 0
      /\ tank.cycles \in 0..(NvsCommitInterval - 1)
      /\ tank.ahead <= NvsCommitInterval + Allowance
      /\ ~ForceTank => Kept(tank)
  <2>1. tank \in TankData /\ tank.cycles \in Nat /\ tank.ahead \in Nat
    BY DEF IInv, TypeOK, TankData
  <2>2. /\ saved \in TankData /\ saved.cycles = tank.cycles
        /\ ForceTank => saved.ahead = 0
    BY <2>1 DEF TankData
  <2>3. IF periodic THEN tank.cycles = 0 /\ tank.ahead <= NvsCommitInterval + Allowance
                    ELSE Kept(tank)
    BY DEF StoreTank, Moves, IInv, TankInv
  <2> QED
    BY <2>1, <2>2, <2>3, AllowanceGrows DEF IInv, Kept, ForceTank
<1>3. /\ tank' \in TankData /\ rtc_tank' \in TankData \cup {NoCopy}
      /\ tank'.cycles \in 0..NvsCommitInterval
      /\ rtc_tank' # NoCopy => rtc_tank'.cycles \in 0..(NvsCommitInterval - 1)
      /\ nvs_cycles' \in 0..(NvsCommitInterval - 1)
      /\ commit_failures' \in 0..MaxCommitFailures
      /\ pending_tank_commit' \in BOOLEAN
      /\ rtc_tank' # NoCopy => Kept(rtc_tank)'
  <2>1. CASE /\ tank' = saved /\ rtc_tank' = saved
             /\ nvs_cycles' = IF ForceTank THEN tank.cycles ELSE nvs_cycles
             /\ commit_failures' = IF ForceTank THEN 0 ELSE commit_failures
             /\ pending_tank_commit' = FALSE
    <3>1. CASE ForceTank
      <4>1. Allowance' = 0
        BY <2>1, <3>1, AllowanceGrows DEF Allowance, IInv
      <4>2. /\ saved.ahead = 0 /\ saved.cycles \in 0..(NvsCommitInterval - 1)
            /\ nvs_cycles' = tank.cycles /\ commit_failures' = 0
        BY <1>2, <2>1, <3>1
      <4>3. Kept(rtc_tank)'
        BY <2>1, <4>1, <4>2 DEF Kept
      <4>4. /\ saved.cycles \in 0..NvsCommitInterval
            /\ commit_failures' \in 0..MaxCommitFailures
        BY <1>2, <4>2 DEF IInv, TypeOK
      <4> QED
        BY <1>2, <2>1, <4>2, <4>3, <4>4
    <3>2. CASE ~ForceTank
      <4>1. saved = tank /\ UNCHANGED <<nvs_cycles, commit_failures, Allowance>>
        BY <2>1, <3>2 DEF Allowance
      <4>2. Kept(rtc_tank)'
        BY <1>2, <2>1, <3>2, <4>1 DEF Kept
      <4>3. /\ nvs_cycles' \in 0..(NvsCommitInterval - 1)
            /\ commit_failures' \in 0..MaxCommitFailures
        BY <4>1 DEF IInv, TypeOK
      <4>4. tank.cycles \in 0..NvsCommitInterval
        BY DEF IInv, TypeOK
      <4> QED
        BY <1>2, <2>1, <4>1, <4>2, <4>3, <4>4
    <3> QED
      BY <3>1, <3>2
  <2>2. CASE /\ commit_failures < MaxCommitFailures
             /\ rtc_tank' = tank
             /\ commit_failures' = commit_failures + 1
             /\ UNCHANGED <<tank, nvs_cycles, pending_tank_commit>>
    <3>1. Allowance' = Allowance + NvsCommitInterval /\ Allowance \in Nat
      BY <2>2, AllowanceGrows DEF Allowance, IInv
    <3>2. Kept(rtc_tank)'
      BY <1>2, <2>2, <3>1 DEF Kept, TankData
    <3>3. commit_failures' \in 0..MaxCommitFailures
      BY <2>2 DEF IInv, TypeOK
    <3> QED
      BY <1>2, <2>2, <3>2, <3>3 DEF IInv, TypeOK
  <2>3. CASE UNCHANGED <<tank, rtc_tank, nvs_cycles, commit_failures,
                         pending_tank_commit>>
    BY <2>3 DEF IInv, TypeOK, TankInv, Kept, Allowance
  <2> QED
    BY <2>1, <2>2, <2>3 DEF StoreTank, SaveTank
<1>4. TypeOK'
  BY <1>1, <1>3 DEF StoreTank, Moves, IInv, TypeOK, Phases
<1>5. TankInv'
  BY <1>3 DEF StoreTank, Moves, TankInv
<1>6. CoreInv'
  BY <1>1 DEF StoreTank, Moves, IInv, CoreInv, CoreEventsAreDurable
<1> QED
  BY <1>4, <1>5, <1>6 DEF IInv

\* A reset forgets RAM; what RTC memory keeps was good enough to sleep on.
LEMMA ResetStep ==
  ASSUME IInv, WakeUp \/ Restart
  PROVE  IInv'
<1>1. /\ core' = DefaultCore /\ tank' = DefaultTank
      /\ pending_core_commit' = FALSE /\ pending_tank_commit' = FALSE
      /\ periodic' = FALSE
      /\ UNCHANGED <<nvs_fw, nvs_cycles, commit_failures, core_commit_failed>>
      /\ phase' = "booting" /\ sound' = TRUE
  BY DEF WakeUp, Restart, WakeStorage, RestartStorage, ForgetRam, nvsVars
<1>2. \/ UNCHANGED <<rtc_core, rtc_tank>>
      \/ rtc_core' = NoCopy /\ rtc_tank' = NoCopy
  BY DEF WakeUp, Restart, WakeStorage, RestartStorage, rtcVars
<1>3. DefaultCore \in CoreData /\ DefaultTank \in TankData /\ DefaultTank.cycles = 0
  BY DEF DefaultCore, DefaultTank, CoreData, TankData
<1>4. TypeOK'
  <2>1. /\ core' \in CoreData /\ tank' \in TankData
        /\ rtc_core' \in CoreData \cup {NoCopy} /\ rtc_tank' \in TankData \cup {NoCopy}
        /\ rtc_tank' # NoCopy => rtc_tank'.cycles \in 0..(NvsCommitInterval - 1)
    BY <1>1, <1>2, <1>3 DEF IInv, TypeOK
  <2>2. /\ pending_core_commit' \in BOOLEAN /\ pending_tank_commit' \in BOOLEAN
        /\ periodic' \in BOOLEAN /\ core_commit_failed' \in BOOLEAN
        /\ sound' \in BOOLEAN
    BY <1>1 DEF IInv, TypeOK
  <2>3. /\ nvs_fw' \in Nat /\ nvs_cycles' \in 0..(NvsCommitInterval - 1)
        /\ commit_failures' \in 0..MaxCommitFailures
    BY <1>1 DEF IInv, TypeOK
  <2>4. tank'.cycles \in 0..NvsCommitInterval
    BY <1>1, <1>3
  <2>5. phase' \in Phases
    BY <1>1 DEF Phases
  <2> QED
    BY <2>1, <2>2, <2>3, <2>4, <2>5 DEF TypeOK
<1>5. TankInv'
  BY <1>1, <1>2 DEF IInv, TankInv, Kept, Allowance
<1>6. CoreInv'
  BY <1>1, <1>2 DEF IInv, CoreInv, CoreEventsAreDurable
<1> QED
  BY <1>4, <1>5, <1>6 DEF IInv

\* Losing soundness, or doing nothing, leaves the data alone.
LEMMA IdleStep ==
  ASSUME IInv, Ail \/ UNCHANGED cycleVars
  PROVE  IInv'
<1>1. /\ UNCHANGED <<core, tank, pending_core_commit, pending_tank_commit, periodic,
                     rtc_core, rtc_tank, nvs_fw, nvs_cycles, commit_failures,
                     core_commit_failed, phase>>
      /\ sound' \in BOOLEAN /\ (sound' => sound)
  BY DEF Ail, Moves, cycleVars, storageVars, ramVars, rtcVars, nvsVars, IInv, TypeOK
<1>2. TypeOK' /\ TankInv'
  BY <1>1 DEF IInv, TypeOK, TankInv, Kept, Allowance
<1>3. CoreInv'
  BY <1>1 DEF IInv, CoreInv, CoreEventsAreDurable, CoreInFlash
<1> QED
  BY <1>2, <1>3 DEF IInv

-----------------------------------------------------------------------------
\* IInv holds in every state of the life of the persistent state.
THEOREM StorageInvariant == Spec => []IInv
<1>1. Init => IInv
  BY InitStep
<1>2. IInv /\ [Next]_cycleVars => IInv'
  BY LoadCoreStep, LoadTankStep, SeeVersionStep, RecordStep, RecordEventStep,
     StartSaveStep, StoreCoreStep, StoreTankStep, ResetStep, IdleStep DEF Next
<1> QED
  BY <1>1, <1>2, PTL DEF Spec

\* The counters of init_tank_storage and save_persistent_state stay in range:
\* cycles_since_nvs_commit never passes NVS_COMMIT_INTERVAL, and a copy in RTC
\* memory or flash stays below it.
THEOREM StorageTypeCorrect == Spec => []TypeOK
BY StorageInvariant, PTL DEF IInv

\* A loss of power costs less than one interval of measurements, and one more
\* for each failed write since the last good one.
THEOREM BoundedLoss == Spec => []LossIsBounded
<1>1. IInv => LossIsBounded
  <2> SUFFICES ASSUME IInv, rtc_tank # NoCopy
               PROVE  rtc_tank.ahead < NvsCommitInterval * (1 + commit_failures)
    BY DEF LossIsBounded
  <2>1. rtc_tank \in TankData /\ Kept(rtc_tank)
    BY DEF IInv, TypeOK, TankInv
  <2> QED
    BY <2>1, AllowanceGrows DEF IInv, Kept, TankData
<1> QED
  BY <1>1, StorageInvariant, PTL

\* What core data holds in RTC memory is in flash unless a write failed.
THEOREM DurableCoreEvents == Spec => []CoreEventsAreDurable
BY StorageInvariant, PTL DEF IInv, CoreInv
=============================================================================
