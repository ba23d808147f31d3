------------------------ MODULE WaterTankAppProofs ------------------------
(***************************************************************************)
(* Proofs about WaterTankApp, for any set of firmware versions that has    *)
(* the factory image, any commit interval, any bound on the failed writes  *)
(* in a row and any outcomes of the saves.                                 *)
(*                                                                         *)
(* The argument has three layers.  ControlInv says where the main task may *)
(* be for what it has decided so far; it is inductive by itself.  Under it *)
(* every step of the node is a step of StorageCycle, so what               *)
(* StorageCycleProofs proves of the persistent state holds of the node.    *)
(* SavedInv, which needs both, follows a save to the sleep or the restart  *)
(* it was made for.                                                        *)
(***************************************************************************)
EXTENDS WaterTankApp, TLAPS

\* Before a session knows that it will measure, and when it cannot.
Starting == {"boot", "init_wifi", "init_core", "init_tank", "version", "init_radio",
             "health_gate", "safe_sleep"}

\* An image on probation has one to go back to, a staged one may be started.
ImageInv ==
  /\ image = "pending" => running - 1 \in Firmware
  /\ staged => running + 1 \in Firmware

\* What the save is for decides the way: a session has a goal once it may
\* measure, and one without goes to sleep, perhaps by way of the verdict.
GoalInv ==
  /\ pc \in Starting => goal = "none"
  /\ goal = "none" => pc \in Starting \cup {"verify", "rollback", "asleep"}
  /\ goal = "none" /\ pc = "verify" => image = "pending" /\ ~session_healthy
  /\ goal = "reboot" => pc \in {"save", "save_core", "save_tank", "reboot_shutdown",
                                "restart"}
  /\ goal = "update" => pc \in {"save", "save_core", "save_tank", "restart"}

\* Only a healthy session measures.  A failure is not forgotten before the
\* verdict: the session is unhealthy, or will be when the reading finds no rail.
HealthInv ==
  /\ pc \in {"boot", "power_on", "arm", "measure"} => session_healthy
  /\ fault /\ session_healthy =>
       \/ pc \in {"arm", "measure"} /\ ~rail
       \/ pc \in {"safe_sleep", "asleep", "rollback", "plan", "save", "save_core",
                  "save_tank", "reboot_shutdown", "sleep_shutdown",
                  "configure_wakeup", "restart"}

\* A press that was not late is not yet looked at, or served, or given up for a
\* reboot.
PressInv ==
  ota_triggered /\ ~late_press =>
    pc \in {"measure", "listen", "ota_check", "ota_begin"} \/ goal = "reboot"

\* What every state of the node satisfies: each part alone is not inductive, as
\* the guards of a phase rest on what the phases before it established.
ControlInv == TypeOK /\ ImageInv /\ GoalInv /\ HealthInv /\ PressInv

USE FirmwareAssumption, FactoryAssumption

-----------------------------------------------------------------------------
(* Every step keeps the control invariant *)

\* A node leaves the factory with a confirmed image and a session to begin.
LEMMA InitControl == Init => ControlInv
BY Zenon DEF Init, ControlInv, TypeOK, ImageInv, GoalInv, HealthInv, PressInv,
           Phases, Starting

\* A reset, by wake-up, restart or loss of power, begins a session that has failed
\* in nothing yet; the boot loader starts the staged image, or goes back.
LEMMA ResetKeeps ==
  ASSUME ControlInv, Reset
  PROVE  ControlInv'
<1>1. /\ running' \in Firmware /\ image' \in {"confirmed", "pending"} /\ staged' = FALSE
      /\ image' = "pending" => running' - 1 \in Firmware
  BY SMT DEF ControlInv, TypeOK, ImageInv, Reset, BootImage
<1>2. /\ pc' = "boot" /\ goal' = "none" /\ session_healthy' /\ ~rail'
      /\ ~fault' /\ ~ota_triggered'
  BY Zenon DEF Reset
<1>3. TypeOK'
  <2>1. /\ session_healthy' \in BOOLEAN /\ fault' \in BOOLEAN /\ saves_ok' \in BOOLEAN
        /\ rail' \in BOOLEAN /\ radio' \in BOOLEAN /\ armed' \in BOOLEAN
        /\ ota_triggered' \in BOOLEAN /\ late_press' \in BOOLEAN
        /\ ota_requested' \in BOOLEAN /\ gpio_wakeup' \in BOOLEAN /\ staged' \in BOOLEAN
    BY <1>1, Zenon DEF Reset
  <2>2. /\ pc' \in Phases /\ goal' \in {"none", "sleep", "reboot", "update"}
        /\ wake' \subseteq {"gpio", "timer"}
    BY SMT DEF Reset, Phases
  <2> QED
    BY <1>1, <2>1, <2>2 DEF TypeOK
<1>4. ImageInv'
  BY <1>1 DEF ImageInv
<1> QED
  BY <1>2, <1>3, <1>4, SMT DEF ControlInv, GoalInv, HealthInv, PressInv, Starting

\* init(): a failure of any part leads to the safe sleep or an unhealthy session.
LEMMA InitKeeps ==
  ASSUME ControlInv, InitStep
  PROVE  ControlInv'
<1> USE DEF ControlInv, TypeOK, ImageInv, GoalInv, HealthInv, PressInv,
            Phases, Starting, Goto, deviceVars, buttonVars, imageVars, sessionVars
<1>1. ASSUME NEW ok \in BOOLEAN, InitOtaController(ok) PROVE ControlInv'
  BY <1>1, SMT DEF InitOtaController
<1>2. ASSUME NEW ok \in BOOLEAN, InitTank(ok) PROVE ControlInv'
  BY <1>2, SMT DEF InitTank, Note
<1>3. ASSUME NEW ok \in BOOLEAN, CheckVersion(ok) PROVE ControlInv'
  BY <1>3, SMT DEF CheckVersion
<1>4. ASSUME NEW ok \in BOOLEAN, NEW also_ok \in BOOLEAN,
             InitPeripherals(ok, also_ok)
      PROVE  ControlInv'
  BY <1>4, SMT DEF InitPeripherals, Note
<1>5. ASSUME NEW ok \in BOOLEAN, NEW also_ok \in BOOLEAN,
             InitCore(ok, also_ok)
      PROVE  ControlInv'
  BY <1>5, SMT DEF InitCore, Note
<1>6. ASSUME NEW ok \in BOOLEAN, NEW also_ok \in BOOLEAN,
             InitRadioAndSensor(ok, also_ok)
      PROVE  ControlInv'
  BY <1>6, SMT DEF InitRadioAndSensor, Note
<1>7. CASE HealthGate
  BY <1>7, SMT DEF HealthGate, AfterInit
<1> QED
  BY <1>1, <1>2, <1>3, <1>4, <1>5, <1>6, <1>7 DEF InitStep

\* run(), from the rail switched on to the end of listening to the hub.
LEMMA RunKeeps ==
  ASSUME ControlInv, RunStep
  PROVE  ControlInv'
<1> USE DEF ControlInv, TypeOK, ImageInv, GoalInv, HealthInv, PressInv,
            Phases, Starting, Goto, deviceVars, buttonVars, imageVars, sessionVars
<1>1. ASSUME NEW ok \in BOOLEAN, PowerOn(ok) PROVE ControlInv'
  BY <1>1, SMT DEF PowerOn
<1>2. ASSUME NEW ok \in BOOLEAN, MeasureLevel(ok) PROVE ControlInv'
  <2>1. rail' \in BOOLEAN
    BY <1>2, Zenon DEF MeasureLevel, ShutDown
  <2>2. /\ session_healthy' \in BOOLEAN
        /\ session_healthy' => session_healthy /\ rail
    BY <1>2, Zenon DEF MeasureLevel, JudgePower
  <2> QED
    BY <1>2, <2>1, <2>2, SMT DEF MeasureLevel
<1>3. ASSUME NEW ok \in BOOLEAN, ArmTrigger(ok) PROVE ControlInv'
  BY <1>3, SMT DEF ArmTrigger
<1>4. ASSUME NEW received \in Commands, Listen(received) PROVE ControlInv'
  BY <1>4, SMT DEF Listen, Commands
<1> QED
  BY <1>1, <1>2, <1>3, <1>4 DEF RunStep

\* The update over the air and the verdict on an image on probation.
LEMMA OtaKeeps ==
  ASSUME ControlInv, OtaStep
  PROVE  ControlInv'
<1> USE DEF ControlInv, TypeOK, ImageInv, GoalInv, HealthInv, PressInv,
            Phases, Starting, Goto, deviceVars, buttonVars, imageVars, sessionVars
<1>1. CASE CheckOta
  BY <1>1, SMT DEF CheckOta, OtaWanted
<1>2. ASSUME NEW ok \in BOOLEAN, BeginOta(ok) PROVE ControlInv'
  <2>1. ota_triggered' \in BOOLEAN /\ late_press' \in BOOLEAN /\ radio' \in BOOLEAN
    BY <1>2, Zenon DEF BeginOta, ShutDown
  <2> QED
    BY <1>2, <2>1, SMT DEF BeginOta
<1>3. CASE DownloadSucceeds
  BY <1>3, SMT DEF DownloadSucceeds
<1>4. ASSUME NEW ok \in BOOLEAN, DisarmAndConnect(ok) PROVE ControlInv'
  <2>1. armed' \in BOOLEAN
    BY <1>4, Zenon DEF DisarmAndConnect
  <2> QED
    BY <1>4, <2>1, SMT DEF DisarmAndConnect
<1>5. ASSUME NEW ok \in BOOLEAN, DownloadFails(ok) PROVE ControlInv'
  BY <1>5, SMT DEF DownloadFails
<1>6. ASSUME NEW radio_ok \in BOOLEAN, NEW arm_ok \in BOOLEAN,
             ResumeAfterOta(radio_ok, arm_ok)
      PROVE  ControlInv'
  <2>1. radio' \in BOOLEAN
    BY <1>6, Zenon DEF ResumeAfterOta
  <2> QED
    BY <1>6, <2>1, SMT DEF ResumeAfterOta
<1>7. CASE NothingToVerify
  BY <1>7, SMT DEF NothingToVerify
<1>8. CASE ConfirmFirmware
  BY <1>8, SMT DEF ConfirmFirmware
<1>9. CASE RejectFirmware
  BY <1>9, SMT DEF RejectFirmware
<1>10. CASE RollbackAndReboot
  BY <1>10, ResetKeeps DEF RollbackAndReboot
<1>11. CASE RollbackRefused
  BY <1>11, SMT DEF RollbackRefused
<1> QED
  BY <1>1, <1>2, <1>3, <1>4, <1>5, <1>6, <1>7, <1>8, <1>9, <1>10, <1>11 DEF OtaStep

\* The end of a session: the plan, the save, the shutdown, the sleep or restart.
LEMMA LeaveKeeps ==
  ASSUME ControlInv, LeaveStep
  PROVE  ControlInv'
<1> USE DEF ControlInv, TypeOK, ImageInv, GoalInv, HealthInv, PressInv,
            Phases, Starting, Goto, deviceVars, buttonVars, imageVars, sessionVars
<1>1. ASSUME NEW ok \in BOOLEAN, PlanSleep(ok) PROVE ControlInv'
  BY <1>1, SMT DEF PlanSleep
<1>2. ASSUME NEW ok \in BOOLEAN, SafeSleep(ok) PROVE ControlInv'
  BY <1>2, SMT DEF SafeSleep
<1>3. CASE SavePersistentState
  BY <1>3, SMT DEF SavePersistentState
<1>4. ASSUME NEW outcome \in SaveOutcomes, SaveCoreStep(outcome) PROVE ControlInv'
  BY <1>4, SMT DEF SaveCoreStep
<1>5. ASSUME NEW outcome \in SaveOutcomes, SaveTankStep(outcome) PROVE ControlInv'
  <2>1. saves_ok' \in BOOLEAN
    BY <1>5, Zenon DEF SaveTankStep
  <2>2. pc' = IF goal = "reboot" THEN "reboot_shutdown"
              ELSE IF goal = "update" THEN "restart" ELSE "sleep_shutdown"
    BY <1>5, SMT DEF SaveTankStep
  <2> QED
    BY <1>5, <2>1, <2>2, SMT DEF SaveTankStep
<1>6. ASSUME NEW ok \in BOOLEAN, RebootShutdown(ok) PROVE ControlInv'
  <2>1. radio' \in BOOLEAN
    BY <1>6, Zenon DEF RebootShutdown, ShutDown
  <2> QED
    BY <1>6, <2>1, SMT DEF RebootShutdown
<1>7. ASSUME NEW ok \in BOOLEAN, SleepShutdown(ok) PROVE ControlInv'
  <2>1. radio' \in BOOLEAN /\ armed' \in BOOLEAN
    BY <1>7, Zenon DEF SleepShutdown, ShutDown
  <2> QED
    BY <1>7, <2>1, SMT DEF SleepShutdown
<1>8. CASE RestartNode
  BY <1>8, ResetKeeps DEF RestartNode
<1>9. ASSUME NEW gpio_ok \in BOOLEAN, NEW timer_ok \in BOOLEAN,
             ConfigureWakeup(gpio_ok, timer_ok)
      PROVE  ControlInv'
  BY <1>9, SMT DEF ConfigureWakeup, AfterWakeup
<1> QED
  BY <1>1, <1>2, <1>3, <1>4, <1>5, <1>6, <1>7, <1>8, <1>9 DEF LeaveStep

-----------------------------------------------------------------------------
(* Every step is one of StorageCycle *)

\* A step that leaves the data, and how far the session has come with it, is
\* one that at most loses soundness.
LEMMA SilentStep ==
  ASSUME UNCHANGED storageVars, UNCHANGED StoragePhase,
         session_healthy' \in BOOLEAN, session_healthy' => session_healthy
  PROVE  Cycle!Next
BY DEF Cycle!Next, Cycle!Ail, Cycle!Moves, Cycle!storageVars, Cycle!ramVars, Cycle!rtcVars,
       Cycle!nvsVars, storageVars, ramVars, rtcVars, nvsVars

\* A reset starts a session; RTC memory outlives only a sleep.
LEMMA ResetCycles ==
  ASSUME ControlInv, Reset,
         \/ RestartStorage
         \/ pc = "asleep" /\ WakeStorage
  PROVE  Cycle!Next
<1>1. StoragePhase' = "booting" /\ session_healthy' = TRUE
  BY SMT DEF Reset, StoragePhase
<1>2. CASE RestartStorage
  BY <1>1, <1>2 DEF Cycle!Next, Cycle!Restart, Cycle!RestartStorage, RestartStorage,
     Cycle!ForgetRam, ForgetRam, Cycle!nvsVars, nvsVars, Cycle!DefaultCore, DefaultCore,
     Cycle!DefaultTank, DefaultTank
<1>3. CASE pc = "asleep" /\ WakeStorage
  <2>1. StoragePhase \in {"booting", "loaded", "saved"}
    BY <1>3, SMT DEF StoragePhase
  <2> QED
    BY <1>1, <1>3, <2>1 DEF Cycle!Next, Cycle!WakeUp, Cycle!WakeStorage, WakeStorage,
       Cycle!ForgetRam, ForgetRam, Cycle!nvsVars, nvsVars, Cycle!rtcVars, rtcVars,
       Cycle!DefaultCore, DefaultCore, Cycle!DefaultTank, DefaultTank
<1> QED
  BY <1>2, <1>3

\* init: the two loads, the version, and steps that at most find a failure.
LEMMA InitCycles ==
  ASSUME ControlInv, InitStep
  PROVE  Cycle!Next
<1> USE DEF Goto
<1>1. ASSUME NEW ok \in BOOLEAN, InitOtaController(ok) PROVE Cycle!Next
  <2>1. session_healthy /\ goal = "none"
    BY <1>1, SMT DEF InitOtaController, ControlInv, HealthInv, GoalInv, Starting
  <2>2. UNCHANGED StoragePhase
    BY <1>1, <2>1, SMT DEF InitOtaController, StoragePhase
  <2> QED
    BY <1>1, <2>2, SilentStep DEF InitOtaController, ControlInv, TypeOK
<1>2. ASSUME NEW ok \in BOOLEAN, NEW also_ok \in BOOLEAN, InitPeripherals(ok, also_ok)
      PROVE  Cycle!Next
  <2>1. UNCHANGED StoragePhase
    BY <1>2, SMT DEF InitPeripherals, StoragePhase
  <2> QED
    BY <1>2, <2>1, SilentStep DEF InitPeripherals, Note, ControlInv, TypeOK
<1>3. ASSUME NEW ok \in BOOLEAN, NEW boot_event \in BOOLEAN, InitCore(ok, boot_event)
      PROVE  Cycle!Next
  <2>1. StoragePhase = "booting" /\ StoragePhase' = "core_loaded"
    BY <1>3, SMT DEF InitCore, StoragePhase
  <2>2. Cycle!InitCoreStorage(ok, boot_event)
    BY <1>3 DEF InitCore, InitCoreStorage, Cycle!InitCoreStorage, DefaultCore,
       Cycle!DefaultCore, rtcVars, Cycle!rtcVars, nvsVars, Cycle!nvsVars
  <2>3. Cycle!LoadCore(ok, boot_event)
    BY <1>3, <2>1, <2>2 DEF InitCore, Note, Cycle!LoadCore, Cycle!Moves
  <2> QED
    BY <2>3 DEF Cycle!Next
<1>4. ASSUME NEW ok \in BOOLEAN, InitTank(ok) PROVE Cycle!Next
  <2>1. StoragePhase = "core_loaded" /\ StoragePhase' = "loaded"
    BY <1>4, SMT DEF InitTank, StoragePhase
  <2>2. Cycle!InitTankStorage(ok)
    BY <1>4 DEF InitTank, InitTankStorage, Cycle!InitTankStorage, StoredTank,
       Cycle!StoredTank, DefaultTank, Cycle!DefaultTank, rtcVars, Cycle!rtcVars,
       nvsVars, Cycle!nvsVars
  <2>3. Cycle!LoadTank(ok)
    BY <1>4, <2>1, <2>2 DEF InitTank, Note, Cycle!LoadTank, Cycle!Moves
  <2> QED
    BY <2>3 DEF Cycle!Next
<1>5. ASSUME NEW known \in BOOLEAN, CheckVersion(known) PROVE Cycle!Next
  <2>1. StoragePhase = "loaded" /\ StoragePhase' = "loaded" /\ UNCHANGED session_healthy
    BY <1>5, SMT DEF CheckVersion, StoragePhase, sessionVars
  <2>2. session_healthy \in BOOLEAN /\ running \in Firmware
    BY DEF ControlInv, TypeOK
  <2>3. CASE UpdateRunningVersion(running)
    <3>1. Cycle!SeeVersion(running)
      BY <2>1, <2>2, <2>3 DEF Cycle!SeeVersion, Cycle!Moves, UpdateRunningVersion,
         Cycle!UpdateRunningVersion, rtcVars, Cycle!rtcVars, nvsVars, Cycle!nvsVars
    <3> QED
      BY <2>2, <3>1 DEF Cycle!Next
  <2>4. CASE UNCHANGED storageVars
    BY <2>1, <2>2, <2>4, SilentStep
  <2> QED
    BY <1>5, <2>3, <2>4 DEF CheckVersion
<1>6. ASSUME NEW ok \in BOOLEAN, NEW also_ok \in BOOLEAN, InitRadioAndSensor(ok, also_ok)
      PROVE  Cycle!Next
  <2>1. UNCHANGED StoragePhase
    BY <1>6, SMT DEF InitRadioAndSensor, StoragePhase
  <2> QED
    BY <1>6, <2>1, SilentStep DEF InitRadioAndSensor, Note, ControlInv, TypeOK
<1>7. CASE HealthGate
  <2>1. UNCHANGED StoragePhase
    BY <1>7, SMT DEF HealthGate, AfterInit, StoragePhase
  <2> QED
    BY <1>7, <2>1, SilentStep DEF HealthGate, ControlInv, TypeOK
<1> QED
  BY <1>1, <1>2, <1>3, <1>4, <1>5, <1>6, <1>7 DEF InitStep

\* run: only a sound session measures; a command may be a time synchronisation.
LEMMA RunCycles ==
  ASSUME ControlInv, RunStep
  PROVE  Cycle!Next
<1> USE DEF Goto
<1>0. session_healthy \in BOOLEAN
  BY DEF ControlInv, TypeOK
<1>1. ASSUME NEW ok \in BOOLEAN, PowerOn(ok) PROVE Cycle!Next
  <2>1. UNCHANGED StoragePhase
    BY <1>1, SMT DEF PowerOn, StoragePhase
  <2> QED
    BY <1>0, <1>1, <2>1, SilentStep DEF PowerOn
<1>2. ASSUME NEW ok \in BOOLEAN, ArmTrigger(ok) PROVE Cycle!Next
  <2>1. UNCHANGED StoragePhase
    BY <1>2, SMT DEF ArmTrigger, StoragePhase
  <2> QED
    BY <1>0, <1>2, <2>1, SilentStep DEF ArmTrigger, sessionVars
<1>3. ASSUME NEW off_ok \in BOOLEAN, MeasureLevel(off_ok) PROVE Cycle!Next
  <2>1. StoragePhase = "loaded" /\ StoragePhase' = "measured"
    BY <1>3, SMT DEF MeasureLevel, StoragePhase, ControlInv, GoalInv, Starting
  <2>2. session_healthy
    BY <1>3, SMT DEF MeasureLevel, ControlInv, HealthInv
  <2>3. session_healthy' \in BOOLEAN
    BY <1>3, Zenon DEF MeasureLevel, JudgePower
  <2>4. Cycle!Record
    BY <1>3, <2>1, <2>2, <2>3 DEF MeasureLevel, RecordMeasurement, Cycle!Record,
       Cycle!Moves, Cycle!RecordMeasurement, rtcVars, Cycle!rtcVars, nvsVars,
       Cycle!nvsVars
  <2> QED
    BY <2>4 DEF Cycle!Next
<1>4. ASSUME NEW received \in Commands, Listen(received) PROVE Cycle!Next
  <2>1. StoragePhase = "measured" /\ StoragePhase' = "measured"
    BY <1>4, SMT DEF Listen, StoragePhase
  <2>2. UNCHANGED session_healthy
    BY <1>4 DEF Listen
  <2>3. CASE RecordTimeSync
    <3>1. Cycle!RecordEvent
      BY <1>0, <2>1, <2>2, <2>3 DEF Cycle!RecordEvent, Cycle!Moves, RecordTimeSync,
         Cycle!RecordTimeSync, rtcVars, Cycle!rtcVars, nvsVars, Cycle!nvsVars
    <3> QED
      BY <3>1 DEF Cycle!Next
  <2>4. CASE UNCHANGED storageVars
    BY <1>0, <2>1, <2>2, <2>4, SilentStep
  <2> QED
    BY <1>4, <2>3, <2>4 DEF Listen
<1> QED
  BY <1>1, <1>2, <1>3, <1>4 DEF RunStep

\* The update and the verdict: a new image and a confirmed one ask for commits.
LEMMA OtaCycles ==
  ASSUME ControlInv, OtaStep
  PROVE  Cycle!Next
<1> USE DEF Goto
<1>0. session_healthy \in BOOLEAN
  BY DEF ControlInv, TypeOK
<1>1. CASE CheckOta \/ NothingToVerify \/ RejectFirmware \/ RollbackRefused
  <2>1. UNCHANGED StoragePhase
    <3>1. CASE CheckOta
      BY <3>1, SMT DEF CheckOta, OtaWanted, sessionVars, StoragePhase, ControlInv, GoalInv,
                       Starting
    <3>2. CASE NothingToVerify
      BY <3>2, SMT DEF NothingToVerify, sessionVars, StoragePhase, ControlInv, GoalInv
    <3>3. CASE RejectFirmware
      BY <3>3, SMT DEF RejectFirmware, StoragePhase
    <3>4. CASE RollbackRefused
      BY <3>4, SMT DEF RollbackRefused, sessionVars, StoragePhase
    <3> QED
      BY <1>1, <3>1, <3>2, <3>3, <3>4
  <2>2. UNCHANGED storageVars /\ UNCHANGED session_healthy
    BY <1>1 DEF CheckOta, NothingToVerify, RejectFirmware, RollbackRefused,
       sessionVars
  <2> QED
    BY <1>0, <2>1, <2>2, SilentStep
<1>2. ASSUME NEW ok \in BOOLEAN, NEW arm_ok \in BOOLEAN,
             \/ BeginOta(ok) \/ DisarmAndConnect(ok) \/ DownloadFails(ok)
             \/ ResumeAfterOta(ok, arm_ok)
      PROVE  Cycle!Next
  <2>1. UNCHANGED StoragePhase
    <3>1. CASE DisarmAndConnect(ok)
      BY <3>1, SMT DEF DisarmAndConnect, StoragePhase
    <3>2. CASE DownloadFails(ok)
      BY <3>2, SMT DEF DownloadFails, StoragePhase
    <3>3. CASE ResumeAfterOta(ok, arm_ok)
      BY <3>3, SMT DEF ResumeAfterOta, sessionVars, StoragePhase, ControlInv, GoalInv,
                       Starting
    <3>4. CASE BeginOta(ok)
      BY <3>4, SMT DEF BeginOta, sessionVars, StoragePhase
    <3> QED
      BY <1>2, <3>1, <3>2, <3>3, <3>4
  <2>2. UNCHANGED storageVars /\ UNCHANGED session_healthy
    BY <1>2 DEF BeginOta, DisarmAndConnect, DownloadFails, ResumeAfterOta, sessionVars
  <2> QED
    BY <1>0, <2>1, <2>2, SilentStep
<1>3. CASE DownloadSucceeds
  <2>1. StoragePhase = "measured" /\ StoragePhase' = "measured" /\ UNCHANGED session_healthy
    BY <1>3, SMT DEF DownloadSucceeds, StoragePhase
  <2>2. Cycle!RecordEvent
    BY <1>0, <1>3, <2>1 DEF Cycle!RecordEvent, Cycle!Moves, DownloadSucceeds,
       RequestFullCommit, Cycle!RequestFullCommit, rtcVars, Cycle!rtcVars, nvsVars,
       Cycle!nvsVars
  <2> QED
    BY <2>2 DEF Cycle!Next
<1>4. CASE ConfirmFirmware
  <2>1. StoragePhase = "measured" /\ StoragePhase' = "measured" /\ UNCHANGED session_healthy
    BY <1>4, SMT DEF ConfirmFirmware, StoragePhase, sessionVars, ControlInv, GoalInv
  <2>2. Cycle!RecordEvent
    BY <1>0, <1>4, <2>1 DEF Cycle!RecordEvent, Cycle!Moves, ConfirmFirmware,
       RequestCoreCommit, Cycle!RequestCoreCommit, rtcVars, Cycle!rtcVars, nvsVars,
       Cycle!nvsVars
  <2> QED
    BY <2>2 DEF Cycle!Next
<1>5. CASE RollbackAndReboot
  BY <1>5, ResetCycles DEF RollbackAndReboot
<1> QED
  BY <1>1, <1>2, <1>3, <1>4, <1>5 DEF OtaStep

\* The save, one call after the other, and what follows it.
LEMMA LeaveCycles ==
  ASSUME ControlInv, LeaveStep
  PROVE  Cycle!Next
<1> USE DEF Goto
<1>0. session_healthy \in BOOLEAN
  BY DEF ControlInv, TypeOK
<1>1. ASSUME NEW ok \in BOOLEAN, PlanSleep(ok) PROVE Cycle!Next
  <2>1. UNCHANGED StoragePhase
    BY <1>1, SMT DEF PlanSleep, StoragePhase
  <2> QED
    BY <1>0, <1>1, <2>1, SilentStep DEF PlanSleep
<1>2. ASSUME NEW ok \in BOOLEAN, SafeSleep(ok) PROVE Cycle!Next
  <2>1. goal = "none"
    BY <1>2, SMT DEF SafeSleep, ControlInv, GoalInv, Starting
  <2>2. UNCHANGED StoragePhase
    BY <1>2, <2>1, SMT DEF SafeSleep, sessionVars, StoragePhase
  <2> QED
    BY <1>0, <1>2, <2>2, SilentStep DEF SafeSleep, sessionVars
<1>3. CASE SavePersistentState
  <2>1. /\ StoragePhase = "measured" /\ StoragePhase' = "saving_core"
        /\ UNCHANGED session_healthy
    BY <1>3, SMT DEF SavePersistentState, StoragePhase, sessionVars
  <2>2. Cycle!StartSave
    BY <1>0, <1>3, <2>1 DEF Cycle!StartSave, Cycle!Moves, SavePersistentState, BeginSave,
       Cycle!BeginSave, rtcVars, Cycle!rtcVars, nvsVars, Cycle!nvsVars
  <2> QED
    BY <2>2 DEF Cycle!Next
<1>4. ASSUME NEW outcome \in SaveOutcomes, SaveCoreStep(outcome) PROVE Cycle!Next
  <2>1. /\ StoragePhase = "saving_core" /\ StoragePhase' = "saving_tank"
        /\ UNCHANGED session_healthy
    BY <1>4, SMT DEF SaveCoreStep, StoragePhase
  <2>2. Cycle!StoreCore(outcome)
    BY <1>0, <1>4, <2>1 DEF Cycle!StoreCore, Cycle!Moves, SaveCoreStep, SaveCore,
       Cycle!SaveCore
  <2> QED
    BY <2>2 DEF Cycle!Next
<1>5. ASSUME NEW outcome \in SaveOutcomes, SaveTankStep(outcome) PROVE Cycle!Next
  <2>1. goal # "none"
    BY <1>5, SMT DEF SaveTankStep, ControlInv, GoalInv, Starting
  <2>2. /\ StoragePhase = "saving_tank" /\ StoragePhase' = "saved"
        /\ UNCHANGED session_healthy
    BY <1>5, <2>1, SMT DEF SaveTankStep, StoragePhase
  <2>3. Cycle!StoreTank(outcome)
    BY <1>0, <1>5, <2>2 DEF Cycle!StoreTank, Cycle!Moves, SaveTankStep, SaveTank,
       Cycle!SaveTank, ForceTank, Cycle!ForceTank
  <2> QED
    BY <2>3 DEF Cycle!Next
<1>6. ASSUME NEW ok \in BOOLEAN, RebootShutdown(ok) PROVE Cycle!Next
  <2>1. goal # "none"
    BY <1>6, SMT DEF RebootShutdown, ControlInv, GoalInv, Starting
  <2>2. UNCHANGED StoragePhase
    BY <1>6, <2>1, SMT DEF RebootShutdown, sessionVars, StoragePhase
  <2> QED
    BY <1>0, <1>6, <2>2, SilentStep DEF RebootShutdown, sessionVars
<1>7. ASSUME NEW ok \in BOOLEAN, SleepShutdown(ok) PROVE Cycle!Next
  <2>1. goal # "none"
    BY <1>7, SMT DEF SleepShutdown, ControlInv, GoalInv, Starting
  <2>2. UNCHANGED StoragePhase
    BY <1>7, <2>1, SMT DEF SleepShutdown, sessionVars, StoragePhase
  <2> QED
    BY <1>0, <1>7, <2>2, SilentStep DEF SleepShutdown, sessionVars
<1>8. CASE RestartNode
  BY <1>8, ResetCycles DEF RestartNode
<1>9. ASSUME NEW gpio_ok \in BOOLEAN, NEW timer_ok \in BOOLEAN,
             ConfigureWakeup(gpio_ok, timer_ok)
      PROVE  Cycle!Next
  <2>1. goal # "none"
    BY <1>9, SMT DEF ConfigureWakeup, ControlInv, GoalInv, Starting
  <2>2. pc = "configure_wakeup" /\ pc' \in {"restart", "asleep"} /\ UNCHANGED goal
    BY <1>9, SMT DEF ConfigureWakeup, AfterWakeup, sessionVars
  <2>3. UNCHANGED StoragePhase
    BY <2>1, <2>2, SMT DEF StoragePhase
  <2> QED
    BY <1>0, <1>9, <2>3, SilentStep DEF ConfigureWakeup, sessionVars
<1> QED
  BY <1>1, <1>2, <1>3, <1>4, <1>5, <1>6, <1>7, <1>8, <1>9 DEF LeaveStep

\* Every step of the node: its own tasks, a wake-up, a press, a loss of power.
LEMMA StepCycles ==
  ASSUME ControlInv, [Next]_allVars
  PROVE  Cycle!Next
<1>0. session_healthy \in BOOLEAN
  BY DEF ControlInv, TypeOK
<1>1. CASE MainTask
  BY <1>1, InitCycles, RunCycles, OtaCycles, LeaveCycles DEF MainTask
<1>2. CASE WakeUp
  BY <1>2, ResetCycles DEF WakeUp
<1>3. CASE PowerLoss
  BY <1>3, ResetCycles DEF PowerLoss
<1>4. CASE OnOtaTriggered \/ UNCHANGED allVars
  <2>1. UNCHANGED <<storageVars, pc, goal, session_healthy>>
    BY <1>4 DEF OnOtaTriggered, allVars, appVars, sessionVars
  <2>2. UNCHANGED StoragePhase
    BY <2>1, SMT DEF StoragePhase
  <2> QED
    BY <1>0, <2>1, <2>2, SilentStep
<1> QED
  BY <1>1, <1>2, <1>3, <1>4 DEF Next

-----------------------------------------------------------------------------
(* The control of the node, and its persistent state as StorageCycle has it *)

\* A press of the button is early only while run() has not looked yet.
LEMMA ButtonKeeps ==
  ASSUME ControlInv, OnOtaTriggered
  PROVE  ControlInv'
<1>1. late_press' \in BOOLEAN /\ (~late_press' => pc \in {"measure", "listen", "ota_check"})
  BY Zenon DEF OnOtaTriggered
<1>2. /\ UNCHANGED <<pc, goal, session_healthy, rail, radio, armed, wake, running, image,
                     staged, ota_requested, gpio_wakeup, fault, saves_ok>>
      /\ armed /\ ota_triggered' = TRUE
  BY DEF OnOtaTriggered, imageVars, sessionVars
<1> QED
  BY <1>1, <1>2, SMT DEF ControlInv, TypeOK, ImageInv, GoalInv, HealthInv,
                         PressInv

\* Every step keeps the control invariant.
LEMMA StepKeeps ==
  ASSUME ControlInv, [Next]_allVars
  PROVE  ControlInv'
<1>1. CASE MainTask
  BY <1>1, InitKeeps, RunKeeps, OtaKeeps, LeaveKeeps DEF MainTask
<1>2. CASE WakeUp \/ PowerLoss
  BY <1>2, ResetKeeps DEF WakeUp, PowerLoss
<1>3. CASE OnOtaTriggered
  BY <1>3, ButtonKeeps
<1>4. CASE UNCHANGED allVars
  BY <1>4 DEF allVars, appVars, deviceVars, buttonVars, imageVars, sessionVars,
     ControlInv, TypeOK, ImageInv, GoalInv, HealthInv, PressInv
<1> QED
  BY <1>1, <1>2, <1>3, <1>4 DEF Next

\* The main task is only where its decisions allow: no session with a failed init
\* measures, no press is forgotten, no update restarts the node before its save.
THEOREM ControlInvariant == Spec => []ControlInv
<1>1. ControlInv /\ [Next]_allVars => ControlInv'
  BY StepKeeps
<1> QED
  BY <1>1, InitControl, PTL DEF Spec

\* The node's init(), run(), OTA and save treat the two storages only as
\* StorageCycle does: every step is one of its steps, or leaves what it sees.
THEOREM StorageRefinement == Spec => ImplementsStorageCycle
<1>1. Init => Cycle!Init
  BY SMT DEF Init, StorageInit, Cycle!Init, Cycle!StorageInit, StoragePhase, DefaultCore,
     DefaultTank, Cycle!DefaultCore, Cycle!DefaultTank
<1>2. ControlInv /\ [Next]_allVars => [Cycle!Next]_Cycle!cycleVars
  BY StepCycles
<1> QED
  BY <1>1, <1>2, ControlInvariant, PTL DEF Spec, ImplementsStorageCycle, Cycle!Spec

\* What StorageCycleProofs proves, of the node's storage.
Data == INSTANCE StorageCycleProofs WITH phase <- StoragePhase, sound <- session_healthy

\* The assumptions StorageCycleProofs makes hold of the node's storage.
LEMMA SameConstants ==
  /\ NvsCommitInterval \in Nat \ {0}
  /\ SaveOutcomes \subseteq Data!AllSaveOutcomes
  /\ MaxCommitFailures \in Nat
  /\ Firmware \subseteq Nat
  /\ NoCopy \notin Data!TankData \cup Data!CoreData
BY IntervalAssumption, OutcomesAssumption, MaxFailuresAssumption, FirmwareAssumption,
   NoCopyAssumption
   DEF Data!AllSaveOutcomes, AllSaveOutcomes, Data!TankData, TankData, Data!CoreData,
       CoreData

\* The two instances of StorageCycle are one specification.
LEMMA SameCycle == Cycle!Spec => Data!Spec
<1> USE DEF Cycle!DefaultCore, Data!DefaultCore, Cycle!DefaultTank, Data!DefaultTank,
            Cycle!storageVars, Data!storageVars, Cycle!ramVars, Data!ramVars,
            Cycle!rtcVars, Data!rtcVars, Cycle!nvsVars, Data!nvsVars
<1>1. Cycle!Init => Data!Init
  BY DEF Cycle!Init, Data!Init, Cycle!StorageInit, Data!StorageInit
<1>2. [Cycle!Next]_Cycle!cycleVars => [Data!Next]_Data!cycleVars
  BY DEF Cycle!cycleVars, Data!cycleVars, Cycle!Next, Data!Next, Cycle!LoadCore,
         Data!LoadCore, Cycle!LoadTank, Data!LoadTank, Cycle!SeeVersion,
         Data!SeeVersion, Cycle!Record, Data!Record, Cycle!RecordEvent,
         Data!RecordEvent, Cycle!StartSave, Data!StartSave, Cycle!StoreCore,
         Data!StoreCore, Cycle!StoreTank, Data!StoreTank, Cycle!Ail, Data!Ail,
         Cycle!WakeUp, Data!WakeUp, Cycle!Restart, Data!Restart, Cycle!Moves,
         Data!Moves, Cycle!InitCoreStorage, Data!InitCoreStorage,
         Cycle!InitTankStorage, Data!InitTankStorage, Cycle!StoredTank,
         Data!StoredTank, Cycle!UpdateRunningVersion, Data!UpdateRunningVersion,
         Cycle!RecordMeasurement, Data!RecordMeasurement, Cycle!RecordTimeSync,
         Data!RecordTimeSync, Cycle!RequestCoreCommit, Data!RequestCoreCommit,
         Cycle!RequestFullCommit, Data!RequestFullCommit, Cycle!BeginSave,
         Data!BeginSave, Cycle!SaveCore, Data!SaveCore, Cycle!SaveTank,
         Data!SaveTank, Cycle!ForceTank, Data!ForceTank, Cycle!WakeStorage,
         Data!WakeStorage, Cycle!RestartStorage, Data!RestartStorage,
         Cycle!ForgetRam, Data!ForgetRam
<1> QED
  BY <1>1, <1>2, PTL DEF Cycle!Spec, Data!Spec

\* The persistent state of the node satisfies the invariant of StorageCycle.
LEMMA StorageOfNode == Spec => []Data!IInv
<1>1. Spec => Data!Spec
  BY StorageRefinement, SameCycle DEF ImplementsStorageCycle
<1>2. Data!Spec => []Data!IInv
  BY SameConstants, Data!StorageInvariant, Zenon
<1> QED
  BY <1>1, <1>2

-----------------------------------------------------------------------------
(* What a save leaves *)

\* How far a save of which no step failed has come.
SavedInv ==
  /\ saves_ok /\ pc = "save_tank" => rtc_core = core
  /\ saves_ok /\ goal # "none" /\ pc \in {"reboot_shutdown", "sleep_shutdown",
                                          "configure_wakeup", "asleep", "restart"}
       => rtc_core = core /\ rtc_tank = tank
  /\ goal = "update" /\ pc \in {"save", "save_core", "save_tank"} => pending_tank_commit
  /\ goal = "update" /\ pc = "restart" /\ saves_ok =>
       tank.ahead = 0 /\ nvs_cycles = tank.cycles

\* The phases SavedInv is about.
Saving == {"save", "save_core", "save_tank", "reboot_shutdown", "sleep_shutdown",
           "configure_wakeup", "asleep", "restart"}

\* Nothing is claimed of a session that has not come to its save.
LEMMA NotYetSaving ==
  ASSUME pc' \notin Saving \/ (pc' = "asleep" /\ goal' = "none")
  PROVE  SavedInv'
BY DEF SavedInv, Saving

\* Up to the save: an update asks for a full commit on the way to it.
LEMMA SessionSaved ==
  ASSUME ControlInv, InitStep \/ RunStep \/ OtaStep
  PROVE  SavedInv'
<1> USE DEF Goto
<1>1. CASE InitStep
  <2>1. pc' \in Starting \cup {"power_on", "verify"}
    BY <1>1, SMT DEF InitStep, InitOtaController, InitTank, CheckVersion, InitPeripherals,
       InitCore, InitRadioAndSensor, HealthGate, AfterInit, Starting
  <2> QED
    BY <2>1, NotYetSaving DEF Starting, Saving
<1>2. CASE RunStep
  <2>1. ASSUME NEW received \in Commands, Listen(received) PROVE SavedInv'
    BY <2>1, SMT DEF Listen, SavedInv, ControlInv, GoalInv
  <2>2. CASE \E ok \in BOOLEAN : PowerOn(ok) \/ ArmTrigger(ok) \/ MeasureLevel(ok)
    BY <2>2, NotYetSaving DEF PowerOn, ArmTrigger, MeasureLevel, Saving
  <2> QED
    BY <1>2, <2>1, <2>2 DEF RunStep
<1>3. CASE OtaStep
  <2>1. CASE DownloadSucceeds
    BY <2>1 DEF DownloadSucceeds, RequestFullCommit, SavedInv
  <2>2. CASE RollbackAndReboot
    BY <2>2, NotYetSaving DEF RollbackAndReboot, Reset, Saving
  <2>3. CASE \/ CheckOta \/ NothingToVerify \/ ConfirmFirmware
             \/ RejectFirmware \/ RollbackRefused
             \/ \E ok, arm_ok \in BOOLEAN :
                  \/ BeginOta(ok) \/ DisarmAndConnect(ok) \/ DownloadFails(ok)
                  \/ ResumeAfterOta(ok, arm_ok)
    <3>1. pc' \in {"ota_begin", "verify", "ota_disarm", "plan", "rollback", "safe_sleep",
                   "download", "ota_failed"}
      BY <2>3, SMT DEF CheckOta, BeginOta, NothingToVerify, ConfirmFirmware,
         RejectFirmware, RollbackRefused, DisarmAndConnect, DownloadFails, ResumeAfterOta
    <3> QED
      BY <3>1, NotYetSaving DEF Saving
  <2> QED
    BY <1>3, <2>1, <2>2, <2>3 DEF OtaStep
<1> QED
  BY <1>1, <1>2, <1>3

\* The save itself: each copy in RTC memory is what RAM has after a save without
\* error, and the save of an update reaches flash.
LEMMA LeaveSaved ==
  ASSUME ControlInv, Data!TypeOK, SavedInv, LeaveStep
  PROVE  SavedInv'
<1> USE DEF Goto
<1>1. ASSUME NEW ok \in BOOLEAN, PlanSleep(ok) PROVE SavedInv'
  BY <1>1, SMT DEF PlanSleep, SavedInv, ControlInv, GoalInv
<1>2. ASSUME NEW ok \in BOOLEAN, SafeSleep(ok) PROVE SavedInv'
  BY <1>2, NotYetSaving, SMT DEF SafeSleep, sessionVars, ControlInv, GoalInv, Starting
<1>3. CASE SavePersistentState
  BY <1>3, SMT DEF SavePersistentState, BeginSave, sessionVars, SavedInv
<1>4. ASSUME NEW outcome \in SaveOutcomes, SaveCoreStep(outcome) PROVE SavedInv'
  <2>1. /\ pc = "save_core" /\ pc' = "save_tank"
        /\ UNCHANGED <<goal, pending_tank_commit>>
    BY <1>4 DEF SaveCoreStep, SaveCore
  <2>2. saves_ok' => outcome = "saved"
    BY <1>4, Zenon DEF SaveCoreStep
  <2>3. outcome = "saved" => rtc_core' = core'
    BY <1>4, Zenon DEF SaveCoreStep, SaveCore
  <2> QED
    BY <2>1, <2>2, <2>3, SMT DEF SavedInv
<1>5. ASSUME NEW outcome \in SaveOutcomes, SaveTankStep(outcome) PROVE SavedInv'
  <2>1. /\ pc = "save_tank" /\ UNCHANGED <<goal, core, rtc_core>>
        /\ pc' \in {"reboot_shutdown", "restart", "sleep_shutdown"}
    BY <1>5, SMT DEF SaveTankStep, SaveTank
  <2>2. CASE saves_ok'
    <3>1. saves_ok /\ outcome = "saved"
      BY <1>5, <2>2, Zenon DEF SaveTankStep
    <3>2. /\ rtc_tank' = tank'
          /\ ForceTank => tank' = [tank EXCEPT !.ahead = 0] /\ nvs_cycles' = tank.cycles
      BY <1>5, <3>1, SMT DEF SaveTankStep, SaveTank
    <3>3. rtc_core' = core'
      BY <2>1, <3>1 DEF SavedInv
    <3>4. goal = "update" => tank'.ahead = 0 /\ nvs_cycles' = tank'.cycles
      <4>1. goal = "update" => ForceTank
        BY <2>1 DEF SavedInv, ForceTank
      <4>2. tank \in [cycles : Nat, ahead : Nat]
        BY DEF Data!TypeOK, Data!TankData
      <4> QED
        BY <3>2, <4>1, <4>2
    <3> QED
      BY <2>1, <3>2, <3>3, <3>4, SMT DEF SavedInv
  <2>3. CASE ~saves_ok'
    BY <2>1, <2>3, SMT DEF SavedInv
  <2> QED
    BY <2>2, <2>3
<1>6. ASSUME NEW ok \in BOOLEAN, RebootShutdown(ok) \/ SleepShutdown(ok)
      PROVE  SavedInv'
  <2>1. /\ UNCHANGED <<goal, saves_ok, core, tank, rtc_core, rtc_tank>>
        /\ pc \in {"reboot_shutdown", "sleep_shutdown"}
        /\ pc' \in {"restart", "configure_wakeup"}
    BY <1>6 DEF RebootShutdown, SleepShutdown, sessionVars, storageVars, ramVars, rtcVars
  <2>2. goal \in {"sleep", "reboot"}
    BY <1>6, SMT DEF RebootShutdown, SleepShutdown, ControlInv, TypeOK, GoalInv, Starting
  <2> QED
    BY <2>1, <2>2, SMT DEF SavedInv
<1>7. ASSUME NEW gpio_ok \in BOOLEAN, NEW timer_ok \in BOOLEAN,
             ConfigureWakeup(gpio_ok, timer_ok)
      PROVE  SavedInv'
  <2>1. /\ UNCHANGED <<goal, saves_ok, core, tank, rtc_core, rtc_tank>>
        /\ pc = "configure_wakeup" /\ pc' \in {"restart", "asleep"}
    BY <1>7 DEF ConfigureWakeup, AfterWakeup, sessionVars, storageVars, ramVars, rtcVars
  <2>2. goal # "update"
    BY <2>1, SMT DEF ControlInv, GoalInv
  <2> QED
    BY <2>1, <2>2, SMT DEF SavedInv
<1>8. CASE RestartNode
  BY <1>8, NotYetSaving DEF RestartNode, Reset, Saving
<1> QED
  BY <1>1, <1>2, <1>3, <1>4, <1>5, <1>6, <1>7, <1>8 DEF LeaveStep

\* Every step keeps what is known of the save.
LEMMA SavedStep ==
  ASSUME ControlInv, Data!TypeOK, SavedInv, [Next]_allVars
  PROVE  SavedInv'
<1>1. CASE MainTask
  BY <1>1, SessionSaved, LeaveSaved DEF MainTask
<1>2. CASE WakeUp \/ PowerLoss
  BY <1>2, NotYetSaving DEF WakeUp, PowerLoss, Reset, Saving
<1>3. CASE OnOtaTriggered \/ UNCHANGED allVars
  <2>1. UNCHANGED <<pc, goal, saves_ok, core, tank, rtc_core, rtc_tank,
                    pending_tank_commit, nvs_cycles>>
    BY <1>3 DEF OnOtaTriggered, allVars, appVars, sessionVars, storageVars, ramVars,
       rtcVars, nvsVars
  <2> QED
    BY <2>1 DEF SavedInv
<1> QED
  BY <1>1, <1>2, <1>3 DEF Next

\* From the first save on, a save without error leaves the RTC copies equal to RAM.
LEMMA SavedInvariant == Spec => []SavedInv
<1>1. Init => SavedInv
  BY SMT DEF Init, SavedInv
<1>2. ControlInv /\ Data!IInv /\ SavedInv /\ [Next]_allVars => SavedInv'
  BY SavedStep DEF Data!IInv
<1> QED
  BY <1>1, <1>2, ControlInvariant, StorageOfNode, PTL DEF Spec

-----------------------------------------------------------------------------
(* The theorems *)

\* The values of the variables are in their types, whatever versions exist.
THEOREM AppTypeCorrect == Spec => []TypeOK
BY ControlInvariant, PTL DEF ControlInv

\* A press of the button before the check for updates is looked at in this session,
\* unless the hub asked for a restart: no path of run() forgets it.
THEOREM PressIsServed == Spec => []EarlyPressIsServed
<1>1. ControlInv => EarlyPressIsServed
  BY SMT DEF ControlInv, TypeOK, PressInv, EarlyPressIsServed
<1> QED
  BY <1>1, ControlInvariant, PTL

\* When a save had no error, what the session changed is in RTC memory before the
\* sleep and, before an update restarts the node, in flash.
THEOREM NothingIsLost == Spec => []NothingLostOnTheWay
<1>1. ControlInv /\ SavedInv /\ Data!IInv => NothingLostOnTheWay
  <2> SUFFICES ASSUME ControlInv, SavedInv, Data!IInv, pc \in {"asleep", "restart"},
                      saves_ok, goal # "none"
               PROVE  /\ goal = "sleep" => rtc_core = core /\ rtc_tank = tank
                      /\ goal = "update" => tank.ahead = 0 /\ nvs_cycles = tank.cycles
                      /\ ~core_commit_failed => ~core.unsaved /\ nvs_fw = core.fw
    BY DEF NothingLostOnTheWay
  <2>1. rtc_core = core /\ rtc_tank = tank
    BY DEF SavedInv
  <2>2. goal = "update" => tank.ahead = 0 /\ nvs_cycles = tank.cycles
    BY SMT DEF ControlInv, GoalInv, SavedInv
  <2>3. rtc_core # NoCopy
    BY <2>1, NoCopyAssumption DEF Data!IInv, Data!TypeOK, Data!CoreData, CoreData
  <2>4. ~core_commit_failed => ~core.unsaved /\ nvs_fw = core.fw
    BY <2>1, <2>3 DEF Data!IInv, Data!CoreInv, Data!CoreEventsAreDurable
  <2> QED
    BY <2>1, <2>2, <2>4
<1> QED
  BY <1>1, ControlInvariant, SavedInvariant, StorageOfNode, PTL

\* What a step does to the image: only the verdict confirms the running one.
LEMMA OnlyTheVerdictConfirms ==
  ASSUME ControlInv, [Next]_allVars, image = "pending", image' = "confirmed",
         running' = running
  PROVE  ConfirmFirmware
<1>1. ~Reset
  BY SMT DEF Reset, BootImage, ControlInv, TypeOK
<1>2. ~InitStep
  BY SMT DEF InitStep, InitOtaController, InitTank, CheckVersion, InitPeripherals, InitCore,
     InitRadioAndSensor, HealthGate, imageVars
<1>3. ~RunStep
  BY SMT DEF RunStep, PowerOn, MeasureLevel, ArmTrigger, Listen, imageVars
<1>4. OtaStep => ConfirmFirmware
  BY <1>1, SMT DEF OtaStep, CheckOta, BeginOta, DownloadSucceeds, DisarmAndConnect,
     DownloadFails, ResumeAfterOta, NothingToVerify, RejectFirmware, RollbackAndReboot,
     RollbackRefused, imageVars
<1>5. ~LeaveStep
  BY <1>1, SMT DEF LeaveStep, PlanSleep, SafeSleep, SavePersistentState, SaveCoreStep,
     SaveTankStep, RebootShutdown, SleepShutdown, RestartNode, ConfigureWakeup, imageVars
<1>6. ~WakeUp /\ ~OnOtaTriggered /\ ~PowerLoss /\ ~UNCHANGED allVars
  BY <1>1, SMT DEF WakeUp, OnOtaTriggered, PowerLoss, allVars, appVars, imageVars
<1> QED
  BY <1>2, <1>3, <1>4, <1>5, <1>6 DEF Next, MainTask

\* An image on probation is confirmed only in a session whose init() had no failure
\* and whose sensor rail came on.  (ESP-NOW may have gone since: an update that
\* failed and could not bring it up again is no failure to run().)
THEOREM OnlyInitialisedIsConfirmed == Spec => ConfirmedOnlyInitialised
<1>1. ControlInv /\ [Next]_allVars =>
        [image = "pending" /\ image' = "confirmed" /\ running' = running
           => ~fault]_allVars
  <2> SUFFICES ASSUME ControlInv, [Next]_allVars, image = "pending",
                      image' = "confirmed", running' = running
               PROVE  ~fault
    OBVIOUS
  <2>1. pc = "verify" /\ session_healthy
    BY OnlyTheVerdictConfirms DEF ConfirmFirmware, Goto
  <2> QED
    BY <2>1, SMT DEF ControlInv, HealthInv
<1> QED
  BY <1>1, ControlInvariant, PTL DEF Spec, ConfirmedOnlyInitialised

\* A loss of power costs the node less than a commit interval of measurements, and
\* one interval more for each write of the flash that failed since the last good one.
THEOREM NodeLossIsBounded == Spec => []Cycle!LossIsBounded
<1>1. Data!LossIsBounded => Cycle!LossIsBounded
  BY DEF Data!LossIsBounded, Cycle!LossIsBounded
<1>2. Spec => Data!Spec
  BY StorageRefinement, SameCycle DEF ImplementsStorageCycle
<1>3. Data!Spec => []Data!LossIsBounded
  BY SameConstants, Data!BoundedLoss, Zenon
<1> QED
  BY <1>1, <1>2, <1>3, PTL

\* A time synchronisation or a new version the node sleeps on is in flash as well,
\* unless a write failed: the request for the commit does not survive the sleep.
THEOREM NodeEventsAreDurable == Spec => []Cycle!CoreEventsAreDurable
<1>1. Data!CoreEventsAreDurable => Cycle!CoreEventsAreDurable
  BY DEF Data!CoreEventsAreDurable, Cycle!CoreEventsAreDurable
<1>2. Spec => Data!Spec
  BY StorageRefinement, SameCycle DEF ImplementsStorageCycle
<1>3. Data!Spec => []Data!CoreEventsAreDurable
  BY SameConstants, Data!DurableCoreEvents, Zenon
<1> QED
  BY <1>1, <1>2, <1>3, PTL
====
