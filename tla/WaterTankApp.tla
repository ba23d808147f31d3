---------------------------- MODULE WaterTankApp ----------------------------
(***************************************************************************)
(* One node from power-up to deep sleep and round again: app_main          *)
(* (main/main.cpp) and WaterTankApp (main/src/water_tank_app.cpp).         *)
(*                                                                         *)
(* The main task is the sequence of phases in pc; each action is one step  *)
(* of init() or run() together with every state change that step makes.    *)
(* Between any two of them the button task may ask for an OTA update and   *)
(* the power may fail.  Outcomes of drivers, of the radio, of the flash    *)
(* and of the hub's commands are chosen freely, those nobody looks at too: *)
(* a call that was to shut something down may leave it up.                 *)
(*                                                                         *)
(* Left out: the contents of readings and reports (WaterTankLogic), LED    *)
(* patterns, pairing and channel recovery, and remote logging, which       *)
(* main.cpp compiles off (IS_LOGGING).  Of WiFi only the results that are  *)
(* looked at are kept, those of starting it and of connecting for an       *)
(* update: whether it is up decides nothing else, and the results of its   *)
(* disconnect and stop are dropped by every caller.                        *)
(***************************************************************************)
EXTENDS NodeStorage

ASSUME FactoryAssumption == 1 \in Firmware   \* the image a node is made with

VARIABLES
  pc,                \* where the main task is
  goal,              \* what the save at hand is for
  session_healthy,
  rail,              \* is the sensor powered?
  radio,             \* is ESP-NOW initialised?
  armed,             \* does the button task deliver presses?
  ota_triggered,
  late_press,        \* was it set after run() had looked at it?
  ota_requested,     \* cmd_res.ota_requested: did a START_OTA command arrive?
  gpio_wakeup,       \* stats_.gpio_wakeup_enabled
  wake,              \* wake-up sources configured for the sleep
  running, image,    \* firmware version of the running image and its state
  staged,            \* is a downloaded image selected for the next boot?
  fault,             \* did a step of this session fail that health depends on?
  saves_ok           \* did every save of this session succeed?

buttonVars  == <<ota_triggered, late_press>>
deviceVars  == <<rail, radio, armed, buttonVars, wake>>
imageVars   == <<running, image, staged>>
sessionVars == <<goal, session_healthy, ota_requested, gpio_wakeup, fault, saves_ok>>
appVars     == <<pc, deviceVars, imageVars, sessionVars>>
allVars     == <<storageVars, appVars>>

\* The fields of TankCommandProcessResult that decide what run does next.
Commands == [ota : BOOLEAN, reboot : BOOLEAN, sync : BOOLEAN]

Goto(from, to) == pc = from /\ pc' = to

Init ==
  /\ StorageInit
  /\ pc = "boot" /\ goal = "none" /\ session_healthy = TRUE
  /\ rail = FALSE /\ radio = FALSE /\ armed = FALSE
  /\ ota_triggered = FALSE /\ late_press = FALSE /\ ota_requested = FALSE
  /\ gpio_wakeup = FALSE /\ wake = {}
  /\ running = 1 /\ image = "confirmed" /\ staged = FALSE
  /\ fault = FALSE /\ saves_ok = TRUE

-----------------------------------------------------------------------------
(* Resets.  The boot loader starts a staged image on probation and gives   *)
(* up one that was still on probation when the node was reset              *)
(* (CONFIG_BOOTLOADER_APP_ROLLBACK_ENABLE).                                *)

\* Mutant: the image gone back to is on probation as the other one was.
BootImageOnProbation ==
  /\ running' = CASE staged                       -> running + 1
                  [] image = "pending" /\ ~staged -> running - 1
                  [] OTHER                        -> running
  /\ image' = IF staged THEN "pending" ELSE image
  /\ staged' = FALSE

BootImage ==
  /\ running' = CASE staged                       -> running + 1
                  [] image = "pending" /\ ~staged -> running - 1
                  [] OTHER                        -> running
  /\ image' = IF staged THEN "pending" ELSE "confirmed"
  /\ staged' = FALSE

Reset ==
  /\ pc' = "boot" /\ goal' = "none" /\ session_healthy' = TRUE
  /\ rail' = FALSE /\ radio' = FALSE /\ armed' = FALSE
  /\ ota_triggered' = FALSE /\ late_press' = FALSE /\ ota_requested' = FALSE
  /\ gpio_wakeup' = FALSE /\ wake' = {}
  /\ fault' = FALSE /\ saves_ok' = TRUE
  /\ BootImage

WakeUp ==
  /\ pc = "asleep" /\ wake # {}
  /\ Reset /\ WakeStorage

\* esp_restart, after a command, an update or a sleep nothing would end
RestartNode ==
  /\ pc = "restart"
  /\ Reset /\ RestartStorage

PowerLoss == Reset /\ RestartStorage

\* Any press of the button that the armed trigger delivers.
OnOtaTriggered ==
  /\ armed /\ ~ota_triggered
  /\ ota_triggered' = TRUE
  /\ late_press' = (pc \notin {"measure", "listen", "ota_check"})
  /\ UNCHANGED <<storageVars, pc, rail, radio, armed, wake, imageVars,
                 sessionVars>>

\* What becomes of a device that is switched off by a call whose result nobody
\* looks at (power_.turn_off, espnow_.deinit): one that refuses stays on.
ShutDown(device, ok) == device /\ ~ok

-----------------------------------------------------------------------------
(* init *)

\* A step of init that failed: the session is unhealthy but goes on.
Note(ok) ==
  /\ session_healthy' = (session_healthy /\ ok)
  /\ fault' = (fault \/ ~ok)
  /\ UNCHANGED <<goal, ota_requested, gpio_wakeup, saves_ok>>

\* The one failure that ends init at once, before the rollback check.
InitOtaController(ok) ==
  /\ Goto("boot", IF ok THEN "init_wifi" ELSE "safe_sleep")
  /\ fault' = (fault \/ ~ok)
  /\ UNCHANGED <<storageVars, deviceVars, imageVars, goal, session_healthy, ota_requested,
                 gpio_wakeup, saves_ok>>

\* WiFi, the time manager and the float switch.
InitPeripherals(wifi_ok, others_ok) ==
  /\ Goto("init_wifi", "init_core")
  /\ Note(wifi_ok /\ others_ok)
  /\ UNCHANGED <<storageVars, deviceVars, imageVars>>

InitCore(ok, boot_event) ==
  /\ Goto("init_core", "init_tank")
  /\ InitCoreStorage(ok, boot_event)
  /\ Note(ok)
  /\ UNCHANGED <<deviceVars, imageVars>>

InitTank(ok) ==
  /\ Goto("init_tank", "version")
  /\ InitTankStorage(ok)
  /\ Note(ok)
  /\ UNCHANGED <<deviceVars, imageVars>>

\* get_running_version may know no version.
CheckVersion(known) ==
  /\ Goto("version", "init_radio")
  /\ IF known THEN UpdateRunningVersion(running) ELSE UNCHANGED storageVars
  /\ UNCHANGED <<deviceVars, imageVars, sessionVars>>

\* ESP-NOW, the power control and, if that is up, the sensor.
InitRadioAndSensor(radio_ok, sensor_ok) ==
  /\ Goto("init_radio", "health_gate")
  /\ radio' = radio_ok
  /\ Note(radio_ok /\ sensor_ok)
  /\ UNCHANGED <<storageVars, rail, armed, buttonVars, wake, imageVars>>

\* Mutant: only an image on probation is held to the health of its session.
AfterInitLeniently ==
  IF ~session_healthy /\ image = "pending" THEN "verify" ELSE "power_on"

\* An unhealthy session ends here; on probation it goes through the verdict.
AfterInit ==
  CASE session_healthy                       -> "power_on"
    [] ~session_healthy /\ image = "pending" -> "verify"
    [] OTHER                                 -> "safe_sleep"

HealthGate ==
  /\ Goto("health_gate", AfterInit)
  /\ goal' = IF session_healthy THEN "sleep" ELSE "none"
  /\ UNCHANGED <<storageVars, deviceVars, imageVars, session_healthy, ota_requested,
                 gpio_wakeup, fault, saves_ok>>

\* app_main after a failed init; the result of the timer is not looked at.
SafeSleep(timer_ok) ==
  /\ Goto("safe_sleep", "asleep")
  /\ wake' = IF timer_ok THEN {"timer"} ELSE {}
  /\ UNCHANGED <<storageVars, rail, radio, armed, buttonVars, imageVars,
                 sessionVars>>

-----------------------------------------------------------------------------
(* run: measure, report, listen *)

\* A rail that would not come on is taken to be off.
PowerOn(ok) ==
  /\ Goto("power_on", "arm")
  /\ rail' = ok
  /\ fault' = (fault \/ ~ok)
  /\ UNCHANGED <<storageVars, radio, armed, buttonVars, wake, imageVars,
                 goal, session_healthy, ota_requested, gpio_wakeup, saves_ok>>

\* The result of arm is not looked at.
ArmTrigger(ok) ==
  /\ Goto("arm", "measure")
  /\ armed' = ok
  /\ UNCHANGED <<storageVars, rail, radio, buttonVars, wake, imageVars,
                 sessionVars>>

\* Mutant: a rail that would not come on leaves the session healthy.
JudgePowerLeniently == UNCHANGED session_healthy

\* Without the rail there is no reading, and the session is unhealthy.
JudgePower == session_healthy' = (session_healthy /\ rail)

MeasureLevel(off_ok) ==
  /\ Goto("measure", "listen")
  /\ rail' = ShutDown(rail, off_ok)
  /\ RecordMeasurement
  /\ JudgePower
  /\ UNCHANGED <<radio, armed, buttonVars, wake, imageVars, goal, ota_requested,
                 gpio_wakeup, fault, saves_ok>>

\* The report, then LISTEN_WINDOW_MS of commands; a reboot goes before all else.
Listen(received) ==
  /\ Goto("listen", IF received.reboot THEN "save" ELSE "ota_check")
  /\ ota_requested' = received.ota
  /\ goal' = IF received.reboot THEN "reboot" ELSE goal
  /\ IF received.sync THEN RecordTimeSync ELSE UNCHANGED storageVars
  /\ UNCHANGED <<deviceVars, imageVars, session_healthy, gpio_wakeup, fault,
                 saves_ok>>

-----------------------------------------------------------------------------
(* process_pending_ota *)

\* Mutant: only the hub's command is looked at.
OtaCommanded == ota_requested

OtaWanted == ota_requested \/ ota_triggered

CheckOta ==
  /\ Goto("ota_check", IF OtaWanted THEN "ota_begin" ELSE "verify")
  /\ UNCHANGED <<storageVars, deviceVars, imageVars, sessionVars>>

BeginOta(deinit_ok) ==
  /\ Goto("ota_begin", "ota_disarm")
  /\ ota_triggered' = FALSE /\ late_press' = FALSE
  /\ radio' = ShutDown(radio, deinit_ok)
  /\ UNCHANGED <<storageVars, rail, armed, wake, imageVars, sessionVars>>

\* disarm has no result.
DisarmAndConnect(wifi_ok) ==
  /\ Goto("ota_disarm", IF wifi_ok THEN "download" ELSE "ota_failed")
  /\ armed' = FALSE
  /\ UNCHANGED <<storageVars, rail, radio, buttonVars, wake, imageVars,
                 sessionVars>>

\* The updater refuses to write over the other slot while the running image
\* is on probation; the last version of the model has no successor.
DownloadSucceeds ==
  /\ Goto("download", "save")
  /\ image = "confirmed" /\ running + 1 \in Firmware
  /\ staged' = TRUE
  /\ goal' = "update"
  /\ RequestFullCommit
  /\ UNCHANGED <<deviceVars, running, image, session_healthy, ota_requested, gpio_wakeup, fault, saves_ok>>

\* The updater may finish between the watchdog's last look and the request to
\* stop (OtaController): the node goes on, with a new image for its next boot.
DownloadFails(finished_late) ==
  /\ Goto("download", "ota_failed")
  /\ finished_late => image = "confirmed" /\ running + 1 \in Firmware
  /\ staged' = finished_late
  /\ UNCHANGED <<storageVars, deviceVars, running, image, sessionVars>>

\* A session that cannot bring ESP-NOW up again does not count it as a failure.
ResumeAfterOta(radio_ok, arm_ok) ==
  /\ Goto("ota_failed", "verify")
  /\ radio' = (radio \/ radio_ok)
  /\ armed' = arm_ok
  /\ UNCHANGED <<storageVars, rail, buttonVars, wake, imageVars, sessionVars>>

-----------------------------------------------------------------------------
(* check_firmware_healthy *)

NothingToVerify ==
  /\ Goto("verify", "plan")
  /\ image = "confirmed"
  /\ UNCHANGED <<storageVars, deviceVars, imageVars, sessionVars>>

ConfirmFirmware ==
  /\ Goto("verify", "plan")
  /\ image = "pending" /\ session_healthy
  /\ image' = "confirmed"
  /\ RequestCoreCommit
  /\ UNCHANGED <<deviceVars, running, staged, sessionVars>>

\* The session is unhealthy, or the partition cannot be marked valid.
RejectFirmware ==
  /\ Goto("verify", "rollback")
  /\ image = "pending"
  /\ fault' = TRUE
  /\ UNCHANGED <<storageVars, deviceVars, imageVars, goal, session_healthy, ota_requested, gpio_wakeup, saves_ok>>

RollbackAndReboot ==
  /\ pc = "rollback"
  /\ Reset /\ RestartStorage

\* There was no image to go back to: init returns, or run goes on.
RollbackRefused ==
  /\ Goto("rollback", IF goal = "none" THEN "safe_sleep" ELSE "plan")
  /\ UNCHANGED <<storageVars, deviceVars, imageVars, sessionVars>>

-----------------------------------------------------------------------------
(* save and leave *)

PlanSleep(wakeup) ==
  /\ Goto("plan", "save")
  /\ gpio_wakeup' = wakeup
  /\ UNCHANGED <<storageVars, deviceVars, imageVars, goal, session_healthy, ota_requested,
                 fault, saves_ok>>

SavePersistentState ==
  /\ Goto("save", "save_core")
  /\ BeginSave
  /\ UNCHANGED <<deviceVars, imageVars, sessionVars>>

SaveCoreStep(outcome) ==
  /\ Goto("save_core", "save_tank")
  /\ SaveCore(outcome)
  /\ saves_ok' = (outcome = "saved")
  /\ UNCHANGED <<deviceVars, imageVars, goal, session_healthy, ota_requested, gpio_wakeup,
                 fault>>

SaveTankStep(outcome) ==
  /\ Goto("save_tank", CASE goal = "reboot" -> "reboot_shutdown"
                         [] goal = "update" -> "restart"
                         [] OTHER           -> "sleep_shutdown")
  /\ SaveTank(outcome)
  /\ saves_ok' = (saves_ok /\ outcome = "saved")
  /\ UNCHANGED <<deviceVars, imageVars, goal, session_healthy, ota_requested, gpio_wakeup,
                 fault>>

RebootShutdown(deinit_ok) ==
  /\ Goto("reboot_shutdown", "restart")
  /\ radio' = ShutDown(radio, deinit_ok)
  /\ UNCHANGED <<storageVars, rail, armed, buttonVars, wake, imageVars,
                 sessionVars>>

SleepShutdown(deinit_ok) ==
  /\ Goto("sleep_shutdown", "configure_wakeup")
  /\ armed' = FALSE
  /\ radio' = ShutDown(radio, deinit_ok)
  /\ UNCHANGED <<storageVars, rail, buttonVars, wake, imageVars, sessionVars>>

\* Mutant: the node sleeps whatever could be configured.
AfterWakeupTrusting(sources) == "asleep"

AfterWakeup(sources) == IF sources = {} THEN "restart" ELSE "asleep"

\* The pin wakes only if its configuration and its enabling both succeed.
ConfigureWakeup(gpio_ok, timer_ok) ==
  LET sources == (IF gpio_wakeup /\ gpio_ok THEN {"gpio"} ELSE {})
                   \cup (IF timer_ok THEN {"timer"} ELSE {})
  IN /\ Goto("configure_wakeup", AfterWakeup(sources))
     /\ wake' = sources
     /\ UNCHANGED <<storageVars, rail, radio, armed, buttonVars,
                    imageVars, sessionVars>>

-----------------------------------------------------------------------------
InitStep ==
  \/ \E ok \in BOOLEAN : InitOtaController(ok) \/ InitTank(ok) \/ CheckVersion(ok)
  \/ \E ok, also_ok \in BOOLEAN :
       \/ InitPeripherals(ok, also_ok)
       \/ InitCore(ok, also_ok)
       \/ InitRadioAndSensor(ok, also_ok)
  \/ HealthGate

RunStep ==
  \/ \E ok \in BOOLEAN : PowerOn(ok) \/ ArmTrigger(ok) \/ MeasureLevel(ok)
  \/ \E received \in Commands : Listen(received)

OtaStep ==
  \/ CheckOta
  \/ \E ok \in BOOLEAN : BeginOta(ok) \/ DisarmAndConnect(ok) \/ DownloadFails(ok)
  \/ DownloadSucceeds
  \/ \E radio_ok, arm_ok \in BOOLEAN : ResumeAfterOta(radio_ok, arm_ok)
  \/ NothingToVerify \/ ConfirmFirmware \/ RejectFirmware
  \/ RollbackAndReboot \/ RollbackRefused

LeaveStep ==
  \/ \E ok \in BOOLEAN : PlanSleep(ok) \/ SafeSleep(ok)
  \/ SavePersistentState
  \/ \E outcome \in SaveOutcomes : SaveCoreStep(outcome) \/ SaveTankStep(outcome)
  \/ \E ok \in BOOLEAN : RebootShutdown(ok) \/ SleepShutdown(ok)
  \/ RestartNode
  \/ \E gpio_ok, timer_ok \in BOOLEAN : ConfigureWakeup(gpio_ok, timer_ok)

MainTask == InitStep \/ RunStep \/ OtaStep \/ LeaveStep

Next == MainTask \/ WakeUp \/ OnOtaTriggered \/ PowerLoss

Spec == Init /\ [][Next]_allVars

\* The main task runs as long as it has something to do (every wait of init
\* and run has a timeout) and a configured wake-up source fires in the end.
FairSpec == Spec /\ WF_allVars(MainTask) /\ WF_allVars(WakeUp)

-----------------------------------------------------------------------------
(* Properties *)

Phases == {"boot", "init_wifi", "init_core", "init_tank", "version", "init_radio",
           "health_gate", "power_on", "arm", "measure", "listen", "ota_check",
           "ota_begin", "ota_disarm", "download", "ota_failed", "verify",
           "rollback", "plan", "save", "save_core", "save_tank",
           "reboot_shutdown", "sleep_shutdown", "configure_wakeup", "safe_sleep",
           "asleep", "restart"}

\* Types and ranges of what the node itself keeps; a node never runs a version
\* that was not built, however often it updates and goes back.
TypeOK ==
  /\ pc \in Phases /\ goal \in {"none", "sleep", "reboot", "update"}
  /\ session_healthy \in BOOLEAN /\ fault \in BOOLEAN /\ saves_ok \in BOOLEAN
  /\ rail \in BOOLEAN /\ radio \in BOOLEAN
  /\ armed \in BOOLEAN /\ ota_triggered \in BOOLEAN /\ late_press \in BOOLEAN
  /\ ota_requested \in BOOLEAN /\ gpio_wakeup \in BOOLEAN
  /\ wake \subseteq {"gpio", "timer"}
  /\ running \in Firmware /\ image \in {"confirmed", "pending"}
  /\ staged \in BOOLEAN

\* When every save of the session succeeded, a session that sleeps leaves all
\* it knows in RTC memory, and one that restarts after an update leaves it in
\* flash.  Whichever way such a session takes, by the restart of a sleep that
\* nothing would end too, its core data is in flash.  (A roll-back restarts
\* without a save and is not spoken of.)
NothingLostOnTheWay ==
  pc \in {"asleep", "restart"} /\ saves_ok =>
    /\ goal = "sleep" => rtc_core = core /\ rtc_tank = tank
    /\ goal = "update" => tank.ahead = 0 /\ nvs_cycles = tank.cycles
    /\ goal # "none" /\ ~core_commit_failed => ~core.unsaved /\ nvs_fw = core.fw

\* A new image is confirmed only in a session whose init brought everything up
\* and whose sensor rail came on.  What fails later is not asked: see
\* ConfirmedOnlyHealthy.
ConfirmedOnlyInitialised ==
  [][image = "pending" /\ image' = "confirmed" /\ running' = running
       => ~fault]_allVars

\* A press delivered before run() looks at ota_triggered_ (line 274) is served
\* by an update attempt: a session that sleeps with a press unserved got it
\* after the look, from a trigger it disarms only on the way to sleep.
EarlyPressIsServed ==
  pc = "asleep" /\ goal = "sleep" /\ ota_triggered => late_press

\* The node always starts another session: whatever fails on the way, no session
\* stops, and one that ran to its end does not sleep without something to wake it
\* (lines 426-430).  Only a safe sleep whose timer could not be set, which nobody
\* looks at (main.cpp, line 220), may be the last.
AlwaysComesBack ==
  []<>(pc = "boot") \/ <>[](pc = "asleep" /\ goal = "none" /\ wake = {})

\* The persistent state lives as StorageCycle says, so what is proved there
\* holds for the node.
StoragePhase ==
  CASE pc \in {"boot", "init_wifi", "init_core"} -> "booting"
    [] pc = "init_tank" -> "core_loaded"
    [] pc \in {"version", "init_radio", "health_gate", "power_on", "arm", "measure"}
         -> "loaded"
    [] pc \in {"safe_sleep", "asleep", "verify", "rollback"} /\ goal = "none"
         -> IF session_healthy THEN "booting" ELSE "loaded"
    [] pc = "save_core" -> "saving_core"
    [] pc = "save_tank" -> "saving_tank"
    [] pc \in {"reboot_shutdown", "sleep_shutdown", "configure_wakeup", "asleep",
               "restart"} /\ goal # "none" -> "saved"
    [] OTHER -> "measured"

Cycle == INSTANCE StorageCycle WITH phase <- StoragePhase, sound <- session_healthy

ImplementsStorageCycle == Cycle!Spec

\* DESIGN.md line 142: check_firmware_healthy "verifies all peripheral inits" and
\* "If any init fails, the partition is rejected": an image is confirmed with
\* ESP-NOW up, as it is while the node can still be reached.
ConfirmedOnlyHealthy ==
  [][image = "pending" /\ image' = "confirmed" /\ running' = running
       => ~fault /\ radio]_allVars

\* DESIGN.md line 112: flash commits are throttled "unless forced by critical
\* events (e.g. firmware confirmation, time sync, reboot command)".
RebootCommandCommits ==
  pc = "restart" /\ goal = "reboot" /\ saves_ok => tank.ahead = 0

\* DESIGN.md line 142: after an update, "If healthy, the partition is
\* confirmed".  The boot loader gives up an image that is still on probation
\* when the node restarts, so a session without a failure must not do that.
HealthyImageIsKept == pc = "restart" /\ image = "pending" => fault
=============================================================================
