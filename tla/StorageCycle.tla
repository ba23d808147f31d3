---------------------------- MODULE StorageCycle ----------------------------
(***************************************************************************)
(* The life of the persistent state, session after session, whatever the   *)
(* rest of the node does: a session loads, measures, may record events, at *)
(* most once saves, and ends in a deep sleep or in a reset, which may come *)
(* at any moment.  WaterTankApp implements this specification.             *)
(***************************************************************************)
EXTENDS NodeStorage

VARIABLES
  phase,    \* how far the session has come with its data
  sound     \* session_healthy_: may the session still measure?

cycleVars == <<storageVars, phase, sound>>

Phases == {"booting", "core_loaded", "loaded", "measured", "saving_core",
           "saving_tank", "saved"}

\* In every step of a session soundness can only be lost.
Moves(from, to) ==
  /\ phase = from /\ phase' = to
  /\ sound' \in BOOLEAN /\ (sound' => sound)

Init == StorageInit /\ phase = "booting" /\ sound = TRUE

LoadCore(ok, boot_event) ==
  /\ Moves("booting", "core_loaded")
  /\ InitCoreStorage(ok, boot_event)
  /\ sound' => ok

LoadTank(ok) ==
  /\ Moves("core_loaded", "loaded")
  /\ InitTankStorage(ok)
  /\ sound' => ok

SeeVersion(fw) == Moves("loaded", "loaded") /\ UpdateRunningVersion(fw)

Record == sound /\ Moves("loaded", "measured") /\ RecordMeasurement

RecordEvent ==
  /\ Moves("measured", "measured")
  /\ RecordTimeSync \/ RequestCoreCommit \/ RequestFullCommit

StartSave == Moves("measured", "saving_core") /\ BeginSave

StoreCore(outcome) == Moves("saving_core", "saving_tank") /\ SaveCore(outcome)

StoreTank(outcome) == Moves("saving_tank", "saved") /\ SaveTank(outcome)

\* Soundness is lost by a failure that does not touch the data.
Ail == Moves(phase, phase) /\ UNCHANGED storageVars

\* A deep sleep is entered after the save, or by app_main when init failed.
WakeUp ==
  /\ phase \in {"booting", "core_loaded", "loaded", "saved"}
  /\ phase' = "booting" /\ sound' = TRUE
  /\ WakeStorage

Restart ==
  /\ phase' = "booting" /\ sound' = TRUE
  /\ RestartStorage

Next ==
  \/ \E ok, boot_event \in BOOLEAN : LoadCore(ok, boot_event)
  \/ \E ok \in BOOLEAN : LoadTank(ok)
  \/ \E fw \in Firmware : SeeVersion(fw)
  \/ Record \/ RecordEvent
  \/ StartSave
  \/ \E outcome \in SaveOutcomes : StoreCore(outcome) \/ StoreTank(outcome)
  \/ Ail \/ WakeUp \/ Restart

Spec == Init /\ [][Next]_cycleVars

-----------------------------------------------------------------------------
\* Types and ranges; the counter of sessions stays below the interval wherever
\* it is kept, and reaches it only in RAM, in the session that commits.
TypeOK ==
  /\ core \in CoreData /\ tank \in TankData
  /\ pending_core_commit \in BOOLEAN /\ pending_tank_commit \in BOOLEAN
  /\ periodic \in BOOLEAN
  /\ rtc_core \in CoreData \cup {NoCopy} /\ rtc_tank \in TankData \cup {NoCopy}
  /\ nvs_fw \in Nat /\ nvs_cycles \in 0..(NvsCommitInterval - 1)
  /\ tank.cycles \in 0..NvsCommitInterval
  /\ rtc_tank # NoCopy => rtc_tank.cycles \in 0..(NvsCommitInterval - 1)
  /\ commit_failures \in 0..MaxCommitFailures /\ core_commit_failed \in BOOLEAN
  /\ phase \in Phases /\ sound \in BOOLEAN

\* NVS_COMMIT_INTERVAL bounds what a loss of power can cost: the copy that
\* lives on in RTC memory is less than one interval of sessions ahead of the
\* flash copy, and one interval more for each NVS write that failed since the
\* last good one, because save_persistent_state resets the counter before it
\* knows whether the write succeeds (lines 440 and 453).
LossIsBounded ==
  rtc_tank # NoCopy =>
    rtc_tank.ahead < NvsCommitInterval * (1 + commit_failures)

\* A time synchronisation or a new firmware version that reached RTC memory
\* is in flash as well, unless an NVS write failed: pending_core_commit is
\* lost with RAM when the node sleeps, so nothing later would make up for it.
CoreEventsAreDurable ==
  rtc_core # NoCopy /\ ~core_commit_failed =>
    ~rtc_core.unsaved /\ rtc_core.fw = nvs_fw
=============================================================================
