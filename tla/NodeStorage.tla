----------------------------- MODULE NodeStorage -----------------------------
(***************************************************************************)
(* The persistent state of the node and what WaterTankApp does to it.      *)
(*                                                                         *)
(* core_ and stats_ live in RAM for one session.  Each has a copy in RTC   *)
(* memory, which survives deep sleep but neither a restart nor a loss of   *)
(* power (main.cpp keeps it in RTC_DATA_ATTR variables), and a copy in NVS *)
(* flash, which survives everything.  The stores themselves (AppStorage,   *)
(* NvsCore and their back ends) are a library: what the node needs of them *)
(* is that a load prefers a valid RTC copy, then the NVS copy, then the    *)
(* defaults, and that a save writes RTC memory and, when forced, NVS.      *)
(*                                                                         *)
(* What a copy holds is counted against the NVS copy: tank.ahead is the    *)
(* number of measurements the NVS copy lacks, core.unsaved tells whether   *)
(* the copy holds a time synchronisation the NVS copy lacks.               *)
(***************************************************************************)
EXTENDS Integers

CONSTANTS
  NvsCommitInterval,   \* NVS_COMMIT_INTERVAL
  SaveOutcomes,        \* how a save may end: a subset of AllSaveOutcomes
  MaxCommitFailures,   \* bound: NVS writes of tank data that fail in a row
  Firmware,            \* firmware versions, numbers from 1 on; 0 is no version
  NoCopy               \* an RTC copy that is not valid

AllSaveOutcomes == {"saved",        \* ESP_OK
                    "nvs_failed",   \* an error after RTC memory was written
                    "not_saved"}    \* an error and nothing written

TankData == [cycles : Nat, ahead : Nat]
CoreData == [fw : Nat, unsaved : BOOLEAN]

ASSUME IntervalAssumption == NvsCommitInterval \in Nat \ {0}
ASSUME OutcomesAssumption == SaveOutcomes \subseteq AllSaveOutcomes
ASSUME MaxFailuresAssumption == MaxCommitFailures \in Nat
ASSUME FirmwareAssumption == Firmware \subseteq Nat
ASSUME NoCopyAssumption == NoCopy \notin TankData \cup CoreData

VARIABLES
  core, tank,                                  \* core_ and stats_
  pending_core_commit, pending_tank_commit,
  periodic,                                    \* periodic_commit of the save
  rtc_core, rtc_tank,                          \* the RTC copies, or NoCopy
  nvs_fw, nvs_cycles,                          \* fields of the NVS copies
  commit_failures,     \* NVS writes of tank that failed since the last success
  core_commit_failed   \* the last NVS write of core failed

ramVars     == <<core, tank, pending_core_commit, pending_tank_commit, periodic>>
rtcVars     == <<rtc_core, rtc_tank>>
nvsVars     == <<nvs_fw, nvs_cycles, commit_failures, core_commit_failed>>
storageVars == <<ramVars, rtcVars, nvsVars>>

DefaultTank == [cycles |-> 0, ahead |-> 0]
DefaultCore == [fw |-> 0, unsaved |-> FALSE]

StorageInit ==
  /\ core = DefaultCore /\ tank = DefaultTank
  /\ pending_core_commit = FALSE /\ pending_tank_commit = FALSE
  /\ periodic = FALSE
  /\ rtc_core = NoCopy /\ rtc_tank = NoCopy
  /\ nvs_fw = 0 /\ nvs_cycles = 0
  /\ commit_failures = 0 /\ core_commit_failed = FALSE

-----------------------------------------------------------------------------
(* Load, at the start of a session *)

\* init_core_storage; process_boot_reasons may ask for a commit.
InitCoreStorage(ok, boot_event) ==
  /\ core' = CASE ~ok                      -> DefaultCore
               [] ok /\ rtc_core = NoCopy  -> [fw |-> nvs_fw, unsaved |-> FALSE]
               [] OTHER                    -> rtc_core
  /\ pending_core_commit' = (ok /\ boot_event)
  /\ UNCHANGED <<tank, pending_tank_commit, periodic, rtcVars, nvsVars>>

StoredTank ==
  IF rtc_tank = NoCopy THEN [cycles |-> nvs_cycles, ahead |-> 0] ELSE rtc_tank

\* Mutant: the session is not counted.
InitTankStorageUncounted(ok) ==
  /\ tank' = IF ok THEN StoredTank ELSE DefaultTank
  /\ UNCHANGED <<core, pending_core_commit, pending_tank_commit, periodic,
                 rtcVars, nvsVars>>

\* init_tank_storage
InitTankStorage(ok) ==
  /\ tank' = IF ok THEN [StoredTank EXCEPT !.cycles = @ + 1] ELSE DefaultTank
  /\ UNCHANGED <<core, pending_core_commit, pending_tank_commit, periodic,
                 rtcVars, nvsVars>>

\* update_running_version, for the version of the running image.
UpdateRunningVersion(fw) ==
  /\ core' = [core EXCEPT !.fw = fw]
  /\ pending_core_commit' = (pending_core_commit \/ core.fw # fw)
  /\ UNCHANGED <<tank, pending_tank_commit, periodic, rtcVars, nvsVars>>

-----------------------------------------------------------------------------
(* What a session records *)

\* process_reading counts every reading in stats_, good or bad.
RecordMeasurement ==
  /\ tank' = [tank EXCEPT !.ahead = @ + 1]
  /\ UNCHANGED <<core, pending_core_commit, pending_tank_commit, periodic,
                 rtcVars, nvsVars>>

\* Mutant: the new time is recorded but no commit is asked for.
RecordTimeSyncLazily ==
  /\ core' = [core EXCEPT !.unsaved = TRUE]
  /\ UNCHANGED <<tank, pending_core_commit, pending_tank_commit, periodic,
                 rtcVars, nvsVars>>

\* A SYNC_TIME command was carried out.
RecordTimeSync ==
  /\ core' = [core EXCEPT !.unsaved = TRUE]
  /\ pending_core_commit' = TRUE
  /\ UNCHANGED <<tank, pending_tank_commit, periodic, rtcVars, nvsVars>>

\* The running image was confirmed.
RequestCoreCommit ==
  /\ pending_core_commit' = TRUE
  /\ UNCHANGED <<core, tank, pending_tank_commit, periodic, rtcVars, nvsVars>>

\* A new image was downloaded.
RequestFullCommit ==
  /\ pending_core_commit' = TRUE
  /\ pending_tank_commit' = TRUE
  /\ UNCHANGED <<core, tank, periodic, rtcVars, nvsVars>>

-----------------------------------------------------------------------------
(* save_persistent_state: the counter is reset first, then core, then tank *)

\* Mutant: the counter runs on after a periodic commit.
BeginSaveWithoutReset ==
  /\ periodic' = (tank.cycles >= NvsCommitInterval)
  /\ UNCHANGED <<core, tank, pending_core_commit, pending_tank_commit, rtcVars,
                 nvsVars>>

BeginSave ==
  /\ periodic' = (tank.cycles >= NvsCommitInterval)
  /\ tank' = IF periodic' THEN [tank EXCEPT !.cycles = 0] ELSE tank
  /\ UNCHANGED <<core, pending_core_commit, pending_tank_commit, rtcVars, nvsVars>>

\* One call of save_core: its outcome; a forced one also writes NVS.
SaveCore(outcome) ==
  LET force == pending_core_commit \/ periodic
      saved == IF force THEN [core EXCEPT !.unsaved = FALSE] ELSE core
  IN
  /\ \/ /\ outcome = "saved"
        /\ core' = saved /\ rtc_core' = saved
        /\ nvs_fw' = IF force THEN core.fw ELSE nvs_fw
        /\ core_commit_failed' = (core_commit_failed /\ ~force)
        /\ pending_core_commit' = FALSE
     \/ /\ outcome = "nvs_failed" /\ force
        /\ rtc_core' = core
        /\ core_commit_failed' = TRUE
        /\ UNCHANGED <<core, nvs_fw, pending_core_commit>>
     \/ /\ outcome = "not_saved"
        /\ UNCHANGED <<core, rtc_core, nvs_fw, core_commit_failed,
                       pending_core_commit>>
  /\ UNCHANGED <<tank, pending_tank_commit, periodic, rtc_tank, nvs_cycles,
                 commit_failures>>

\* Mutant: only the periodic commit reaches flash.
ForceTankPeriodically == periodic

ForceTank == pending_tank_commit \/ periodic

SaveTank(outcome) ==
  LET saved == IF ForceTank THEN [tank EXCEPT !.ahead = 0] ELSE tank IN
  /\ \/ /\ outcome = "saved"
        /\ tank' = saved /\ rtc_tank' = saved
        /\ nvs_cycles' = IF ForceTank THEN tank.cycles ELSE nvs_cycles
        /\ commit_failures' = IF ForceTank THEN 0 ELSE commit_failures
        /\ pending_tank_commit' = FALSE
     \/ /\ outcome = "nvs_failed" /\ ForceTank
        /\ commit_failures < MaxCommitFailures
        /\ rtc_tank' = tank
        /\ commit_failures' = commit_failures + 1
        /\ UNCHANGED <<tank, nvs_cycles, pending_tank_commit>>
     \/ /\ outcome = "not_saved"
        /\ UNCHANGED <<tank, rtc_tank, nvs_cycles, commit_failures,
                       pending_tank_commit>>
  /\ UNCHANGED <<core, pending_core_commit, periodic, rtc_core, nvs_fw,
                 core_commit_failed>>

-----------------------------------------------------------------------------
(* Resets: RAM starts over; RTC memory survives a deep sleep only *)

ForgetRam ==
  /\ core' = DefaultCore /\ tank' = DefaultTank
  /\ pending_core_commit' = FALSE /\ pending_tank_commit' = FALSE
  /\ periodic' = FALSE

WakeStorage ==
  /\ ForgetRam
  /\ UNCHANGED <<rtcVars, nvsVars>>

RestartStorage ==
  /\ ForgetRam
  /\ rtc_core' = NoCopy /\ rtc_tank' = NoCopy
  /\ UNCHANGED nvsVars
=============================================================================
