---------------------------- MODULE OtaController ----------------------------
(***************************************************************************)
(* OtaController (main/src/ota_controller.cpp): the download of a new      *)
(* image, polled under a watchdog, and the verdict on a new image.         *)
(*                                                                         *)
(* OtaManager is a library with a task of its own.  The controller relies  *)
(* on this much of it: start_ota starts the task; the task ends in         *)
(* READY_TO_RESTART, the new image then being selected for the next boot,  *)
(* or in FAILED with a reason, or never; cancel_ota asks it to stop, which *)
(* it does when it next looks.  It takes its steps between any two steps   *)
(* of the controller.                                                      *)
(***************************************************************************)
EXTENDS Integers

CONSTANTS
  TimeoutMs,   \* timeout_ms of execute_download
  PollMs       \* the delay of the polling loop, 500

ASSUME TimeoutAssumption == TimeoutMs \in Nat
ASSUME PollAssumption == PollMs \in Nat \ {0}

VARIABLES
  pc,              \* the next step of the controller
  elapsed_ms,
  seen,            \* the status it read last
  result,          \* OtaActionResult
  status, reason,  \* the updater's status and last error
  cancelled,       \* was the updater asked to stop?
  staged,          \* is the new image selected for the next boot?
  marked_valid,    \* was the running image marked valid?
  finished_late    \* history: did the updater finish after the last read?

controllerVars == <<pc, elapsed_ms, seen, result>>
managerVars    == <<status, reason, cancelled, staged, marked_valid>>
vars           == <<controllerVars, managerVars, finished_late>>

Final    == {"READY_TO_RESTART", "FAILED"}
Statuses == {"IDLE", "RUNNING"} \cup Final

\* OtaFailReason: NONE, or one of those map_fail_reason has a code for.
FailReasons == {"NONE", "NAMED"}

\* map_fail_reason
ErrorOf(r) == IF r = "NONE" THEN "UNKNOWN_ERROR" ELSE "ERROR_OF_REASON"

Succeeded     == [success |-> TRUE, exec |-> "CONFIRMED_SUCCESS", error |-> "NONE"]
NotDone(code) == [success |-> FALSE, exec |-> "DOWNLOAD_FAILED", error |-> code]
Rejected(why) == [success |-> FALSE, exec |-> "ROLLBACK_TRIGGERED", error |-> why]

Init ==
  /\ pc = "idle" /\ elapsed_ms = 0 /\ seen = "IDLE"
  /\ result = NotDone("NONE")
  /\ status = "IDLE" /\ reason = "NONE" /\ cancelled = FALSE /\ staged = FALSE
  /\ marked_valid = FALSE /\ finished_late = FALSE

-----------------------------------------------------------------------------
(* execute_download *)

StartOta(ok) ==
  /\ pc = "idle"
  /\ IF ok
     THEN pc' = "look" /\ status' = "RUNNING" /\ result' = result
     ELSE pc' = "returned" /\ status' = status
          /\ result' = NotDone("DOWNLOAD_SESSION_FAIL")
  /\ UNCHANGED <<elapsed_ms, seen, reason, cancelled, staged, marked_valid,
                 finished_late>>

\* Mutant: the loop gives up one delay before the watchdog.
KeepsPollingImpatiently(s) == s \notin Final /\ elapsed_ms + PollMs < TimeoutMs

\* Mutant: one delay more once the watchdog has expired.
KeepsPollingOnceMore(s) == s \notin Final /\ elapsed_ms <= TimeoutMs

KeepsPolling(s) == s \notin Final /\ elapsed_ms < TimeoutMs

\* get_status, and the condition of the loop
Look ==
  /\ pc = "look"
  /\ seen' = status
  /\ finished_late' = FALSE
  /\ pc' = IF KeepsPolling(status) THEN "delay" ELSE "judge"
  /\ UNCHANGED <<elapsed_ms, result, managerVars>>

\* Mutant: the time that passed is not counted.
DelayUncounted ==
  /\ pc = "delay" /\ pc' = "look"
  /\ UNCHANGED <<elapsed_ms, seen, result, managerVars, finished_late>>

Delay ==
  /\ pc = "delay" /\ pc' = "look"
  /\ elapsed_ms' = elapsed_ms + PollMs
  /\ UNCHANGED <<seen, result, managerVars, finished_late>>

\* Mutant: the watchdog is looked at before the status.
VerdictOfWatchdog ==
  IF elapsed_ms >= TimeoutMs THEN NotDone("WATCHDOG_TIMEOUT")
  ELSE CASE seen = "READY_TO_RESTART" -> Succeeded
         [] seen = "FAILED"           -> NotDone(ErrorOf(reason))
         [] OTHER                     -> NotDone("NONE")

Verdict ==
  CASE seen = "READY_TO_RESTART" -> Succeeded
    [] seen = "FAILED"           -> NotDone(ErrorOf(reason))
    [] seen \notin Final         -> NotDone(IF elapsed_ms >= TimeoutMs
                                            THEN "WATCHDOG_TIMEOUT" ELSE "NONE")

Judge ==
  /\ pc = "judge"
  /\ result' = Verdict
  /\ pc' = IF Verdict.success THEN "returned" ELSE "cancel"
  /\ UNCHANGED <<elapsed_ms, seen, managerVars, finished_late>>

CancelOta ==
  /\ pc = "cancel" /\ pc' = "returned"
  /\ cancelled' = TRUE
  /\ UNCHANGED <<elapsed_ms, seen, result, status, reason, staged, marked_valid,
                 finished_late>>

-----------------------------------------------------------------------------
(* confirm_firmware; confirm_app_valid is called for a healthy session only *)

\* Mutant: the partition is marked before the health of the session is known.
MarksValidFirst(session_healthy, confirm_ok) == confirm_ok

MarksValid(session_healthy, confirm_ok) == session_healthy /\ confirm_ok

ConfirmFirmware(session_healthy, confirm_ok) ==
  /\ pc = "idle" /\ pc' = "returned"
  /\ marked_valid' = MarksValid(session_healthy, confirm_ok)
  /\ result' = IF session_healthy
               THEN IF confirm_ok THEN Succeeded ELSE Rejected("PARTITION_CONFIRM_FAILED")
               ELSE Rejected("HEALTH_CHECK_FAILED")
  /\ UNCHANGED <<elapsed_ms, seen, status, reason, cancelled, staged, finished_late>>

-----------------------------------------------------------------------------
(* The task of OtaManager *)

UpdaterFinishes ==
  /\ status = "RUNNING"
  /\ status' = "READY_TO_RESTART"
  /\ staged' = TRUE
  /\ finished_late' = TRUE
  /\ UNCHANGED <<controllerVars, reason, cancelled, marked_valid>>

UpdaterFails(r) ==
  /\ status = "RUNNING"
  /\ status' = "FAILED"
  /\ reason' = r
  /\ finished_late' = TRUE
  /\ UNCHANGED <<controllerVars, cancelled, staged, marked_valid>>

UpdaterStops ==
  /\ status = "RUNNING" /\ cancelled
  /\ status' = "IDLE"
  /\ finished_late' = TRUE
  /\ UNCHANGED <<controllerVars, reason, cancelled, staged, marked_valid>>

-----------------------------------------------------------------------------
Polling == Look \/ Delay \/ Judge \/ CancelOta

Called ==
  \/ \E ok \in BOOLEAN : StartOta(ok)
  \/ \E session_healthy, confirm_ok \in BOOLEAN :
       ConfirmFirmware(session_healthy, confirm_ok)

Updater ==
  \/ UpdaterFinishes
  \/ \E r \in FailReasons : UpdaterFails(r)
  \/ UpdaterStops

Next == Called \/ Polling \/ Updater

Spec == Init /\ [][Next]_vars

\* The polling loop runs on the main task, whose delay ends; nothing is
\* assumed of the updater.
FairSpec == Spec /\ WF_vars(Polling)

-----------------------------------------------------------------------------
(* Properties *)

Errors == {"NONE", "WATCHDOG_TIMEOUT", "DOWNLOAD_SESSION_FAIL", "UNKNOWN_ERROR",
           "ERROR_OF_REASON", "HEALTH_CHECK_FAILED", "PARTITION_CONFIRM_FAILED"}

Results == [success : BOOLEAN, error : Errors,
            exec : {"CONFIRMED_SUCCESS", "DOWNLOAD_FAILED", "ROLLBACK_TRIGGERED"}]

\* The polling clock never runs more than one delay past the watchdog.
TypeOK ==
  /\ pc \in {"idle", "look", "delay", "judge", "cancel", "returned"}
  /\ elapsed_ms \in Nat /\ elapsed_ms < TimeoutMs + PollMs
  /\ seen \in Statuses /\ status \in Statuses
  /\ result \in Results
  /\ reason \in FailReasons
  /\ cancelled \in BOOLEAN /\ staged \in BOOLEAN /\ marked_valid \in BOOLEAN
  /\ finished_late \in BOOLEAN

\* What is reported is what happened to the image: process_pending_ota may
\* restart on a reported success (an image is selected, the updater is done),
\* and a confirmation or a rejection agrees with the mark on the partition.
ReportMatchesImage ==
  pc = "returned" =>
    /\ result.success => IF status = "IDLE" THEN marked_valid
                         ELSE staged /\ status = "READY_TO_RESTART"
    /\ result.exec = "ROLLBACK_TRIGGERED" => ~marked_valid

\* The chain of conditions after the loop (lines 81-102) covers every way out
\* of it: a failure always has an error code, and the code of the watchdog
\* means that the whole time was waited.
FailureIsExplained ==
  pc = "returned" /\ ~result.success =>
    /\ result.error # "NONE"
    /\ result.error = "WATCHDOG_TIMEOUT" => elapsed_ms >= TimeoutMs

\* An image the updater had finished before the controller's last look is never
\* reported as a failure: one that is selected although the download was
\* reported as failed was finished after that look, before the updater saw
\* the cancellation.
TimelyAnswerCounts ==
  pc = "returned" /\ ~result.success /\ staged =>
    finished_late /\ result.error = "WATCHDOG_TIMEOUT"

\* The main task gets the radio back whatever the updater does: a download
\* that was started is answered.
DownloadReturns == pc = "look" ~> pc = "returned"
=============================================================================
