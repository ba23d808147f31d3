------------------------ MODULE OtaControllerProofs ------------------------
(***************************************************************************)
(* Proofs about OtaController, for any watchdog and any polling delay, and *)
(* for an updater that may finish, fail or hang at any moment.             *)
(*                                                                         *)
(* IInv follows one download: what the controller last saw is what the     *)
(* updater still is, unless the updater has moved since (finished_late),   *)
(* and a verdict on a running updater is given at the watchdog only.       *)
(***************************************************************************)
EXTENDS OtaController, TLAPS

\* An image is selected when the updater is done, and what was final stays.
UpdaterInv ==
  /\ staged <=> status = "READY_TO_RESTART"
  /\ seen \in Final => status = seen

\* Where the controller is in a download.
PollInv ==
  /\ pc = "idle" => status = "IDLE" /\ ~marked_valid
  /\ pc = "look" => elapsed_ms < TimeoutMs + PollMs
  /\ pc = "delay" => elapsed_ms < TimeoutMs
  /\ pc = "judge" => (seen \notin Final => elapsed_ms >= TimeoutMs)
  /\ pc \in {"look", "delay", "judge", "cancel"} => ~marked_valid

\* The verdict between Judge and CancelOta.
VerdictInv ==
  /\ pc \in {"judge", "cancel"} /\ seen # "READY_TO_RESTART" /\ staged => finished_late
  /\ pc = "cancel" =>
       /\ ~result.success /\ result.exec = "DOWNLOAD_FAILED"
       /\ result.error # "NONE"
       /\ result.error = "WATCHDOG_TIMEOUT" => elapsed_ms >= TimeoutMs
       /\ seen # "READY_TO_RESTART"
       /\ seen \notin Final => result.error = "WATCHDOG_TIMEOUT"

\* An updater still running after the return was given up at the watchdog.
AfterReturn ==
  pc = "returned" /\ status = "RUNNING" =>
    ~result.success /\ result.error = "WATCHDOG_TIMEOUT"

IInv ==
  /\ TypeOK
  /\ UpdaterInv /\ PollInv /\ VerdictInv /\ AfterReturn
  /\ ReportMatchesImage /\ FailureIsExplained /\ TimelyAnswerCounts

USE TimeoutAssumption, PollAssumption

-----------------------------------------------------------------------------
\* Every result the controller can form is an OtaActionResult.
LEMMA ResultTypes ==
  /\ Succeeded \in Results
  /\ \A code \in Errors : NotDone(code) \in Results /\ Rejected(code) \in Results
  /\ \A r \in FailReasons : ErrorOf(r) \in Errors \ {"NONE", "WATCHDOG_TIMEOUT"}
BY DEF Succeeded, NotDone, Rejected, Results, Errors, ErrorOf, FailReasons

\* Before its first call the controller satisfies the invariant.
LEMMA InitStep ==
  ASSUME Init
  PROVE  IInv
<1>1. NotDone("NONE") \in Results
  BY ResultTypes DEF Errors
<1>2. TypeOK
  <2>1. elapsed_ms \in Nat /\ elapsed_ms < TimeoutMs + PollMs
    BY DEF Init
  <2>2. /\ cancelled \in BOOLEAN /\ staged \in BOOLEAN /\ marked_valid \in BOOLEAN
        /\ finished_late \in BOOLEAN
    BY DEF Init
  <2>3. result \in Results
    BY <1>1 DEF Init
  <2>4. /\ pc \in {"idle", "look", "delay", "judge", "cancel", "returned"}
        /\ seen \in Statuses /\ status \in Statuses /\ reason \in FailReasons
    BY DEF Init, Statuses, FailReasons
  <2> QED
    BY <2>1, <2>2, <2>3, <2>4 DEF TypeOK
<1>3. UpdaterInv /\ PollInv /\ VerdictInv
  BY DEF Init, UpdaterInv, PollInv, VerdictInv, Final
<1>4. AfterReturn /\ ReportMatchesImage /\ FailureIsExplained /\ TimelyAnswerCounts
  BY DEF Init, AfterReturn, ReportMatchesImage, FailureIsExplained, TimelyAnswerCounts
<1> QED
  BY <1>2, <1>3, <1>4 DEF IInv

\* Starting a download, or judging an image, from rest.
LEMMA CalledStep ==
  ASSUME IInv, Called
  PROVE  IInv'
<1>1. ASSUME NEW ok \in BOOLEAN, StartOta(ok)
      PROVE  IInv'
  <2>1. UNCHANGED <<elapsed_ms, seen, reason, cancelled, staged, marked_valid,
                    finished_late>>
    BY <1>1 DEF StartOta
  <2>2. pc = "idle" /\ status = "IDLE" /\ ~marked_valid /\ ~staged /\ seen \notin Final
    BY <1>1 DEF StartOta, IInv, PollInv, UpdaterInv, Final
  <2>3. CASE ok
    <3>1. pc' = "look" /\ status' = "RUNNING" /\ result' = result
      BY <1>1, <2>3 DEF StartOta
    <3>2. TypeOK'
      BY <2>1, <3>1 DEF IInv, TypeOK, Statuses
    <3>3. UpdaterInv' /\ PollInv' /\ VerdictInv'
      BY <2>1, <2>2, <3>1 DEF IInv, TypeOK, UpdaterInv, PollInv, VerdictInv, Final
    <3> QED
      BY <3>1, <3>2, <3>3 DEF IInv, AfterReturn, ReportMatchesImage, FailureIsExplained,
                              TimelyAnswerCounts
  <2>4. CASE ~ok
    <3>1. /\ pc' = "returned" /\ status' = status
          /\ result' = NotDone("DOWNLOAD_SESSION_FAIL")
      BY <1>1, <2>4 DEF StartOta
    <3>2. TypeOK'
      BY <2>1, <3>1, ResultTypes DEF IInv, TypeOK, Errors
    <3>3. UpdaterInv' /\ PollInv' /\ VerdictInv'
      BY <2>1, <2>2, <3>1 DEF IInv, TypeOK, UpdaterInv, PollInv, VerdictInv, Final
    <3> QED
      BY <2>1, <2>2, <3>1, <3>2, <3>3
         DEF IInv, AfterReturn, ReportMatchesImage, FailureIsExplained,
             TimelyAnswerCounts, NotDone
  <2> QED
    BY <2>3, <2>4
<1>2. ASSUME NEW session_healthy \in BOOLEAN, NEW confirm_ok \in BOOLEAN,
             ConfirmFirmware(session_healthy, confirm_ok)
      PROVE  IInv'
  <2>1. /\ UNCHANGED <<elapsed_ms, seen, status, reason, cancelled, staged,
                       finished_late>>
        /\ pc' = "returned"
    BY <1>2 DEF ConfirmFirmware
  <2>2. status = "IDLE" /\ ~staged /\ seen \notin Final
    BY <1>2 DEF ConfirmFirmware, IInv, PollInv, UpdaterInv, Final
  <2>3. marked_valid' \in BOOLEAN
    BY <1>2 DEF ConfirmFirmware, MarksValid
  <2>4. \/ marked_valid' /\ result' = Succeeded
        \/ ~marked_valid' /\ result' = Rejected("PARTITION_CONFIRM_FAILED")
        \/ ~marked_valid' /\ result' = Rejected("HEALTH_CHECK_FAILED")
    BY <1>2 DEF ConfirmFirmware, MarksValid
  <2>5. TypeOK'
    BY <2>1, <2>3, <2>4, ResultTypes DEF IInv, TypeOK, Errors
  <2>6. UpdaterInv' /\ PollInv' /\ VerdictInv'
    BY <2>1, <2>2 DEF IInv, UpdaterInv, PollInv, VerdictInv, Final
  <2>7. AfterReturn' /\ ReportMatchesImage' /\ FailureIsExplained' /\ TimelyAnswerCounts'
    BY <2>1, <2>2, <2>4 DEF AfterReturn, ReportMatchesImage, FailureIsExplained,
                            TimelyAnswerCounts, Succeeded, Rejected
  <2> QED
    BY <2>5, <2>6, <2>7 DEF IInv
<1> QED
  BY <1>1, <1>2 DEF Called

\* The controller looks, waits, judges and cancels.
LEMMA PollingStep ==
  ASSUME IInv, Polling
  PROVE  IInv'
<1>1. ASSUME Look
      PROVE  IInv'
  <2>1. /\ seen' = status /\ finished_late' = FALSE
        /\ UNCHANGED <<elapsed_ms, result, status, reason, cancelled, staged,
                       marked_valid>>
        /\ pc = "look"
    BY <1>1 DEF Look, managerVars
  <2>2. \/ pc' = "delay" /\ status \notin Final /\ elapsed_ms < TimeoutMs
        \/ pc' = "judge" /\ (status \in Final \/ ~(elapsed_ms < TimeoutMs))
    BY <1>1 DEF Look, KeepsPolling
  <2>3. TypeOK'
    BY <2>1, <2>2 DEF IInv, TypeOK
  <2>4. UpdaterInv' /\ PollInv' /\ VerdictInv'
    BY <2>1, <2>2 DEF IInv, TypeOK, UpdaterInv, PollInv, VerdictInv, Final
  <2>5. AfterReturn' /\ ReportMatchesImage' /\ FailureIsExplained' /\ TimelyAnswerCounts'
    BY <2>2 DEF AfterReturn, ReportMatchesImage, FailureIsExplained, TimelyAnswerCounts
  <2> QED
    BY <2>3, <2>4, <2>5 DEF IInv
<1>2. ASSUME Delay
      PROVE  IInv'
  <2>1. /\ pc = "delay" /\ pc' = "look" /\ elapsed_ms' = elapsed_ms + PollMs
        /\ UNCHANGED <<seen, result, status, reason, cancelled, staged, marked_valid,
                       finished_late>>
    BY <1>2 DEF Delay, managerVars
  <2>2. elapsed_ms < TimeoutMs /\ elapsed_ms \in Nat
    BY <2>1 DEF IInv, PollInv, TypeOK
  <2>3. elapsed_ms' \in Nat /\ elapsed_ms' < TimeoutMs + PollMs
    BY <2>1, <2>2
  <2>4. TypeOK'
    BY <2>1, <2>3 DEF IInv, TypeOK
  <2>5. UpdaterInv' /\ PollInv' /\ VerdictInv'
    BY <2>1, <2>3 DEF IInv, UpdaterInv, PollInv, VerdictInv
  <2>6. AfterReturn' /\ ReportMatchesImage' /\ FailureIsExplained' /\ TimelyAnswerCounts'
    BY <2>1 DEF AfterReturn, ReportMatchesImage, FailureIsExplained, TimelyAnswerCounts
  <2> QED
    BY <2>4, <2>5, <2>6 DEF IInv
<1>3. ASSUME Judge
      PROVE  IInv'
  <2>1. /\ pc = "judge" /\ result' = Verdict
        /\ UNCHANGED <<elapsed_ms, seen, status, reason, cancelled, staged,
                       marked_valid, finished_late>>
    BY <1>3 DEF Judge, managerVars
  <2>2. ~marked_valid /\ (seen \notin Final => elapsed_ms >= TimeoutMs)
    BY <2>1 DEF IInv, PollInv
  <2>3. CASE seen = "READY_TO_RESTART"
    <3>1. result' = Succeeded /\ pc' = "returned"
      BY <1>3, <2>1, <2>3 DEF Judge, Verdict, Succeeded, Final
    <3>2. status = "READY_TO_RESTART" /\ staged
      BY <2>3 DEF IInv, UpdaterInv, Final
    <3>3. TypeOK'
      BY <2>1, <3>1, ResultTypes DEF IInv, TypeOK
    <3>4. UpdaterInv' /\ PollInv' /\ VerdictInv'
      BY <2>1, <3>1 DEF IInv, UpdaterInv, PollInv, VerdictInv
    <3> QED
      BY <2>1, <3>1, <3>2, <3>3, <3>4
         DEF IInv, AfterReturn, ReportMatchesImage, FailureIsExplained,
             TimelyAnswerCounts, Succeeded
  <2>4. CASE seen # "READY_TO_RESTART"
    <3>1. PICK code \in Errors :
             /\ code # "NONE"
             /\ Verdict = NotDone(code)
             /\ code = "WATCHDOG_TIMEOUT" => elapsed_ms >= TimeoutMs
             /\ seen \notin Final => code = "WATCHDOG_TIMEOUT"
      <4>1. CASE seen = "FAILED"
        <5>1. Verdict = NotDone(ErrorOf(reason)) /\ reason \in FailReasons
          BY <4>1 DEF Verdict, Final, IInv, TypeOK
        <5> QED
          BY <4>1, <5>1, ResultTypes DEF Final
      <4>2. CASE seen # "FAILED"
        <5>1. Verdict = NotDone("WATCHDOG_TIMEOUT") /\ elapsed_ms >= TimeoutMs
          BY <2>2, <2>4, <4>2 DEF Verdict, Final
        <5> QED
          BY <5>1 DEF Errors
      <4> QED
        BY <4>1, <4>2
    <3>2. result' = NotDone(code) /\ pc' = "cancel"
      BY <1>3, <2>1, <3>1 DEF Judge, NotDone
    <3>3. TypeOK'
      BY <2>1, <3>2, ResultTypes DEF IInv, TypeOK
    <3>4. UpdaterInv' /\ PollInv'
      BY <2>1, <2>2, <3>2 DEF IInv, UpdaterInv, PollInv
    <3>5. VerdictInv'
      BY <2>1, <2>4, <3>1, <3>2 DEF IInv, VerdictInv, NotDone
    <3> QED
      BY <3>2, <3>3, <3>4, <3>5 DEF IInv, AfterReturn, ReportMatchesImage,
                                    FailureIsExplained, TimelyAnswerCounts
  <2> QED
    BY <2>3, <2>4
<1>4. ASSUME CancelOta
      PROVE  IInv'
  <2>1. /\ pc = "cancel" /\ pc' = "returned" /\ cancelled' = TRUE
        /\ UNCHANGED <<elapsed_ms, seen, result, status, reason, staged, marked_valid,
                       finished_late>>
    BY <1>4 DEF CancelOta
  <2>2. TypeOK'
    BY <2>1 DEF IInv, TypeOK
  <2>3. UpdaterInv' /\ PollInv' /\ VerdictInv'
    BY <2>1 DEF IInv, UpdaterInv, PollInv, VerdictInv
  <2>4. AfterReturn' /\ ReportMatchesImage' /\ FailureIsExplained' /\ TimelyAnswerCounts'
    BY <2>1 DEF IInv, TypeOK, UpdaterInv, VerdictInv, AfterReturn, ReportMatchesImage,
                FailureIsExplained, TimelyAnswerCounts, Final
  <2> QED
    BY <2>2, <2>3, <2>4 DEF IInv
<1> QED
  BY <1>1, <1>2, <1>3, <1>4 DEF Polling

\* The updater moves, at whatever point the controller is.
LEMMA UpdaterStep ==
  ASSUME IInv, Updater
  PROVE  IInv'
<1>1. /\ status = "RUNNING" /\ finished_late' = TRUE
      /\ UNCHANGED <<pc, elapsed_ms, seen, result, cancelled, marked_valid>>
      /\ \/ status' = "READY_TO_RESTART" /\ staged' = TRUE /\ reason' = reason
         \/ status' = "FAILED" /\ staged' = staged /\ reason' \in FailReasons
         \/ status' = "IDLE" /\ staged' = staged /\ reason' = reason
  BY DEF Updater, UpdaterFinishes, UpdaterFails, UpdaterStops, controllerVars
<1>2. seen \notin Final /\ pc # "idle" /\ ~staged
  BY <1>1 DEF IInv, UpdaterInv, PollInv, Final
<1>3. TypeOK'
  BY <1>1 DEF IInv, TypeOK, Statuses, Final
<1>4. UpdaterInv' /\ PollInv' /\ VerdictInv'
  BY <1>1, <1>2 DEF IInv, UpdaterInv, PollInv, VerdictInv, Final
<1>5. AfterReturn' /\ ReportMatchesImage' /\ FailureIsExplained' /\ TimelyAnswerCounts'
  BY <1>1, <1>2 DEF IInv, AfterReturn, ReportMatchesImage, FailureIsExplained,
                    TimelyAnswerCounts
<1> QED
  BY <1>3, <1>4, <1>5 DEF IInv

-----------------------------------------------------------------------------
\* IInv holds at every moment of a download or a verdict.
THEOREM OtaInvariant == Spec => []IInv
<1>1. Init => IInv
  BY InitStep
<1>2. IInv /\ [Next]_vars => IInv'
  <2>1. ASSUME IInv, UNCHANGED vars
        PROVE  IInv'
    BY <2>1 DEF vars, controllerVars, managerVars, IInv, TypeOK, UpdaterInv, PollInv,
                VerdictInv, AfterReturn, ReportMatchesImage, FailureIsExplained,
                TimelyAnswerCounts
  <2> QED
    BY <2>1, CalledStep, PollingStep, UpdaterStep DEF Next
<1> QED
  BY <1>1, <1>2, PTL DEF Spec

\* The polling clock passes the watchdog by less than one delay.
THEOREM OtaTypeCorrect == Spec => []TypeOK
BY OtaInvariant, PTL DEF IInv

\* A reported success is an image selected for the next boot, or a partition
\* marked valid; a reported rejection never is.
THEOREM ReportIsTrue == Spec => []ReportMatchesImage
BY OtaInvariant, PTL DEF IInv

\* A failure has an error code, and the watchdog's only after its time.
THEOREM EveryFailureExplained == Spec => []FailureIsExplained
BY OtaInvariant, PTL DEF IInv

\* What the updater finished before the last look is not reported as a
\* timeout: an image selected in spite of a failure was finished after it.
THEOREM LateAnswersOnly == Spec => []TimelyAnswerCounts
BY OtaInvariant, PTL DEF IInv
=============================================================================
