--------------------------- MODULE Communication ---------------------------
(***************************************************************************)
(* One session's dealings with the radio (main/src/water_tank_app.cpp):    *)
(* pairing, the level report and its retry, channel recovery in            *)
(* ensure_communication_ready, and the reports on updates.                 *)
(*                                                                         *)
(* The main task waits in delays; meanwhile the tasks of EspNowManager     *)
(* move its node state: a recovery scan ends, a hub pairs, and a packet    *)
(* that nobody acknowledges starts a scan, also in the middle of the       *)
(* recovery that an earlier one started.  Time passes in the delays only   *)
(* and a delay takes as long as it says; a download and the measurement    *)
(* are left out of it.                                                     *)
(***************************************************************************)
EXTENDS Integers

CONSTANTS
  YieldMs,       \* 100, the first delay of ensure_communication_ready
  PollMs,        \* 30, POLL_DELAY_MS there
  PassMs,        \* SINGLE_PASS_TIMEOUT_MS
  ScanMs,        \* the longest a pass over all channels takes
  Attempts,      \* 3, max_scan_attempts of every call
  PairPollMs,    \* 100, POLL_DELAY_MS of wait_for_pairing
  PairingMs,     \* PAIRING_TIMEOUT_MS
  ListenMs       \* LISTEN_WINDOW_MS

ASSUME DelaysAssumption ==
  /\ YieldMs \in Nat \ {0} /\ PollMs \in Nat \ {0} /\ PairPollMs \in Nat \ {0}
  /\ PairingMs \in Nat /\ ListenMs \in Nat
\* PassMs is the time of a pass and 200 ms more (line 25), PollMs less than that.
ASSUME PassAssumption ==
  ScanMs \in Nat \ {0} /\ PassMs \in Nat /\ PassMs >= ScanMs + PollMs
ASSUME AttemptsAssumption == Attempts \in Nat \ {0}

VARIABLES
  pc,            \* the next step of the main task
  caller,        \* whom ensure_communication_ready answers
  seen,          \* state: the node state it looked at last
  attempt,
  left,          \* the time until deadline_ms
  ready,         \* is EspNowManager initialised?
  node,          \* its node state
  scan_left,     \* the time its scan has left
  in_flight,     \* do packets await their acknowledgement?
  on_probation,  \* check_pending_verify
  near,          \* does the hub answer?
  awake,         \* history: the time the session has waited
  scans,         \* history: the scans that the call at hand has begun
  given_up,      \* history: packets given up since its first look, up to Attempts
  report,        \* history: what became of the report the session made last
  mishap         \* history: did a reconnect fail, the hub come or go, or the state
                 \* change behind a look?

radioVars   == <<ready, node, scan_left, in_flight>>
callVars    == <<caller, seen, attempt, left>>
historyVars == <<awake, scans, given_up, report, mishap>>
vars == <<pc, radioVars, callVars, historyVars, on_probation, near>>

NodeStates == {"IDLE", "PAIRING", "SCAN", "OPERATIONAL"}

\* The longest that a call of ensure_communication_ready, and a session, wait.
LongestCall == YieldMs + Attempts * (PassMs + PollMs)
Longest     == PairingMs + PairPollMs + ListenMs + 4 * LongestCall

\* init has failed and only a pending verdict brings the session here, or run
\* begins with the radio up.
Init ==
  /\ \/ pc = "start"  /\ ready = TRUE       /\ on_probation \in BOOLEAN
     \/ pc = "verify" /\ ready \in BOOLEAN /\ on_probation = TRUE
  /\ node \in NodeStates /\ near \in BOOLEAN
  /\ scan_left = IF node = "SCAN" THEN ScanMs ELSE 0
  /\ in_flight = FALSE
  /\ caller = "report" /\ seen = "IDLE" /\ attempt = 0 /\ left = 0
  /\ awake = 0 /\ scans = 0 /\ given_up = 0 /\ report = "none" /\ mishap = FALSE

Goto(from, to) == pc = from /\ pc' = to

-----------------------------------------------------------------------------
(* The tasks of EspNowManager *)

\* The hub is found while the radio scans or pairs, at the latest by the end of
\* a scan; a scan that ends without it leaves the radio idle.
Found    == near /\ node \in {"SCAN", "PAIRING"} /\ node' = "OPERATIONAL" /\ scan_left' = 0
Lost(d)  == ~near /\ node = "SCAN" /\ scan_left <= d /\ node' = "IDLE" /\ scan_left' = 0
Goes(d)  ==
  /\ node = "SCAN" => scan_left > d
  /\ node' = node /\ scan_left' = IF node = "SCAN" THEN scan_left - d ELSE 0

Wait(d) ==
  /\ awake' = IF awake + d > Longest THEN Longest + 1 ELSE awake + d
  /\ IF ready THEN Found \/ Lost(d) \/ Goes(d) ELSE UNCHANGED <<node, scan_left>>

\* The main task sleeps d ms.
Delay(d) == Wait(d) /\ UNCHANGED <<ready, in_flight>>

Scan == node' = "SCAN" /\ scan_left' = ScanMs

TxAnswered ==
  /\ in_flight /\ near
  /\ in_flight' = FALSE
  /\ UNCHANGED <<pc, ready, node, scan_left, callVars, historyVars, on_probation, near>>

\* MAX_FAILURES: a packet is given up and the hub looked for anew, whatever the
\* radio has come to since the packet was taken.  Other packets may wait on.
TxGivesUp ==
  /\ ready /\ in_flight /\ node # "PAIRING"
  /\ in_flight' \in BOOLEAN
  /\ Scan
  /\ given_up' = IF pc \in {"attempt", "poll", "look"} /\ given_up < Attempts
                 THEN given_up + 1 ELSE given_up
  /\ mishap' = (mishap \/ pc \in {"resend", "send_ota"})
  /\ UNCHANGED <<pc, ready, callVars, awake, scans, report, on_probation, near>>

\* Somebody switches the hub on or off, at most once until the first mishap.
HubMoves ==
  /\ ~mishap /\ mishap' = TRUE
  /\ near' = ~near
  /\ UNCHANGED <<pc, radioVars, callVars, awake, scans, given_up, report, on_probation>>

\* send_data takes the packet if the radio is operational.
Sent == ready /\ node = "OPERATIONAL"
Send ==
  /\ report' = IF Sent THEN "accepted" ELSE "refused"
  /\ in_flight' = (in_flight \/ Sent)
  /\ UNCHANGED <<ready, node, scan_left, awake, scans, given_up, mishap, on_probation, near>>

-----------------------------------------------------------------------------
(* process_node_state and wait_for_pairing *)

\* add_peer with the hub's address spares the wait if it succeeds.
ProcessNodeState(added) ==
  /\ Goto("start", IF node = "PAIRING" /\ ~added THEN "pairing" ELSE "send")
  /\ IF node = "PAIRING" /\ added
     THEN \/ node' \in {"IDLE", "OPERATIONAL"} /\ scan_left' = 0
          \/ Scan
     ELSE UNCHANGED <<node, scan_left>>
  /\ left' = PairingMs
  /\ UNCHANGED <<ready, in_flight, caller, seen, attempt, historyVars, on_probation, near>>

\* Mutant: the wait goes on until the hub has paired.
UntilPaired == TRUE

KeepsPairing == left > 0

TimeGoes(d) == left' = IF left > d THEN left - d ELSE 0

PairingPoll ==
  /\ pc = "pairing" /\ KeepsPairing
  /\ Delay(PairPollMs) /\ TimeGoes(PairPollMs)
  /\ pc' = IF node' = "OPERATIONAL" THEN "send" ELSE "pairing"
  /\ UNCHANGED <<caller, seen, attempt, scans, given_up, report, mishap, on_probation,
                 near>>

PairingEnds ==
  /\ Goto("pairing", "send") /\ ~KeepsPairing
  /\ UNCHANGED <<radioVars, callVars, historyVars, on_probation, near>>

-----------------------------------------------------------------------------
(* ensure_communication_ready *)

Callers == {"report", "ota_report", "verdict", "verdict_report"}

\* What follows a call that found the radio operational, and one that gave up.
\* A verdict that may be reported goes through send_ota_report, which asks again.
IfReady(who)  == CASE who = "report"  -> "resend"
                   [] who = "verdict" -> "ensure"
                   [] OTHER           -> "send_ota"
IfGivenUp(who) == CASE who = "report"     -> "listen"
                    [] who = "ota_report" -> "verify"
                    [] OTHER              -> "leave"

Return(operational) ==
  /\ pc' = IF operational THEN IfReady(caller) ELSE IfGivenUp(caller)
  /\ caller' = IF operational /\ caller = "verdict" THEN "verdict_report" ELSE caller

\* Yield to the receive task, then look.  Between a delay and the look after it
\* the tasks of EspNowManager go on.
Ensure ==
  /\ Goto("ensure", "yielded")
  /\ Delay(YieldMs)
  /\ attempt' = 1 /\ scans' = 0 /\ given_up' = 0
  /\ UNCHANGED <<caller, seen, left, report, mishap, on_probation, near>>

FirstLook ==
  /\ pc = "yielded"
  /\ seen' = node
  /\ IF node = "OPERATIONAL" THEN Return(TRUE) ELSE pc' = "attempt" /\ UNCHANGED caller
  /\ UNCHANGED <<radioVars, attempt, left, historyVars, on_probation, near>>

\* Mutant: one reconnect has to do.
ReconnectsFirst == seen = "IDLE" /\ attempt = 1

Reconnects == seen = "IDLE"

\* Mutant: an attempt too many.
TriesOneMore == attempt <= Attempts + 1

Tries == attempt <= Attempts

\* reconnect starts a scan if the radio is idle; its result is not looked at.
BeginAttempt(ok) ==
  /\ Goto("attempt", "poll") /\ Tries
  /\ left' = PassMs
  /\ LET begins == Reconnects /\ ok /\ ready /\ node = "IDLE"
     IN  /\ IF begins THEN Scan ELSE UNCHANGED <<node, scan_left>>
         /\ scans' = IF begins THEN scans + 1 ELSE scans
  /\ mishap' = (mishap \/ (Reconnects /\ ~ok))
  /\ UNCHANGED <<ready, in_flight, caller, seen, attempt, awake, given_up, report,
                 on_probation, near>>

Poll ==
  /\ Goto("poll", "look") /\ left > 0
  /\ Delay(PollMs) /\ TimeGoes(PollMs)
  /\ UNCHANGED <<caller, seen, attempt, scans, given_up, report, mishap, on_probation,
                 near>>

Look ==
  /\ pc = "look"
  /\ seen' = node
  /\ CASE node = "OPERATIONAL" -> Return(TRUE) /\ UNCHANGED attempt
       [] node = "IDLE" -> pc' = "attempt" /\ attempt' = attempt + 1 /\ UNCHANGED caller
       [] OTHER -> pc' = "poll" /\ UNCHANGED <<attempt, caller>>
  /\ UNCHANGED <<radioVars, left, historyVars, on_probation, near>>

\* Mutant: a pass that runs into its deadline is repeated.
PassRepeats ==
  /\ Goto("poll", "attempt") /\ left = 0
  /\ UNCHANGED <<radioVars, callVars, historyVars, on_probation, near>>

PassEnds ==
  /\ Goto("poll", "attempt") /\ left = 0
  /\ attempt' = attempt + 1
  /\ UNCHANGED <<radioVars, caller, seen, left, historyVars, on_probation, near>>

GiveUp ==
  /\ pc = "attempt" /\ ~Tries
  /\ Return(FALSE)
  /\ UNCHANGED <<radioVars, seen, attempt, left, historyVars, on_probation, near>>

-----------------------------------------------------------------------------
(* run, process_pending_ota and check_firmware_healthy *)

\* Mutant: a refused report is dropped.
NoRetry == "listen"

AfterRefusal == "ensure"

SendReport ==
  /\ pc = "send"
  /\ Send
  /\ pc' = IF Sent THEN "listen" ELSE AfterRefusal
  /\ caller' = "report"
  /\ UNCHANGED <<seen, attempt, left>>

Resend ==
  /\ Goto("resend", "listen")
  /\ Send
  /\ UNCHANGED callVars

\* Commands that come are acknowledged; one of them may ask for a reboot or an
\* update, and the button asks for an update as well.
Listen(acks) ==
  /\ pc = "listen" /\ pc' \in {"verify", "ota", "leave"}
  /\ Wait(ListenMs)
  /\ in_flight' = (in_flight \/ (acks /\ Sent))
  /\ UNCHANGED <<ready, callVars, scans, given_up, report, mishap, on_probation, near>>

Call(who) == pc' = "ensure" /\ caller' = who /\ UNCHANGED <<seen, attempt, left>>

\* The radio is shut down for the download.  A success restarts; a failure is
\* reported if the radio comes up again.
Ota(success, up) ==
  /\ pc = "ota"
  /\ in_flight' = FALSE
  /\ ready' = (~success /\ up)
  /\ IF ready' THEN \/ node' \in NodeStates \ {"SCAN"} /\ scan_left' = 0
                    \/ Scan
               ELSE UNCHANGED node /\ scan_left' = 0
  /\ CASE success -> pc' = "leave" /\ UNCHANGED callVars
       [] ~success /\ up -> Call("ota_report")
       [] ~success /\ ~up -> pc' = "verify" /\ UNCHANGED callVars
  /\ report' = "none"
  /\ UNCHANGED <<awake, scans, given_up, mishap, on_probation, near>>

\* check_firmware_healthy reports its verdict, whichever it is.
Verify ==
  /\ pc = "verify"
  /\ IF on_probation THEN Call("verdict") ELSE pc' = "leave" /\ UNCHANGED callVars
  /\ report' = "none"
  /\ UNCHANGED <<radioVars, awake, scans, given_up, mishap, on_probation, near>>

SendOtaReport ==
  /\ Goto("send_ota", IF caller = "ota_report" THEN "verify" ELSE "leave")
  /\ Send
  /\ UNCHANGED callVars

\* Restart, rollback or deep sleep: what the radio holds is lost.
Leave ==
  /\ Goto("leave", "done")
  /\ ready' = FALSE /\ in_flight' = FALSE
  /\ UNCHANGED <<node, scan_left, callVars, historyVars, on_probation, near>>

MainTask ==
  \/ \E added \in BOOLEAN : ProcessNodeState(added)
  \/ PairingPoll \/ PairingEnds
  \/ SendReport \/ Resend
  \/ Ensure \/ FirstLook \/ \E ok \in BOOLEAN : BeginAttempt(ok)
  \/ Poll \/ Look \/ PassEnds \/ GiveUp
  \/ \E acks \in BOOLEAN : Listen(acks)
  \/ \E success, up \in BOOLEAN : Ota(success, up)
  \/ Verify \/ SendOtaReport \/ Leave

Next == MainTask \/ TxAnswered \/ TxGivesUp \/ HubMoves

\* The scheduler gives the main task its turn and every delay ends.
Spec == Init /\ [][Next]_vars /\ WF_vars(MainTask)

-----------------------------------------------------------------------------
(* Properties *)

\* The types of the state.  No call of ensure_communication_ready begins more
\* scans than it was allowed attempts.
TypeOK ==
  /\ pc \in {"start", "pairing", "send", "ensure", "yielded", "attempt", "poll", "look",
             "resend", "listen", "ota", "send_ota", "verify", "leave", "done"}
  /\ caller \in Callers /\ seen \in NodeStates /\ node \in NodeStates
  /\ attempt \in 0..(Attempts + 1) /\ scans \in 0..Attempts
  /\ given_up \in 0..Attempts
  /\ left \in 0..(PassMs + PairingMs) /\ scan_left \in 0..ScanMs
  /\ ready \in BOOLEAN /\ in_flight \in BOOLEAN /\ on_probation \in BOOLEAN
  /\ near \in BOOLEAN /\ mishap \in BOOLEAN
  /\ awake \in 0..(Longest + 1)
  /\ report \in {"none", "refused", "accepted"}

\* However the hub, the receive task and its scans behave, the node waits no
\* longer than one pairing, one listening window and four recoveries take: an
\* hour without the hub does not keep a battery-powered node awake.
AwakeIsBounded == awake <= Longest

\* A call that gives up while the hub is silent has not cut a search short.  All
\* attempts but the one that may have waited for a scan already running began a
\* scan, or lost it to a packet given up meanwhile, which begins another; unless
\* there was such a packet, the last scan has ended.
GivesUpAfterSearching ==
  (pc = "attempt" /\ attempt > Attempts /\ ready /\ ~near /\ node # "PAIRING" /\ ~mishap)
    => /\ scans + given_up >= Attempts - 1
       /\ given_up = 0 => node = "IDLE"

\* With the hub in reach and paired, the bounded recovery finds it, whatever the
\* radio was doing when the recovery began, as long as not every attempt has a
\* packet given up in it: one, or all but one, start the search over and cost no
\* report.  (A reconnect that failed, a hub that came or went, and a packet given
\* up between the look that found the radio operational and the send are the
\* mishaps that do cost one.)
QueuedWhenHubIsNear ==
  (near /\ ready /\ node # "PAIRING" /\ ~mishap /\ given_up < Attempts)
    => /\ pc = "listen" => report = "accepted"
       /\ (pc = "verify" /\ caller = "ota_report") => report = "accepted"
       /\ (pc = "leave" /\ caller \in {"verdict", "verdict_report"}) => report = "accepted"

\* Every session comes to its restart or its sleep.
SessionEnds == <>(pc = "done")
=============================================================================
