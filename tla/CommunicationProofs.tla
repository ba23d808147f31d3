------------------------ MODULE CommunicationProofs ------------------------
(***************************************************************************)
(* For every length of the delays and every number of attempts, those of   *)
(* the code among them: a session's waiting is bounded, the hub is given   *)
(* up only after a search, and a hub in reach gets its report.             *)
(***************************************************************************)
EXTENDS Communication, TLAPS

\* What one attempt waits at most.
OnePass == PassMs + PollMs

\* The longest that a session has waited when it calls ensure_communication_ready.
Before(who) ==
  CASE who = "report"         -> PairingMs + PairPollMs
    [] who = "ota_report"     -> PairingMs + PairPollMs + ListenMs + LongestCall
    [] who = "verdict"        -> PairingMs + PairPollMs + ListenMs + 2 * LongestCall
    [] who = "verdict_report" -> PairingMs + PairPollMs + ListenMs + 3 * LongestCall

\* What the attempts before attempt n wait, and what the call at hand has waited
\* when its attempt begins.
Passed(n) == (n - 1) * OnePass
SoFar     == Before(caller) + YieldMs + Passed(attempt)

\* What every step leaves of the budget of the session.
BudgetInv ==
  /\ pc = "start" => awake = 0
  /\ pc = "pairing" => /\ awake <= PairingMs + PairPollMs
                       /\ left > 0 => awake + left <= PairingMs
  /\ pc = "send" => awake <= PairingMs + PairPollMs
  /\ pc = "ensure" => awake <= Before(caller)
  /\ pc = "attempt" => awake <= SoFar
  /\ pc = "yielded" => awake <= Before(caller) + YieldMs
  /\ pc \in {"poll", "look"} => /\ awake <= SoFar + OnePass
                                /\ left > 0 => awake + left <= SoFar + PassMs
  /\ pc \in {"resend", "send_ota"} => awake <= Before(caller) + LongestCall
  /\ pc = "listen" => awake <= PairingMs + PairPollMs + LongestCall
  /\ pc = "ota" => awake <= PairingMs + PairPollMs + ListenMs + LongestCall
  /\ pc = "verify" => awake <= PairingMs + PairPollMs + ListenMs + 2 * LongestCall
  /\ awake <= Longest

\* Whom a place in the session may be about, and how far the attempts are; a radio
\* that is yet to be paired has sent nothing.
PlaceInv ==
  /\ pc \in {"start", "send", "pairing", "listen", "resend", "ota"} => caller = "report"
  /\ pc = "verify" => caller \in {"report", "ota_report"}
  /\ pc = "send_ota" => caller \in {"ota_report", "verdict_report"}
  /\ pc = "yielded" => attempt = 1 /\ scans = 0
  /\ node = "PAIRING" => ~in_flight
  /\ pc = "attempt" => attempt >= 1 /\ scans <= attempt - 1
  /\ pc \in {"poll", "look"} => attempt \in 1..Attempts /\ scans <= attempt

\* The scans behind the search of a call: the hub in reach survives a scan only
\* if the next one, of a packet given up, replaced it.
Searched(n) == scans + given_up >= n /\ (near => given_up >= n)

\* What a call knows of the radio while no mishap happens: where it looks for the
\* hub every attempt before this one had a scan or a given-up packet, and a scan
\* that will outlast the pass began in it, with a packet given up.  (A radio that a
\* pairing made operational in the middle of a call has no packet to give up.)
SearchInv ==
  (ready /\ ~mishap /\ node # "PAIRING") =>
    /\ pc = "attempt" =>
         /\ node \in {"IDLE", "SCAN"} /\ (node = "IDLE" => seen = "IDLE")
         /\ \/ attempt = 1
            \/ ~near /\ node = "IDLE" /\ Searched(attempt - 2)
            \/ given_up >= 1 /\ node = "SCAN" /\ Searched(attempt - 1)
    /\ pc = "poll" => node = "SCAN"
    /\ pc = "look" /\ node = "IDLE" => ~near
    /\ pc \in {"poll", "look"} =>
         /\ Searched(attempt - 1) \/ (node = "OPERATIONAL" /\ ~in_flight)
         /\ node = "SCAN" =>
              scan_left + PollMs <= left \/ (given_up >= 1 /\ Searched(attempt))
    /\ pc \in {"resend", "send_ota"} => node = "OPERATIONAL"

IInv == TypeOK /\ PlaceInv /\ BudgetInv /\ SearchInv /\ QueuedWhenHubIsNear

USE DelaysAssumption, PassAssumption, AttemptsAssumption

-----------------------------------------------------------------------------
(* Arithmetic *)

\* The delays and their sums are natural numbers.
LEMMA Delays ==
  /\ OnePass \in Nat /\ PassMs \in Nat /\ PassMs > 0
  /\ Attempts * OnePass \in Nat
  /\ LongestCall = YieldMs + Attempts * OnePass
  /\ LongestCall \in Nat
  /\ Longest = PairingMs + PairPollMs + ListenMs + 4 * LongestCall
  /\ Longest \in Nat
<1>1. PassMs \in Nat /\ PassMs > 0
  OBVIOUS
<1>2. OnePass \in Nat
  BY <1>1 DEF OnePass
<1>3. Attempts * OnePass \in Nat
  BY <1>2
<1>4. LongestCall = YieldMs + Attempts * OnePass
  BY DEF LongestCall, OnePass
<1>5. LongestCall \in Nat
  BY <1>3, <1>4
<1> QED
  BY <1>1, <1>2, <1>3, <1>4, <1>5 DEF Longest

\* Attempts add up.
LEMMA Passes ==
  ASSUME NEW n \in Nat
  PROVE  /\ Passed(n) \in Int
         /\ Passed(1) = 0
         /\ Passed(n + 1) = Passed(n) + OnePass
         /\ n <= Attempts + 1 => Passed(n) <= Attempts * OnePass
<1>1. OnePass \in Nat
  BY Delays
<1>2. Passed(n) \in Int
  BY <1>1 DEF Passed
<1>3. Passed(1) = 0
  BY <1>1 DEF Passed
<1>4. (n + 1 - 1) * OnePass = (n - 1) * OnePass + OnePass
  BY <1>1
<1>5. ASSUME n <= Attempts + 1
      PROVE  Passed(n) <= Attempts * OnePass
  <2>1. (Attempts - (n - 1)) * OnePass >= 0
    BY <1>1, <1>5
  <2>2. (Attempts - (n - 1)) * OnePass = Attempts * OnePass - (n - 1) * OnePass
    BY <1>1
  <2> QED
    BY <1>1, <2>1, <2>2 DEF Passed
<1> QED
  BY <1>2, <1>3, <1>4, <1>5 DEF Passed

\* The budgets before the calls.
LEMMA Budgets ==
  ASSUME NEW who \in Callers
  PROVE  /\ Before(who) \in Nat
         /\ Before(who) + LongestCall <= Longest
         /\ Before("report") = PairingMs + PairPollMs
         /\ Before("ota_report") = PairingMs + PairPollMs + ListenMs + LongestCall
         /\ Before("verdict") = PairingMs + PairPollMs + ListenMs + 2 * LongestCall
         /\ Before("verdict_report") = PairingMs + PairPollMs + ListenMs + 3 * LongestCall
  BY Delays DEF Before, Callers

-----------------------------------------------------------------------------
(* Types and places *)

\* What a delay does to the radio and the clock.
LEMMA WaitStep ==
  ASSUME TypeOK, NEW d \in Nat, Wait(d)
  PROVE  /\ node' \in NodeStates /\ scan_left' \in 0..ScanMs
         /\ awake' \in 0..(Longest + 1)
         /\ awake + d <= Longest => awake' = awake + d
<1>1. Longest \in Nat
  BY Delays
<1>2. awake' \in 0..(Longest + 1) /\ (awake + d <= Longest => awake' = awake + d)
  BY <1>1 DEF Wait, TypeOK
<1>3. node' \in NodeStates /\ scan_left' \in 0..ScanMs
  <2>1. CASE ready /\ Found
    BY <2>1 DEF Found, NodeStates
  <2>2. CASE ready /\ Lost(d)
    BY <2>2 DEF Lost, NodeStates
  <2>3. CASE ready /\ Goes(d)
    BY <2>3 DEF Goes, TypeOK
  <2>4. CASE ~ready
    BY <2>4 DEF Wait, TypeOK
  <2> QED
    BY <2>1, <2>2, <2>3, <2>4 DEF Wait
<1> QED
  BY <1>2, <1>3

\* Every step of the main task keeps the types and knows its place.
LEMMA MainTypes ==
  ASSUME TypeOK, PlaceInv, MainTask
  PROVE  TypeOK' /\ PlaceInv'
<1> USE DEF Goto, NodeStates, Callers
<1>1. PollMs \in Nat /\ YieldMs \in Nat /\ PairPollMs \in Nat /\ ListenMs \in Nat
  OBVIOUS
<1>2. ASSUME NEW added \in BOOLEAN, ProcessNodeState(added)
      PROVE  TypeOK' /\ PlaceInv'
  <2>1. node' \in NodeStates /\ scan_left' \in 0..ScanMs
    BY <1>2 DEF ProcessNodeState, Scan, TypeOK
  <2>2. node' = "PAIRING" => node = "PAIRING"
    BY <1>2 DEF ProcessNodeState, Scan
  <2> QED
    BY <1>2, <2>1, <2>2 DEF ProcessNodeState, TypeOK, PlaceInv, historyVars
<1>3. CASE PairingPoll
  <2>1. Wait(PairPollMs) /\ UNCHANGED <<ready, in_flight>>
    BY <1>3 DEF PairingPoll, Delay
  <2>2. left' \in 0..(PassMs + PairingMs)
    BY <1>3 DEF PairingPoll, TimeGoes, TypeOK
  <2>3. node' = "PAIRING" => node = "PAIRING"
    BY <2>1 DEF Wait, Found, Lost, Goes
  <2> QED
    BY <1>1, <1>3, <2>1, <2>2, <2>3, WaitStep DEF PairingPoll, TypeOK, PlaceInv
<1>4. CASE PairingEnds
  BY <1>4 DEF PairingEnds, TypeOK, PlaceInv, radioVars, callVars, historyVars
<1>5. CASE SendReport
  BY <1>5 DEF SendReport, Send, Sent, AfterRefusal, TypeOK, PlaceInv
<1>6. CASE Resend
  BY <1>6 DEF Resend, Send, Sent, callVars, TypeOK, PlaceInv
<1>7. CASE Ensure
  <2>1. Wait(YieldMs) /\ UNCHANGED <<ready, in_flight>>
    BY <1>7 DEF Ensure, Delay
  <2>2. node' = "PAIRING" => node = "PAIRING"
    BY <2>1 DEF Wait, Found, Lost, Goes
  <2> QED
    BY <1>1, <1>7, <2>1, <2>2, WaitStep DEF Ensure, TypeOK, PlaceInv
<1>17. CASE FirstLook
  <2>1. /\ caller' \in Callers
        /\ pc' \in {"attempt", "resend", "ensure", "send_ota"}
        /\ pc' = "resend" => caller' = "report"
        /\ pc' = "send_ota" => caller' \in {"ota_report", "verdict_report"}
    BY <1>17 DEF FirstLook, Return, IfReady, TypeOK
  <2>2. seen' \in NodeStates /\ UNCHANGED <<radioVars, attempt, left, historyVars,
                                            on_probation, near>>
    BY <1>17 DEF FirstLook, TypeOK
  <2> QED
    BY <1>17, <2>1, <2>2 DEF FirstLook, TypeOK, PlaceInv, radioVars, historyVars
<1>8. ASSUME NEW ok \in BOOLEAN, BeginAttempt(ok)
      PROVE  TypeOK' /\ PlaceInv'
  <2>1. attempt \in 1..Attempts /\ scans <= attempt - 1
    BY <1>8 DEF BeginAttempt, Tries, TypeOK, PlaceInv
  <2>2. /\ node' \in NodeStates /\ scan_left' \in 0..ScanMs
        /\ scans' \in 0..Attempts /\ scans' <= attempt
    BY <1>8, <2>1 DEF BeginAttempt, Scan, TypeOK
  <2>3. node' = "PAIRING" => node = "PAIRING"
    BY <1>8 DEF BeginAttempt, Scan
  <2> QED
    BY <1>8, <2>1, <2>2, <2>3 DEF BeginAttempt, TypeOK, PlaceInv
<1>9. CASE Poll
  <2>1. Wait(PollMs) /\ UNCHANGED <<ready, in_flight>>
    BY <1>9 DEF Poll, Delay
  <2>2. left' \in 0..(PassMs + PairingMs)
    BY <1>9 DEF Poll, TimeGoes, TypeOK
  <2>3. node' = "PAIRING" => node = "PAIRING"
    BY <2>1 DEF Wait, Found, Lost, Goes
  <2> QED
    BY <1>1, <1>9, <2>1, <2>2, <2>3, WaitStep DEF Poll, TypeOK, PlaceInv
<1>18. CASE Look
  <2>1. attempt \in 1..Attempts /\ scans <= attempt
    BY <1>18 DEF Look, PlaceInv
  <2>2. /\ caller' \in Callers
        /\ \/ pc' = "attempt" /\ attempt' = attempt + 1
           \/ pc' \in {"poll", "resend", "ensure", "send_ota"} /\ attempt' = attempt
        /\ pc' = "resend" => caller' = "report"
        /\ pc' = "send_ota" => caller' \in {"ota_report", "verdict_report"}
    <3>1. CASE node = "OPERATIONAL"
      BY <1>18, <3>1 DEF Look, Return, IfReady, TypeOK
    <3>2. CASE node = "IDLE"
      BY <1>18, <3>2 DEF Look, TypeOK
    <3>3. CASE node \notin {"OPERATIONAL", "IDLE"}
      BY <1>18, <3>3 DEF Look, TypeOK
    <3> QED
      BY <3>1, <3>2, <3>3
  <2>3. seen' \in NodeStates /\ UNCHANGED <<radioVars, left, historyVars, on_probation, near>>
    BY <1>18 DEF Look, TypeOK
  <2> QED
    BY <1>18, <2>1, <2>2, <2>3 DEF TypeOK, PlaceInv, radioVars, historyVars
<1>10. CASE PassEnds
  BY <1>10 DEF PassEnds, TypeOK, PlaceInv, radioVars, historyVars
<1>11. CASE GiveUp
  BY <1>11 DEF GiveUp, Return, IfGivenUp, TypeOK, PlaceInv, radioVars, historyVars
<1>12. ASSUME NEW acks \in BOOLEAN, Listen(acks)
       PROVE  TypeOK' /\ PlaceInv'
  <2>1. Wait(ListenMs)
    BY <1>12 DEF Listen
  <2>2. node' = "PAIRING" => node = "PAIRING"
    BY <2>1 DEF Wait, Found, Lost, Goes
  <2>3. node = "PAIRING" => ~in_flight'
    <3>1. in_flight' = (in_flight \/ (acks /\ Sent))
      BY <1>12 DEF Listen
    <3>2. node = "PAIRING" => ~Sent /\ ~in_flight
      BY DEF Sent, PlaceInv
    <3> QED
      BY <3>1, <3>2, Zenon
  <2>4. in_flight' \in BOOLEAN
    BY <1>12 DEF Listen
  <2> QED
    BY <1>1, <1>12, <2>1, <2>2, <2>3, <2>4, WaitStep DEF Listen, TypeOK, PlaceInv, callVars
<1>13. ASSUME NEW success \in BOOLEAN, NEW up \in BOOLEAN, Ota(success, up)
       PROVE  TypeOK' /\ PlaceInv'
  <2>1. node' \in NodeStates /\ scan_left' \in 0..ScanMs
    BY <1>13 DEF Ota, Scan, TypeOK
  <2>2. /\ pc' \in {"leave", "ensure", "verify"} /\ caller' \in Callers
        /\ pc' = "verify" => caller' = "report"
        /\ UNCHANGED <<seen, attempt, left>>
    BY <1>13 DEF Ota, Call, callVars, TypeOK, PlaceInv
  <2> QED
    BY <1>13, <2>1, <2>2 DEF Ota, TypeOK, PlaceInv
<1>14. CASE Verify
  BY <1>14 DEF Verify, Call, callVars, radioVars, TypeOK, PlaceInv
<1>15. CASE SendOtaReport
  BY <1>15 DEF SendOtaReport, Send, Sent, callVars, TypeOK, PlaceInv
<1>16. CASE Leave
  BY <1>16 DEF Leave, callVars, historyVars, TypeOK, PlaceInv
<1> QED
  BY <1>2, <1>3, <1>4, <1>5, <1>6, <1>7, <1>8, <1>9, <1>10, <1>11, <1>12, <1>13,
     <1>14, <1>15, <1>16, <1>17, <1>18 DEF MainTask

\* So do the other actors.
LEMMA RadioTypes ==
  ASSUME TypeOK, PlaceInv, TxAnswered \/ TxGivesUp \/ HubMoves
  PROVE  TypeOK' /\ PlaceInv'
<1>1. CASE TxAnswered
  <2>1. in_flight' = FALSE
    BY <1>1 DEF TxAnswered
  <2>2. ~in_flight' /\ in_flight' \in BOOLEAN
    BY <2>1, Zenon
  <2> QED
    BY <1>1, <2>2 DEF TxAnswered, callVars, historyVars, TypeOK, PlaceInv
<1>2. CASE TxGivesUp
  <2>1. node' \in NodeStates /\ scan_left' \in 0..ScanMs
    BY <1>2 DEF TxGivesUp, Scan, NodeStates
  <2>2. mishap' \in BOOLEAN /\ in_flight' \in BOOLEAN
    BY <1>2 DEF TxGivesUp
  <2>3. given_up' \in 0..Attempts /\ node' = "SCAN"
    BY <1>2 DEF TxGivesUp, Scan, TypeOK
  <2> QED
    BY <1>2, <2>1, <2>2, <2>3 DEF TxGivesUp, callVars, TypeOK, PlaceInv
<1>3. CASE HubMoves
  BY <1>3 DEF HubMoves, radioVars, callVars, TypeOK, PlaceInv
<1> QED
  BY <1>1, <1>2, <1>3

-----------------------------------------------------------------------------
(* The budget *)

\* A call returns within its share, whatever it found.
LEMMA ReturnBudget ==
  ASSUME TypeOK, NEW operational \in BOOLEAN, Return(operational),
         awake' \in Nat, awake' <= Before(caller) + LongestCall
  PROVE  BudgetInv'
<1>1. caller \in Callers
  BY DEF TypeOK
<1>2. awake' <= Longest
  BY <1>1, Budgets, Delays
<1>3. CASE operational
  <2>1. CASE caller = "verdict"
    BY <1>2, <1>3, <2>1, Budgets, Delays DEF Return, IfReady, BudgetInv, Callers
  <2>2. CASE caller # "verdict"
    <3>1. caller' = caller /\ pc' \in {"resend", "send_ota"}
      BY <1>1, <1>3, <2>2 DEF Return, IfReady, Callers
    <3> QED
      BY <1>2, <3>1 DEF BudgetInv
  <2> QED
    BY <2>1, <2>2
<1>4. CASE ~operational
  BY <1>1, <1>2, <1>4, Budgets, Delays DEF Return, IfGivenUp, BudgetInv, Callers
<1> QED
  BY <1>3, <1>4

\* No step of the main task takes more than the budget left for it.
LEMMA MainBudget ==
  ASSUME TypeOK, PlaceInv, BudgetInv, MainTask
  PROVE  BudgetInv'
<1> USE DEF Goto
<1>1. /\ PollMs \in Nat /\ YieldMs \in Nat /\ PairPollMs \in Nat /\ ListenMs \in Nat
      /\ PairingMs \in Nat
  OBVIOUS
<1>2. /\ awake \in Nat /\ awake <= Longest /\ left \in Nat
      /\ caller \in Callers /\ Before(caller) \in Nat
      /\ Before(caller) + LongestCall <= Longest
      /\ attempt \in Nat /\ Passed(attempt) \in Int
  BY Budgets, Passes DEF TypeOK, BudgetInv
<1>3. ASSUME NEW added \in BOOLEAN, ProcessNodeState(added)
      PROVE  BudgetInv'
  BY <1>1, <1>2, <1>3 DEF ProcessNodeState, historyVars, BudgetInv
<1>4. CASE PairingPoll
  <2>1. Wait(PairPollMs) /\ awake + left <= PairingMs /\ left > 0
    BY <1>4 DEF PairingPoll, Delay, KeepsPairing, BudgetInv
  <2>2. awake + PairPollMs <= Longest
    BY <1>1, <1>2, <2>1, Delays
  <2>3. awake' = awake + PairPollMs
    BY <1>1, <2>1, <2>2, WaitStep
  <2>4. left' > 0 => left' = left - PairPollMs
    BY <1>1, <1>2, <1>4 DEF PairingPoll, TimeGoes
  <2> QED
    BY <1>1, <1>2, <1>4, <2>1, <2>2, <2>3, <2>4 DEF PairingPoll, BudgetInv
<1>5. CASE PairingEnds
  BY <1>2, <1>5 DEF PairingEnds, historyVars, BudgetInv
<1>6. CASE SendReport
  <2>1. /\ pc' \in {"listen", "ensure"} /\ caller' = "report" /\ awake' = awake
        /\ awake <= PairingMs + PairPollMs
    BY <1>6 DEF SendReport, Send, AfterRefusal, BudgetInv
  <2> QED
    BY <1>1, <1>2, <2>1, Budgets, Delays DEF BudgetInv
<1>7. CASE Resend
  <2>1. caller = "report" /\ awake' = awake /\ awake <= Before("report") + LongestCall
    BY <1>7 DEF Resend, Send, PlaceInv, BudgetInv
  <2> QED
    BY <1>2, <1>7, <2>1, Budgets DEF Resend, BudgetInv
<1>8. CASE Ensure
  <2>1. Wait(YieldMs) /\ awake <= Before(caller)
    BY <1>8 DEF Ensure, Delay, BudgetInv
  <2>2. awake + YieldMs <= Before(caller) + LongestCall
    BY <1>1, <1>2, <2>1, Delays
  <2>3. awake' = awake + YieldMs /\ awake' <= Longest
    BY <1>1, <1>2, <2>1, <2>2, WaitStep, Delays
  <2>4. pc' = "yielded" /\ caller' = caller
    BY <1>8 DEF Ensure
  <2>5. Before(caller)' = Before(caller)
    BY <2>4 DEF Before
  <2> QED
    BY <1>1, <1>2, <2>1, <2>3, <2>4, <2>5 DEF BudgetInv
<1>18. CASE FirstLook
  <2>1. /\ awake' = awake /\ awake <= Before(caller) + YieldMs
        /\ attempt = 1 /\ attempt' = attempt
    BY <1>18 DEF FirstLook, historyVars, BudgetInv, PlaceInv
  <2>2. awake <= Before(caller) + LongestCall
    BY <1>1, <1>2, <2>1, Delays
  <2>3. CASE node = "OPERATIONAL"
    <3>1. Return(TRUE)
      BY <1>18, <2>3 DEF FirstLook
    <3> QED
      BY <1>2, <2>1, <2>2, <3>1, ReturnBudget
  <2>4. CASE node # "OPERATIONAL"
    <3>1. pc' = "attempt" /\ caller' = caller
      BY <1>18, <2>4 DEF FirstLook
    <3>2. SoFar' = Before(caller) + YieldMs + Passed(1)
      BY <2>1, <3>1 DEF SoFar, Before, Passed
    <3> QED
      BY <1>1, <1>2, <2>1, <3>1, <3>2, Passes DEF BudgetInv
  <2> QED
    BY <2>3, <2>4
<1>9. ASSUME NEW ok \in BOOLEAN, BeginAttempt(ok)
      PROVE  BudgetInv'
  <2>1. /\ pc' = "poll" /\ awake' = awake /\ left' = PassMs
        /\ awake <= SoFar /\ caller' = caller /\ attempt' = attempt
    BY <1>9 DEF BeginAttempt, BudgetInv
  <2>2. SoFar' = SoFar
    BY <2>1 DEF SoFar, Before, Passed
  <2>3. SoFar \in Int
    BY <1>1, <1>2 DEF SoFar
  <2> QED
    BY <1>2, <2>1, <2>2, <2>3, Delays DEF BudgetInv
<1>10. CASE Poll
  <2>1. /\ Wait(PollMs) /\ left > 0 /\ attempt <= Attempts
        /\ awake + left <= SoFar + PassMs /\ SoFar \in Int
    BY <1>1, <1>2, <1>10 DEF Poll, Delay, BudgetInv, PlaceInv, SoFar
  <2>2. SoFar + OnePass <= Before(caller) + LongestCall
    BY <1>1, <1>2, <2>1, Passes, Delays DEF SoFar
  <2>3. awake + PollMs <= SoFar + OnePass
    BY <1>1, <1>2, <2>1, Delays DEF OnePass
  <2>4. awake' = awake + PollMs /\ awake' \in Nat /\ awake' <= Longest
    BY <1>1, <1>2, <2>1, <2>2, <2>3, WaitStep, Delays
  <2>5. pc' = "look" /\ caller' = caller /\ attempt' = attempt
    BY <1>10 DEF Poll
  <2>6. SoFar' = SoFar
    BY <2>5 DEF SoFar, Before, Passed
  <2>7. left' > 0 => left' = left - PollMs
    BY <1>1, <1>2, <1>10 DEF Poll, TimeGoes
  <2> QED
    BY <1>1, <1>2, <2>1, <2>3, <2>4, <2>5, <2>6, <2>7, Delays DEF BudgetInv
<1>19. CASE Look
  <2>1. /\ awake <= SoFar + OnePass /\ (left > 0 => awake + left <= SoFar + PassMs)
        /\ awake' = awake /\ left' = left
        /\ attempt <= Attempts /\ SoFar \in Int
    BY <1>1, <1>2, <1>19 DEF Look, historyVars, BudgetInv, PlaceInv, SoFar
  <2>2. SoFar + OnePass <= Before(caller) + LongestCall
    BY <1>1, <1>2, <2>1, Passes, Delays DEF SoFar
  <2>3. CASE node = "OPERATIONAL"
    <3>1. Return(TRUE)
      BY <1>19, <2>3 DEF Look
    <3>2. awake' <= Before(caller) + LongestCall
      BY <1>1, <1>2, <2>1, <2>2, Delays
    <3> QED
      BY <1>2, <2>1, <3>1, <3>2, ReturnBudget
  <2>4. CASE node = "IDLE"
    <3>1. pc' = "attempt" /\ caller' = caller /\ attempt' = attempt + 1
      BY <1>19, <2>4 DEF Look
    <3>2. SoFar' = Before(caller) + YieldMs + Passed(attempt + 1)
      BY <3>1 DEF SoFar, Before, Passed
    <3>3. SoFar' = SoFar + OnePass
      BY <1>1, <1>2, <3>2, Passes, Delays DEF SoFar
    <3> QED
      BY <1>2, <2>1, <3>1, <3>3 DEF BudgetInv
  <2>5. CASE node \notin {"OPERATIONAL", "IDLE"}
    <3>1. pc' = "poll" /\ caller' = caller /\ attempt' = attempt
      BY <1>19, <2>5 DEF Look
    <3>2. SoFar' = SoFar
      BY <3>1 DEF SoFar, Before, Passed
    <3> QED
      BY <1>2, <2>1, <3>1, <3>2 DEF BudgetInv
  <2> QED
    BY <2>3, <2>4, <2>5
<1>11. CASE PassEnds
  <2>1. /\ pc' = "attempt" /\ caller' = caller /\ attempt' = attempt + 1
        /\ awake' = awake /\ awake <= SoFar + OnePass
    BY <1>11 DEF PassEnds, historyVars, BudgetInv
  <2>2. SoFar' = Before(caller) + YieldMs + Passed(attempt + 1)
    BY <2>1 DEF SoFar, Before, Passed
  <2>3. SoFar' = SoFar + OnePass
    BY <1>1, <1>2, <2>2, Passes, Delays DEF SoFar
  <2> QED
    BY <1>2, <2>1, <2>3 DEF BudgetInv
<1>12. CASE GiveUp
  <2>1. /\ awake' = awake /\ awake <= SoFar
        /\ attempt <= Attempts + 1
    BY <1>12 DEF GiveUp, historyVars, BudgetInv, TypeOK
  <2>3. Return(FALSE)
    BY <1>12 DEF GiveUp
  <2>2. awake <= Before(caller) + LongestCall
    BY <1>1, <1>2, <2>1, Passes, Delays DEF SoFar
  <2> QED
    BY <1>2, <2>1, <2>2, <2>3, ReturnBudget
<1>13. ASSUME NEW acks \in BOOLEAN, Listen(acks)
       PROVE  BudgetInv'
  <2>1. /\ Wait(ListenMs) /\ pc' \in {"verify", "ota", "leave"}
        /\ awake <= PairingMs + PairPollMs + LongestCall
    BY <1>13 DEF Listen, BudgetInv
  <2>2. awake' = awake + ListenMs /\ awake' <= Longest
    BY <1>1, <1>2, <2>1, WaitStep, Delays
  <2> QED
    BY <1>1, <1>2, <2>1, <2>2, Delays DEF BudgetInv
<1>14. ASSUME NEW success \in BOOLEAN, NEW up \in BOOLEAN, Ota(success, up)
       PROVE  BudgetInv'
  <2>1. /\ pc' \in {"leave", "ensure", "verify"} /\ awake' = awake
        /\ pc' = "ensure" => caller' = "ota_report"
        /\ awake <= PairingMs + PairPollMs + ListenMs + LongestCall
    BY <1>14 DEF Ota, Call, BudgetInv
  <2> QED
    BY <1>1, <1>2, <2>1, Budgets, Delays DEF BudgetInv
<1>15. CASE Verify
  <2>1. /\ pc' \in {"leave", "ensure"} /\ awake' = awake
        /\ pc' = "ensure" => caller' = "verdict"
        /\ awake <= PairingMs + PairPollMs + ListenMs + 2 * LongestCall
    BY <1>15 DEF Verify, Call, BudgetInv
  <2> QED
    BY <1>2, <2>1, Budgets DEF BudgetInv
<1>16. CASE SendOtaReport
  <2>1. /\ pc' = IF caller = "ota_report" THEN "verify" ELSE "leave"
        /\ awake' = awake /\ awake <= Before(caller) + LongestCall
    BY <1>16 DEF SendOtaReport, Send, BudgetInv
  <2> QED
    BY <1>1, <1>2, <2>1, Budgets, Delays DEF BudgetInv
<1>17. CASE Leave
  BY <1>2, <1>17 DEF Leave, historyVars, BudgetInv
<1> QED
  BY <1>3, <1>4, <1>5, <1>6, <1>7, <1>8, <1>9, <1>10, <1>11, <1>12, <1>13, <1>14,
     <1>15, <1>16, <1>17, <1>18, <1>19 DEF MainTask

\* The other actors take none of it.
LEMMA RadioBudget ==
  ASSUME BudgetInv, TxAnswered \/ TxGivesUp \/ HubMoves
  PROVE  BudgetInv'
<1>1. /\ pc' = pc /\ awake' = awake /\ left' = left /\ attempt' = attempt
      /\ caller' = caller
  BY DEF TxAnswered, TxGivesUp, HubMoves, callVars, historyVars
<1>2. SoFar' = SoFar /\ Before(caller)' = Before(caller)
  BY <1>1 DEF SoFar, Before, Passed
<1> QED
  BY <1>1, <1>2 DEF BudgetInv

-----------------------------------------------------------------------------
(* The search *)

\* A recovery knows where its search stands: a pass outlasts a scan it began
\* with, so the scan ends in the pass, and the next attempt begins a new one.
LEMMA MainSearch ==
  ASSUME TypeOK, PlaceInv, SearchInv, MainTask
  PROVE  SearchInv'
<1> USE DEF Goto
<1>1. PollMs \in Nat /\ PollMs > 0 /\ YieldMs \in Nat /\ ScanMs + PollMs <= PassMs
  OBVIOUS
<1>2. /\ attempt \in Nat /\ scans \in Nat /\ given_up \in Nat
      /\ left \in Nat /\ scan_left \in 0..ScanMs
      /\ node \in NodeStates /\ caller \in Callers
  BY DEF TypeOK
<1>3. ASSUME pc' \notin {"attempt", "poll", "look", "resend", "send_ota"}
      PROVE  SearchInv'
  BY <1>3 DEF SearchInv
<1>4. CASE FirstLook
  <2>1. seen' = node /\ node' = node /\ attempt' = 1
    BY <1>4 DEF FirstLook, PlaceInv, radioVars
  <2>2. CASE node = "OPERATIONAL"
    <3>1. pc' \in {"resend", "ensure", "send_ota"}
      BY <1>2, <1>4, <2>2 DEF FirstLook, Return, IfReady, Callers
    <3> QED
      BY <2>1, <2>2, <3>1 DEF SearchInv
  <2>3. CASE node # "OPERATIONAL"
    <3>1. pc' = "attempt"
      BY <1>4, <2>3 DEF FirstLook
    <3> QED
      BY <1>2, <2>1, <2>3, <3>1 DEF SearchInv, NodeStates
  <2> QED
    BY <2>2, <2>3
<1>5. ASSUME NEW ok \in BOOLEAN, BeginAttempt(ok)
      PROVE  SearchInv'
  <2> SUFFICES ASSUME ready', ~mishap', node' # "PAIRING"
               PROVE  /\ node' = "SCAN" /\ scan_left' + PollMs <= left'
                      /\ Searched(attempt - 1)'
    BY <1>5 DEF SearchInv, BeginAttempt
  <2>1. /\ pc = "attempt" /\ attempt >= 1 /\ left' = PassMs /\ attempt' = attempt
        /\ near' = near /\ given_up' = given_up /\ ready /\ ~mishap
        /\ Reconnects => ok
    BY <1>5 DEF BeginAttempt, PlaceInv
  <2>2. node # "PAIRING"
    BY <1>5 DEF BeginAttempt
  <2>3. /\ node \in {"IDLE", "SCAN"} /\ (node = "IDLE" => seen = "IDLE")
        /\ \/ attempt = 1
           \/ ~near /\ node = "IDLE" /\ Searched(attempt - 2)
           \/ given_up >= 1 /\ node = "SCAN" /\ Searched(attempt - 1)
    BY <2>1, <2>2 DEF SearchInv
  <2>4. CASE node = "IDLE"
    <3>1. node' = "SCAN" /\ scan_left' = ScanMs /\ scans' = scans + 1
      BY <1>5, <2>1, <2>3, <2>4 DEF BeginAttempt, Reconnects, Scan
    <3> QED
      BY <1>1, <1>2, <2>1, <2>3, <2>4, <3>1 DEF Searched
  <2>5. CASE node = "SCAN"
    <3>1. node' = "SCAN" /\ scan_left' = scan_left /\ scans' = scans
      BY <1>5, <2>1, <2>5 DEF BeginAttempt
    <3> QED
      BY <1>1, <1>2, <2>1, <2>3, <2>5, <3>1 DEF Searched
  <2> QED
    BY <2>3, <2>4, <2>5
<1>6. CASE Poll
  <2> SUFFICES ASSUME ready', ~mishap', node' # "PAIRING"
               PROVE  SearchInv'
    BY DEF SearchInv
  <2>1. /\ pc = "poll" /\ pc' = "look" /\ attempt' = attempt /\ ready /\ ~mishap
        /\ near' = near /\ scans' = scans /\ given_up' = given_up /\ in_flight' = in_flight
        /\ Found \/ Lost(PollMs) \/ Goes(PollMs)
    BY <1>6 DEF Poll, Delay, Wait
  <2>2. /\ Searched(attempt - 1)' <=> Searched(attempt - 1)
        /\ Searched(attempt)' <=> Searched(attempt)
    BY <2>1 DEF Searched
  <2>3. CASE Found
    <3>1. node' = "OPERATIONAL" /\ node \in {"SCAN", "PAIRING"}
      BY <2>3 DEF Found
    <3>2. node = "SCAN" => Searched(attempt - 1)
      BY <2>1 DEF SearchInv
    <3>3. node = "PAIRING" => ~in_flight'
      BY <2>1 DEF PlaceInv
    <3> QED
      BY <2>1, <2>2, <3>1, <3>2, <3>3 DEF SearchInv
  <2>4. CASE Lost(PollMs)
    <3>1. node = "SCAN" /\ node' = "IDLE" /\ ~near'
      BY <2>1, <2>4 DEF Lost
    <3>2. Searched(attempt - 1)
      BY <2>1, <3>1 DEF SearchInv
    <3> QED
      BY <2>1, <2>2, <3>1, <3>2 DEF SearchInv
  <2>5. CASE Goes(PollMs)
    <3>1. node' = node /\ node = "SCAN"
      BY <2>1, <2>5 DEF Goes, SearchInv
    <3>2. scan_left' = scan_left - PollMs /\ scan_left > PollMs
      BY <2>5, <3>1 DEF Goes
    <3>3. /\ Searched(attempt - 1)
          /\ scan_left + PollMs <= left \/ (given_up >= 1 /\ Searched(attempt))
      BY <2>1, <3>1 DEF SearchInv
    <3>4. left > PollMs => left' = left - PollMs
      BY <1>6 DEF Poll, TimeGoes
    <3>5. \/ scan_left' + PollMs <= left'
          \/ given_up' >= 1 /\ Searched(attempt)'
      BY <1>1, <1>2, <2>1, <2>2, <3>2, <3>3, <3>4
    <3> QED
      BY <2>1, <2>2, <3>1, <3>3, <3>5 DEF SearchInv
  <2> QED
    BY <2>1, <2>3, <2>4, <2>5
<1>7. CASE Look
  <2>1. /\ pc = "look" /\ seen' = node /\ UNCHANGED <<radioVars, left, historyVars, near>>
    BY <1>7 DEF Look
  <2>2. CASE node = "OPERATIONAL"
    <3>1. pc' \in {"resend", "ensure", "send_ota"}
      BY <1>2, <1>7, <2>2 DEF Look, Return, IfReady, Callers
    <3> QED
      BY <2>1, <2>2, <3>1 DEF SearchInv, radioVars
  <2>3. CASE node = "IDLE"
    <3>1. pc' = "attempt" /\ attempt' = attempt + 1
      BY <1>7, <2>3 DEF Look
    <3>2. ready /\ ~mishap => ~near /\ Searched(attempt - 1)
      BY <2>1, <2>3 DEF SearchInv
    <3>3. Searched(attempt - 1) => Searched(attempt - 2)'
      BY <1>2, <2>1, <3>1 DEF Searched, historyVars
    <3> QED
      BY <2>1, <2>3, <3>1, <3>2, <3>3 DEF SearchInv, radioVars, historyVars
  <2>4. CASE node \notin {"OPERATIONAL", "IDLE"}
    <3>1. pc' = "poll" /\ attempt' = attempt
      BY <1>7, <2>4 DEF Look
    <3>2. node \in {"SCAN", "PAIRING"}
      BY <1>2, <2>4 DEF NodeStates
    <3> QED
      BY <2>1, <3>1, <3>2 DEF SearchInv, Searched, radioVars, historyVars
  <2> QED
    BY <2>2, <2>3, <2>4
<1>8. CASE PassEnds
  <2> SUFFICES ASSUME ready', ~mishap', node' # "PAIRING"
               PROVE  SearchInv'
    BY DEF SearchInv
  <2>1. /\ pc = "poll" /\ pc' = "attempt" /\ attempt' = attempt + 1 /\ left = 0
        /\ UNCHANGED <<ready, node, scan_left, seen, scans, given_up, mishap, near>>
    BY <1>8 DEF PassEnds, radioVars, historyVars
  <2>2. node = "SCAN" /\ (scan_left + PollMs <= left \/ (given_up >= 1 /\ Searched(attempt)))
    BY <2>1 DEF SearchInv
  <2>3. given_up >= 1 /\ Searched(attempt)
    BY <1>1, <1>2, <2>1, <2>2
  <2>4. Searched(attempt - 1)'
    BY <1>2, <2>1, <2>3 DEF Searched
  <2> QED
    BY <2>1, <2>2, <2>3, <2>4 DEF SearchInv
<1>9. CASE \/ \E added \in BOOLEAN : ProcessNodeState(added)
           \/ PairingPoll \/ PairingEnds \/ SendReport \/ Resend \/ Ensure
  BY <1>3, <1>9 DEF ProcessNodeState, PairingPoll, PairingEnds, SendReport, Resend,
                    AfterRefusal, Ensure
<1>10. CASE GiveUp
  BY <1>2, <1>3, <1>10 DEF GiveUp, Return, IfGivenUp
<1>11. CASE \/ \E acks \in BOOLEAN : Listen(acks)
            \/ \E success, up \in BOOLEAN : Ota(success, up)
            \/ Verify \/ SendOtaReport \/ Leave
  BY <1>3, <1>11 DEF Listen, Ota, Call, Verify, SendOtaReport, Leave
<1> QED
  BY <1>4, <1>5, <1>6, <1>7, <1>8, <1>9, <1>10, <1>11 DEF MainTask

\* A report is refused to a hub in reach only if something happened behind the
\* back of the call: otherwise the first pass finds the hub.
LEMMA MainQueued ==
  ASSUME TypeOK, PlaceInv, SearchInv, QueuedWhenHubIsNear, MainTask
  PROVE  QueuedWhenHubIsNear'
<1> USE DEF Goto
<1>1. caller \in Callers /\ attempt \in Nat
  BY DEF TypeOK
<1>2. ASSUME pc' \notin {"listen", "verify", "leave"}
      PROVE  QueuedWhenHubIsNear'
  BY <1>2 DEF QueuedWhenHubIsNear
<1>3. CASE SendReport
  BY <1>3 DEF SendReport, Send, Sent, AfterRefusal, QueuedWhenHubIsNear
<1>4. CASE Resend
  BY <1>4 DEF Resend, Send, Sent, SearchInv, QueuedWhenHubIsNear
<1>5. CASE SendOtaReport
  BY <1>5 DEF SendOtaReport, Send, Sent, SearchInv, QueuedWhenHubIsNear
<1>6. CASE GiveUp
  <2>1. given_up \in Nat /\ given_up <= Attempts /\ attempt = Attempts + 1
    BY <1>6 DEF GiveUp, Tries, TypeOK
  <2>2. ~(near /\ ready /\ node # "PAIRING" /\ ~mishap /\ given_up < Attempts)
    BY <1>6, <2>1 DEF GiveUp, SearchInv, Searched
  <2> QED
    BY <1>6, <2>2 DEF GiveUp, radioVars, historyVars, QueuedWhenHubIsNear
<1>7. ASSUME NEW acks \in BOOLEAN, Listen(acks)
      PROVE  QueuedWhenHubIsNear'
  BY <1>7 DEF Listen, PlaceInv, callVars, QueuedWhenHubIsNear
<1>8. ASSUME NEW success \in BOOLEAN, NEW up \in BOOLEAN, Ota(success, up)
      PROVE  QueuedWhenHubIsNear'
  <2>1. caller = "report" /\ pc' \in {"leave", "ensure", "verify"}
        /\ (pc' # "ensure" => caller' = caller)
    BY <1>8 DEF Ota, Call, callVars, PlaceInv
  <2> QED
    BY <2>1 DEF QueuedWhenHubIsNear
<1>9. CASE Verify
  BY <1>9 DEF Verify, Call, callVars, PlaceInv, QueuedWhenHubIsNear
<1>10. CASE \/ \E added \in BOOLEAN : ProcessNodeState(added)
            \/ PairingPoll \/ PairingEnds \/ Leave \/ PassEnds
            \/ \E ok \in BOOLEAN : BeginAttempt(ok)
  BY <1>2, <1>10 DEF ProcessNodeState, PairingPoll, PairingEnds, Leave, PassEnds,
                     BeginAttempt
<1>11. CASE Ensure \/ FirstLook \/ Poll \/ Look
  BY <1>1, <1>2, <1>11 DEF Ensure, FirstLook, Poll, Look, Return, IfReady, Callers
<1> QED
  BY <1>3, <1>4, <1>5, <1>6, <1>7, <1>8, <1>9, <1>10, <1>11 DEF MainTask

\* What the other actors do behind a call's back is told apart: a packet given up
\* begins the search anew, and is counted.
LEMMA RadioSearch ==
  ASSUME TypeOK, PlaceInv, SearchInv, QueuedWhenHubIsNear,
         TxAnswered \/ TxGivesUp \/ HubMoves
  PROVE  SearchInv' /\ QueuedWhenHubIsNear'
<1>1. CASE TxAnswered
  BY <1>1 DEF TxAnswered, callVars, historyVars, SearchInv, Searched, QueuedWhenHubIsNear
<1>2. CASE TxGivesUp
  <2>1. /\ UNCHANGED <<pc, ready, caller, seen, attempt, left, scans, report, near>>
        /\ node' = "SCAN" /\ ready /\ in_flight /\ node # "PAIRING"
        /\ mishap' = (mishap \/ pc \in {"resend", "send_ota"})
        /\ given_up' = IF pc \in {"attempt", "poll", "look"} /\ given_up < Attempts
                       THEN given_up + 1 ELSE given_up
    BY <1>2 DEF TxGivesUp, Scan, callVars
  <2>2. /\ given_up \in Nat /\ given_up <= Attempts /\ scans \in Nat /\ attempt \in Nat
        /\ given_up' >= given_up
    BY <2>1 DEF TypeOK
  <2>3. QueuedWhenHubIsNear'
    BY <2>1, <2>2 DEF QueuedWhenHubIsNear
  <2>4. CASE mishap' \/ pc \notin {"attempt", "poll", "look"}
    BY <2>1, <2>3, <2>4 DEF SearchInv
  <2>5. CASE ~mishap' /\ pc \in {"attempt", "poll", "look"}
    <3>1. given_up' >= 1 /\ (given_up' = given_up + 1 \/ given_up' = Attempts)
      BY <2>1, <2>2, <2>5
    <3>2. CASE pc = "attempt"
      <4>1. attempt \in 1..(Attempts + 1)
        BY <3>2 DEF PlaceInv, TypeOK
      <4>2. \/ attempt = 1
            \/ ~near /\ Searched(attempt - 2)
            \/ Searched(attempt - 1)
        BY <2>1, <2>5, <3>2 DEF SearchInv
      <4>3. attempt = 1 \/ Searched(attempt - 1)'
        BY <2>1, <2>2, <3>1, <4>1, <4>2 DEF Searched
      <4> QED
        BY <2>1, <2>3, <3>1, <3>2, <4>3 DEF SearchInv
    <3>3. CASE pc \in {"poll", "look"}
      <4>1. attempt \in 1..Attempts
        BY <3>3 DEF PlaceInv
      <4>2. Searched(attempt - 1)
        BY <2>1, <2>5, <3>3 DEF SearchInv
      <4>3. Searched(attempt - 1)' /\ Searched(attempt)'
        BY <2>1, <2>2, <3>1, <4>1, <4>2 DEF Searched
      <4> QED
        BY <2>1, <2>3, <3>1, <3>3, <4>3 DEF SearchInv
    <3> QED
      BY <2>5, <3>2, <3>3
  <2> QED
    BY <2>3, <2>4, <2>5
<1>3. CASE HubMoves
  BY <1>3 DEF HubMoves, SearchInv, QueuedWhenHubIsNear
<1> QED
  BY <1>1, <1>2, <1>3

-----------------------------------------------------------------------------
(* The theorems *)

\* The strengthened invariant holds in every reachable state.
THEOREM CommunicationInvariant == Spec => []IInv
<1>1. Init => IInv
  <2> SUFFICES ASSUME Init PROVE IInv
    OBVIOUS
  <2>1. TypeOK
    <3>1. scan_left \in 0..ScanMs /\ left \in 0..(PassMs + PairingMs)
      BY DEF Init
    <3>2. /\ awake \in 0..(Longest + 1) /\ attempt \in 0..(Attempts + 1)
          /\ scans \in 0..Attempts /\ given_up \in 0..Attempts
      BY Delays DEF Init
    <3> QED
      BY <3>1, <3>2 DEF Init, TypeOK, Callers, NodeStates
  <2>2. BudgetInv
    BY Delays DEF Init, BudgetInv
  <2> QED
    BY <2>1, <2>2 DEF Init, IInv, PlaceInv, SearchInv, QueuedWhenHubIsNear
<1>2. IInv /\ [Next]_vars => IInv'
  <2> SUFFICES ASSUME IInv, [Next]_vars PROVE IInv'
    OBVIOUS
  <2>1. CASE MainTask
    BY <2>1, MainTypes, MainBudget, MainSearch, MainQueued DEF IInv
  <2>2. CASE TxAnswered \/ TxGivesUp \/ HubMoves
    BY <2>2, RadioTypes, RadioBudget, RadioSearch DEF IInv
  <2>3. CASE UNCHANGED vars
    <3>1. SoFar' = SoFar /\ Before(caller)' = Before(caller)
      BY <2>3 DEF vars, callVars, SoFar, Before, Passed
    <3> QED
      BY <2>3, <3>1 DEF vars, radioVars, callVars, historyVars, IInv, TypeOK, PlaceInv,
                        BudgetInv, SearchInv, Searched, QueuedWhenHubIsNear
  <2> QED
    BY <2>1, <2>2, <2>3 DEF Next
<1> QED
  BY <1>1, <1>2, PTL DEF Spec

\* Types, and no more scans in a call than attempts.
THEOREM CommunicationTypeCorrect == Spec => []TypeOK
<1>1. IInv => TypeOK
  BY DEF IInv
<1> QED
  BY <1>1, CommunicationInvariant, PTL

\* A session waits no longer than a pairing, a window and four recoveries take.
THEOREM BoundedAwake == Spec => []AwakeIsBounded
<1>1. IInv => AwakeIsBounded
  BY DEF IInv, BudgetInv, AwakeIsBounded
<1> QED
  BY <1>1, CommunicationInvariant, PTL

\* A silent hub is given up after all the scans but one at most, of the call's own
\* or of packets given up meanwhile, and after the last one has ended.
THEOREM SearchedBeforeGivingUp == Spec => []GivesUpAfterSearching
<1>1. IInv => GivesUpAfterSearching
  <2> SUFFICES ASSUME IInv, pc = "attempt", attempt > Attempts, ready, ~near,
                      node # "PAIRING", ~mishap
               PROVE  /\ scans + given_up >= Attempts - 1
                      /\ given_up = 0 => node = "IDLE"
    BY DEF GivesUpAfterSearching
  <2>1. attempt \in Nat /\ scans \in Nat /\ given_up \in Nat
    BY DEF IInv, TypeOK
  <2> QED
    BY <2>1 DEF IInv, SearchInv, Searched
<1> QED
  BY <1>1, CommunicationInvariant, PTL

\* A hub in reach gets every report, as long as fewer packets are given up during a
\* recovery than it has attempts, and no mishap happens.
THEOREM NearHubIsServed == Spec => []QueuedWhenHubIsNear
<1>1. IInv => QueuedWhenHubIsNear
  BY DEF IInv
<1> QED
  BY <1>1, CommunicationInvariant, PTL
=============================================================================
