------------------------- MODULE TankCommandHandler -------------------------
(***************************************************************************)
(* TankCommandHandler (main/src/tank_command_handler.cpp): one call of     *)
(* process, which takes messages from the receive queue until its window   *)
(* closes, and answers the hub, and what run makes of the result.          *)
(*                                                                         *)
(* Three actors interleave: the main task inside process, the receive task *)
(* of EspNowManager, which puts messages into the queue as long as there   *)
(* is room, and time.                                                      *)
(***************************************************************************)
EXTENDS Integers, Sequences

CONSTANTS
  Arrivals,      \* messages the hub may send
  QueueLength,   \* length of the receive queue, 30
  WindowMs,      \* the timeout of a blocking call, LISTEN_WINDOW_MS
  MaxHandled,    \* bound: messages the queue takes in one run
  NoTime         \* the time manager is not synchronised

UsPerSecond == 1000000

Generic  == {"START_OTA", "REBOOT", "UNKNOWN_GENERIC"}   \* payload_type <= 0x3F
FarmOwn  == {"SLEEP_OVERRIDE", "SYNC_TIME", "UNKNOWN_FARM"}

\* complete: is the payload long enough?  value: the seconds of a sleep
\* override, the timestamp of a synchronisation.
Message == [msg_type : {"COMMAND", "DATA"}, payload : Generic \cup FarmOwn,
            complete : BOOLEAN, value : Nat]

ASSUME ArrivalsAssumption == Arrivals \subseteq Message
ASSUME QueueAssumption    == QueueLength \in Nat \ {0}
ASSUME WindowAssumption   == WindowMs \in Nat \ {0}
ASSUME MaxAssumption      == MaxHandled \in Nat
ASSUME NoTimeAssumption   == NoTime \notin Nat

VARIABLES
  pc,            \* the next step of process
  rx_queue,      \* the receive queue, or <<>> for ever when has_queue is FALSE
  has_queue,     \* did queue_create succeed?
  now, deadline,
  result,        \* TankCommandProcessResult
  clock,         \* the time the time manager was last set to
  handled,       \* history: the commands handled, each with its answer
  late,          \* history: messages taken at or after the deadline
  outcome        \* history: how the session went on

vars == <<pc, rx_queue, has_queue, now, deadline, result, clock, handled, late, outcome>>

Ends == {"reboot", "update", "rollback", "sleep", "untimed_sleep", "restart"}
Answers == {"OK", "ERROR_INVALID_DATA", "ERROR_PROCESSING"}
NothingAsked == [time_synced |-> FALSE, ota_requested |-> FALSE,
                 reboot_requested |-> FALSE, override_sleep_us |-> 0]

Init ==
  /\ pc = "idle" /\ rx_queue = <<>> /\ has_queue \in BOOLEAN
  /\ now = 0 /\ deadline = 0
  /\ result = NothingAsked /\ clock = NoTime
  /\ handled = <<>> /\ late = 0
  /\ outcome = [end |-> "open", update_tried |-> FALSE, slept |-> 0, synced |-> NoTime]

-----------------------------------------------------------------------------
(* The other actors *)

\* Messages that find the queue full are lost.
Arrive(msg) ==
  /\ has_queue /\ Len(rx_queue) < QueueLength
  /\ Len(handled) + Len(rx_queue) < MaxHandled
  /\ rx_queue' = Append(rx_queue, msg)
  /\ UNCHANGED <<pc, has_queue, now, deadline, result, clock, handled, late, outcome>>

\* One millisecond; the clock is not followed past the window.
Tick ==
  /\ pc \notin {"returned", "over"} /\ now <= WindowMs
  /\ now' = now + 1
  /\ UNCHANGED <<pc, rx_queue, has_queue, deadline, result, clock, handled, late, outcome>>

-----------------------------------------------------------------------------
(* process *)

Call(timeout_ms) ==
  /\ pc = "idle"
  /\ pc' = CASE ~has_queue /\ timeout_ms > 0  -> "sleeping"
             [] ~has_queue /\ timeout_ms = 0  -> "returned"
             [] has_queue /\ timeout_ms > 0   -> "looping"
             [] has_queue /\ timeout_ms = 0   -> "draining"
  /\ deadline' = now + timeout_ms
  /\ UNCHANGED <<rx_queue, has_queue, now, result, clock, handled, late, outcome>>

\* Without a queue process waits all the same.
SleepOver ==
  /\ pc = "sleeping" /\ now >= deadline
  /\ pc' = "returned"
  /\ UNCHANGED <<rx_queue, has_queue, now, deadline, result, clock, handled, late, outcome>>

\* Mutant: the loop goes on while there are messages, the window closed or not.
StaysOpenBusy == now < deadline \/ rx_queue # <<>>

StaysOpen == now < deadline

\* Both tests of the time at the head of the loop
CheckDeadline ==
  /\ pc = "looping"
  /\ pc' = IF StaysOpen THEN "receiving" ELSE "returned"
  /\ UNCHANGED <<rx_queue, has_queue, now, deadline, result, clock, handled, late, outcome>>

\* queue_receive gave up.
ReceiveTimeout ==
  /\ pc = "receiving" /\ rx_queue = <<>> /\ now >= deadline
  /\ pc' = "looping"
  /\ UNCHANGED <<rx_queue, has_queue, now, deadline, result, clock, handled, late, outcome>>

\* Mutant: the first override of the window wins.
TakesFirstOverride(msg) ==
  msg.payload = "SLEEP_OVERRIDE" /\ msg.complete /\ result.override_sleep_us = 0

TakesOverride(msg) == msg.payload = "SLEEP_OVERRIDE" /\ msg.complete

\* Mutant: the seconds of an override are taken for milliseconds.
OverrideUsOfMillis(msg) == 1000 * msg.value

OverrideUs(msg) == UsPerSecond * msg.value

\* Mutant: a packet the time manager refused counts as a synchronisation.
SynchronisesUnchecked(msg, sync_ok) == msg.payload = "SYNC_TIME" /\ msg.complete

Synchronises(msg, sync_ok) == msg.payload = "SYNC_TIME" /\ msg.complete /\ sync_ok

\* What process_command_message adds to the result.
Effect(msg, sync_ok) ==
  [ota_requested     |-> result.ota_requested \/ msg.payload = "START_OTA",
   reboot_requested  |-> result.reboot_requested \/ msg.payload = "REBOOT",
   time_synced       |-> result.time_synced \/ Synchronises(msg, sync_ok),
   override_sleep_us |-> IF TakesOverride(msg) THEN OverrideUs(msg)
                         ELSE result.override_sleep_us]

\* The status given to send_cmd_ack, which sends it if the message asks for one.
Answer(msg, sync_ok) ==
  IF msg.payload \in {"START_OTA", "REBOOT"} THEN "OK"
  ELSE IF msg.payload \notin {"SLEEP_OVERRIDE", "SYNC_TIME"} THEN "ERROR_PROCESSING"
  ELSE IF ~msg.complete THEN "ERROR_INVALID_DATA"
  ELSE IF msg.payload = "SYNC_TIME" /\ ~sync_ok THEN "ERROR_PROCESSING"
  ELSE "OK"

ProcessCommandMessage(msg, sync_ok) ==
  /\ result' = Effect(msg, sync_ok)
  /\ clock' = IF msg.payload = "SYNC_TIME" /\ msg.complete /\ sync_ok
              THEN msg.value ELSE clock
  /\ handled' = Append(handled, [msg |-> msg, answer |-> Answer(msg, sync_ok)])

\* queue_receive delivered a message, in a loop of either kind; the time
\* manager accepts a packet or refuses it.
Receive(sync_ok) ==
  /\ \/ pc = "receiving" /\ pc' = "looping"
     \/ pc = "draining" /\ pc' = "draining"
  /\ rx_queue # <<>>
  /\ rx_queue' = Tail(rx_queue)
  /\ late' = IF pc = "receiving" /\ now >= deadline THEN late + 1 ELSE late
  /\ IF Head(rx_queue).msg_type = "COMMAND"
     THEN ProcessCommandMessage(Head(rx_queue), sync_ok)
     ELSE UNCHANGED <<result, clock, handled>>
  /\ UNCHANGED <<has_queue, now, deadline, outcome>>

DrainEnds ==
  /\ pc = "draining" /\ rx_queue = <<>>
  /\ pc' = "returned"
  /\ UNCHANGED <<rx_queue, has_queue, now, deadline, result, clock, handled, late, outcome>>

-----------------------------------------------------------------------------
(* run *)

\* Mutant: an update goes before a reboot.
RebootsUnlessUpdating(button) == result.reboot_requested /\ ~(result.ota_requested \/ button)

Reboots(button) == result.reboot_requested

TriesUpdate(button) == ~Reboots(button) /\ (result.ota_requested \/ button)

\* A reboot comes first.  An update, asked for by a command or the button,
\* restarts the node or fails; then an image on probation may be rejected, and
\* its rollback restarts the node before anything is saved.  What is left is
\* sleep, with its timer or with the float switch alone, or, if neither could
\* be set up, a restart after the save.
Endings(button) ==
  IF Reboots(button) THEN {"reboot"}
  ELSE {"rollback", "sleep", "untimed_sleep", "restart"}
         \cup {end \in {"update"} : TriesUpdate(button)}

\* What the result comes to: for how long the node sleeps, 0 standing for as
\* long as it calculated itself, and the synchronisation it handed to its save.
Conclude(button, end) ==
  /\ pc = "returned" /\ pc' = "over"
  /\ end \in Endings(button)
  /\ outcome' = [end |-> end, update_tried |-> TriesUpdate(button),
                 slept  |-> IF end = "sleep" THEN result.override_sleep_us ELSE 0,
                 synced |-> IF result.time_synced /\ end # "rollback"
                            THEN clock ELSE NoTime]
  /\ UNCHANGED <<rx_queue, has_queue, now, deadline, result, clock, handled, late>>

-----------------------------------------------------------------------------
Process ==
  \/ \E timeout_ms \in {0, WindowMs} : Call(timeout_ms)
  \/ SleepOver \/ CheckDeadline \/ ReceiveTimeout \/ DrainEnds
  \/ \E sync_ok \in BOOLEAN : Receive(sync_ok)
  \/ \E button \in BOOLEAN : \E end \in Ends : Conclude(button, end)

Next == Process \/ Tick \/ \E msg \in Arrivals : Arrive(msg)

Spec == Init /\ [][Next]_vars

-----------------------------------------------------------------------------
(* Properties *)

\* Types and ranges; an override is a whole number of seconds of a message.
TypeOK ==
  /\ pc \in {"idle", "sleeping", "looping", "receiving", "draining", "returned",
             "over"}
  /\ rx_queue \in Seq(Arrivals) /\ Len(rx_queue) <= QueueLength
  /\ has_queue \in BOOLEAN /\ (~has_queue => rx_queue = <<>>)
  /\ now \in 0..(WindowMs + 1) /\ deadline \in Nat
  /\ result \in [time_synced : BOOLEAN, ota_requested : BOOLEAN,
                 reboot_requested : BOOLEAN,
                 override_sleep_us : {0} \cup {UsPerSecond * m.value : m \in Arrivals}]
  /\ clock \in Nat \cup {NoTime}
  /\ handled \in Seq([msg : Arrivals, answer : Answers])
  /\ late \in Nat
  /\ outcome \in [end : {"open"} \cup Ends, update_tried : BOOLEAN,
                  slept : Nat, synced : Nat \cup {NoTime}]

\* The commands of one kind that were answered OK, by their place, and whether
\* there is a last one that satisfies a predicate.
Obeyed(payload) ==
  {i \in DOMAIN handled : handled[i].msg.payload = payload /\ handled[i].answer = "OK"}

LastOf(payload, i) == i \in Obeyed(payload) /\ \A j \in Obeyed(payload) : j <= i

\* An answer OK means that the command took effect, any other answer or none
\* that it did not: the flags of the result are those of the commands answered
\* OK, whatever their order and number, and the override is the last one's.
CommandsTakeEffect ==
  /\ result.ota_requested <=> Obeyed("START_OTA") # {}
  /\ result.reboot_requested <=> Obeyed("REBOOT") # {}
  /\ result.time_synced <=> Obeyed("SYNC_TIME") # {}
  /\ Obeyed("SLEEP_OVERRIDE") = {} => result.override_sleep_us = 0
  /\ \A i \in DOMAIN handled :
       LastOf("SLEEP_OVERRIDE", i) =>
         result.override_sleep_us = UsPerSecond * handled[i].msg.value

\* The node tells the hub and its own storage of a synchronisation exactly
\* when the clock was set, and the clock shows the last one answered OK.
ClockShowsLastSync ==
  /\ result.time_synced <=> clock # NoTime
  /\ \A i \in DOMAIN handled :
       LastOf("SYNC_TIME", i) => clock = handled[i].msg.value

\* What the node has answered OK to it does before it sleeps or restarts, and
\* nothing that nobody asked for.  Three things come before an answered command:
\* a reboot asked for in the same window before an update and an override; an
\* update, a rollback or a wake-up that could not be set up before an override;
\* a rollback before a synchronisation, which it loses.
AnsweredIsObeyed ==
  pc = "over" =>
    /\ outcome.end = "reboot" <=> Obeyed("REBOOT") # {}
    /\ Obeyed("START_OTA") # {} => outcome.update_tried \/ outcome.end = "reboot"
    /\ outcome.synced # NoTime => Obeyed("SYNC_TIME") # {}
    /\ \A i \in DOMAIN handled :
         /\ (LastOf("SYNC_TIME", i) /\ outcome.end # "rollback")
              => outcome.synced = handled[i].msg.value
         /\ (LastOf("SLEEP_OVERRIDE", i) /\ outcome.end = "sleep")
              => outcome.slept = UsPerSecond * handled[i].msg.value

\* A hub that keeps sending cannot keep the node awake: after the window has
\* closed at most one more message is taken, the one the call was waiting for.
AtMostOneLate == late <= 1
=============================================================================
