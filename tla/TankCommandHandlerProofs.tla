---------------------- MODULE TankCommandHandlerProofs ----------------------
(***************************************************************************)
(* For every queue, window and set of messages: the types, the end of the  *)
(* window, and that an answer OK is an effect, up to the end of the        *)
(* session.                                                                *)
(***************************************************************************)
EXTENDS TankCommandHandler, TLAPS

\* A message is late only if it ended the window: the loop that took it finds
\* the deadline passed.
LateInv ==
  /\ late \in {0, 1}
  /\ late = 1 => now >= deadline /\ pc \in {"looping", "returned", "over"}

USE ArrivalsAssumption, QueueAssumption, WindowAssumption, NoTimeAssumption

-----------------------------------------------------------------------------
(* Commands and answers *)

\* The factor between seconds and microseconds is a number; only this proof needs to
\* know which.
LEMMA SecondIsNatural == UsPerSecond \in Nat
BY SMT DEF UsPerSecond

Entry == [msg : Arrivals, answer : Answers]

\* How the commands answered OK grow by one more command.
LEMMA ObeyedGrows ==
  ASSUME handled \in Seq(Entry), NEW entry \in Entry, handled' = Append(handled, entry),
         NEW payload
  PROVE  /\ DOMAIN handled = 1..Len(handled) /\ Len(handled) \in Nat
         /\ DOMAIN handled' = 1..(Len(handled) + 1)
         /\ \A i \in 1..Len(handled) : handled'[i] = handled[i]
         /\ handled'[Len(handled) + 1] = entry
         /\ Obeyed(payload) \subseteq 1..Len(handled)
         /\ Obeyed(payload)' = IF entry.msg.payload = payload /\ entry.answer = "OK"
                               THEN Obeyed(payload) \cup {Len(handled) + 1}
                               ELSE Obeyed(payload)
<1>1. /\ DOMAIN handled = 1..Len(handled) /\ Len(handled) \in Nat
      /\ DOMAIN handled' = 1..(Len(handled) + 1)
      /\ \A i \in 1..Len(handled) : handled'[i] = handled[i]
      /\ handled'[Len(handled) + 1] = entry
  BY SMT
<1>2. Obeyed(payload) \subseteq 1..Len(handled)
  BY <1>1, SMT DEF Obeyed
<1>3. 1..(Len(handled) + 1) = 1..Len(handled) \cup {Len(handled) + 1}
  BY <1>1, SMT
<1>4. Obeyed(payload)' = {i \in 1..(Len(handled) + 1) :
                            handled'[i].msg.payload = payload /\ handled'[i].answer = "OK"}
  BY <1>1, SMT DEF Obeyed
<1>5. Obeyed(payload) = {i \in 1..Len(handled) :
                           handled[i].msg.payload = payload /\ handled[i].answer = "OK"}
  BY <1>1, SMT DEF Obeyed
<1> QED
  BY <1>1, <1>2, <1>3, <1>4, <1>5, SMT

\* A command has one of the kinds, and its answer is OK exactly if it takes effect.
LEMMA AnswerIsAnswer ==
  ASSUME NEW msg \in Arrivals, NEW sync_ok \in BOOLEAN
  PROVE  /\ msg.payload \in Generic \cup FarmOwn /\ msg.complete \in BOOLEAN
         /\ msg.value \in Nat
         /\ Answer(msg, sync_ok) \in Answers
         /\ Answer(msg, sync_ok) = "OK" <=>
              \/ msg.payload \in {"START_OTA", "REBOOT"} \/ TakesOverride(msg)
              \/ Synchronises(msg, sync_ok)
<1>1. msg \in Message
  OBVIOUS
<1>2. /\ msg.payload \in Generic \cup FarmOwn /\ msg.complete \in BOOLEAN
      /\ msg.value \in Nat
  BY <1>1, SMT DEF Message
<1> QED
  BY <1>2, SMT DEF Answer, Answers, TakesOverride, Synchronises, Generic, FarmOwn

Results == [time_synced : BOOLEAN, ota_requested : BOOLEAN, reboot_requested : BOOLEAN,
            override_sleep_us : {0} \cup {UsPerSecond * m.value : m \in Arrivals}]

\* What a command adds to the result is a result.
LEMMA EffectIsResult ==
  ASSUME result \in Results, NEW msg \in Arrivals, NEW sync_ok \in BOOLEAN
  PROVE  /\ Effect(msg, sync_ok) \in Results
         /\ TakesOverride(msg) =>
              Effect(msg, sync_ok).override_sleep_us = UsPerSecond * msg.value
<1>1. msg.value \in Nat
  BY AnswerIsAnswer
<1>2. OverrideUs(msg) = UsPerSecond * msg.value
  BY <1>1, SMT DEF OverrideUs
<1> QED
  BY <1>1, <1>2, SMT DEF Effect, Results

-----------------------------------------------------------------------------
(* The types *)

\* The types and the end of the window hold at the start.
LEMMA InitTyped == Init => TypeOK /\ LateInv
<1> SUFFICES ASSUME Init PROVE TypeOK /\ LateInv
  OBVIOUS
<1> QED
  BY SMT DEF Init, TypeOK, LateInv, NothingAsked

\* Every step keeps the types.
LEMMA StepTyped == ASSUME TypeOK, LateInv, [Next]_vars PROVE TypeOK'
<1> USE DEF TypeOK
<1>1. CASE Tick
  BY <1>1, SMT DEF Tick
<1>2. ASSUME NEW msg \in Arrivals, Arrive(msg) PROVE TypeOK'
  BY <1>2, SMT DEF Arrive
<1>3. ASSUME NEW timeout_ms \in {0, WindowMs}, Call(timeout_ms) PROVE TypeOK'
  <2>1. timeout_ms \in Nat /\ now \in Nat /\ deadline' = now + timeout_ms
    BY <1>3, SMT DEF Call
  <2>2. pc' \in {"sleeping", "returned", "looping", "draining"}
    BY <1>3, <2>1, SMT DEF Call
  <2> QED
    BY <1>3, <2>1, <2>2, SMT DEF Call
<1>4. CASE SleepOver \/ CheckDeadline \/ ReceiveTimeout \/ DrainEnds
  BY <1>4, SMT DEF SleepOver, CheckDeadline, ReceiveTimeout, DrainEnds
<1>5. ASSUME NEW sync_ok \in BOOLEAN, Receive(sync_ok) PROVE TypeOK'
  <2> DEFINE msg == Head(rx_queue)
  <2>1. /\ msg \in Arrivals /\ rx_queue' \in Seq(Arrivals)
        /\ Len(rx_queue') <= QueueLength /\ (~has_queue' => rx_queue' = <<>>)
    BY <1>5, SMT DEF Receive
  <2>2. CASE msg.msg_type = "COMMAND"
    <3>1. ProcessCommandMessage(msg, sync_ok)
      BY <1>5, <2>2 DEF Receive
    <3>2. result' \in Results
      BY <2>1, <3>1, EffectIsResult DEF ProcessCommandMessage, Results
    <3>3. clock' \in Nat \cup {NoTime}
      BY <2>1, <3>1, AnswerIsAnswer DEF ProcessCommandMessage
    <3>4. handled' \in Seq(Entry)
      <4>1. [msg |-> msg, answer |-> Answer(msg, sync_ok)] \in Entry
        BY <2>1, AnswerIsAnswer DEF Entry
      <4> QED
        BY <3>1, <4>1 DEF ProcessCommandMessage, Entry
    <3> QED
      BY <1>5, <2>1, <3>2, <3>3, <3>4, SMT DEF Receive, Results, Entry
  <2>3. CASE msg.msg_type # "COMMAND"
    BY <1>5, <2>1, <2>3, SMT DEF Receive
  <2> QED
    BY <2>2, <2>3
<1>6. ASSUME NEW button \in BOOLEAN, NEW end \in Ends, Conclude(button, end)
      PROVE  TypeOK'
  <2>1. result.override_sleep_us \in Nat
    <3>1. \A m \in Arrivals : UsPerSecond * m.value \in Nat
      BY SecondIsNatural, AnswerIsAnswer, SMT
    <3> QED
      BY <3>1
  <2>2. TriesUpdate(button) \in BOOLEAN
    BY Zenon DEF TriesUpdate
  <2> HIDE DEF TriesUpdate
  <2>3. outcome' \in [end : {"open"} \cup Ends, update_tried : BOOLEAN,
                      slept : Nat, synced : Nat \cup {NoTime}]
    BY <1>6, <2>1, <2>2, SMT DEF Conclude
  <2> QED
    BY <1>6, <2>3, SMT DEF Conclude
<1>7. CASE UNCHANGED vars
  BY <1>7, SMT DEF vars
<1> QED
  BY <1>1, <1>2, <1>3, <1>4, <1>5, <1>6, <1>7 DEF Next, Process

\* Every step keeps at most one late message: the one that ends the window.
LEMMA StepLate == ASSUME TypeOK, LateInv, [Next]_vars PROVE LateInv'
<1> USE DEF LateInv, TypeOK
<1>1. CASE Tick
  BY <1>1, SMT DEF Tick
<1>2. ASSUME NEW msg \in Arrivals, Arrive(msg) PROVE LateInv'
  BY <1>2, SMT DEF Arrive
<1>3. ASSUME NEW timeout_ms \in {0, WindowMs}, Call(timeout_ms) PROVE LateInv'
  BY <1>3, SMT DEF Call
<1>4. CASE SleepOver \/ CheckDeadline \/ ReceiveTimeout \/ DrainEnds
  BY <1>4, SMT DEF SleepOver, CheckDeadline, StaysOpen, ReceiveTimeout, DrainEnds
<1>5. ASSUME NEW sync_ok \in BOOLEAN, Receive(sync_ok) PROVE LateInv'
  BY <1>5, SMT DEF Receive
<1>6. ASSUME NEW button \in BOOLEAN, NEW end \in Ends, Conclude(button, end)
      PROVE  LateInv'
  BY <1>6, SMT DEF Conclude
<1>7. CASE UNCHANGED vars
  BY <1>7, SMT DEF vars
<1> QED
  BY <1>1, <1>2, <1>3, <1>4, <1>5, <1>6, <1>7 DEF Next, Process

-----------------------------------------------------------------------------
(* Answers and effects *)

Kept == CommandsTakeEffect /\ ClockShowsLastSync /\ AnsweredIsObeyed

\* A step that handles no command and does not end the session keeps all three.
LEMMA QuietStep ==
  ASSUME Kept, UNCHANGED <<result, clock, handled, outcome>>, pc' = "over" => pc = "over"
  PROVE  Kept'
BY DEF Kept, CommandsTakeEffect, ClockShowsLastSync, AnsweredIsObeyed, Obeyed, LastOf

\* A command, handled inside the session, keeps all three.
LEMMA CommandStep ==
  ASSUME TypeOK, Kept, pc' # "over", NEW msg \in Arrivals, NEW sync_ok \in BOOLEAN,
         ProcessCommandMessage(msg, sync_ok)
  PROVE  Kept'
<1> DEFINE entry == [msg |-> msg, answer |-> Answer(msg, sync_ok)]
           here  == Len(handled) + 1
<1>1. /\ handled \in Seq(Entry) /\ entry \in Entry /\ handled' = Append(handled, entry)
      /\ entry.msg = msg /\ entry.answer = Answer(msg, sync_ok)
  BY AnswerIsAnswer DEF TypeOK, Entry, ProcessCommandMessage
<1> HIDE DEF entry
<1>2. /\ DOMAIN handled = 1..Len(handled) /\ Len(handled) \in Nat
      /\ DOMAIN handled' = 1..here
      /\ \A i \in 1..Len(handled) : handled'[i] = handled[i]
      /\ handled'[here] = entry
  BY <1>1, ObeyedGrows
<1>3. ASSUME NEW payload
      PROVE  /\ Obeyed(payload) \subseteq 1..Len(handled)
             /\ Obeyed(payload)' = IF msg.payload = payload /\ Answer(msg, sync_ok) = "OK"
                                   THEN Obeyed(payload) \cup {here} ELSE Obeyed(payload)
  BY <1>1, ObeyedGrows
<1>4. Answer(msg, sync_ok) = "OK" <=>
        \/ msg.payload \in {"START_OTA", "REBOOT"} \/ TakesOverride(msg)
        \/ Synchronises(msg, sync_ok)
  BY AnswerIsAnswer
<1>5. ASSUME NEW payload, NEW i \in DOMAIN handled', LastOf(payload, i)'
      PROVE  IF msg.payload = payload /\ Answer(msg, sync_ok) = "OK"
             THEN i = here /\ handled'[i].msg = msg
             ELSE /\ i \in DOMAIN handled /\ LastOf(payload, i)
                  /\ handled'[i].msg = handled[i].msg
  <2>1. i \in Obeyed(payload)' /\ \A j \in Obeyed(payload)' : j <= i
    BY <1>5 DEF LastOf
  <2>2. CASE msg.payload = payload /\ Answer(msg, sync_ok) = "OK"
    BY <1>1, <1>2, <1>3, <2>1, <2>2, SMT
  <2>3. CASE ~(msg.payload = payload /\ Answer(msg, sync_ok) = "OK")
    BY <1>2, <1>3, <2>1, <2>3, SMT DEF LastOf
  <2> QED
    BY <2>2, <2>3
<1>6. CommandsTakeEffect'
  <2>1. result \in Results /\ result' = Effect(msg, sync_ok)
    BY DEF TypeOK, Results, ProcessCommandMessage
  <2>2. /\ result'.ota_requested <=> Obeyed("START_OTA")' # {}
        /\ result'.reboot_requested <=> Obeyed("REBOOT")' # {}
        /\ result'.time_synced <=> Obeyed("SYNC_TIME")' # {}
    BY <1>3, <1>4, <2>1 DEF Effect, Kept, CommandsTakeEffect, Synchronises, TakesOverride
  <2>3. TakesOverride(msg) <=>
          msg.payload = "SLEEP_OVERRIDE" /\ Answer(msg, sync_ok) = "OK"
    BY <1>4 DEF TakesOverride, Synchronises
  <2>4. result'.override_sleep_us = IF TakesOverride(msg) THEN UsPerSecond * msg.value
                                    ELSE result.override_sleep_us
    BY <2>1, EffectIsResult, SMT DEF Effect
  <2>5. Obeyed("SLEEP_OVERRIDE")' = {} => result'.override_sleep_us = 0
    BY <1>3, <2>3, <2>4 DEF Kept, CommandsTakeEffect
  <2>6. ASSUME NEW i \in DOMAIN handled', LastOf("SLEEP_OVERRIDE", i)'
        PROVE  result'.override_sleep_us = UsPerSecond * handled'[i].msg.value
    BY <1>5, <2>3, <2>4, <2>6 DEF Kept, CommandsTakeEffect
  <2> QED
    BY <2>2, <2>5, <2>6 DEF CommandsTakeEffect
<1>7. ClockShowsLastSync'
  <2>1. Synchronises(msg, sync_ok) <=>
          msg.payload = "SYNC_TIME" /\ Answer(msg, sync_ok) = "OK"
    BY <1>4 DEF TakesOverride, Synchronises
  <2>2. /\ clock' = IF Synchronises(msg, sync_ok) THEN msg.value ELSE clock
        /\ result'.time_synced <=> result.time_synced \/ Synchronises(msg, sync_ok)
    BY DEF ProcessCommandMessage, Effect, Synchronises
  <2>3. msg.value # NoTime
    BY AnswerIsAnswer
  <2>4. result'.time_synced <=> clock' # NoTime
    BY <2>2, <2>3 DEF Kept, ClockShowsLastSync
  <2>5. ASSUME NEW i \in DOMAIN handled', LastOf("SYNC_TIME", i)'
        PROVE  clock' = handled'[i].msg.value
    BY <1>5, <2>1, <2>2, <2>5 DEF Kept, ClockShowsLastSync
  <2> QED
    BY <2>4, <2>5 DEF ClockShowsLastSync
<1> QED
  BY <1>6, <1>7 DEF Kept, AnsweredIsObeyed

\* The end of the session does what was answered OK.
LEMMA ConcludeStep ==
  ASSUME TypeOK, Kept, NEW button \in BOOLEAN, NEW end \in Ends, Conclude(button, end)
  PROVE  Kept'
<1>1. CommandsTakeEffect' /\ ClockShowsLastSync'
  BY DEF Conclude, Kept, CommandsTakeEffect, ClockShowsLastSync, Obeyed, LastOf
<1>2. /\ UNCHANGED <<handled, result, clock>>
      /\ outcome'.end = "reboot" <=> result.reboot_requested
      /\ result.ota_requested => outcome'.update_tried \/ outcome'.end = "reboot"
      /\ outcome'.end = "sleep" => outcome'.slept = result.override_sleep_us
      /\ outcome'.synced = IF result.time_synced /\ outcome'.end # "rollback"
                           THEN clock ELSE NoTime
  BY DEF Conclude, Endings, TriesUpdate, Reboots
<1>3. AnsweredIsObeyed'
  BY <1>2 DEF AnsweredIsObeyed, Kept, CommandsTakeEffect, ClockShowsLastSync, Obeyed, LastOf
<1> QED
  BY <1>1, <1>3 DEF Kept

\* Every step keeps what was answered in effect.
LEMMA StepKept == ASSUME TypeOK, Kept, [Next]_vars PROVE Kept'
<1>1. CASE Tick
  BY <1>1, QuietStep DEF Tick
<1>2. ASSUME NEW msg \in Arrivals, Arrive(msg) PROVE Kept'
  BY <1>2, QuietStep DEF Arrive
<1>3. ASSUME NEW timeout_ms \in {0, WindowMs}, Call(timeout_ms) PROVE Kept'
  <2>1. pc' # "over"
    BY <1>3, SMT DEF Call, TypeOK
  <2> QED
    BY <1>3, <2>1, QuietStep DEF Call
<1>4. CASE SleepOver \/ CheckDeadline \/ ReceiveTimeout \/ DrainEnds
  BY <1>4, QuietStep DEF SleepOver, CheckDeadline, ReceiveTimeout, DrainEnds
<1>5. ASSUME NEW sync_ok \in BOOLEAN, Receive(sync_ok) PROVE Kept'
  <2>1. Head(rx_queue) \in Arrivals /\ pc' # "over"
    BY <1>5, SMT DEF Receive, TypeOK
  <2>2. CASE ProcessCommandMessage(Head(rx_queue), sync_ok)
    BY <2>1, <2>2, CommandStep
  <2>3. CASE UNCHANGED <<result, clock, handled>>
    BY <1>5, <2>1, <2>3, QuietStep DEF Receive
  <2> QED
    BY <1>5, <2>2, <2>3 DEF Receive
<1>6. ASSUME NEW button \in BOOLEAN, NEW end \in Ends, Conclude(button, end)
      PROVE  Kept'
  BY <1>6, ConcludeStep
<1>7. CASE UNCHANGED vars
  BY <1>7, QuietStep DEF vars
<1> QED
  BY <1>1, <1>2, <1>3, <1>4, <1>5, <1>6, <1>7 DEF Next, Process

\* At the start nothing is answered and nothing in effect.
LEMMA InitKept == Init => Kept
BY SMT DEF Init, NothingAsked, Kept, CommandsTakeEffect, ClockShowsLastSync,
   AnsweredIsObeyed, Obeyed, LastOf

-----------------------------------------------------------------------------
(* The theorems *)

IInv == TypeOK /\ LateInv /\ Kept

\* The inductive invariant: the types, the end of the window and the three
\* properties of the answers hold in every state.
THEOREM CommandInvariant == Spec => []IInv
<1>1. Init => IInv
  BY InitTyped, InitKept DEF IInv
<1>2. IInv /\ [Next]_vars => IInv'
  BY StepTyped, StepLate, StepKept DEF IInv
<1> QED
  BY <1>1, <1>2, PTL DEF Spec

\* The values of the variables are in their types, for every queue and window.
THEOREM CommandsTypeCorrect == Spec => []TypeOK
BY CommandInvariant, PTL DEF IInv

\* An answer OK is an effect, whatever the messages and their order.
THEOREM AnswersAreEffects == Spec => []CommandsTakeEffect
BY CommandInvariant, PTL DEF IInv, Kept

\* A synchronisation is reported exactly when the clock was set by it.
THEOREM ClockIsLastSync == Spec => []ClockShowsLastSync
BY CommandInvariant, PTL DEF IInv, Kept

\* What was answered OK is done before the node sleeps or restarts, unless one of
\* the named things came before it: a reboot, an update, a rollback, or a wake-up
\* that could not be set up.
THEOREM AnsweredIsDone == Spec => []AnsweredIsObeyed
BY CommandInvariant, PTL DEF IInv, Kept

\* However long the window and however busy the hub, one message at most is late.
THEOREM OneLateMessage == Spec => []AtMostOneLate
<1>1. IInv => AtMostOneLate
  BY SMT DEF IInv, LateInv, AtMostOneLate
<1> QED
  BY <1>1, CommandInvariant, PTL
=============================================================================
