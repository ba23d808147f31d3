# A formal model of the smart farm water tank node

This directory models the firmware of the water tank node (`src/main`) in TLA+.
TLC checks the models on small instances; TLAPS proves the main results for
every value of the constants. Line numbers refer to the files of this commit.

The node is a battery powered ESP32. It wakes up, measures the level of the
tank with an ultrasonic sensor, reports to a hub over ESP-NOW, listens 200 ms for
commands, saves what it must remember and goes to deep sleep, for
15 s to 15 min. Most of it is a sequence on one task; what is hard is what it
carries from one session to the next, what may fail on the way, and the three
other actors that interfere: the button task, the receive task of the radio,
and the task that downloads a new firmware.

## 1. Inventory

### WaterTankLogic (`water_tank_logic.cpp`)
*State*, kept over deep sleep in `WaterTankStats`: the last level, the trend
(`fill_state`), the trend waiting for confirmation with its count, the backup
mode with its failure counter. *Operations*: `process_reading`,
`update_operation_mode`, `calculate_sleep_time_us`. *Called by* `run`, once per
session. *Hard*: the confirmation window under every order of samples, the
hysteresis of the backup mode with readings that count neither way, level 0
standing for "no level". *Correct when*: the window holds exactly what the last
samples showed; the trend changes only on confirmed runs; the mode agrees with
the counter and does not flap.

### Persistence (`water_tank_app.cpp` 435-461, 675-708, `main.cpp` 119-128)
*State*: `core_` and `stats_` in RAM, a copy of each in RTC memory (survives deep
sleep), a copy of each in NVS flash (survives everything), two pending flags and
the counter `cycles_since_nvs_commit`. *Operations*: load at init, count the
session, record, `save_persistent_state`. *Hard*: a reset at any moment, saves
that fail before or after RTC memory is written, a counter reset before its
commit is known to succeed. *Correct when*: a loss of power costs a bounded
number of measurements and no event of core data that a save was able to write.

### WaterTankApp (`water_tank_app.cpp`, `main.cpp`)
*State*: where the session is, its health, `ota_triggered_` (atomic, set by the
button task), rail, radio, armed trigger, wake-up sources, the boot image
and its probation. *Operations*: `init`, `run`, `process_pending_ota`,
`check_firmware_healthy`, `save_persistent_state`, `enter_deep_sleep`, the safe
sleep of `app_main`. *Uses* every other component. *Hard*: any step may fail,
the button may be pressed between any two steps, three ways out (sleep, reboot,
update) share one save, an image on probation is rolled back by any reset.
*Correct when*: it always wakes up again, loses no data it was able to save, serves a
press, sleeps with radio and sensor off and confirms only healthy images; of the
last two the code does part only (section 3).

### TankCommandHandler (`tank_command_handler.cpp`)
*State*: the receive queue (filled by the radio's receive task), the result of
one call. *Operations*: `process` with a listening window or as a drain;
`process_command_message` for each kind of command; an answer to the hub.
*Hard*: messages arriving while the window closes, a queue that overflows or
was never created, several commands folding into one result. *Correct when*:
what is answered OK is what takes effect, the clock shows the last accepted
synchronisation, and a hub that keeps sending cannot keep the node awake.

### OtaController (`ota_controller.cpp`)
*State*: one download in progress. *Operations*: `execute_download` (start, poll
the updater's task under a watchdog, cancel), `confirm_firmware`; `init`,
`get_running_version` and `rollback_and_reboot` delegate. *Hard*: the updater
finishing while the watchdog expires. *Correct when*: what is reported is what
happened to the image, and the call returns even if the updater hangs.

### TankGeometry (`tank_geometry.cpp`)
*State*: none; a table of six entries. *Operations*: `calculate_permille`, from a
distance to the volume in permille, by interpolation with clamps and one rounding.
*Called by* `process_reading`. *Hard*: the ends of the segments, the clamps, the
rounding, and what a threshold in permille means in millimetres. *Correct when*:
the level is the volume of the stacked cylinders, falls with the distance, and
`LEVEL_DELTA_MIN` tells noise from water.

### Communication (`water_tank_app.cpp` 230-251, 351-361, 461-517, 562-570, 646-673, 710-757)
*State*: the node state of EspNowManager, which its own tasks change, the attempt
and the deadline of a recovery. *Operations*: `process_node_state`,
`wait_for_pairing`, `send_report` and its retry, `ensure_communication_ready`,
`send_ota_report`. *Hard*: the node state is looked at, and used later; a scan may
be running when the recovery begins; a packet given up starts another; up to four
recoveries in a session. *Correct when*: the session stays awake a bounded time,
the hub is given up only after it was searched for, and a hub that is there gets
its report.

### Components not modelled
- *Contents of reports* (`create_report`, the battery values): data that is passed
  on; no decision of the node depends on it.
- *Status LED*: patterns of a library; nothing else depends on them.
- *udp_logger*: debug output, never started in this build (`IS_LOGGING`, main.cpp:44).
- *Hardware adapters*, `src/logger`: delegation to drivers, a host-side script.
- The hub and its retries are not in the repository, nor are the libraries
  (ESP-IDF, EspNowManager, OtaManager, AppStorage, NvsCore, the ultrasonic
  driver); what the node relies on is part of the modules, each such definition
  marked external in PROJECT.json. Repeated commands are among the arrivals of
  `TankCommandHandler`; nothing in `src/` recognises a repetition.

### Interactions
`app_main` builds everything and calls `init`, then `run`. `run` calls
WaterTankLogic (and it TankGeometry) with a reading, TankCommandHandler with a window, OtaController
through `process_pending_ota` and `check_firmware_healthy`, and the stores
through `save_persistent_state`. The button task calls `on_ota_triggered`; the
receive task fills the queue; the updater's task changes the status that
`execute_download` polls. Nothing else is shared.

## 2. Modules

| module | models | how |
| :-- | :-- | :-- |
| `WaterTankLogic` | WaterTankLogic | `Measure(result, level)` is one session's `process_reading` and `update_operation_mode`; variables are the fields of `WaterTankStats` |
| `WaterTankLogicHistory` | - | the same with history: the run of equal directions, the readings against the mode |
| `FillTrend` | what the window promises | the trend follows the last `Confirmations` samples; no window, no counter |
| `NodeStorage` | Persistence | the three copies of core and tank data and each operation on them; no control |
| `StorageCycle` | life of the persistent state | sessions that load, measure, record, save, sleep or are reset; composes the operations of `NodeStorage`; the abstract specification of `WaterTankApp` |
| `WaterTankApp` | WaterTankApp, `app_main` | extends `NodeStorage`; `pc` is the place in `init`/`run`, one action per step with all it changes; the outcome of every driver call is chosen freely, of those whose result is dropped too (`ShutDown`) |
| `TankGeometry` | TankGeometry | the table and its operators in whole millimetres; `VolumeLeft` is the reference: what each stacked cylinder has lost |
| `FillingTank` | `run`, WaterTankLogic and TankGeometry together | extends both; each `WakeUp` is the sleep the last one chose (`SleepTime`), the water moving meanwhile, and a reading that may fail, be weak or be a spike |
| `Communication` | Communication | one session on the radio; `MainTask` is the session step by step, a delay and the look after it being two steps; the other actors are EspNowManager (`TxAnswered`, `TxGivesUp`, and `Wait` for what it does during a delay) and the hub (`HubMoves`) |
| `TankCommandHandler` | TankCommandHandler | one call of `process`, and `Conclude`, what `run` makes of its result whichever of the `Endings` the session comes to, the rollback of a rejected image among them; actors: the call, the receive task (`Arrive`), time (`Tick`) |
| `OtaController` | OtaController | one download or one verdict; actors: the poller (`Polling`), the updater (`Updater`) |
| `MC*` | - | values of the constants for TLC |
| `*Proofs` | - | inductive invariants, lemmas, theorems |

Definitions marked `Mutant:` are variants of the definition that follows them,
each a plausible mistake in that code. They are used by no specification; each
one, put in the place of the original, makes one property fail.

Data is abstracted to what the properties tell apart. A level is the permille
value TankGeometry returns. A copy of tank data is its session counter and the
number of measurements flash lacks (`ahead`); a copy of core data is its firmware
version and whether it holds a time synchronisation flash lacks (`unsaved`).
Times of sleeps are whole seconds. A session's result of the listening window is
three flags; `TankCommandHandler` says where they come from. `WaterTankApp`
chooses the outcome of a download freely; `OtaController` says which outcomes
there are, the late one (an image selected behind a reported failure) included.
Whether WiFi is up decides nothing in `WaterTankApp`, and the results of its
disconnect and stop are dropped everywhere: only the results of starting it and of
connecting for an update are kept. `disarm` of the button has no result that could
fail. A rail whose `turn_on` failed is taken to be off. The image on probation may
be rejected although the session is healthy (the partition cannot be marked).
`WaterTankApp` passes over its talks with the radio (steps that change nothing it
keeps); `Communication` passes over sensors and storage, and follows the same
session: start, report, window, update, verdict, end. In `TankGeometry` distances
are whole millimetres and fractions exact, where the code has float; the driver's
own resolution is coarser than the difference.

## 3. Runs

| run | module | question | states |
| :-- | :-- | :-- | --: |
| `logic` | MCWaterTankLogic | the window, the trend and the mode under any readings | 4,189 |
| `storage` | MCStorageCycle | what a loss of power can cost | 188,466 |
| `app` | MCWaterTankApp | every path of `init` and `run` with any step failing, and that it implements `StorageCycle` | 1,335,138 |
| `app_live` | MCWaterTankApp | the node always comes back | 109,568 |
| `commands` | MCTankCommandHandler | answers, effects, the end of the window and of the session | 724,695 |
| `download` | MCOtaController | reports, late answers, the watchdog | 126 |
| `filling` | MCFillingTank | what level, threshold and trend are worth against the water | 147,514 |
| `communication` | MCCommunication | how long a session waits, when it gives up, who hears of it | 1,079,952 |

**Bounds and why they are enough.** *logic*: threshold 5, window 2 and delta 5
are the code's; the levels 0, 100, 104, 105, 110 give every direction, changes of
exactly 4, 5 and 6 permille, and the special level 0. *storage*: interval 4
instead of 10 still has sessions before, at and after the threshold; two failed
flash writes in a row show what each costs; two firmware versions give a change
of version (`MaxCommitFailures` bounds the failures, nothing else grows).
*app*: interval 2, one failed flash write, two versions: one update, its
probation, confirmation and roll-back; every outcome of every driver, in any number
of sessions. A save succeeds or fails in flash; one that fails before RTC memory is
written (`not_saved`) is left to the run `storage`, which has the same operations,
and to the proofs, which take any set of outcomes. *app_live*: saves that fail
change no control, so all succeed there and in the runs of the disagreements. *commands*: a queue of 2 and 3 messages: one more than fits, all
kinds, complete or too short; a window of 2 ms: before, at and after the deadline.
*filling*: two stretches of the tank: the full-water line with the first 60 mm, and
the bottom with the last 60 mm, where the bend of the table and level 0 are;
water that moves 8 mm a minute (docs/ISSUE_fill_state_detection.md reports 10.6),
spikes of 74 mm, seen in the field, and of 6 mm, just above `LEVEL_DELTA_MIN`; a
threshold of 3 instead of 5 failures reaches the backup mode sooner, and the night
only lengthens sleeps (`Readings`, `Nights`, `Stretches` are these bounds).
*communication*: short delays with a scan that just fits a pass of five polls (the
code's has many more) and three attempts as in the code, so that a scan may end before,
between and with the polls; the hub comes or goes once, at any moment; a packet may
be given up at any moment too, between a delay and its look included, any number of
times (`given_up` counts up to `Attempts`, all the properties ask). `awake` counts the
waits for the radio, not the sensor's warm-up and readings or a download, and stops one
past `Longest`, the bound it is checked against.
*download*: a watchdog of six polls; the updater moves before, between and after.

**Fairness.** Only `app_live`, `download` and `communication` need it. `WF(MainTask)`: every wait of
`init` and `run` has a timeout, so the main task goes on. `WF(WakeUp)`: a wake-up
source that was configured fires in the end, which for the pin alone means that
the float switch moves some day. `AlwaysComesBack` excepts a safe sleep whose timer
could not be set, see below. `WF(Polling)`: the delay of the polling loop ends; nothing
is assumed of the updater. `WF(MainTask)` in `communication`: every delay there has an end; nothing
is assumed of the radio's tasks or the hub. `download` and `commands` model one call
and `communication` one session, so they stop
(`CHECK_DEADLOCK FALSE`); the other runs check deadlock.

**Where the code and its documentation disagree.** Four runs check one such
sentence each and TLC refutes it:
- `confirms_transition`: a last level of 0 permille is taken for "no level yet",
  so the sample after an empty tank sets STABLE at once. What does hold is
  `FillTrend`, whose `Restart` says exactly this.
- `reboot_commits`: DESIGN.md lists the reboot command among the events that force
  a flash commit; the code saves without a pending flag.
- `healthy_image`: a reboot command in the first session of a new image restarts
  before the firmware check, and the boot loader gives a healthy image up.
- `unreachable_image`: ESP-NOW that does not come up again after a failed update leaves
  the session healthy, and an image on probation is confirmed by it; DESIGN.md:142
  rejects an image if any init fails. What does hold is `ConfirmedOnlyInitialised`,
  of the failures in `init` and of the rail.

The models also show the following, which no run of its own refutes:
- `enter_deep_sleep` restarts "to prevent permanent sleep" (water_tank_app.cpp:427)
  rather than sleep without a wake-up source; the safe sleep of `app_main` does not look
  at the result of its timer. `AlwaysComesBack` has to except that sleep.
- The rollback of a rejected image restarts before the save, so a synchronisation
  answered OK is lost, which DESIGN.md:112 lists among the events that force a commit.
  `AnsweredIsObeyed` names this and the other ways out that come before an answered command.
- DESIGN.md:120 promises 0 uA during sleep; the result of `turn_off` is dropped and the
  rail not looked at again (`MeasureLevel`).
- CHANGELOG.md:101 has ESP-NOW deinitialised before deep sleep; the safe sleep of
  `app_main` does not do it (`SafeSleep`), and nobody asks whether `deinit` worked.
- DESIGN.md:126 lists a fallback backoff interval for the error state (and a critical
  battery, which the code does not ask for); a failed reading sets the shortest sleep of
  all, 15 s, until five failures bring the backup mode (`SleepTime`). That is what
  water_tank_types.hpp:35 says of `INVALID_SLEEP_FACTOR`.

Seen while reading and checked by no run: the comments at water_tank_logic.cpp:42-43
speak of consecutive readings, where the counter is a leaky integrator that a weak
reading leaves alone (what does hold is `ModeFollowsFailures` and
`TwoReadingsPerModeChange`); tank_geometry.hpp:103 gives a sensor offset of 29.5 cm,
water_tank_types.hpp one of 25.6 cm. A flow counts in `TrendFollowsWater` only over
intervals of a minute: in the 15 s sleeps of a blind node a tank fills by less than
`LEVEL_DELTA_MIN`, so it is seen as STABLE however long it fills; and a spike
that is read as level 0 ends what it claims like any other reading of level 0, until the
flow has shown again. README.md:101 describes the LED pattern `OTA_UPDATING` for any
download, which the code sets only for the button.

## 4. Proofs

TLAPS proves, from the named assumptions on the constants alone (sets of numbers,
a window of at least two samples, a threshold of at least two, a positive
interval, positive delays, a pass longer than a scan and a poll, a "no time" that is not a
number, the factory image among the firmware versions, 0 to 1000 among the levels). Where
a theorem says so, it also takes the code's `LevelDeltaMin = 5` and `Confirmations = 2`, and
water that moves 8 mm a minute or faster.

- `WaterTankLogicProofs`. Inductive invariant `HInv`: the four invariants of the run,
  types, and `ModeMatchesReadings`, without which "does not flap" cannot be proved:
  it ties the counter to the readings seen since the last change of mode. From it:
  type correctness, `WindowConsistent`, `WindowMatchesSamples`, `ModeFollowsFailures`,
  the action property `TwoReadingsPerModeChange`, and the refinement of `FillTrend`
  (`TrendRefinement`: `WindowMatchesSamples` tells which step of the window is which
  step of the abstract trend).
- `StorageCycleProofs`. Inductive invariant `IInv` = `TypeOK` /\ `TankInv` /\ `CoreInv`.
  The bound on the loss is not inductive: it rests on the session counter and the
  missing measurements moving together, stage by stage of a session (`TankInv`),
  with one interval of allowance per failed write; durability of core data rests
  on a pending flag covering every difference between RAM and flash (`CoreInv`).
  Both need `sound`: a session that could not load its data must not measure, which
  is what `init` ensures with `session_healthy_`.
- `OtaControllerProofs`. Inductive invariant `IInv`: what was seen is still so unless
  the updater moved since; a verdict on a running updater is given at the watchdog
  only. From it all four invariants of the run `download`.

- `TankGeometryProofs`. For every distance, not only those TLC visits: `LevelFollows`
  (within half a permille of the volume), `LevelFalls` (monotone, within 0 to 1000) and
  `LevelMoves` (what a move of the surface does to the level). They rest on
  `VolumeFormula`, which gives the volume piece by piece, and `VolumeSlope`, which
  bounds its slope over any number of segments.
- `FillingTankProofs`. `DepthInvariant` (the surface stays in its stretch) carries
  these over to the system: `LevelIsVolume` and, with the code's threshold,
  `DeltaMeansMillimetres`, for any flow, stretch and spikes. `FInvariant` adds the types
  (`FTypeCorrect`) and the consistent window. `TrendIsFlow` is `TrendFollowsWater` for any
  part of the tank, spikes of any size and any failure threshold. It is not inductive: the
  trend rests on three readings, and the state has only what they left. `TrendInv` says what
  that is: the level kept is that of the surface after a clean reading (`LevelKnown`); two
  clean readings around an interval leave its flow as the trend or as what is pending
  (`FlowShown`); a settled trend has nothing pending beside it (`TrendSettled`); right after a
  spike, what is pending is the direction of the spike (`SpikeRemembered`). `MoveShows` makes
  8 mm a direction, and `SpikeReturns` is why a spike does no harm: on the way to it and back
  the same wrong direction cannot be seen twice, since the level moves by 10 permille through
  the two intervals, more than two changes below `LEVEL_DELTA_MIN` make up.

- `WaterTankAppProofs`. For any set of firmware versions with the factory image, any commit
  interval and any outcomes of the saves, in three layers:
  - `ControlInv` is inductive by itself (`ControlInvariant`): what the main task has decided
    and where that lets it be (`GoalInv`); a failure is not forgotten before the verdict, and
    nothing but a healthy session measures (`HealthInv`); a press in time is not passed over (`PressInv`); an image on probation has one to go back to
    (`ImageInv`). From it `AppTypeCorrect`, `PressIsServed`, and, with
    `OnlyTheVerdictConfirms`, the action property `OnlyInitialisedIsConfirmed`.
  - `StorageRefinement`: under `ControlInv` every step is a step of `StorageCycle`
    (`InitCycles`, `RunCycles`, `OtaCycles`, `LeaveCycles`, one case per action), mostly one
    that leaves the data alone (`SilentStep`). The instance `Data` of `StorageCycleProofs` then
    makes its theorems facts of the node: `NodeLossIsBounded`, `NodeEventsAreDurable`.
  - `SavedInv` follows a save to the sleep or restart it was made for. With the invariant of
    `StorageCycle` it gives `NothingIsLost`: what a reboot leaves in flash is not seen from
    the control alone, it needs `CoreEventsAreDurable`.

- `CommunicationProofs`. For the delays of the code as for those of the run. Inductive
  invariant `IInv`: `BudgetInv` says at each place what is left of the time a session
  may take (`Before`: what calls of each caller find used up; `SoFar`: what the attempts
  before the one at hand took); `PlaceInv` ties the place to the caller and the
  attempts, and says that a radio yet to be paired has sent nothing; `SearchInv` is what
  the call knows of the radio while no mishap happens: a pass outlasts the scan it began
  with (`PassAssumption`: a pass is a scan and at least one poll longer, line 25), unless a
  packet given up in it began the scan anew. `Searched(n)` counts: n attempts had a scan of
  their own or such a packet, and with the hub in reach each of them had the packet,
  for without it the scan would have found the hub. From it the four invariants of the
  run `communication`.

- `TankCommandHandlerProofs`. For every queue, window and set of messages. Inductive
  invariant `IInv` = `TypeOK` /\ `LateInv` /\ `Kept`. `AtMostOneLate` is not inductive:
  `LateInv` adds that a late message has put the call back at the head of its loop, or
  behind it, with the deadline passed. `Kept` is the conjunction of `CommandsTakeEffect`,
  `ClockShowsLastSync` and `AnsweredIsObeyed`, of which the third follows at the end of
  the session from the first two, for each of the `Endings`; `ObeyedGrows` says how the commands answered OK grow
  by one, and `AnswerIsAnswer` that the answer is OK exactly if there is an effect.

Every invariant and action property of the passing runs is so proved, and both
refinements. Before its proof each strengthened invariant was checked by TLC on the
instance of its run.

Out of the prover's reach and left to TLC: liveness (`AlwaysComesBack`,
`DownloadReturns`, `SessionEnds`), ENABLED, induction over data, RECURSIVE operators.

## 5. Plan

In this order; done items are in the sections above.

1. (done) `WaterTankLogic`, `FillTrend`, the run `logic`, `WaterTankLogicProofs`.
2. (done) `NodeStorage`, `StorageCycle`, the run `storage`, `StorageCycleProofs`.
3. (done) `WaterTankApp` over `NodeStorage`, implementing `StorageCycle`; runs `app`, `app_live`.
4. (done) `TankCommandHandler` and `OtaController` with their runs; `OtaControllerProofs`.
5. (done) `TankGeometry` and its composition with the logic, `FillingTank`; the run
   `filling`, `TankGeometryProofs`, `FillingTankProofs`.
6. (done) `Communication`, the run `communication`.
7. (done) `Conclude` in `TankCommandHandler`: an answer followed to the end of the session.
8. (done) `CommunicationProofs`.
9. (done) `TankCommandHandlerProofs`.
10. (done) `TrendFollowsWater`, proved in `FillingTankProofs`.
11. (done) `WaterTankAppProofs`, with the refinement of `StorageCycle` step by step.
12. Left: what `TankCommandHandler` answers composed with what `WaterTankApp` does with it,
   as a refinement (`Conclude` states it, the two modules share no state).

New questions should join an existing run where the state space allows it, so that
the list of runs stays one per question.
