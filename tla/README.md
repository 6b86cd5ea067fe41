# acionna0: a verification project

`acionna0` is the firmware of an ESP32 in a pump house. It drives three
contactors of an induction motor (K1 mains, K2 delta, K3 star), up to eleven
irrigation valves behind an I2C port expander, watches two pipe pressure
sensors and a thermal relay, and takes text commands over a web socket. The
modules here model the part that decides when the motor and the valves are
driven, TLC checks them on small instances, and TLAPS proves the main results
for every value of the constants.

Source references are relative to `src/`. `pump.hpp`, `acionna.cpp`,
`acionna.hpp`, `valves.hpp`, `pipepvc.hpp` and `helper.hpp` are in
`main/acionna/`.

## 1. Inventory

| Part | Source | State it keeps | Operations |
|---|---|---|---|
| Pump controller | `pump.hpp` | outputs, samples of contactors and relay, motor state, run timer, star/delta request and its timer | `start`, `stop`, `update`, `check_start_req_`, configuration |
| Main loop and modes | `main/setup.cpp`, `acionna.cpp` | operation mode, enabled checks, programmed times | one pass a second: `update_objects`, `operation_pump_stop_check`, `operation_mode` |
| Irrigation valves | `valves.hpp` | current and previous sector, countdowns, programme, direction, log | `start`, `stop`, `update`, `find_next`, programming |
| Port expander driver | `components/modules/pcy8575` | copy of the output word | `put`, `get`, `write`, `read`, `reset` |
| Optimized scheduler | `acionna.cpp:1890`, `acionna.hpp:188` | start, next and red time, position in the list of events | match, set next time, red time |
| Air intake detector | `pipepvc.hpp` | detector state, counters, smoothed pressure | `air_intake_detect` |
| Command interpreter | `acionna.cpp:160-1740` | none of its own | `$NN:...` commands |
| Command mailbox | `components/connections/httpd_ssl_setup.cpp`, `acionna.cpp:1746` | buffer, length, flag, socket to answer | the web server's handler, `run` |
| Clock | `components/clock`, `setup.cpp:446`, `acionna.cpp:2435` | offset to the chip's timer, tick flag, second of the day | tick, `update_clock`, set (`$10:h`, `$10:d`, `$10:n`) |
| Firmware update | `components/ota/native_ota.cpp`, `acionna.cpp:2260` | update state, block buffer, partition to start | `ota_task`, its report, restart |
| WiFi, web server, sockets, NTP | `components/connections`, `components/protocols` | connection | event handlers |
| Well level, Bluetooth | `well.cpp`, `components` | - | compiled out |
| Drivers, sensors, displays, mathematics, storage | `components` | registers, conversions | pure I/O |

How they interact. One task, `machine_run`, runs the pump, the modes, the
valves, the scheduler, the detector and the interpreter, so there are no races
between those. Concurrency comes from four other places:

- **The hardware.** The contactors move, stick and drop out, and the relay
  trips, while `start()` polls and sleeps; transfers to the expander fail.
- **The users.** A command may arrive between any two seconds, in any order.
- **Stale samples.** `start()` decides from what the last
  `update_switches_()` saw; the operation mode decides from the motor state of
  the last `update()`; the driver writes the expander from its own copy.
- **The other tasks** (web server, firmware update, the one-second task), which
  share flags and buffers with the loop, or with each other, without a lock.

What makes each part correct, and what is hard about it:

| Part | Correct means | Hard because |
|---|---|---|
| Pump | K2 and K3 never together; a star is always resolved; a stop cancels what was requested | a start takes several steps in which the contactors move; retries within a second; stale samples |
| Loop and modes | every reason to stop takes effect; every run ends; a programmed run keeps its time | the motor state hides the contactors while an overload is reported; `start()` may only leave a request |
| Valves | the current valve is open, no other is left open, a cycle ends | the delayed close overlaps the next switch; users change programme, direction and time during a cycle |
| Expander | nothing is open that the controller believes closed | it restarts on its own; a lost write is not reported; reading overwrites the copy |
| Pump with valves | the pump never works against closed valves and stops before they do; both end | two timers that count differently; each side follows the other's state of a second ago; a restarted expander shuts every valve |
| Scheduler | cycles follow each other after the delay until the red time | times of day, midnight, a next time left from earlier, a list or clock changed under way, an overload that hides the motor |
| Detector | a dry run is stopped, a normal start-up is not | warm-up, an integer mean, two callers switched on and off under way |
| Mailbox | a command is run whole, once, and answered to whoever sent it | two tasks in one buffer without a lock |
| Clock | no second lost or counted twice but those the loop or the one-second task misses; the date moves on | two counters, a task that sleeps relative to when it ran, a flag of one bit, conversions by integer division |
| Update | there is always an image to start, and a finished update is the one that starts | failures and power loss at any step; a second request while one runs |

`PROJECT.json` lists the components, with what is not modelled, and the hazards
at their lines.

## 2. Modules

```
Pump  <--  Supervisor  <--  MCSupervisor       PumpProofs, SupervisorProofs
Pump  --implements-->  Motor
Valves  <--  Irrigation                        IrrigationProofs
Optimized  <--  MCOptimized                    OptimizedProofs
AirIntake                                      AirIntakeProofs
Mailbox  --implements-->  Exchange             MailboxProofs
Ota                                            OtaProofs
Clock  <--  MCClock                            ClockProofs
```

(`<--`: is extended by; on the right, the proofs about the modules of the line.)

**Pump** models class `Pump`. Outputs are the set `pin`, contactors the set
`closed`, so "K2 and K3 together" is `{2, 3} \subseteq closed`. `k`, `k_pin`
and `rth` are what the last `update_switches_()` saw. A `start()` is a
sequence of steps, because it waits in between:

| `pc` | where the task is |
|---|---|
| `idle` | outside `Pump` |
| `wait_on` | a direct start polls its contactor |
| `wait_off` | `to_delta` or `to_y` polls the other contactor |
| `gap` | the sleep of `time_switch_k_change` that follows |
| `drive` | the test of the other contactor and the outputs |
| `settle` | the last wait of `start()` |
| `check_y`, `check_delta` | the two halves of `check_start_req_` |

`caller` says whether a command or one of those halves made the call.
`stop()` only lowers outputs, so it is one step (`Stop`), with every set of
contactors that may be left closed when it gives up. `Contactor`, `Fail` and
`Relay` are the hardware: a contactor follows its output, seizes or drops out
for good; the relay changes at any time. With `Prompt`, every sound contactor
moves within `time_switch_k_change`; without it contactors may be arbitrarily
slow. **Motor** is the abstract specification: what is driven and what is left of
a star/delta request. A star is driven for a request only and once for each, it
is broken before the delta is driven, and the request is over only with the delta
driven or everything off. The refinement mapping takes `pin` for `drive`, and
`y_state` for `wish` as long as the request stands.

**Supervisor** extends `Pump` with the second of `machine_run`. `phase` tells
which part of it is next: `run` (commands are executed), `update`
(`operation_pump_stop_check`), `operation` (`operation_mode`), `set_timer`,
`tail` and `sectors` (what the modes still do). Its actions call Pump's. The
match of a programmed time, the pressure, the detector and the red time are
inputs. `asked` and `hot` are history variables for two properties.
`TimerCommand` groups `$02`, `$03:m` and `$70:kt`.

**Valves** models class `Valves` and the output register of the expander. The
copy `output_` and the real ports are two variables; `bus` tells whether
transfers succeed. Two history variables say why the ports may differ from the
copy: `lost`, a transfer has failed since the last that succeeded, and
`restarted`, the expander has lost its outputs since the last word it got.
`Count`, `Switch` and `EndCycle` are the three ways through `update()`; the
rest is one action per command. `Minute` is 60: a sector programmed in seconds
(by the rain wanted) runs whole minutes only. An id below zero wraps to `MaxId`
(255 in the code), and what `find_next()` reads outside its array, at either end,
is any value. `LogWidth` is 2^16, at which the seconds in the log wrap.

**Irrigation** composes `Valves` with the pump in mode `$62`. The motor is a
record with what this mode sees of it (contactors off, star or delta, the state
of the last sample, request, star time, run timer); a second is `Second`
(`update_objects` and the stop checks) and then `Mode` (`operation_pump_valves`
and the match). The relay is a reading of the second (`rth`), and `trip` says
that it counts: its check is off until `$70:rt`. With `Careful`, users ask for
programmes longer than the margin of ten seconds and change them only at rest;
the runs that drop it are in the table of disagreements.

**Optimized** models mode `$63`. A second is four steps: `Second` (what stops
the motor, the clock, the sample of the pump), `Match`, `Config` (the next
time), `Red`. Of the pump there are its contactors (`driven`), the state that
`pump1_.update()` shows (`motor`: with the relay tripped every other sample is
`"overload"`, whatever the contactors do), and a star/delta request not yet
carried out (`star`). The checks that stop the motor run after the sample of the
second, and `stop()` leaves the state shown as it is; their effect is taken
together with the next sample, which is when this mode first sees it. `Configure`, `Programme`, `SwitchMode` and `SetClock` (`$10:h`) change
times, list, mode and clock between seconds, at any point of the night. Three
variables are history: `night` (from the start time to the red time; `"missed"`
once the next time came in a second showing the overload), `course` (how far a
night has come: begun, a next time planned, over) and `resting`.

**AirIntake** models `air_intake_detect` on pipe 1 with its two callers.
`Call` is one call of the detector; `Check` makes the calls that the flags `low`
and `enabled` allow and acts on the answer; `Command` is `$70:pl`, `$70:l1` and
`$70:l4`, the last two of which disable each other. `ran`, `fell` and `spoiled`
are history: how long the run has been checked, whether the pressure has fallen
in it, and whether the detector has followed the motor since it was last at rest
(it has not if its check was `"switched"` meanwhile, or if the motor stopped and
was started again, `"restarted"`, between two seconds).

**Mailbox** models the buffer between the web server's task and the loop. The
text is two halves and the length, each written and read by a step of its own,
so every interleaving of the two copies happens. What parses to no whole
command leaves the previous one; a buffer mixed of several frames gives that, a
command of parts, or one of theirs that is still whole (`Parsed`). A frame whose
command lies beyond its length modulo 256, which is what the handler stores,
holds none. **Exchange** is the abstract
specification: a command that is asked is run, then answered, one at a time.
The refinement mapping takes `asked` for "anything of it is still under way",
and hides everything once a client has broken the rules (`disturbed`: it did not
wait, does not hold the socket, or sent something that is no command).

**Ota** models `ota_task`, one task for each `$95:9` (nothing prevents two),
block by block through its static buffer, with a failure possible at each step
(`Fail`), power loss between any two (`Restart`), the report by the main loop
and `$95:3`. `mixed` is history: an update was asked for while another was
under way or waiting for its restart.

**Clock** models the calendar (`ToDays`, `FromDays`: the integer arithmetic of
`Date_Time`) and the second of the day, with the one-second task and the loop
as separate steps (`Isr`, `Begin`, `UpdateClock`, `Finish`), and the commands
that set either. `due` counts the seconds of the chip's timer since the
one-second task last ran: its delay is relative and it shares its priority with
the busy loop, so it may find more than one. `ledger` is history: seconds lost
by the task and by the flag, seconds that were on their
way when the time was set, and whether the counter has been set from the
calendar since the date was.

The MC modules only define constant values (programmed starts, events, dates).
Operators that a comment marks "mutant" are deliberate mistakes; no
specification uses them. Each shows that some property depends on the
definition it follows.

## 3. What the runs check

Passing runs:

| Run | Question | Bounds and why they are enough |
|---|---|---|
| `pump_auto` | Are K2 and K3 ever driven or closed together by K1, delta and star/delta starts? Is the delta driven only with the star broken? Does a stop between star and delta cancel the delta? (`TypeOK`, `PinInterlock`, `ContactorInterlock`, `DeltaBreaksStar`, `StopCancelsDelta`) | Contactors arbitrarily slow, one failing. One failure is what a step of the code can be confused by at a time; the theorems of section 5 have no bound. Timers only distinguish zero from counting, so 1 is enough. |
| `sup_all` | The whole controller: is an overload acted on within two seconds, is a star ever left without its request, does a direct programmed start keep its time, is Pump's specification implemented, do the outputs follow the protocol of `Motor`, does every run end and every star/delta request get resolved? (`SupTypeOK`, `TripStopsRun`, `StarSupervised`, `MatchTimeUsed`, `ImplementsPump`, `ImplementsMotor`, `RunEnds`, `StarDeltaResolves`) | Three modes; default time 3, programmed time 1, 3 or none, so that a timer of the default or of an earlier programme shows. A relay that may toggle for ever, one failing contactor. `system_ready` runs the same match as the irrigation mode. |
| `valves_cycle` | Is the current valve open on the expander, unless a write was lost or the expander restarted, and no other left open? Does a lost write stay unseen? (`NoValveLeftOpen`, `CurrentOpen`, `NoUnknownOpen`) | Three sectors: one closing, one open, one next. Sectors of 2 or 3 seconds, a delay of 0 or 2: the delay equal to a sector and shorter. The expander restarts and the bus fails at any time. |
| `valves_all` | With every call: does the log follow the sector, does a cycle end? (`TypeOK`, `LogMatchesSector`, `CycleEnds`) | Two sectors, durations 0 and 2, a log whose seconds wrap at 2, delays 0 and 1, five ids so that the wrap passes over ids that do not exist, an expander that restarts. |
| `irr_all` | Is the valve of the sector open before a pump in delta, unless a write was lost or the expander restarted? Is that made good in a second when the refresh (`$70:vc`) is on? Does the pump stop before the valves, do they follow it, does every irrigation end? (`Watered`, `PumpStopsFirst`, `ValvesFollow`, `HealedInASecond`, `IrrigationEnds`) | Two sectors of 2 or 3 seconds, a margin of 3 (total 4 to 6, and programmes below the margin), the seconds in the log left to `valves_all`, alarms and stops at any second, a bus that fails, an expander that restarts. |
| `opt_day` | Is the next start always near unless an overload hid its time, is the planned delay kept, does the motor stay off from the red time that ends a planned night to the next start time? (`NextIsNear`, `RedEndsNight`, `PlannedDelayKept`) | A day of 12 seconds, so every phase of day and night is met and nights follow each other; two start and two red times on the same day, lists of several events (one without cycles), one and none, the list, the mode and the clock changed at any second; direct starts that succeed or fail, a contactor that drops out, a relay that trips in any second. |
| `air` | Is a run stopped before the warm-up is over? If the pressure has only risen and stays below the reference, is the motor stopped? (`WarmupRespected`, `DryRunStops`) | Readings on both sides of the reference and of 70 %, in any order; warm-up and count of 2 instead of 5 and 10; the three flags switched and the motor restarted between any two seconds. |
| `mailbox_all` | With two clients and every interleaving of the two tasks: is the last frame run whole, and does a client that waits get its command run once, and its answer? (`TypeOK`, `LastFrameRuns`, `ImplementsExchange`, `AnswerComes`) | Two clients and two commands: one exchange and one that disturbs it. |
| `ota_all` | Is there always an image to start, is it the one reported, is the end of an update told? (`AlwaysBootable`, `BootIsWhole`, `FinishIsTrue`, `FinishTold`) | Two tasks, two versions, images of two blocks: one written, one missing. |
| `clock_all` | Does the counter that starts the motor differ from the calendar only by the seconds lost and on their way? Does the date move on, also at the ends of months, and is it kept when the time is set? (`Balance`, `DateMovesOn`, `TimeKeepsDate`) | Days of 5 seconds; the last days of February, June, December and January of 2000, 2023, 2024 and 2099; four seconds after each setting, one of them lost. |

The type invariants of `Irrigation`, `Optimized`, `AirIntake`, `Ota` and `Clock`
hold on the instances of their runs as well; the configurations leave them out.
All but that of `Clock` are theorems.

Runs that show a disagreement between the code and its comments:

| Run | Comment | What the code does |
|---|---|---|
| `pump_stale_pair` | `pump.hpp:214`, "just verify if k2 is on to avoid short circuit with k3" | The switch to delta returns without sampling (`pump.hpp:207`); a `$35` before the next second still sees K2 off and drives K3 as well. |
| `irr_rain` | `acionna.cpp:2063`, "minus some time avoid to enter into this condition after working valves cycle finish while motor is on" | The run timer counts the programmed seconds, the cycle whole minutes of each sector (`valves.hpp:234`, `valves.hpp:321`); programmed by the rain wanted (`valves.hpp:528`), the valves are through before the pump. |

### Further disagreements

Met while modelling. Those with a formula were reproduced with TLC by stating
it on the run named, or on the run of the module, with the constants given;
they are not among the permanent runs, which keep one of each kind.

| Where | What | Formula refuted | Instance |
|---|---|---|---|
| `pump.hpp:470` | An output of K3 whose contactor dropped out stays high; the comment above says "turn pin down if contactor is not on". | `[][Update /\ ~Thermal /\ Sample = {} => pin' = {}]_vars` | `StartCalls = {"direct_k3"}`, one failure |
| `pump.hpp:544` | A contactor slower than the wait: the star is retried in the same second and the request then dropped; the motor stays in star. | `StarSupervised` | only `y_delta_req`, `Prompt = FALSE` |
| `pump.hpp:540` | With `$03:m` zero, a stop made by `start(to_y)` itself does not prevent the delta: the flag is not read again. | `StopCancelsDelta` | `pump_auto` with `YTimes = {0}` |
| `acionna.cpp:2041` | In mode `$60`, "never turn and don't let any load turn on" (`helper.hpp:68`), a motor started on K2 is not switched off, and no start command looks at the mode. | `[][LockDown => pin' = {}]_sup_vars` | `Modes = {"system_off"}`, only `direct_k2`, no matches |
| `acionna.cpp:1982` | A maximum time of zero, "not used" by `acionna.cpp:29`, stops the motor in the next second. | `[][StopTimeout => time_to_shutdown_config # 0]_sup_vars` | `ShutdownTimes = {0}` |
| `acionna.cpp:1884` | The time of a programmed star/delta start is overwritten by the default when the star begins. | `MatchTimeUsed` | `Matches` with mode `y_delta_req` and time 1, `ShutdownTimes = {1, 3}` |
| `valves.hpp:132` | A switch within the closing delay (`$80:n`) forgets the valve that was waiting. | `NoValveLeftOpen` | `valves_cycle` with `Given = {"next"}` |
| `valves.hpp:337` | `$80:d` between `start()` and the first second wraps the index to 255. | `state = "automatic_switch" /\ elapsed > 0 => current \in V` | `Given = {"direction"}` |
| `valves.hpp:182` | Moving the log puts the older maximum in the minimum. | `\A i \in 1..LogN-1 : log'[i+1] = log[i]` at `Switch` | `LogN = 2`, `Pressures = {0, 1}` |
| `valves.hpp:168` | The end of the cycle overwrites the time of the last sector with zero. | `log'[1].elapsed >= log[1].elapsed` at `EndCycle` | any |
| `valves.hpp:197` | The seconds of a sector go into 16 bits; one programmed above 65535 s (`$80:v`, `acionna.cpp:1359`) wraps in the log. | `LogMatchesSector` without the modulo | `valves_all` |
| `acionna.cpp:2064` | With nothing or ten seconds or less programmed the run timer wraps below zero: the cycle ends while the pump runs on. | `PumpStopsFirst` | `irr_all` with `Careful = FALSE` |
| `acionna.cpp:2072` | `$80:n` in the last sector ends the cycle under the running pump; the repository's `README.md:28` lists the order as open. | `PumpStopsFirst` | `irr_all` with `Careful = FALSE`, `Given = {"next"}` |
| `acionna.cpp:2070` | The second that first sees the relay tripped only shows the overload as motor state: the mode stops the valves, the check stops the pump a second later. | `Watered`, `HealedInASecond` | `irr_all` with `Trips = TRUE` |
| `acionna.cpp:2060` | With a star time of zero the motor is never seen speeding up and the valves are not opened; a direct start never opens them (the comment at 2058 says "motor is turned on"). | `Watered` | `irr_all` with `StarTime = 0` |
| `acionna.cpp:2049` | After a restart of the expander "all ports goes to 0" while the pump is on; the refresh that sets this right (`$70:vc`) is off by default (`acionna.hpp:152`), so the pump works against closed valves up to the next switch. | `Watered` without `~restarted` | `irr_all` |
| `acionna.cpp:1956` | The next time is not reduced modulo a day: in "pumping all night long mode" (`acionna.cpp:122`), after a stop shortly before midnight it never comes. | `NextIsNear` | `Starts = {9}`, `Reds = {5}` |
| `acionna.cpp:1953` | With star/delta events the next time is set before the motor runs and passes while it runs. | `NextIsNear` | `Lists <- StarLists` |
| `acionna.cpp:1963` | A star/delta start matched in the very second of the red time is carried out after it. | `RedEndsNight` | `Lists <- StarLists` |
| `acionna.hpp:191` | The next time is initially midnight. | `[][phase = "match" /\ AtNext /\ ~driven /\ driven' => night = "night"]_vars` | `Starts = {9}`, `Reds = {11}` |
| `acionna.cpp:1903` | The next time of an earlier night is matched before the new one is set, also when the mode was off across the red time. | `PlannedDelayKept` without `~flag_time_next`, or without `night = "night"` | `Starts = {2}`, `Reds = {9}` |
| `acionna.cpp:1956` | A delay of zero sets a next time that is already past: the pumping stops. | `NextIsNear` | `Delays = {0}` |
| `acionna.cpp:1906` | The next time is compared once a day; if the tripped relay shows in that second it is missed, and the cycles left with it, though the motor rests. | `NextIsNear` with `night # "day"` | `opt_day` |
| `acionna.cpp:1963` | "Time to stop all process" (`acionna.cpp:115`): if the relay shows at the red time, the branch of a running motor is taken and a next time still to come stays: the motor starts after the red time. | `RedEndsNight` without `~Hidden` | `opt_day` |
| `acionna.cpp:1966` | A night whose motor runs until the red time plans no next time; one from an earlier night, or the initial midnight, stays and starts the motor after the red time. | `RedEndsNight` with `course # "none"` for `course = "planned"` | `opt_day` |
| `acionna.cpp:1971` | With the start less than a minute before the red time, the next time taken back to a minute before now lies before the start and comes the next day. | `RedEndsNight` | `Minute = 6` |
| `acionna.cpp:1055` | A check switched off (`$70:l1`, `$70:l4`, `$70:pl`), or a motor stopped and started again, leaves the detector where it was: the next run is stopped within its warm-up, or a dry one is not. | `WarmupRespected` without `spoiled = {}` (also with `spoiled \subseteq {"restarted"}`); `DryRunStops` without `"switched" \notin spoiled` | `air` |
| `pipepvc.hpp:122` | The mean is rounded up and sticks one above a pressure that has fallen. | `DryRunStops` without `~fell` | `air` |
| `pipepvc.hpp:153` | The alarm stops whatever state the motor is in one second later. | `stopped \in {"none"} \cup enabled` | `Motors` with K2 |
| `httpd_ssl_setup.cpp:82`, `acionna.cpp:1746` | A frame that holds no `$...;` (also a CLOSE with a status, or a PING with data) raises the flag, and the previous command is executed again. | `[][(\A p \in Parts : got[p] = Junk) /\ loop = "parse" => loop' # "exec"]_vars` | `mailbox_all` |
| `native_ota.cpp:210` | A second update before the restart overwrites the partition that is to be started. | `BootIsWhole` without `~mixed` | `ota_all` |
| `setup.cpp:424` | A relative delay at the priority of the busy loop: seconds in which `isr_1sec` does not run are lost to the programmed starts until the clock is set. | `Balance` with only the seconds lost in the flag counted | `clock_all` |
| `acionna.cpp:67` | The date of the comment's own example, `$10:d:04091986`, is not set: days before 2000 wrap in 16 bits. | `[][\A d \in Dates : SetDate(d) => DateOf(now') = d]_vars` | `clock_all` with `Dates` the 4th of September 1986 |

Found by reading, with no formula:

- A write lost in the last second of a cycle leaves the valve open, as nothing
  writes the expander until the next cycle (`pcy8575.cpp:62`).
- `valves.hpp:122` removes a sector past the end of its array;
  `parser_` copies up to the first `;` into 20 bytes (`acionna.cpp:2092`);
  `$50:h0` and `$51:e0` write index -1 (`acionna.cpp:711`, `acionna.cpp:912`);
  of several entries in one second the last wins (`acionna.cpp:1870`).
- The detector's `count_increase` is never cleared (`pipepvc.hpp:106`).
- A CLOSE of one client switches the refresh off for another that holds the
  socket; a client lost without CLOSE leaves it on (`httpd_ssl_setup.cpp:110`,
  `acionna.cpp:1825`). The buffer of each received frame is not freed
  (`httpd_ssl_setup.cpp:85`).
- `$95:8` compares a pointer with `ESP_OK` and never changes anything
  (`native_ota.cpp:388`); a failed update stays "updating"; the http client is
  used after its release when the version is the last invalid one
  (`native_ota.cpp:187`).
- `$10:d` bounds the day by the month before (`acionna.cpp:528`). `$10:h` set to
  exactly a programmed start skips it, as the counter moves before the match; set
  back behind one it repeats it.
- `FromDays` counts every fourth year as a leap year and is a day off from
  1 March 2100; the 32-bit time ends in 2106.
- The handler of `IP_EVENT_STA_LOST_IP` is never registered
  (`wifi_setup.cpp`), and a web server that does not start is not tried again.

## 4. Fairness

- `machine_run` is an endless loop and none of its waits is unbounded, so the
  steps of a start, the second and the pass are weakly fair (`Fairness`,
  `SupFairSpec`, `Valves!FairSpec`, `IrrFairSpec`, `AirIntake!FairSpec`, `Run`
  in `Mailbox`, `Report` in `Ota`).
- The web server's handler, once called, goes on to its end: `WF` on `Handler`.
- A sound contactor moves in the end: `WF` on each `Contactor(n)`. Nothing is
  assumed of one that failed, of the relay, the bus, the download or the users.
- Liveness properties are stated as "once nobody asks for more", or for a client
  that stays: the code promises nothing to a user who keeps renewing the timer.

## 5. What is proved

All theorems hold for every value of the constants that satisfies the module's
ASSUME, in particular for any number of failing contactors, clients, tasks and
sectors, any timer values and any contactor speed.

**PumpProofs**

- `TypeCorrect`: no further assumption.
- `PinsInterlocked` (outputs of K2 and K3 never together): assumes `SafeCalls`,
  that only K1, delta and star/delta are asked for. Without it the statement is
  false (`pump_stale_pair`). `PinInterlock` is not inductive: `Drive` trusts
  the samples `k` and `k_pin`. `PinInv` adds when those are up to date: an
  output of K3 that was not sampled is one `to_y` has just driven (`Seen3`); an
  output of K2 may be unsampled only where no star can be started before the
  next sample (`Seen2`, `Blind`); and once the wait is over the other contactor
  was seen off (`PartnerOff`).
- `ContactorsInterlocked` (the contactors themselves): assumes `SafeCalls` and
  `Feedback` (the contactor check is not switched off by `$70:kt`).
  `ContactorInv` adds that a contactor closed without being driven has been
  seen (`Tracked2`, `Tracked3`) and that neither is driven or closed while the
  other is (`Exclusive`). No assumption on speed or on failures.
- `DeltaAlwaysBreaksStar`: every command allowed. `DeltaInv` keeps the half of
  `PinInv` about K3, which holds without `SafeCalls`.
- `StopAlwaysCancelsDelta`: assumes `0 \notin YTimes`. With a star time of
  zero, `CheckDelta` follows the star in the same second without looking at the
  request. `CancelInv` says that a request missing at `check_delta` leaves the
  star timer above zero.
- `StarAlwaysSupervised`: assumes `SafeCalls` and `Prompt`, as it is false for a
  contactor slower than the wait of `start()` (section 3). The difficulty is
  that each half of `check_start_req_` calls `start()`, which may give up, and
  drops or replaces the request whatever came of it. `RequestInv` says what the
  request and the motor state can be in each half; `StarInv` says that in every
  step K3 is only driven under a request, and that the second half only meets a
  request for the star when K2 is stuck, which keeps K3 from being driven.
- `PumpImplementsMotor`: `Spec => ImplementsMotor` under the same assumptions
  (for a slow contactor, the request is dropped with the star driven, which no
  step of `Motor` does). `MotorInv` joins the invariants above with `DrivenInv`,
  that a start keeps what it has driven until it returns. Most steps of a start
  are stutters; the first statements are `Mains`, `BreakStar` or `BreakDelta`
  (`BeginRefines`), `Drive` is `Star` or `Delta`, the returns are `Arm` and
  `Done`, and every way to give up is `Off` (`OffRefines`).

**SupervisorProofs**

- `LoopImplementsPump`: `SupSpec => Spec`. Each step of the loop, of a command
  or of the hardware is one of Pump's or leaves its variables alone. Needs that
  the time waiting to be set is an allowed one (`SetToInv`).
- `LoopTypesCorrect`, and `LoopKeepsInterlock`, which carries
  `ContactorsInterlocked` over to the whole controller, as
  `LoopSupervisesStar` does `StarAlwaysSupervised` and `LoopImplementsMotor`
  `PumpImplementsMotor`.
- `TripAlwaysStopsRun`: no assumption. `PhaseInv` and `Quiet` say where the loop
  can be while a start is in progress, so that no start runs between the sample of
  the relay and the stop; `TripInv` follows the history variable `hot` through
  the second: after the first tripped sample the state is the overload, and the
  check that follows leaves no output.
- `MatchTimeAlwaysUsed`: assumes `DirectMatches`, that programmed starts are not
  star/delta ones, for which it is false (`acionna.cpp:1884` in section 3).
  `MatchInv` says that as long as a programmed time is in force (`asked`) no
  request that would arm the timer again is pending, and the timer is within it
  or about to be set to it.

**IrrigationProofs**

About `Valves`:

- `TypeCorrect`, and `NeverUnknownOpen` (the ports do not exceed the copy once
  a transfer has succeeded, whatever is called and whenever the bus fails or
  the expander restarts): no further assumption.
- `NeverLeftOpen`: assumes `DelaysFit` (no closing delay outlasts a sector, in
  whole minutes), `Sequential` (no single valves driven, no turn of direction),
  a bus that loses nothing, and no `$80:n`. The strengthening `CountdownInv`
  says that the countdown of a valve that is still open ends before the sector
  does; it needs `OrderInv`, that sectors only go up. TLC refutes the statement
  when sectors may be shorter than the delay, with `$80:n`, and with single
  valves driven; with the direction turned it finds no counterexample for three
  sectors, so that assumption is one of the proof and not of the code.
- `CurrentAlwaysOpen`: assumes `Sequential` and that the expander is not read
  back; TLC refutes it without any of the three. It is about the ports: `OpenInv`
  says that the copy holds the current valve open, `Agree` that the ports equal
  the copy unless a transfer failed or the expander restarted since its last word.
- `LogFollowsSector`: no assumption; whatever is called in whatever order. The
  seconds are those of the sector modulo `LogWidth`.

About `Irrigation`:

- `IrrigationImplementsValves`: each step of the mode, of its users and of the
  pump is one of `Valves` or leaves its variables alone, so what is proved of
  `Valves` without assumption holds here (`IrrigationLogs`).
  `IrrigationTypeCorrect` adds the motor.
- `ValvesAlwaysFollow`: assumes `Careful`. With the cycle off nothing is open
  (`ShutInv`), and a second that finds the motor stopped ends with the cycle off
  (`FollowInv`); tripped relays are included.
- `AlwaysWatered`, `AlwaysHealed`, `PumpAlwaysStopsFirst`: assume `Steady`, that
  is `Careful`, no overload, a star time above zero and sectors of whole
  minutes. Each of the four is needed by one of them: the table of section 3 and
  `irr_rain` have the counterexamples. The first is about the ports, which `Agree`
  relates to the copy; `AlwaysHealed` does without its exceptions where the
  refresh is on. For any number of sectors, any programme, either
  direction and any margin above zero. `SteadyInv` has four parts besides the
  property about the ports: the motor runs only under a cycle that has opened
  its first sector before the delta (`DriveInv`), the current sector exists, is
  open and is not the one about to be closed (`CycleInv`), with the cycle off
  nothing is open (`ShutInv`), and the run timer plus the margin is at most what
  is left of the sector and of those to come (`BudgetInv`).
- The last needs sums over the programme: what `find_next()` skips adds nothing
  (`TimeUpToSkips`), and a switch takes the next sector's time from what is to
  come (`TimeUpToStep`). These are inductions over the sectors, stated without
  an operator as parameter: a sector for which the statement failed would have
  a least one among them (`LeastNat`, from the library's well-foundedness of
  the naturals), and the step before that one held.

**AirIntakeProofs**

- `TypeCorrect`: the smoothed pressure stays within the readings although it is
  rounded up (`SmoothInRange`).
- `WarmupIsRespected`: assumes a count above zero. The flags change at any time;
  they never enable both checks (`Alone`), and a detector that is not at rest and
  that nothing has spoiled belongs to the run under way (`Followed`) and is never
  further than it (`Behind`).

**OptimizedProofs**

- `TypeCorrect`: any lists, any times.
- `RedAlwaysEndsNight`: assumes `NoStars` and `RedAfterStart` (every start a
  minute or more before every red time). `Started` says that a running motor
  belongs to a cycle whose next time is still to be set, so that no next time can
  start it before it has stopped; `Course` says where the next time lies: in a
  night between its start and the red time or later, after the red time in the
  part of the day that is past, until the next start.
- `DelayAlwaysKept`: assumes `NoStars` and that the delay is not changed. A next
  time that is set in the night is `Fresh`: the rest so far and the time to it
  make up the delay, also across midnight; one from an earlier night is only met
  with the list at its end.
- `NextAlwaysNear`: assumes in addition that start, red time and the delay after
  it are on one day, and a delay above zero; TLC refutes it without each. A
  night that has missed its next time under an overload is exempt, as there the
  statement is false (section 3).

**MailboxProofs**

- `TypeCorrect`, `LastFrameAlwaysRuns`, and the refinement
  `MailboxImplementsExchange`: no assumption. What makes a shared buffer without
  a lock safe is the order: the flag is raised after the last write and cleared
  before the first read, so whatever is torn is read again (`Copied`, `Fresh`).

**OtaProofs**

- `TypeCorrect`, `NeverUnbootable` (any number of tasks), `NextStartIsWhole`,
  `FinishedTakesEffect`. `UpdateInv` adds that with one update at a time the
  blocks written are those of its version (`TurnInv`).

**ClockProofs**

- `DatesComeBack`: for every date of 2000 to 2099, by cases on month and leap
  year over the integer divisions.
- `CountersBalance` and `TimeAlwaysKeepsDate`: for behaviours that stay in the
  century (`[]InCentury`), outside of which the conversions are wrong; the
  one-second task may be late by any number of seconds at any time.
- `DateAlwaysMovesOn`: within the century, if the loop updates the calendar once
  a day at least (`Attended`: otherwise a date is skipped and the statement is
  false). Rests on `SuccessorCount` (the next date of the Gregorian calendar is
  one day more, by cases on month and leap year) and on `DatesComeBack`; the
  invariant is `Past`, that the date shown is not ahead of the timer.
- `LoopAttends`: the seconds that the calendar is behind are those lost and those
  on their way (`Lag`), so a loop that loses less than a day of them between two
  commands is `Attended`, and its dates follow each other.

Only model-checked: liveness (`RunEnds`, `StarDeltaResolves`, `CycleEnds`,
`IrrigationEnds`, `DryRunStops`, `AnswerComes`, `FinishTold`), which is out of
the prover's reach, as fairness involves ENABLED. Every safety property of the
passing runs is a theorem, under the assumptions given here.

## 6. Not modelled, and why

- The text of commands and answers, sensor conversion and display: no decision
  depends on their form.
- Run log, statistics, time on and off, and the power-on wait of the pump:
  nothing reads them. Rain, flow and volume of a sector only yield a duration.
- The list of programmed times is reduced to which entry matches now; pipe 2 has
  the detector of pipe 1 with a single caller.
- WiFi: its handlers only pass on what the vendor's driver decides, and nothing
  of the controller reads the state.
- Drivers, storage, mathematics and vendored sources: pure I/O or unused. Well
  level and Bluetooth are compiled out. These, and superseded files kept beside
  the code, are most of the repository's lines.

## 7. Order of work

1. `Pump`, `Supervisor`, `Valves`, `Optimized`, `AirIntake` with the proofs of
   the first three; then `Irrigation`, `Mailbox`, `Ota`, `Clock`; then the
   remaining safety properties of `Pump`, `Supervisor`, `Irrigation` and `Clock`.
2. The refinement of `Motor` by `Pump` and by the whole controller.
3. What would come next: `NeverLeftOpen` with the direction turned; a star that
   lasts its time, as part of `Motor`.
