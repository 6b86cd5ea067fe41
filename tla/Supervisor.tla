----------------------------- MODULE Supervisor -----------------------------
(***************************************************************************)
(* The main loop around the pump: machine_run (src/main/setup.cpp) and the *)
(* parts of class Acionna (src/main/acionna/acionna.cpp) that start and    *)
(* stop the motor.                                                         *)
(*                                                                         *)
(* One task runs everything.  Between seconds it executes commands; once a *)
(* second it updates the pump (phase "update"), checks the reasons to stop *)
(* (operation_pump_stop_check), and runs the operation mode: lock down, or *)
(* match the programmed times, set the run timer and finish (phase         *)
(* "operation", "set_timer", "tail", "sectors").                           *)
(*                                                                         *)
(* Inputs chosen freely: which programmed time matches this second, the    *)
(* pressure, the verdict of the air intake detector, when the reservoir's  *)
(* red time comes, and the total time of the valve sectors.  Operators     *)
(* marked "mutant" are mistakes that no specification makes.               *)
(***************************************************************************)
EXTENDS Pump

CONSTANTS
  Commands,   \* the start types that the $3x commands ask for
  Matches,    \* programmed starts: [mode, time], time 0 meaning the default
  Modes       \* the operation modes that $6x sets

states_mode ==
  {"system_off", "system_ready", "irrigation_pump_valves",
   "pump_optimized_control"}

ASSUME SupervisorAssumption ==
  /\ Commands \subseteq StartCalls
  /\ Matches \subseteq [mode : StartCalls, time : Nat]
  /\ \A e \in Matches : e.time # 0 => e.time \in ShutdownTimes
  /\ Modes \subseteq states_mode /\ Modes # {}

VARIABLES
  phase,          \* where machine_run is
  state_mode,
  check_thermal,  \* flag_check_thermal_relay_
  set_to,         \* time_to_shutdown of the entry that matched this second
  asked,          \* history: the time that the programme gave the run last
  hot             \* history: seconds in a row that saw the relay tripped and
                  \* left an output high, with no start asked for since

settings == <<state_mode, check_thermal>>
history  == <<asked, hot>>
sup_vars == <<vars, phase, settings, set_to, history>>

\* The motor states that the pressure and lock-down stops act on: not K2.
Guarded == Running \ {"on_nominal_k2"}

-----------------------------------------------------------------------------
(* Commands, between seconds (handle_message).                             *)

Between_seconds == phase = "run" /\ pc = "idle"

\* start(m) as a caller sees it.
Start(m) == IF m = "y_delta_req" THEN CallYDelta ELSE CallStart(m)

StartCommand(m) ==
  /\ Between_seconds
  /\ Start(m)
  /\ asked' = 0 /\ hot' = 0
  /\ UNCHANGED <<phase, settings, set_to>>

StopCommand ==
  /\ Between_seconds
  /\ CallStop
  /\ UNCHANGED <<phase, settings, set_to, history>>

TimerCommand ==
  /\ Between_seconds
  /\ \/ \E t \in ShutdownTimes : SetShutdownConfig(t) \/ ForceShutdown(t)
     \/ \E t \in YTimes : SetYTime(t)
     \/ \E b \in CheckModes : SetCheck(b)
  /\ asked' = 0
  /\ UNCHANGED <<phase, settings, set_to, hot>>

ModeCommand ==
  /\ Between_seconds
  /\ state_mode' \in Modes
  /\ UNCHANGED <<vars, phase, check_thermal, set_to, history>>

ThermalCommand ==
  /\ Between_seconds
  /\ check_thermal' = ~check_thermal
  /\ hot' = 0
  /\ UNCHANGED <<vars, phase, state_mode, set_to, asked>>

Command ==
  \/ \E m \in Commands : StartCommand(m)
  \/ StopCommand \/ TimerCommand \/ ModeCommand \/ ThermalCommand

-----------------------------------------------------------------------------
(* The second: update_objects, then operation_mode.                        *)

Second ==
  /\ Between_seconds
  /\ Update
  /\ phase' = "update"
  /\ UNCHANGED <<settings, set_to, history>>

TimeUpLate == motor \in Running /\ time_to_shutdown < 0  \* mutant
TimeUp  == motor \in Running /\ time_to_shutdown = 0
Tripped == check_thermal /\ rth /\ motor # "off_thermal_activated"

\* A start or stop inside Pump goes on, called from whichever phase.
PumpStep == StartStep /\ UNCHANGED <<phase, settings, set_to, history>>

\* The checks follow one another; however many apply, the first stop() has
\* lowered the outputs and the next ones find nothing more to lower.
Checked ==
  /\ phase = "update" /\ pc = "idle"
  /\ phase' = "operation"
  /\ hot' = IF check_thermal /\ rth /\ pin' # {} THEN hot + 1 ELSE 0
  /\ UNCHANGED <<settings, set_to, asked>>

StopTimeout      == TimeUp /\ CallStop /\ Checked
StopPressureHigh == motor \in Guarded /\ CallStop /\ Checked
StopPressureLow  == CallStop /\ Checked
StopThermal      == Tripped /\ CallStop /\ Checked
NoStop           == ~TimeUp /\ ~Tripped /\ UNCHANGED vars /\ Checked

StopCheck ==
  \/ StopTimeout \/ StopPressureHigh \/ StopPressureLow \/ StopThermal
  \/ NoStop

\* Mutant: the outputs are lowered without stop().
LockDownRaw ==
  /\ phase = "operation" /\ pc = "idle"
  /\ state_mode = "system_off"
  /\ pin' = IF motor \in Guarded THEN {} ELSE pin
  /\ phase' = "run"
  /\ UNCHANGED <<hardware, samples, check_pin_only, motor, ydelta, timers,
                 control, settings, set_to, history>>

\* operation_pump_lock_down, in mode system_off.
LockDown ==
  /\ phase = "operation" /\ pc = "idle"
  /\ state_mode = "system_off"
  /\ IF motor \in Guarded THEN CallStop ELSE UNCHANGED vars
  /\ phase' = "run"
  /\ UNCHANGED <<settings, set_to, history>>

\* operation_pump_start_match, and its optimized form: a time matches and the
\* motor is idle.
Match(e) ==
  /\ phase = "operation" /\ pc = "idle"
  /\ state_mode # "system_off"
  /\ motor = "off_idle"
  /\ Start(e.mode)
  /\ phase' = "set_timer" /\ set_to' = e.time
  /\ asked' = e.time /\ hot' = 0
  /\ UNCHANGED settings

\* The optimized form sets the run timer even when the motor is not idle; a
\* programmed run under way is then given the time of the later entry.
MatchBusy(e) ==
  /\ phase = "operation" /\ pc = "idle"
  /\ state_mode = "pump_optimized_control"
  /\ motor # "off_idle"
  /\ phase' = "set_timer" /\ set_to' = e.time
  /\ asked' = IF asked # 0 /\ e.time # 0 THEN e.time ELSE asked
  /\ UNCHANGED <<vars, settings, hot>>

NoMatch ==
  /\ phase = "operation" /\ pc = "idle"
  /\ state_mode # "system_off"
  /\ phase' = "tail"
  /\ UNCHANGED <<vars, settings, set_to, history>>

\* Mutant: the time of the entry is never used.
SetTimerDefault ==
  /\ phase = "set_timer" /\ pc = "idle"
  /\ phase' = "tail" /\ set_to' = 0
  /\ UNCHANGED <<vars, settings, history>>

\* "If exists time value registered, use it. Else, use default."
SetTimer ==
  /\ phase = "set_timer" /\ pc = "idle"
  /\ IF set_to # 0 THEN ForceShutdown(set_to) ELSE UNCHANGED vars
  /\ phase' = "tail" /\ set_to' = 0
  /\ UNCHANGED <<settings, history>>

\* operation_pump_valves: the valve sequence starts and takes over the timer,
\* first this run's time and then the default.
SectorsTime(t) ==
  /\ phase = "tail"
  /\ state_mode = "irrigation_pump_valves" /\ motor = "on_speeding_up"
  /\ ForceShutdown(t)
  /\ phase' = "sectors" /\ asked' = 0
  /\ UNCHANGED <<settings, set_to, hot>>

SectorsDefault(t) ==
  /\ phase = "sectors"
  /\ SetShutdownConfig(t)
  /\ phase' = "run"
  /\ UNCHANGED <<settings, set_to, history>>

RedTime ==
  /\ phase = "tail"
  /\ state_mode = "pump_optimized_control" /\ motor # "off_idle"
  /\ CallStop
  /\ phase' = "run"
  /\ UNCHANGED <<settings, set_to, history>>

EndSecond ==
  /\ phase = "tail"
  /\ phase' = "run"
  /\ UNCHANGED <<vars, settings, set_to, history>>

Operation ==
  \/ LockDown \/ NoMatch \/ SetTimer \/ RedTime \/ EndSecond
  \/ \E e \in Matches : Match(e) \/ MatchBusy(e)
  \/ \E t \in ShutdownTimes : SectorsTime(t) \/ SectorsDefault(t)

-----------------------------------------------------------------------------

SupInit ==
  /\ Init
  /\ phase = "run" /\ state_mode \in Modes /\ check_thermal \in BOOLEAN
  /\ set_to = 0 /\ asked = 0 /\ hot = 0

World == Hardware /\ UNCHANGED <<phase, settings, set_to, history>>

Task == PumpStep \/ Second \/ StopCheck \/ Operation

SupNext == World \/ Command \/ Task

SupSpec == SupInit /\ [][SupNext]_sup_vars

\* The task never stops, every second comes, and a sound contactor moves.
SupFairSpec ==
  /\ SupSpec
  /\ WF_sup_vars(Task)
  /\ \A n \in K : WF_sup_vars(Contactor(n) /\ World)

-----------------------------------------------------------------------------
(* Properties.                                                             *)

SupTypeOK ==
  /\ TypeOK
  /\ phase \in {"run", "update", "operation", "set_timer", "tail", "sectors"}
  /\ state_mode \in Modes /\ check_thermal \in BOOLEAN
  /\ set_to \in {0} \cup ShutdownTimes /\ asked \in {0} \cup ShutdownTimes
  /\ hot \in Nat

\* Although update_state_ shows an overload only every other second, no output
\* survives two checks in a row that sampled the relay tripped, unless a new
\* start came between.
TripStopsRun == hot <= 1

\* The run of a programmed start is never longer than the programme says
\* (acionna.cpp:1882 "If exists time value registered, use it").
MatchTimeUsed ==
  Between_seconds /\ asked # 0 => time_to_shutdown <= asked

\* What the task and the hardware do to the pump is what Pump allows.
ImplementsPump == Spec

\* Someone gives the motor a new start or its timer a new value.
Renew ==
  \/ \E m \in Commands : StartCommand(m)
  \/ TimerCommand
  \/ \E e \in Matches : Match(e) \/ MatchBusy(e)
  \/ \E t \in ShutdownTimes : SectorsTime(t)

\* Once nobody renews it, every run ends, whatever the relay and the
\* contactors do.
RunEnds == <>[][~Renew]_sup_vars => []<>(pin = {})

=============================================================================
