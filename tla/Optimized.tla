----------------------------- MODULE Optimized ------------------------------
(***************************************************************************)
(* Mode $63, "pumping all night long": the scheduler                       *)
(* operation_pump_start_match_optimized of class Acionna                   *)
(* (src/main/acionna/acionna.cpp).                                         *)
(*                                                                         *)
(* At the start time it begins the programmed events; each event is a      *)
(* number of cycles.  When the motor has stopped, the next cycle is set a  *)
(* delay later; the red time ends the night.  One pass a second: match,    *)
(* set the next time, check the red time (phase).  Users change the times, *)
(* the clock and the list of events, and switch the mode, between any two  *)
(* passes.                                                                 *)
(*                                                                         *)
(* Of the pump there are its contactors and state(), which pump1_.update() *)
(* samples before the pass: a tripped thermal relay hides the contactors   *)
(* in every other sample.  It stops for reasons modelled in Supervisor;    *)
(* nobody else starts it here.  Operators marked "mutant" are mistakes     *)
(* that no specification makes.                                            *)
(***************************************************************************)
EXTENDS Integers, Sequences, FiniteSetsExt

CONSTANTS
  Day,        \* seconds in a day
  Minute,     \* seconds in a minute
  Starts,     \* values of time_match_start ($51:h)
  Reds,       \* values of time_red ($51:r)
  Delays,     \* values of time_delay ($51:d)
  Lists,      \* lists of events that users programme: [star, cycles_n] each;
              \* star: the event starts the motor with y_delta_req
  Never       \* a time that no second of a day has: time_day_sec_ less a
              \* minute, wrapped around below zero

ASSUME OptimizedAssumption ==
  /\ Day \in Nat /\ Minute \in Nat
  /\ Starts \subseteq 0..(Day - 1) /\ Starts # {}
  /\ Reds \subseteq 0..(Day - 1) /\ Reds # {}
  /\ Delays \subseteq Nat /\ Delays # {}
  /\ Lists \subseteq Seq([star : BOOLEAN, cycles_n : Nat]) /\ Lists # {}
  /\ Never \in Nat /\ Never >= Day

VARIABLES
  phase,               \* "second", or the part of the pass that is next
  time_day_sec,
  enabled,             \* mode $63, with flag_check_time_match_optimized_
  time_match_start, time_match_next, time_delay, time_red,
  events,              \* event[0 .. event_n - 1]
  flag_time_next,      \* flag_time_next_config
  running,             \* flag_status_running
  event_i, cycle_i,
  driven,              \* contactors of the pump are closed
  motor,               \* state(): "idle", "overload" (off_thermal_activated) or
                       \* "on", any other
  star,                \* a star/delta start is requested of the pump
  night,               \* history: "night" from a start time to the red time,
                       \* "missed" if an overload hid that the motor was idle
                       \* when the next time came, else "day"; a change of the
                       \* clock, red time, list or mode makes it "day"
  course,              \* history: "begun" at a start time, "planned" once a next
                       \* time was set, "over" since the red time found it so;
                       \* a change of clock, start, red time or mode: "none"
  resting              \* history: seconds since a contactor was closed, or was
                       \* to be, counted up to Day

settings == <<enabled, time_match_start, time_delay, time_red, events>>
plan     == <<time_match_next, flag_time_next, running, event_i, cycle_i>>
pump     == <<driven, motor, star, resting>>
history  == <<night, course>>
vars     == <<phase, time_day_sec, settings, plan, pump, history>>

event_n == Len(events)

-----------------------------------------------------------------------------

\* What update_state_ makes of the contactors: the relay is shown unless the
\* last sample showed it.
Sampled(closed) ==
  {IF closed THEN "on" ELSE "idle"}
    \cup IF motor = "overload" THEN {} ELSE {"overload"}

\* The stops since the last pass (operation_pump_stop_check, $00:0, a contactor
\* that drops out), update_clock and pump1_.update(): a sample, then a requested
\* star/delta start, which samples again, is dropped, or is tried once more.
Second ==
  /\ phase = "second"
  /\ phase' = IF enabled THEN "match" ELSE "second"
  /\ time_day_sec' = (time_day_sec + 1) % Day
  /\ \/ driven' \in {FALSE, driven} /\ motor' \in Sampled(driven') /\ star' = FALSE
     \/ /\ star /\ driven' \in BOOLEAN
        /\ motor' \in {"overload", IF driven' THEN "on" ELSE "idle"}
        /\ star' \in {FALSE, ~driven'}
  /\ resting' = IF driven \/ driven' \/ star THEN 0
                ELSE IF resting < Day THEN resting + 1 ELSE Day
  /\ UNCHANGED <<settings, plan, history>>

AtStart == time_day_sec = time_match_start
AtNext  == ~AtStart /\ time_day_sec = time_match_next /\ motor = "idle"

\* The search for a cycle begins anew at the start time.
From  == IF AtStart THEN 0 ELSE event_i
Cycle == IF AtStart THEN 0 ELSE cycle_i

CyclesDone(e) == IF e = From THEN Cycle ELSE 0

\* The events, counted from 0, that have a cycle left.
Left ==
  {e \in From..(event_n - 1) : CyclesDone(e) < events[e + 1].cycles_n}

\* The search looks at one event only if a next time was already due.
Candidates == IF flag_time_next THEN Left \cap {From} ELSE Left

\* pump1_.start(), if the motor is idle: a direct start ends with a sample, or
\* fails and stops; y_delta_req only leaves a request.
StartMotor(is_star) ==
  IF motor # "idle" THEN UNCHANGED pump
  ELSE IF is_star THEN star' = TRUE /\ UNCHANGED <<driven, motor, resting>>
  ELSE driven' \in BOOLEAN /\ motor' \in Sampled(driven') /\ resting' = 0
       /\ UNCHANGED star

RunCycle(e) ==
  /\ StartMotor(events[e + 1].star)
  /\ flag_time_next' = TRUE
  /\ event_i' = e /\ cycle_i' = CyclesDone(e) + 1
  /\ running' = (AtStart \/ running)

\* No event has a cycle left; a search that began past the last event ends
\* the process.
NoCycle ==
  /\ IF From < event_n
     THEN /\ event_i' = (IF flag_time_next THEN From + 1 ELSE event_n)
          /\ cycle_i' = 0
          /\ running' = (AtStart \/ running)
     ELSE event_i' = From /\ cycle_i' = Cycle /\ running' = FALSE
  /\ UNCHANGED <<pump, flag_time_next>>

Match ==
  /\ phase = "match"
  /\ phase' = "config"
  /\ IF AtStart \/ AtNext
     THEN IF Candidates # {} THEN RunCycle(Min(Candidates)) ELSE NoCycle
     ELSE UNCHANGED <<pump, flag_time_next, running, event_i, cycle_i>>
  /\ night' = IF AtStart THEN "night"
              ELSE IF night = "night" /\ time_day_sec = time_match_next
                      /\ motor = "overload"
              THEN "missed" ELSE night
  /\ course' = IF AtStart THEN "begun" ELSE course
  /\ UNCHANGED <<time_day_sec, settings, time_match_next>>

\* The night's first next time.
Planned ==
  course' = IF course = "begun" /\ flag_time_next /\ ~flag_time_next'
            THEN "planned" ELSE course

\* Mutant: the next time is set without waiting for the motor to stop.
ConfigAtOnce ==
  /\ phase = "config"
  /\ phase' = "red"
  /\ IF flag_time_next
     THEN /\ flag_time_next' = FALSE
          /\ time_match_next' = time_day_sec + time_delay
     ELSE UNCHANGED <<flag_time_next, time_match_next>>
  /\ Planned
  /\ UNCHANGED <<time_day_sec, settings, running, event_i, cycle_i, pump, night>>

\* The next time is set in the first pass that finds the motor idle.
Config ==
  /\ phase = "config"
  /\ phase' = "red"
  /\ IF flag_time_next /\ motor = "idle"
     THEN /\ flag_time_next' = FALSE
          /\ time_match_next' = time_day_sec + time_delay
     ELSE UNCHANGED <<flag_time_next, time_match_next>>
  /\ Planned
  /\ UNCHANGED <<time_day_sec, settings, running, event_i, cycle_i, pump, night>>

AtRed == time_day_sec = time_red

NotTakenBack == time_match_next  \* mutant: a next time after the red time stays
TakenBack ==
  IF time_match_next < time_red THEN time_match_next
  ELSE IF time_day_sec >= Minute THEN time_day_sec - Minute ELSE Never

\* A next time after the red time that an overload keeps from being taken back.
Hidden ==
  motor = "overload" /\ ~flag_time_next /\ time_match_next > time_red

\* The red time stops the motor, or takes back a next time that lies after it;
\* under an overload it does the former, also if the motor rests.
Red ==
  /\ phase = "red"
  /\ phase' = "second"
  /\ IF AtRed /\ motor # "idle"
     THEN driven' = FALSE /\ star' = FALSE /\ flag_time_next' = FALSE
     ELSE UNCHANGED <<driven, star, flag_time_next>>
  /\ time_match_next' = IF AtRed /\ motor = "idle" THEN TakenBack
                                                  ELSE time_match_next
  /\ night' = IF time_day_sec = time_red THEN "day" ELSE night
  /\ course' = IF time_day_sec # time_red THEN course
               ELSE IF course = "planned" /\ ~Hidden THEN "over" ELSE "none"
  /\ UNCHANGED <<time_day_sec, settings, running, event_i, cycle_i, motor, resting>>

\* $51:h, $51:r and $51:d, between seconds.
Configure ==
  /\ phase = "second"
  /\ time_match_start' \in Starts /\ time_red' \in Reds
  /\ time_delay' \in Delays
  /\ night' = IF time_red' = time_red THEN night ELSE "day"
  /\ course' = IF time_red' = time_red /\ time_match_start' = time_match_start
               THEN course ELSE "none"
  /\ UNCHANGED <<phase, time_day_sec, enabled, events, plan, pump>>

\* $51:e and $51:n: the position in the list stays.
Programme ==
  /\ phase = "second"
  /\ events' \in Lists
  /\ night' = "day"
  /\ UNCHANGED <<phase, time_day_sec, enabled, time_match_start, time_delay,
                 time_red, plan, pump, course>>

\* $51:s and $6x: what was planned stays.
SwitchMode ==
  /\ phase = "second"
  /\ enabled' = ~enabled
  /\ night' = "day" /\ course' = "none"
  /\ UNCHANGED <<phase, time_day_sec, time_match_start, time_delay, time_red,
                 events, plan, pump>>

\* $10:h: the time of day jumps.
SetClock ==
  /\ phase = "second"
  /\ time_day_sec' \in 0..(Day - 1)
  /\ night' = "day" /\ course' = "none"
  /\ UNCHANGED <<phase, settings, plan, pump>>

-----------------------------------------------------------------------------

Init ==
  /\ phase = "second" /\ time_day_sec \in 0..(Day - 1)
  /\ enabled \in BOOLEAN /\ events \in Lists
  /\ time_match_start \in Starts /\ time_red \in Reds /\ time_delay \in Delays
  /\ time_match_next = 0 /\ flag_time_next = FALSE /\ running = FALSE
  /\ event_i = 0 /\ cycle_i = 0
  /\ driven = FALSE /\ motor = "idle" /\ star = FALSE /\ resting = Day
  /\ night = "day" /\ course = "none"

Pass == Second \/ Match \/ Config \/ Red

Next == Pass \/ Configure \/ Programme \/ SwitchMode \/ SetClock

Spec == Init /\ [][Next]_vars

-----------------------------------------------------------------------------
(* Properties.                                                             *)

TypeOK ==
  /\ phase \in {"second", "match", "config", "red"}
  /\ time_day_sec \in 0..(Day - 1)
  /\ enabled \in BOOLEAN /\ events \in Lists
  /\ time_match_start \in Starts /\ time_red \in Reds /\ time_delay \in Delays
  /\ time_match_next \in Nat
  /\ flag_time_next \in BOOLEAN /\ running \in BOOLEAN
  /\ event_i \in Nat /\ cycle_i \in Nat
  /\ driven \in BOOLEAN /\ motor \in {"idle", "on", "overload"}
  /\ star \in BOOLEAN /\ resting \in 0..Day
  /\ night \in {"day", "night", "missed"}
  /\ course \in {"none", "begun", "planned", "over"}

\* $51:d, "time delay in minutes between stop and the new start"
\* (acionna.cpp:110): in a night that nobody reprogrammes, a cycle that starts
\* at a planned next time, while no newer one is due, finds the motor rested.
PlannedDelayKept ==
  [][(/\ phase = "match" /\ night = "night" /\ AtNext /\ ~flag_time_next
      /\ (driven' \/ star'))
       => resting >= time_delay]_vars

\* A cycle of the night is still to come and the motor rests.
Waiting ==
  /\ night = "night" /\ phase = "second"
  /\ motor = "idle" /\ ~star
  /\ \/ event_i < event_n /\ cycle_i < events[event_i + 1].cycles_n
     \/ \E e \in (event_i + 1)..(event_n - 1) : events[e + 1].cycles_n > 0

\* The pumping goes on all night: while cycles are left, the motor rests and
\* nobody reprogrammes, the next start is at most the delay away.  Only a next
\* time that comes in a second showing the overload is lost, with the cycles
\* that were left.
NextIsNear ==
  Waiting => \E d \in 0..time_delay :
               time_match_next = (time_day_sec + d) % Day

\* $51:r, "time to stop all process" (acionna.cpp:115): once the red time has
\* ended a night that had planned a next time, the motor stays off until the
\* start time comes again, with whatever list; unless the clock, the times or
\* the mode are changed, or an overload showed at the red time itself with a
\* start still to come.
RedEndsNight == course = "over" => ~driven /\ ~star

=============================================================================
