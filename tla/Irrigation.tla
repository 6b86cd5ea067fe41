----------------------------- MODULE Irrigation -----------------------------
(***************************************************************************)
(* Operation mode $62: the pump and the valves together                    *)
(* (operation_pump_valves, src/main/acionna/acionna.cpp).  When the motor  *)
(* speeds up the cycle of the valves starts and sets the run timer of the  *)
(* pump; when the motor no longer runs the cycle stops.                    *)
(*                                                                         *)
(* The valves and the expander are those of Valves.  The motor is reduced  *)
(* to what this mode sees of it: its contactors are off, in star or in     *)
(* delta and follow at once, and only star/delta starts are used; Pump     *)
(* models the contactors.  A second is update_objects with the checks that *)
(* stop the motor, then the operation mode; commands come in between.      *)
(*                                                                         *)
(* Left out: the time of a programmed start, which this mode overwrites.   *)
(* Operators marked "mutant" are mistakes that no specification makes.     *)
(***************************************************************************)
EXTENDS Valves

CONSTANTS
  Margin,   \* 10: what the pump stops before the programmed total [s]
  Width,    \* 2^32: time_to_shutdown is unsigned
  Default,  \* time_to_shutdown_config before the first cycle [s]
  StarTime, \* time_delta_to_y_switch_config [s]
  Trips,    \* the thermal relay may trip
  Careful   \* users ask for what is longer than the margin, and touch the
            \* programme, the timer and the valves only while all rests

ASSUME IrrigationAssumption ==
  /\ Margin \in Nat \ {0} /\ StarTime \in Nat
  /\ Width \in Nat /\ Default \in Nat
  /\ Width > Margin /\ Width > Default
  /\ Trips \in BOOLEAN /\ Careful \in BOOLEAN

VARIABLES
  phase,          \* "run": between seconds; "mode": operation_mode is next
  pump,           \* the pump, below
  check_valves,   \* flag_check_valves_
  failed          \* history: a transfer failed or the expander restarted
                  \* since the second before last

settings == <<check_valves, phase>>
irr_vars == <<vars, settings, pump, failed>>

Pump == [
  drive     : {"off", "star", "delta"},         \* the contactors
  motor     : {"off_idle", "on_speeding_up", "on_nominal_delta",
               "off_thermal_activated"},        \* state_motor_
  request   : {"none", "to_y", "to_delta"},     \* flag and start_y_delta_state_
  star      : 0..StarTime,                      \* time_delta_to_y_switch_
  time      : 0..(Width - 1),                   \* time_to_shutdown
  config    : 0..(Width - 1)]                   \* its configured value

Running == {"on_speeding_up", "on_nominal_delta"}

Resting ==
  pump.drive = "off" /\ pump.request = "none" /\ state = "system_off"

\* get_total_time_programmed(): the sum after the first n sectors
TimeUpTo[n \in 0..N] ==
  IF n = 0 THEN 0
  ELSE TimeUpTo[n - 1] + IF n \in programmed THEN time[n] ELSE 0

Total == TimeUpTo[N]

-----------------------------------------------------------------------------
(* The pump: update(), then the reasons to stop.                           *)

\* update_state_: a tripped relay hides the contactors every other time.
Seen(m, drive, rth) ==
  IF rth /\ m # "off_thermal_activated" THEN "off_thermal_activated"
  ELSE CASE drive = "off"   -> "off_idle"
         [] drive = "star"  -> "on_speeding_up"
         [] drive = "delta" -> "on_nominal_delta"

Sampled(p, rth) == [p EXCEPT !.motor = Seen(p.motor, p.drive, rth)]

\* update_time_
Timed(p) ==
  IF p.motor \in Running /\ p.time > 0 THEN [p EXCEPT !.time = @ - 1] ELSE p

\* start(to_y), then start(to_delta) when its time has come.
InStar(p, rth) ==
  [p EXCEPT !.drive = "star", !.motor = Seen(p.motor, "star", rth),
            !.request = "to_delta", !.star = StarTime, !.time = p.config]

ToDelta(p) ==
  IF p.star > 0 THEN [p EXCEPT !.star = @ - 1]
  ELSE [p EXCEPT !.drive = "delta", !.request = "none"]

\* check_start_req_
Requested(p, rth) ==
  CASE p.request = "none"     -> p
    [] p.request = "to_y"     -> ToDelta(InStar(p, rth))
    [] p.request = "to_delta" -> ToDelta(p)

Stopped(p) == [p EXCEPT !.drive = "off", !.request = "none"]

CheckedInStar(p, trip, alarm) ==  \* mutant: the timer is not tested in delta
  IF \/ p.motor = "on_speeding_up" /\ p.time = 0
     \/ p.motor \in Running /\ alarm
     \/ trip /\ p.motor # "off_thermal_activated"
  THEN Stopped(p) ELSE p

\* operation_pump_stop_check; trip: the relay is on and users have its check on
\* ($70:rt, off at first); alarm: one of the pressure checks
Checked(p, trip, alarm) ==
  IF \/ p.motor \in Running /\ (p.time = 0 \/ alarm)
     \/ trip /\ p.motor # "off_thermal_activated"
  THEN Stopped(p) ELSE p

Second(rth, trip, alarm) ==
  /\ phase = "run" /\ phase' = "mode"
  /\ trip => rth
  /\ pump' = Checked(Requested(Timed(Sampled(pump, rth)), rth), trip, alarm)
  /\ IF state = "automatic_switch" THEN Update ELSE UNCHANGED vars
  /\ UNCHANGED <<check_valves, failed>>

-----------------------------------------------------------------------------
(* The operation mode.                                                     *)

\* operation_pump_start_match: a programmed star/delta start matches or not.
Match(matches) ==
  IF matches /\ pump.motor = "off_idle"
  THEN [pump EXCEPT !.request = "to_y"] ELSE pump

Worthwhile == Careful => Resting /\ Total > Margin

CycleStartsLonger ==  \* mutant: the margin is added
  /\ state = "system_off" /\ pump.motor = "on_speeding_up"
  /\ Start
  /\ pump' = [pump EXCEPT !.time = (Total + Margin) % Width,
                           !.config = Total % Width]

\* "If valves cycle was not initialized but motor is turned on".
CycleStarts ==
  /\ state = "system_off" /\ pump.motor = "on_speeding_up"
  /\ Start
  /\ pump' = [pump EXCEPT !.time = (Total - Margin) % Width,
                           !.config = Total % Width]

CycleGoesOn ==  \* mutant: the valves are left to their own times
  /\ state = "automatic_switch" /\ pump.motor \notin Running
  /\ UNCHANGED <<vars, pump>>

\* "If valves cycle are working but motor is turned off".
CycleStops ==
  /\ state = "automatic_switch" /\ pump.motor \notin Running
  /\ Stop
  /\ \E matches \in BOOLEAN :
       /\ matches => Worthwhile
       /\ pump' = Match(matches)

RefreshesClosed ==  \* mutant: only a valve that is held closed is set again
  /\ pump.motor = "on_nominal_delta" /\ check_valves
  /\ IF current \in output THEN state = "automatic_switch" /\ UNCHANGED vars
     ELSE Refresh
  /\ UNCHANGED pump

Refreshes ==
  /\ pump.motor = "on_nominal_delta" /\ check_valves
  /\ Refresh
  /\ UNCHANGED pump

\* Nothing of this applies.
CycleIsLeft ==
  /\ IF state = "system_off" THEN pump.motor # "on_speeding_up"
     ELSE pump.motor \in Running
            /\ ~(pump.motor = "on_nominal_delta" /\ check_valves)
  /\ UNCHANGED vars
  /\ \E matches \in BOOLEAN :
       /\ matches => Worthwhile
       /\ pump' = Match(matches)

Mode ==
  /\ phase = "mode" /\ phase' = "run"
  /\ CycleStarts \/ CycleStops \/ Refreshes \/ CycleIsLeft
  /\ failed' = ~bus
  /\ UNCHANGED check_valves

Task ==
  \/ Mode
  \/ \E rth, trip, alarm \in BOOLEAN : (rth => Trips) /\ Second(rth, trip, alarm)

-----------------------------------------------------------------------------
(* Commands, between seconds, and the hardware.                            *)

Given_now == phase = "run" /\ UNCHANGED <<phase, failed>>

AskStart ==
  /\ Given_now /\ Worthwhile
  /\ pump' = [pump EXCEPT !.request = "to_y"]
  /\ UNCHANGED <<vars, check_valves>>

AskStop ==
  /\ Given_now
  /\ pump' = Stopped(pump)
  /\ UNCHANGED <<vars, check_valves>>

\* $03:t, $02: a new time, or a new default.
SetTimer(t) ==
  /\ Given_now /\ (Careful => Resting)
  /\ \/ pump' = [pump EXCEPT !.time = t]
     \/ pump' = [pump EXCEPT !.config = t]
  /\ UNCHANGED <<vars, check_valves>>

ValveCommand ==
  /\ Given_now
  /\ IF Careful
     THEN /\ Resting
          /\ \/ SetDelay \/ SetDirection
             \/ \E p \in SUBSET V : Programme(p)
             \/ \E v \in V, t \in Times : SetTime(v, t)
     ELSE Command
  /\ UNCHANGED <<pump, check_valves>>

\* $70:vc
SetCheckValves ==
  /\ Given_now /\ (Careful => Resting)
  /\ check_valves' = ~check_valves
  /\ UNCHANGED <<vars, pump>>

Users ==
  \/ AskStart \/ AskStop \/ ValveCommand \/ SetCheckValves
  \/ \E t \in {Default} : SetTimer(t)

Expander ==
  /\ Reset \/ Disturb
  /\ failed' = TRUE
  /\ UNCHANGED <<settings, pump>>

-----------------------------------------------------------------------------

IrrInit ==
  /\ Init
  /\ phase = "run" /\ check_valves \in BOOLEAN /\ failed = FALSE
  /\ pump = [drive |-> "off", motor |-> "off_idle", request |-> "none",
             star |-> 0, time |-> 0, config |-> Default]

IrrNext == Task \/ Users \/ Expander

IrrSpec == IrrInit /\ [][IrrNext]_irr_vars

\* machine_run never stops.
IrrFairSpec == IrrSpec /\ WF_irr_vars(Task)

-----------------------------------------------------------------------------
(* Properties.                                                             *)

\* Every variable stays in its range.
IrrTypeOK == TypeOK /\ pump \in Pump /\ phase \in {"run", "mode"}
               /\ check_valves \in BOOLEAN /\ failed \in BOOLEAN

\* The pump never works against closed valves: while it is in delta the valve of
\* the sector under way is open on the expander, if the last word got through
\* and the expander has not restarted since.  After a restart with $70:vc off,
\* as it is at first, the pump works against closed valves up to the next switch
\* (acionna.cpp:2049 describes the case, README "Further disagreements").
Watered ==
  phase = "run" /\ pump.drive = "delta" /\ ~lost /\ ~restarted =>
    state = "automatic_switch" /\ current \in ports

\* The pump is stopped before the cycle of the valves is over (acionna.cpp:2063
\* "minus some time avoid to enter into this condition after working valves
\* cycle finish while motor is on").
PumpStopsFirst == [][EndCycle => pump.drive = "off"]_irr_vars

\* With $70:vc on, which it is not by default, a write that was lost or a
\* restart of the expander is made good by the next second while the pump is in
\* delta.
HealedInASecond ==
  phase = "run" /\ ~failed /\ check_valves /\ pump.drive = "delta"
    /\ pump.motor = "on_nominal_delta" => ports = output /\ current \in ports

\* When the pump stops, for whatever reason, the valves are closed by the end of
\* the second that sees it.
ValvesFollow ==
  phase = "run" /\ pump.motor \notin Running =>
    state = "system_off" /\ output = {}

\* Every irrigation ends: the timer set from the programme stops the pump, and
\* that the valves.
IrrigationEnds == pump.drive = "delta" ~> Resting

=============================================================================
