----------------------------- MODULE AirIntake ------------------------------
(***************************************************************************)
(* Detection of air in the suction line: Pipepvc::air_intake_detect        *)
(* (src/main/acionna/pipepvc.hpp) on pipe 1, as operation_pump_stop_check  *)
(* (src/main/acionna/acionna.cpp) calls it once a second, first for K1 and *)
(* then for the delta, on one and the same detector.                       *)
(*                                                                         *)
(* While the motor runs in the watched state the detector waits for the    *)
(* pressure to settle and then for it to fall.  It answers in the call     *)
(* after the one that saw the fall.                                        *)
(*                                                                         *)
(* The motor is reduced to its state, which users and other checks change  *)
(* between seconds, as users switch the checks on and off;                 *)
(* air_detect_timer_stable, which nothing reads, is left out, and          *)
(* air_detect_timer_increase stops where nothing tells more.               *)
(* Operators marked "mutant" are mistakes that no specification makes.     *)
(***************************************************************************)
EXTENDS Integers

CONSTANTS
  Readings,   \* readings of the sensor [m.c.a.]
  Low,        \* air_detect_pressure_low_ref
  Stable,     \* air_detect_count_increase_ref
  Warm,       \* seconds before the readings are compared (5 in the code)
  Motors      \* the motor states that occur

ASSUME AirIntakeAssumption ==
  /\ Readings \subseteq Nat /\ Readings # {}
  /\ Low \in Nat /\ Stable \in Nat /\ Warm \in Nat
  /\ Motors \subseteq {"off_idle", "on_nominal_k1", "on_nominal_k2",
                       "on_nominal_delta"}
  /\ "off_idle" \in Motors

VARIABLES
  motor,      \* pump1_.state()
  p,          \* pressure_mca_
  d,          \* the detector: air_detect_state, timer_increase,
              \* count_increase, pressure_mca_previous, pressure_mca_avg
  phase,      \* "run": between seconds; "check": pressure and motor are fresh
  low,        \* flag_check_pressure_low_
  enabled,    \* flag_check_pressure_low_k1_ and _delta_: the states checked for
  ran,        \* history: seconds checked since the motor entered its state
  fell,       \* history: the pressure has fallen since it was seen to enter it
  spoiled,    \* history: since the detector was last at rest, its check was
              \* "switched", the motor "restarted" between two seconds
  stopped     \* history: the last check stopped the motor, in this state
              \* ("none" if it did not)

flags == <<low, enabled>>
vars  == <<motor, p, d, phase, flags, ran, fell, spoiled, stopped>>

\* The states that the motor is stopped in.
watched == IF low THEN enabled ELSE {}

states == {"low_idle", "increasing", "stable", "slope"}

\* What a mean of readings can be.
Span == {n \in Nat : \E high \in Readings \cup {0} : n <= high}

Detector == [state : states, timer : 0..(Warm + 1), count : 0..Stable,
             prev : Span, avg : Span]

-----------------------------------------------------------------------------
(* One call of air_intake_detect, for the motor state ref.                 *)

\* x < 0.70 * y
Fell(x, y) == 10 * x < 7 * y

\* The filter: avg++, avg += p, avg >>= 1.
Smooth(x) == [x EXCEPT !.prev = p, !.avg = (@ + 1 + p) \div 2]

Leave(x) == [x EXCEPT !.state = "low_idle"]

\* Mutant: the seconds of the run before are not cleared.
EnterWarm(x) == [x EXCEPT !.state = "increasing", !.prev = p, !.avg = p]

Enter(x) ==
  [x EXCEPT !.state = "increasing", !.timer = 0, !.prev = p, !.avg = p]

Increasing(x) ==
  LET t == IF x.timer > Warm THEN x.timer ELSE x.timer + 1
      y == [x EXCEPT !.timer = t]
      c == IF y.count < Stable THEN y.count + 1 ELSE Stable
  IN  IF t <= Warm           THEN Smooth(y)
      ELSE IF Fell(p, y.prev) THEN [y EXCEPT !.state = "slope"]
      ELSE IF p # y.avg       THEN Smooth(y)
      ELSE [y EXCEPT !.count = c,
                     !.state = IF c >= Stable THEN "stable" ELSE @]

\* Mutant: a settled pressure is not compared with the reference.
SettledFloorless(x) ==
  IF Fell(p, x.avg) THEN [x EXCEPT !.state = "slope"] ELSE Smooth(x)

Settled(x) ==
  IF Fell(p, x.avg) \/ p < Low THEN [x EXCEPT !.state = "slope"] ELSE Smooth(x)

Call(x, ref) ==
  CASE x.state = "slope"                          -> Leave(x)
    [] x.state = "low_idle" /\ motor # ref        -> x
    [] x.state = "low_idle" /\ motor = ref        -> Enter(x)
    [] x.state \in {"increasing", "stable"} /\ motor # ref -> Leave(x)
    [] x.state = "increasing" /\ motor = ref      -> Increasing(x)
    [] x.state = "stable" /\ motor = ref          -> Settled(x)

\* The call returns 1.
Alarm(x) == x.state = "slope"

-----------------------------------------------------------------------------

\* What spoils the measuring of a run under way.
Spoil(how) == spoiled' = IF d.state = "low_idle" THEN spoiled ELSE spoiled \cup {how}

\* pump1_.update() and pipe1_.update(): a motor state and a reading.  A motor in
\* the same state may have been stopped and started in between.
Second ==
  /\ phase = "run"
  /\ phase' = "check"
  /\ motor' \in Motors
  /\ p' \in Readings
  /\ \/ /\ ran' = IF motor' # motor THEN 0 ELSE ran
        /\ UNCHANGED spoiled
     \/ /\ motor' = motor /\ motor # "off_idle"
        /\ ran' = 0 /\ Spoil("restarted")
  /\ fell' = (motor' = motor /\ (fell \/ p' < p))
  /\ stopped' = "none"
  /\ UNCHANGED <<d, flags>>

\* operation_pump_stop_check: the two calls, and stop().
CallIf(ref, x) == IF ref \in watched THEN Call(x, ref) ELSE x

Check ==
  /\ phase = "check"
  /\ phase' = "run"
  /\ LET d1    == CallIf("on_nominal_k1", d)
         alarm == \/ "on_nominal_k1" \in watched /\ Alarm(d)
                  \/ "on_nominal_delta" \in watched /\ Alarm(d1)
     IN  /\ d' = CallIf("on_nominal_delta", d1)
         /\ stopped' = IF alarm THEN motor ELSE "none"
         /\ motor' = IF alarm THEN "off_idle" ELSE motor
  /\ ran' = IF motor' # motor THEN 0
            ELSE IF ran <= Warm + Stable THEN ran + 1 ELSE ran
  /\ fell' = (motor' = motor /\ fell)
  /\ spoiled' = IF d'.state = "low_idle" THEN {} ELSE spoiled
  /\ UNCHANGED <<p, flags>>

\* $70:pl
CheckLow(on) == low' = on /\ UNCHANGED enabled

\* $70:l1, $70:l4: enabling one check disables the other.
CheckState(ref, on) ==
  enabled' = (IF on THEN {ref} ELSE enabled \ {ref}) /\ UNCHANGED low

Command ==
  /\ phase = "run"
  /\ \E on \in BOOLEAN :
        \/ CheckLow(on)
        \/ \E ref \in {"on_nominal_k1", "on_nominal_delta"} : CheckState(ref, on)
  /\ IF watched' # watched THEN Spoil("switched") ELSE UNCHANGED spoiled
  /\ UNCHANGED <<motor, p, d, phase, ran, fell, stopped>>

Init ==
  /\ motor = "off_idle" /\ p \in Readings
  /\ d = [state |-> "low_idle", timer |-> 0, count |-> 0, prev |-> 0,
          avg |-> 0]
  /\ phase = "run" /\ ran = 0 /\ fell = FALSE /\ spoiled = {}
  /\ low = TRUE /\ enabled = {"on_nominal_delta"}
  /\ stopped = "none"

Next == Second \/ Check \/ Command

Spec == Init /\ [][Next]_vars
FairSpec == Spec /\ WF_vars(Second) /\ WF_vars(Check)

-----------------------------------------------------------------------------
(* Properties.                                                             *)

TypeOK ==
  /\ motor \in Motors /\ p \in Readings /\ d \in Detector
  /\ phase \in {"run", "check"} /\ ran \in Nat /\ fell \in BOOLEAN
  /\ low \in BOOLEAN /\ enabled \subseteq {"on_nominal_k1", "on_nominal_delta"}
  /\ spoiled \subseteq {"switched", "restarted"}
  /\ stopped \in {"none"} \cup Motors

\* A run is never stopped for low pressure before the detector has seen it
\* for Warm + 2 seconds: one to notice it, Warm to let the pressure build up,
\* one that fell.  This needs a detector that has followed the motor: its check
\* was not switched since it was last at rest, and no run ended and another
\* began between two seconds.
WarmupRespected ==
  [][Check /\ stopped' \in watched /\ spoiled = {} => ran > Warm + 1]_vars

\* A pump that runs dry is stopped: the motor does not stay in the state that is
\* watched with the pressure at one reading below the reference, if the
\* pressure has only risen since it entered that state and the detector was at
\* rest when its check was switched on.
DryRunStops ==
  \A m \in {"on_nominal_k1", "on_nominal_delta"} : \A x \in Readings :
    x < Low => ~<>[](/\ motor = m /\ watched = {m} /\ "switched" \notin spoiled
                     /\ p = x /\ ~fell)

=============================================================================
