-------------------------- MODULE AirIntakeProofs ---------------------------
(***************************************************************************)
(* What holds of the air intake detector for every set of readings, every  *)
(* warm-up and every reference: types, and that a normal start-up is not   *)
(* taken for a dry run.                                                    *)
(***************************************************************************)
EXTENDS AirIntake, TLAPS

\* The checks of K1 and of the delta, which share one detector, are never both
\* enabled.
Alone == \A a, b \in enabled : a = b

-----------------------------------------------------------------------------
(* The filter and the calls.                                               *)

\* The mean stays within the readings: rounding up does not exceed the larger
\* of its two arguments.
LEMMA SmoothInRange ==
  ASSUME p \in Readings, NEW x \in Detector
  PROVE  Smooth(x) \in Detector
<1>1. x.avg \in Span /\ p \in Nat
  BY AirIntakeAssumption DEF Detector
<1>2. PICK high \in Readings \cup {0} : x.avg <= high
  BY <1>1 DEF Span
<1>3. high \in Nat /\ x.avg \in Nat
  BY <1>1, <1>2, AirIntakeAssumption DEF Span
<1> DEFINE mean == (x.avg + 1 + p) \div 2
<1>4. mean \in Nat
  BY <1>1, <1>3, SMT
<1>5. mean <= p \/ mean <= high
  BY <1>1, <1>2, <1>3, SMT
<1>6. mean \in Span
  BY <1>4, <1>5, <1>2 DEF Span
<1>7. p \in Span
  BY <1>1 DEF Span
<1>8. Smooth(x) = [x EXCEPT !.prev = p, !.avg = mean]
  BY DEF Smooth
<1> HIDE DEF mean
<1> QED
  BY <1>6, <1>7, <1>8 DEF Detector

LEMMA CallInRange ==
  ASSUME p \in Readings, NEW x \in Detector, NEW ref
  PROVE  Call(x, ref) \in Detector
<1>1. p \in Span
  BY AirIntakeAssumption DEF Span
<1>2. Leave(x) \in Detector
  BY DEF Leave, Detector, states
<1>3. Enter(x) \in Detector
  <2>1. 0 \in 0..(Warm + 1)
    BY AirIntakeAssumption
  <2> QED
    BY <1>1, <2>1 DEF Enter, Detector, states
<1>4. Settled(x) \in Detector
  <2>1. [x EXCEPT !.state = "slope"] \in Detector
    BY DEF Detector, states
  <2> QED
    BY <2>1, SmoothInRange DEF Settled
<1>5. Increasing(x) \in Detector
  <2> DEFINE t == IF x.timer > Warm THEN x.timer ELSE x.timer + 1
             y == [x EXCEPT !.timer = t]
             c == IF y.count < Stable THEN y.count + 1 ELSE Stable
  <2>1. t \in 0..(Warm + 1)
    BY AirIntakeAssumption DEF Detector
  <2> HIDE DEF t
  <2>2. y \in Detector
    BY <2>1 DEF Detector
  <2>3. c \in 0..Stable
    BY <2>2, AirIntakeAssumption DEF Detector
  <2> HIDE DEF y, c
  <2>4. Smooth(y) \in Detector
    BY <2>2, SmoothInRange
  <2>5. [y EXCEPT !.state = "slope"] \in Detector
    BY <2>2 DEF Detector, states
  <2>6. [y EXCEPT !.count = c, !.state = IF c >= Stable THEN "stable" ELSE @]
          \in Detector
    BY <2>2, <2>3 DEF Detector, states
  <2> QED
    BY <2>4, <2>5, <2>6 DEF Increasing, t, y, c
<1>6. x.state \in states
  BY DEF Detector
<1> QED
  BY <1>2, <1>3, <1>4, <1>5, <1>6 DEF Call, states

LEMMA CallIfInRange ==
  ASSUME p \in Readings, NEW x \in Detector, NEW ref
  PROVE  CallIf(ref, x) \in Detector
BY CallInRange DEF CallIf

LEMMA TypeInit == Init => TypeOK
<1> SUFFICES ASSUME Init PROVE TypeOK
  OBVIOUS
<1>1. 0 \in Span /\ 0 \in 0..(Warm + 1) /\ 0 \in 0..Stable
  BY AirIntakeAssumption DEF Span
<1>2. d \in Detector
  BY <1>1 DEF Init, Detector, states
<1> QED
  BY <1>2, AirIntakeAssumption DEF Init, TypeOK

LEMMA TypeStep == TypeOK /\ [Next]_vars => TypeOK'
<1> SUFFICES ASSUME TypeOK, [Next]_vars PROVE TypeOK'
  OBVIOUS
<1>1. CASE Second
  <2>1. spoiled' \subseteq {"switched", "restarted"}
    BY <1>1 DEF TypeOK, Second, Spoil
  <2>2. ran' \in Nat
    BY <1>1 DEF TypeOK, Second
  <2>3. UNCHANGED <<d, low, enabled>>
    BY <1>1 DEF Second, flags
  <2> QED
    BY <1>1, <2>1, <2>2, <2>3 DEF TypeOK, Second
<1>2. CASE Check
  <2>1. CallIf("on_nominal_k1", d) \in Detector
    BY CallIfInRange DEF TypeOK
  <2>2. d' \in Detector
    BY <1>2, <2>1, CallIfInRange DEF TypeOK, Check
  <2>3. ran' \in Nat
    <3>1. ran' \in {0, ran, ran + 1}
      BY <1>2 DEF Check
    <3> QED
      BY <3>1 DEF TypeOK
  <2>6. spoiled' \subseteq {"switched", "restarted"}
    BY <1>2 DEF TypeOK, Check
  <2>4. UNCHANGED <<p, low, enabled>>
    BY <1>2 DEF Check, flags
  <2>5. motor' \in Motors /\ stopped' \in {"none"} \cup Motors
    BY <1>2, AirIntakeAssumption DEF TypeOK, Check
  <2> QED
    BY <1>2, <2>2, <2>3, <2>4, <2>5, <2>6 DEF TypeOK, Check
<1>3. CASE Command
  <2>1. spoiled' \subseteq {"switched", "restarted"}
    BY <1>3 DEF TypeOK, Command, Spoil
  <2>2. low' \in BOOLEAN /\ enabled' \subseteq {"on_nominal_k1", "on_nominal_delta"}
    BY <1>3 DEF TypeOK, Command, CheckLow, CheckState
  <2> QED
    BY <1>3, <2>1, <2>2 DEF TypeOK, Command
<1>4. CASE UNCHANGED vars
  BY <1>4 DEF TypeOK, vars, flags
<1> QED
  BY <1>1, <1>2, <1>3, <1>4 DEF Next

\* Every variable of the detector stays in its range (class Pipepvc).
THEOREM TypeCorrect == Spec => []TypeOK
BY TypeInit, TypeStep, PTL DEF Spec

-----------------------------------------------------------------------------
(* The warm-up.                                                            *)

\* The detector is no further than the run: its timer counts seconds that the
\* motor spent in the watched state, and it compares readings only afterwards.
Behind(x, r) ==
  /\ x.state = "increasing" => r >= x.timer + 1
  /\ x.state \in {"stable", "slope"} => r >= Warm + 2

\* A detector that is not at rest and that nothing has spoiled is called, and
\* belongs to the run under way, unless the motor has changed since the last
\* check.
Followed ==
  spoiled = {} /\ d.state # "low_idle" =>
    /\ watched # {}
    /\ motor \in watched => Behind(d, ran)
    /\ phase = "run" => motor \in watched

WarmupInv == TypeOK /\ Alone /\ Followed

\* One call for the state the motor is in.
LEMMA CallStaysBehind ==
  ASSUME NEW x \in Detector, NEW ref, motor = ref,
         NEW r \in Nat, Behind(x, r), NEW s \in Nat, s >= Warm + 2 \/ s = r + 1
  PROVE  x.state # "slope" => Behind(Call(x, ref), s)
<1> SUFFICES ASSUME x.state # "slope" PROVE Behind(Call(x, ref), s)
  OBVIOUS
<1> USE AirIntakeAssumption
<1>1. CASE x.state = "low_idle"
  <2>1. Call(x, ref) = Enter(x)
    BY <1>1 DEF Call
  <2>2. Enter(x).state = "increasing" /\ Enter(x).timer = 0
    BY DEF Enter, Detector
  <2> QED
    BY <2>1, <2>2 DEF Behind
<1>2. CASE x.state = "stable"
  <2>1. Call(x, ref) = Settled(x)
    BY <1>2 DEF Call
  <2>2. Settled(x).state \in {"stable", "slope"}
    BY <1>2 DEF Settled, Smooth, Detector
  <2>3. s >= Warm + 2
    BY <1>2 DEF Behind
  <2> QED
    BY <2>1, <2>2, <2>3 DEF Behind
<1>3. CASE x.state = "increasing"
  <2>1. Call(x, ref) = Increasing(x)
    BY <1>3 DEF Call
  <2> DEFINE t == IF x.timer > Warm THEN x.timer ELSE x.timer + 1
  <2>2. x.timer \in 0..(Warm + 1) /\ r >= x.timer + 1
    BY <1>3 DEF Behind, Detector
  <2>3. t \in 0..(Warm + 1) /\ s >= t + 1 /\ (t > Warm => s >= Warm + 2)
    BY <2>2
  <2>4. /\ Increasing(x).timer = t
        /\ \/ Increasing(x).state = "increasing"
           \/ t > Warm /\ Increasing(x).state \in {"stable", "slope"}
    <3> DEFINE y == [x EXCEPT !.timer = t]
               c == IF y.count < Stable THEN y.count + 1 ELSE Stable
    <3>1. y.timer = t /\ y.state = "increasing"
      BY <1>3 DEF Detector
    <3>2. Smooth(y).timer = t /\ Smooth(y).state = "increasing"
      BY <1>3, <3>1 DEF Smooth, Detector
    <3>3. CASE t <= Warm
      BY <3>2, <3>3 DEF Increasing
    <3>4. CASE ~(t <= Warm)
      <4>1. t > Warm
        BY <2>3, <3>4
      <4>2. \A z \in {"stable", "slope", "increasing"} :
              /\ [y EXCEPT !.state = z].timer = t
              /\ [y EXCEPT !.state = z].state = z
        BY <3>1 DEF Detector
      <4>3. \A z \in {"stable", "slope", "increasing"} :
              /\ [y EXCEPT !.count = c, !.state = z].timer = t
              /\ [y EXCEPT !.count = c, !.state = z].state = z
        BY <3>1 DEF Detector
      <4> QED
        BY <3>1, <3>2, <3>4, <4>1, <4>2, <4>3 DEF Increasing
    <3> QED
      BY <3>3, <3>4
  <2> QED
    BY <2>1, <2>3, <2>4 DEF Behind
<1>4. x.state \in states
  BY DEF Detector
<1> QED
  BY <1>1, <1>2, <1>3, <1>4 DEF states

\* One call for another state than the motor's.
LEMMA OtherCall ==
  ASSUME NEW x \in Detector, NEW ref, motor # ref
  PROVE  Call(x, ref).state = "low_idle"
<1>1. Leave(x).state = "low_idle"
  BY DEF Leave, Detector
<1>2. x.state \in states
  BY DEF Detector
<1> QED
  BY <1>1, <1>2 DEF Call, states

LEMMA WatchedIs ==
  ASSUME TypeOK, Alone
  PROVE  /\ watched \subseteq {"on_nominal_k1", "on_nominal_delta"}
         /\ \A a, b \in watched : a = b
BY DEF TypeOK, Alone, watched

LEMMA WarmupInit == Init => WarmupInv
BY TypeInit DEF Init, WarmupInv, Alone, Followed

LEMMA SecondKeepsWarmup == WarmupInv /\ Second => WarmupInv'
<1> SUFFICES ASSUME WarmupInv, Second PROVE WarmupInv'
  OBVIOUS
<1>1. TypeOK' /\ Alone'
  BY TypeStep DEF WarmupInv, Next, Second, flags, Alone
<1>2. d' = d /\ watched' = watched /\ phase' = "check" /\ phase = "run"
  BY DEF Second, flags, watched
<1>3. ASSUME spoiled' = {}, d'.state # "low_idle"
      PROVE  watched' # {} /\ (motor' \in watched' => Behind(d', ran'))
  <2>1. spoiled' # spoiled \cup {"restarted"}
    BY <1>3
  <2>2. spoiled' = spoiled /\ ran' = IF motor' # motor THEN 0 ELSE ran
    BY <1>2, <1>3, <2>1 DEF Second, Spoil
  <2>3. motor \in watched /\ Behind(d, ran)
    BY <1>2, <1>3, <2>2 DEF WarmupInv, Followed
  <2>4. motor' \in watched' => motor' = motor
    BY <1>2, <2>3, WatchedIs DEF WarmupInv
  <2> QED
    BY <1>2, <2>2, <2>3, <2>4
<1> QED
  BY <1>1, <1>2, <1>3 DEF WarmupInv, Followed

\* With at most one check enabled, there is at most one call.
LEMMA OneCall ==
  ASSUME TypeOK, Alone, Check, NEW w \in watched
  PROVE  /\ watched = {w} /\ w # "off_idle" /\ w # "none"
         /\ d' = Call(d, w)
         /\ stopped' = IF Alarm(d) THEN motor ELSE "none"
         /\ motor' = IF Alarm(d) THEN "off_idle" ELSE motor
<1>1. watched = {w} /\ w \in {"on_nominal_k1", "on_nominal_delta"}
  BY WatchedIs
<1>2. CASE w = "on_nominal_k1"
  BY <1>1, <1>2 DEF Check, CallIf
<1>3. CASE w = "on_nominal_delta"
  BY <1>1, <1>3 DEF Check, CallIf
<1> QED
  BY <1>1, <1>2, <1>3

LEMMA CheckKeepsWarmup ==
  ASSUME WarmupInv, Check, Stable > 0
  PROVE  WarmupInv'
<1> USE AirIntakeAssumption
<1>1. TypeOK' /\ TypeOK /\ Alone /\ Followed /\ Alone'
  BY TypeStep DEF WarmupInv, Next, Check, flags, Alone
<1>2. watched' = watched /\ phase' = "run"
  BY DEF Check, flags, watched
<1>3. ASSUME spoiled' = {}, d'.state # "low_idle"
      PROVE  motor' \in watched /\ Behind(d', ran')
  <2>1. spoiled = {}
    BY <1>3 DEF Check
  <2>2. PICK w : w \in watched
    <3>1. CASE watched = {}
      <4>1. d' = d
        BY <3>1 DEF Check, CallIf
      <4> QED
        BY <1>1, <1>3, <2>1, <3>1, <4>1 DEF Followed
    <3> QED
      BY <3>1
  <2>3. /\ d' = Call(d, w) /\ watched = {w}
        /\ motor' = IF Alarm(d) THEN "off_idle" ELSE motor
    BY <1>1, <2>2, OneCall
  <2>4. d \in Detector /\ ran \in Nat
    BY <1>1 DEF TypeOK
  <2>5. ~Alarm(d)
    <3>1. Alarm(d) => d' = Leave(d)
      BY <2>3 DEF Call, Alarm
    <3>2. Leave(d).state = "low_idle"
      BY <2>4 DEF Leave, Detector
    <3> QED
      BY <1>3, <3>1, <3>2
  <2>6. motor = w
    BY <1>3, <2>3, <2>4, OtherCall
  <2>7. motor' = w
    BY <2>3, <2>5, <2>6
  <2>8. ran' \in Nat /\ (ran' >= Warm + 2 \/ ran' = ran + 1)
    <3>1. ran' = IF ran <= Warm + Stable THEN ran + 1 ELSE ran
      BY <2>6, <2>7 DEF Check
    <3> QED
      BY <2>4, <3>1
  <2>9. Behind(d, ran)
    <3>1. CASE d.state = "low_idle"
      BY <3>1 DEF Behind
    <3>2. CASE d.state # "low_idle"
      BY <1>1, <2>1, <2>2, <2>6, <3>2 DEF Followed
    <3> QED
      BY <3>1, <3>2
  <2>10. Behind(d', ran')
    BY <2>3, <2>4, <2>5, <2>6, <2>8, <2>9, CallStaysBehind DEF Alarm
  <2> QED
    BY <2>2, <2>7, <2>10
<1> QED
  BY <1>1, <1>2, <1>3 DEF WarmupInv, Followed

LEMMA CommandKeepsWarmup == WarmupInv /\ Command => WarmupInv'
<1> SUFFICES ASSUME WarmupInv, Command PROVE WarmupInv'
  OBVIOUS
<1>1. TypeOK'
  BY TypeStep DEF WarmupInv, Next
<1>2. Alone'
  BY DEF WarmupInv, Alone, Command, CheckLow, CheckState
<1>3. UNCHANGED <<motor, d, phase, ran>>
  BY DEF Command
<1>4. CASE watched' = watched
  <2>1. spoiled' = spoiled
    BY <1>4 DEF Command
  <2> QED
    BY <1>1, <1>2, <1>3, <1>4, <2>1 DEF WarmupInv, Followed, Behind
<1>5. CASE watched' # watched
  <2>1. spoiled' = IF d.state = "low_idle" THEN spoiled
                   ELSE spoiled \cup {"switched"}
    BY <1>5 DEF Command, Spoil
  <2>2. Followed'
    BY <1>3, <2>1 DEF Followed
  <2> QED
    BY <1>1, <1>2, <2>2 DEF WarmupInv
<1> QED
  BY <1>4, <1>5

LEMMA WarmupStep ==
  ASSUME Stable > 0
  PROVE  WarmupInv /\ [Next]_vars => WarmupInv'
<1>1. CASE UNCHANGED vars
  BY <1>1 DEF WarmupInv, TypeOK, Alone, Followed, watched, Behind, vars, flags
<1> QED
  BY <1>1, SecondKeepsWarmup, CheckKeepsWarmup, CommandKeepsWarmup DEF Next

\* The alarm stops no run that the detector has not watched to the end of the
\* warm-up.
LEMMA AlarmIsLate ==
  ASSUME WarmupInv, Check, stopped' \in watched, spoiled = {}
  PROVE  ran > Warm + 1
<1> USE AirIntakeAssumption
<1>1. PICK w \in watched : stopped' = w
  OBVIOUS
<1>2. Alarm(d) /\ motor \in watched
  BY <1>1, OneCall DEF WarmupInv
<1> QED
  BY <1>2 DEF WarmupInv, Followed, Behind, Alarm, TypeOK

\* A run is never stopped for low pressure before the warm-up of
\* air_intake_detect is over, for any pressure curve and any changes of the
\* motor and of the checks, if the detector has followed the run: its check was
\* not switched since it was at rest, nor the motor restarted between seconds.
THEOREM WarmupIsRespected ==
  ASSUME Stable > 0
  PROVE  Spec => WarmupRespected
<1>1. WarmupInv /\ [Next]_vars
        => [Check /\ stopped' \in watched /\ spoiled = {} => ran > Warm + 1]_vars
  BY AlarmIsLate
<1> QED
  BY <1>1, WarmupInit, WarmupStep, PTL DEF Spec, WarmupRespected

=============================================================================
