----------------------------- MODULE PumpProofs -----------------------------
(***************************************************************************)
(* Proofs about Pump, for every choice of its constants.                   *)
(*                                                                         *)
(* The interlock of K2 and K3 rests on what the task has seen: before it   *)
(* drives one of them it must have sampled the other since it last drove   *)
(* it.  Switching to delta samples nothing when it returns (ReturnDelta),  *)
(* so K2 may be driven unseen between two seconds; the argument holds for  *)
(* the callers that do not ask for the star in that window (SafeCalls).    *)
(***************************************************************************)
EXTENDS Pump, TLAPS

\* The callers only start K1, the delta, or the star/delta sequence.
SafeCalls == StartCalls \subseteq {"direct_k1", "to_delta", "y_delta_req"}

\* The contactors are checked ($70:kt never given).
Feedback == CheckModes = {FALSE}

Between == {"idle", "check_y", "check_delta"}

\* Where the task is, and for whom.
ControlInv ==
  /\ pc \in Between <=> mode = "none"
  /\ caller = "none" <=> mode = "none"
  /\ pc = "wait_on" => mode \in Direct
  /\ pc \in {"wait_off", "gap", "drive"} => mode \in {"to_delta", "to_y"}
  /\ caller = "check_y" => mode = "to_y"

\* The starts those callers lead to.
SafeModes ==
  /\ mode \in {"none", "direct_k1", "to_delta", "to_y"}
  /\ mode = "to_y" => caller # "call"
  /\ mode = "direct_k1" => caller = "call"

\* An output of K3 that was not sampled is one to_y has just driven.
Seen3 == 3 \in pin \ k_pin => mode = "to_y" /\ pc = "settle"

\* When K2 or its contactor may be on unseen: between seconds, in a start that
\* a command asked for, or in to_delta.
Blind == pc = "idle" \/ caller = "call" \/ mode = "to_delta"

Seen2 == 2 \in pin \ k_pin => Blind

\* While a star/delta step is under way the other contactor is not driven, and
\* it was seen off once the wait for it is over.
PartnerOff ==
  mode \in {"to_delta", "to_y"} =>
    /\ Partner(mode) \notin pin
    /\ pc \in {"gap", "drive", "settle"} => Partner(mode) \notin k \cup k_pin

PinInv ==
  ControlInv /\ SafeModes /\ Seen3 /\ Seen2 /\ PartnerOff /\ PinInterlock

\* A contactor that is closed without being driven was seen.
Tracked3 == 3 \in closed \ pin => 3 \in k \cup k_pin
Tracked2 == 2 \in closed \ pin => 2 \in k \cup k_pin \/ Blind

\* Neither of K2 and K3 is driven or closed when the other is.
Exclusive == ~(2 \in pin \cup closed /\ 3 \in pin \cup closed)

ContactorInv == check_pin_only = FALSE /\ Tracked3 /\ Tracked2 /\ Exclusive

-----------------------------------------------------------------------------

\* The cases every preservation proof goes through.
LEMMA NextCases ==
  ASSUME Next
  PROVE  \/ Hardware \/ StartStep \/ Update \/ CallStop \/ CallYDelta
         \/ \E m \in StartCalls : CallStart(m)
         \/ \E b \in CheckModes : SetCheck(b)
         \/ \E t \in ShutdownTimes : SetShutdownConfig(t) \/ ForceShutdown(t)
         \/ \E t \in YTimes : SetYTime(t)
  BY DEF Next, Call, AskStart

LEMMA Contactors == 1 \in K /\ 2 \in K /\ 3 \in K
  BY DEF K

LEMMA TargetType == \A m \in Direct : Target[m] \in K
  BY Contactors DEF Target, Direct

LEMMA PairType == \A m : Own(m) \in K /\ Partner(m) \in K
  BY Contactors DEF Own, Partner

\* Every variable stays in its range, for every choice of the constants.
THEOREM TypeCorrect == Spec => []TypeOK
<1> USE PumpAssumption, Contactors DEF TypeOK, start_types, states_motor, Direct,
      hardware, samples, ydelta, timers, control
<1>1. Init => TypeOK
  <2>1. Init => relay \in BOOLEAN /\ rth \in BOOLEAN /\ y_req \in BOOLEAN
    BY Zenon DEF Init
  <2> QED
    BY <2>1 DEF Init
<1>2. ASSUME TypeOK, [Next]_vars PROVE TypeOK'
  <2>1. CASE Hardware
    <3>1. CASE Relay
      BY <1>2, <3>1 DEF Relay
    <3>2. ASSUME NEW n \in K, Contactor(n) PROVE TypeOK'
      BY <1>2, <3>2 DEF Contactor
    <3>3. ASSUME NEW n \in K, Fail(n) PROVE TypeOK'
      BY <1>2, <3>3 DEF Fail
    <3> QED
      BY <2>1, <3>1, <3>2, <3>3 DEF Hardware
  <2>2. CASE Update
    BY <1>2, <2>2 DEF Update, UpdateState, UpdateSwitches, Sample, Classify,
                      Running
  <2>3. CASE CallStop
    <3>1. y_req' \in BOOLEAN
      BY <2>3, Zenon DEF CallStop, Stop
    <3> QED
      BY <1>2, <2>3, <3>1 DEF CallStop, Stop
  <2>4. CASE CallYDelta
    BY <1>2, <2>4 DEF CallYDelta
  <2>5. ASSUME NEW m \in StartCalls, CallStart(m) PROVE TypeOK'
    BY <1>2, <2>5, TargetType DEF CallStart, Begin
  <2>6. ASSUME NEW b \in CheckModes, SetCheck(b) PROVE TypeOK'
    BY <1>2, <2>6 DEF SetCheck
  <2>7. ASSUME NEW t \in ShutdownTimes, SetShutdownConfig(t) \/ ForceShutdown(t)
        PROVE  TypeOK'
    BY <1>2, <2>7 DEF SetShutdownConfig, ForceShutdown
  <2>8. ASSUME NEW t \in YTimes, SetYTime(t) PROVE TypeOK'
    BY <1>2, <2>8 DEF SetYTime
  <2>9. CASE StartStep
    <3>1. CASE WaitOnDone
      BY <1>2, <3>1 DEF WaitOnDone, UpdateSwitches, Sample
    <3>2. CASE WaitOnTimeout
      BY <1>2, <3>2 DEF WaitOnTimeout, Stop, Return, Sample
    <3>3. CASE WaitOffDone
      BY <1>2, <3>3 DEF WaitOffDone, UpdateSwitches, Sample
    <3>4. CASE WaitOffTimeout
      BY <1>2, <3>4 DEF WaitOffTimeout, UpdateSwitches, Sample, KeepReq, Return
    <3>5. CASE Gap
      BY <1>2, <3>5 DEF Gap
    <3>6. CASE Drive
      BY <1>2, <3>6, PairType DEF Drive
    <3>7. CASE ReturnDelta
      BY <1>2, <3>7 DEF ReturnDelta, KeepReq, Return
    <3>8. CASE Finish
      BY <1>2, <3>8 DEF Finish, UpdateState, UpdateSwitches, Sample, Classify,
                        KeepReq, Return
    <3>9. CASE CheckY
      BY <1>2, <3>9 DEF CheckY, Begin
    <3>10. CASE CheckDelta
      BY <1>2, <3>10, TargetType DEF CheckDelta, Begin
    <3>11. CASE CheckWait
      BY <1>2, <3>11 DEF CheckWait
    <3> QED
      BY <2>9, <3>1, <3>2, <3>3, <3>4, <3>5, <3>6, <3>7, <3>8, <3>9, <3>10,
         <3>11 DEF StartStep
  <2>10. CASE UNCHANGED vars
    BY <1>2, <2>10 DEF vars
  <2> QED
    BY <1>2, <2>1, <2>2, <2>3, <2>4, <2>5, <2>6, <2>7, <2>8, <2>9, <2>10,
       NextCases
<1> QED
  BY <1>1, <1>2, PTL DEF Spec

-----------------------------------------------------------------------------
(* The outputs.                                                            *)

LEMMA PinInit == Init => PinInv
  BY DEF Init, PinInv, ControlInv, SafeModes, Seen3, Seen2, Blind, PartnerOff,
         PinInterlock, Between

\* Every step preserves PinInv.
LEMMA PinStep ==
  ASSUME SafeCalls, TypeOK, PinInv, [Next]_vars
  PROVE  PinInv'
<1> USE DEF PinInv, ControlInv, SafeModes, Seen3, Seen2, Blind, PartnerOff, PinInterlock,
            Between, Direct, hardware, samples, ydelta, timers, control
<1>1. CASE Hardware
  BY <1>1 DEF Hardware, Relay, Contactor, Fail
<1>2. CASE Update
  BY <1>2 DEF Update, UpdateState, UpdateSwitches
<1>3. CASE CallStop
  BY <1>3 DEF CallStop, Stop
<1>4. CASE CallYDelta
  BY <1>4 DEF CallYDelta
<1>5. ASSUME NEW m \in StartCalls, CallStart(m) PROVE PinInv'
  <2>1. m \in {"direct_k1", "to_delta"}
    BY <1>5 DEF CallStart, SafeCalls
  <2>2. CASE m = "direct_k1"
    BY <1>5, <2>2 DEF CallStart, Begin, Target, Partner
  <2>3. CASE m = "to_delta"
    BY <1>5, <2>3 DEF CallStart, Begin, Partner
  <2> QED
    BY <2>1, <2>2, <2>3
<1>6. ASSUME NEW b \in CheckModes, SetCheck(b) PROVE PinInv'
  BY <1>6 DEF SetCheck
<1>7. ASSUME NEW t \in ShutdownTimes, SetShutdownConfig(t) \/ ForceShutdown(t)
      PROVE  PinInv'
  BY <1>7 DEF SetShutdownConfig, ForceShutdown
<1>8. ASSUME NEW t \in YTimes, SetYTime(t) PROVE PinInv'
  BY <1>8 DEF SetYTime
<1>9. CASE StartStep
  <2>1. CASE WaitOnDone
    BY <2>1 DEF WaitOnDone, UpdateSwitches
  <2>2. CASE WaitOnTimeout
    BY <2>2 DEF WaitOnTimeout, Stop, Return
  <2>3. CASE WaitOffDone
    BY <2>3 DEF WaitOffDone, UpdateSwitches, Partner
  <2>4. CASE WaitOffTimeout
    BY <2>4 DEF WaitOffTimeout, UpdateSwitches, Return
  <2>5. CASE Gap
    BY <2>5 DEF Gap
  <2>6. CASE Drive
    <3>1. CASE mode = "to_delta"
      BY <2>6, <3>1 DEF Drive, Own, Partner
    <3>2. CASE mode = "to_y"
      BY <2>6, <3>2 DEF Drive, Own, Partner
    <3> QED
      BY <2>6, <3>1, <3>2 DEF Drive
  <2>7. CASE ReturnDelta
    BY <2>7 DEF ReturnDelta, Return, Partner
  <2>8. CASE Finish
    BY <2>8 DEF Finish, UpdateState, UpdateSwitches, Return
  <2>9. CASE CheckY
    BY <2>9 DEF CheckY, Begin, Partner
  <2>10. CASE CheckDelta
    <3>1. CASE y_state = "to_y"
      BY <2>10, <3>1 DEF CheckDelta, Begin, Partner
    <3>2. CASE y_state = "to_delta"
      BY <2>10, <3>2 DEF CheckDelta, Begin, Partner
    <3>3. CASE y_state = "y_delta_req"
      BY <2>10, <3>3 DEF CheckDelta, Begin
    <3> QED
      BY <3>1, <3>2, <3>3 DEF TypeOK
  <2>11. CASE CheckWait
    BY <2>11 DEF CheckWait
  <2> QED
    BY <1>9, <2>1, <2>2, <2>3, <2>4, <2>5, <2>6, <2>7, <2>8, <2>9, <2>10,
       <2>11 DEF StartStep
<1>10. CASE UNCHANGED vars
  BY <1>10 DEF vars
<1> QED
  BY <1>1, <1>2, <1>3, <1>4, <1>5, <1>6, <1>7, <1>8, <1>9, <1>10, NextCases

\* For callers that start only K1, the delta or the star/delta sequence, the
\* outputs of K2 and K3 are never high together, whatever the contactors do.
THEOREM PinsInterlocked ==
  ASSUME SafeCalls
  PROVE  Spec => []PinInterlock
<1>1. TypeOK /\ PinInv /\ [Next]_vars => PinInv'
  BY PinStep
<1>2. PinInv => PinInterlock
  BY DEF PinInv
<1> QED
  BY PinInit, <1>1, <1>2, TypeCorrect, PTL DEF Spec

-----------------------------------------------------------------------------
(* The contactors.                                                         *)

LEMMA ContactorInit == ASSUME Feedback, Init PROVE ContactorInv
  BY DEF Feedback, Init, ContactorInv, Tracked3, Tracked2, Exclusive

LEMMA ContactorStep ==
  ASSUME SafeCalls, Feedback, TypeOK, PinInv, PinInv', ContactorInv, [Next]_vars
  PROVE  ContactorInv'
<1> USE DEF ContactorInv, Tracked3, Tracked2, Exclusive, PinInv, ControlInv,
            SafeModes, Seen3, Seen2, Blind, PartnerOff, PinInterlock, Between,
            Direct, hardware, samples, ydelta, timers, control
<1>1. CASE Hardware
  BY <1>1 DEF Hardware, Relay, Contactor, Fail
<1>2. CASE Update
  BY <1>2 DEF Update, UpdateState, UpdateSwitches, NotOn, Sample
<1>3. CASE CallStop
  BY <1>3 DEF CallStop, Stop
<1>4. CASE CallYDelta
  BY <1>4 DEF CallYDelta
<1>5. ASSUME NEW m \in StartCalls, CallStart(m) PROVE ContactorInv'
  <2>1. m \in {"direct_k1", "to_delta"}
    BY <1>5 DEF CallStart, SafeCalls
  <2>2. CASE m = "direct_k1"
    BY <1>5, <2>2 DEF CallStart, Begin, Target, Partner
  <2>3. CASE m = "to_delta"
    BY <1>5, <2>3 DEF CallStart, Begin, Partner
  <2> QED
    BY <2>1, <2>2, <2>3
<1>6. ASSUME NEW b \in CheckModes, SetCheck(b) PROVE ContactorInv'
  BY <1>6 DEF SetCheck, Feedback
<1>7. ASSUME NEW t \in ShutdownTimes, SetShutdownConfig(t) \/ ForceShutdown(t)
      PROVE  ContactorInv'
  BY <1>7 DEF SetShutdownConfig, ForceShutdown
<1>8. ASSUME NEW t \in YTimes, SetYTime(t) PROVE ContactorInv'
  BY <1>8 DEF SetYTime
<1>9. CASE StartStep
  <2>1. CASE WaitOnDone
    BY <2>1 DEF WaitOnDone, UpdateSwitches, Sample
  <2>2. CASE WaitOnTimeout
    BY <2>2 DEF WaitOnTimeout, Stop, Return, Sample
  <2>3. CASE WaitOffDone
    BY <2>3 DEF WaitOffDone, UpdateSwitches, Partner, Sample
  <2>4. CASE WaitOffTimeout
    BY <2>4 DEF WaitOffTimeout, UpdateSwitches, Return, Sample
  <2>5. CASE Gap
    BY <2>5 DEF Gap
  <2>6. CASE Drive
    <3>1. CASE mode = "to_delta"
      BY <2>6, <3>1 DEF Drive, Own, Partner
    <3>2. CASE mode = "to_y"
      BY <2>6, <3>2 DEF Drive, Own, Partner
    <3> QED
      BY <2>6, <3>1, <3>2 DEF Drive
  <2>7. CASE ReturnDelta
    BY <2>7 DEF ReturnDelta, Return, Partner
  <2>8. CASE Finish
    BY <2>8 DEF Finish, UpdateState, UpdateSwitches, Return, NotOn, Sample
  <2>9. CASE CheckY
    BY <2>9 DEF CheckY, Begin, Partner
  <2>10. CASE CheckDelta
    <3>1. CASE y_state = "to_y"
      BY <2>10, <3>1 DEF CheckDelta, Begin, Partner
    <3>2. CASE y_state = "to_delta"
      BY <2>10, <3>2 DEF CheckDelta, Begin, Partner
    <3>3. CASE y_state = "y_delta_req"
      BY <2>10, <3>3 DEF CheckDelta, Begin
    <3> QED
      BY <3>1, <3>2, <3>3 DEF TypeOK
  <2>11. CASE CheckWait
    BY <2>11 DEF CheckWait
  <2> QED
    BY <1>9, <2>1, <2>2, <2>3, <2>4, <2>5, <2>6, <2>7, <2>8, <2>9, <2>10,
       <2>11 DEF StartStep
<1>10. CASE UNCHANGED vars
  BY <1>10 DEF vars
<1> QED
  BY <1>1, <1>2, <1>3, <1>4, <1>5, <1>6, <1>7, <1>8, <1>9, <1>10, NextCases

\* For the same callers, and with the contactors checked, the contactors K2 and
\* K3 are never closed together, whatever sticks, moves late or drops out.
THEOREM ContactorsInterlocked ==
  ASSUME SafeCalls, Feedback
  PROVE  Spec => []ContactorInterlock
<1>1. Init => ContactorInv
  BY ContactorInit
<1>2. TypeOK /\ PinInv /\ [Next]_vars => PinInv'
  BY PinStep
<1>3. TypeOK /\ PinInv /\ PinInv' /\ ContactorInv /\ [Next]_vars
        => ContactorInv'
  BY ContactorStep
<1>4. ContactorInv => ContactorInterlock
  BY DEF ContactorInv, Exclusive, ContactorInterlock
<1> QED
  BY PinInit, <1>1, <1>2, <1>3, <1>4, TypeCorrect, PTL DEF Spec

-----------------------------------------------------------------------------
(* to_delta, whoever calls what.                                           *)

\* For arbitrary callers: an output of K3 is unseen only inside the start that
\* drives it.
Seen3Any == 3 \in pin \ k_pin => mode \in {"to_y", "direct_k3"}

DeltaOff ==
  mode = "to_delta" =>
    3 \notin pin /\ (pc \in {"gap", "drive", "settle"} => 3 \notin k \cup k_pin)

DeltaInv ==
  /\ ControlInv /\ Seen3Any /\ DeltaOff
  /\ Feedback => check_pin_only = FALSE /\ Tracked3

LEMMA DeltaStep ==
  ASSUME TypeOK, DeltaInv, [Next]_vars
  PROVE  DeltaInv'
<1> USE DEF DeltaInv, ControlInv, Seen3Any, DeltaOff, Tracked3, Between, Direct,
            Feedback, hardware, samples, ydelta, timers, control
<1>1. CASE Hardware
  BY <1>1 DEF Hardware, Relay, Contactor, Fail
<1>2. CASE Update
  BY <1>2 DEF Update, UpdateState, UpdateSwitches, NotOn, Sample
<1>3. CASE CallStop
  BY <1>3 DEF CallStop, Stop
<1>4. CASE CallYDelta
  BY <1>4 DEF CallYDelta
<1>5. ASSUME NEW m \in StartCalls, CallStart(m) PROVE DeltaInv'
  <2>1. ASSUME m \in Direct PROVE DeltaInv'
    <3>1. pc' \in {"settle", "wait_on"}
      BY <1>5, <2>1 DEF CallStart, Begin
    <3>2. 3 \in pin' => 3 \in pin \/ m = "direct_k3"
      BY <1>5, <2>1 DEF CallStart, Begin, Target
    <3>3. pin \subseteq pin' /\ mode' = m /\ caller' = "call"
      BY <1>5, <2>1 DEF CallStart, Begin
    <3> QED
      BY <1>5, <2>1, <3>1, <3>2, <3>3 DEF CallStart, Begin
  <2>2. CASE m = "to_delta"
    BY <1>5, <2>2 DEF CallStart, Begin, Partner
  <2>3. CASE m = "to_y"
    BY <1>5, <2>3 DEF CallStart, Begin, Partner
  <2> QED
    BY <1>5, <2>1, <2>2, <2>3 DEF CallStart, Begin
<1>6. ASSUME NEW b \in CheckModes, SetCheck(b) PROVE DeltaInv'
  <2>1. CheckModes = {FALSE} => b = FALSE
    OBVIOUS
  <2> QED
    BY <1>6, <2>1 DEF SetCheck
<1>7. ASSUME NEW t \in ShutdownTimes, SetShutdownConfig(t) \/ ForceShutdown(t)
      PROVE  DeltaInv'
  BY <1>7 DEF SetShutdownConfig, ForceShutdown
<1>8. ASSUME NEW t \in YTimes, SetYTime(t) PROVE DeltaInv'
  BY <1>8 DEF SetYTime
<1>9. CASE StartStep
  <2>1. CASE WaitOnDone
    BY <2>1 DEF WaitOnDone, UpdateSwitches, Sample
  <2>2. CASE WaitOnTimeout
    BY <2>2 DEF WaitOnTimeout, Stop, Return, Sample
  <2>3. CASE WaitOffDone
    BY <2>3 DEF WaitOffDone, UpdateSwitches, Partner, Sample
  <2>4. CASE WaitOffTimeout
    BY <2>4 DEF WaitOffTimeout, UpdateSwitches, Return, Sample
  <2>5. CASE Gap
    BY <2>5 DEF Gap
  <2>6. CASE Drive
    <3>1. CASE mode = "to_delta"
      <4>1. pin \subseteq pin' /\ (3 \in pin' => 3 \in pin)
        BY <2>6, <3>1 DEF Drive, Own
      <4> QED
        BY <2>6, <3>1, <4>1 DEF Drive, Partner
    <3>2. CASE mode = "to_y"
      BY <2>6, <3>2 DEF Drive, Own, Partner
    <3> QED
      BY <2>6, <3>1, <3>2 DEF Drive
  <2>7. CASE ReturnDelta
    BY <2>7 DEF ReturnDelta, Return
  <2>8. CASE Finish
    BY <2>8 DEF Finish, UpdateState, UpdateSwitches, Return, NotOn, Sample
  <2>9. CASE CheckY
    BY <2>9 DEF CheckY, Begin, Partner
  <2>10. CASE CheckDelta
    <3>1. CASE y_state = "to_y"
      BY <2>10, <3>1 DEF CheckDelta, Begin, Partner
    <3>2. CASE y_state = "to_delta"
      BY <2>10, <3>2 DEF CheckDelta, Begin, Partner
    <3>3. CASE y_state = "y_delta_req"
      BY <2>10, <3>3 DEF CheckDelta, Begin
    <3> QED
      BY <3>1, <3>2, <3>3 DEF TypeOK
  <2>11. CASE CheckWait
    BY <2>11 DEF CheckWait
  <2> QED
    BY <1>9, <2>1, <2>2, <2>3, <2>4, <2>5, <2>6, <2>7, <2>8, <2>9, <2>10,
       <2>11 DEF StartStep
<1>10. CASE UNCHANGED vars
  BY <1>10 DEF vars
<1> QED
  BY <1>1, <1>2, <1>3, <1>4, <1>5, <1>6, <1>7, <1>8, <1>9, <1>10, NextCases

\* Whatever is called in whatever order, to_delta drives K2 only with K3 not
\* driven, and with K3 open if the contactors are checked.
THEOREM DeltaAlwaysBreaksStar == Spec => []DeltaBreaksStar
<1>1. Init => DeltaInv
  BY DEF Init, DeltaInv, ControlInv, Seen3Any, DeltaOff, Tracked3, Between,
         Direct, Feedback
<1>2. TypeOK /\ DeltaInv /\ [Next]_vars => DeltaInv'
  BY DeltaStep
<1>3. DeltaInv => DeltaBreaksStar
  BY DEF DeltaInv, DeltaOff, Feedback, Tracked3, DeltaBreaksStar
<1> QED
  BY <1>1, <1>2, <1>3, TypeCorrect, PTL DEF Spec

-----------------------------------------------------------------------------
(* A stop cancels the delta.                                               *)

\* If the star timer is never configured to zero, it runs whenever the request
\* is gone in the second half of check_start_req_.
CancelInv ==
  /\ pc \in Between <=> caller = "none"
  /\ pc = "wait_on" => mode \in Direct
  /\ pc = "check_y" => y_req
  /\ caller = "check_y" => y_req /\ mode = "to_y"
  /\ pc = "check_delta" /\ ~y_req => y_time > 0
  /\ StopCancelsDelta

LEMMA CancelStep ==
  ASSUME 0 \notin YTimes, TypeOK, CancelInv, [Next]_vars
  PROVE  CancelInv'
<1> USE DEF CancelInv, StopCancelsDelta, Between, Direct, hardware, samples, ydelta, timers,
            control
<1>1. CASE Hardware
  BY <1>1 DEF Hardware, Relay, Contactor, Fail
<1>2. CASE Update
  BY <1>2 DEF Update
<1>3. CASE CallStop
  BY <1>3 DEF CallStop, Stop
<1>4. CASE CallYDelta
  BY <1>4 DEF CallYDelta
<1>5. ASSUME NEW m \in StartCalls, CallStart(m) PROVE CancelInv'
  BY <1>5 DEF CallStart, Begin
<1>6. ASSUME NEW b \in CheckModes, SetCheck(b) PROVE CancelInv'
  BY <1>6 DEF SetCheck
<1>7. ASSUME NEW t \in ShutdownTimes, SetShutdownConfig(t) \/ ForceShutdown(t)
      PROVE  CancelInv'
  BY <1>7 DEF SetShutdownConfig, ForceShutdown
<1>8. ASSUME NEW t \in YTimes, SetYTime(t) PROVE CancelInv'
  BY <1>8 DEF SetYTime
<1>9. CASE StartStep
  <2>1. CASE WaitOnDone
    BY <2>1 DEF WaitOnDone
  <2>2. CASE WaitOnTimeout
    BY <2>2 DEF WaitOnTimeout, Return
  <2>3. CASE WaitOffDone
    BY <2>3 DEF WaitOffDone
  <2>4. CASE WaitOffTimeout
    BY <2>4 DEF WaitOffTimeout, Return, KeepReq
  <2>5. CASE Gap
    BY <2>5 DEF Gap
  <2>6. CASE Drive
    BY <2>6 DEF Drive
  <2>7. CASE ReturnDelta
    BY <2>7 DEF ReturnDelta, Return
  <2>8. CASE Finish
    <3>1. y_time_config \in Nat /\ y_time_config # 0
      BY PumpAssumption DEF TypeOK
    <3> QED
      BY <2>8, <3>1 DEF Finish, Return
  <2>9. CASE CheckY
    BY <2>9 DEF CheckY, Begin
  <2>10. CASE CheckDelta
    BY <2>10 DEF CheckDelta, Begin
  <2>11. CASE CheckWait
    BY <2>11 DEF CheckWait
  <2> QED
    BY <1>9, <2>1, <2>2, <2>3, <2>4, <2>5, <2>6, <2>7, <2>8, <2>9, <2>10,
       <2>11 DEF StartStep
<1>10. CASE UNCHANGED vars
  BY <1>10 DEF vars
<1> QED
  BY <1>1, <1>2, <1>3, <1>4, <1>5, <1>6, <1>7, <1>8, <1>9, <1>10, NextCases

\* Provided $03:m is never given zero, no start is under way in the second half
\* of check_start_req_ once a stop has withdrawn the request.
THEOREM StopAlwaysCancelsDelta ==
  ASSUME 0 \notin YTimes
  PROVE  Spec => []StopCancelsDelta
<1>1. Init => CancelInv
  BY DEF Init, CancelInv, StopCancelsDelta, Between
<1>2. TypeOK /\ CancelInv /\ [Next]_vars => CancelInv'
  BY CancelStep
<1>3. CancelInv => StopCancelsDelta
  BY DEF CancelInv
<1> QED
  BY <1>1, <1>2, <1>3, TypeCorrect, PTL DEF Spec

-----------------------------------------------------------------------------
(* The star is always supervised.                                          *)

\* What check_start_req_ relies on.  The request exists while its first half
\* runs; that half is given up (pc "check_delta" with the star still to be
\* started) only with every output low, and never by a motor that was found
\* idle, for then K2 was seen off and nothing is waited for.
RequestInv ==
  /\ ControlInv
  /\ y_req => y_state # "y_delta_req"
  /\ "check_y" \in {pc, caller} => y_req /\ y_state = "to_y"
  /\ pc = "check_y" /\ motor = "off_idle" => 2 \notin k \cup k_pin
  /\ caller = "check_y" /\ pc = "wait_off" => motor # "off_idle"
  /\ pc = "check_delta" /\ y_req /\ y_state = "to_y" =>
       pin = {} /\ motor # "off_idle"

LEMMA RequestStep ==
  ASSUME TypeOK, RequestInv, [Next]_vars
  PROVE  RequestInv'
<1> USE DEF RequestInv, ControlInv, Between, Direct, hardware, samples, ydelta,
            timers, control
<1>1. CASE Hardware
  BY <1>1 DEF Hardware, Relay, Contactor, Fail
<1>2. CASE Update
  <2>1. pc' = "check_y" => y_req' /\ y_req /\ y_state = "to_y"
    BY <1>2 DEF Update
  <2>2. motor' = "off_idle" => Sample = {} /\ ~Thermal
    BY <1>2 DEF Update, UpdateState, Classify
  <2>3. y_req' => y_req /\ ~NotOn
    BY <1>2 DEF Update
  <2>4. pc' = "check_y" /\ motor' = "off_idle" => 2 \notin k' \cup k_pin'
    BY <1>2, <2>1, <2>2, <2>3 DEF Update, UpdateState, UpdateSwitches, NotOn
  <2> QED
    BY <1>2, <2>1, <2>3, <2>4 DEF Update
<1>3. CASE CallStop
  BY <1>3 DEF CallStop, Stop
<1>4. CASE CallYDelta
  BY <1>4 DEF CallYDelta
<1>5. ASSUME NEW m \in StartCalls, CallStart(m) PROVE RequestInv'
  BY <1>5 DEF CallStart, Begin
<1>6. ASSUME NEW b \in CheckModes, SetCheck(b) PROVE RequestInv'
  BY <1>6 DEF SetCheck
<1>7. ASSUME NEW t \in ShutdownTimes, SetShutdownConfig(t) \/ ForceShutdown(t)
      PROVE  RequestInv'
  BY <1>7 DEF SetShutdownConfig, ForceShutdown
<1>8. ASSUME NEW t \in YTimes, SetYTime(t) PROVE RequestInv'
  BY <1>8 DEF SetYTime
<1>9. CASE StartStep
  <2>1. CASE WaitOnDone
    BY <2>1 DEF WaitOnDone
  <2>2. CASE WaitOnTimeout
    BY <2>2 DEF WaitOnTimeout, Stop, Return
  <2>3. CASE WaitOffDone
    BY <2>3 DEF WaitOffDone
  <2>4. CASE WaitOffTimeout
    BY <2>4 DEF WaitOffTimeout, Return, KeepReq
  <2>5. CASE Gap
    BY <2>5 DEF Gap
  <2>6. CASE Drive
    BY <2>6 DEF Drive
  <2>7. CASE ReturnDelta
    BY <2>7 DEF ReturnDelta, Return, KeepReq
  <2>8. CASE Finish
    BY <2>8 DEF Finish, Return, KeepReq
  <2>9. CASE CheckY
    BY <2>9 DEF CheckY, Begin, Partner
  <2>10. CASE CheckDelta
    BY <2>10 DEF CheckDelta, Begin
  <2>11. CASE CheckWait
    BY <2>11 DEF CheckWait
  <2> QED
    BY <1>9, <2>1, <2>2, <2>3, <2>4, <2>5, <2>6, <2>7, <2>8, <2>9, <2>10,
       <2>11 DEF StartStep
<1>10. CASE UNCHANGED vars
  BY <1>10 DEF vars
<1> QED
  BY <1>1, <1>2, <1>3, <1>4, <1>5, <1>6, <1>7, <1>8, <1>9, <1>10, NextCases

LEMMA RequestCorrect == Spec => []RequestInv
<1>1. Init => RequestInv
  BY DEF Init, RequestInv, ControlInv, Between
<1>2. TypeOK /\ RequestInv /\ [Next]_vars => RequestInv'
  BY RequestStep
<1> QED
  BY <1>1, <1>2, TypeCorrect, PTL DEF Spec

\* With prompt contactors, only a K2 that is stuck closed makes the first half
\* give up; the second half then tries the star again and gives up as well.
Stuck2 == 2 \in k \cap closed \cap faulty /\ ~check_pin_only /\ y_req

StarInv ==
  /\ 3 \in pin => y_req
  /\ pc = "check_delta" => y_state = "to_delta" \/ Stuck2
  /\ mode = "to_y" /\ caller = "check_delta" => pc = "wait_off" /\ Stuck2

LEMMA StarStep ==
  ASSUME Prompt, SafeCalls, TypeOK, PinInv, RequestInv, StarInv, [Next]_vars
  PROVE  StarInv'
<1> USE DEF StarInv, Stuck2, RequestInv, PinInv, ControlInv, SafeModes, PartnerOff,
            Between, Direct, hardware, samples, ydelta, timers, control
<1>1. CASE Hardware
  BY <1>1 DEF Hardware, Relay, Contactor, Fail
<1>2. CASE Update
  BY <1>2 DEF Update, UpdateState, NotOn, TypeOK
<1>3. CASE CallStop
  BY <1>3 DEF CallStop, Stop
<1>4. CASE CallYDelta
  BY <1>4 DEF CallYDelta
<1>5. ASSUME NEW m \in StartCalls, CallStart(m) PROVE StarInv'
  <2>1. m \in {"direct_k1", "to_delta"}
    BY <1>5 DEF CallStart, SafeCalls
  <2>2. 3 \in pin' => 3 \in pin
    BY <1>5, <2>1 DEF CallStart, Begin, Target
  <2>3. pc' # "check_delta" /\ mode' = m /\ UNCHANGED y_req
    BY <1>5 DEF CallStart, Begin
  <2> QED
    BY <2>1, <2>2, <2>3
<1>6. ASSUME NEW b \in CheckModes, SetCheck(b) PROVE StarInv'
  BY <1>6 DEF SetCheck
<1>7. ASSUME NEW t \in ShutdownTimes, SetShutdownConfig(t) \/ ForceShutdown(t)
      PROVE  StarInv'
  BY <1>7 DEF SetShutdownConfig, ForceShutdown
<1>8. ASSUME NEW t \in YTimes, SetYTime(t) PROVE StarInv'
  BY <1>8 DEF SetYTime
<1>9. CASE StartStep
  <2>1. CASE WaitOnDone
    BY <2>1 DEF WaitOnDone
  <2>2. CASE WaitOnTimeout
    BY <2>2 DEF WaitOnTimeout, Stop, Return
  <2>3. CASE WaitOffDone
    BY <2>3 DEF WaitOffDone, Partner, Sample
  <2>4. CASE WaitOffTimeout
    BY <2>4 DEF WaitOffTimeout, UpdateSwitches, Sample, Partner, Return, KeepReq
  <2>5. CASE Gap
    BY <2>5 DEF Gap
  <2>6. CASE Drive
    <3>1. CASE mode = "to_delta"
      BY <2>6, <3>1 DEF Drive, Own
    <3>2. CASE mode = "to_y"
      <4>1. caller = "check_y"
        BY <2>6, <3>2 DEF Drive, TypeOK
      <4> QED
        BY <2>6, <3>2, <4>1 DEF Drive
    <3> QED
      BY <2>6, <3>1, <3>2 DEF Drive
  <2>7. CASE ReturnDelta
    BY <2>7 DEF ReturnDelta, Return, Partner
  <2>8. CASE Finish
    BY <2>8 DEF Finish, UpdateState, Return, KeepReq, NotOn, Partner
  <2>9. CASE CheckY
    BY <2>9 DEF CheckY, Begin
  <2>10. CASE CheckDelta
    <3>1. CASE y_state = "to_y"
      BY <2>10, <3>1 DEF CheckDelta, Begin, Partner
    <3>2. CASE y_state = "to_delta"
      BY <2>10, <3>2 DEF CheckDelta, Begin, Partner
    <3> QED
      BY <2>10, <3>1, <3>2 DEF CheckDelta, TypeOK
  <2>11. CASE CheckWait
    BY <2>11 DEF CheckWait
  <2> QED
    BY <1>9, <2>1, <2>2, <2>3, <2>4, <2>5, <2>6, <2>7, <2>8, <2>9, <2>10,
       <2>11 DEF StartStep
<1>10. CASE UNCHANGED vars
  BY <1>10 DEF vars
<1> QED
  BY <1>1, <1>2, <1>3, <1>4, <1>5, <1>6, <1>7, <1>8, <1>9, <1>10, NextCases

\* With contactors that move within the switching time (any of them may fail),
\* and callers that start only K1, the delta or the star/delta sequence, the
\* star is never left without the request that ends it (check_start_req_).
THEOREM StarAlwaysSupervised ==
  ASSUME Prompt, SafeCalls
  PROVE  Spec => []StarSupervised
<1>1. Init => StarInv
  BY DEF Init, StarInv
<1>2. TypeOK /\ PinInv /\ [Next]_vars => PinInv'
  BY PinStep
<1>3. TypeOK /\ PinInv /\ RequestInv /\ StarInv /\ [Next]_vars => StarInv'
  BY StarStep
<1>4. StarInv => StarSupervised
  BY DEF StarInv, StarSupervised
<1> QED
  BY PinInit, <1>1, <1>2, <1>3, <1>4, RequestCorrect, TypeCorrect, PTL DEF Spec

-----------------------------------------------------------------------------
(* Pump implements Motor.                                                  *)

\* A start that has driven its contactor keeps it driven until it returns, and
\* the second half of check_start_req_ makes the start that the request asks for.
DrivenInv ==
  /\ pc = "settle" /\ mode \in {"to_delta", "to_y"} => Own(mode) \in pin
  /\ caller = "check_delta" => mode = y_state

LEMMA DrivenStep ==
  ASSUME RequestInv, DrivenInv, [Next]_vars
  PROVE  DrivenInv'
<1> USE DEF DrivenInv, RequestInv, ControlInv, Between, Direct, hardware, samples,
            ydelta, timers, control
<1>1. CASE Hardware
  BY <1>1 DEF Hardware, Relay, Contactor, Fail
<1>2. CASE Update \/ CallStop \/ CallYDelta
  BY <1>2 DEF Update, CallStop, CallYDelta
<1>3. ASSUME NEW m \in StartCalls, CallStart(m) PROVE DrivenInv'
  BY <1>3 DEF CallStart, Begin
<1>4. ASSUME NEW b \in CheckModes, SetCheck(b) PROVE DrivenInv'
  BY <1>4 DEF SetCheck
<1>5. ASSUME NEW t \in ShutdownTimes, SetShutdownConfig(t) \/ ForceShutdown(t)
      PROVE  DrivenInv'
  BY <1>5 DEF SetShutdownConfig, ForceShutdown
<1>6. ASSUME NEW t \in YTimes, SetYTime(t) PROVE DrivenInv'
  BY <1>6 DEF SetYTime
<1>7. CASE StartStep
  <2>1. CASE WaitOnDone \/ WaitOffDone \/ Gap \/ Drive
    BY <2>1 DEF WaitOnDone, WaitOffDone, Gap, Drive
  <2>2. CASE WaitOnTimeout \/ WaitOffTimeout \/ ReturnDelta \/ Finish
    BY <2>2 DEF WaitOnTimeout, WaitOffTimeout, ReturnDelta, Finish, Return
  <2>3. CASE CheckY \/ CheckDelta \/ CheckWait
    BY <2>3 DEF CheckY, CheckDelta, CheckWait, Begin
  <2> QED
    BY <1>7, <2>1, <2>2, <2>3 DEF StartStep
<1>8. CASE UNCHANGED vars
  BY <1>8 DEF vars
<1> QED
  BY <1>1, <1>2, <1>3, <1>4, <1>5, <1>6, <1>7, <1>8, NextCases

\* What never fails while the contactors are prompt and the callers supported.
MotorInv == PinInv /\ RequestInv /\ StarInv /\ DrivenInv

\* The first statements of a start: K1 is driven, or the other one of K2 and K3
\* is let go; of K2 only by the star that check_start_req_ begins.
LEMMA BeginRefines ==
  ASSUME NEW m, NEW who, Begin(m, who),
         m \in {"direct_k1", "to_delta", "to_y"},
         m = "to_y" => y_req /\ y_state = "to_y"
  PROVE  [Outputs!Next]_Outputs!vars
<1> USE DEF Direct, hardware, samples, ydelta, timers, control
<1>1. UNCHANGED Wish
  BY DEF Begin, Wish
<1>2. CASE m = "direct_k1"
  <2>1. pin' = pin \cup {1}
    BY <1>2 DEF Begin, Target
  <2> QED
    BY <1>1, <2>1 DEF Outputs!Next, Outputs!Mains
<1>3. CASE m = "to_delta"
  <2>1. pin' = pin \ {3} \/ pin' = pin
    BY <1>3 DEF Begin, Partner
  <2> QED
    BY <1>1, <2>1 DEF Outputs!Next, Outputs!BreakStar, Outputs!vars
<1>4. CASE m = "to_y"
  <2>1. pin' = pin \ {2} \/ pin' = pin
    BY <1>4 DEF Begin, Partner
  <2>2. Wish = "to_y"
    BY <1>4 DEF Wish
  <2> QED
    BY <1>1, <2>1, <2>2 DEF Outputs!Next, Outputs!BreakDelta, Outputs!vars
<1> QED
  BY <1>2, <1>3, <1>4

\* What lowers every output, with the request kept or withdrawn.
LEMMA OffRefines ==
  ASSUME pin' = {}, UNCHANGED y_state, y_req' \in BOOLEAN, y_req' => y_req
  PROVE  [Outputs!Next]_Outputs!vars
<1>1. Wish' \in {Wish, "none"}
  BY DEF Wish
<1> QED
  BY <1>1 DEF Outputs!Next, Outputs!Off

LEMMA StepRefinesMotor ==
  ASSUME Prompt, SafeCalls, TypeOK, MotorInv, [Next]_vars
  PROVE  [Outputs!Next]_Outputs!vars
<1> USE DEF MotorInv, StarInv, RequestInv, DrivenInv, PinInv, ControlInv, SafeModes,
            PartnerOff, Between, hardware, samples, ydelta, timers, control
<1>1. CASE UNCHANGED <<pin, ydelta>>
  BY <1>1 DEF Outputs!vars, Wish
<1>2. CASE Hardware
  BY <1>1, <1>2 DEF Hardware, Relay, Contactor, Fail
<1>3. CASE Update
  <2>1. CASE NotOn
    <3>1. pin' = {} /\ UNCHANGED y_state /\ y_req' = FALSE
      BY <1>3, <2>1 DEF Update, UpdateState
    <3> QED
      BY <3>1, OffRefines
  <2>2. CASE ~NotOn
    BY <1>1, <1>3, <2>2 DEF Update, UpdateState, TypeOK
  <2> QED
    BY <2>1, <2>2
<1>4. CASE CallStop
  BY <1>4, OffRefines DEF CallStop, Stop
<1>5. CASE CallYDelta
  BY <1>5 DEF CallYDelta, Outputs!Next, Outputs!Ask, Wish
<1>6. ASSUME NEW m \in StartCalls, CallStart(m)
      PROVE  [Outputs!Next]_Outputs!vars
  BY <1>6, BeginRefines DEF CallStart, SafeCalls
<1>7. ASSUME NEW b \in CheckModes, SetCheck(b)
      PROVE  [Outputs!Next]_Outputs!vars
  BY <1>1, <1>7 DEF SetCheck
<1>8. ASSUME NEW t \in ShutdownTimes, SetShutdownConfig(t) \/ ForceShutdown(t)
      PROVE  [Outputs!Next]_Outputs!vars
  BY <1>1, <1>8 DEF SetShutdownConfig, ForceShutdown
<1>9. ASSUME NEW t \in YTimes, SetYTime(t)
      PROVE  [Outputs!Next]_Outputs!vars
  BY <1>1, <1>9 DEF SetYTime
<1>10. CASE StartStep
  <2>1. CASE WaitOnDone \/ WaitOffDone \/ Gap
    BY <1>1, <2>1 DEF WaitOnDone, WaitOffDone, Gap
  <2>2. CASE WaitOnTimeout
    BY <2>2, OffRefines DEF WaitOnTimeout, Stop
  <2>3. CASE WaitOffTimeout
    BY <2>3, OffRefines DEF WaitOffTimeout, KeepReq, TypeOK
  <2>4. CASE Drive
    <3>1. UNCHANGED Wish
      BY <2>4 DEF Drive, Wish
    <3>2. CASE mode = "to_delta"
      <4>1. 3 \notin pin /\ pin' \in {pin \cup {2}, pin \cup {1, 2}}
        BY <2>4, <3>2 DEF Drive, Own, Partner
      <4> QED
        BY <3>1, <4>1 DEF Outputs!Next, Outputs!Delta
    <3>3. CASE mode = "to_y"
      <4>1. caller = "check_y"
        BY <2>4, <3>3 DEF Drive, TypeOK
      <4>2. Wish = "to_y"
        BY <4>1 DEF Wish
      <4>3. 2 \notin pin /\ pin' \in {pin \cup {3}, pin \cup {1, 3}}
        BY <2>4, <3>3 DEF Drive, Own, Partner
      <4> QED
        BY <3>1, <4>2, <4>3 DEF Outputs!Next, Outputs!Star
    <3> QED
      BY <2>4, <3>2, <3>3 DEF Drive
  <2>5. CASE ReturnDelta
    <3>1. mode = "to_delta" /\ 2 \in pin /\ y_req /\ UNCHANGED <<pin, y_state>>
      BY <2>5 DEF ReturnDelta, Own
    <3>2. CASE caller = "check_delta"
      <4>1. y_req' = FALSE
        BY <2>5, <3>2 DEF ReturnDelta, KeepReq
      <4>2. Wish = "to_delta" /\ Wish' = "none"
        BY <3>1, <3>2, <4>1 DEF Wish
      <4> QED
        BY <3>1, <4>2 DEF Outputs!Next, Outputs!Done
    <3>3. CASE caller # "check_delta"
      BY <2>5, <3>3 DEF ReturnDelta, KeepReq, Outputs!vars, Wish
    <3> QED
      BY <3>2, <3>3
  <2>6. CASE Finish
    <3>1. CASE NotOn
      <4>1. pin' = {} /\ y_req' = FALSE
        BY <2>6, <3>1 DEF Finish, UpdateState
      <4>2. Wish' = "none"
        BY <4>1 DEF Wish
      <4> QED
        BY <4>1, <4>2 DEF Outputs!Next, Outputs!Off
    <3>2. CASE ~NotOn /\ mode = "to_y"
      <4>1. caller = "check_y"
        BY <2>6, <3>2 DEF Finish, TypeOK
      <4>2. UNCHANGED <<pin, y_req>> /\ y_req /\ y_state = "to_y"
        BY <2>6, <3>2, <4>1 DEF Finish, UpdateState, KeepReq, TypeOK
      <4>3. y_state' = "to_delta" /\ 3 \in pin
        BY <2>6, <3>2, <4>2 DEF Finish, Own
      <4> QED
        BY <4>2, <4>3 DEF Outputs!Next, Outputs!Arm, Wish
    <3>3. CASE ~NotOn /\ mode # "to_y"
      <4>1. UNCHANGED <<pin, y_state>>
        BY <2>6, <3>3 DEF Finish, UpdateState
      <4>2. y_req' = y_req
        BY <2>6, <3>3 DEF Finish, KeepReq, TypeOK
      <4> QED
        BY <4>1, <4>2 DEF Outputs!vars, Wish
    <3> QED
      BY <3>1, <3>2, <3>3
  <2>7. CASE CheckY
    BY <2>7, BeginRefines DEF CheckY
  <2>8. CASE CheckDelta
    <3>1. y_state \in {"to_y", "to_delta"} /\ (y_state = "to_y" => y_req)
      BY <2>8 DEF CheckDelta, Stuck2, TypeOK
    <3> QED
      BY <2>8, <3>1, BeginRefines DEF CheckDelta
  <2>9. CASE CheckWait
    <3>1. UNCHANGED <<pin, y_req, y_state>>
      BY <2>9 DEF CheckWait
    <3> QED
      BY <3>1 DEF Outputs!vars, Wish
  <2> QED
    BY <1>10, <2>1, <2>2, <2>3, <2>4, <2>5, <2>6, <2>7, <2>8, <2>9 DEF StartStep
<1>11. CASE UNCHANGED vars
  BY <1>1, <1>11 DEF vars
<1> QED
  BY <1>2, <1>3, <1>4, <1>5, <1>6, <1>7, <1>8, <1>9, <1>10, <1>11, NextCases

\* Pump implements Motor: whatever fails, stops or is asked in between, the
\* outputs follow the protocol of start, stop and check_start_req_.
THEOREM PumpImplementsMotor ==
  ASSUME Prompt, SafeCalls
  PROVE  Spec => ImplementsMotor
<1>1. Init => MotorInv /\ Outputs!Init
  <2>1. Init => StarInv /\ DrivenInv /\ Outputs!Init
    BY DEF Init, StarInv, DrivenInv, Outputs!Init, Wish
  <2>2. Init => PinInv /\ RequestInv
    BY PinInit DEF Init, RequestInv, ControlInv, Between
  <2> QED
    BY <2>1, <2>2 DEF MotorInv
<1>2. TypeOK /\ MotorInv /\ [Next]_vars => MotorInv'
  BY PinStep, RequestStep, StarStep, DrivenStep DEF MotorInv
<1>3. TypeOK /\ MotorInv /\ [Next]_vars => [Outputs!Next]_Outputs!vars
  BY StepRefinesMotor
<1> QED
  BY <1>1, <1>2, <1>3, TypeCorrect, PTL DEF Spec, ImplementsMotor, Outputs!Spec

=============================================================================
