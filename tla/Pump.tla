-------------------------------- MODULE Pump --------------------------------
(***************************************************************************)
(* The pump controller, class Pump of src/main/acionna/pump.hpp: three     *)
(* outputs that energise the contactors K1, K2 and K3, the feedback inputs *)
(* that report the contactors, the thermal relay, the start and stop       *)
(* sequences and the star/delta state machine.                             *)
(*                                                                         *)
(* K2 and K3 closed together are a short circuit of the mains.             *)
(*                                                                         *)
(* One task (machine_run) executes all of this code.  start() blocks: it   *)
(* drives an output, polls the inputs and sleeps while the contactors move *)
(* on their own, so a start is a sequence of steps (pc) and the hardware   *)
(* interleaves with them.  stop() only ever lowers outputs and is one      *)
(* step, whose effect on the contactors is chosen among what they can do   *)
(* while it polls.                                                         *)
(*                                                                         *)
(* Left out, because no decision reads it: the run log, time_on_,          *)
(* time_off_, the power-on wait countdown and the switching-time           *)
(* statistics.                                                             *)
(*                                                                         *)
(* An operator marked "mutant" is a mistake a programmer could make in the *)
(* definition below it; no specification uses it.                          *)
(***************************************************************************)
EXTENDS Integers, FiniteSets

CONSTANTS
  StartCalls,     \* the start types the callers of start() pass
  CheckModes,     \* the values flag_check_output_pin_only takes ($70:kt)
  ShutdownTimes,  \* the values the run timer is given ($02:s, $02:f)
  YTimes,         \* the values time_delta_to_y_switch_config takes ($03:m)
  Prompt,         \* time_switch_k_change covers the time a sound contactor
                  \* takes to move
  MaxFaults       \* bound: how many contactors fail

K == 1..3

start_types ==
  {"direct_k1", "direct_k2", "direct_k3", "to_delta", "to_y", "y_delta_req"}

states_motor ==
  {"off_idle", "on_nominal_k1", "on_nominal_k2", "on_speeding_up",
   "on_nominal_delta", "off_k3_short_circuit", "off_thermal_activated",
   "undefined"}

ASSUME PumpAssumption ==
  /\ StartCalls \subseteq start_types
  /\ CheckModes \subseteq BOOLEAN /\ CheckModes # {}
  /\ ShutdownTimes \subseteq Nat /\ ShutdownTimes # {}
  /\ YTimes \subseteq Nat /\ YTimes # {}
  /\ Prompt \in BOOLEAN
  /\ MaxFaults \in Nat

VARIABLES
  pin,        \* outputs that are high (ac_load_)
  closed,     \* contactors that are closed (hardware)
  faulty,     \* contactors that no longer follow their output (hardware)
  relay,      \* the thermal relay signals an overload (hardware)
  k,          \* state_kN_: contactors on at the last update_switches_
  k_pin,      \* state_kN_pin_: outputs high at the last update_switches_
  rth,        \* state_Rth_: the relay at the last update_switches_
  check_pin_only,           \* flag_check_output_pin_only
  motor,                    \* state_motor_
  y_req,                    \* flag_start_y_delta_
  y_state,                  \* start_y_delta_state_
  y_time,                   \* time_delta_to_y_switch_
  y_time_config,            \* time_delta_to_y_switch_config
  time_to_shutdown,
  time_to_shutdown_config,
  pc,         \* where the task is inside Pump
  mode,       \* the start type of the start() under way
  caller      \* who called it

hardware == <<closed, faulty, relay>>
samples  == <<k, k_pin, rth>>
ydelta   == <<y_req, y_state, y_time>>
timers   == <<time_to_shutdown, time_to_shutdown_config, y_time_config>>
control  == <<pc, mode, caller>>
vars     == <<pin, hardware, samples, check_pin_only, motor, ydelta, timers,
              control>>

-----------------------------------------------------------------------------
(* What the switches are.                                                  *)

Running ==
  {"on_nominal_k1", "on_nominal_k2", "on_nominal_delta", "on_speeding_up"}

Direct == {"direct_k1", "direct_k2", "direct_k3"}

\* The contactor a direct start closes.
Target == [m \in Direct |->
             IF m = "direct_k1" THEN 1 ELSE IF m = "direct_k2" THEN 2 ELSE 3]

\* to_delta closes K2 and must open K3 first; to_y is the mirror image.
Own(m)     == IF m = "to_delta" THEN 2 ELSE 3
PartnerMistaken(m) == 1  \* mutant: the block copied from K1 was not adapted
Partner(m) == IF m = "to_delta" THEN 3 ELSE 2

\* state_kN_ as update_switches_ computes it: the feedback, or the output
\* itself when the contactors are not to be checked.
SampleOutputs == pin  \* mutant: the feedback is never used
Sample == IF check_pin_only THEN pin ELSE closed

UpdateSwitches == k' = Sample /\ k_pin' = pin /\ rth' = relay

\* The motor state that the contactors on tell.
Classify(on) ==
  CASE on = {}               -> "off_idle"
    [] on = {1}              -> "on_nominal_k1"
    [] on = {2}              -> "on_nominal_k2"
    [] on = {1, 3}           -> "on_speeding_up"
    [] on = {1, 2}           -> "on_nominal_delta"
    [] on \in {{3}, {2, 3}}  -> "off_k3_short_circuit"
    [] OTHER                 -> "undefined"

\* After a delay of time_switch_k_change every sound contactor has moved.
Settled == Prompt => \A n \in K \ faulty : n \in closed <=> n \in pin

-----------------------------------------------------------------------------
(* The calls the operations below are made of.                             *)

\* stop(), entered with samples s (contactors), sp (outputs), sr (relay).
\* It polls until every contactor it sees is off or the wait times out; seen
\* off already, it does not sample again.
Stop(s, sp, sr) ==
  /\ pin' = {}
  /\ y_req' = FALSE
  /\ \/ /\ s = {}
        /\ k' = s /\ k_pin' = sp /\ rth' = sr
        /\ UNCHANGED closed
     \/ /\ s # {}
        /\ \E c \in SUBSET closed :
             /\ closed \cap faulty \subseteq c
             /\ Prompt /\ ~check_pin_only => c \subseteq faulty
             /\ closed' = c
             /\ k' = IF check_pin_only THEN {} ELSE c
        /\ k_pin' = {} /\ rth' = relay

\* update_state_ reports the relay only on the call that first sees it.
ThermalLatched == relay  \* mutant: reported as long as it is tripped
Thermal == relay /\ motor # "off_thermal_activated"

\* update_state_ finds K1 or K2 driven and no contactor on: it calls stop().
NotOn == ~Thermal /\ Sample = {} /\ pin \cap {1, 2} # {}

UpdateState ==
  /\ UpdateSwitches
  /\ pin' = IF NotOn THEN {} ELSE pin
  /\ motor' = IF Thermal THEN "off_thermal_activated" ELSE Classify(Sample)

\* start() returns.  check_start_req_ goes on to its second half after the
\* first call and drops the request after the second.
Return ==
  /\ pc' = IF caller = "check_y" THEN "check_delta" ELSE "idle"
  /\ mode' = "none" /\ caller' = "none"

KeepReqNever  == FALSE  \* mutant: every return drops the request
KeepReqAlways == y_req  \* mutant: the delta leaves the request
KeepReq == y_req /\ caller # "check_delta"

\* The first statements of start(), up to its first wait.
Begin(m, who) ==
  /\ mode' = m /\ caller' = who
  /\ \/ /\ m \in Direct
        /\ pin' = pin \cup {Target[m]}
        /\ pc' = IF Target[m] \in k THEN "settle" ELSE "wait_on"
     \/ /\ m \in {"to_delta", "to_y"}
        /\ LET seen == Partner(m) \in k \cup k_pin IN
             /\ pin' = IF seen THEN pin \ {Partner(m)} ELSE pin
             /\ pc' = IF seen THEN "wait_off" ELSE "drive"
  /\ UNCHANGED <<hardware, samples, check_pin_only, motor, ydelta, timers>>

-----------------------------------------------------------------------------
(* The contactors and the relay (outside the program).                     *)

Contactor(n) ==
  /\ n \notin faulty
  /\ closed' = IF n \in pin THEN closed \cup {n} ELSE closed \ {n}
  /\ closed' # closed
  /\ UNCHANGED <<pin, faulty, relay, samples, check_pin_only, motor, ydelta,
                 timers, control>>

\* A contactor seizes where it is (welded, jammed) or drops out for good.
Fail(n) ==
  /\ n \notin faulty /\ Cardinality(faulty) < MaxFaults
  /\ faulty' = faulty \cup {n}
  /\ closed' \in {closed, closed \ {n}}
  /\ UNCHANGED <<pin, relay, samples, check_pin_only, motor, ydelta, timers,
                 control>>

Relay ==
  /\ relay' = ~relay
  /\ UNCHANGED <<pin, closed, faulty, samples, check_pin_only, motor, ydelta,
                 timers, control>>

-----------------------------------------------------------------------------
(* Calls from the rest of the program, between seconds.                    *)

CallStart(m) ==
  /\ pc = "idle"
  /\ m # "y_delta_req"
  /\ Begin(m, "call")

\* start(y_delta_req) only leaves a request for check_start_req_.
CallYDelta ==
  /\ pc = "idle"
  /\ y_req' = TRUE /\ y_state' = "to_y"
  /\ UNCHANGED <<pin, hardware, samples, check_pin_only, motor, y_time, timers,
                 control>>

CallStop ==
  /\ pc = "idle"
  /\ Stop(k, k_pin, rth)
  /\ UNCHANGED <<faulty, relay, check_pin_only, motor, y_state, y_time, timers,
                 control>>

SetCheck(b) ==
  /\ pc = "idle"
  /\ check_pin_only' = b
  /\ UNCHANGED <<pin, hardware, samples, motor, ydelta, timers, control>>

SetShutdownConfig(t) ==
  /\ pc = "idle"
  /\ time_to_shutdown_config' = t
  /\ UNCHANGED <<pin, hardware, samples, check_pin_only, motor, ydelta,
                 time_to_shutdown, y_time_config, control>>

ForceShutdown(t) ==
  /\ pc = "idle"
  /\ time_to_shutdown' = t
  /\ UNCHANGED <<pin, hardware, samples, check_pin_only, motor, ydelta,
                 time_to_shutdown_config, y_time_config, control>>

SetYTime(t) ==
  /\ pc = "idle"
  /\ y_time_config' = t
  /\ UNCHANGED <<pin, hardware, samples, check_pin_only, motor, ydelta,
                 time_to_shutdown, time_to_shutdown_config, control>>

-----------------------------------------------------------------------------
(* The steps of start() after its first statements.                        *)

\* A direct start sees its contactor on.
WaitOnDone ==
  /\ pc = "wait_on"
  /\ Target[mode] \in Sample
  /\ UpdateSwitches
  /\ pc' = "settle"
  /\ UNCHANGED <<pin, hardware, check_pin_only, motor, ydelta, timers, mode,
                 caller>>

\* ... or gives up: stop(contactor_not_on), return 1.
WaitOnTimeout ==
  /\ pc = "wait_on"
  /\ Target[mode] \notin Sample
  /\ Prompt => Target[mode] \in faulty
  /\ Stop(Sample, pin, relay)
  /\ Return
  /\ UNCHANGED <<faulty, relay, check_pin_only, motor, y_state, y_time, timers>>

\* to_delta or to_y sees the other contactor off and sleeps.
WaitOffDone ==
  /\ pc = "wait_off"
  /\ Partner(mode) \notin Sample \cup pin
  /\ UpdateSwitches
  /\ pc' = "gap"
  /\ UNCHANGED <<pin, hardware, check_pin_only, motor, ydelta, timers, mode,
                 caller>>

\* ... or gives up: lower every output, return 1.
WaitOffTimeout ==
  /\ pc = "wait_off"
  /\ Partner(mode) \in Sample \cup pin
  /\ Prompt => Partner(mode) \in faulty
  /\ UpdateSwitches
  /\ pin' = {}
  /\ y_req' = KeepReq
  /\ Return
  /\ UNCHANGED <<hardware, check_pin_only, motor, y_state, y_time, timers>>

Gap ==
  /\ pc = "gap"
  /\ Settled
  /\ pc' = "drive"
  /\ UNCHANGED <<pin, hardware, samples, check_pin_only, motor, ydelta, timers,
                 mode, caller>>

\* The other contactor was seen off, so drive this one; K1 too, unless it was
\* seen on.  (The else branch, return 1, is never taken: here the other one is
\* off, PartnerOff in PumpProofs.)
Drive ==
  /\ pc = "drive"
  /\ Partner(mode) \notin k \cup k_pin
  /\ pin' = pin \cup {Own(mode)} \cup ({1} \ (k \cup k_pin))
  /\ pc' = "settle"
  /\ UNCHANGED <<hardware, samples, check_pin_only, motor, ydelta, timers, mode,
                 caller>>

\* Inside a star/delta start, to_delta returns here: nothing is sampled.
ReturnDelta ==
  /\ pc = "settle"
  /\ Settled
  /\ mode = "to_delta" /\ y_req
  /\ y_req' = KeepReq
  /\ Return
  /\ UNCHANGED <<pin, hardware, samples, check_pin_only, motor, y_state, y_time,
                 timers>>

\* Every other start ends by sampling and by arming the run timer; to_y also
\* arms the star timer.
Finish ==
  /\ pc = "settle"
  /\ Settled
  /\ ~(mode = "to_delta" /\ y_req)
  /\ UpdateState
  /\ IF mode = "to_y" /\ y_req
     THEN y_state' = "to_delta" /\ y_time' = y_time_config
     ELSE UNCHANGED <<y_state, y_time>>
  /\ y_req' = (KeepReq /\ ~NotOn)
  /\ time_to_shutdown' = time_to_shutdown_config
  /\ Return
  /\ UNCHANGED <<hardware, check_pin_only, time_to_shutdown_config,
                 y_time_config>>

-----------------------------------------------------------------------------
(* update(), once a second.                                                *)

\* update_state_ and update_time_; check_start_req_ follows if requested.
Update ==
  /\ pc = "idle"
  /\ UpdateState
  /\ y_req' = (y_req /\ ~NotOn)
  /\ time_to_shutdown' = IF motor' \in Running /\ time_to_shutdown > 0
                         THEN time_to_shutdown - 1 ELSE time_to_shutdown
  /\ pc' = IF ~y_req' THEN "idle"
           ELSE IF y_state = "to_y" THEN "check_y" ELSE "check_delta"
  /\ UNCHANGED <<hardware, check_pin_only, y_state, y_time,
                 time_to_shutdown_config, y_time_config, mode, caller>>

\* check_start_req_, first half: the star.
CheckY ==
  /\ pc = "check_y"
  /\ Begin("to_y", "check_y")

\* Mutant: the delta does not wait for the star timer.
CheckDeltaEager ==
  /\ pc = "check_delta"
  /\ Begin(y_state, "check_delta")

\* check_start_req_, second half: the star timer is over.
CheckDelta ==
  /\ pc = "check_delta"
  /\ y_time = 0
  /\ Begin(y_state, "check_delta")

\* Mutant: the star timer is counted down without being tested.
CheckWaitUntested ==
  /\ pc = "check_delta"
  /\ y_time' = y_time - 1
  /\ pc' = "idle"
  /\ UNCHANGED <<pin, hardware, samples, check_pin_only, motor, y_req, y_state,
                 timers, mode, caller>>

CheckWait ==
  /\ pc = "check_delta"
  /\ y_time > 0
  /\ y_time' = y_time - 1
  /\ pc' = "idle"
  /\ UNCHANGED <<pin, hardware, samples, check_pin_only, motor, y_req, y_state,
                 timers, mode, caller>>

-----------------------------------------------------------------------------

Init ==
  /\ pin = {} /\ closed = {} /\ faulty = {} /\ relay = FALSE
  /\ k = {} /\ k_pin = {} /\ rth = FALSE
  /\ check_pin_only \in CheckModes
  /\ motor = "off_idle"
  /\ y_req = FALSE /\ y_state = "y_delta_req" /\ y_time = 0
  /\ y_time_config \in YTimes
  /\ time_to_shutdown = 0 /\ time_to_shutdown_config \in ShutdownTimes
  /\ pc = "idle" /\ mode = "none" /\ caller = "none"

Hardware == Relay \/ \E n \in K : Contactor(n) \/ Fail(n)

StartStep ==
  \/ WaitOnDone \/ WaitOnTimeout
  \/ WaitOffDone \/ WaitOffTimeout
  \/ Gap \/ Drive \/ ReturnDelta \/ Finish
  \/ CheckY \/ CheckDelta \/ CheckWait

AskStart ==
  \/ \E m \in StartCalls : CallStart(m)
  \/ "y_delta_req" \in StartCalls /\ CallYDelta

Call ==
  \/ AskStart
  \/ CallStop
  \/ \E b \in CheckModes : SetCheck(b)
  \/ \E t \in ShutdownTimes : SetShutdownConfig(t) \/ ForceShutdown(t)
  \/ \E t \in YTimes : SetYTime(t)

Next == Hardware \/ StartStep \/ Call \/ Update

Spec == Init /\ [][Next]_vars

\* machine_run never stops: a start under way goes on and every second comes.
\* A sound contactor moves in the end.
Fairness ==
  /\ WF_vars(StartStep)
  /\ WF_vars(Update)
  /\ \A n \in K : WF_vars(Contactor(n))

FairSpec == Spec /\ Fairness

-----------------------------------------------------------------------------
(* Properties.                                                             *)

\* Every variable stays in its range.
TypeOK ==
  /\ pin \in SUBSET K /\ closed \in SUBSET K /\ faulty \in SUBSET K
  /\ k \in SUBSET K /\ k_pin \in SUBSET K
  /\ relay \in BOOLEAN /\ rth \in BOOLEAN
  /\ check_pin_only \in CheckModes
  /\ motor \in states_motor
  /\ y_req \in BOOLEAN
  /\ y_state \in {"y_delta_req", "to_y", "to_delta"}
  /\ y_time \in Nat /\ y_time_config \in YTimes
  /\ time_to_shutdown \in Nat /\ time_to_shutdown_config \in ShutdownTimes
  /\ pc \in {"idle", "wait_on", "wait_off", "gap", "drive", "settle",
             "check_y", "check_delta"}
  /\ mode \in {"none"} \cup (start_types \ {"y_delta_req"})
  /\ caller \in {"none", "call", "check_y", "check_delta"}

\* The outputs of K2 and K3 are never high together (pump.hpp:168, :214 and
\* :250: "must follow this sequence to avoid short circuit").
PinInterlock == ~({2, 3} \subseteq pin)

\* Nor are the contactors themselves ever closed together, whatever sticks,
\* is late or drops out.
ContactorInterlock == ~({2, 3} \subseteq closed)

\* to_delta drives K2 only with K3 not driven, whichever commands came before,
\* and with K3 open if the contactors are checked.
DeltaBreaksStar ==
  mode = "to_delta" /\ pc = "settle" =>
    3 \notin pin \cup (IF CheckModes = {FALSE} THEN closed ELSE {})

\* The star is never left without the request that will end it: if the
\* automatic star/delta start is the only one that closes K3, K3 is not driven
\* between seconds unless check_start_req_ still has to switch it to delta.
StarSupervised == pc = "idle" /\ 3 \in pin => y_req

\* A stop between the star and the delta cancels the delta: the second half of
\* check_start_req_, which does not look at the request again, has no start
\* under way once the request is gone.
StopCancelsDelta == caller = "check_delta" => y_req

-----------------------------------------------------------------------------
(* Refinement.                                                             *)

Wish == IF y_req THEN y_state ELSE "none"

Outputs == INSTANCE Motor WITH drive <- pin, wish <- Wish

\* With prompt contactors the outputs follow the protocol of Motor: the star is
\* driven for a request, once, gives way before the delta, and the request is
\* over only with the delta or with every output low (start, stop and
\* check_start_req_).
ImplementsMotor == Outputs!Spec

-----------------------------------------------------------------------------

\* A request of a star/delta start is resolved (delta, or dropped) unless
\* new starts keep being asked for.
StarDeltaResolves ==
  <>[][~AskStart]_vars => (y_req ~> ~y_req)

=============================================================================
