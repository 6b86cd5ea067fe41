-------------------------- MODULE SupervisorProofs ---------------------------
(***************************************************************************)
(* Proofs about Supervisor, for every choice of its constants: the main    *)
(* loop and the hardware do to the pump only what Pump allows, so what is  *)
(* proved of Pump holds of the whole controller.                           *)
(***************************************************************************)
EXTENDS Supervisor, PumpProofs

\* A time that waits to be set is one that the run timer may take.
SetToInv == set_to \in {0} \cup ShutdownTimes

\* A start of an allowed type is a call that Pump allows.
LEMMA StartIsCall ==
  ASSUME NEW m \in StartCalls, Start(m)
  PROVE  Next
  BY DEF Start, Next, Call, AskStart

\* Each step of the loop, of a command or of the hardware is one of Pump's or
\* leaves the pump alone.
LEMMA StepIsPumpStep ==
  ASSUME SetToInv, [SupNext]_sup_vars
  PROVE  [Next]_vars
<1>1. CASE World
  BY <1>1 DEF World, Next
<1>2. CASE Command
  <2>1. ASSUME NEW m \in Commands, StartCommand(m) PROVE Next
    BY <2>1, StartIsCall, SupervisorAssumption DEF StartCommand
  <2>2. CASE StopCommand \/ TimerCommand
    BY <2>2 DEF StopCommand, TimerCommand, Next, Call
  <2>3. CASE ModeCommand \/ ThermalCommand
    BY <2>3 DEF ModeCommand, ThermalCommand
  <2> QED
    BY <1>2, <2>1, <2>2, <2>3 DEF Command
<1>3. CASE PumpStep \/ Second
  BY <1>3 DEF PumpStep, Second, Next
<1>4. CASE StopCheck
  BY <1>4 DEF StopCheck, StopTimeout, StopPressureHigh, StopPressureLow,
              StopThermal, NoStop, Next, Call
<1>5. CASE Operation
  <2>1. CASE LockDown \/ RedTime
    BY <2>1 DEF LockDown, RedTime, Next, Call
  <2>2. CASE NoMatch \/ EndSecond
    BY <2>2 DEF NoMatch, EndSecond
  <2>3. CASE SetTimer
    BY <2>3, SetToInv DEF SetTimer, SetToInv, Next, Call
  <2>4. ASSUME NEW e \in Matches, Match(e) \/ MatchBusy(e) PROVE [Next]_vars
    <3>1. e.mode \in StartCalls
      BY SupervisorAssumption
    <3> QED
      BY <2>4, <3>1, StartIsCall DEF Match, MatchBusy
  <2>5. ASSUME NEW t \in ShutdownTimes, SectorsTime(t) \/ SectorsDefault(t)
        PROVE  Next
    BY <2>5 DEF SectorsTime, SectorsDefault, Next, Call
  <2> QED
    BY <1>5, <2>1, <2>2, <2>3, <2>4, <2>5 DEF Operation
<1>6. CASE UNCHANGED sup_vars
  BY <1>6 DEF sup_vars
<1> QED
  BY <1>1, <1>2, <1>3, <1>4, <1>5, <1>6 DEF SupNext, Task

\* The time that a programmed start leaves for SetTimer is a run time.
LEMMA SetToCorrect == SupSpec => []SetToInv
<1>1. SupInit => SetToInv
  BY DEF SupInit, SetToInv
<1>2. ASSUME SetToInv, [SupNext]_sup_vars PROVE SetToInv'
  <2>1. ASSUME NEW e \in Matches, Match(e) \/ MatchBusy(e) PROVE SetToInv'
    BY <2>1, SupervisorAssumption DEF Match, MatchBusy, SetToInv
  <2>2. CASE World \/ Command \/ PumpStep \/ Second \/ StopCheck
    BY <1>2, <2>2 DEF SetToInv, World, Command, StartCommand, StopCommand,
         TimerCommand, ModeCommand, ThermalCommand, PumpStep, Second, StopCheck,
         StopTimeout, StopPressureHigh, StopPressureLow, StopThermal, NoStop,
         Checked
  <2>3. CASE LockDown \/ NoMatch \/ SetTimer \/ RedTime \/ EndSecond
    BY <1>2, <2>3 DEF SetToInv, LockDown, NoMatch, SetTimer, RedTime, EndSecond
  <2>4. ASSUME NEW t \in ShutdownTimes, SectorsTime(t) \/ SectorsDefault(t)
        PROVE  SetToInv'
    BY <1>2, <2>4 DEF SetToInv, SectorsTime, SectorsDefault
  <2>5. CASE UNCHANGED sup_vars
    BY <1>2, <2>5 DEF SetToInv, sup_vars
  <2> QED
    BY <1>2, <2>1, <2>2, <2>3, <2>4, <2>5 DEF SupNext, Task, Operation
<1> QED
  BY <1>1, <1>2, PTL DEF SupSpec

\* The main loop (machine_run, operation_mode) and the hardware implement the
\* pump's specification.
THEOREM LoopImplementsPump == SupSpec => ImplementsPump
<1>1. SupInit => Init
  BY DEF SupInit
<1> QED
  BY <1>1, SetToCorrect, StepIsPumpStep, PTL DEF SupSpec, ImplementsPump, Spec

\* What the loop itself keeps has its type.
LoopType ==
  /\ phase \in {"run", "update", "operation", "set_timer", "tail", "sectors"}
  /\ state_mode \in Modes /\ check_thermal \in BOOLEAN
  /\ asked \in {0} \cup ShutdownTimes
  /\ hot \in Nat

LEMMA LoopTypeCorrect == SupSpec => []LoopType
<1> USE DEF LoopType, settings, history
<1>1. SupInit => LoopType
  <2>1. SupInit => check_thermal \in BOOLEAN
    BY Zenon DEF SupInit
  <2> QED
    BY <2>1 DEF SupInit
<1>2. ASSUME LoopType, [SupNext]_sup_vars PROVE LoopType'
  <2>1. CASE World \/ Second \/ PumpStep
    BY <1>2, <2>1 DEF World, Second, PumpStep
  <2>2. CASE Command
    <3>1. CASE ThermalCommand
      <4>1. check_thermal' \in BOOLEAN
        BY <3>1, Zenon DEF ThermalCommand
      <4> QED
        BY <1>2, <3>1, <4>1 DEF ThermalCommand
    <3>2. CASE StopCommand \/ TimerCommand \/ ModeCommand
      BY <1>2, <3>2 DEF StopCommand, TimerCommand, ModeCommand
    <3>3. ASSUME NEW m \in Commands, StartCommand(m) PROVE LoopType'
      BY <1>2, <3>3 DEF StartCommand
    <3> QED
      BY <2>2, <3>1, <3>2, <3>3 DEF Command
  <2>3. CASE StopCheck
    BY <1>2, <2>3 DEF StopCheck, StopTimeout, StopPressureHigh,
         StopPressureLow, StopThermal, NoStop, Checked
  <2>4. CASE LockDown \/ NoMatch \/ SetTimer \/ RedTime \/ EndSecond
    BY <1>2, <2>4 DEF LockDown, NoMatch, SetTimer, RedTime, EndSecond
  <2>5. ASSUME NEW e \in Matches, Match(e) \/ MatchBusy(e) PROVE LoopType'
    BY <1>2, <2>5, SupervisorAssumption DEF Match, MatchBusy
  <2>6. ASSUME NEW t \in ShutdownTimes, SectorsTime(t) \/ SectorsDefault(t)
        PROVE  LoopType'
    BY <1>2, <2>6 DEF SectorsTime, SectorsDefault
  <2>7. CASE UNCHANGED sup_vars
    BY <1>2, <2>7 DEF sup_vars
  <2> QED
    BY <1>2, <2>1, <2>2, <2>3, <2>4, <2>5, <2>6, <2>7
       DEF SupNext, Task, Operation
<1> QED
  BY <1>1, <1>2, PTL DEF SupSpec

\* Every variable of the controller stays in its range.
THEOREM LoopTypesCorrect == SupSpec => []SupTypeOK
<1>1. TypeOK /\ LoopType /\ SetToInv => SupTypeOK
  BY DEF LoopType, SetToInv, SupTypeOK
<1> QED
  BY <1>1, LoopImplementsPump, TypeCorrect, LoopTypeCorrect, SetToCorrect, PTL
     DEF ImplementsPump

\* Whatever the modes, the commands and the programmed starts of the supported
\* types do, K2 and K3 are never closed together.
THEOREM LoopKeepsInterlock ==
  ASSUME SafeCalls, Feedback
  PROVE  SupSpec => []ContactorInterlock
  BY LoopImplementsPump, ContactorsInterlocked, PTL DEF ImplementsPump

\* With prompt contactors, the controller never leaves a star it started
\* without the request that ends it, whatever stops it on the way.
THEOREM LoopSupervisesStar ==
  ASSUME Prompt, SafeCalls
  PROVE  SupSpec => []StarSupervised
  BY LoopImplementsPump, StarAlwaysSupervised, PTL DEF ImplementsPump

\* The outputs follow the protocol of Motor in the whole controller: whatever
\* modes, commands and programmed starts come in between.
THEOREM LoopImplementsMotor ==
  ASSUME Prompt, SafeCalls
  PROVE  SupSpec => ImplementsMotor
  BY LoopImplementsPump, PumpImplementsMotor, PTL DEF ImplementsPump

-----------------------------------------------------------------------------
(* Where the loop is, and what may start.                                  *)

\* What the pump's own invariants say of it, in the loop.
PumpInv == TypeOK /\ RequestInv

LEMMA PumpInvCorrect == SupSpec => []PumpInv
<1>1. TypeOK /\ RequestInv => PumpInv
  BY DEF PumpInv
<1> QED
  BY <1>1, LoopImplementsPump, TypeCorrect, RequestCorrect, PTL
     DEF ImplementsPump

\* check_start_req_ belongs to update(), the starts of commands and programmed
\* times do not; the stops and the modes find the pump at rest.
PhaseInv ==
  /\ phase = "update" => caller # "call"
  /\ phase # "update" =>
       {pc, caller} \cap {"check_y", "check_delta"} = {}
  /\ phase \in {"operation", "tail", "sectors"} => pc = "idle"

\* The only start under way or requested is the switch to delta, which samples
\* nothing and arms no timer.
Quiet ==
  /\ y_req => y_state = "to_delta"
  /\ caller # "check_y"
  /\ caller = "check_delta" => mode = "to_delta" /\ y_req
  /\ pc = "check_delta" => y_req

\* Such a start runs to its end without a look at the contactors.
LEMMA QuietStart ==
  ASSUME PumpInv, Quiet, caller # "call", StartStep
  PROVE  Quiet' /\ caller' # "call" /\ UNCHANGED <<motor, time_to_shutdown>>
<1> USE DEF Quiet, PumpInv, RequestInv, ControlInv, Between, Direct, timers,
            control, ydelta
<1>1. CASE WaitOnDone \/ WaitOnTimeout
  BY <1>1 DEF WaitOnDone, WaitOnTimeout, TypeOK
<1>2. CASE WaitOffDone \/ Gap \/ Drive
  BY <1>2 DEF WaitOffDone, Gap, Drive
<1>3. CASE WaitOffTimeout
  BY <1>3 DEF WaitOffTimeout, Return, KeepReq, TypeOK
<1>4. CASE ReturnDelta
  BY <1>4 DEF ReturnDelta, Return, KeepReq, TypeOK
<1>5. CASE Finish
  BY <1>5 DEF Finish, TypeOK
<1>6. CASE CheckY
  BY <1>6 DEF CheckY
<1>7. CASE CheckDelta
  BY <1>7 DEF CheckDelta, Begin
<1>8. CASE CheckWait
  BY <1>8 DEF CheckWait
<1> QED
  BY <1>1, <1>2, <1>3, <1>4, <1>5, <1>6, <1>7, <1>8 DEF StartStep

\* A step inside Pump keeps its caller until it returns, and what
\* check_start_req_ started it goes on with.
LEMMA StartCaller ==
  ASSUME PumpInv, StartStep
  PROVE  /\ caller # "call" => caller' # "call"
         /\ {pc, caller} \cap {"check_y", "check_delta"} = {} =>
              {pc', caller'} \cap {"check_y", "check_delta"} = {}
         /\ pc # "idle"
<1> USE DEF PumpInv, RequestInv, ControlInv, Between, control
<1>1. CASE WaitOnDone \/ WaitOffDone \/ Gap \/ Drive \/ CheckWait
  BY <1>1 DEF WaitOnDone, WaitOffDone, Gap, Drive, CheckWait
<1>2. CASE WaitOnTimeout \/ WaitOffTimeout \/ ReturnDelta \/ Finish
  BY <1>2 DEF WaitOnTimeout, WaitOffTimeout, ReturnDelta, Finish, Return
<1>3. CASE CheckY \/ CheckDelta
  BY <1>3 DEF CheckY, CheckDelta, Begin
<1> QED
  BY <1>1, <1>2, <1>3 DEF StartStep

\* A call leaves the pump at rest or in a start of its own.
LEMMA StartCalled ==
  ASSUME PumpInv, NEW m, Start(m)
  PROVE  /\ pc = "idle"
         /\ {pc', caller'} \cap {"check_y", "check_delta"} = {}
  BY DEF Start, CallStart, CallYDelta, Begin, PumpInv, RequestInv, ControlInv,
         Between, control

LEMMA StopCalled ==
  ASSUME PumpInv, CallStop
  PROVE  /\ pc = "idle" /\ pc' = "idle" /\ caller' = "none" /\ y_req' = FALSE
         /\ pin' = {}
         /\ UNCHANGED <<motor, y_state, time_to_shutdown, mode>>
  BY DEF CallStop, Stop, PumpInv, RequestInv, ControlInv, Between, control,
         timers

LEMMA SetCalled ==
  ASSUME PumpInv, NEW t,
         SetShutdownConfig(t) \/ ForceShutdown(t) \/ SetYTime(t) \/ SetCheck(t)
  PROVE  /\ pc = "idle" /\ caller = "none"
         /\ UNCHANGED <<motor, ydelta, control, pin, rth>>
  BY DEF SetShutdownConfig, ForceShutdown, SetYTime, SetCheck, PumpInv,
         RequestInv, ControlInv, Between, control, timers, samples

LEMMA PhaseStep ==
  ASSUME PumpInv, LoopType, PhaseInv, [SupNext]_sup_vars
  PROVE  PhaseInv'
<1> USE DEF PhaseInv
<1>1. CASE World
  BY <1>1 DEF World, Hardware, Relay, Contactor, Fail, control
<1>2. ASSUME NEW m \in Commands, StartCommand(m) PROVE PhaseInv'
  BY <1>2, StartCalled DEF StartCommand, Between_seconds
<1>3. CASE StopCommand
  BY <1>3, StopCalled DEF StopCommand, Between_seconds
<1>4. CASE TimerCommand
  BY <1>4, SetCalled DEF TimerCommand, Between_seconds, control
<1>5. CASE ModeCommand \/ ThermalCommand
  BY <1>5 DEF ModeCommand, ThermalCommand, vars, control
<1>6. CASE Second
  BY <1>6 DEF Second, Update, PumpInv, RequestInv, ControlInv, Between
<1>7. CASE PumpStep
  BY <1>7, StartCaller DEF PumpStep, LoopType
<1>8. CASE StopCheck
  <2>1. CASE NoStop
    BY <2>1 DEF NoStop, Checked, vars, control, PumpInv, RequestInv,
                ControlInv, Between
  <2>2. ASSUME CallStop, Checked PROVE PhaseInv'
    BY <2>2, StopCalled DEF Checked
  <2> QED
    BY <1>8, <2>1, <2>2 DEF StopCheck, StopTimeout, StopPressureHigh,
                            StopPressureLow, StopThermal
<1>9. CASE LockDown
  BY <1>9, StopCalled DEF LockDown, vars, control
<1>10. CASE NoMatch \/ EndSecond
  BY <1>10 DEF NoMatch, EndSecond, vars, control
<1>11. CASE SetTimer
  BY <1>11, SetCalled DEF SetTimer, vars, control
<1>12. CASE RedTime
  BY <1>12, StopCalled DEF RedTime
<1>13. ASSUME NEW e \in Matches, Match(e) \/ MatchBusy(e) PROVE PhaseInv'
  BY <1>13, StartCalled DEF Match, MatchBusy, vars, control
<1>14. ASSUME NEW t \in ShutdownTimes, SectorsTime(t) \/ SectorsDefault(t)
       PROVE  PhaseInv'
  BY <1>14, SetCalled DEF SectorsTime, SectorsDefault, control
<1>15. CASE UNCHANGED sup_vars
  BY <1>15 DEF sup_vars, vars, control
<1> QED
  BY <1>1, <1>2, <1>3, <1>4, <1>5, <1>6, <1>7, <1>8, <1>9, <1>10, <1>11, <1>12,
     <1>13, <1>14, <1>15 DEF SupNext, Command, Task, Operation

-----------------------------------------------------------------------------
(* A tripped relay stops the motor.                                        *)

\* After a check that saw the relay tripped and left an output high, the motor
\* shows the overload; the next update() shows the contactors again, and no
\* start that could hide them a second time follows it.
TripInv ==
  /\ phase = "update" /\ pc = "idle" /\ y_req /\ y_state = "to_y" => pin = {}
  /\ hot # 0 =>
       /\ hot = 1 /\ Quiet
       /\ phase = "update" <=> motor # "off_thermal_activated"
       /\ phase # "update" => pc = "idle"

\* What the pump does in the second in which the loop checks it.
LEMMA TripSecond ==
  ASSUME PumpInv, PhaseInv, TripInv, Second
  PROVE  TripInv'
<1> USE DEF TripInv
<1>1. phase = "run" /\ phase' = "update" /\ Update /\ pc = "idle" /\ hot' = hot
  BY DEF Second, Between_seconds, history
<1>2. pc' = "idle" => ~y_req'
  BY <1>1 DEF Update
<1>3. ASSUME hot # 0 PROVE Quiet' /\ motor' # "off_thermal_activated"
  <2>1. motor = "off_thermal_activated" /\ Quiet
    BY <1>1, <1>3
  <2>2. motor' = Classify(Sample)
    BY <1>1, <2>1 DEF Update, UpdateState, Thermal
  <2>3. motor' # "off_thermal_activated"
    BY <2>2 DEF Classify
  <2>4. Quiet'
    BY <1>1, <2>1 DEF Update, Quiet, PumpInv, RequestInv, ControlInv, Between
  <2> QED
    BY <2>3, <2>4
<1> QED
  BY <1>1, <1>2, <1>3

LEMMA TripPump ==
  ASSUME PumpInv, LoopType, PhaseInv, TripInv, PumpStep
  PROVE  TripInv'
<1> USE DEF TripInv
<1>1. StartStep /\ phase' = phase /\ hot' = hot
  BY DEF PumpStep, history
<1>2. CASE phase # "update"
  BY <1>1, <1>2, StartCaller
<1>3. CASE phase = "update"
  <2>1. caller # "call"
    BY <1>3 DEF PhaseInv
  <2>2. pc' = "idle" /\ y_req' /\ y_state' = "to_y" => pin' = {}
    <3> USE DEF PumpInv, RequestInv, ControlInv, Between, control, KeepReq,
                Return
    <3>1. CASE WaitOnDone \/ WaitOffDone \/ Gap \/ Drive
      BY <3>1 DEF WaitOnDone, WaitOffDone, Gap, Drive
    <3>2. CASE WaitOnTimeout
      BY <3>2 DEF WaitOnTimeout, Stop
    <3>3. CASE WaitOffTimeout
      BY <3>3 DEF WaitOffTimeout
    <3>4. CASE ReturnDelta \/ Finish
      BY <2>1, <3>4 DEF ReturnDelta, Finish, TypeOK
    <3>5. CASE CheckY \/ CheckDelta
      BY <3>5 DEF CheckY, CheckDelta, Begin
    <3>6. CASE CheckWait
      BY <3>6 DEF CheckWait
    <3> QED
      BY <1>1, <3>1, <3>2, <3>3, <3>4, <3>5, <3>6 DEF StartStep
  <2> QED
    BY <1>1, <1>3, <2>1, <2>2, QuietStart
<1> QED
  BY <1>2, <1>3

LEMMA TripCheck ==
  ASSUME PumpInv, LoopType, PhaseInv, TripInv, StopCheck
  PROVE  TripInv'
<1> USE DEF TripInv
<1>1. ASSUME CallStop, Checked PROVE TripInv'
  BY <1>1, StopCalled DEF Checked
<1>2. CASE NoStop
  <2>1. /\ ~Tripped /\ phase = "update" /\ phase' = "operation" /\ pc = "idle"
        /\ UNCHANGED <<motor, pin, rth, pc, caller, mode, y_req, y_state>>
        /\ hot' = IF check_thermal /\ rth /\ pin # {} THEN hot + 1 ELSE 0
    BY <1>2 DEF NoStop, Checked, vars, samples, ydelta, control
  <2>2. CASE check_thermal /\ rth /\ pin # {}
    <3>1. motor = "off_thermal_activated"
      BY <2>1, <2>2 DEF Tripped
    <3>2. hot = 0 /\ hot' = 1
      BY <2>1, <2>2, <3>1
    <3>3. y_req => y_state = "to_delta"
      BY <2>1, <2>2 DEF PumpInv, RequestInv, TypeOK
    <3>4. Quiet'
      BY <2>1, <3>3 DEF Quiet, PumpInv, RequestInv, ControlInv, Between
    <3> QED
      BY <2>1, <3>1, <3>2, <3>4
  <2>3. CASE ~(check_thermal /\ rth /\ pin # {})
    BY <2>1, <2>3
  <2> QED
    BY <2>2, <2>3
<1> QED
  BY <1>1, <1>2 DEF StopCheck, StopTimeout, StopPressureHigh, StopPressureLow,
                    StopThermal

LEMMA TripStep ==
  ASSUME PumpInv, LoopType, PhaseInv, TripInv, [SupNext]_sup_vars
  PROVE  TripInv'
<1> USE DEF TripInv
<1>1. CASE World
  BY <1>1 DEF World, Hardware, Relay, Contactor, Fail, control, ydelta, history,
              Quiet
<1>2. ASSUME NEW m \in Commands, StartCommand(m) PROVE TripInv'
  BY <1>2 DEF StartCommand, Between_seconds
<1>3. CASE StopCommand
  BY <1>3, StopCalled DEF StopCommand, Between_seconds, history, Quiet
<1>4. CASE TimerCommand
  BY <1>4, SetCalled DEF TimerCommand, Between_seconds, control, ydelta, Quiet
<1>5. CASE ModeCommand \/ ThermalCommand
  BY <1>5 DEF ModeCommand, ThermalCommand, vars, control, ydelta, history,
              Between_seconds, Quiet
<1>6. CASE LockDown
  BY <1>6, StopCalled DEF LockDown, vars, control, ydelta, history, Quiet
<1>7. CASE NoMatch \/ EndSecond
  BY <1>7 DEF NoMatch, EndSecond, vars, control, ydelta, history, Quiet
<1>8. CASE SetTimer
  BY <1>8, SetCalled DEF SetTimer, vars, control, ydelta, history, Quiet
<1>9. CASE RedTime
  BY <1>9, StopCalled DEF RedTime, history, Quiet
<1>10. ASSUME NEW e \in Matches, Match(e) \/ MatchBusy(e) PROVE TripInv'
  BY <1>10 DEF Match, MatchBusy, vars, control, ydelta, Quiet
<1>11. ASSUME NEW t \in ShutdownTimes, SectorsTime(t) \/ SectorsDefault(t)
       PROVE  TripInv'
  BY <1>11, SetCalled DEF SectorsTime, SectorsDefault, control, ydelta, history,
                          Quiet
<1>12. CASE UNCHANGED sup_vars
  BY <1>12 DEF sup_vars, vars, control, ydelta, history, Quiet
<1> QED
  BY <1>1, <1>2, <1>3, <1>4, <1>5, <1>6, <1>7, <1>8, <1>9, <1>10, <1>11, <1>12,
     TripSecond, TripPump, TripCheck DEF SupNext, Command, Task, Operation

\* What the loop needs to know of itself.
LoopInv == PumpInv /\ LoopType /\ PhaseInv

LEMMA LoopInvCorrect == SupSpec => []LoopInv
<1>1. SupInit => PhaseInv
  BY DEF SupInit, Init, PhaseInv
<1>2. PumpInv /\ LoopType /\ PhaseInv /\ [SupNext]_sup_vars => PhaseInv'
  BY PhaseStep
<1>3. PumpInv /\ LoopType /\ PhaseInv => LoopInv
  BY DEF LoopInv
<1> QED
  BY <1>1, <1>2, <1>3, PumpInvCorrect, LoopTypeCorrect, PTL DEF SupSpec

\* No output survives two checks in a row that sampled the relay tripped, unless
\* a start came between (update_state_, operation_pump_stop_check): for any
\* callers, contactors, modes and times.
THEOREM TripAlwaysStopsRun == SupSpec => []TripStopsRun
<1>1. SupInit => TripInv
  BY DEF SupInit, TripInv
<1>2. LoopInv /\ TripInv /\ [SupNext]_sup_vars => TripInv'
  BY TripStep DEF LoopInv
<1>3. LoopInv /\ TripInv => TripStopsRun
  BY DEF LoopInv, LoopType, TripInv, TripStopsRun
<1> QED
  BY <1>1, <1>2, <1>3, LoopInvCorrect, PTL DEF SupSpec

-----------------------------------------------------------------------------
(* The time of a programmed start.                                         *)

\* No programmed start asks for the star/delta sequence, whose second half
\* arms the timer anew after the programme's time was set.
DirectMatches == \A e \in Matches : e.mode # "y_delta_req"

\* While a programmed time is in force no start that arms the timer is
\* requested, and the timer is within it, or about to be set to it.  A request
\* of the star that was given up does not let the motor look idle, so no
\* programmed start comes on top of it.
MatchInv ==
  /\ phase \in {"update", "operation"} /\ pc = "idle" /\ y_req
       /\ y_state = "to_y" => motor # "off_idle"
  /\ asked # 0 =>
       /\ Quiet
       /\ phase \notin {"update", "set_timer"} => pc = "idle"
       /\ \/ phase = "set_timer" /\ set_to = asked
          \/ /\ time_to_shutdown <= asked
             /\ phase = "set_timer" => set_to = 0 /\ pc = "idle"

LEMMA MatchSecond ==
  ASSUME LoopInv, MatchInv, Second
  PROVE  MatchInv'
<1> USE DEF MatchInv, LoopInv
<1>1. /\ phase = "run" /\ phase' = "update" /\ Update /\ pc = "idle"
      /\ asked' = asked
  BY DEF Second, Between_seconds, history
<1>2. pc' = "idle" => ~y_req'
  BY <1>1 DEF Update
<1>3. asked # 0 => Quiet'
  BY <1>1 DEF Update, Quiet, PumpInv, RequestInv, ControlInv, Between
<1>4. /\ time_to_shutdown \in Nat
      /\ asked \in Nat
      /\ time_to_shutdown' <= time_to_shutdown /\ time_to_shutdown' \in Nat
  BY <1>1, SupervisorAssumption, PumpAssumption
     DEF Update, PumpInv, TypeOK, LoopType
<1> QED
  BY <1>1, <1>2, <1>3, <1>4

LEMMA MatchPump ==
  ASSUME LoopInv, MatchInv, PumpStep
  PROVE  MatchInv'
<1> USE DEF MatchInv, LoopInv
<1>1. StartStep /\ UNCHANGED <<phase, asked, set_to>> /\ pc # "idle"
  BY StartCaller DEF PumpStep, history
<1>2. ASSUME asked # 0, phase = "update"
      PROVE  Quiet' /\ UNCHANGED time_to_shutdown
  BY <1>1, <1>2, QuietStart DEF PhaseInv
<1>3. ASSUME asked # 0, phase # "update"
      PROVE  Quiet' /\ phase = "set_timer" /\ set_to = asked
  <2>1. phase = "set_timer" /\ set_to = asked
    BY <1>1, <1>3
  <2>2. {pc', caller'} \cap {"check_y", "check_delta"} = {}
    BY <1>1, <1>3, StartCaller DEF PhaseInv
  <2>3. y_req' => y_req /\ y_state' \in {y_state, "to_delta"}
    <3>1. CASE WaitOnDone \/ WaitOffDone \/ Gap \/ Drive \/ CheckWait
      BY <3>1 DEF WaitOnDone, WaitOffDone, Gap, Drive, CheckWait, ydelta
    <3>2. CASE WaitOnTimeout \/ WaitOffTimeout \/ ReturnDelta \/ Finish
      BY <3>2 DEF WaitOnTimeout, WaitOffTimeout, ReturnDelta, Finish, Stop,
                  KeepReq
    <3>3. CASE CheckY \/ CheckDelta
      BY <3>3 DEF CheckY, CheckDelta, Begin, ydelta
    <3> QED
      BY <1>1, <3>1, <3>2, <3>3 DEF StartStep
  <2> QED
    BY <1>3, <2>1, <2>2, <2>3 DEF Quiet
<1>4. ASSUME phase = "update", pc' = "idle", y_req', y_state' = "to_y"
      PROVE  motor' # "off_idle"
  <2>1. caller # "call"
    BY <1>4 DEF PhaseInv
  <2> USE DEF PumpInv, RequestInv, ControlInv, Between, control, KeepReq, Return
  <2>2. CASE WaitOnDone \/ WaitOffDone \/ Gap \/ Drive
    BY <1>4, <2>2 DEF WaitOnDone, WaitOffDone, Gap, Drive
  <2>3. CASE WaitOnTimeout \/ WaitOffTimeout
    BY <1>4, <2>1, <2>3 DEF WaitOnTimeout, WaitOffTimeout, Stop, TypeOK
  <2>4. CASE ReturnDelta \/ Finish
    BY <1>4, <2>1, <2>4 DEF ReturnDelta, Finish, TypeOK
  <2>5. CASE CheckY \/ CheckDelta
    BY <1>4, <2>5 DEF CheckY, CheckDelta, Begin
  <2>6. CASE CheckWait
    BY <1>4, <2>6 DEF CheckWait, ydelta
  <2> QED
    BY <1>1, <2>2, <2>3, <2>4, <2>5, <2>6 DEF StartStep
<1>5. phase = "operation" => FALSE
  BY <1>1 DEF PhaseInv
<1> QED
  BY <1>1, <1>2, <1>3, <1>4, <1>5

LEMMA MatchStart ==
  ASSUME DirectMatches, LoopInv, MatchInv, NEW e \in Matches, Match(e)
  PROVE  MatchInv'
<1> USE DEF MatchInv, LoopInv
<1>1. /\ phase = "operation" /\ motor = "off_idle" /\ phase' = "set_timer"
      /\ asked' = e.time /\ set_to' = e.time
  BY DEF Match
<1>2. CallStart(e.mode)
  BY DEF Match, Start, DirectMatches
<1>3. y_req => y_state = "to_delta"
  BY <1>1, <1>2 DEF PumpInv, RequestInv, TypeOK, CallStart
<1>4. Quiet'
  BY <1>2, <1>3 DEF CallStart, Begin, Quiet, ydelta
<1> QED
  BY <1>1, <1>4

LEMMA MatchTimer ==
  ASSUME LoopInv, MatchInv, SetTimer
  PROVE  MatchInv'
<1> USE DEF MatchInv, LoopInv
<1>1. /\ phase = "set_timer" /\ phase' = "tail" /\ pc = "idle"
      /\ asked' = asked
  BY DEF SetTimer, history
<1>2. UNCHANGED <<ydelta, control, motor>>
  BY SetCalled DEF SetTimer, vars
<1>3. IF set_to # 0 THEN time_to_shutdown' = set_to ELSE UNCHANGED timers
  BY DEF SetTimer, ForceShutdown, vars
<1>4. time_to_shutdown \in Nat /\ asked \in Nat
  BY PumpAssumption DEF PumpInv, TypeOK, LoopType
<1> QED
  BY <1>1, <1>2, <1>3, <1>4 DEF Quiet, ydelta, control, timers

LEMMA MatchStep ==
  ASSUME DirectMatches, LoopInv, MatchInv, [SupNext]_sup_vars
  PROVE  MatchInv'
<1> USE DEF MatchInv, LoopInv
<1>1. CASE World
  BY <1>1 DEF World, Hardware, Relay, Contactor, Fail, control, ydelta, history,
              timers, Quiet
<1>2. ASSUME NEW m \in Commands, StartCommand(m) PROVE MatchInv'
  BY <1>2 DEF StartCommand, Between_seconds
<1>3. CASE StopCommand
  BY <1>3, StopCalled DEF StopCommand, Between_seconds, history, Quiet
<1>4. CASE TimerCommand
  BY <1>4 DEF TimerCommand, Between_seconds
<1>5. CASE ModeCommand \/ ThermalCommand
  BY <1>5 DEF ModeCommand, ThermalCommand, vars, control, ydelta, timers,
              history, Between_seconds, Quiet
<1>6. CASE StopCheck
  <2>1. CASE NoStop
    BY <2>1 DEF NoStop, Checked, vars, control, ydelta, timers, Quiet
  <2>2. ASSUME CallStop, Checked PROVE MatchInv'
    BY <2>2, StopCalled DEF Checked, Quiet
  <2> QED
    BY <1>6, <2>1, <2>2 DEF StopCheck, StopTimeout, StopPressureHigh,
                            StopPressureLow, StopThermal
<1>7. CASE LockDown
  BY <1>7, StopCalled DEF LockDown, vars, control, ydelta, timers, history,
                          Quiet
<1>8. CASE NoMatch \/ EndSecond
  BY <1>8 DEF NoMatch, EndSecond, vars, control, ydelta, timers, history, Quiet,
              PhaseInv
<1>9. CASE RedTime
  BY <1>9, StopCalled DEF RedTime, history, Quiet
<1>10. ASSUME NEW e \in Matches, MatchBusy(e) PROVE MatchInv'
  <2>1. e.time \in Nat
    BY SupervisorAssumption
  <2> QED
    BY <1>10, <2>1 DEF MatchBusy, vars, control, ydelta, timers, Quiet
<1>11. ASSUME NEW t \in ShutdownTimes, SectorsTime(t) PROVE MatchInv'
  BY <1>11 DEF SectorsTime
<1>12. ASSUME NEW t \in ShutdownTimes, SectorsDefault(t) PROVE MatchInv'
  BY <1>12 DEF SectorsDefault, SetShutdownConfig, control, ydelta, history,
               Quiet
<1>13. CASE UNCHANGED sup_vars
  BY <1>13 DEF sup_vars, vars, control, ydelta, timers, history, Quiet
<1> QED
  BY <1>1, <1>2, <1>3, <1>4, <1>5, <1>6, <1>7, <1>8, <1>9, <1>10, <1>11, <1>12,
     <1>13, MatchSecond, MatchPump, MatchStart, MatchTimer
     DEF SupNext, Command, Task, Operation

\* A run is never longer than the programme that gave it its time says, unless
\* a command changed it: for programmed starts of any type but star/delta, and
\* any contactors.
THEOREM MatchTimeAlwaysUsed ==
  ASSUME DirectMatches
  PROVE  SupSpec => []MatchTimeUsed
<1>1. SupInit => MatchInv
  BY DEF SupInit, Init, MatchInv
<1>2. LoopInv /\ MatchInv /\ [SupNext]_sup_vars => MatchInv'
  BY MatchStep
<1>3. MatchInv => MatchTimeUsed
  BY DEF MatchInv, MatchTimeUsed, Between_seconds
<1> QED
  BY <1>1, <1>2, <1>3, LoopInvCorrect, PTL DEF SupSpec

=============================================================================
