------------------------------- MODULE Valves -------------------------------
(***************************************************************************)
(* The irrigation sectors: class Valves (src/main/acionna/valves.hpp) and  *)
(* the output register of the PCY8575 port expander that drives the        *)
(* solenoids (src/components/modules/pcy8575).                             *)
(*                                                                         *)
(* start() arms the cycle; update(), once a second, counts the current     *)
(* sector down, opens the next programmed one and closes the previous one, *)
(* at once or after a delay.  The expander is written whole words from a   *)
(* copy that the driver keeps; reading it back overwrites the copy.        *)
(*                                                                         *)
(* Left out: rain, flow and volume (they only produce durations), the      *)
(* start times in the log and the average pressure, time_system_on_,       *)
(* valve_seq and find_next_in_sequence, which nothing calls.  Operators    *)
(* marked "mutant" are mistakes that no specification makes.               *)
(***************************************************************************)
EXTENDS Integers

CONSTANTS
  N,           \* n_valves
  MaxId,       \* the largest uint8_t
  Times,       \* durations that are set for a sector [s]
  Minute,      \* 60; a sector runs whole minutes
  Delays,      \* values of time_delay_close_config_ [s]
  Pressures,   \* readings of the pipe
  LogN,        \* log_n
  LogWidth,    \* 2^16: log_valves[].elapsed_time is uint16_t
  Given,       \* the optional commands that users give
  Resets,      \* the expander may lose power
  Losses       \* transfers over I2C may fail

V == 1..N

optional == {"next", "manual", "direction", "query"}

ASSUME ValvesAssumption ==
  /\ N \in Nat \ {0} /\ MaxId \in Nat /\ MaxId > N
  /\ Times \subseteq Nat /\ Times # {} /\ Minute \in Nat \ {0}
  /\ Delays \subseteq Nat /\ Delays # {}
  /\ Pressures \subseteq Nat /\ 0 \in Pressures
  /\ LogN \in Nat \ {0} /\ LogWidth \in Nat \ {0}
  /\ Given \subseteq optional
  /\ Resets \in BOOLEAN /\ Losses \in BOOLEAN

VARIABLES
  state,         \* state_valves_
  current,       \* valve_current_
  last,          \* valve_last_to_close_
  remain,        \* time_valve_remain
  elapsed,       \* time_valve_elapsed_
  inverted,      \* flag_inverted_sequence
  delay_switch,  \* flag_valve_delay_switch
  closing,       \* flag_delay_close_
  delay_close,   \* time_delay_close_
  delay_config,  \* time_delay_close_config_
  programmed,    \* valve_[].programmed
  time,          \* valve_[].time_elapsed_cfg
  log,           \* log_valves
  output,        \* output_, the driver's copy of the ports
  ports,         \* the outputs of the expander (hardware)
  bus,           \* transfers over I2C succeed (hardware)
  lost,          \* history: a transfer has failed since the last that succeeded
  restarted      \* history: the expander has restarted since the last word it got

cycle  == <<state, current, last, remain, elapsed>>
closer == <<closing, delay_close>>
config == <<inverted, delay_switch, delay_config, programmed, time>>
ioport == <<output, ports, bus, lost, restarted>>
vars   == <<cycle, closer, config, log, ioport>>

-----------------------------------------------------------------------------
(* The expander.                                                           *)

PutChanged(word) ==  \* mutant: a word equal to the copy is not sent
  /\ output' = word
  /\ ports' = IF bus /\ word # output THEN word ELSE ports
  /\ lost' = ~bus /\ restarted' = (restarted /\ ~bus)
  /\ UNCHANGED bus

\* put(): the copy takes the word, and the ports too if the transfer succeeds;
\* nobody looks at its result.
Put(word) ==
  /\ output' = word
  /\ ports' = IF bus THEN word ELSE ports
  /\ lost' = ~bus /\ restarted' = (restarted /\ ~bus)
  /\ UNCHANGED bus

\* The word that results from set_valve_state(v, 0); other ids are refused.
ClosedAll(word, v) == {}  \* mutant: the whole word is cleared
Closed(word, v) == word \ ({v} \cap V)
Opened(word, v) == word \cup ({v} \cap V)

\* Words are put only if some set_valve_state was not refused.
PutIf(written, word) == IF written THEN Put(word) ELSE UNCHANGED ioport

-----------------------------------------------------------------------------
(* find_next(): the ids that may follow valve c; 0 ends the cycle.  Going  *)
(* down from 0 the uint8_t wraps, and programmed is read past its end;     *)
(* going up from the largest id it wraps to 0, before its beginning: what  *)
(* is found there is anything.                                             *)

Lowest(S)  == {n \in S : \A v \in S : n <= v}
Highest(S) == {n \in S : \A v \in S : v <= n}

\* Mutant: the search begins at the sector that has just ended.
UpwardSame(c) ==
  LET from == {v \in programmed : v >= c}
  IN  IF from = {} THEN {0} ELSE Lowest(from)

Upward(c) ==
  LET after == {v \in programmed : c = MaxId \/ v > c}
  IN  (IF c = MaxId \/ after = {} THEN {0} ELSE {}) \cup Lowest(after)

Downward(c) ==
  LET from   == IF c = 0 THEN MaxId + 1 ELSE c
      before == {v \in programmed : v < from}
  IN  {v \in (N + 1)..MaxId : v < from}
        \cup IF before = {} THEN {0} ELSE Highest(before)

FindNext == IF inverted THEN Downward(current) ELSE Upward(current)

\* get_valve_time(), times 60: what exceeds whole minutes is not run.
Whole(t) == (t \div Minute) * Minute

Duration(v) == {Whole(t) : t \in IF v \in V THEN {time[v]} ELSE Times}

-----------------------------------------------------------------------------
(* The log.                                                                *)

Entry == [valve_id : 0..MaxId, elapsed : 0..(LogWidth - 1),
          pressure_min : Pressures, pressure_max : Pressures]

\* make_log_update: the newest entry follows the valve that is on.
LogUpdate(lg, e, p) ==
  [lg EXCEPT ![1].elapsed = e % LogWidth,
             ![1].pressure_min = IF p < @ THEN p ELSE @,
             ![1].pressure_max = IF p > @ THEN p ELSE @]

\* make_log: pressure_min takes the older entry's maximum, pressure_max is
\* not moved; p is the average pressure.
MakeLog(v, p) ==
  [i \in 1..LogN |->
     IF i = 1
     THEN [valve_id |-> v, elapsed |-> 0, pressure_min |-> p,
           pressure_max |-> p]
     ELSE [valve_id     |-> log[i - 1].valve_id,
           elapsed      |-> log[i - 1].elapsed,
           pressure_min |-> log[i - 1].pressure_max,
           pressure_max |-> log[i].pressure_max]]

-----------------------------------------------------------------------------
(* update(), once a second in the automatic state.                         *)

\* The countdown to closing the previous valve, entered with flag f, time t.
\* It closes when the time is found to be zero.
Closes(f, t) == f /\ t = 0

\* Mutants: the countdown stands still; it goes on below zero.
CountCloseStuck(f, t) == closing' = (f /\ t > 0) /\ delay_close' = t
CountCloseUntested(f, t) == closing' = (f /\ t > 0) /\ delay_close' = t - 1

CountClose(f, t) ==
  /\ closing' = (f /\ t > 0)
  /\ delay_close' = IF f /\ t > 0 THEN t - 1 ELSE t

Count ==
  /\ state = "automatic_switch" /\ remain > 0
  /\ remain' = remain - 1
  /\ CountClose(closing, delay_close)
  /\ PutIf(Closes(closing, delay_close) /\ last \in V, Closed(output, last))
  /\ \E p \in Pressures : log' = LogUpdate(log, elapsed, p)
  /\ elapsed' = elapsed + 1
  /\ UNCHANGED <<state, current, last, config>>

\* With the delay on, every switch starts the countdown anew.
SwitchFlag == delay_switch \/ closing
SwitchTime == IF delay_switch THEN delay_config ELSE delay_close

Switch(n) ==
  /\ state = "automatic_switch" /\ remain = 0
  /\ n \in FindNext /\ n # 0
  /\ last' = current /\ current' = n
  /\ remain' \in Duration(n)
  /\ CountClose(SwitchFlag, SwitchTime)
  /\ LET drops == ~delay_switch \/ Closes(SwitchFlag, SwitchTime)
         word  == Opened(IF delay_switch THEN output ELSE Closed(output, current), n)
     IN  PutIf(n \in V \/ (drops /\ current \in V),
               IF Closes(SwitchFlag, SwitchTime) THEN Closed(word, current)
                                                 ELSE word)
  /\ \E a, p \in Pressures : log' = LogUpdate(MakeLog(n, a), 0, p)
  /\ elapsed' = 1
  /\ UNCHANGED <<state, config>>

\* No sector follows: stop() logs the time on and closes everything; then the
\* rest of update() logs again.  A sector 0 that find_next took for programmed
\* leaves its time behind.
EndCycle ==
  /\ state = "automatic_switch" /\ remain = 0
  /\ 0 \in FindNext
  /\ state' = "system_off"
  /\ last' = current /\ current' = 0
  /\ CountClose(SwitchFlag, SwitchTime)
  /\ Put({})
  /\ \E p \in Pressures : log' = LogUpdate(log, 0, p)
  /\ elapsed' = 1
  /\ remain' \in {remain} \cup IF current = MaxId /\ ~inverted THEN Duration(0) ELSE {}
  /\ UNCHANGED config

Update == Count \/ EndCycle \/ \E n \in 1..MaxId : Switch(n)

-----------------------------------------------------------------------------
(* Calls: $80 commands and operation_pump_valves.                          *)

\* Mutant: the seconds of the sector before are not cleared.
StartWarm ==
  /\ Put({})
  /\ remain' = 0 /\ state' = "automatic_switch"
  /\ current' = IF inverted THEN N + 1 ELSE 0
  /\ UNCHANGED <<last, elapsed, closer, config, log>>

Start ==
  /\ Put({})
  /\ remain' = 0 /\ elapsed' = 0 /\ state' = "automatic_switch"
  /\ current' = IF inverted THEN N + 1 ELSE 0
  /\ UNCHANGED <<last, closer, config, log>>

StopStays ==  \* mutant: the state is not reset
  /\ Put({})
  /\ IF elapsed > 0
     THEN \E p \in Pressures : log' = LogUpdate(log, elapsed, p)
     ELSE UNCHANGED log
  /\ elapsed' = 0 /\ current' = 0
  /\ UNCHANGED <<state, last, remain, closer, config>>

Stop ==
  /\ Put({})
  /\ IF elapsed > 0
     THEN \E p \in Pressures : log' = LogUpdate(log, elapsed, p)
     ELSE UNCHANGED log
  /\ elapsed' = 0 /\ current' = 0 /\ state' = "system_off"
  /\ UNCHANGED <<last, remain, closer, config>>

\* Mode $62 with $70:vc: set the current valve again, every second.
Refresh ==
  /\ state = "automatic_switch"
  /\ PutIf(current \in V, Opened(output, current))
  /\ UNCHANGED <<cycle, closer, config, log>>

NextForced ==
  /\ "next" \in Given
  /\ remain' = 0
  /\ UNCHANGED <<state, current, last, elapsed, closer, config, log, ioport>>

SetDirection ==
  /\ "direction" \in Given
  /\ inverted' = ~inverted
  /\ UNCHANGED <<cycle, closer, delay_switch, delay_config, programmed, time,
                 log, ioport>>

SetDelay ==
  /\ delay_switch' \in BOOLEAN /\ delay_config' \in Delays
  /\ delay_switch' = delay_switch \/ delay_config' = delay_config
  /\ UNCHANGED <<cycle, closer, inverted, programmed, time, log, ioport>>

\* add() or remove() one sector, or all of them ($80:v:00).
Programme(p) ==
  /\ p \in {programmed \cup {v} : v \in V} \cup {programmed \ {v} : v \in V}
             \cup {{}, V}
  /\ programmed' = p
  /\ UNCHANGED <<cycle, closer, inverted, delay_switch, delay_config, time, log,
                 ioport>>

\* In minutes, or in seconds from the rain wanted (calc_time_by_rain_mm).
SetTime(v, t) ==
  /\ time' = [time EXCEPT ![v] = t]
  /\ UNCHANGED <<cycle, closer, inverted, delay_switch, delay_config,
                 programmed, log, ioport>>

\* $80:v:NN:[0|1], and $84 for the whole word.
Manual(word) ==
  /\ "manual" \in Given
  /\ Put(word)
  /\ UNCHANGED <<cycle, closer, config, log>>

\* $80:v:NN; or $85: get() reads the ports into the copy; a transfer that
\* fails leaves its buffer as it was, not initialized.
Query ==
  /\ "query" \in Given
  /\ IF bus THEN output' = ports ELSE output' \in SUBSET V
  /\ lost' = ~bus
  /\ UNCHANGED <<cycle, closer, config, log, ports, bus, restarted>>

\* The expander restarts ($89, or on its own) with its outputs low.
Reset ==
  /\ Resets
  /\ ports' = {} /\ restarted' = TRUE
  /\ UNCHANGED <<cycle, closer, config, log, output, bus, lost>>

\* The bus is disturbed, or works again.
Disturb ==
  /\ Losses
  /\ bus' = ~bus
  /\ UNCHANGED <<cycle, closer, config, log, output, ports, lost, restarted>>

-----------------------------------------------------------------------------

Init ==
  /\ state = "system_off" /\ current = 0 /\ last = 0
  /\ remain = 0 /\ elapsed = 0
  /\ inverted = FALSE /\ delay_switch = TRUE
  /\ closing = FALSE /\ delay_close = 0 /\ delay_config \in Delays
  /\ programmed = V /\ time \in [V -> Times]
  /\ log = [i \in 1..LogN |-> [valve_id |-> 0, elapsed |-> 0,
                               pressure_min |-> 0, pressure_max |-> 0]]
  /\ output = {} /\ ports = {} /\ bus = TRUE
  /\ lost = FALSE /\ restarted = FALSE

Command ==
  \/ Start \/ Stop \/ NextForced \/ SetDirection \/ SetDelay \/ Query
  \/ \E p \in SUBSET V : Programme(p) \/ Manual(p)
  \/ \E v \in V, t \in Times : SetTime(v, t)

Next == Update \/ Command \/ Refresh \/ Reset \/ Disturb

Spec == Init /\ [][Next]_vars

FairSpec == Spec /\ WF_vars(Update)

-----------------------------------------------------------------------------
(* Properties.                                                             *)

TypeOK ==
  /\ state \in {"system_off", "automatic_switch"}
  /\ current \in 0..MaxId /\ last \in 0..MaxId
  /\ remain \in Nat /\ elapsed \in Nat
  /\ inverted \in BOOLEAN /\ delay_switch \in BOOLEAN /\ closing \in BOOLEAN
  /\ delay_close \in Nat /\ delay_config \in Delays
  /\ programmed \in SUBSET V /\ time \in [V -> Times]
  /\ log \in [1..LogN -> Entry]
  /\ output \in SUBSET V /\ ports \in SUBSET V /\ bus \in BOOLEAN
  /\ lost \in BOOLEAN /\ restarted \in BOOLEAN

\* A valve is never open on the expander while the controller holds it closed,
\* but for a transfer that failed: the next one that succeeds sets that right,
\* whatever was lost before (such a valve would flood its sector unseen).
NoUnknownOpen == ~lost => ports \subseteq output

\* Besides the current valve, only one waiting to be closed is open: the
\* countdown for one valve is never taken over by the next.
NoValveLeftOpen ==
  output \subseteq {current} \cup (IF closing THEN {last} ELSE {})

\* The sector under way is watered: from the first second of the cycle to its
\* end the current valve is open on the expander, if the last word got through
\* and the expander has not restarted since (it comes back with every valve
\* closed, and only a switch, a delayed close or $70:vc writes to it again).
CurrentOpen ==
  state = "automatic_switch" /\ elapsed > 0 /\ ~lost /\ ~restarted =>
    current \in ports

\* The newest log entry is the one of the sector under way, up to the last
\* second modulo 2^16: no call or direction change makes update() log onto
\* another entry.
LogMatchesSector ==
  state = "automatic_switch" /\ elapsed > 0 =>
    log[1].valve_id = current /\ log[1].elapsed = (elapsed - 1) % LogWidth

\* Without further calls a cycle ends.
CycleEnds ==
  <>[][Update]_vars => <>[](state = "system_off")

=============================================================================
