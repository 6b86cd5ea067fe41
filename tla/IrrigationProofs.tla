-------------------------- MODULE IrrigationProofs ---------------------------
(***************************************************************************)
(* Proofs about the valves (module Valves), for any number of sectors,     *)
(* durations and delays, and about the irrigation mode that drives them    *)
(* together with the pump (module Irrigation).                             *)
(***************************************************************************)
EXTENDS Irrigation, WellFoundedInduction, TLAPS

\* The closing delay is covered by the whole minutes of every sector.
DelaysFit == \A d \in Delays, t \in Times : d <= Whole(t)

\* Nobody turns the direction or drives single valves.
Sequential == {"manual", "direction"} \cap Given = {}

\* The sectors only go up, and the one to be closed is not the one that is on.
OrderInv ==
  inverted = FALSE /\ current \in 0..N /\ (last # current \/ current = 0)

\* The valve that waits to be closed is closed before the next switch.
CountdownInv == closing /\ last \in output => delay_close < remain

LeftInv == NoValveLeftOpen /\ CountdownInv

\* From the first switch of a cycle to its end the controller holds the current
\* valve open.
OpenInv ==
  state = "automatic_switch" /\ (elapsed > 0 \/ remain > 0) =>
    current \in output

-----------------------------------------------------------------------------
(* Types.                                                                  *)

LogType == log \in [1..LogN -> Entry]

\* The seconds that an uint16_t holds.
LEMMA LogModulo ==
  /\ 0 \in 0..(LogWidth - 1) /\ 0 % LogWidth = 0
  /\ \A e \in Nat : e % LogWidth \in 0..(LogWidth - 1)
BY ValvesAssumption

\* Following the newest entry keeps the log a log.
LEMMA LogUpdateType ==
  ASSUME NEW lg \in [1..LogN -> Entry], NEW e \in Nat, NEW p \in Pressures
  PROVE  LogUpdate(lg, e, p) \in [1..LogN -> Entry]
<1>1. 1 \in 1..LogN /\ lg[1] \in Entry
  BY ValvesAssumption
<1>2. [lg[1] EXCEPT !.elapsed = e % LogWidth,
         !.pressure_min = IF p < @ THEN p ELSE @,
         !.pressure_max = IF p > @ THEN p ELSE @] \in Entry
  BY <1>1, LogModulo DEF Entry
<1> QED
  BY <1>1, <1>2 DEF LogUpdate, Entry

\* So does making a new entry.
LEMMA MakeLogType ==
  ASSUME LogType, NEW v \in 0..MaxId, NEW p \in Pressures
  PROVE  MakeLog(v, p) \in [1..LogN -> Entry]
<1>1. ASSUME NEW i \in 1..LogN, i # 1 PROVE i - 1 \in 1..LogN
  BY <1>1, ValvesAssumption
<1>2. \A i \in 1..LogN : log[i] \in Entry
  BY DEF LogType
<1> QED
  BY <1>1, <1>2, LogModulo DEF MakeLog, Entry

\* What follows a sector is a sector that an uint8_t can name, or the end.
LEMMA FindNextType ==
  ASSUME NEW n, n \in FindNext, programmed \in SUBSET V, current \in 0..MaxId
  PROVE  n \in 0..MaxId
  BY ValvesAssumption DEF FindNext, Upward, Downward, Lowest, Highest, V

\* The words that are put are words.
LEMMA WordType ==
  ASSUME NEW w \in SUBSET V, NEW v
  PROVE  Opened(w, v) \in SUBSET V /\ Closed(w, v) \in SUBSET V
  BY DEF Opened, Closed

LEMMA PutIfType ==
  ASSUME output \in SUBSET V, ports \in SUBSET V,
         bus \in BOOLEAN, lost \in BOOLEAN, restarted \in BOOLEAN,
         NEW w \in SUBSET V, NEW b, PutIf(b, w)
  PROVE  output' \in SUBSET V /\ ports' \in SUBSET V /\ bus' = bus
           /\ lost' \in BOOLEAN /\ restarted' \in BOOLEAN
<1>1. CASE b
  <2>1. restarted' \in BOOLEAN
    BY <1>1, Zenon DEF PutIf, Put
  <2> QED
    BY <1>1, <2>1 DEF PutIf, Put
<1>2. CASE ~b
  BY <1>2 DEF PutIf, ioport
<1> QED
  BY <1>1, <1>2

LEMMA WholeType == ASSUME NEW t \in Times PROVE Whole(t) \in Nat
<1>1. t \in Nat /\ Minute \in Nat /\ Minute > 0
  BY ValvesAssumption
<1>2. t \div Minute \in Nat
  BY <1>1
<1> QED
  BY <1>1, <1>2 DEF Whole

\* Every variable stays in its range, for every choice of the constants.
THEOREM TypeCorrect == Spec => []TypeOK
<1> USE ValvesAssumption DEF TypeOK, LogType, cycle, closer, config, ioport
<1>1. Init => TypeOK
  <2>1. Init => log \in [1..LogN -> Entry]
    BY LogModulo DEF Init, Entry
  <2>2. Init => inverted \in BOOLEAN /\ delay_switch \in BOOLEAN
                  /\ closing \in BOOLEAN
    BY Zenon DEF Init
  <2>3. Init => 0 \in 0..MaxId /\ 0 \in Nat
    OBVIOUS
  <2>4. Init => programmed \in SUBSET V /\ output \in SUBSET V
                  /\ ports \in SUBSET V
    BY DEF Init
  <2> QED
    BY <2>1, <2>2, <2>3, <2>4 DEF Init
<1>2. ASSUME TypeOK, [Next]_vars PROVE TypeOK'
  <2>1. CASE Count
    <3>1. log' \in [1..LogN -> Entry]
      <4>1. PICK p \in Pressures : log' = LogUpdate(log, elapsed, p)
        BY <2>1 DEF Count
      <4> QED
        BY <1>2, <4>1, LogUpdateType
    <3>2. output' \in SUBSET V /\ ports' \in SUBSET V /\ bus' = bus
           /\ lost' \in BOOLEAN /\ restarted' \in BOOLEAN
      <4>1. Closed(output, last) \in SUBSET V
        BY <1>2, WordType
      <4> QED
        BY <1>2, <2>1, <4>1, PutIfType DEF Count, Closes
    <3>3. closing' \in BOOLEAN /\ delay_close' \in Nat
      BY <1>2, <2>1 DEF Count, CountClose
    <3>4. remain' \in Nat /\ elapsed' \in Nat
      BY <1>2, <2>1 DEF Count
    <3>5. UNCHANGED <<state, current, last, config>>
      BY <2>1 DEF Count
    <3> QED
      BY <1>2, <3>1, <3>2, <3>3, <3>4, <3>5
  <2>2. CASE EndCycle
    <3>1. log' \in [1..LogN -> Entry]
      BY <1>2, <2>2, LogUpdateType DEF EndCycle
    <3>2. closing' \in BOOLEAN /\ delay_close' \in Nat
      BY <1>2, <2>2 DEF EndCycle, CountClose, SwitchFlag, SwitchTime
    <3>3. remain' \in Nat
      BY <1>2, <2>2, WholeType DEF EndCycle, Duration
    <3>4. restarted' \in BOOLEAN
      BY <2>2, Zenon DEF EndCycle, Put
    <3> QED
      BY <1>2, <2>2, <3>1, <3>2, <3>3, <3>4 DEF EndCycle, Put
  <2>3. ASSUME NEW n \in 1..MaxId, Switch(n) PROVE TypeOK'
    <3>1. log' \in [1..LogN -> Entry]
      <4>1. n \in 0..MaxId
        OBVIOUS
      <4>2. PICK a \in Pressures, p \in Pressures :
              log' = LogUpdate(MakeLog(n, a), 0, p)
        BY <2>3 DEF Switch
      <4>3. MakeLog(n, a) \in [1..LogN -> Entry]
        BY <1>2, <4>1, MakeLogType
      <4> QED
        BY <4>2, <4>3, LogUpdateType
    <3>2. output' \in SUBSET V /\ ports' \in SUBSET V /\ bus' = bus
           /\ lost' \in BOOLEAN /\ restarted' \in BOOLEAN
      <4>1. PICK word \in SUBSET V, b \in BOOLEAN : PutIf(b, word)
        BY <1>2, <2>3, WordType DEF Switch
      <4> QED
        BY <1>2, <4>1, PutIfType
    <3>3. closing' \in BOOLEAN /\ delay_close' \in Nat
      BY <1>2, <2>3 DEF Switch, CountClose, SwitchFlag, SwitchTime
    <3>4. remain' \in Nat
      BY <1>2, <2>3, WholeType DEF Switch, Duration
    <3> QED
      BY <1>2, <2>3, <3>1, <3>2, <3>3, <3>4 DEF Switch
  <2>4. CASE Start
    <3>1. restarted' \in BOOLEAN
      BY <2>4, Zenon DEF Start, Put
    <3> QED
      BY <1>2, <2>4, <3>1 DEF Start, Put
  <2>5. CASE Stop
    <3>1. log' \in [1..LogN -> Entry]
      <4>1. CASE UNCHANGED log
        BY <1>2, <4>1
      <4>2. CASE \E p \in Pressures : log' = LogUpdate(log, elapsed, p)
        BY <1>2, <4>2, LogUpdateType
      <4> QED
        BY <2>5, <4>1, <4>2 DEF Stop
    <3>2. restarted' \in BOOLEAN
      BY <2>5, Zenon DEF Stop, Put
    <3> QED
      BY <1>2, <2>5, <3>1, <3>2 DEF Stop, Put
  <2>6. CASE Refresh
    <3>1. Opened(output, current) \in SUBSET V
      BY <1>2, WordType
    <3>2. output' \in SUBSET V /\ ports' \in SUBSET V /\ bus' = bus
           /\ lost' \in BOOLEAN /\ restarted' \in BOOLEAN
      BY <1>2, <2>6, <3>1, PutIfType DEF Refresh
    <3> QED
      BY <1>2, <2>6, <3>2 DEF Refresh
  <2>7. CASE NextForced
    BY <1>2, <2>7 DEF NextForced
  <2>8. CASE SetDirection
    <3>1. inverted' \in BOOLEAN
      BY <2>8, Zenon DEF SetDirection
    <3> QED
      BY <1>2, <2>8, <3>1 DEF SetDirection
  <2>9. CASE SetDelay
    BY <1>2, <2>9 DEF SetDelay
  <2>10. ASSUME NEW p \in SUBSET V, Programme(p) \/ Manual(p) PROVE TypeOK'
    <3>1. Manual(p) => restarted' \in BOOLEAN
      BY Zenon DEF Manual, Put
    <3> QED
      BY <1>2, <2>10, <3>1 DEF Programme, Manual, Put
  <2>11. ASSUME NEW v \in V, NEW t \in Times, SetTime(v, t) PROVE TypeOK'
    BY <1>2, <2>11 DEF SetTime
  <2>12. CASE Query \/ Reset
    BY <1>2, <2>12 DEF Query, Reset
  <2>13. CASE Disturb
    <3>1. bus' \in BOOLEAN
      BY <2>13, Zenon DEF Disturb
    <3> QED
      BY <1>2, <2>13, <3>1 DEF Disturb
  <2>14. CASE UNCHANGED vars
    BY <1>2, <2>14 DEF vars
  <2> QED
    BY <1>2, <2>1, <2>2, <2>3, <2>4, <2>5, <2>6, <2>7, <2>8, <2>9, <2>10,
       <2>11, <2>12, <2>13, <2>14 DEF Next, Update, Command
<1> QED
  BY <1>1, <1>2, PTL DEF Spec

-----------------------------------------------------------------------------
(* The ports.                                                              *)

\* No valve is open on the expander that the driver's copy holds closed, unless
\* a transfer has failed since the last one that succeeded: whatever is called,
\* however often the expander restarts and the bus fails (PCY8575::put).
THEOREM NeverUnknownOpen == Spec => []NoUnknownOpen
<1> USE DEF NoUnknownOpen, cycle, closer, config, ioport
<1>1. Init => NoUnknownOpen
  BY DEF Init
<1>2. ASSUME NoUnknownOpen, [Next]_vars PROVE NoUnknownOpen'
  <2>1. CASE Update
    BY <1>2, <2>1 DEF Update, Count, Switch, EndCycle, PutIf, Put
  <2>2. CASE Start \/ Stop \/ Query \/ Reset \/ Refresh
    BY <1>2, <2>2 DEF Start, Stop, Query, Reset, Refresh, PutIf, Put
  <2>3. CASE NextForced \/ SetDirection \/ SetDelay
    BY <1>2, <2>3 DEF NextForced, SetDirection, SetDelay
  <2>4. ASSUME NEW p \in SUBSET V, Programme(p) \/ Manual(p)
        PROVE  NoUnknownOpen'
    BY <1>2, <2>4 DEF Programme, Manual, Put
  <2>5. ASSUME NEW v \in V, NEW t \in Times, SetTime(v, t)
        PROVE  NoUnknownOpen'
    BY <1>2, <2>5 DEF SetTime
  <2>6. CASE Disturb \/ UNCHANGED vars
    BY <1>2, <2>6 DEF vars, Disturb
  <2> QED
    BY <1>2, <2>1, <2>2, <2>3, <2>4, <2>5, <2>6 DEF Next, Command
<1> QED
  BY <1>1, <1>2, PTL DEF Spec

\* A bus that is never disturbed loses nothing.
Reliable == bus = TRUE /\ lost = FALSE

LEMMA BusReliable == ASSUME ~Losses PROVE Spec => []Reliable
<1> USE DEF Reliable, cycle, closer, config, ioport
<1>1. Init => Reliable
  BY DEF Init
<1>2. ASSUME Reliable, [Next]_vars PROVE Reliable'
  <2>1. CASE Update
    BY <1>2, <2>1 DEF Update, Count, Switch, EndCycle, PutIf, Put
  <2>2. CASE Start \/ Stop \/ Query \/ Reset \/ Refresh
    BY <1>2, <2>2 DEF Start, Stop, Query, Reset, Refresh, PutIf, Put
  <2>3. CASE NextForced \/ SetDirection \/ SetDelay
    BY <1>2, <2>3 DEF NextForced, SetDirection, SetDelay
  <2>4. ASSUME NEW p \in SUBSET V, Programme(p) \/ Manual(p)
        PROVE  Reliable'
    BY <1>2, <2>4 DEF Programme, Manual, Put
  <2>5. ASSUME NEW v \in V, NEW t \in Times, SetTime(v, t)
        PROVE  Reliable'
    BY <1>2, <2>5 DEF SetTime
  <2>6. CASE Disturb \/ UNCHANGED vars
    BY <1>2, <2>6 DEF vars, Disturb
  <2> QED
    BY <1>2, <2>1, <2>2, <2>3, <2>4, <2>5, <2>6 DEF Next, Command
<1> QED
  BY <1>1, <1>2, PTL DEF Spec

\* Unless a transfer has failed or the expander has restarted since the last
\* that succeeded, the ports are what the controller takes them for.
Agree == ~lost /\ ~restarted => ports = output

LEMMA PutAgrees == ASSUME NEW w, Put(w) PROVE Agree'
<1>1. CASE bus
  BY <1>1 DEF Put, Agree
<1>2. CASE ~bus
  BY <1>2 DEF Put, Agree
<1> QED
  BY <1>1, <1>2

LEMMA PutIfAgrees == ASSUME Agree, NEW b, NEW w, PutIf(b, w) PROVE Agree'
<1>1. CASE b
  BY <1>1, PutAgrees DEF PutIf
<1>2. CASE ~b
  BY <1>2 DEF PutIf, ioport, Agree
<1> QED
  BY <1>1, <1>2

LEMMA PortsAgree == Spec => []Agree
<1> USE DEF Agree, cycle, closer, config, ioport
<1>1. Init => Agree
  BY DEF Init
<1>2. ASSUME Agree, [Next]_vars PROVE Agree'
  <2>1. CASE Count
    BY <1>2, <2>1, PutIfAgrees DEF Count
  <2>2. ASSUME NEW n \in 1..MaxId, Switch(n) PROVE Agree'
    BY <1>2, <2>2, PutIfAgrees DEF Switch
  <2>7. CASE EndCycle \/ Start \/ Stop
    BY <2>7, PutAgrees DEF EndCycle, Start, Stop
  <2>8. CASE Refresh
    BY <1>2, <2>8, PutIfAgrees DEF Refresh
  <2>9. CASE Query
    <3>1. CASE bus
      BY <1>2, <2>9, <3>1 DEF Query
    <3>2. CASE ~bus
      BY <1>2, <2>9, <3>2 DEF Query
    <3> QED
      BY <3>1, <3>2
  <2>10. CASE Reset
    BY <2>10 DEF Reset
  <2>3. CASE NextForced \/ SetDirection \/ SetDelay
    BY <1>2, <2>3 DEF NextForced, SetDirection, SetDelay
  <2>4. ASSUME NEW p \in SUBSET V, Programme(p) \/ Manual(p)
        PROVE  Agree'
    BY <1>2, <2>4, PutAgrees DEF Programme, Manual
  <2>5. ASSUME NEW v \in V, NEW t \in Times, SetTime(v, t)
        PROVE  Agree'
    BY <1>2, <2>5 DEF SetTime
  <2>6. CASE Disturb \/ UNCHANGED vars
    BY <1>2, <2>6 DEF vars, Disturb
  <2> QED
    BY <1>2, <2>1, <2>2, <2>3, <2>4, <2>5, <2>6, <2>7, <2>8, <2>9, <2>10
       DEF Next, Command, Update
<1> QED
  BY <1>1, <1>2, PTL DEF Spec

-----------------------------------------------------------------------------
(* The sequence.                                                           *)

\* Going up, the next sector is a sector and lies above the current one.
LEMMA SwitchUp ==
  ASSUME TypeOK, OrderInv, NEW n \in 1..MaxId, Switch(n)
  PROVE  n \in V /\ n > current
<1>1. n \in Upward(current) /\ n # 0
  BY DEF Switch, FindNext, OrderInv
<1>2. current # MaxId
  BY ValvesAssumption DEF OrderInv
<1>3. n \in programmed /\ n > current
  BY <1>1, <1>2 DEF Upward, Lowest
<1> QED
  BY <1>3 DEF TypeOK

LEMMA OrderCorrect == ASSUME Sequential PROVE Spec => []OrderInv
<1> USE DEF OrderInv, cycle, closer, config, ioport
<1>1. Init => OrderInv
  BY ValvesAssumption DEF Init
<1>2. ASSUME TypeOK, OrderInv, [Next]_vars PROVE OrderInv'
  <2>1. ASSUME NEW n \in 1..MaxId, Switch(n) PROVE OrderInv'
    <3>1. n > current /\ current \in 0..MaxId
      BY <1>2, <2>1, SwitchUp DEF TypeOK
    <3>2. last' = current /\ current' = n /\ inverted' = inverted
      BY <2>1 DEF Switch
    <3>3. n \in 0..N
      <4>1. n \in V
        BY <1>2, <2>1, SwitchUp
      <4> QED
        BY <4>1, ValvesAssumption DEF V
    <3> QED
      BY <1>2, <3>1, <3>2, <3>3
  <2>2. CASE Count \/ EndCycle \/ Start \/ Stop \/ Refresh
    BY <1>2, <2>2, ValvesAssumption DEF Count, EndCycle, Start, Stop, Refresh
  <2>3. CASE NextForced \/ SetDirection \/ SetDelay \/ Query \/ Reset
    BY <1>2, <2>3 DEF NextForced, SetDirection, SetDelay, Query, Reset,
                      Sequential
  <2>4. ASSUME NEW p \in SUBSET V, Programme(p) \/ Manual(p) PROVE OrderInv'
    BY <1>2, <2>4 DEF Programme, Manual
  <2>5. ASSUME NEW v \in V, NEW t \in Times, SetTime(v, t) PROVE OrderInv'
    BY <1>2, <2>5 DEF SetTime
  <2>6. CASE Disturb \/ UNCHANGED vars
    BY <1>2, <2>6 DEF vars, Disturb
  <2> QED
    BY <1>2, <2>1, <2>2, <2>3, <2>4, <2>5, <2>6 DEF Next, Update, Command
<1> QED
  BY <1>1, <1>2, TypeCorrect, PTL DEF Spec

\* A switch finds the countdown over and leaves at most two valves open.
LEMMA LeftSwitch ==
  ASSUME DelaysFit, TypeOK, OrderInv, LeftInv, NEW n \in 1..MaxId, Switch(n)
  PROVE  LeftInv'
<1> USE DEF LeftInv, NoValveLeftOpen, CountdownInv
<1>1. n \in V /\ n > current /\ n # current
  BY SwitchUp, ValvesAssumption DEF TypeOK
<1>2. output \subseteq {current} /\ output \subseteq V
  BY DEF Switch, TypeOK
<1>3. last' = current /\ current' = n
  BY DEF Switch
<1>4. PICK t \in Times : remain' = Whole(t)
  BY <1>1 DEF Switch, Duration, TypeOK
<1>5. /\ remain' \in Nat /\ delay_config \in Nat /\ Delays \subseteq Nat
      /\ DelaysFit => delay_config <= remain'
  BY <1>4, WholeType, ValvesAssumption DEF TypeOK, DelaysFit
<1>6. CASE delay_switch
  <2>1. CountClose(TRUE, delay_config)
    BY <1>6 DEF Switch, SwitchFlag, SwitchTime
  <2>2. output' = IF delay_config = 0 THEN Closed(Opened(output, n), current)
                                      ELSE Opened(output, n)
    BY <1>1, <1>6 DEF Switch, SwitchFlag, SwitchTime, Closes, PutIf, Put
  <2>3. CASE delay_config = 0
    BY <1>1, <1>2, <1>3, <1>5, <2>1, <2>2, <2>3 DEF CountClose, Closed, Opened
  <2>4. CASE delay_config > 0
    <3>1. closing' = TRUE /\ delay_close' = delay_config - 1
      BY <1>5, <2>1, <2>4 DEF CountClose
    <3>2. output' \subseteq {n, current}
      BY <1>2, <2>2, <2>4 DEF Opened
    <3>3. delay_close' < remain'
      BY <1>5, <2>4, <3>1
    <3> QED
      BY <1>3, <3>1, <3>2, <3>3
  <2> QED
    BY <1>5, <2>3, <2>4
<1>7. CASE ~delay_switch
  <2>1. output' \subseteq {n}
    BY <1>1, <1>2, <1>7 DEF Switch, PutIf, Put, Closed, Opened
  <2> QED
    BY <1>1, <1>3, <2>1
<1> QED
  BY <1>6, <1>7

LEMMA LeftCount ==
  ASSUME TypeOK, LeftInv, Count
  PROVE  LeftInv'
<1> USE DEF LeftInv, NoValveLeftOpen, CountdownInv
<1>1. CountClose(closing, delay_close) /\ remain' = remain - 1 /\ remain > 0
        /\ last' = last /\ current' = current
  BY DEF Count, config
<1>2. delay_close \in Nat /\ remain \in Nat /\ output \subseteq V
        /\ closing \in BOOLEAN
  BY DEF TypeOK
<1>3. CASE closing /\ delay_close = 0
  <2>1. output' \subseteq output \ {last}
    <3>1. CASE last \in V
      BY <1>3, <3>1 DEF Count, Closes, PutIf, Put, Closed
    <3>2. CASE last \notin V
      BY <1>2, <3>2 DEF Count, PutIf, ioport
    <3> QED
      BY <3>1, <3>2
  <2>2. ~(delay_close > 0)
    BY <1>3
  <2>3. closing' = FALSE
    BY <1>1, <2>2, Zenon DEF CountClose
  <2> QED
    BY <1>1, <1>2, <1>3, <2>1, <2>3
<1>4. CASE closing /\ delay_close > 0
  <2>1. closing' = TRUE /\ delay_close' = delay_close - 1
    BY <1>1, <1>2, <1>4 DEF CountClose
  <2>2. output' = output
    BY <1>2, <1>4 DEF Count, Closes, PutIf, ioport
  <2> QED
    BY <1>1, <1>2, <1>4, <2>1, <2>2
<1>5. CASE ~closing
  <2>1. closing' = FALSE
    BY <1>1, <1>5, Zenon DEF CountClose
  <2>2. output' = output
    BY <1>5 DEF Count, Closes, PutIf, ioport
  <2> QED
    BY <1>1, <1>5, <2>1, <2>2
<1> QED
  BY <1>2, <1>3, <1>4, <1>5

\* If no closing delay outlasts a sector, transfers succeed, and nobody forces
\* the next sector, drives single valves or turns the direction, no valve is
\* left open behind the sequence, whatever is programmed, started, stopped or
\* read back.
THEOREM NeverLeftOpen ==
  ASSUME DelaysFit, Sequential, ~Losses, "next" \notin Given
  PROVE  Spec => []NoValveLeftOpen
<1> USE DEF LeftInv, NoValveLeftOpen, CountdownInv, cycle, closer, config,
            ioport
<1>1. Init => LeftInv
  BY DEF Init
<1>2. ASSUME TypeOK, OrderInv, NoUnknownOpen, Reliable, LeftInv, [Next]_vars
      PROVE  LeftInv'
  <2>1. ASSUME NEW n \in 1..MaxId, Switch(n) PROVE LeftInv'
    BY <1>2, <2>1, LeftSwitch
  <2>2. CASE Count
    BY <1>2, <2>2, LeftCount
  <2>3. CASE EndCycle \/ Start \/ Stop
    <3>1. output' = {}
      BY <2>3 DEF EndCycle, Start, Stop, Put
    <3> QED
      BY <3>1
  <2>4. CASE Refresh
    <3>1. 0 \notin V
      BY DEF V
    <3>2. CASE current \in V
      BY <1>2, <2>4, <3>1, <3>2 DEF Refresh, PutIf, Put, Opened, OrderInv
    <3>3. CASE current \notin V
      BY <1>2, <2>4, <3>3 DEF Refresh, PutIf
    <3> QED
      BY <3>2, <3>3
  <2>5. CASE Query
    BY <1>2, <2>5 DEF Query, NoUnknownOpen, Reliable
  <2>6. CASE NextForced \/ SetDirection \/ SetDelay \/ Reset
    BY <1>2, <2>6 DEF NextForced, SetDirection, SetDelay, Reset, Sequential
  <2>7. ASSUME NEW p \in SUBSET V, Programme(p) \/ Manual(p) PROVE LeftInv'
    BY <1>2, <2>7 DEF Programme, Manual, Sequential
  <2>8. ASSUME NEW v \in V, NEW t \in Times, SetTime(v, t) PROVE LeftInv'
    BY <1>2, <2>8 DEF SetTime
  <2>9. CASE Disturb \/ UNCHANGED vars
    BY <1>2, <2>9 DEF vars, Disturb
  <2> QED
    BY <1>2, <2>1, <2>2, <2>3, <2>4, <2>5, <2>6, <2>7, <2>8, <2>9
       DEF Next, Update, Command
<1> QED
  BY <1>1, <1>2, TypeCorrect, OrderCorrect, NeverUnknownOpen,
     BusReliable, PTL DEF Spec

\* If nobody drives single valves, turns the direction or reads the expander
\* back, the valve of the sector under way is open on the expander from the
\* first second to the last, whatever is started, stopped and programmed: only a
\* word that did not get through or a restart of the expander can close it.
THEOREM CurrentAlwaysOpen ==
  ASSUME Sequential, "query" \notin Given
  PROVE  Spec => []CurrentOpen
<1> USE DEF OpenInv, cycle, closer, config, ioport
<1>1. Init => OpenInv
  BY DEF Init
<1>2. ASSUME TypeOK, OrderInv, OpenInv, [Next]_vars PROVE OpenInv'
  <2>1. ASSUME NEW n \in 1..MaxId, Switch(n) PROVE OpenInv'
    <3>1. n \in V /\ n # current
      BY <1>2, <2>1, SwitchUp, ValvesAssumption DEF TypeOK
    <3>2. current' = n /\ n \in output'
      BY <2>1, <3>1 DEF Switch, PutIf, Put, Opened, Closed
    <3> QED
      BY <3>2
  <2>2. CASE Count
    <3>1. current \in output /\ current' = current
      BY <1>2, <2>2 DEF Count
    <3>2. current \in V /\ current # last
      BY <1>2, <3>1 DEF TypeOK, OrderInv, V
    <3>3. current \in output'
      BY <2>2, <3>1, <3>2 DEF Count, PutIf, Put, Closed
    <3> QED
      BY <3>1, <3>3
  <2>3. CASE EndCycle \/ Start \/ Stop
    BY <2>3 DEF EndCycle, Start, Stop
  <2>4. CASE Refresh
    BY <1>2, <2>4 DEF Refresh, PutIf, Put, Opened
  <2>5. CASE NextForced
    BY <1>2, <2>5 DEF NextForced
  <2>6. CASE SetDirection \/ SetDelay \/ Query \/ Reset
    BY <1>2, <2>6 DEF SetDirection, SetDelay, Query, Reset
  <2>7. ASSUME NEW p \in SUBSET V, Programme(p) \/ Manual(p) PROVE OpenInv'
    BY <1>2, <2>7 DEF Programme, Manual, Sequential
  <2>8. ASSUME NEW v \in V, NEW t \in Times, SetTime(v, t) PROVE OpenInv'
    BY <1>2, <2>8 DEF SetTime
  <2>9. CASE Disturb \/ UNCHANGED vars
    BY <1>2, <2>9 DEF vars, Disturb
  <2> QED
    BY <1>2, <2>1, <2>2, <2>3, <2>4, <2>5, <2>6, <2>7, <2>8, <2>9
       DEF Next, Update, Command
<1>3. OpenInv /\ Agree => CurrentOpen
  BY DEF CurrentOpen, Agree
<1> QED
  BY <1>1, <1>2, <1>3, TypeCorrect, OrderCorrect, PortsAgree, PTL DEF Spec

-----------------------------------------------------------------------------
(* The log.                                                                *)

LEMMA NewestEntry ==
  ASSUME NEW lg \in [1..LogN -> Entry], NEW e \in Nat, NEW p \in Pressures
  PROVE  /\ LogUpdate(lg, e, p)[1].elapsed = e % LogWidth
         /\ LogUpdate(lg, e, p)[1].valve_id = lg[1].valve_id
<1>1. 1 \in 1..LogN /\ lg[1] \in Entry
  BY ValvesAssumption
<1> QED
  BY <1>1 DEF LogUpdate, Entry

\* Before the first switch of a cycle nothing is counted.
FreshInv == state = "automatic_switch" /\ elapsed = 0 => remain = 0

LogInv == LogMatchesSector /\ FreshInv

\* Whatever is called in between, a turn of the direction included, update()
\* writes the seconds of a sector, as far as an uint16_t holds them, into that
\* sector's entry of the log.
THEOREM LogFollowsSector == Spec => []LogMatchesSector
<1> USE DEF LogInv, LogMatchesSector, FreshInv, cycle, closer, config, ioport
<1>1. Init => LogInv
  BY DEF Init
<1>2. ASSUME TypeOK, LogInv, [Next]_vars PROVE LogInv'
  <2>0. log \in [1..LogN -> Entry] /\ elapsed \in Nat
    BY <1>2 DEF TypeOK
  <2>1. CASE Count
    <3>1. PICK p \in Pressures : log' = LogUpdate(log, elapsed, p)
      BY <2>1 DEF Count
    <3>2. log'[1].elapsed = elapsed % LogWidth /\ log'[1].valve_id = log[1].valve_id
      BY <2>0, <3>1, NewestEntry
    <3>3. elapsed' = elapsed + 1 /\ current' = current /\ state' = state
      BY <2>1 DEF Count
    <3>4. elapsed > 0
      BY <1>2, <2>0, <2>1 DEF Count
    <3>5. elapsed' - 1 = elapsed /\ elapsed' > 0
      BY <2>0, <3>3
    <3>6. state = "automatic_switch" /\ log[1].valve_id = current
      BY <1>2, <2>1, <3>4 DEF Count
    <3> QED
      BY <3>2, <3>3, <3>5, <3>6
  <2>2. ASSUME NEW n \in 1..MaxId, Switch(n) PROVE LogInv'
    <3>1. PICK a \in Pressures, p \in Pressures :
            log' = LogUpdate(MakeLog(n, a), 0, p)
      BY <2>2 DEF Switch
    <3>2. MakeLog(n, a) \in [1..LogN -> Entry]
      BY <2>0, MakeLogType DEF LogType
    <3>3. MakeLog(n, a)[1].valve_id = n
      BY ValvesAssumption DEF MakeLog
    <3>4. 0 \in Nat
      OBVIOUS
    <3>5. LogUpdate(MakeLog(n, a), 0, p)[1].elapsed = 0
          /\ LogUpdate(MakeLog(n, a), 0, p)[1].valve_id = n
      BY <3>2, <3>3, <3>4, NewestEntry, LogModulo
    <3>6. elapsed' = 1 /\ current' = n
      BY <2>2 DEF Switch
    <3>7. (elapsed' - 1) % LogWidth = 0
      BY <3>6, LogModulo
    <3> QED
      BY <3>1, <3>5, <3>6, <3>7
  <2>3. CASE EndCycle \/ Stop \/ Start
    BY <2>3 DEF EndCycle, Stop, Start
  <2>4. CASE Refresh \/ NextForced \/ SetDirection \/ SetDelay
    BY <1>2, <2>4 DEF Refresh, NextForced, SetDirection, SetDelay
  <2>5. ASSUME NEW p \in SUBSET V, Programme(p) \/ Manual(p)
        PROVE  LogInv'
    BY <1>2, <2>5 DEF Programme, Manual
  <2>6. ASSUME NEW v \in V, NEW t \in Times, SetTime(v, t)
        PROVE  LogInv'
    BY <1>2, <2>6 DEF SetTime
  <2>7. CASE Query \/ Reset \/ Disturb \/ UNCHANGED vars
    BY <1>2, <2>7 DEF Query, Reset, Disturb, vars
  <2> QED
    BY <1>2, <2>1, <2>2, <2>3, <2>4, <2>5, <2>6, <2>7
       DEF Next, Update, Command
<1> QED
  BY <1>1, <1>2, TypeCorrect, PTL DEF Spec

-----------------------------------------------------------------------------
(* The irrigation mode uses the valves as Valves specifies them.           *)

\* Whatever the pump does, the mode and the commands around it only make the
\* steps that the specification of the valves allows.
THEOREM IrrigationImplementsValves == IrrSpec => Spec
<1>1. IrrInit => Init
  BY DEF IrrInit
<1>2. ASSUME [IrrNext]_irr_vars PROVE [Next]_vars
  <2>1. CASE Mode
    BY <2>1 DEF Mode, CycleStarts, CycleStops, Refreshes, CycleIsLeft, Next,
                Command
  <2>2. ASSUME NEW rth \in BOOLEAN, NEW trip \in BOOLEAN, NEW alarm \in BOOLEAN,
               Second(rth, trip, alarm)
        PROVE  [Next]_vars
    BY <2>2 DEF Second, Next
  <2>3. CASE ValveCommand
    BY <2>3 DEF ValveCommand, Next, Command
  <2>4. CASE AskStart \/ AskStop \/ SetCheckValves
    BY <2>4 DEF AskStart, AskStop, SetCheckValves
  <2>5. ASSUME NEW t \in {Default}, SetTimer(t) PROVE [Next]_vars
    BY <2>5 DEF SetTimer
  <2>6. CASE Expander
    BY <2>6 DEF Expander, Next
  <2>7. CASE UNCHANGED irr_vars
    BY <2>7 DEF irr_vars
  <2> QED
    BY <1>2, <2>1, <2>2, <2>3, <2>4, <2>5, <2>6, <2>7 DEF IrrNext, Task, Users
<1> QED
  BY <1>1, <1>2, PTL DEF IrrSpec, Spec

\* So what is proved of the valves holds in this mode too.
LEMMA IrrigationLogs == IrrSpec => []TypeOK /\ []LogMatchesSector /\ []Agree
  BY IrrigationImplementsValves, TypeCorrect, LogFollowsSector, PortsAgree, PTL

-----------------------------------------------------------------------------
(* Sums of the programmed times.                                           *)

\* A set of naturals that is not empty has a least element.
LEMMA LeastNat ==
  ASSUME NEW T, T \subseteq Nat, T # {}
  PROVE  \E n \in T : \A m \in T : n <= m
<1>1. \E x \in T : \A y \in T : ~(<<y, x>> \in OpToRel(<, Nat))
  BY WFMin, NatLessThanWellFounded, Zenon
<1>2. PICK x \in T : \A y \in T : ~(<<y, x>> \in OpToRel(<, Nat))
  BY <1>1
<1>3. ASSUME NEW y \in T PROVE x <= y
  <2>1. <<y, x>> \notin OpToRel(<, Nat)
    BY <1>2
  <2>2. ~(y < x)
    BY <2>1 DEF OpToRel
  <2> QED
    BY <2>2
<1> QED
  BY <1>3

\* What sector n adds to the programmed time.
Share(n) == IF n \in programmed THEN time[n] ELSE 0

Sums(f, n) == f = [m \in 0..n |-> IF m = 0 THEN 0 ELSE f[m - 1] + Share(m)]

LEMMA SumsExist == \A n \in Nat : \E f : Sums(f, n)
<1> DEFINE Bad == {n \in Nat : ~ \E f : Sums(f, n)}
<1>1. SUFFICES ASSUME Bad # {} PROVE FALSE
  OBVIOUS
<1>2. PICK n \in Bad : \A m \in Bad : n <= m
  BY <1>1, LeastNat
<1>3. n # 0
  <2>1. Sums([m \in 0..0 |-> 0], 0)
    BY DEF Sums
  <2> QED
    BY <2>1
<1>4. n - 1 \in Nat /\ ~(n <= n - 1)
  BY <1>3
<1>5. PICK f : Sums(f, n - 1)
  BY <1>2, <1>4
<1> DEFINE g == [m \in 0..n |-> IF m = n THEN f[n - 1] + Share(n) ELSE f[m]]
<1>6. ASSUME NEW m \in 0..n, m # 0
      PROVE  g[m] = g[m - 1] + Share(m)
  <2>0. m - 1 \in 0..n /\ m - 1 # n /\ m - 1 \in 0..(n - 1)
    BY <1>6
  <2>1. CASE m = n
    BY <2>0, <2>1
  <2>2. CASE m # n
    <3>1. m \in 0..(n - 1)
      BY <2>2
    <3>2. f[m] = f[m - 1] + Share(m)
      BY <1>5, <1>6, <3>1 DEF Sums
    <3> QED
      BY <3>1, <3>2, <2>0, <2>2
  <2> QED
    BY <2>1, <2>2
<1>7. g[0] = 0
  <2>1. 0 \in 0..n /\ 0 # n /\ 0 \in 0..(n - 1)
    BY <1>3, <1>4
  <2>2. f[0] = 0
    BY <1>5, <2>1 DEF Sums
  <2> QED
    BY <2>1, <2>2
<1>8. Sums(g, n)
  <2>1. ASSUME NEW m \in 0..n
        PROVE  g[m] = IF m = 0 THEN 0 ELSE g[m - 1] + Share(m)
    BY <1>6, <1>7
  <2> HIDE DEF g
  <2> DEFINE h == [m \in 0..n |-> IF m = 0 THEN 0 ELSE g[m - 1] + Share(m)]
  <2>2. \A m \in 0..n : g[m] = h[m]
    BY <2>1
  <2>3. g = [m \in 0..n |-> g[m]]
    BY DEF g
  <2>4. g = h
    BY <2>2, <2>3
  <2> QED
    BY <2>4 DEF Sums
<1> QED
  BY <1>8

LEMMA TimeUpToSums == Sums(TimeUpTo, N)
<1>1. PICK f : Sums(f, N)
  BY SumsExist, ValvesAssumption
<1>2. TimeUpTo = CHOOSE g : Sums(g, N)
  BY DEF TimeUpTo, Sums, Share
<1> QED
  BY <1>1, <1>2

LEMMA TimeUpToStep ==
  /\ TimeUpTo[0] = 0
  /\ \A n \in 1..N : TimeUpTo[n] = TimeUpTo[n - 1] + Share(n)
<1>1. ASSUME NEW n \in 0..N
      PROVE  TimeUpTo[n] = IF n = 0 THEN 0 ELSE TimeUpTo[n - 1] + Share(n)
  BY TimeUpToSums DEF Sums
<1> QED
  BY <1>1, ValvesAssumption

LEMMA TimeUpToType ==
  ASSUME TypeOK, NEW n \in 0..N
  PROVE  TimeUpTo[n] \in Nat
<1> DEFINE Bad == {m \in 0..N : TimeUpTo[m] \notin Nat}
<1>1. SUFFICES ASSUME Bad # {} PROVE FALSE
  OBVIOUS
<1>2. PICK m \in Bad : \A i \in Bad : m <= i
  <2>1. Bad \subseteq Nat
    BY ValvesAssumption
  <2> HIDE DEF Bad
  <2> QED
    BY <1>1, <2>1, LeastNat
<1>3. m # 0
  BY TimeUpToStep
<1>4. m \in 1..N /\ m - 1 \in 0..N /\ ~(m <= m - 1)
  BY <1>3, ValvesAssumption
<1>5. TimeUpTo[m - 1] \in Nat
  BY <1>2, <1>4
<1>6. Share(m) \in Nat
  BY <1>4, ValvesAssumption DEF Share, TypeOK, V
<1> QED
  BY <1>4, <1>5, <1>6, TimeUpToStep

\* Sectors that are not programmed add nothing.
LEMMA TimeUpToSkips ==
  ASSUME TypeOK, NEW i \in 0..N, NEW j \in 0..N, i <= j,
         \A v \in programmed : ~(i < v /\ v <= j)
  PROVE  TimeUpTo[j] = TimeUpTo[i]
<1> DEFINE Bad == {m \in i..j : TimeUpTo[m] # TimeUpTo[i]}
<1>1. SUFFICES ASSUME Bad # {} PROVE FALSE
  OBVIOUS
<1>2. PICK m \in Bad : \A l \in Bad : m <= l
  <2>1. Bad \subseteq Nat
    BY ValvesAssumption
  <2> HIDE DEF Bad
  <2> QED
    BY <1>1, <2>1, LeastNat
<1>3. m # i
  OBVIOUS
<1>4. m \in 1..N /\ m - 1 \in i..j /\ ~(m <= m - 1) /\ m \notin programmed
  BY <1>3, ValvesAssumption
<1>5. TimeUpTo[m - 1] = TimeUpTo[i] /\ TimeUpTo[i] \in Nat
  BY <1>2, <1>4, TimeUpToType
<1> QED
  BY <1>4, <1>5, TimeUpToStep DEF Share

LEMMA TimeUpToUnchanged ==
  ASSUME programmed' = programmed, time' = time
  PROVE  TimeUpTo' = TimeUpTo /\ Total' = Total
<1>1. TimeUpTo' = TimeUpTo
  BY Zenon DEF TimeUpTo
<1> QED
  BY <1>1 DEF Total

-----------------------------------------------------------------------------
(* Types of the irrigation mode.                                           *)

PumpType == pump \in Pump /\ phase \in {"run", "mode"}
              /\ check_valves \in BOOLEAN /\ failed \in BOOLEAN

LEMMA Remainder ==
  /\ \A x \in Int : x % Width \in 0..(Width - 1)
  /\ \A x \in Nat : x % Width <= x
  BY IrrigationAssumption

\* The functions that a second applies to the pump yield a pump.
LEMMA SecondType ==
  ASSUME NEW p \in Pump, NEW rth \in BOOLEAN, NEW trip \in BOOLEAN,
         NEW alarm \in BOOLEAN
  PROVE  /\ Sampled(p, rth) \in Pump /\ Timed(p) \in Pump
         /\ Requested(p, rth) \in Pump /\ Checked(p, trip, alarm) \in Pump
<1> USE IrrigationAssumption DEF Pump
<1>1. \A m, d : d \in {"off", "star", "delta"} => 
        Seen(m, d, rth) \in {"off_idle", "on_speeding_up", "on_nominal_delta",
                            "off_thermal_activated"}
  BY DEF Seen
<1>2. Sampled(p, rth) \in Pump
  BY <1>1 DEF Sampled
<1>3. Timed(p) \in Pump
  BY DEF Timed
<1>4. InStar(p, rth) \in Pump
  <2>1. StarTime \in 0..StarTime /\ p.config \in 0..(Width - 1)
    OBVIOUS
  <2> QED
    BY <1>1, <2>1 DEF InStar
<1>5. ASSUME NEW q \in Pump PROVE ToDelta(q) \in Pump
  <2>1. q.star > 0 => q.star - 1 \in 0..StarTime
    OBVIOUS
  <2> QED
    BY <2>1 DEF ToDelta
<1>6. Requested(p, rth) \in Pump
  BY <1>4, <1>5 DEF Requested
<1>7. Checked(p, trip, alarm) \in Pump
  BY DEF Checked, Stopped
<1> QED
  BY <1>2, <1>3, <1>6, <1>7

\* Every variable of the irrigation mode stays in its range, whatever is
\* programmed and whoever trips or touches it.
THEOREM IrrigationTypeCorrect == IrrSpec => []IrrTypeOK
<1> USE IrrigationAssumption DEF PumpType
<1>1. IrrInit => PumpType
  <2>1. 0 \in 0..StarTime /\ 0 \in 0..(Width - 1) /\ Default \in 0..(Width - 1)
    OBVIOUS
  <2>2. IrrInit => pump \in Pump
    BY <2>1 DEF IrrInit, Pump
  <2>3. IrrInit => failed \in BOOLEAN
    BY Zenon DEF IrrInit
  <2> QED
    BY <2>2, <2>3 DEF IrrInit
<1>2. ASSUME TypeOK, PumpType, [IrrNext]_irr_vars PROVE PumpType'
  <2>0. Total \in Nat
    BY <1>2, TimeUpToType, ValvesAssumption DEF Total
  <2>1. CASE Mode
    <3>1. ASSUME NEW matches \in BOOLEAN PROVE Match(matches) \in Pump
      BY <1>2 DEF Match, Pump
    <3>2. CASE CycleStarts
      <4>1. (Total - Margin) % Width \in 0..(Width - 1)
            /\ Total % Width \in 0..(Width - 1)
        <5>1. Total - Margin \in Int /\ Total \in Int
          BY <2>0
        <5> HIDE DEF Total
        <5> QED
          BY <5>1, Remainder
      <4>2. pump' = [pump EXCEPT !.time = (Total - Margin) % Width,
                                 !.config = Total % Width]
        BY <3>2 DEF CycleStarts
      <4>3. pump' \in Pump
        BY <1>2, <4>1, <4>2 DEF Pump
      <4> QED
        BY <1>2, <2>1, <4>3 DEF Mode
    <3>3. CASE CycleStops \/ Refreshes \/ CycleIsLeft
      BY <1>2, <2>1, <3>1, <3>3 DEF Mode, CycleStops, Refreshes, CycleIsLeft
    <3>4. failed' \in BOOLEAN
      BY <2>1, Zenon DEF Mode
    <3> QED
      BY <2>1, <3>2, <3>3, <3>4 DEF Mode
  <2>2. ASSUME NEW rth \in BOOLEAN, NEW trip \in BOOLEAN, NEW alarm \in BOOLEAN,
               Second(rth, trip, alarm)
        PROVE  PumpType'
    BY <1>2, <2>2, SecondType DEF Second
  <2>3. CASE AskStart \/ AskStop
    BY <1>2, <2>3 DEF AskStart, AskStop, Given_now, Stopped, Pump
  <2>4. CASE SetCheckValves
    <3>1. check_valves' \in BOOLEAN
      BY <2>4, Zenon DEF SetCheckValves
    <3> QED
      BY <1>2, <2>4, <3>1 DEF SetCheckValves, Given_now
  <2>5. CASE ValveCommand
    BY <1>2, <2>5 DEF ValveCommand, Given_now
  <2>6. ASSUME NEW t \in {Default}, SetTimer(t) PROVE PumpType'
    BY <1>2, <2>6 DEF SetTimer, Given_now, Pump
  <2>7. CASE Expander \/ UNCHANGED irr_vars
    BY <1>2, <2>7 DEF Expander, irr_vars, settings
  <2> QED
    BY <1>2, <2>1, <2>2, <2>3, <2>4, <2>5, <2>6, <2>7 DEF IrrNext, Task, Users
<1>3. TypeOK /\ PumpType => IrrTypeOK
  BY DEF IrrTypeOK
<1> QED
  BY <1>1, <1>2, <1>3, IrrigationLogs, PTL DEF IrrSpec

-----------------------------------------------------------------------------
(* The valves follow the pump.                                             *)

\* No valve is open while the cycle is off.
ShutInv == state = "system_off" => output = {}

FollowInv ==
  phase = "run" /\ pump.motor \notin Running => state = "system_off"

\* What careful users change while all rests leaves the valves alone.
LEMMA CarefulCommand ==
  ASSUME Careful, ValveCommand
  PROVE  /\ Resting /\ phase = "run" /\ phase' = "run"
         /\ UNCHANGED <<cycle, closer, ioport, pump, check_valves, failed>>
<1>1. Resting /\ phase = "run" /\ UNCHANGED <<pump, phase, check_valves, failed>>
  BY DEF ValveCommand, Given_now
<1>2. CASE SetDelay \/ SetDirection
  BY <1>1, <1>2 DEF SetDelay, SetDirection
<1>3. ASSUME NEW p \in SUBSET V, Programme(p)
      PROVE  UNCHANGED <<cycle, closer, ioport>>
  BY <1>3 DEF Programme
<1>4. ASSUME NEW v \in V, NEW t \in Times, SetTime(v, t)
      PROVE  UNCHANGED <<cycle, closer, ioport>>
  BY <1>4 DEF SetTime
<1> QED
  BY <1>1, <1>2, <1>3, <1>4 DEF ValveCommand

\* If only the mode and its users touch the valves, then by the end of a second
\* that finds the pump stopped they are closed, however the pump was stopped
\* and although a tripped relay hides it.
THEOREM ValvesAlwaysFollow ==
  ASSUME Careful
  PROVE  IrrSpec => []ValvesFollow
<1> USE DEF ShutInv, FollowInv
<1>1. IrrInit => ShutInv /\ FollowInv
  BY DEF IrrInit, Init
<1>2. ASSUME ShutInv, FollowInv, IrrTypeOK, [IrrNext]_irr_vars
      PROVE  ShutInv' /\ FollowInv'
  <2>1. CASE Mode
    <3>1. phase' = "run"
      BY <2>1 DEF Mode
    <3>2. CASE CycleStarts
      <4>1. pump'.motor = "on_speeding_up"
        BY <1>2, <3>2 DEF CycleStarts, IrrTypeOK, Pump
      <4> QED
        BY <3>2, <4>1 DEF CycleStarts, Start, Running
    <3>3. CASE CycleStops
      BY <3>3 DEF CycleStops, Stop, Put
    <3>4. CASE Refreshes
      BY <3>4 DEF Refreshes, Refresh, cycle, Running
    <3>5. CASE CycleIsLeft
      <4>1. pump'.motor = pump.motor
        BY <1>2, <3>5 DEF CycleIsLeft, Match, IrrTypeOK, Pump
      <4>2. pump.motor \notin Running => state = "system_off"
        BY <3>5 DEF CycleIsLeft
      <4> QED
        BY <1>2, <3>5, <4>1, <4>2 DEF CycleIsLeft, vars, cycle, ioport
    <3> QED
      BY <2>1, <3>2, <3>3, <3>4, <3>5 DEF Mode
  <2>2. ASSUME NEW rth \in BOOLEAN, NEW trip \in BOOLEAN, NEW alarm \in BOOLEAN,
               Second(rth, trip, alarm)
        PROVE  ShutInv' /\ FollowInv'
    <3>1. phase' = "mode"
      BY <2>2 DEF Second
    <3>2. CASE UNCHANGED vars
      BY <1>2, <3>1, <3>2 DEF vars, cycle, ioport
    <3>3. CASE Update
      BY <3>1, <3>3 DEF Update, Count, Switch, EndCycle, Put
    <3> QED
      BY <2>2, <3>2, <3>3 DEF Second
  <2>3. CASE AskStart \/ AskStop
    <3>1. pump'.motor = pump.motor /\ UNCHANGED <<vars, phase>>
      BY <1>2, <2>3 DEF AskStart, AskStop, Given_now, Stopped, IrrTypeOK, Pump
    <3> QED
      BY <1>2, <3>1 DEF vars, cycle, ioport
  <2>4. CASE ValveCommand
    BY <1>2, <2>4, CarefulCommand DEF cycle, ioport
  <2>5. ASSUME NEW t \in {Default}, SetTimer(t)
        PROVE  ShutInv' /\ FollowInv'
    <3>1. pump'.motor = pump.motor /\ UNCHANGED <<vars, phase>>
      BY <1>2, <2>5 DEF SetTimer, Given_now, IrrTypeOK, Pump
    <3> QED
      BY <1>2, <3>1 DEF vars, cycle, ioport
  <2>6. CASE SetCheckValves \/ UNCHANGED irr_vars
    BY <1>2, <2>6 DEF SetCheckValves, Given_now, irr_vars, settings, vars,
                      cycle, ioport
  <2>7. CASE Expander
    BY <1>2, <2>7 DEF Expander, Reset, Disturb, settings, cycle
  <2> QED
    BY <1>2, <2>1, <2>2, <2>3, <2>4, <2>5, <2>6, <2>7 DEF IrrNext, Task, Users
<1>3. ShutInv /\ FollowInv => ValvesFollow
  BY DEF ValvesFollow
<1> QED
  BY <1>1, <1>2, <1>3, IrrigationTypeCorrect, PTL DEF IrrSpec

-----------------------------------------------------------------------------
(* The pump stops first.                                                   *)

\* Careful users, no overload, a star that takes a second at least, and sectors
\* programmed in whole minutes.
Steady ==
  /\ Careful /\ ~Trips /\ StarTime > 0
  /\ \A t \in Times : Whole(t) = t

\* What the sectors after the current one take.
ToCome ==
  IF inverted THEN TimeUpTo[current - 1] ELSE Total - TimeUpTo[current]

\* The motor runs under a cycle that has opened its first sector before the
\* delta is driven; only the second that begins the star is ahead of it.
DriveInv ==
  /\ pump.drive = "star" <=> pump.request = "to_delta"
  /\ pump.request = "to_y" =>
       pump.drive = "off" /\ state = "system_off" /\ phase = "run"
  /\ pump.drive # "off" => pump.motor \in Running
  /\ pump.drive # "off" /\ state = "system_off" =>
       phase = "mode" /\ pump.motor = "on_speeding_up" /\ pump.drive = "star"
  /\ pump.drive = "delta" => elapsed > 0

\* The cycle stays within the sectors, and the current one is open and is not
\* the one to be closed.
CycleInv ==
  state = "automatic_switch" =>
    /\ IF inverted THEN current \in 1..(N + 1) ELSE current \in 0..N
    /\ elapsed > 0 \/ remain > 0 =>
         current \in V /\ current \in output /\ last # current

\* The star that starts the cycle may be over before the cycle starts.
StarSeen == phase = "mode" /\ pump.motor = "on_speeding_up"

\* The pump has less time left, by the margin, than the valves.
BudgetInv ==
  /\ ~Resting \/ StarSeen => Total > Margin
  /\ state = "automatic_switch" /\ pump.drive # "off" =>
       pump.time + Margin <= remain + ToCome

SteadyInv ==
  ShutInv /\ DriveInv /\ CycleInv /\ BudgetInv /\ HealedInASecond

\* While all rests nothing can be wrong but a valve left open.
LEMMA RestingSteady ==
  ASSUME Resting', ShutInv', ~StarSeen'
  PROVE  SteadyInv'
  BY DEF Resting, SteadyInv, DriveInv, CycleInv, BudgetInv, HealedInASecond

\* The next sector of the cycle takes its own share of what was to come.
LEMMA NextSector ==
  ASSUME Steady, TypeOK, CycleInv, NEW n \in 1..MaxId, Switch(n)
  PROVE  n \in V /\ n # current /\ remain' + ToCome' = ToCome
<1>1. /\ n \in FindNext /\ state = "automatic_switch" /\ current' = n
      /\ remain' \in Duration(n) /\ UNCHANGED <<inverted, programmed, time>>
  BY DEF Switch, config
<1>2. TimeUpTo' = TimeUpTo /\ Total' = Total
  BY <1>1, TimeUpToUnchanged
<1>3. programmed \in SUBSET V /\ N \in Nat /\ current \in Nat
  BY ValvesAssumption DEF TypeOK
<1>4. n \in programmed =>
        /\ n \in 1..N /\ n - 1 \in 0..N
        /\ remain' = time[n] /\ TimeUpTo[n] = TimeUpTo[n - 1] + time[n]
  <2>1. SUFFICES ASSUME n \in programmed PROVE n \in 1..N
                   /\ n - 1 \in 0..N
                   /\ remain' = time[n] /\ TimeUpTo[n] = TimeUpTo[n - 1] + time[n]
    OBVIOUS
  <2>2. n \in 1..N /\ n - 1 \in 0..N
    BY <1>3, <2>1 DEF V
  <2>3. time[n] \in Times
    BY <2>2 DEF TypeOK, V
  <2>4. remain' = Whole(time[n])
    BY <1>1, <2>2 DEF Duration, V
  <2>5. TimeUpTo[n] = TimeUpTo[n - 1] + time[n]
    BY <2>1, <2>2, TimeUpToStep DEF Share
  <2> QED
    BY <2>2, <2>3, <2>4, <2>5 DEF Steady
<1>5. \A i \in 0..N : TimeUpTo[i] \in Nat
  BY TimeUpToType
<1>6. \A v \in Times : v \in Nat
  BY ValvesAssumption
<1>7. CASE ~inverted
  <2>1. current \in 0..N
    BY <1>1, <1>7 DEF CycleInv
  <2>2. n \in programmed /\ n > current /\ \A v \in programmed : v > current => n <= v
    BY <1>1, <1>7, <2>1, ValvesAssumption DEF FindNext, Upward, Lowest
  <2>3. TimeUpTo[n - 1] = TimeUpTo[current]
    <3>1. \A v \in programmed : ~(current < v /\ v <= n - 1)
      BY <1>3, <2>2 DEF V
    <3> QED
      BY <1>3, <1>4, <2>1, <2>2, <3>1, TimeUpToSkips
  <2>4. Total \in Nat /\ TimeUpTo[current] \in Nat /\ TimeUpTo[n] \in Nat
        /\ time[n] \in Nat
    <3>1. N \in 0..N /\ n \in 0..N
      BY <1>3, <1>4, <2>2
    <3>2. time[n] \in Nat
      BY <1>4, <1>6, <2>2 DEF TypeOK, V
    <3> QED
      BY <1>5, <2>1, <3>1, <3>2 DEF Total
  <2> QED
    BY <1>1, <1>2, <1>4, <1>7, <2>2, <2>3, <2>4 DEF ToCome, V
<1>8. CASE inverted
  <2>1. current \in 1..(N + 1)
    BY <1>1, <1>8 DEF CycleInv
  <2>2. n \in programmed /\ n < current /\ \A v \in programmed : v < current => v <= n
    BY <1>1, <1>3, <1>8, <2>1 DEF FindNext, Downward, Highest
  <2>3. TimeUpTo[current - 1] = TimeUpTo[n]
    <3>1. \A v \in programmed : ~(n < v /\ v <= current - 1)
      BY <1>3, <2>1, <2>2 DEF V
    <3>2. current - 1 \in 0..N /\ n \in 0..N /\ n <= current - 1
      BY <1>3, <1>4, <2>1, <2>2
    <3> QED
      BY <3>1, <3>2, TimeUpToSkips
  <2>4. TimeUpTo[n - 1] \in Nat /\ time[n] \in Nat
    BY <1>4, <1>5, <1>6, <2>2 DEF TypeOK, V
  <2> QED
    BY <1>1, <1>2, <1>4, <1>8, <2>2, <2>3, <2>4 DEF ToCome, V
<1> QED
  BY <1>7, <1>8

\* When the cycle ends nothing was to come.
LEMMA LastSector ==
  ASSUME TypeOK, CycleInv, EndCycle
  PROVE  remain + ToCome = 0
<1>1. 0 \in FindNext /\ state = "automatic_switch" /\ remain = 0
  BY DEF EndCycle
<1>2. programmed \in SUBSET V /\ N \in Nat
  BY ValvesAssumption DEF TypeOK
<1>3. CASE ~inverted
  <2>1. current \in 0..N
    BY <1>1, <1>3 DEF CycleInv
  <2>2. \A v \in programmed : ~(v > current)
    <3>1. current # MaxId /\ 0 \notin programmed
      BY <1>2, <2>1, ValvesAssumption DEF V
    <3>2. 0 \in Upward(current)
      BY <1>1, <1>3 DEF FindNext
    <3> QED
      BY <3>1, <3>2 DEF Upward, Lowest
  <2>3. TimeUpTo[N] = TimeUpTo[current] /\ TimeUpTo[N] \in Nat
    <3>1. N \in 0..N /\ current <= N /\ \A v \in programmed : ~(current < v /\ v <= N)
      BY <1>2, <2>1, <2>2 DEF V
    <3> QED
      BY <2>1, <3>1, TimeUpToSkips, TimeUpToType
  <2> QED
    BY <1>1, <1>3, <2>3 DEF ToCome, Total
<1>4. CASE inverted
  <2>1. current \in 1..(N + 1)
    BY <1>1, <1>4 DEF CycleInv
  <2>2. \A v \in programmed : ~(v < current)
    BY <1>1, <1>2, <1>4, <2>1 DEF FindNext, Downward, Highest, V
  <2>3. TimeUpTo[current - 1] = TimeUpTo[0]
    <3>1. /\ current - 1 \in 0..N /\ 0 \in 0..N /\ 0 <= current - 1
          /\ \A v \in programmed : ~(0 < v /\ v <= current - 1)
      BY <1>2, <2>1, <2>2 DEF V
    <3> QED
      BY <3>1, TimeUpToSkips
  <2> QED
    BY <1>1, <1>4, <2>3, TimeUpToStep DEF ToCome
<1> QED
  BY <1>3, <1>4

\* What a second does to the pump when nothing trips.
LEMMA SecondPump ==
  ASSUME StarTime > 0, pump \in Pump, DriveInv, NEW alarm \in BOOLEAN,
         Second(FALSE, FALSE, alarm)
  PROVE  /\ pump'.drive = "star" <=> pump'.request = "to_delta"
         /\ pump'.request # "to_y"
         /\ pump'.drive # "off" => pump'.motor \in Running
         /\ pump.drive = "off" /\ pump.request = "none" =>
              /\ pump'.drive = "off" /\ pump'.request = "none"
              /\ pump'.motor = "off_idle"
         /\ pump.drive = "off" /\ pump'.drive # "off" =>
              /\ pump.request = "to_y" /\ pump'.drive = "star"
              /\ pump'.motor = "on_speeding_up"
         /\ pump.drive # "off" /\ pump'.drive # "off" =>
              pump'.time = pump.time - 1
<1> USE IrrigationAssumption DEF Pump
<1> DEFINE p1 == Sampled(pump, FALSE)
           p2 == Timed(p1)
           p3 == Requested(p2, FALSE)
<1>1. pump' = Checked(p3, FALSE, alarm)
  BY DEF Second
<1>2. /\ p1 \in Pump /\ p1.drive = pump.drive /\ p1.request = pump.request
      /\ p1.time = pump.time
      /\ p1.motor = CASE pump.drive = "off"   -> "off_idle"
                     [] pump.drive = "star"  -> "on_speeding_up"
                     [] pump.drive = "delta" -> "on_nominal_delta"
  BY SecondType DEF Sampled, Seen
<1> HIDE DEF p1
<1>3. /\ p2 \in Pump /\ p2.drive = p1.drive /\ p2.request = p1.request
      /\ p2.motor = p1.motor
      /\ p1.motor \in Running =>
           p2.time = IF p1.time > 0 THEN p1.time - 1 ELSE p1.time
  BY <1>2, SecondType DEF Timed
<1> HIDE DEF p2
<1>4. p3 \in Pump
  BY <1>3, SecondType
<1>5. CASE pump.request = "none"
  <2>1. p3 = p2 /\ pump.drive \in {"off", "delta"}
    BY <1>2, <1>3, <1>5 DEF Requested, DriveInv
  <2> HIDE DEF p3
  <2>2. CASE pump.drive = "off"
    <3>1. p3.motor = "off_idle" /\ p3.drive = "off" /\ p3.request = "none"
      BY <1>2, <1>3, <1>5, <2>1, <2>2
    <3> QED
      BY <1>1, <1>4, <2>2, <3>1 DEF Checked, Stopped
  <2>3. CASE pump.drive = "delta"
    <3>1. /\ p3.motor = "on_nominal_delta" /\ p3.drive = "delta"
          /\ p3.request = "none"
          /\ p3.time = IF pump.time > 0 THEN pump.time - 1 ELSE pump.time
      BY <1>2, <1>3, <1>5, <2>1, <2>3 DEF Running
    <3> QED
      BY <1>1, <1>4, <2>3, <3>1 DEF Checked, Stopped, Running
  <2> QED
    BY <2>1, <2>2, <2>3
<1>6. CASE pump.request = "to_delta"
  <2>1. p3 = ToDelta(p2) /\ pump.drive = "star"
    BY <1>2, <1>3, <1>6 DEF Requested, DriveInv
  <2>2. /\ p3.motor = "on_speeding_up" /\ p3.time = p2.time
        /\ \/ p3.drive = "star" /\ p3.request = "to_delta"
           \/ p3.drive = "delta" /\ p3.request = "none"
    BY <1>2, <1>3, <1>6, <2>1 DEF ToDelta
  <2>3. p3.time = IF pump.time > 0 THEN pump.time - 1 ELSE pump.time
    BY <1>2, <1>3, <2>1, <2>2 DEF Running
  <2> HIDE DEF p3
  <2> QED
    BY <1>1, <1>4, <2>1, <2>2, <2>3 DEF Checked, Stopped, Running
<1>7. CASE pump.request = "to_y"
  <2>1. p3 = ToDelta(InStar(p2, FALSE)) /\ pump.drive = "off"
    BY <1>2, <1>3, <1>7 DEF Requested, DriveInv
  <2>2. /\ InStar(p2, FALSE).drive = "star"
        /\ InStar(p2, FALSE).request = "to_delta"
        /\ InStar(p2, FALSE).motor = "on_speeding_up"
        /\ InStar(p2, FALSE).star = StarTime
    BY <1>3 DEF InStar, Seen
  <2>3. p3.drive = "star" /\ p3.request = "to_delta"
        /\ p3.motor = "on_speeding_up"
    BY <1>3, <2>1, <2>2 DEF ToDelta, InStar
  <2> QED
    BY <1>1, <1>4, <1>7, <2>1, <2>3 DEF Checked, Stopped, Running
<1> QED
  BY <1>5, <1>6, <1>7

\* So the cycle ends only with the pump off.
LEMMA EndsDry ==
  ASSUME IrrTypeOK, CycleInv, BudgetInv, EndCycle
  PROVE  pump.drive = "off"
<1>1. remain + ToCome = 0
  BY LastSector DEF IrrTypeOK
<1>2. ~(pump.time + Margin <= 0)
  BY IrrigationAssumption DEF IrrTypeOK, Pump
<1> QED
  BY <1>1, <1>2 DEF BudgetInv, EndCycle

\* One second: the pump and the valves count down together.
LEMMA SteadySecond ==
  ASSUME Steady, IrrTypeOK, SteadyInv, NEW alarm \in BOOLEAN,
         Second(FALSE, FALSE, alarm)
  PROVE  SteadyInv'
<1> USE DEF SteadyInv
<1>1. phase = "run" /\ phase' = "mode" /\ TypeOK /\ pump \in Pump
  BY DEF Second, IrrTypeOK
<1>2. /\ pump'.drive = "star" <=> pump'.request = "to_delta"
      /\ pump'.request # "to_y"
      /\ pump'.drive # "off" => pump'.motor \in Running
      /\ pump.drive = "off" /\ pump.request = "none" =>
           /\ pump'.drive = "off" /\ pump'.request = "none"
           /\ pump'.motor = "off_idle"
      /\ pump.drive = "off" /\ pump'.drive # "off" =>
           /\ pump.request = "to_y" /\ pump'.drive = "star"
           /\ pump'.motor = "on_speeding_up"
      /\ pump.drive # "off" /\ pump'.drive # "off" =>
           pump'.time = pump.time - 1
  BY <1>1, SecondPump DEF Steady
<1>3. HealedInASecond'
  BY <1>1 DEF HealedInASecond
<1>4. UNCHANGED <<programmed, time, inverted>>
  BY DEF Second, Update, Count, Switch, EndCycle, vars, config
<1>5. TimeUpTo' = TimeUpTo /\ Total' = Total
  BY <1>4, TimeUpToUnchanged
<1>6. CASE state = "system_off"
  <2>1. UNCHANGED <<state, output>> /\ pump.drive = "off"
    BY <1>1, <1>6 DEF Second, vars, cycle, ioport, DriveInv
  <2>2. DriveInv'
    BY <1>1, <1>2, <1>6, <2>1 DEF DriveInv
  <2>3. Total > Margin \/ (Resting' /\ ~StarSeen')
    BY <1>1, <1>2, <1>6, <2>1 DEF BudgetInv, Resting, StarSeen
  <2> QED
    BY <1>3, <1>5, <1>6, <2>1, <2>2, <2>3 DEF ShutInv, CycleInv, BudgetInv
<1>7. CASE state = "automatic_switch"
  <2>1. /\ pump.request # "to_y" /\ Total > Margin
        /\ pump'.drive # "off" =>
             pump.drive # "off" /\ pump'.time = pump.time - 1
    BY <1>2, <1>7 DEF DriveInv, BudgetInv, Resting
  <2>2. CASE Count
    <3>1. /\ remain > 0 /\ remain' = remain - 1 /\ elapsed' = elapsed + 1
          /\ UNCHANGED <<state, current, last>>
      BY <2>2 DEF Count
    <3>2. /\ remain \in Nat /\ elapsed \in Nat /\ current \in V
          /\ current \in output /\ last # current
      BY <1>1, <1>7, <3>1 DEF TypeOK, CycleInv
    <3>3. current \in output'
      BY <2>2, <3>2 DEF Count, PutIf, Put, Closed, ioport
    <3>4. ShutInv' /\ CycleInv'
      BY <1>4, <1>7, <3>1, <3>2, <3>3 DEF ShutInv, CycleInv
    <3>5. DriveInv'
      BY <1>2, <1>7, <2>1, <3>1, <3>2 DEF DriveInv
    <3>6. BudgetInv'
      <4>1. pump'.drive # "off" => pump.time + Margin <= remain + ToCome
        BY <1>7, <2>1 DEF BudgetInv
      <4>2. ToCome' = ToCome
        BY <1>4, <1>5, <3>1 DEF ToCome
      <4>3. pump.time \in Int /\ Margin \in Int
        BY <1>1, IrrigationAssumption DEF Pump
      <4>4. ToCome \in Int
        <5>1. IF inverted THEN current - 1 \in 0..N ELSE current \in 0..N
          BY <3>2, ValvesAssumption DEF V
        <5> QED
          BY <1>1, <5>1, TimeUpToType, ValvesAssumption DEF ToCome, Total
      <4>5. pump'.drive # "off" => pump'.time + Margin <= remain' + ToCome'
        BY <2>1, <3>1, <3>2, <4>1, <4>2, <4>3, <4>4
      <4> QED
        BY <1>5, <2>1, <4>5 DEF BudgetInv
    <3> QED
      BY <1>3, <3>4, <3>5, <3>6
  <2>3. CASE EndCycle
    <3>1. pump.drive = "off"
      BY <2>3, EndsDry
    <3>2. pump.request = "none"
      BY <1>1, <2>1, <3>1 DEF DriveInv, Pump
    <3>3. state' = "system_off" /\ output' = {}
      BY <2>3 DEF EndCycle, Put
    <3>4. Resting' /\ ShutInv' /\ ~StarSeen'
      BY <1>2, <3>1, <3>2, <3>3 DEF Resting, ShutInv, StarSeen
    <3> QED
      BY <3>4, RestingSteady
  <2>4. ASSUME NEW n \in 1..MaxId, Switch(n) PROVE SteadyInv'
    <3>1. n \in V /\ n # current /\ remain' + ToCome' = ToCome
      BY <1>1, <2>4, NextSector
    <3>2. /\ state' = state /\ current' = n /\ last' = current
          /\ elapsed' = 1 /\ remain = 0
      BY <2>4 DEF Switch
    <3>3. n \in output'
      BY <2>4, <3>1 DEF Switch, PutIf, Put, Opened, Closed
    <3>4. ShutInv' /\ CycleInv'
      <4>1. IF inverted THEN n \in 1..(N + 1) ELSE n \in 0..N
        BY <3>1, ValvesAssumption DEF V
      <4> QED
        BY <1>4, <1>7, <3>1, <3>2, <3>3, <4>1 DEF ShutInv, CycleInv
    <3>5. DriveInv'
      BY <1>2, <1>7, <2>1, <3>2 DEF DriveInv
    <3>6. BudgetInv'
      <4>1. pump'.drive # "off" => pump.time + Margin <= remain + ToCome
        BY <1>7, <2>1 DEF BudgetInv
      <4>2. pump.time \in Int /\ Margin \in Int
        BY <1>1, IrrigationAssumption DEF Pump
      <4>3. ToCome \in Int
        <5>1. IF inverted THEN current - 1 \in 0..N ELSE current \in 0..N
          BY <1>7, ValvesAssumption DEF CycleInv
        <5> QED
          BY <1>1, <5>1, TimeUpToType, ValvesAssumption DEF ToCome, Total
      <4>4. pump'.drive # "off" => pump'.time + Margin <= remain' + ToCome'
        BY <2>1, <3>1, <3>2, <4>1, <4>2, <4>3
      <4> QED
        BY <1>5, <2>1, <4>4 DEF BudgetInv
    <3> QED
      BY <1>3, <3>4, <3>5, <3>6
  <2> QED
    BY <1>7, <2>2, <2>3, <2>4 DEF Second, Update
<1> QED
  BY <1>1, <1>6, <1>7 DEF TypeOK

\* The operation mode: the budget is given, kept or withdrawn.
LEMMA SteadyMode ==
  ASSUME Steady, IrrTypeOK, SteadyInv, Mode
  PROVE  SteadyInv'
<1> USE DEF SteadyInv
<1>1. /\ phase = "mode" /\ phase' = "run" /\ failed' = ~bus
      /\ TypeOK /\ pump \in Pump /\ ~StarSeen'
  BY DEF Mode, IrrTypeOK, StarSeen
<1>2. CASE CycleStarts
  <2>1. /\ state = "system_off" /\ state' = "automatic_switch"
        /\ elapsed' = 0 /\ remain' = 0
        /\ current' = IF inverted THEN N + 1 ELSE 0
        /\ UNCHANGED <<programmed, time, inverted>>
    BY <1>2 DEF CycleStarts, Start, config
  <2>2. /\ pump.motor = "on_speeding_up" /\ pump'.motor = pump.motor
        /\ pump'.drive = pump.drive /\ pump'.request = pump.request
        /\ pump'.time = (Total - Margin) % Width
    BY <1>1, <1>2 DEF CycleStarts, Pump
  <2>3. Total > Margin
    BY <1>1, <2>2 DEF BudgetInv, StarSeen
  <2>4. TimeUpTo' = TimeUpTo /\ Total' = Total
    BY <2>1, TimeUpToUnchanged
  <2>5. ToCome' = Total
    BY <2>1, <2>4, TimeUpToStep, TimeUpToType, ValvesAssumption, <1>1
       DEF ToCome, Total
  <2>6. pump'.time + Margin <= remain' + ToCome'
    <3>1. Total \in Nat /\ Margin \in Nat
      BY <1>1, TimeUpToType, ValvesAssumption, IrrigationAssumption DEF Total
    <3> HIDE DEF Total
    <3>2. Total - Margin \in Nat
      BY <2>3, <3>1
    <3>3. (Total - Margin) % Width <= Total - Margin
          /\ (Total - Margin) % Width \in Int
      BY <3>2, Remainder
    <3> QED
      BY <2>1, <2>2, <2>5, <3>1, <3>3
  <2>7. ShutInv' /\ DriveInv' /\ HealedInASecond'
    BY <1>1, <2>1, <2>2 DEF ShutInv, DriveInv, HealedInASecond
  <2>8. CycleInv'
    BY <2>1, ValvesAssumption DEF CycleInv
  <2> QED
    BY <2>3, <2>4, <2>6, <2>7, <2>8 DEF BudgetInv
<1>3. CASE CycleStops
  <2>1. /\ state = "automatic_switch" /\ pump.motor \notin Running
        /\ state' = "system_off" /\ output' = {}
    BY <1>3 DEF CycleStops, Stop, Put
  <2>2. pump.drive = "off" /\ pump.request = "none"
    BY <1>1, <2>1 DEF DriveInv, Pump
  <2>3. pump' = pump
    BY <1>3, <2>1 DEF CycleStops, Worthwhile, Resting, Steady, Match
  <2>4. Resting' /\ ShutInv'
    BY <2>1, <2>2, <2>3 DEF Resting, ShutInv
  <2> QED
    BY <1>1, <2>4, RestingSteady
<1>4. CASE Refreshes
  <2>1. /\ UNCHANGED <<cycle, config, pump>> /\ state = "automatic_switch"
        /\ PutIf(current \in V, Opened(output, current))
    BY <1>4 DEF Refreshes, Refresh
  <2>2. TimeUpTo' = TimeUpTo /\ Total' = Total
    BY <2>1, TimeUpToUnchanged DEF config
  <2>3. output \subseteq output'
    BY <2>1 DEF PutIf, Put, Opened, ioport
  <2>4. ShutInv' /\ DriveInv' /\ CycleInv'
    BY <1>1, <2>1, <2>3 DEF ShutInv, DriveInv, CycleInv, cycle, config
  <2>5. BudgetInv'
    BY <1>1, <2>1, <2>2 DEF BudgetInv, Resting, ToCome, cycle, config
  <2>6. HealedInASecond'
    <3>1. SUFFICES ASSUME bus, pump.drive = "delta"
                   PROVE  ports' = output' /\ current' \in ports'
      BY <1>1, <2>1 DEF HealedInASecond
    <3>2. current \in V /\ current \in output
      BY <2>1, <3>1 DEF DriveInv, CycleInv
    <3> QED
      BY <2>1, <2>3, <3>1, <3>2 DEF PutIf, Put, cycle
  <2> QED
    BY <2>4, <2>5, <2>6
<1>5. CASE CycleIsLeft
  <2>1. UNCHANGED <<cycle, config, output, ports>>
    BY <1>5 DEF CycleIsLeft, vars, ioport
  <2>2. TimeUpTo' = TimeUpTo /\ Total' = Total
    BY <2>1, TimeUpToUnchanged DEF config
  <2>3. /\ pump'.drive = pump.drive /\ pump'.motor = pump.motor
        /\ pump'.time = pump.time
        /\ \/ pump'.request = pump.request
           \/ pump'.request = "to_y" /\ Resting /\ Total > Margin
    BY <1>1, <1>5 DEF CycleIsLeft, Match, Worthwhile, Steady, Pump
  <2>4. /\ pump.drive # "off" => state = "automatic_switch"
        /\ pump.drive = "delta" =>
             ~(pump.motor = "on_nominal_delta" /\ check_valves)
    BY <1>1, <1>5 DEF CycleIsLeft, DriveInv, TypeOK
  <2>5. ShutInv' /\ DriveInv' /\ CycleInv'
    BY <1>1, <2>1, <2>3, <2>4
       DEF ShutInv, DriveInv, CycleInv, Resting, cycle, config
  <2>6. BudgetInv'
    BY <1>1, <2>1, <2>2, <2>3 DEF BudgetInv, Resting, ToCome, cycle, config
  <2>7. HealedInASecond'
    BY <2>3, <2>4 DEF HealedInASecond, Mode
  <2> QED
    BY <2>5, <2>6, <2>7
<1> QED
  BY <1>2, <1>3, <1>4, <1>5 DEF Mode

\* Commands: whoever is careful changes nothing under a cycle but its stop.
LEMMA SteadyUsers ==
  ASSUME Steady, IrrTypeOK, SteadyInv, Users
  PROVE  SteadyInv'
<1> USE DEF SteadyInv
<1>1. pump \in Pump /\ ShutInv
  BY DEF IrrTypeOK
<1>2. CASE AskStart
  <2>1. /\ Resting /\ Total > Margin /\ phase = "run"
        /\ UNCHANGED <<vars, phase>>
        /\ pump' = [pump EXCEPT !.request = "to_y"]
    BY <1>2 DEF AskStart, Given_now, Worthwhile, Steady
  <2>2. Total' = Total
    BY <2>1, TimeUpToUnchanged DEF vars, config
  <2>3. pump'.drive = "off" /\ pump'.request = "to_y"
        /\ UNCHANGED <<state, output>> /\ state = "system_off"
    BY <1>1, <2>1 DEF Resting, Pump, vars, cycle, ioport
  <2> QED
    BY <2>1, <2>2, <2>3
       DEF ShutInv, DriveInv, CycleInv, BudgetInv, HealedInASecond
<1>3. CASE AskStop
  <2>1. /\ phase = "run" /\ UNCHANGED <<vars, phase>>
        /\ pump'.drive = "off" /\ pump'.request = "none"
    BY <1>1, <1>3 DEF AskStop, Given_now, Stopped, Pump
  <2>2. Total' = Total
    BY <2>1, TimeUpToUnchanged DEF vars, config
  <2>3. Resting' \/ ~Resting
    BY <2>1 DEF Resting, vars, cycle
  <2>4. UNCHANGED <<cycle, output, inverted>>
    BY <2>1 DEF vars, ioport, config
  <2> QED
    BY <2>1, <2>2, <2>3, <2>4 DEF ShutInv, DriveInv, CycleInv, BudgetInv,
       HealedInASecond, StarSeen, cycle
<1>4. CASE ValveCommand
  <2>1. Resting' /\ ShutInv' /\ ~StarSeen'
    BY <1>1, <1>4, CarefulCommand
       DEF Steady, Resting, ShutInv, StarSeen, cycle, ioport
  <2> QED
    BY <2>1, RestingSteady
<1>5. ASSUME SetCheckValves \/ \E t \in {Default} : SetTimer(t)
      PROVE  SteadyInv'
  <2>1. /\ Resting /\ phase' = "run" /\ UNCHANGED vars
        /\ pump'.drive = pump.drive /\ pump'.request = pump.request
    BY <1>1, <1>5 DEF SetCheckValves, SetTimer, Given_now, Steady, Pump
  <2>2. Resting' /\ ShutInv' /\ ~StarSeen'
    BY <1>1, <2>1 DEF Resting, ShutInv, StarSeen, vars, cycle, ioport
  <2> QED
    BY <2>2, RestingSteady
<1> QED
  BY <1>2, <1>3, <1>4, <1>5 DEF Users

LEMMA SteadyCorrect == ASSUME Steady PROVE IrrSpec => []SteadyInv
<1>1. IrrInit => SteadyInv
  BY DEF IrrInit, Init, Resting, StarSeen, SteadyInv, ShutInv, DriveInv,
         CycleInv, BudgetInv, HealedInASecond
<1>2. ASSUME IrrTypeOK, SteadyInv, [IrrNext]_irr_vars PROVE SteadyInv'
  <2>1. ASSUME NEW rth \in BOOLEAN, NEW trip \in BOOLEAN, NEW alarm \in BOOLEAN,
               rth => Trips, Second(rth, trip, alarm)
        PROVE  SteadyInv'
    <3>1. rth = FALSE /\ trip = FALSE
      BY <2>1 DEF Steady, Second
    <3> QED
      BY <1>2, <2>1, <3>1, SteadySecond
  <2>2. ASSUME \/ Expander
               \/ UNCHANGED irr_vars
        PROVE  SteadyInv'
    <3>1. /\ UNCHANGED <<cycle, config, output, pump, phase>>
          /\ failed' = TRUE \/ UNCHANGED <<ports, check_valves, failed>>
      BY <2>2 DEF Expander, Reset, Disturb, irr_vars, settings, vars, ioport
    <3>2. TimeUpTo' = TimeUpTo /\ Total' = Total
      BY <3>1, TimeUpToUnchanged DEF config
    <3>3. ShutInv' /\ DriveInv' /\ CycleInv'
      BY <1>2, <3>1 DEF SteadyInv, ShutInv, DriveInv, CycleInv, cycle, config
    <3>4. BudgetInv'
      BY <1>2, <3>1, <3>2
         DEF SteadyInv, BudgetInv, Resting, StarSeen, ToCome, cycle, config
    <3>5. HealedInASecond'
      BY <1>2, <3>1 DEF SteadyInv, HealedInASecond, cycle
    <3> QED
      BY <3>3, <3>4, <3>5 DEF SteadyInv
  <2> QED
    BY <1>2, <2>1, <2>2, SteadyMode, SteadyUsers DEF IrrNext, Task
<1> QED
  BY <1>1, <1>2, IrrigationTypeCorrect, PTL DEF IrrSpec

\* The pump in delta always has the open valve of the sector under way before it,
\* in every second of every irrigation and whatever alarms stop it, unless a word
\* did not get through or the expander has restarted.
THEOREM AlwaysWatered ==
  ASSUME Steady
  PROVE  IrrSpec => []Watered
<1>1. SteadyInv /\ IrrTypeOK /\ Agree => Watered
  BY DEF SteadyInv, DriveInv, CycleInv, Watered, IrrTypeOK, TypeOK, Agree
<1> QED
  BY <1>1, SteadyCorrect, IrrigationTypeCorrect, IrrigationLogs, PTL

\* With $70:vc the ports agree with what the controller has set in the second
\* after any disturbance.
THEOREM AlwaysHealed ==
  ASSUME Steady
  PROVE  IrrSpec => []HealedInASecond
<1>1. SteadyInv => HealedInASecond
  BY DEF SteadyInv
<1> QED
  BY <1>1, SteadyCorrect, PTL

\* The run timer ends the run before the valves end their cycle, by any margin
\* that is not zero: "minus some time avoid to enter into this condition after
\* working valves cycle finish while motor is on" (acionna.cpp:2063).
THEOREM PumpAlwaysStopsFirst ==
  ASSUME Steady
  PROVE  IrrSpec => PumpStopsFirst
<1>1. IrrTypeOK /\ SteadyInv => (EndCycle => pump.drive = "off")
  BY EndsDry DEF SteadyInv
<1> QED
  BY <1>1, SteadyCorrect, IrrigationTypeCorrect, PTL DEF PumpStopsFirst

=============================================================================
