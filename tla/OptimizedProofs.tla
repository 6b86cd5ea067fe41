-------------------------- MODULE OptimizedProofs ---------------------------
(***************************************************************************)
(* What holds of the scheduler of mode $63 for every length of the day,    *)
(* every programmed time and every list of events: types, the red time,    *)
(* the delay between two cycles, and that the next start is near.          *)
(***************************************************************************)
EXTENDS Optimized, TLAPS

WF == INSTANCE WellFoundedInduction

\* No event starts the motor through star and delta.
NoStars == \A l \in Lists : \A i \in DOMAIN l : ~l[i].star

\* Nobody changes $51:d.
OneDelay == \A a, b \in Delays : a = b

\* Every start lies at least a minute before every red time ($51:h and $51:r
\* take whole minutes).
RedAfterStart == \A s \in Starts, r \in Reds : s + Minute <= r /\ s < r

\* Every start lies before the red time, and so does, on the same day, the next
\* time set by a cycle that ends at the red time.
WithinTheDay ==
  /\ \A s \in Starts, r \in Reds : s <= r
  /\ \A r \in Reds, t \in Delays : t > 0 /\ r + t < Day

-----------------------------------------------------------------------------
(* The search for a cycle.                                                 *)

LEMMA NatMinimum ==
  ASSUME NEW T \in SUBSET Nat, T # {}
  PROVE  \E x \in T : \A y \in T : x <= y
<1> DEFINE Less == WF!OpToRel(<, Nat)
<1>1. WF!IsWellFoundedOn(Less, Nat)
  BY WF!NatLessThanWellFounded, Zenon
<1>2. Less = {ss \in Nat \X Nat : ss[1] < ss[2]}
  BY Zenon DEF WF!OpToRel
<1> HIDE DEF Less
<1>3. PICK x \in T : \A y \in T : ~(<<y, x>> \in Less)
  BY <1>1, WF!WFMin
<1>4. ASSUME NEW y \in T PROVE x <= y
  <2>1. ~(<<y, x>> \in Less)
    BY <1>3
  <2>2. ~(y < x)
    BY <2>1, <1>2
  <2> QED
    BY <2>2
<1> QED
  BY <1>4

LEMMA MinIsMember ==
  ASSUME NEW T \in SUBSET Nat, T # {}
  PROVE  Min(T) \in T
BY NatMinimum DEF Min

\* The events that may be chosen are events of the list.
LEMMA CandidatesAreEvents ==
  ASSUME TypeOK
  PROVE  /\ event_n \in Nat
         /\ From \in Nat /\ Cycle \in Nat
         /\ Candidates \in SUBSET Nat
         /\ \A e \in Candidates : /\ e + 1 \in DOMAIN events
                                  /\ e >= From
                                  /\ CyclesDone(e) \in Nat
<1>1. events \in Seq([star : BOOLEAN, cycles_n : Nat])
  BY OptimizedAssumption DEF TypeOK
<1>2. event_n \in Nat /\ DOMAIN events = 1..event_n
  BY <1>1 DEF event_n
<1>3. From \in Nat /\ Cycle \in Nat
  BY DEF From, Cycle, TypeOK
<1>4. Candidates \subseteq From..(event_n - 1)
  BY DEF Candidates, Left
<1> QED
  BY <1>2, <1>3, <1>4 DEF CyclesDone

\* What a pass does to the motor and to the position in the list: nothing, a
\* cycle, or the end of the list.
LEMMA MatchCases ==
  ASSUME TypeOK, Match
  PROVE  \/ /\ ~AtStart /\ ~AtNext
            /\ UNCHANGED <<pump, flag_time_next, running, event_i, cycle_i>>
         \/ \E e \in Candidates : RunCycle(e)
         \/ Candidates = {} /\ NoCycle
BY CandidatesAreEvents, MinIsMember DEF Match

-----------------------------------------------------------------------------
(* Types.                                                                  *)

LEMMA TypeInit == Init => TypeOK
<1> SUFFICES ASSUME Init PROVE TypeOK
  OBVIOUS
<1>1. resting \in 0..Day
  BY OptimizedAssumption DEF Init
<1>2. time_match_next \in Nat /\ event_i \in Nat /\ cycle_i \in Nat
  BY DEF Init
<1> QED
  BY <1>1, <1>2, Zenon DEF Init, TypeOK

LEMMA TimesAreNaturals ==
  ASSUME TypeOK
  PROVE  /\ Day \in Nat /\ Minute \in Nat /\ Never \in Nat /\ Never >= Day
         /\ time_day_sec \in Nat /\ time_day_sec < Day
         /\ time_delay \in Nat /\ time_match_next \in Nat
         /\ time_red \in Nat /\ time_match_start \in Nat /\ resting \in Nat
BY OptimizedAssumption DEF TypeOK

PumpTyped ==
  /\ driven \in BOOLEAN /\ motor \in {"idle", "on", "overload"}
  /\ star \in BOOLEAN /\ resting \in 0..Day

\* A sample shows a state of the motor.
LEMMA SampleTyped ==
  ASSUME NEW d \in BOOLEAN
  PROVE  Sampled(d) \subseteq {"idle", "on", "overload"}
BY DEF Sampled

LEMMA MatchTyped ==
  ASSUME TypeOK, Match
  PROVE  TypeOK'
<1> DEFINE Typed == /\ PumpTyped'
                    /\ flag_time_next' \in BOOLEAN /\ running' \in BOOLEAN
                    /\ event_i' \in Nat /\ cycle_i' \in Nat
<1>1. Typed
  <2>1. CASE UNCHANGED <<pump, flag_time_next, running, event_i, cycle_i>>
    BY <2>1 DEF TypeOK, PumpTyped, pump
  <2>2. ASSUME NEW e \in Candidates, RunCycle(e) PROVE Typed
    <3>1. e \in Nat /\ CyclesDone(e) \in Nat
      BY CandidatesAreEvents
    <3>2. PumpTyped'
      <4>1. PumpTyped /\ 0 \in 0..Day
        BY OptimizedAssumption DEF TypeOK, PumpTyped
      <4>2. CASE UNCHANGED pump
        BY <4>1, <4>2 DEF PumpTyped, pump
      <4>3. CASE star' = TRUE /\ UNCHANGED <<driven, motor, resting>>
        BY <4>1, <4>3 DEF PumpTyped
      <4>4. CASE /\ driven' \in BOOLEAN /\ motor' \in Sampled(driven')
                 /\ resting' = 0 /\ UNCHANGED star
        <5>1. motor' \in {"idle", "on", "overload"}
          BY <4>4, SampleTyped
        <5> QED
          BY <4>1, <4>4, <5>1 DEF PumpTyped
      <4> QED
        BY <2>2, <4>2, <4>3, <4>4 DEF RunCycle, StartMotor
    <3>3. running' \in BOOLEAN
      BY <2>2, Zenon DEF RunCycle, TypeOK
    <3> QED
      BY <2>2, <3>1, <3>2, <3>3 DEF RunCycle
  <2>3. CASE NoCycle
    <3>1. event_n \in Nat /\ From \in Nat /\ Cycle \in Nat
      BY CandidatesAreEvents
    <3>2. running' \in BOOLEAN
      BY <2>3, Zenon DEF NoCycle, TypeOK
    <3>3. event_i' \in Nat /\ cycle_i' \in Nat
      BY <2>3, <3>1 DEF NoCycle
    <3> QED
      BY <2>3, <3>2, <3>3 DEF NoCycle, TypeOK, PumpTyped, pump
  <2> QED
    BY <2>1, <2>2, <2>3, MatchCases
<1>2. /\ night' \in {"day", "night", "missed"}
      /\ course' \in {"none", "begun", "planned", "over"}
  BY DEF Match, TypeOK
<1> QED
  BY <1>1, <1>2 DEF Match, TypeOK, PumpTyped, settings

LEMMA TypeStep == TypeOK /\ [Next]_vars => TypeOK'
<1> SUFFICES ASSUME TypeOK, [Next]_vars PROVE TypeOK'
  OBVIOUS
<1> USE OptimizedAssumption DEF settings, plan, pump, history
<1>1. CASE Second
  <2>1. time_day_sec' \in 0..(Day - 1)
    BY <1>1 DEF Second, TypeOK
  <2>2. resting' \in 0..Day
    BY <1>1 DEF Second, TypeOK
  <2>3. driven' \in BOOLEAN /\ star' \in BOOLEAN
    BY <1>1, Zenon DEF Second, TypeOK
  <2>4. motor' \in {"idle", "on", "overload"}
        /\ phase' \in {"second", "match", "config", "red"}
    BY <1>1, <2>3, SampleTyped DEF Second
  <2> QED
    BY <1>1, <2>1, <2>2, <2>3, <2>4 DEF Second, TypeOK
<1>2. CASE Match
  BY <1>2, MatchTyped
<1>3. CASE Config
  <2>1. time_match_next' \in Nat
    BY <1>3, TimesAreNaturals DEF Config
  <2>2. flag_time_next' \in BOOLEAN
    BY <1>3, Zenon DEF Config, TypeOK
  <2>3. course' \in {"none", "begun", "planned", "over"}
    BY <1>3 DEF Config, Planned, TypeOK
  <2> QED
    BY <1>3, <2>1, <2>2, <2>3, Zenon DEF Config, TypeOK
<1>4. CASE Red
  <2>1. time_match_next' \in Nat
    BY <1>4, TimesAreNaturals DEF Red, TakenBack
  <2>2. flag_time_next' \in BOOLEAN /\ star' \in BOOLEAN /\ driven' \in BOOLEAN
    BY <1>4, Zenon DEF Red, TypeOK
  <2>3. /\ night' \in {"day", "night", "missed"}
        /\ course' \in {"none", "begun", "planned", "over"}
    BY <1>4 DEF Red, TypeOK
  <2> QED
    BY <1>4, <2>1, <2>2, <2>3, Zenon DEF Red, TypeOK
<1>5. CASE Configure
  BY <1>5 DEF Configure, TypeOK
<1>6. CASE Programme
  BY <1>6 DEF Programme, TypeOK
<1>7. CASE SwitchMode
  <2>1. enabled' \in BOOLEAN
    BY <1>7, Zenon DEF SwitchMode, TypeOK
  <2> QED
    BY <1>7, <2>1 DEF SwitchMode, TypeOK
<1>9. CASE SetClock
  BY <1>9 DEF SetClock, TypeOK
<1>8. CASE UNCHANGED vars
  BY <1>8 DEF vars, TypeOK
<1> QED
  BY <1>1, <1>2, <1>3, <1>4, <1>5, <1>6, <1>7, <1>8, <1>9 DEF Next, Pass

\* Every variable of the scheduler stays in its range: the time of day in the
\* day, the next time above zero however it is taken back at the red time.
THEOREM TypeCorrect == Spec => []TypeOK
BY TypeInit, TypeStep, PTL DEF Spec

-----------------------------------------------------------------------------
(* The motor and the flag.                                                 *)

\* Parts of the pass are only under way in mode $63.
Phases ==
  /\ phase # "second" => enabled
  /\ night = "night" => enabled
  /\ course # "none" => enabled

\* The motor runs only for a cycle whose next time is still to be set, or has
\* just been stopped by the red time; off_idle is never shown while it runs.
Started ==
  /\ ~star
  /\ driven => flag_time_next /\ motor # "idle"
  /\ motor = "on" /\ ~flag_time_next => phase = "second" /\ night # "night"
  /\ motor = "on" /\ ~driven => phase = "second" /\ ~flag_time_next

StartedInv == TypeOK /\ Phases /\ Started

LEMMA StartedInit == Init => StartedInv
BY TypeInit DEF Init, StartedInv, Phases, Started

\* The events of a list without star.
LEMMA NoStarEvents ==
  ASSUME NoStars, TypeOK, NEW e \in Candidates
  PROVE  ~events[e + 1].star
BY CandidatesAreEvents DEF NoStars, TypeOK

LEMMA StartedStep ==
  ASSUME NoStars
  PROVE  StartedInv /\ [Next]_vars => StartedInv'
<1> SUFFICES ASSUME StartedInv, [Next]_vars PROVE Phases' /\ Started'
  BY TypeStep DEF StartedInv
<1> USE DEF StartedInv, Phases, Started, settings, plan, pump, history
<1>1. CASE Second
  <2>1. Phases'
    BY <1>1 DEF Second
  <2>2. /\ driven' \in {FALSE, driven} /\ motor' \in Sampled(driven') /\ star' = FALSE
        /\ flag_time_next' = flag_time_next
    BY <1>1 DEF Second
  <2>3. driven \in BOOLEAN
    BY DEF TypeOK
  <2>4. CASE ~driven'
    <3>1. motor' # "on"
      BY <2>2, <2>4 DEF Sampled
    <3> QED
      BY <2>1, <2>2, <2>4, <3>1
  <2>5. CASE driven /\ driven'
    <3>1. motor' # "idle"
      BY <2>2, <2>5 DEF Sampled
    <3> QED
      BY <2>1, <2>2, <2>5, <3>1
  <2>6. ~driven' \/ (driven /\ driven')
    BY <2>2, Zenon
  <2> QED
    BY <2>4, <2>5, <2>6
<1>2. CASE Match
  <2>1. Phases'
    BY <1>2 DEF Match
  <2>2. CASE UNCHANGED <<pump, flag_time_next, running, event_i, cycle_i>>
    BY <1>2, <2>1, <2>2 DEF Match
  <2>3. ASSUME NEW e \in Candidates, RunCycle(e) PROVE Started'
    BY <1>2, <2>3, NoStarEvents DEF RunCycle, StartMotor, Sampled, Match, TypeOK
  <2>4. CASE NoCycle
    BY <1>2, <2>4 DEF NoCycle, Match
  <2> QED
    BY <1>2, <2>1, <2>2, <2>3, <2>4, MatchCases
<1>3. CASE Config
  BY <1>3 DEF Config, Planned
<1>4. CASE Red
  BY <1>4 DEF Red, AtRed, TypeOK
<1>5. CASE Configure
  BY <1>5 DEF Configure
<1>6. CASE Programme
  BY <1>6 DEF Programme
<1>7. CASE SwitchMode
  BY <1>7 DEF SwitchMode
<1>9. CASE SetClock
  BY <1>9 DEF SetClock
<1>8. CASE UNCHANGED vars
  BY <1>8 DEF vars
<1> QED
  BY <1>1, <1>2, <1>3, <1>4, <1>5, <1>6, <1>7, <1>8, <1>9 DEF Next, Pass

LEMMA AlwaysStarted == ASSUME NoStars PROVE Spec => []StartedInv
BY StartedInit, StartedStep, PTL DEF Spec

-----------------------------------------------------------------------------
(* The red time.                                                           *)

\* Where the night stands: from its start to the red time; the next time it
\* planned lies after the start, and has come if a cycle was begun; after the red
\* time it lies in the part of the day that is past, or is never.
Course ==
  /\ phase = "red" /\ flag_time_next => motor # "idle"
  /\ course \in {"begun", "planned"} =>
       /\ time_match_start <= time_day_sec /\ time_day_sec <= time_red
       /\ phase = "second" => time_day_sec < time_red
  /\ course = "planned" =>
       /\ time_match_start <= time_match_next
       /\ flag_time_next => time_match_next <= time_day_sec
  /\ course = "over" =>
       /\ ~driven /\ ~flag_time_next
       /\ \/ time_match_start <= time_match_next /\ time_match_next <= time_red
          \/ time_match_next >= Day
       /\ \/ time_day_sec < time_match_start \/ time_day_sec >= time_red
          \/ time_day_sec = time_match_start /\ phase = "match"
       /\ phase # "second" => time_day_sec # time_red

CourseInv == StartedInv /\ Course

LEMMA TimesOrdered ==
  ASSUME RedAfterStart, TypeOK
  PROVE  time_match_start + Minute <= time_red /\ time_match_start < time_red
BY DEF RedAfterStart, TypeOK

LEMMA CourseSecond ==
  ASSUME RedAfterStart, CourseInv, Second
  PROVE  Course'
<1> USE DEF CourseInv, StartedInv
<1>1. /\ phase = "second" /\ phase' = IF enabled THEN "match" ELSE "second"
      /\ UNCHANGED <<flag_time_next, time_match_next, time_match_start, time_red,
                     course>>
      /\ time_day_sec' = (time_day_sec + 1) % Day
  BY DEF Second, settings, plan, history
<1>2. time_day_sec' = IF time_day_sec + 1 < Day THEN time_day_sec + 1 ELSE 0
  BY <1>1, TimesAreNaturals
<1>3. time_red < Day
  BY OptimizedAssumption DEF TypeOK
<1>4. ~driven => ~driven'
  BY Zenon DEF Second, Started
<1>5. course # "none" => phase' = "match"
  BY <1>1 DEF Phases
<1>6. phase' # "red"
  BY <1>1
<1>7. ASSUME course \in {"begun", "planned"}
      PROVE  /\ time_match_start <= time_day_sec' /\ time_day_sec' <= time_red
             /\ time_day_sec' = time_day_sec + 1
  BY <1>1, <1>2, <1>3, <1>7, TimesAreNaturals DEF Course
<1>8. ASSUME course = "over"
      PROVE  /\ time_day_sec' <= time_match_start \/ time_day_sec' >= time_red
             /\ time_day_sec' # time_red
  BY <1>1, <1>2, <1>3, <1>8, TimesAreNaturals, TimesOrdered DEF Course
<1> QED
  BY <1>1, <1>4, <1>5, <1>6, <1>7, <1>8, TimesAreNaturals DEF Course

LEMMA CourseMatch ==
  ASSUME NoStars, RedAfterStart, CourseInv, Match
  PROVE  Course'
<1> USE DEF CourseInv, StartedInv
<1>1. /\ phase = "match" /\ phase' = "config"
      /\ UNCHANGED <<time_day_sec, time_red, time_match_start, time_match_next>>
      /\ course' = IF AtStart THEN "begun" ELSE course
  BY DEF Match, settings
<1>2. CASE AtStart
  BY <1>1, <1>2, TimesAreNaturals, TimesOrdered DEF AtStart, Course
<1>3. CASE /\ ~AtStart /\ ~AtNext
           /\ UNCHANGED <<pump, flag_time_next, running, event_i, cycle_i>>
  BY <1>1, <1>3, TimesAreNaturals DEF Course, AtStart, pump
<1>4. CASE ~AtStart /\ AtNext
  <2>1. course # "over"
    BY <1>1, <1>4, TimesAreNaturals DEF Course, AtStart, AtNext
  <2>2. time_match_next <= time_day_sec
    BY <1>4, TimesAreNaturals DEF AtNext
  <2> QED
    BY <1>1, <1>4, <2>1, <2>2 DEF Course
<1> QED
  BY <1>2, <1>3, <1>4 DEF Match

LEMMA CourseConfig ==
  ASSUME CourseInv, Config
  PROVE  Course'
<1> USE DEF CourseInv, StartedInv
<1>1. /\ phase = "config" /\ phase' = "red" /\ Planned
      /\ UNCHANGED <<time_day_sec, time_red, time_match_start, time_delay, pump>>
  BY DEF Config, settings
<1>2. CASE flag_time_next /\ motor = "idle"
  <2>1. ~flag_time_next' /\ time_match_next' = time_day_sec + time_delay
    BY <1>2 DEF Config
  <2>2. course # "over"
    BY <1>2 DEF Course
  <2>3. course' = IF course = "begun" THEN "planned" ELSE course
    BY <1>1, <1>2, <2>1 DEF Planned
  <2>4. course = "begun" \/ course = "planned" =>
          time_match_start <= time_match_next'
    BY <2>1, TimesAreNaturals DEF Course
  <2> QED
    BY <1>1, <2>1, <2>2, <2>3, <2>4 DEF Course, pump
<1>3. CASE ~(flag_time_next /\ motor = "idle")
  <2>1. UNCHANGED <<flag_time_next, time_match_next>>
    BY <1>3 DEF Config
  <2>2. course' = course
    BY <1>1, <2>1, Zenon DEF Planned
  <2> QED
    BY <1>1, <1>3, <2>1, <2>2 DEF Course, pump
<1> QED
  BY <1>2, <1>3

LEMMA CourseRed ==
  ASSUME RedAfterStart, CourseInv, Red
  PROVE  Course'
<1> USE DEF CourseInv, StartedInv
<1>1. /\ phase = "red" /\ phase' = "second"
      /\ UNCHANGED <<time_day_sec, time_red, time_match_start, motor>>
  BY DEF Red, settings
<1>2. CASE ~AtRed
  <2>1. UNCHANGED <<driven, flag_time_next, time_match_next, course>>
    BY <1>2 DEF Red, AtRed
  <2> QED
    BY <1>1, <1>2, <2>1, TimesAreNaturals DEF Course, AtRed
<1>3. CASE AtRed
  <2>1. course' = IF course = "planned" /\ ~Hidden THEN "over" ELSE "none"
    BY <1>3 DEF Red, AtRed
  <2> SUFFICES ASSUME course = "planned", ~Hidden PROVE Course'
    BY <1>1, <2>1 DEF Course
  <2>2. ~driven' /\ ~flag_time_next'
    BY <1>1, <1>3 DEF Red, Course, Started
  <2>3. CASE motor = "idle"
    <3>1. time_match_next' = TakenBack
      BY <1>3, <2>3 DEF Red
    <3> QED
      BY <1>1, <1>3, <2>1, <2>2, <3>1, TimesAreNaturals, TimesOrdered
         DEF Course, AtRed, TakenBack
  <2>4. CASE motor # "idle"
    <3>1. time_match_next' = time_match_next
      BY <2>4 DEF Red
    <3>2. flag_time_next \/ motor = "overload"
      BY <1>1, <2>4 DEF Started, TypeOK
    <3>3. time_match_next <= time_red
      BY <1>3, <3>2, TimesAreNaturals DEF Course, AtRed, Hidden
    <3> QED
      BY <1>1, <1>3, <2>1, <2>2, <3>1, <3>3, TimesAreNaturals DEF Course, AtRed
  <2> QED
    BY <2>3, <2>4
<1> QED
  BY <1>2, <1>3

\* Once the red time has ended a night that had planned a next time, the motor
\* stays off until the start time comes again
\* (operation_pump_start_match_optimized): if every red time lies a minute or
\* more after every start, and no event starts the motor through star and delta.
THEOREM RedAlwaysEndsNight ==
  ASSUME NoStars, RedAfterStart
  PROVE  Spec => []RedEndsNight
<1>1. Init => Course
  BY DEF Init, Course
<1>2. ASSUME CourseInv, [Next]_vars PROVE Course'
  <2> USE <1>2 DEF settings, plan, pump, history
  <2>1. CASE Configure
    BY <2>1 DEF Configure, CourseInv, Course
  <2>2. CASE Programme
    BY <2>2 DEF Programme, CourseInv, Course
  <2>3. CASE SwitchMode \/ SetClock
    BY <2>3 DEF SwitchMode, SetClock, CourseInv, Course
  <2>4. CASE UNCHANGED vars
    BY <2>4 DEF vars, CourseInv, Course
  <2> QED
    BY <2>1, <2>2, <2>3, <2>4, CourseSecond, CourseMatch, CourseConfig, CourseRed
       DEF Next, Pass
<1>3. StartedInv /\ Course => RedEndsNight
  BY DEF StartedInv, Started, Course, RedEndsNight
<1>4. StartedInv /\ Course /\ [Next]_vars => Course'
  BY <1>2 DEF CourseInv
<1> QED
  BY <1>1, <1>3, <1>4, AlwaysStarted, PTL DEF Spec

-----------------------------------------------------------------------------
(* The delay.                                                              *)

\* The motor has rested for the delay, or will have when the next time comes,
\* or that time never comes.
Fresh ==
  \/ time_match_next >= Day
  \/ /\ time_delay < Day
     /\ \/ resting >= time_delay
        \/ /\ time_day_sec <= time_match_next
           /\ resting + (time_match_next - time_day_sec) >= time_delay

\* In the night, a next time that is set is a fresh one; one left from an
\* earlier night is met only with the list at its end.
DelayInv ==
  night = "night" /\ ~flag_time_next => event_i >= event_n \/ Fresh

LEMMA RestsInTheNight ==
  ASSUME StartedInv, night = "night", ~flag_time_next
  PROVE  motor # "on" /\ ~driven /\ ~star
BY DEF StartedInv, Started

\* A second later.
LEMMA FreshLater ==
  ASSUME TypeOK, Fresh, Second, ~driven, ~star
  PROVE  Fresh'
<1>1. /\ time_day_sec' = (time_day_sec + 1) % Day
      /\ resting' = (IF resting < Day THEN resting + 1 ELSE Day)
      /\ UNCHANGED <<time_match_next, time_delay>>
  <2>1. ~driven'
    BY Zenon DEF Second
  <2> QED
    BY <2>1 DEF Second, settings, plan
<1>2. resting \in 0..Day
  BY DEF TypeOK
<1>3. time_day_sec + 1 < Day => time_day_sec' = time_day_sec + 1
  BY <1>1, TimesAreNaturals
<1> QED
  BY <1>1, <1>2, <1>3, TimesAreNaturals DEF Fresh

\* At the end of the list, or a cycle begins.
LEMMA DelayMatch ==
  ASSUME StartedInv, DelayInv, Match
  PROVE  DelayInv'
<1> SUFFICES ASSUME night' = "night", ~flag_time_next'
             PROVE  event_i' >= event_n \/ Fresh'
  BY DEF Match, DelayInv, event_n, settings
<1>1. UNCHANGED <<time_day_sec, time_delay, time_match_next>>
  BY DEF Match, settings
<1>2. TypeOK /\ event_n \in Nat /\ From \in Nat
  BY CandidatesAreEvents DEF StartedInv
<1>3. CASE /\ ~AtStart /\ ~AtNext
           /\ UNCHANGED <<pump, flag_time_next, running, event_i, cycle_i>>
  BY <1>1, <1>3 DEF Match, DelayInv, Fresh, pump
<1>4. ASSUME NEW e \in Candidates, RunCycle(e) PROVE FALSE
  BY <1>4 DEF RunCycle
<1>5. CASE NoCycle
  <2>1. ~flag_time_next
    BY <1>5 DEF NoCycle
  <2> QED
    BY <1>2, <1>5, <2>1 DEF NoCycle
<1> QED
  BY <1>2, <1>3, <1>4, <1>5, MatchCases

\* A cycle that starts at a planned next time finds the motor rested for the
\* delay of $51:d, if that is not changed and no event starts the motor through
\* star and delta: for any list, start and red time, however the day ends.
THEOREM DelayAlwaysKept ==
  ASSUME NoStars, OneDelay
  PROVE  Spec => PlannedDelayKept
<1>1. Init => DelayInv
  BY DEF Init, DelayInv
<1>2. ASSUME StartedInv, DelayInv, [Next]_vars PROVE DelayInv'
  <2> USE <1>2 DEF settings, plan, pump, history
  <2>1. CASE Second
    <3>1. UNCHANGED <<night, flag_time_next>>
      BY <2>1 DEF Second
    <3>2. UNCHANGED <<event_i, events>>
      BY <2>1 DEF Second
    <3> QED
      BY <2>1, <3>1, <3>2, RestsInTheNight, FreshLater
         DEF StartedInv, Started, DelayInv, event_n
  <2>2. CASE Match
    BY <2>2, DelayMatch
  <2>3. CASE Config
    <3>1. TypeOK
      BY DEF StartedInv
    <3>2. CASE flag_time_next /\ motor = "idle"
      <4>1. /\ time_match_next' = time_day_sec + time_delay
            /\ UNCHANGED <<time_day_sec, time_delay, resting>>
        BY <2>3, <3>2 DEF Config
      <4>2. Fresh'
        BY <3>1, <4>1, TimesAreNaturals DEF Fresh
      <4> QED
        BY <4>2 DEF DelayInv
    <3>3. CASE ~(flag_time_next /\ motor = "idle")
      BY <2>3, <3>3 DEF Config, DelayInv, Fresh, event_n
    <3> QED
      BY <3>2, <3>3
  <2>4. CASE Red
    BY <2>4 DEF Red, AtRed, DelayInv, Fresh, event_n
  <2>5. CASE Configure
    <3>1. time_delay' = time_delay
      BY <2>5, OneDelay DEF Configure, StartedInv, TypeOK, OneDelay
    <3> QED
      BY <2>5, <3>1 DEF Configure, DelayInv, Fresh, event_n
  <2>6. CASE Programme \/ SwitchMode \/ SetClock
    BY <2>6 DEF Programme, SwitchMode, SetClock, DelayInv
  <2>7. CASE UNCHANGED vars
    BY <2>7 DEF vars, DelayInv, Fresh, event_n
  <2> QED
    BY <2>1, <2>2, <2>3, <2>4, <2>5, <2>6, <2>7 DEF Next, Pass
<1>3. ASSUME StartedInv, DelayInv, Next, phase = "match", night = "night",
             AtNext, ~flag_time_next, driven' \/ star'
      PROVE  resting >= time_delay
  <2>1. Match
    BY <1>3 DEF Next, Pass, Second, Config, Red, Configure, Programme, SwitchMode,
               SetClock
  <2>2. ~NoCycle
    BY <1>3, RestsInTheNight DEF NoCycle, pump
  <2>3. PICK e \in Candidates : RunCycle(e)
    BY <1>3, <2>1, <2>2, MatchCases DEF StartedInv
  <2>4. event_i < event_n
    BY <1>3, <2>3, CandidatesAreEvents
       DEF StartedInv, TypeOK, From, AtNext, Candidates, Left
  <2>5. Fresh
    BY <1>3, <2>4, CandidatesAreEvents DEF DelayInv, StartedInv, TypeOK
  <2> QED
    BY <1>3, <2>5, TimesAreNaturals DEF Fresh, AtNext, StartedInv
<1>4. StartedInv /\ DelayInv /\ [Next]_vars
        => [(/\ phase = "match" /\ night = "night" /\ AtNext /\ ~flag_time_next
             /\ (driven' \/ star'))
             => resting >= time_delay]_vars
  BY <1>3
<1> QED
  BY <1>1, <1>2, <1>4, AlwaysStarted, PTL DEF Spec, PlannedDelayKept

-----------------------------------------------------------------------------
(* The next start.                                                         *)

\* The next time is at most the delay away and has not been passed.
Near ==
  /\ time_match_next <= time_day_sec + time_delay
  /\ IF phase = "match" THEN time_day_sec <= time_match_next
                        ELSE time_day_sec < time_match_next

\* The night is over at the red time; each of its passes that sees the motor
\* idle sets the next time; unless the list is at its end, that time is near.
NearInv ==
  night = "night" =>
    /\ time_day_sec <= time_red
    /\ phase = "second" => time_day_sec < time_red
    /\ phase \in {"red", "second"} /\ flag_time_next => motor # "idle"
    /\ ~flag_time_next => event_i >= event_n \/ Near

LEMMA NearSecond ==
  ASSUME StartedInv, NearInv, Second
  PROVE  NearInv'
<1> SUFFICES ASSUME night' = "night" PROVE NearInv'
  BY DEF NearInv
<1>1. /\ night = "night" /\ phase = "second" /\ phase' = "match"
      /\ UNCHANGED <<flag_time_next, event_i, events, time_match_next,
                     time_delay, time_red>>
      /\ time_day_sec' = (time_day_sec + 1) % Day
  BY DEF Second, StartedInv, Phases, settings, plan, history
<1>2. time_red \in 0..(Day - 1)
  BY OptimizedAssumption DEF StartedInv, TypeOK
<1>3. TypeOK
  BY DEF StartedInv
<1>4. time_day_sec < time_red
  BY <1>1 DEF NearInv
<1>5. time_day_sec' = time_day_sec + 1
  BY <1>1, <1>2, <1>3, <1>4, TimesAreNaturals
<1>6. ~flag_time_next => event_i >= event_n \/ Near'
  BY <1>1, <1>3, <1>5, TimesAreNaturals DEF NearInv, Near
<1> QED
  BY <1>1, <1>2, <1>3, <1>4, <1>5, <1>6, TimesAreNaturals DEF NearInv, event_n

LEMMA NearMatch ==
  ASSUME WithinTheDay, StartedInv, NearInv, Match
  PROVE  NearInv'
<1> SUFFICES ASSUME night' = "night" PROVE NearInv'
  BY DEF NearInv
<1>1. /\ phase = "match" /\ phase' = "config"
      /\ UNCHANGED <<time_day_sec, time_red, time_delay, time_match_next, events>>
      /\ night' = "night" => AtStart \/ night = "night"
  BY DEF Match, settings
<1>2. TypeOK /\ event_n \in Nat /\ From \in Nat
  BY CandidatesAreEvents DEF StartedInv
<1>3. time_day_sec <= time_red
  BY <1>1, <1>2 DEF NearInv, AtStart, WithinTheDay, TypeOK
<1>4. ~flag_time_next' => event_i' >= event_n \/ Near'
  <2> SUFFICES ASSUME ~flag_time_next' PROVE event_i' >= event_n \/ Near'
    OBVIOUS
  <2>1. CASE /\ ~AtStart /\ ~AtNext
             /\ UNCHANGED <<pump, flag_time_next, running, event_i, cycle_i>>
    <3>1. night = "night" /\ ~flag_time_next
      BY <1>1, <2>1
    <3>2. motor = "idle" \/ motor = "overload"
      BY <1>2, <3>1, RestsInTheNight DEF TypeOK
    <3>3. time_day_sec # time_match_next
      BY <2>1, <3>1, <3>2 DEF AtNext, Match
    <3> QED
      BY <1>1, <1>2, <2>1, <3>1, <3>3, TimesAreNaturals DEF NearInv, Near
  <2>2. ASSUME NEW e \in Candidates, RunCycle(e) PROVE FALSE
    BY <2>2 DEF RunCycle
  <2>3. CASE NoCycle
    BY <1>2, <2>3 DEF NoCycle
  <2> QED
    BY <1>2, <2>1, <2>2, <2>3, MatchCases
<1> QED
  BY <1>1, <1>3, <1>4 DEF NearInv, event_n

LEMMA NearConfig ==
  ASSUME WithinTheDay, StartedInv, NearInv, Config
  PROVE  NearInv'
<1> SUFFICES ASSUME night' = "night" PROVE NearInv'
  BY DEF NearInv
<1>1. /\ phase = "config" /\ phase' = "red" /\ night = "night"
      /\ UNCHANGED <<time_day_sec, time_red, time_delay, events, event_i, motor>>
  BY DEF Config, settings, pump
<1>2. TypeOK
  BY DEF StartedInv
<1>3. CASE flag_time_next /\ motor = "idle"
  <2>1. ~flag_time_next' /\ time_match_next' = time_day_sec + time_delay
    BY <1>3 DEF Config
  <2>2. time_delay > 0
    BY <1>2, OptimizedAssumption DEF WithinTheDay, TypeOK
  <2>3. Near'
    BY <1>1, <1>2, <2>1, <2>2, TimesAreNaturals DEF Near
  <2> QED
    BY <1>1, <2>1, <2>3 DEF NearInv
<1>4. CASE ~(flag_time_next /\ motor = "idle")
  <2>1. UNCHANGED <<flag_time_next, time_match_next>>
    BY <1>4 DEF Config
  <2> QED
    BY <1>1, <1>4, <2>1 DEF NearInv, Near, event_n
<1> QED
  BY <1>3, <1>4

LEMMA NearRed ==
  ASSUME StartedInv, NearInv, Red
  PROVE  NearInv'
<1> SUFFICES ASSUME night' = "night" PROVE NearInv'
  BY DEF NearInv
<1>1. ~AtRed /\ night = "night"
  BY DEF Red, AtRed
<1>2. /\ phase = "red" /\ phase' = "second"
      /\ UNCHANGED <<time_day_sec, time_red, time_delay, time_match_next,
                     events, event_i, motor, flag_time_next>>
  BY <1>1 DEF Red, settings
<1>3. time_day_sec < time_red
  BY <1>1, TimesAreNaturals DEF NearInv, AtRed, StartedInv
<1> QED
  BY <1>1, <1>2, <1>3 DEF NearInv, Near, event_n

\* While cycles are left and the motor rests in the night, the next start is at
\* most the delay away, unless an overload hid its time: if the start, the red
\* time and the delay after it are on one day, the delay is not changed, and no
\* event starts the motor through star and delta.
THEOREM NextAlwaysNear ==
  ASSUME NoStars, OneDelay, WithinTheDay
  PROVE  Spec => []NextIsNear
<1>1. Init => NearInv
  BY DEF Init, NearInv
<1>2. ASSUME StartedInv, NearInv, [Next]_vars PROVE NearInv'
  <2> USE <1>2 DEF settings, plan, pump, history
  <2>1. CASE Configure
    <3>1. time_delay' = time_delay
      BY <2>1 DEF Configure, StartedInv, TypeOK, OneDelay
    <3> QED
      BY <2>1, <3>1 DEF Configure, NearInv, Near, event_n
  <2>2. CASE Programme \/ SwitchMode \/ SetClock
    BY <2>2 DEF Programme, SwitchMode, SetClock, NearInv
  <2>3. CASE UNCHANGED vars
    BY <2>3 DEF vars, NearInv, Near, event_n
  <2> QED
    BY <2>1, <2>2, <2>3, NearSecond, NearMatch, NearConfig, NearRed
       DEF Next, Pass
<1>3. ASSUME StartedInv, NearInv PROVE NextIsNear
  <2> SUFFICES ASSUME Waiting
               PROVE  \E d \in 0..time_delay :
                        time_match_next = (time_day_sec + d) % Day
    BY DEF NextIsNear
  <2>1. TypeOK /\ event_n \in Nat
    BY <1>3, CandidatesAreEvents DEF StartedInv
  <2>2. ~flag_time_next /\ event_i < event_n
    BY <1>3, <2>1 DEF Waiting, NearInv, TypeOK
  <2>3. Near /\ time_day_sec < time_red
    BY <1>3, <2>1, <2>2 DEF Waiting, NearInv, TypeOK
  <2>4. time_red + time_delay < Day
    BY <2>1 DEF WithinTheDay, TypeOK
  <2> DEFINE d == time_match_next - time_day_sec
  <2>5. d \in 0..time_delay /\ time_day_sec + d = time_match_next
    BY <1>3, <2>1, <2>3, TimesAreNaturals DEF Near, Waiting
  <2>6. time_match_next < Day
    BY <2>1, <2>3, <2>4, TimesAreNaturals DEF Near
  <2>7. (time_day_sec + d) % Day = time_match_next
    BY <2>1, <2>5, <2>6, TimesAreNaturals
  <2> HIDE DEF d
  <2> QED
    BY <2>5, <2>7
<1> QED
  BY <1>1, <1>2, <1>3, AlwaysStarted, PTL DEF Spec

=============================================================================
