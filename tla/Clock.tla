------------------------------- MODULE Clock --------------------------------
(***************************************************************************)
(* The two clocks of the controller.  The calendar (Clockin and Date_Time, *)
(* src/components/clock) adds an offset to the timer of the chip and turns *)
(* the result into a date; time_day_sec_ (update_clock, src/main/acionna/  *)
(* acionna.cpp) counts the seconds of the day, and it is the one that the  *)
(* programmed starts are compared with.  It counts what the task isr_1sec  *)
(* tells machine_run (src/main/setup.cpp) through a flag, which holds one  *)
(* second however many have passed, and the task itself may be late: it    *)
(* sleeps a second from whenever it ran.                                   *)
(*                                                                         *)
(* A time of day is one number; unix times are counted in the seconds of   *)
(* days of Day seconds.  The timer and the task tick in any phase to each  *)
(* other, and the timer may pass several seconds for one of the task's.    *)
(* The offset is only used in a sum with the timer, so the sum is the      *)
(* variable.  Operators marked "mutant" are mistakes that no specification *)
(* makes.                                                                  *)
(***************************************************************************)
EXTENDS Integers

CONSTANTS
  Day,       \* 86400
  Fuse,      \* -fuse_sec_: 3 hours
  Width,     \* 2^32, in the same seconds: unix times are uint32_t
  Dates,     \* dates that $10:d sets
  Replies,   \* unix times that NTP servers answer
  MaxTicks,  \* bound: seconds that pass after the date was set
  MaxLost    \* bound: seconds lost after a command, or late

Least(a, b) == IF a < b THEN a ELSE b

-----------------------------------------------------------------------------
(* Date_Time.  Days are counted from 1 January 1970.                       *)

Days2000 == 10957  \* SEC_1970_TO_2000, in days

month_length == <<31, 28, 31, 30, 31, 30, 31, 31, 30, 31, 30, 31>>

\* The sum of month_length over the months before m.
Before(m) == <<0, 31, 59, 90, 120, 151, 181, 212, 243, 273, 304, 334>>[m]

Leap(y) == y % 4 = 0 /\ (y % 100 # 0 \/ y % 400 = 0)

Date == [year : 0..9999, month : 1..12, day : 1..31]

Length(m, y) == month_length[m] + (IF m = 2 /\ Leap(y) THEN 1 ELSE 0)

\* Division as C has it.
Quotient(a, b) == IF a >= 0 THEN a \div b ELSE -((-a) \div b)

ToDaysFromFebruary(d) ==  \* mutant: the leap day counts from February on
  Before(d.month) + d.day + (IF d.month >= 2 /\ Leap(d.year) THEN 1 ELSE 0)
    + 365 * (d.year - 2000) + Quotient(d.year - 1997, 4) - 1 + Days2000

\* unix_time(): the days are held in a uint16_t.
ToDays(d) ==
  LET dc == d.day + Before(d.month)
              + (IF d.month > 2 /\ Leap(d.year) THEN 1 ELSE 0)
              + 365 * (d.year - 2000) + Quotient(d.year - 1997, 4) - 1
  IN  (dc % 65536) + Days2000

YearOf(days)  == (4 * days + 2) \div 1461 + 1970
LeapDays(y)   == IF y % 4 = 0 THEN 1 ELSE 0
DayOf(days)   == days - (1461 * (YearOf(days) - 1970) + 1) \div 4

\* The day of a year whose February has 30 days.
Stretched29(n, leap) == n + (IF n > 58 THEN 2 - leap ELSE 0)  \* mutant: > 58 + leap
Stretched(n, leap)   == n + (IF n > 58 + leap THEN 2 - leap ELSE 0)

MonthOf(m) == (12 * m + 6) \div 367 + 1

\* unix_time(ut): the date of a day.
FromDays(days) ==
  LET m == Stretched(DayOf(days), LeapDays(YearOf(days)))
  IN  [year |-> YearOf(days), month |-> MonthOf(m),
       day |-> m + 1 - (367 * (MonthOf(m) - 1) + 5) \div 12]

\* Both with the time of day.
Unix(d, t) == (ToDays(d) * Day + t + Fuse) % Width

Local(ut)  == (ut - Fuse) % Width
DateOf(ut) == FromDays(Local(ut) \div Day)
TimeOf(ut) == Local(ut) % Day

-----------------------------------------------------------------------------

ASSUME ClockAssumption ==
  /\ Day \in Nat /\ Day > 0 /\ Fuse \in 0..(Day - 1)
  /\ Width \in Nat /\ Width >= 47485 * Day  \* up to the year 2100
  /\ Dates \subseteq Date /\ Replies \subseteq 0..(Width - 1)
  /\ MaxTicks \in Nat /\ MaxLost \in Nat

VARIABLES
  now,           \* the timer plus time_offset_
  due,           \* seconds of the timer since isr_1sec last ran
  flag_1sec,
  loop,          \* machine_run: "run", "update" (update_clock is next), "mode"
  date,          \* dt_: day_, month_, year_
  tod,           \* dt_: hour_, minute_, second_
  time_day_sec,
  ticks,         \* since the date was set
  ledger         \* history, for Balance

clock == <<now, date, tod>>
vars  == <<clock, due, flag_1sec, loop, time_day_sec, ticks, ledger>>

One(b) == IF b THEN 1 ELSE 0

\* Seconds of the task that have not reached time_day_sec, and of the timer
\* that have not reached the task.
Waiting == One(flag_1sec) + One(loop = "update") + due

-----------------------------------------------------------------------------
(* The hardware and isr_1sec.                                              *)

Timer ==
  /\ due + ledger.lost <= MaxLost
  /\ due' = due + 1
  /\ ticks < MaxTicks /\ ticks' = ticks + 1
  /\ now' = (now + 1) % Width
  /\ UNCHANGED <<date, tod, flag_1sec, loop, time_day_sec, ledger>>

\* The delay is relative and machine_run, which never blocks but for a tick, has
\* the same priority: the task runs at most once a second, and may be late by
\* seconds, which are lost like one whose flag is still up.
Isr ==
  /\ due > 0 /\ due' = 0
  /\ flag_1sec => due + ledger.lost <= MaxLost
  /\ flag_1sec' = TRUE
  /\ ledger' = [ledger EXCEPT !.lost = @ + (due - 1) + One(flag_1sec)]
  /\ UNCHANGED <<clock, loop, time_day_sec, ticks>>

-----------------------------------------------------------------------------
(* machine_run.                                                            *)

Begin ==
  /\ loop = "run" /\ flag_1sec
  /\ flag_1sec' = FALSE
  /\ loop' = "update"
  /\ UNCHANGED <<clock, due, time_day_sec, ticks, ledger>>

Counted(t) == IF t = Day THEN 0 ELSE t

\* update_clock, with fetch().
UpdateClock ==
  /\ loop = "update"
  /\ date' = DateOf(now) /\ tod' = TimeOf(now)
  /\ time_day_sec' = Counted(time_day_sec + 1)
  /\ loop' = "mode"
  /\ UNCHANGED <<now, due, flag_1sec, ticks, ledger>>

FinishClears ==  \* mutant: the flag is cleared when the second is done
  /\ loop = "mode"
  /\ loop' = "run" /\ flag_1sec' = FALSE
  /\ UNCHANGED <<clock, due, time_day_sec, ticks, ledger>>

\* The rest of the second, which may last: starting the motor waits for its
\* contactors.
Finish ==
  /\ loop = "mode"
  /\ loop' = "run"
  /\ UNCHANGED <<clock, due, flag_1sec, time_day_sec, ticks, ledger>>

Opened == [lost |-> 0, waiting |-> Waiting, valid |-> TRUE]

\* dt_.update() with d and t in dt_.
Set(d, t) == date' = d /\ tod' = t /\ now' = Unix(d, t)

\* $10:h
SetTime(t) ==
  /\ loop = "run"
  /\ Set(date, t)
  /\ time_day_sec' = t
  /\ ledger' = Opened
  /\ UNCHANGED <<due, flag_1sec, loop, ticks>>

\* $10:d: the day is limited by the month before it is replaced, and the time
\* of the last second is set with it.
SetDate(d) ==
  /\ loop = "run"
  /\ Set([d EXCEPT !.day = Least(@, Length(date.month, date.year))], tod)
  /\ ticks' = 0 /\ ledger' = [ledger EXCEPT !.lost = 0, !.valid = FALSE]
  /\ UNCHANGED <<due, flag_1sec, loop, time_day_sec>>

\* $10:n, when the server answers.
SetNtp(ut) ==
  /\ loop = "run"
  /\ Set(DateOf(ut), TimeOf(ut))
  /\ time_day_sec' = TimeOf(ut)
  /\ ticks' = 0 /\ ledger' = Opened
  /\ UNCHANGED <<due, flag_1sec, loop>>

Command ==
  \/ \E t \in 0..(Day - 1) : SetTime(t)
  \/ \E d \in Dates : SetDate(d)
  \/ \E ut \in Replies : SetNtp(ut)

-----------------------------------------------------------------------------

\* Acionna::init
Init ==
  /\ date = [year |-> 2023, month |-> 7, day |-> 10] /\ tod = 0
  /\ now = Unix(date, tod) /\ time_day_sec = 0
  /\ due \in {0, 1} /\ flag_1sec = FALSE /\ loop = "run"
  /\ ticks = 0
  /\ ledger = [lost |-> 0, waiting |-> due, valid |-> TRUE]

Next == Timer \/ Isr \/ Begin \/ UpdateClock \/ Finish \/ Command

Spec == Init /\ [][Next]_vars

-----------------------------------------------------------------------------
(* Properties.                                                             *)

TypeOK ==
  /\ now \in 0..(Width - 1) /\ date \in Date /\ tod \in 0..(Day - 1)
  /\ time_day_sec \in 0..(Day - 1)
  /\ due \in 0..(MaxLost + 1) /\ flag_1sec \in BOOLEAN
  /\ loop \in {"run", "update", "mode"}
  /\ ticks \in 0..MaxTicks
  /\ ledger \in [lost : 0..MaxLost, waiting : 0..(MaxLost + 3), valid : BOOLEAN]

\* The counter that starts the motor is behind the calendar by exactly the
\* seconds isr_1sec did not run in, those the flag could not hold and those on
\* their way, and ahead by those that were on their way when it was set: none is
\* lost or counted twice in update_clock, at midnight, by a command or between
\* the flag and the loop that takes it down.
Balance ==
  ledger.valid =>
    (TimeOf(now) - time_day_sec - ledger.lost - Waiting + ledger.waiting) % Day = 0

Successor(d) ==
  IF d.day < Length(d.month, d.year) THEN [d EXCEPT !.day = @ + 1]
  ELSE IF d.month < 12 THEN [year |-> d.year, month |-> d.month + 1, day |-> 1]
  ELSE [year |-> d.year + 1, month |-> 1, day |-> 1]

\* From one second to the next the date stays or moves on to the next one of
\* the Gregorian calendar, and it moves on at midnight.
DateMovesOn ==
  [][UpdateClock => date' = IF tod' < tod THEN Successor(date) ELSE date]_vars

\* Setting the time of day leaves the date that is shown, in every month and
\* leap year.
TimeKeepsDate ==
  [][\A t \in 0..(Day - 1) :
       SetTime(t) => DateOf(now') = date /\ TimeOf(now') = t]_vars

=============================================================================
