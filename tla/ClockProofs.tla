---------------------------- MODULE ClockProofs -----------------------------
(***************************************************************************)
(* The two conversions of Date_Time (src/components/clock/date_time.cpp)   *)
(* agree on every date of this century: what unix_time() makes of a date,  *)
(* unix_time(ut) turns back into that date.                                *)
(***************************************************************************)
EXTENDS Clock, TLAPS

\* A date of this century.
Valid(d) ==
  d \in Date /\ d.year \in 2000..2099 /\ d.day <= Length(d.month, d.year)

-----------------------------------------------------------------------------
(* The year: day x is the n-th of the year 2000 + w.                       *)

InYear(w, n, x) ==
  /\ w \in 0..99 /\ n \in 0..365 /\ (n = 365 => w % 4 = 0)
  /\ x \in Int /\ x = n + 365 * w + ((w + 3) \div 4) + Days2000

YearFound(w, n, x) ==
  /\ 10957 <= x /\ x <= 47482
  /\ YearOf(x) = w + 2000
  /\ DayOf(x) = n

LEMMA YearBack == \A w, n, x : InYear(w, n, x) => YearFound(w, n, x)
<1>. SUFFICES ASSUME NEW w, NEW n, NEW x, InYear(w, n, x)
              PROVE  YearFound(w, n, x)
  OBVIOUS
<1>. USE DEF InYear, YearFound, YearOf, DayOf, Days2000
<1>1. PICK a \in 0..24, b \in 0..3 : w = 4 * a + b
  <2>1. w = 4 * (w \div 4) + (w % 4) /\ w \div 4 \in 0..24 /\ w % 4 \in 0..3
    OBVIOUS
  <2>. QED  BY <2>1
<1>2. CASE b = 0  BY <1>1, <1>2
<1>3. CASE b = 1  BY <1>1, <1>3
<1>4. CASE b = 2  BY <1>1, <1>4
<1>5. CASE b = 3  BY <1>1, <1>5
<1>. QED  BY <1>1, <1>2, <1>3, <1>4, <1>5

-----------------------------------------------------------------------------
(* The month: day n of the year is day e of month k; leap is 1 or 0.       *)

InMonth(k, e, leap, n, m) ==
  /\ k \in 1..12 /\ e \in 1..31 /\ leap \in {0, 1}
  /\ e <= month_length[k] + (IF k = 2 THEN leap ELSE 0)
  /\ n \in Int /\ n = Before(k) + e - 1 + (IF k > 2 THEN leap ELSE 0)
  /\ m \in Int /\ m = Stretched(n, leap)

MonthFound(k, e, leap, n, m) ==
  /\ n \in 0..365 /\ (n = 365 => leap = 1)
  /\ MonthOf(m) = k
  /\ m + 1 - (367 * (k - 1) + 5) \div 12 = e

LEMMA MonthBack ==
  \A k, e, leap, n, m : InMonth(k, e, leap, n, m) => MonthFound(k, e, leap, n, m)
<1>. SUFFICES ASSUME NEW k, NEW e, NEW leap, NEW n, NEW m,
                     InMonth(k, e, leap, n, m)
              PROVE  MonthFound(k, e, leap, n, m)
  OBVIOUS
<1>1. k = 1 \/ k = 2 \/ k = 3 \/ k = 4 \/ k = 5 \/ k = 6 \/ k = 7 \/ k = 8
        \/ k = 9 \/ k = 10 \/ k = 11 \/ k = 12
  BY DEF InMonth
<1>. QED  BY <1>1 DEF InMonth, MonthFound, Stretched, MonthOf, Before,
                   month_length

-----------------------------------------------------------------------------

LEMMA LeapHere ==
  ASSUME NEW y \in 2000..2099
  PROVE  Leap(y) <=> y % 4 = 0
BY DEF Leap

LEMMA LeapYears ==
  ASSUME NEW y \in 2000..2099
  PROVE  \E w \in 0..99, leap \in {0, 1} :
           /\ y = w + 2000
           /\ Leap(y) <=> leap = 1
           /\ leap = 1 <=> w % 4 = 0
<1>1. PICK w \in 0..99 : y = w + 2000
  <2>1. y - 2000 \in 0..99 /\ y = (y - 2000) + 2000  OBVIOUS
  <2>. QED  BY <2>1
<1>2. CASE w % 4 = 0
  <2>1. y % 4 = 0  BY <1>1, <1>2
  <2>. QED  BY <1>1, <1>2, <2>1, LeapHere
<1>3. CASE w % 4 # 0
  <2>1. y % 4 # 0  BY <1>1, <1>3
  <2>. QED  BY <1>1, <1>3, <2>1, LeapHere
<1>. QED  BY <1>2, <1>3

LEMMA DateBack ==
  ASSUME NEW d, Valid(d)
  PROVE  /\ ToDays(d) \in Int /\ 10957 <= ToDays(d) /\ ToDays(d) <= 47482
         /\ FromDays(ToDays(d)) = d
<1>1. d.year \in 2000..2099 /\ d.month \in 1..12 /\ d.day \in 1..31
  BY DEF Valid, Date
<1>2. PICK w \in 0..99, leap \in {0, 1} :
        /\ d.year = w + 2000
        /\ Leap(d.year) <=> leap = 1
        /\ leap = 1 <=> w % 4 = 0
  BY <1>1, LeapYears
<1>3. Before(d.month) \in 0..334
  BY <1>1 DEF Before
<1>4. PICK n \in Int :
        n = Before(d.month) + d.day - 1 + (IF d.month > 2 THEN leap ELSE 0)
  <2>1. (IF d.month > 2 THEN leap ELSE 0) \in Int
    BY <1>2
  <2>2. Before(d.month) + d.day - 1 + (IF d.month > 2 THEN leap ELSE 0) \in Int
    <3>1. Before(d.month) \in Int /\ d.day \in Int
      BY <1>1, <1>3
    <3>. QED  BY ONLY <2>1, <3>1
  <2>. QED  BY ONLY <2>2
<1>5. PICK m \in Int : m = Stretched(n, leap)
  BY <1>2, <1>4 DEF Stretched
<1>6. PICK x \in Int : x = n + 365 * w + ((w + 3) \div 4) + Days2000
  BY <1>2, <1>4 DEF Days2000
<1>7. MonthFound(d.month, d.day, leap, n, m)
  <2>1. d.day <= month_length[d.month] + (IF d.month = 2 THEN leap ELSE 0)
    BY <1>1, <1>2 DEF Valid, Length
  <2>2. InMonth(d.month, d.day, leap, n, m)
    BY <1>1, <1>2, <1>4, <1>5, <2>1 DEF InMonth
  <2>. QED  BY <2>2, MonthBack
<1>8. YearFound(w, n, x)
  <2>1. InYear(w, n, x)
    BY <1>2, <1>6, <1>7 DEF InYear, MonthFound
  <2>. QED  BY <2>1, YearBack
<1>9. ToDays(d) = x
  <2>1. Quotient(d.year - 1997, 4) = (w + 3) \div 4
    BY <1>2 DEF Quotient
  <2>2. (IF d.month > 2 /\ Leap(d.year) THEN 1 ELSE 0)
          = (IF d.month > 2 THEN leap ELSE 0)
    BY <1>1, <1>2
  <2>3. 365 * (d.year - 2000) = 365 * w
    BY <1>2
  <2>4. d.day + Before(d.month) + (IF d.month > 2 /\ Leap(d.year) THEN 1 ELSE 0)
          + 365 * (d.year - 2000) + Quotient(d.year - 1997, 4) - 1
        = x - 10957
    <3>1. x = Before(d.month) + d.day - 1 + (IF d.month > 2 THEN leap ELSE 0)
                + 365 * w + ((w + 3) \div 4) + 10957
      BY <1>4, <1>6 DEF Days2000
    <3>2. 365 * w \in Int /\ (w + 3) \div 4 \in Int /\ Before(d.month) \in Int
            /\ (IF d.month > 2 THEN leap ELSE 0) \in Int
      BY <1>2, <1>3
    <3>. QED  BY <1>1, <2>1, <2>2, <2>3, <3>1, <3>2
  <2>5. (x - 10957) % 65536 = x - 10957
    BY <1>8 DEF YearFound
  <2>. QED  BY <1>6, <2>4, <2>5 DEF ToDays, Days2000
<1>10. FromDays(x) = [year |-> d.year, month |-> d.month, day |-> d.day]
  <2>1. YearOf(x) = d.year /\ DayOf(x) = n
    BY <1>2, <1>8 DEF YearFound
  <2>2. LeapDays(d.year) = leap
    BY <1>1, <1>2, LeapHere DEF LeapDays
  <2>3. Stretched(DayOf(x), LeapDays(YearOf(x))) = m
    BY <1>5, <2>1, <2>2
  <2>4. MonthOf(m) = d.month /\ m + 1 - (367 * (d.month - 1) + 5) \div 12 = d.day
    BY <1>7 DEF MonthFound
  <2>. QED  BY <2>1, <2>3, <2>4 DEF FromDays
<1>. QED
  <2>1. d = [year |-> d.year, month |-> d.month, day |-> d.day]
    BY DEF Valid, Date
  <2>. QED  BY <1>6, <1>8, <1>9, <1>10, <2>1 DEF YearFound

\* unix_time() of a date is a day that unix_time(ut) takes for the same date.
THEOREM DatesComeBack == \A d : Valid(d) => FromDays(ToDays(d)) = d
BY DateBack

-----------------------------------------------------------------------------
(* The steps, as long as the calendar stays in this century.               *)

InCentury == Valid(date) /\ Fuse <= now /\ now < Width - 1

LEMMA Modulo ==
  ASSUME NEW n \in Nat, n > 0, NEW q \in Int, NEW r \in 0..(n - 1)
  PROVE  (n * q + r) % n = r /\ (n * q + r) \div n = q
OBVIOUS

LEMMA Division ==
  ASSUME NEW n \in Nat, n > 0, NEW x \in Int
  PROVE  x = n * (x \div n) + (x % n) /\ x % n \in 0..(n - 1) /\ x \div n \in Int
OBVIOUS

\* A date and time of this century is shown as it was set.
LEMMA Shown ==
  ASSUME NEW d, Valid(d), NEW t \in 0..(Day - 1)
  PROVE  /\ Unix(d, t) = ToDays(d) * Day + t + Fuse
         /\ DateOf(Unix(d, t)) = d /\ TimeOf(Unix(d, t)) = t
<1>1. PICK x \in Int : x = ToDays(d) /\ 10957 <= x /\ x <= 47482
  BY DateBack
<1>2. Day \in Nat /\ Day > 0 /\ Fuse \in 0..(Day - 1) /\ Width \in Nat
        /\ Width >= 47485 * Day
  BY ClockAssumption
<1>3. PICK y \in Int : y = x * Day
  BY <1>1, <1>2
<1>4. 0 <= y /\ y <= 47482 * Day
  BY <1>1, <1>2, <1>3
<1>5. 0 <= y + t + Fuse /\ y + t + Fuse < Width /\ 0 <= y + t /\ y + t < Width
  BY <1>2, <1>4
<1>6. Unix(d, t) = y + t + Fuse
  BY <1>1, <1>2, <1>3, <1>5 DEF Unix
<1>7. Local(Unix(d, t)) = y + t
  <2>1. (y + t + Fuse) - Fuse = y + t  BY <1>2
  <2>2. (y + t) % Width = y + t  BY <1>2, <1>5
  <2>. QED  BY <1>6, <2>1, <2>2 DEF Local
<1>8. (y + t) \div Day = x /\ (y + t) % Day = t
  <2>1. y + t = Day * x + t  BY <1>1, <1>2, <1>3
  <2>2. (Day * x + t) % Day = t /\ (Day * x + t) \div Day = x
    BY <1>2, Modulo
  <2>. QED  BY <2>1, <2>2
<1>. QED  BY <1>1, <1>3, <1>6, <1>7, <1>8, DateBack DEF DateOf, TimeOf

\* Seconds that the timer is ahead of the counter, whole days included, but for
\* those that Balance accounts for.
Ahead ==
  now - Fuse - time_day_sec - ledger.lost - Waiting + ledger.waiting

Aligned(x) == \E q \in Int : x = Day * q

Typed ==
  /\ now \in Int
  /\ tod \in Int /\ 0 <= tod /\ tod <= Day - 1
  /\ time_day_sec \in Int /\ 0 <= time_day_sec /\ time_day_sec <= Day - 1
  /\ flag_1sec \in BOOLEAN /\ due \in Int /\ due >= 0
  /\ ledger \in [lost : Int, waiting : Int, valid : BOOLEAN]

Even == ledger.valid => Aligned(Ahead)

LEMMA DayIs == Day \in Int /\ Day > 0 /\ Fuse \in Int /\ Width \in Nat /\ Width > 0
<1>1. Day \in Nat /\ Day > 0 /\ Fuse \in 0..(Day - 1) /\ Width \in Nat
        /\ Width >= 47485 * Day
  BY ClockAssumption
<1>. QED  BY ONLY <1>1

LEMMA AlignedNext ==
  /\ \A x \in Int : Aligned(Day * x)
  /\ \A a, b : Aligned(a) /\ (b = a \/ b = a + Day) => Aligned(b)
<1>1. \A q \in Int : Day * q + Day = Day * (q + 1) /\ q + 1 \in Int
  BY DayIs
<1>. QED  BY <1>1 DEF Aligned

LEMMA OneIs ==
  /\ One(flag_1sec) \in 0..1 /\ One(flag_1sec)' \in 0..1
  /\ One(loop = "update") \in 0..1 /\ One(loop = "update")' \in 0..1
BY DEF One

LEMMA WaitingIs ==
  /\ due \in Int => Waiting \in Int
  /\ due' \in Int => Waiting' \in Int
<1>1. One(flag_1sec) \in Int /\ One(loop = "update") \in Int
  BY DEF One
<1>2. One(flag_1sec)' \in Int /\ One(loop = "update")' \in Int
  BY DEF One
<1>. QED  BY <1>1, <1>2 DEF Waiting

\* What dt_.update() makes of a date of this century.
LEMMA SetIs ==
  ASSUME NEW d, NEW t \in Int, 0 <= t, t <= Day - 1, Set(d, t), InCentury'
  PROVE  /\ now' \in Int /\ tod' = t
         /\ \E x \in Int : now' = Day * x + t + Fuse
<1>1. Valid(d) /\ tod' = t /\ now' = Unix(d, t)
  BY DEF Set, InCentury
<1>2. t \in 0..(Day - 1)
  BY DayIs
<1>3. PICK x \in Int : x = ToDays(d)
  BY <1>1, DateBack
<1>4. now' = x * Day + t + Fuse
  BY <1>1, <1>2, <1>3, Shown
<1>5. x * Day = Day * x /\ Day * x \in Int
  BY DayIs
<1>6. now' = Day * x + t + Fuse
  BY <1>4, <1>5
<1>7. now' \in Int
  BY <1>5, <1>6, DayIs
<1>. QED  BY ONLY <1>1, <1>6, <1>7

LEMMA TimeIs ==
  ASSUME NEW ut \in Int
  PROVE  TimeOf(ut) \in Int /\ 0 <= TimeOf(ut) /\ TimeOf(ut) <= Day - 1
<1>1. Local(ut) \in Int
  <2>1. ut - Fuse \in Int  BY DayIs
  <2>. QED  BY <2>1, DayIs, Division DEF Local
<1>2. Local(ut) % Day \in 0..(Day - 1)
  BY <1>1, DayIs, Division
<1>. QED  BY <1>2, DayIs DEF TimeOf

LEMMA InitInv == Init /\ InCentury => Typed /\ Even
<1>. SUFFICES ASSUME Init, InCentury  PROVE Typed /\ Even
  OBVIOUS
<1>1. PICK x \in Int : x = ToDays(date)
  BY DateBack DEF InCentury
<1>2. now = x * Day + 0 + Fuse
  <2>1. 0 \in 0..(Day - 1)  BY DayIs
  <2>2. Unix(date, 0) = ToDays(date) * Day + 0 + Fuse
    BY <2>1, Shown DEF InCentury
  <2>. QED  BY <1>1, <2>2 DEF Init
<1>3. x * Day = Day * x /\ Day * x \in Int
  BY DayIs
<1>4. now \in Int
  BY <1>2, <1>3, DayIs
<1>5. Typed
  <2>1. ledger \in [lost : Int, waiting : Int, valid : BOOLEAN]
    <3>1. ledger = [lost |-> 0, waiting |-> due, valid |-> TRUE] /\ due \in Int
      BY DEF Init
    <3>. QED  BY <3>1
  <2>2. flag_1sec \in BOOLEAN
    BY DEF Init
  <2>4. due \in Int /\ due >= 0
    <3>1. due \in {0, 1}  BY DEF Init
    <3>. QED  BY <3>1
  <2>3. /\ tod \in Int /\ 0 <= tod /\ tod <= Day - 1
        /\ time_day_sec \in Int /\ 0 <= time_day_sec /\ time_day_sec <= Day - 1
    BY DayIs DEF Init
  <2>. QED  BY <1>4, <2>1, <2>2, <2>3, <2>4 DEF Typed
<1>6. Waiting = ledger.waiting /\ ledger.lost = 0 /\ time_day_sec = 0
  <2>1. One(flag_1sec) = 0 /\ One(loop = "update") = 0
    BY DEF Init, One
  <2>2. due \in Int
    BY DEF Init
  <2>. QED  BY <2>1, <2>2 DEF Init, Waiting
<1>7. Ahead = Day * x
  <2>1. now - Fuse = Day * x
    BY <1>2, <1>3, DayIs
  <2>. QED  BY <1>3, <1>5, <1>6, <2>1, WaitingIs DEF Ahead, Typed
<1>. QED  BY <1>5, <1>7, AlignedNext DEF Even

LEMMA StepTyped == Typed /\ InCentury /\ InCentury' /\ [Next]_vars => Typed'
<1>. SUFFICES ASSUME Typed, InCentury, InCentury', [Next]_vars  PROVE Typed'
  OBVIOUS
<1>1. CASE Timer
  <2>1. now' \in Int
    BY <1>1, DayIs DEF Timer, Typed
  <2>. QED  BY <1>1, <2>1 DEF Timer, Typed
<1>2. CASE Isr
  <2>1. ledger.lost \in Int /\ due \in Int /\ One(flag_1sec) \in Int
    BY DEF Typed, One
  <2>2. ledger.lost + (due - 1) + One(flag_1sec) \in Int
    BY <2>1
  <2>3. ledger' \in [lost : Int, waiting : Int, valid : BOOLEAN]
    BY <1>2, <2>2 DEF Isr, Typed
  <2>. QED  BY <1>2, <2>3, DayIs DEF Isr, Typed, clock
<1>3. CASE Begin
  BY <1>3, DayIs DEF Begin, Typed, clock
<1>4. CASE UpdateClock
  <2>1. tod' \in Int /\ 0 <= tod' /\ tod' <= Day - 1
    BY <1>4, TimeIs DEF UpdateClock, Typed
  <2>2. time_day_sec' \in Int /\ 0 <= time_day_sec' /\ time_day_sec' <= Day - 1
    BY <1>4, DayIs DEF UpdateClock, Typed, Counted
  <2>. QED  BY <1>4, <2>1, <2>2 DEF UpdateClock, Typed
<1>5. CASE Finish
  BY <1>5, DayIs DEF Finish, Typed, clock
<1>6. Opened \in [lost : Int, waiting : Int, valid : BOOLEAN]
  BY WaitingIs DEF Opened, Typed
<1>7. ASSUME NEW t \in 0..(Day - 1), SetTime(t)  PROVE Typed'
  <2>1. t \in Int /\ 0 <= t /\ t <= Day - 1 /\ Set(date, t)
    BY <1>7, DayIs DEF SetTime
  <2>2. now' \in Int /\ tod' = t
    BY <2>1, SetIs
  <2>. QED  BY <1>6, <1>7, <2>1, <2>2 DEF SetTime, Typed
<1>8. ASSUME NEW d \in Dates, SetDate(d)  PROVE Typed'
  <2>1. tod \in Int /\ 0 <= tod /\ tod <= Day - 1
    BY DEF Typed
  <2>2. now' \in Int /\ tod' = tod
    BY <1>8, <2>1, SetIs DEF SetDate
  <2>3. ledger' \in [lost : Int, waiting : Int, valid : BOOLEAN]
    <3>1. ledger.waiting \in Int
            /\ ledger = [lost |-> ledger.lost, waiting |-> ledger.waiting,
                         valid |-> ledger.valid]
      BY DEF Typed
    <3>2. ledger' = [lost |-> 0, waiting |-> ledger.waiting, valid |-> FALSE]
      BY <1>8, <3>1 DEF SetDate
    <3>. QED  BY <3>1, <3>2
  <2>. QED  BY <1>8, <2>2, <2>3 DEF SetDate, Typed
<1>9. ASSUME NEW ut \in Replies, SetNtp(ut)  PROVE Typed'
  <2>1. ut \in Int
    BY ClockAssumption
  <2>2. TimeOf(ut) \in Int /\ 0 <= TimeOf(ut) /\ TimeOf(ut) <= Day - 1
    BY <2>1, TimeIs
  <2>3. now' \in Int /\ tod' = TimeOf(ut)
    BY <1>9, <2>2, SetIs DEF SetNtp
  <2>. QED  BY <1>6, <1>9, <2>2, <2>3 DEF SetNtp, Typed
<1>10. CASE UNCHANGED vars
  BY <1>10 DEF vars, clock, Typed
<1>. QED
  BY <1>1, <1>2, <1>3, <1>4, <1>5, <1>7, <1>8, <1>9, <1>10 DEF Next, Command

\* A date set opens a new account.
LEMMA OpenedEven ==
  ASSUME Typed, NEW x \in Int, NEW t \in Int, now' = Day * x + t + Fuse,
         time_day_sec' = t, ledger' = Opened, UNCHANGED <<due, flag_1sec, loop>>
  PROVE  Even'
<1>1. Waiting' = Waiting
  BY DEF Waiting
<1>2. ledger'.waiting = Waiting /\ ledger'.lost = 0
  BY DEF Opened
<1>3. Ahead' = now' - Fuse - time_day_sec' - ledger'.lost - Waiting' + ledger'.waiting
  BY DEF Ahead
<1>4. Day * x \in Int
  BY DayIs
<1>5. Ahead' = Day * x
  BY <1>1, <1>2, <1>3, <1>4, DayIs, WaitingIs DEF Typed
<1>. QED  BY <1>5, AlignedNext DEF Even

LEMMA StepEven ==
  Typed /\ Even /\ InCentury /\ InCentury' /\ [Next]_vars => Even'
<1>. SUFFICES ASSUME Typed, Even, InCentury, InCentury', [Next]_vars  PROVE Even'
  OBVIOUS
<1>1. /\ Ahead = now - Fuse - time_day_sec - ledger.lost - Waiting + ledger.waiting
      /\ Ahead' = now' - Fuse - time_day_sec' - ledger'.lost - Waiting'
                    + ledger'.waiting
      /\ Waiting \in Int /\ Waiting' \in Int /\ now \in Int /\ time_day_sec \in Int
      /\ ledger.lost \in Int /\ ledger.waiting \in Int /\ due \in Int
  BY StepTyped, WaitingIs DEF Ahead, Typed
<1>2. ASSUME ledger' = ledger, Ahead' = Ahead \/ Ahead' = Ahead + Day  PROVE Even'
  BY <1>2, AlignedNext DEF Even
<1>3. CASE Timer
  <2>1. now' = now + 1 /\ time_day_sec' = time_day_sec /\ ledger' = ledger
    <3>1. 0 <= now + 1 /\ now + 1 < Width
      BY <1>1, DayIs, ClockAssumption DEF InCentury
    <3>2. (now + 1) % Width = now + 1
      BY <3>1, <1>1, DayIs
    <3>. QED  BY <1>3, <3>2 DEF Timer
  <2>2. Waiting' = Waiting + 1
    BY <1>1, <1>3, OneIs DEF Timer, Waiting
  <2>3. Ahead' = Ahead
    BY <1>1, <2>1, <2>2, DayIs
  <2>. QED  BY <1>2, <2>1, <2>3
<1>4. CASE Isr
  <2>1. now' = now /\ time_day_sec' = time_day_sec
          /\ ledger'.waiting = ledger.waiting /\ ledger'.valid = ledger.valid
          /\ ledger'.lost = ledger.lost + (due - 1) + One(flag_1sec)
    BY <1>4 DEF Isr, Typed, clock
  <2>2. Waiting' + (due - 1) + One(flag_1sec) = Waiting
    BY <1>4 DEF Isr, Waiting, One, Typed
  <2>3. One(flag_1sec) \in Int
    BY DEF One
  <2>4. Ahead' = Ahead
    BY <1>1, <2>1, <2>2, <2>3, DayIs
  <2>. QED  BY <2>1, <2>4 DEF Even
<1>5. CASE Begin
  <2>1. Waiting' = Waiting
    BY <1>5 DEF Begin, Waiting, One
  <2>2. now' = now /\ time_day_sec' = time_day_sec /\ ledger' = ledger
    BY <1>5 DEF Begin, clock
  <2>3. Ahead' = Ahead
    BY <1>1, <2>1, <2>2
  <2>. QED  BY <1>2, <2>2, <2>3
<1>6. CASE UpdateClock
  <2>1. Waiting' = Waiting - 1
    <3>1. One(loop = "update") = 1 /\ One(loop = "update")' = 0
      BY <1>6 DEF UpdateClock, One
    <3>2. One(flag_1sec)' = One(flag_1sec) /\ due' = due
      BY <1>6 DEF UpdateClock, One
    <3>. QED  BY <1>1, <3>1, <3>2, OneIs DEF Waiting
  <2>2. \/ time_day_sec' = time_day_sec + 1
        \/ time_day_sec' = time_day_sec + 1 - Day
    BY <1>1, <1>6, DayIs DEF UpdateClock, Counted
  <2>3. now' = now /\ ledger' = ledger
    BY <1>6 DEF UpdateClock
  <2>4. Ahead' = Ahead \/ Ahead' = Ahead + Day
    BY <1>1, <2>1, <2>2, <2>3, DayIs
  <2>. QED  BY <1>2, <2>3, <2>4
<1>7. CASE Finish
  <2>1. Waiting' = Waiting
    BY <1>7 DEF Finish, Waiting, One
  <2>2. now' = now /\ time_day_sec' = time_day_sec /\ ledger' = ledger
    BY <1>7 DEF Finish, clock
  <2>3. Ahead' = Ahead
    BY <1>1, <2>1, <2>2
  <2>. QED  BY <1>2, <2>2, <2>3
<1>8. ASSUME NEW t \in 0..(Day - 1), SetTime(t)  PROVE Even'
  <2>1. t \in Int /\ 0 <= t /\ t <= Day - 1 /\ Set(date, t)
    BY <1>8, DayIs DEF SetTime
  <2>2. PICK x \in Int : now' = Day * x + t + Fuse
    BY <2>1, SetIs
  <2>. QED  BY <1>8, <2>1, <2>2, OpenedEven DEF SetTime
<1>9. ASSUME NEW d \in Dates, SetDate(d)  PROVE Even'
  <2>1. ledger'.valid = FALSE
    BY <1>9 DEF SetDate, Typed
  <2>. QED  BY <2>1 DEF Even
<1>10. ASSUME NEW ut \in Replies, SetNtp(ut)  PROVE Even'
  <2>1. ut \in Int
    BY ClockAssumption
  <2>2. TimeOf(ut) \in Int /\ 0 <= TimeOf(ut) /\ TimeOf(ut) <= Day - 1
    BY <2>1, TimeIs
  <2>3. PICK x \in Int : now' = Day * x + TimeOf(ut) + Fuse
    BY <1>10, <2>2, SetIs DEF SetNtp
  <2>. QED  BY <1>10, <2>2, <2>3, OpenedEven DEF SetNtp
<1>11. CASE UNCHANGED vars
  <2>1. now' = now /\ time_day_sec' = time_day_sec /\ ledger' = ledger
          /\ UNCHANGED <<due, flag_1sec, loop>>
    BY <1>11 DEF vars, clock
  <2>2. Waiting' = Waiting
    BY <2>1 DEF Waiting
  <2>3. Ahead' = Ahead
    BY <1>1, <2>1, <2>2
  <2>. QED  BY <1>2, <2>1, <2>3
<1>. QED
  BY <1>3, <1>4, <1>5, <1>6, <1>7, <1>8, <1>9, <1>10, <1>11 DEF Next, Command

LEMMA EvenBalance == Typed /\ Even /\ InCentury => Balance
<1>. SUFFICES ASSUME Typed, Even, InCentury, ledger.valid
              PROVE  (TimeOf(now) - time_day_sec - ledger.lost - Waiting
                        + ledger.waiting) % Day = 0
  BY DEF Balance
<1>1. now \in Int /\ Local(now) = now - Fuse
  <2>1. now \in Int /\ 0 <= now - Fuse /\ now - Fuse < Width
    BY DayIs, ClockAssumption DEF Typed, InCentury
  <2>2. (now - Fuse) % Width = now - Fuse
    BY <2>1, DayIs
  <2>. QED  BY <2>1, <2>2 DEF Local
<1>2. PICK q \in Int, r \in Int : now - Fuse = Day * q + r /\ TimeOf(now) = r
  <2>1. now - Fuse \in Int
    BY <1>1, DayIs
  <2>2. /\ now - Fuse = Day * ((now - Fuse) \div Day) + ((now - Fuse) % Day)
        /\ (now - Fuse) % Day \in 0..(Day - 1) /\ (now - Fuse) \div Day \in Int
    BY <2>1, DayIs, Division
  <2>3. (now - Fuse) % Day \in Int
    BY <2>2, DayIs
  <2>4. TimeOf(now) = (now - Fuse) % Day
    BY <1>1 DEF TimeOf
  <2>. QED  BY <2>2, <2>3, <2>4
<1>3. PICK p \in Int : Ahead = Day * p
  BY DEF Even, Aligned
<1>4. Day * p \in Int /\ Day * q \in Int
  BY DayIs
<1>5. TimeOf(now) - time_day_sec - ledger.lost - Waiting + ledger.waiting
        = Day * p - Day * q
  <2>1. Ahead = now - Fuse - time_day_sec - ledger.lost - Waiting + ledger.waiting
          /\ time_day_sec \in Int /\ ledger.lost \in Int /\ ledger.waiting \in Int
          /\ due \in Int
    BY DEF Ahead, Typed
  <2>2. Waiting \in Int
    BY <2>1, WaitingIs
  <2>. QED  BY ONLY <1>1, <1>2, <1>3, <1>4, <2>1, <2>2, DayIs
<1>6. Day * p - Day * q = Day * (p - q) + 0 /\ p - q \in Int
  BY DayIs
<1>7. (Day * (p - q) + 0) % Day = 0
  <2>1. Day \in Nat /\ Day > 0 /\ 0 \in 0..(Day - 1)
    BY DayIs
  <2>. QED  BY <1>6, <2>1, Modulo
<1>. QED  BY <1>5, <1>6, <1>7

\* As long as the calendar stays in this century, the counter that starts the
\* motor and the calendar differ by the seconds that Balance names.
THEOREM CountersBalance == Spec /\ []InCentury => []Balance
BY InitInv, StepTyped, StepEven, EvenBalance, PTL DEF Spec

\* ... and setting the time of day leaves the date.
THEOREM TimeAlwaysKeepsDate == Spec /\ []InCentury => TimeKeepsDate
<1>1. InCentury /\ [Next]_vars =>
        [\A t \in 0..(Day - 1) :
           SetTime(t) => DateOf(now') = date /\ TimeOf(now') = t]_vars
  BY Shown DEF InCentury, SetTime, Set
<1>. QED  BY <1>1, PTL DEF Spec, TimeKeepsDate

-----------------------------------------------------------------------------
(* The date moves on.                                                      *)

LastDay == [year |-> 2099, month |-> 12, day |-> 31]

\* The days of a date before they are held in a uint16_t.
Count(d) ==
  d.day + Before(d.month) + (IF d.month > 2 /\ Leap(d.year) THEN 1 ELSE 0)
    + 365 * (d.year - 2000) + Quotient(d.year - 1997, 4) - 1

LEMMA SuccessorIs ==
  ASSUME NEW d, Valid(d)
  PROVE  /\ d.day < Length(d.month, d.year) =>
              Successor(d) = [year |-> d.year, month |-> d.month,
                              day |-> d.day + 1]
         /\ ~(d.day < Length(d.month, d.year)) /\ d.month < 12 =>
              Successor(d) = [year |-> d.year, month |-> d.month + 1, day |-> 1]
         /\ ~(d.day < Length(d.month, d.year)) /\ ~(d.month < 12) =>
              Successor(d) = [year |-> d.year + 1, month |-> 1, day |-> 1]
<1>1. d = [year |-> d.year, month |-> d.month, day |-> d.day]
  BY DEF Valid, Date
<1>2. [d EXCEPT !.day = @ + 1]
        = [year |-> d.year, month |-> d.month, day |-> d.day + 1]
  BY <1>1
<1>. QED  BY ONLY <1>2 DEF Successor

LEMMA SuccessorValid ==
  ASSUME NEW d, Valid(d), d # LastDay
  PROVE  Valid(Successor(d))
<1>1. /\ d.year \in 2000..2099 /\ d.month \in 1..12 /\ d.day \in 1..31
      /\ d = [year |-> d.year, month |-> d.month, day |-> d.day]
  BY DEF Valid, Date
<1>2. \A m \in 1..12 : month_length[m] \in 28..31
  BY DEF month_length
<1>3. \A m \in 1..12, y \in 2000..2099 : Length(m, y) \in 28..31
  <2>. SUFFICES ASSUME NEW m \in 1..12, NEW y \in 2000..2099
                PROVE  Length(m, y) \in 28..31
    OBVIOUS
  <2>1. CASE m = 2
    BY <2>1 DEF Length, month_length
  <2>2. CASE m # 2
    BY <1>2, <2>2 DEF Length
  <2>. QED  BY <2>1, <2>2
<1>4. CASE d.day < Length(d.month, d.year)
  <2>1. Successor(d) = [year |-> d.year, month |-> d.month, day |-> d.day + 1]
    BY <1>4, SuccessorIs
  <2>2. d.day + 1 \in 1..31 /\ d.day + 1 <= Length(d.month, d.year)
    BY <1>1, <1>3, <1>4
  <2>. QED  BY <1>1, <2>1, <2>2 DEF Valid, Date
<1>5. CASE ~(d.day < Length(d.month, d.year)) /\ d.month < 12
  <2>1. Successor(d) = [year |-> d.year, month |-> d.month + 1, day |-> 1]
    BY <1>5, SuccessorIs
  <2>2. d.month + 1 \in 1..12 /\ 1 <= Length(d.month + 1, d.year)
    BY <1>1, <1>3, <1>5
  <2>. QED  BY <1>1, <2>1, <2>2 DEF Valid, Date
<1>6. CASE ~(d.day < Length(d.month, d.year)) /\ ~(d.month < 12)
  <2>1. Successor(d) = [year |-> d.year + 1, month |-> 1, day |-> 1]
    BY <1>6, SuccessorIs
  <2>2. d.year # 2099
    <3>1. d.month = 12 /\ Length(12, d.year) = 31
      BY <1>1, <1>6 DEF Length, month_length
    <3>2. d.day = 31
      BY <1>1, <1>6, <3>1
    <3>. QED  BY <1>1, <3>1, <3>2 DEF LastDay
  <2>3. d.year + 1 \in 2000..2099 /\ 1 <= Length(1, d.year + 1)
    BY <1>1, <1>3, <2>2
  <2>. QED  BY <2>1, <2>3 DEF Valid, Date
<1>. QED  BY <1>4, <1>5, <1>6

LEMMA SuccessorCount ==
  ASSUME NEW d, Valid(d)
  PROVE  Count(d) \in Int /\ Count(Successor(d)) = Count(d) + 1
<1>1. /\ d.year \in 2000..2099 /\ d.month \in 1..12 /\ d.day \in 1..31
      /\ d.day <= Length(d.month, d.year)
      /\ d = [year |-> d.year, month |-> d.month, day |-> d.day]
  BY DEF Valid, Date
<1>2. PICK w \in 0..99, leap \in {0, 1} :
        /\ d.year = w + 2000
        /\ Leap(d.year) <=> leap = 1
        /\ leap = 1 <=> w % 4 = 0
  BY <1>1, LeapYears
<1>3. \A m \in 1..12 : Before(m) \in 0..334
  BY DEF Before
<1>4. /\ Quotient(d.year - 1997, 4) = (w + 3) \div 4
      /\ Quotient(d.year + 1 - 1997, 4) = (w + 4) \div 4
  BY <1>2 DEF Quotient
<1>5. /\ 365 * (d.year - 2000) = 365 * w
      /\ 365 * (d.year + 1 - 2000) = 365 * w + 365
  BY <1>2
<1>6. Count(d) = d.day + Before(d.month) + (IF d.month > 2 THEN leap ELSE 0)
                   + 365 * w + ((w + 3) \div 4) - 1
  <2>1. (IF d.month > 2 /\ Leap(d.year) THEN 1 ELSE 0)
          = (IF d.month > 2 THEN leap ELSE 0)
    BY <1>1, <1>2
  <2>. QED  BY <1>4, <1>5, <2>1 DEF Count
<1>7. /\ d.day \in Int /\ Before(d.month) \in Int
      /\ (IF d.month > 2 THEN leap ELSE 0) \in Int
      /\ 365 * w \in Int /\ (w + 3) \div 4 \in Int /\ Count(d) \in Int
  <2>1. d.day \in Int /\ Before(d.month) \in Int
    BY <1>1, <1>3
  <2>2. (IF d.month > 2 THEN leap ELSE 0) \in Int
    BY <1>2
  <2>3. 365 * w \in Int /\ (w + 3) \div 4 \in Int
    BY <1>2
  <2>. QED  BY ONLY <1>6, <2>1, <2>2, <2>3
<1>8. CASE d.day < Length(d.month, d.year)
  <2>1. Successor(d) = [year |-> d.year, month |-> d.month, day |-> d.day + 1]
    BY <1>8, SuccessorIs
  <2>2. Count(Successor(d))
          = d.day + 1 + Before(d.month) + (IF d.month > 2 THEN leap ELSE 0)
              + 365 * w + ((w + 3) \div 4) - 1
    <3>1. (IF d.month > 2 /\ Leap(d.year) THEN 1 ELSE 0)
            = (IF d.month > 2 THEN leap ELSE 0)
      BY <1>1, <1>2
    <3>. QED  BY <1>4, <1>5, <2>1, <3>1 DEF Count
  <2>. QED  BY ONLY <1>6, <1>7, <2>2
<1>9. CASE ~(d.day < Length(d.month, d.year)) /\ d.month < 12
  <2>1. Successor(d) = [year |-> d.year, month |-> d.month + 1, day |-> 1]
    BY <1>9, SuccessorIs
  <2>2. Count(Successor(d))
          = 1 + Before(d.month + 1) + (IF d.month + 1 > 2 THEN leap ELSE 0)
              + 365 * w + ((w + 3) \div 4) - 1
    <3>1. (IF d.month + 1 > 2 /\ Leap(d.year) THEN 1 ELSE 0)
            = (IF d.month + 1 > 2 THEN leap ELSE 0)
      BY <1>1, <1>2
    <3>. QED  BY <1>4, <1>5, <2>1, <3>1 DEF Count
  <2>3. d.day = month_length[d.month] + (IF d.month = 2 THEN leap ELSE 0)
    <3>1. Length(d.month, d.year)
            = month_length[d.month] + (IF d.month = 2 THEN leap ELSE 0)
      BY <1>1, <1>2 DEF Length
    <3>2. Length(d.month, d.year) \in Int
      BY <1>1, <1>2, <3>1 DEF month_length
    <3>. QED  BY <1>1, <1>9, <3>1, <3>2
  <2>4. Before(d.month + 1) + (IF d.month + 1 > 2 THEN leap ELSE 0)
          = d.day + Before(d.month) + (IF d.month > 2 THEN leap ELSE 0)
    <3>1. d.month = 1 \/ d.month = 2 \/ d.month = 3 \/ d.month = 4 \/ d.month = 5
            \/ d.month = 6 \/ d.month = 7 \/ d.month = 8 \/ d.month = 9
            \/ d.month = 10 \/ d.month = 11
      BY <1>1, <1>9
    <3>. QED  BY <1>2, <2>3, <3>1 DEF Before, month_length
  <2>5. Before(d.month + 1) \in Int /\ Before(d.month) \in Int
    BY <1>1, <1>3, <1>9
  <2>. QED  BY <1>1, <1>2, <1>6, <1>7, <2>2, <2>4, <2>5
<1>10. CASE ~(d.day < Length(d.month, d.year)) /\ ~(d.month < 12)
  <2>1. Successor(d) = [year |-> d.year + 1, month |-> 1, day |-> 1]
    BY <1>10, SuccessorIs
  <2>2. Count(Successor(d))
          = 1 + 0 + 0 + (365 * w + 365) + ((w + 4) \div 4) - 1
    <3>1. Before(1) = 0 /\ ~(1 > 2)
      BY DEF Before
    <3>2. Count([year |-> d.year + 1, month |-> 1, day |-> 1])
            = 1 + Before(1) + 0 + 365 * (d.year + 1 - 2000)
                + Quotient(d.year + 1 - 1997, 4) - 1
      BY <1>1, <3>1 DEF Count
    <3>3. (w + 4) \div 4 \in Int /\ 365 * w + 365 \in Int
      BY <1>2
    <3>. QED  BY ONLY <1>4, <1>5, <2>1, <3>1, <3>2, <3>3
  <2>3. d.month = 12 /\ d.day = 31 /\ Before(12) = 334
    BY <1>1, <1>10 DEF Length, month_length, Before
  <2>4. (w + 4) \div 4 = ((w + 3) \div 4) + leap
    BY <1>2
  <2>. QED  BY <1>2, <1>6, <1>7, <2>2, <2>3, <2>4
<1>. QED  BY <1>7, <1>8, <1>9, <1>10

\* The days of unix_time() are those of the calendar, one by one.
LEMMA SuccessorDay ==
  ASSUME NEW d, Valid(d), d # LastDay
  PROVE  ToDays(Successor(d)) = ToDays(d) + 1
<1>1. \A e : ToDays(e) = (Count(e) % 65536) + 10957
  BY DEF ToDays, Count, Days2000
<1>2. Count(d) \in Int /\ Count(Successor(d)) = Count(d) + 1
  BY SuccessorCount
<1>3. ToDays(d) <= 47482
  BY DateBack
<1>4. Count(d) % 65536 # 65535
  BY <1>1, <1>2, <1>3
<1>. QED  BY <1>1, <1>2, <1>4

\* The day after the last is of no date of this century.
LEMMA LastDayIs ==
  ToDays(LastDay) = 47481 /\ ~Valid(FromDays(47482))
<1>1. ToDays(LastDay) = 47481
  <2>1. Before(12) = 334 /\ ~Leap(2099) /\ Quotient(102, 4) = 25
    BY DEF Before, Leap, Quotient
  <2>. QED  BY <2>1 DEF LastDay, ToDays, Days2000
<1>2. FromDays(47482).year = 2100
  BY DEF FromDays, YearOf
<1>. QED  BY <1>1, <1>2 DEF Valid

\* The date shown is not ahead of the timer, and at most a day behind: the loop
\* updates the clock once a day at least.
Past     == Unix(date, tod) <= now
Attended == now - Unix(date, tod) < Day

\* The date that update_clock shows next.
LEMMA NextDate ==
  ASSUME Typed, InCentury, InCentury', Past, Attended, UpdateClock
  PROVE  /\ date' = IF tod' < tod THEN Successor(date) ELSE date
         /\ Unix(date', tod') = now
<1>1. /\ Valid(date) /\ tod \in 0..(Day - 1) /\ now \in Int /\ tod \in Int
      /\ Day \in Nat /\ Day > 0 /\ Fuse \in Int
  BY DayIs DEF InCentury, Typed
<1>2. PICK x \in Int : x = ToDays(date)
  BY <1>1, DateBack
<1>3. PICK y \in Int : y = Day * x /\ x * Day = y
  BY <1>1, <1>2
<1>4. Unix(date, tod) = y + tod + Fuse
  BY <1>1, <1>2, <1>3, Shown
<1>5. PICK b \in 0..(Day - 1) : now - Fuse = y + tod + b
  <2>1. now - Fuse - y - tod \in 0..(Day - 1)
    BY <1>1, <1>3, <1>4 DEF Past, Attended
  <2>2. now - Fuse = y + tod + (now - Fuse - y - tod)
    BY <1>1, <1>3
  <2>. QED  BY <2>1, <2>2
<1>6. Local(now) = now - Fuse
  <2>1. 0 <= now - Fuse /\ now - Fuse < Width
    BY <1>1, DayIs, ClockAssumption DEF InCentury
  <2>2. (now - Fuse) % Width = now - Fuse
    BY <1>1, <2>1, DayIs
  <2>. QED  BY <2>2 DEF Local
<1>7. date' = FromDays((now - Fuse) \div Day) /\ tod' = (now - Fuse) % Day
  BY <1>6 DEF UpdateClock, DateOf, TimeOf
<1>8. ASSUME NEW q \in Int, NEW r \in 0..(Day - 1), now - Fuse = Day * q + r
      PROVE  /\ date' = FromDays(q) /\ tod' = r
             /\ Valid(date') /\ ToDays(date') = q => Unix(date', tod') = now
  <2>1. date' = FromDays(q) /\ tod' = r
    BY <1>1, <1>7, <1>8, Modulo
  <2>2. ASSUME Valid(date'), ToDays(date') = q  PROVE Unix(date', tod') = now
    <3>1. Unix(date', r) = ToDays(date') * Day + r + Fuse
      BY <2>2, Shown
    <3>2. q * Day = Day * q /\ Day * q \in Int /\ r \in Int
      BY <1>1
    <3>. QED  BY <1>1, <1>8, <2>1, <2>2, <3>1, <3>2
  <2>. QED  BY <2>1, <2>2
<1>9. CASE tod + b < Day
  <2>1. tod + b \in 0..(Day - 1) /\ now - Fuse = Day * x + (tod + b)
    BY <1>1, <1>3, <1>5, <1>9
  <2>2. date' = FromDays(x) /\ tod' = tod + b
    BY <1>8, <2>1
  <2>3. date' = date
    BY <1>1, <1>2, <2>2, DateBack
  <2>4. ~(tod' < tod)
    BY <1>1, <2>2
  <2>. QED  BY <1>1, <1>2, <1>8, <2>1, <2>3, <2>4
<1>10. CASE ~(tod + b < Day)
  <2>1. tod + b - Day \in 0..(Day - 1) /\ tod + b - Day < tod
    BY <1>1, <1>10
  <2>2. now - Fuse = Day * (x + 1) + (tod + b - Day) /\ x + 1 \in Int
    <3>1. Day * (x + 1) = Day * x + Day
      BY <1>1
    <3>. QED  BY ONLY <1>1, <1>3, <1>5, <3>1
  <2>3. date' = FromDays(x + 1) /\ tod' = tod + b - Day
    BY <1>8, <2>1, <2>2
  <2>4. Valid(date')
    BY DEF InCentury
  <2>5. date # LastDay
    BY <1>2, <2>3, <2>4, LastDayIs
  <2>6. Valid(Successor(date)) /\ ToDays(Successor(date)) = x + 1
    BY <1>1, <1>2, <2>5, SuccessorValid, SuccessorDay
  <2>7. date' = Successor(date)
    BY <2>3, <2>6, DateBack
  <2>. QED  BY <1>8, <2>1, <2>2, <2>3, <2>6, <2>7
<1>. QED  BY <1>9, <1>10

LEMMA UnixIs == Typed /\ InCentury => Unix(date, tod) \in Int
<1>. SUFFICES ASSUME Typed, InCentury  PROVE Unix(date, tod) \in Int
  OBVIOUS
<1>1. Valid(date) /\ tod \in 0..(Day - 1) /\ tod \in Int
  BY DayIs DEF InCentury, Typed
<1>2. PICK x \in Int : x = ToDays(date)
  BY <1>1, DateBack
<1>3. x * Day \in Int
  BY DayIs
<1>4. Unix(date, tod) = x * Day + tod + Fuse
  BY <1>1, <1>2, Shown
<1>. QED  BY <1>1, <1>3, <1>4, DayIs

LEMMA StepPast ==
  Typed /\ InCentury /\ InCentury' /\ Past /\ Attended /\ [Next]_vars => Past'
<1>. SUFFICES ASSUME Typed, InCentury, InCentury', Past, Attended, [Next]_vars
              PROVE  Past'
  OBVIOUS
<1>1. CASE Timer
  <2>1. now \in Int /\ 0 <= now + 1 /\ now + 1 < Width
    BY DayIs, ClockAssumption DEF Typed, InCentury
  <2>2. (now + 1) % Width = now + 1
    BY <2>1, DayIs
  <2>3. now' = now + 1 /\ Unix(date, tod)' = Unix(date, tod)
    BY <1>1, <2>2 DEF Timer, Unix
  <2>4. Unix(date, tod) \in Int
    BY UnixIs
  <2>. QED  BY <2>1, <2>3, <2>4 DEF Past
<1>2. CASE UpdateClock
  <2>1. Unix(date, tod)' = now /\ now' = now /\ now \in Int
    BY <1>2, NextDate DEF UpdateClock, Typed
  <2>. QED  BY <2>1 DEF Past
<1>3. ASSUME NEW d, NEW t, Set(d, t), now' \in Int  PROVE Past'
  <2>1. Unix(date, tod)' = now'
    BY <1>3 DEF Set, Unix
  <2>. QED  BY <1>3, <2>1 DEF Past
<1>4. CASE Command
  <2>1. Typed'
    BY StepTyped
  <2>. QED  BY <1>3, <1>4, <2>1 DEF Command, SetTime, SetDate, SetNtp, Typed
<1>5. CASE Isr \/ Begin \/ Finish \/ UNCHANGED vars
  BY <1>5 DEF Isr, Begin, Finish, vars, clock, Past, Unix
<1>. QED  BY <1>1, <1>2, <1>4, <1>5 DEF Next

LEMMA InitPast == Init /\ InCentury => Past
<1>. SUFFICES ASSUME Init, InCentury  PROVE Past
  OBVIOUS
<1>1. now = Unix(date, tod) /\ now \in Int
  BY InitInv DEF Init, Typed
<1>. QED  BY <1>1 DEF Past

\* As long as the calendar stays in this century and the loop updates it once a
\* day, each date shown is the same as the one before or, past midnight, the
\* next one of the Gregorian calendar: through every month and leap year.
THEOREM DateAlwaysMovesOn ==
  Spec /\ []InCentury /\ []Attended => DateMovesOn
<1>1. Typed /\ InCentury /\ InCentury' /\ Past /\ Attended =>
        (UpdateClock =>
           date' = IF tod' < tod THEN Successor(date) ELSE date)
  BY NextDate
<1>. QED
  BY <1>1, InitInv, StepTyped, InitPast, StepPast, PTL DEF Spec, DateMovesOn

\* The calendar is behind the timer by seconds that were lost on the way to the
\* loop and seconds on their way.
Lag ==
  /\ ledger.lost \in 0..MaxLost
  /\ due + ledger.lost <= MaxLost + 1
  /\ now - Unix(date, tod) <= ledger.lost + Waiting

LEMMA WaitingUp ==
  /\ Typed => Waiting \in Int /\ due <= Waiting /\ Waiting <= due + 2
  /\ Typed' => Waiting' \in Int /\ due' <= Waiting' /\ Waiting' <= due' + 2
<1>1. Typed => Waiting \in Int /\ due <= Waiting /\ Waiting <= due + 2
  BY OneIs DEF Waiting, Typed
<1>2. Typed' => Waiting' \in Int /\ due' <= Waiting' /\ Waiting' <= due' + 2
  <2>1. ASSUME NEW a \in 0..1, NEW b \in 0..1, NEW c \in Int
        PROVE  a + b + c \in Int /\ c <= a + b + c /\ a + b + c <= c + 2
    OBVIOUS
  <2>2. Waiting' = One(flag_1sec)' + One(loop = "update")' + due'
    BY DEF Waiting
  <2>3. Typed' => due' \in Int
    BY DEF Typed
  <2>. QED  BY <2>1, <2>2, <2>3, OneIs
<1>. QED  BY <1>1, <1>2

LEMMA LagAttended ==
  MaxLost + 3 < Day /\ Typed /\ InCentury /\ Lag => Attended
  BY UnixIs, WaitingUp, DayIs, ClockAssumption DEF Lag, Attended, Typed

LEMMA StepLag ==
  ASSUME MaxLost + 3 < Day, Typed, InCentury, InCentury', Past, Lag, [Next]_vars
  PROVE  Lag'
<1>1. /\ Unix(date, tod) \in Int /\ now \in Int /\ Typed'
      /\ Waiting \in Int /\ Waiting' \in Int /\ due <= Waiting /\ due' <= Waiting'
      /\ ledger.lost \in 0..MaxLost /\ ledger.lost \in Int /\ MaxLost \in Nat
      /\ due \in Int /\ due >= 0 /\ due' \in Int /\ due' >= 0
      /\ due + ledger.lost <= MaxLost + 1
      /\ now - Unix(date, tod) <= ledger.lost + Waiting
  BY UnixIs, WaitingUp, StepTyped, ClockAssumption DEF Lag, Typed
<1>2. CASE Timer
  <2>1. 0 <= now + 1 /\ now + 1 < Width
    BY <1>1, DayIs, ClockAssumption DEF InCentury
  <2>2. (now + 1) % Width = now + 1
    BY <1>1, <2>1, DayIs
  <2>3. now' = now + 1 /\ Unix(date, tod)' = Unix(date, tod) /\ ledger' = ledger
    BY <1>2, <2>2 DEF Timer, Unix
  <2>4. Waiting' = Waiting + 1 /\ due' = due + 1 /\ due + ledger.lost <= MaxLost
    BY <1>1, <1>2, OneIs DEF Timer, Waiting
  <2>. QED  BY <1>1, <2>3, <2>4 DEF Lag
<1>3. CASE Isr
  <2>1. /\ now' = now /\ Unix(date, tod)' = Unix(date, tod)
        /\ ledger'.lost = ledger.lost + (due - 1) + One(flag_1sec)
        /\ due > 0 /\ due' = 0
        /\ flag_1sec => due + ledger.lost <= MaxLost
    BY <1>3 DEF Isr, Typed, clock, Unix
  <2>2. Waiting' + (due - 1) + One(flag_1sec) = Waiting
    BY <1>3 DEF Isr, Waiting, One, Typed
  <2>3. \/ One(flag_1sec) = 0
        \/ One(flag_1sec) = 1 /\ due + ledger.lost <= MaxLost
    BY <2>1 DEF One
  <2>4. ledger'.lost \in 0..MaxLost
    BY <1>1, <2>1, <2>3
  <2>. QED  BY <1>1, <2>1, <2>2, <2>3, <2>4 DEF Lag
<1>4. CASE Begin \/ Finish \/ UNCHANGED vars
  <2>1. UNCHANGED <<clock, ledger, due>>
    BY <1>4 DEF Begin, Finish, vars
  <2>2. Waiting' = Waiting
    BY <1>4 DEF Begin, Finish, vars, clock, Waiting, One
  <2>. QED  BY <1>1, <2>1, <2>2 DEF Lag, clock, Unix
<1>5. CASE UpdateClock
  <2>1. Unix(date, tod)' = now /\ now' = now /\ ledger' = ledger /\ due' = due
    BY <1>5, NextDate, LagAttended DEF UpdateClock
  <2>. QED  BY <1>1, <2>1 DEF Lag
<1>6. ASSUME NEW d, NEW t, Set(d, t), ledger'.lost = 0, due' = due  PROVE Lag'
  <2>1. Unix(date, tod)' = now' /\ now' \in Int
    BY <1>1, <1>6 DEF Set, Unix, Typed
  <2>2. ledger'.lost \in 0..MaxLost
    BY <1>1, <1>6
  <2>3. ASSUME NEW n \in Int, NEW w \in Int, w >= 0  PROVE n - n <= 0 + w
    BY <2>3
  <2>4. Waiting' >= 0
    BY <1>1
  <2>5. now' - now' <= 0 + Waiting'
    BY ONLY <1>1, <2>1, <2>3, <2>4
  <2>6. due' + 0 <= MaxLost + 1
    BY <1>1, <1>6
  <2>. QED  BY <1>6, <2>1, <2>2, <2>5, <2>6 DEF Lag
<1>7. CASE Command
  <2>1. Opened.lost = 0 /\ [ledger EXCEPT !.lost = 0, !.valid = FALSE].lost = 0
    BY DEF Opened, Typed
  <2>. QED  BY <1>6, <1>7, <2>1 DEF Command, SetTime, SetDate, SetNtp
<1>. QED  BY <1>2, <1>3, <1>4, <1>5, <1>7 DEF Next

\* A loop that loses less than a day's seconds between commands updates the
\* calendar once a day, and then every date it shows follows the one before.
THEOREM LoopAttends ==
  ASSUME MaxLost + 3 < Day
  PROVE  Spec /\ []InCentury => []Attended /\ DateMovesOn
<1>1. Init /\ InCentury => Lag
  <2>. SUFFICES ASSUME Init, InCentury  PROVE Lag
    OBVIOUS
  <2>1. /\ now = Unix(date, tod) /\ now \in Int /\ ledger.lost = 0
        /\ due \in {0, 1} /\ Typed
    BY InitInv DEF Init, Typed
  <2>2. Waiting \in Int /\ Waiting >= 0
    BY <2>1, WaitingUp
  <2>. QED  BY <2>1, <2>2, ClockAssumption DEF Lag
<1>2. Typed /\ InCentury /\ InCentury' /\ Past /\ Lag /\ [Next]_vars => Lag'
  BY StepLag
<1>3. Typed /\ InCentury /\ Lag => Attended
  BY LagAttended
<1>. QED
  BY <1>1, <1>2, <1>3, InitInv, StepTyped, InitPast, StepPast, DateAlwaysMovesOn,
     PTL DEF Spec

=============================================================================
