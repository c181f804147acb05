--------------------------- MODULE ScheduleProofs ---------------------------
(***************************************************************************)
(* About src/planner.rs: when a class of snapshots is due and what its     *)
(* snapshot is called, for every calendar, every schedule that             *)
(* Policy::validate accepts and every time zone.                           *)
(*                                                                         *)
(* Up to PreferredIsAskedFor nothing is assumed of the calendar or of how  *)
(* the clocks move: what most_recent_preferred returns is a boundary that  *)
(* has passed.  With the invariant Planned, that `boundary` is the last    *)
(* instant the schedule asked for, this gives OneSnapshotPerBoundary.      *)
(*                                                                         *)
(* That it returns the LAST boundary needs the calendar's dates to be      *)
(* regular and the clocks not to disturb the schedule (Undisturbed).  The  *)
(* first candidate is the last scheduled time of the present day, month or *)
(* year (FirstIsLast), each next one is the last before it                 *)
(* (PreviousIsLast); every boundary stands for a scheduled time that is    *)
(* not after the first candidate (BoundaryBefore), a candidate that is     *)
(* found is not before that boundary (FoundInOrder), and only a candidate  *)
(* after now, then one that the clocks skip, can be missed, so the third   *)
(* is found at the latest (PreferredNotBefore).                            *)
(***************************************************************************)
EXTENDS Schedule, FiniteSetTheorems, WellFoundedInduction, TLAPS

\* Of any numbers there is a least one.
LEMMA Least ==
  ASSUME NEW T, T \subseteq Nat, T # {}
  PROVE  \E n \in T : \A m \in T : n <= m
<1>1. PICK n \in T : \A m \in T : <<m, n>> \notin OpToRel(<, Nat)
  BY NatLessThanWellFounded, WFMin
<1>2. ASSUME NEW m \in T PROVE n <= m
  <2>1. ~(m < n)
    BY <1>1 DEF OpToRel
  <2> QED BY <2>1
<1> QED BY <1>2

\* Of numbers up to a bound there is a greatest one, and Max is it.
LEMMA Greatest ==
  ASSUME NEW l \in Nat, NEW T, T \subseteq 0..l, T # {}
  PROVE  Max(T) \in T /\ \A m \in T : m <= Max(T)
<1> DEFINE Mirrored == {n \in 0..l : l - n \in T}
<1>1. Mirrored \subseteq Nat /\ Mirrored # {}
  <2>1. PICK n \in T : TRUE
    OBVIOUS
  <2>2. l - n \in Mirrored
    BY <2>1
  <2> QED BY <2>2
<1>2. PICK n \in Mirrored : \A m \in Mirrored : n <= m
  <2> HIDE DEF Mirrored
  <2> QED BY <1>1, Least
<1>3. l - n \in T
  BY <1>2
<1>4. ASSUME NEW m \in T PROVE l - n >= m
  <2>1. l - m \in Mirrored /\ m \in 0..l
    BY <1>4
  <2>2. n <= l - m /\ n \in Nat
    BY <1>2, <2>1
  <2> QED BY <2>1, <2>2
<1>5. \E x \in T : \A m \in T : x >= m
  BY <1>3, <1>4
<1>6. Max(T) \in T /\ \A m \in T : Max(T) >= m
  BY <1>5 DEF Max
<1> QED BY <1>6

-----------------------------------------------------------------------------
(* Civil times: days, hours and minutes *)

\* A number is its quotient and its remainder.
LEMMA Division ==
  ASSUME NEW d \in Nat \ {0}, NEW a \in Int
  PROVE  /\ a \div d \in Int /\ a % d \in 0..(d - 1)
         /\ a = d * (a \div d) + (a % d)
OBVIOUS

\* No other numbers are.
LEMMA Divided ==
  ASSUME NEW d \in Nat \ {0}, NEW q \in Int, NEW r \in 0..(d - 1)
  PROVE  (d * q + r) \div d = q /\ (d * q + r) % d = r
OBVIOUS

\* What divides d divides what d divides off.
LEMMA RemainderOfRemainder ==
  ASSUME NEW d \in Nat \ {0}, NEW n \in Nat \ {0}, d % n = 0, NEW a \in Int
  PROVE  (a % d) % n = a % n
<1>1. a = d * (a \div d) + (a % d) /\ a \div d \in Int /\ a % d \in Int
  BY Division
<1>2. d = n * (d \div n) /\ d \div n \in Int
  BY Division
<1>3. a % d = n * ((a % d) \div n) + ((a % d) % n)
      /\ (a % d) \div n \in Int /\ (a % d) % n \in 0..(n - 1)
  BY <1>1, Division
<1> DEFINE p == a \div d
           e == d \div n
           f == (a % d) \div n
           g == (a % d) % n
<1>4. a = n * (e * p + f) + g
  <2>1. a = (n * e) * p + (n * f + g)
    BY <1>1, <1>2, <1>3
  <2>2. p \in Int /\ e \in Int /\ f \in Int /\ g \in Int
    BY <1>1, <1>2, <1>3
  <2> HIDE DEF p, e, f, g
  <2> QED BY <2>1, <2>2
<1>5. e * p + f \in Int /\ g \in 0..(n - 1)
  BY <1>1, <1>2, <1>3
<1> HIDE DEF p, e, f, g
<1>6. (n * (e * p + f) + g) % n = g
  BY <1>5, Divided
<1> QED BY <1>4, <1>6 DEF g

\* The calendar is a sequence.
LEMMA Calendar == Len(Dates) \in Nat /\ DOMAIN Dates = 1..Len(Dates)
<1>1. Dates \in Seq(Int \X Int \X Int)
  BY ScheduleAssumption
<1> QED BY <1>1

\* What is assumed of the ticks and the calendar.
LEMMA Ticks ==
  /\ HourTicks \in Nat \ {0} /\ DayHours \in Nat \ {0} /\ WeekDays \in Nat \ {0}
  /\ DayTicks \in Nat \ {0}
  /\ Len(Dates) \in Nat /\ None \notin Int
<1>1. HourTicks \in Nat \ {0} /\ DayHours \in Nat \ {0} /\ WeekDays \in Nat \ {0}
  BY ScheduleAssumption
<1>2. HourTicks * DayHours \in Nat \ {0}
  BY <1>1
<1> QED BY <1>1, <1>2, ScheduleAssumption DEF DayTicks

\* A civil time put together from a day and a time of day has these.
LEMMA DayAndTime ==
  ASSUME NEW q \in Int, NEW h \in 0..(DayHours - 1), NEW m \in 0..(HourTicks - 1),
         NEW c, c = q * DayTicks + h * HourTicks + m
  PROVE  c \in Int /\ Day(c) = q /\ Hour(c) = h /\ Minute(c) = m
<1> USE Ticks
<1> DEFINE r == HourTicks * h + m
<1>1. r \in 0..(DayTicks - 1)
  <2>1. h + 1 <= DayHours /\ h \in Int
    OBVIOUS
  <2>2. HourTicks * (h + 1) <= HourTicks * DayHours
    BY <2>1
  <2> QED BY <2>1, <2>2 DEF DayTicks
<1>2. c = DayTicks * q + r
  OBVIOUS
<1>3. c = HourTicks * (DayHours * q + h) + m
  BY DEF DayTicks
<1>4. c \div DayTicks = q /\ c % DayTicks = r
  <2> HIDE DEF r
  <2> QED BY <1>1, <1>2, Divided
<1>5. r \div HourTicks = h
  BY Divided
<1>6. c % HourTicks = m
  <2>1. DayHours * q + h \in Int
    OBVIOUS
  <2> QED BY <1>3, <2>1, Divided
<1> QED BY <1>1, <1>2, <1>4, <1>5, <1>6 DEF Day, Hour, Minute

-----------------------------------------------------------------------------
(* Every candidate is a scheduled time *)

\* The fields of a schedule that validates.
LEMMA Policies ==
  ASSUME NEW s \in Schedules
  PROVE  /\ s.kind \in Kinds /\ s.period \in Nat \ {0} /\ s.period <= HourTicks
         /\ HourTicks % s.period = 0
         /\ s.min \in 0..(HourTicks - 1) /\ s.hour \in 0..(DayHours - 1)
         /\ s.wday \in 0..(WeekDays - 1)
BY ScheduleAssumption, Ticks DEF Validates

\* A minute of the hour that the period divides is one of the civil time.
LEMMA PeriodOfHour ==
  ASSUME NEW s \in Schedules, NEW c \in Int
  PROVE  Minute(c) % s.period = c % s.period
BY Policies, Ticks, RemainderOfRemainder DEF Minute

\* A date that the calendar has is found on its day.
LEMMA OnDateFound ==
  ASSUME NEW s \in Schedules, NEW date, NEW c, c = OnDate(date, s), c # None
  PROVE  /\ c \in Int /\ Day(c) + 1 \in 1..Len(Dates) /\ Dates[Day(c) + 1] = date
         /\ Hour(c) = s.hour /\ Minute(c) = s.min
<1> DEFINE days == {d \in 1..Len(Dates) : Dates[d] = date}
<1>1. days # {} /\ days \subseteq 0..Len(Dates)
  BY DEF OnDate
<1>2. Max(days) \in days
  <2> HIDE DEF days
  <2> QED BY <1>1, Ticks, Greatest
<1>3. c = (Max(days) - 1) * DayTicks + s.hour * HourTicks + s.min
  BY <1>1 DEF OnDate
<1>4. Max(days) - 1 \in Int
  BY <1>2, Ticks
<1>5. c \in Int /\ Day(c) = Max(days) - 1 /\ Hour(c) = s.hour /\ Minute(c) = s.min
  <2> HIDE DEF days
  <2> DEFINE q == Max(days) - 1
  <2>1. q \in Int /\ c = q * DayTicks + s.hour * HourTicks + s.min
    BY <1>3, <1>4
  <2> HIDE DEF q
  <2>2. c \in Int /\ Day(c) = q /\ Hour(c) = s.hour /\ Minute(c) = s.min
    BY <2>1, Policies, DayAndTime
  <2> QED BY <2>2 DEF q
<1> QED BY <1>2, <1>4, <1>5

\* So every date of the calendar is.
LEMMA OnDateFinds ==
  ASSUME NEW s \in Schedules, NEW d \in 1..Len(Dates)
  PROVE  OnDate(Dates[d], s) \in Int
<1> DEFINE days == {e \in 1..Len(Dates) : Dates[e] = Dates[d]}
           q == Max(days)
<1>1. days \subseteq 0..Len(Dates) /\ d \in days
  OBVIOUS
<1>2. OnDate(Dates[d], s) = (q - 1) * DayTicks + s.hour * HourTicks + s.min
  BY <1>1 DEF OnDate
<1>3. q \in days
  <2> HIDE DEF days
  <2> QED BY <1>1, Ticks, Greatest
<1>4. q \in Int
  <2> HIDE DEF q
  <2> QED BY <1>3
<1> HIDE DEF q
<1> QED BY <1>2, <1>4, Ticks, Policies

\* The date of a year is what the policy asks for in that year.
LEMMA YearlyDateScheduled ==
  ASSUME NEW s \in Schedules, s.kind = "yearly", NEW y, YearlyDate(y, s) # None
  PROVE  YearlyDate(y, s) \in Int /\ Scheduled(s, YearlyDate(y, s))
<1> DEFINE wanted == OnDate(<<y, s.mon, s.mday>>, s)
           c == YearlyDate(y, s)
<1>1. CASE wanted # None
  <2>1. c = wanted
    BY <1>1 DEF YearlyDate
  <2>2. /\ c \in Int /\ Dates[Day(c) + 1] = <<y, s.mon, s.mday>>
        /\ Hour(c) = s.hour /\ Minute(c) = s.min
    BY <1>1, <2>1, OnDateFound
  <2> QED BY <2>2 DEF Scheduled, Yearly
<1>2. CASE wanted = None
  <2>1. s.mon = 2 /\ s.mday = LeapDay /\ c = OnDate(<<y, 2, LeapDay - 1>>, s)
    BY <1>2 DEF YearlyDate
  <2>2. /\ c \in Int /\ Dates[Day(c) + 1] = <<y, 2, LeapDay - 1>>
        /\ Hour(c) = s.hour /\ Minute(c) = s.min
    BY <2>1, OnDateFound
  <2>3. <<y, 2, LeapDay>> \notin Range(Dates)
    <3>1. SUFFICES ASSUME NEW d \in DOMAIN Dates, Dates[d] = <<y, 2, LeapDay>>
                   PROVE  FALSE
      BY DEF Range
    <3>2. d \in 1..Len(Dates)
      BY Calendar
    <3>3. wanted = OnDate(Dates[d], s)
      BY <2>1, <3>1
    <3>4. wanted \in Int
      BY <3>2, <3>3, OnDateFinds
    <3> QED BY <1>2, <3>4, Ticks
  <2> QED BY <2>1, <2>2, <2>3 DEF Scheduled, Yearly
<1> QED BY <1>1, <1>2

\* A civil time is its day, its hour and its minute.
LEMMA Civil ==
  ASSUME NEW c \in Int
  PROVE  /\ Day(c) \in Int /\ Hour(c) \in 0..(DayHours - 1) /\ Minute(c) \in 0..(HourTicks - 1)
         /\ c = Day(c) * DayTicks + Hour(c) * HourTicks + Minute(c)
<1> USE Ticks
<1> DEFINE r == c % DayTicks
<1>1. Day(c) \in Int /\ r \in 0..(DayTicks - 1) /\ c = DayTicks * Day(c) + r
  BY Division DEF Day
<1>2. Hour(c) \in Int /\ r % HourTicks \in 0..(HourTicks - 1)
      /\ r = HourTicks * Hour(c) + (r % HourTicks)
  <2>1. r \in Int
    BY <1>1
  <2> HIDE DEF r
  <2>2. r \div HourTicks \in Int /\ r % HourTicks \in 0..(HourTicks - 1)
        /\ r = HourTicks * (r \div HourTicks) + (r % HourTicks)
    BY <2>1, Division
  <2> QED BY <2>2 DEF Hour, r
<1>3. r % HourTicks = Minute(c)
  <2>1. DayTicks % HourTicks = 0
    <3>1. DayTicks = HourTicks * DayHours + 0
      BY DEF DayTicks
    <3> QED BY <3>1, Divided
  <2> QED BY <2>1, RemainderOfRemainder DEF Minute
<1> HIDE DEF r
<1>4. Hour(c) \in 0..(DayHours - 1)
  <2> DEFINE h == Hour(c)
             m == r % HourTicks
  <2>1. /\ h \in Int /\ m \in 0..(HourTicks - 1) /\ r = HourTicks * h + m
        /\ r \in Int /\ 0 <= r /\ r < HourTicks * DayHours
    BY <1>1, <1>2 DEF DayTicks
  <2> HIDE DEF h, m
  <2>2. h < DayHours
    <3>1. h >= DayHours => HourTicks * h >= HourTicks * DayHours
      BY <2>1
    <3> QED BY <2>1, <3>1
  <2>3. 0 <= h
    <3>1. h <= -1 => HourTicks * h <= -HourTicks
      BY <2>1
    <3> QED BY <2>1, <3>1
  <2> QED BY <2>1, <2>2, <2>3 DEF h
<1> QED BY <1>1, <1>2, <1>3, <1>4

\* Days before, at the same time.
LEMMA DaysBefore ==
  ASSUME NEW b \in Int, NEW n \in Int
  PROVE  /\ b - n * DayTicks \in Int /\ Day(b - n * DayTicks) = Day(b) - n
         /\ Hour(b - n * DayTicks) = Hour(b) /\ Minute(b - n * DayTicks) = Minute(b)
<1>1. /\ Day(b) \in Int /\ Hour(b) \in 0..(DayHours - 1) /\ Minute(b) \in 0..(HourTicks - 1)
      /\ b = Day(b) * DayTicks + Hour(b) * HourTicks + Minute(b)
  BY Civil
<1> DEFINE q == Day(b) - n
           c == b - n * DayTicks
<1>2. q \in Int /\ c = q * DayTicks + Hour(b) * HourTicks + Minute(b)
  <2> DEFINE p == Day(b)
             d == DayTicks
             r == Hour(b) * HourTicks
             m == Minute(b)
  <2>1. p \in Int /\ d \in Nat /\ r \in Int /\ m \in Int /\ b = p * d + r + m
    BY <1>1, Ticks
  <2> HIDE DEF p, d, r, m
  <2>2. (p - n) * d = p * d - n * d /\ p * d \in Int /\ n * d \in Int
    BY <2>1
  <2>3. p - n \in Int /\ b - n * d = (p - n) * d + r + m
    BY <2>1, <2>2
  <2> QED BY <2>3 DEF p, d, r, m
<1> HIDE DEF q, c
<1>3. c \in Int /\ Day(c) = q /\ Hour(c) = Hour(b) /\ Minute(c) = Minute(b)
  BY <1>1, <1>2, DayAndTime
<1> QED BY <1>3 DEF q, c

\* A day and the time of a policy, for the kinds that have one.
LEMMA AtTime ==
  ASSUME NEW s \in Schedules, NEW q \in Int,
         NEW c, c = q * DayTicks + s.hour * HourTicks + s.min
  PROVE  c \in Int /\ Day(c) = q /\ Hour(c) = s.hour /\ Minute(c) = s.min
BY Policies, DayAndTime

\* The days of a weekly schedule: the last of its days up to today.
LEMMA LastWeekday ==
  ASSUME NEW s \in Schedules, NEW today \in Int
  PROVE  LET q == today - (((today % WeekDays) - s.wday) % WeekDays)
         IN  /\ q \in Int /\ q % WeekDays = s.wday /\ q <= today /\ today < q + WeekDays
             /\ ((today % WeekDays) - s.wday) % WeekDays \in Int
<1> DEFINE w == WeekDays
           wday == s.wday
           t == today \div w
           b == today % w
           e == (b - wday) \div w
           f == (b - wday) % w
<1>1. w \in Nat \ {0} /\ wday \in 0..(w - 1)
  BY Ticks, Policies
<1> HIDE DEF w, wday
<1>2. today = w * t + b /\ t \in Int /\ b \in Int
  BY <1>1
<1> HIDE DEF t, b
<1>3. b - wday = w * e + f /\ e \in Int /\ f \in 0..(w - 1)
  BY <1>1, <1>2
<1> HIDE DEF e, f
<1>4. today - f = w * (t + e) + wday /\ t + e \in Int
  BY <1>1, <1>2, <1>3
<1>5. (w * (t + e) + wday) % w = wday
  BY <1>1, <1>4, Divided
<1>6. /\ today - f \in Int /\ (today - f) % w = wday
      /\ today - f <= today /\ today < (today - f) + w /\ f \in Int
  BY <1>1, <1>3, <1>4, <1>5
<1> QED BY <1>6 DEF f, e, b, t, wday, w

\* The first candidate of a day or a week is on its last day up to today.
LEMMA FirstDay ==
  ASSUME NEW s \in Schedules, s.kind \in {"daily", "weekly"}, NEW x \in Int,
         NEW c, c = FirstCandidate(s, x)
  PROVE  /\ c \in Int /\ Hour(c) = s.hour /\ Minute(c) = s.min
         /\ Day(c) \in Int /\ Day(x) \in Int /\ Day(c) <= Day(x) /\ Day(x) < Day(c) + WeekDays
         /\ s.kind = "daily" => Day(c) = Day(x)
         /\ s.kind = "weekly" => Day(c) % WeekDays = s.wday
<1>1. Day(x) \in Int
  BY Civil
<1>2. CASE s.kind = "daily"
  <2> DEFINE q == Day(x)
  <2>1. c = q * DayTicks + s.hour * HourTicks + s.min /\ q \in Int
    BY <1>1, <1>2 DEF FirstCandidate
  <2> HIDE DEF q
  <2>2. c \in Int /\ Day(c) = q /\ Hour(c) = s.hour /\ Minute(c) = s.min
    BY <2>1, AtTime
  <2> QED BY <1>1, <1>2, <2>2, Ticks DEF q
<1>3. CASE s.kind = "weekly"
  <2> DEFINE f == ((Day(x) % WeekDays) - s.wday) % WeekDays
             q == Day(x) - f
  <2>1. /\ q \in Int /\ q % WeekDays = s.wday /\ q <= Day(x) /\ Day(x) < q + WeekDays
        /\ f \in Int
    BY <1>1, LastWeekday
  <2>2. c = Day(x) * DayTicks - f * DayTicks + s.hour * HourTicks + s.min
    BY <1>3 DEF FirstCandidate
  <2> HIDE DEF f
  <2>3. c = q * DayTicks + s.hour * HourTicks + s.min
    BY <1>1, <2>1, <2>2, Ticks, Policies
  <2> HIDE DEF q
  <2>4. c \in Int /\ Day(c) = q /\ Hour(c) = s.hour /\ Minute(c) = s.min
    BY <2>1, <2>3, AtTime
  <2> QED BY <1>1, <1>3, <2>1, <2>4
<1> QED BY <1>2, <1>3

\* Steps of whole units leave the remainder alone.
LEMMA WholeUnits ==
  ASSUME NEW d \in Nat \ {0}, NEW a \in Int
  PROVE  (a - d) % d = a % d /\ (a - (a % d)) % d = 0 /\ (a + d) % d = a % d
<1>1. a \div d \in Int /\ a % d \in 0..(d - 1) /\ a = d * (a \div d) + (a % d)
  BY Division
<1> DEFINE q == a \div d
           r == a % d
<1>2. /\ a - d = d * (q - 1) + r /\ a - r = d * q + 0 /\ a + d = d * (q + 1) + r
      /\ q \in Int /\ r \in 0..(d - 1)
  BY <1>1
<1> HIDE DEF q, r
<1>3. (d * (q - 1) + r) % d = r /\ (d * q + 0) % d = 0 /\ (d * (q + 1) + r) % d = r
  BY <1>2, Divided
<1> QED BY <1>2, <1>3 DEF q, r

\* The first candidate is a scheduled time.
LEMMA FirstScheduled ==
  ASSUME NEW s \in Schedules, NEW x \in Int, NEW c, c = FirstCandidate(s, x), c # None
  PROVE  c \in Int /\ Scheduled(s, c)
<1> USE Ticks
<1>1. CASE s.kind = "frequently"
  <2>1. c = x - (x % s.period)
    BY <1>1, PeriodOfHour DEF FirstCandidate
  <2> DEFINE p == s.period
  <2>2. p \in Nat \ {0} /\ c = x - (x % p)
    BY <2>1, Policies
  <2> HIDE DEF p
  <2>3. (x - (x % p)) % p = 0
    BY <2>2, WholeUnits
  <2>4. c \in Int
    BY <2>2
  <2> QED BY <1>1, <2>2, <2>3, <2>4, PeriodOfHour DEF Scheduled, p
<1>2. CASE s.kind = "hourly"
  <2>1. c = x - (x % HourTicks) + s.min
    BY <1>2 DEF FirstCandidate, Minute
  <2>2. x = HourTicks * (x \div HourTicks) + (x % HourTicks)
        /\ x \div HourTicks \in Int /\ x % HourTicks \in Int
    BY Division
  <2> DEFINE q == x \div HourTicks
             r == x % HourTicks
             m == s.min
  <2>3. m \in 0..(HourTicks - 1)
    BY Policies
  <2>4. c = x - r + m /\ x = HourTicks * q + r /\ q \in Int /\ r \in Int
    BY <2>1, <2>2
  <2> HIDE DEF q, r, m
  <2>5. c = HourTicks * q + m
    BY <2>3, <2>4
  <2>6. c \in Int
    BY <2>3, <2>4
  <2>7. c % HourTicks = m
    BY <2>3, <2>4, <2>5, Divided
  <2> QED BY <1>2, <2>6, <2>7 DEF Scheduled, Minute, m
<1>3. CASE s.kind = "daily"
  BY <1>3, FirstDay DEF Scheduled
<1>4. CASE s.kind = "weekly"
  BY <1>4, FirstDay DEF Scheduled
<1>5. CASE s.kind = "monthly"
  <2>1. c = OnDate(<<Year(x), Month(x), s.mday>>, s)
    BY <1>5 DEF FirstCandidate
  <2>2. /\ c \in Int /\ Dates[Day(c) + 1] = <<Year(x), Month(x), s.mday>>
        /\ Hour(c) = s.hour /\ Minute(c) = s.min
    BY <2>1, OnDateFound
  <2> QED BY <1>5, <2>2 DEF Scheduled
<1>6. CASE s.kind = "yearly"
  BY <1>6, YearlyDateScheduled DEF FirstCandidate
<1> QED BY <1>1, <1>2, <1>3, <1>4, <1>5, <1>6, Policies DEF Kinds

\* So is the one before a scheduled time.
LEMMA PreviousScheduled ==
  ASSUME NEW s \in Schedules, NEW b \in Int, Scheduled(s, b),
         NEW c, c = PreviousCandidate(s, b), c # None
  PROVE  c \in Int /\ Scheduled(s, c)
<1> USE Ticks
<1>1. CASE s.kind = "frequently"
  <2> DEFINE p == s.period
  <2>1. p \in Nat \ {0} /\ c = b - p /\ b % p = 0
    BY <1>1, Policies, PeriodOfHour DEF PreviousCandidate, Scheduled
  <2> HIDE DEF p
  <2>2. (b - p) % p = b % p
    BY <2>1, WholeUnits
  <2>3. c \in Int
    BY <2>1
  <2> QED BY <1>1, <2>1, <2>2, <2>3, PeriodOfHour DEF Scheduled, p
<1>2. CASE s.kind = "hourly"
  <2>1. c = b - HourTicks /\ b % HourTicks = s.min
    BY <1>2 DEF PreviousCandidate, Scheduled, Minute
  <2>2. (b - HourTicks) % HourTicks = b % HourTicks
    BY WholeUnits
  <2>3. c \in Int
    BY <2>1
  <2> QED BY <1>2, <2>1, <2>2, <2>3 DEF Scheduled, Minute
<1>3. CASE s.kind = "daily"
  <2>1. c = b - DayTicks /\ Hour(b) = s.hour /\ Minute(b) = s.min
    BY <1>3 DEF PreviousCandidate, Scheduled
  <2> DEFINE n == 1
  <2>2. c = b - n * DayTicks /\ n \in Int
    BY <2>1
  <2> HIDE DEF n
  <2>3. c \in Int /\ Hour(c) = Hour(b) /\ Minute(c) = Minute(b)
    BY <2>2, DaysBefore
  <2> QED BY <1>3, <2>1, <2>3 DEF Scheduled
<1>4. CASE s.kind = "weekly"
  <2>1. c = b - WeekDays * DayTicks /\ Hour(b) = s.hour /\ Minute(b) = s.min
        /\ Day(b) % WeekDays = s.wday
    BY <1>4 DEF PreviousCandidate, Scheduled
  <2>2. /\ c \in Int /\ Hour(c) = Hour(b) /\ Minute(c) = Minute(b)
        /\ Day(c) = Day(b) - WeekDays
    <3>1. WeekDays \in Int
      OBVIOUS
    <3> QED BY <2>1, <3>1, DaysBefore
  <2>3. Day(b) \in Int
    BY Civil
  <2>4. (Day(b) - WeekDays) % WeekDays = Day(b) % WeekDays
    BY <2>3, WholeUnits
  <2> QED BY <1>4, <2>1, <2>2, <2>4 DEF Scheduled
<1>5. CASE s.kind = "monthly"
  <2>1. PICK y, m : c = OnDate(<<y, m, s.mday>>, s)
    BY <1>5 DEF PreviousCandidate
  <2>2. /\ c \in Int /\ Dates[Day(c) + 1] = <<y, m, s.mday>>
        /\ Hour(c) = s.hour /\ Minute(c) = s.min
    BY <2>1, OnDateFound
  <2> QED BY <1>5, <2>2 DEF Scheduled
<1>6. CASE s.kind = "yearly"
  BY <1>6, YearlyDateScheduled DEF PreviousCandidate
<1> QED BY <1>1, <1>2, <1>3, <1>4, <1>5, <1>6, Policies DEF Kinds

-----------------------------------------------------------------------------
(* Time zones *)

\* The civil times that a zone skips.
Skipped(z) ==
  IF z.until <= z.from THEN {}
  ELSE IF z.shift > 0 THEN z.from..(z.from + z.shift - 1)
       ELSE (z.until + z.shift)..(z.until - 1)

\* The offset of a zone at an instant.
LEMMA ZoneOffsets ==
  ASSUME NEW z \in Zones, NEW t \in Int
  PROVE  /\ z.shift \in Int /\ z.from \in Nat /\ z.until \in Nat
         /\ Offset(z, t) = IF z.from <= t /\ t < z.until THEN z.shift ELSE 0
         /\ Offset(z, t) \in Int
BY ScheduleAssumption DEF Offset

\* The instants of a civil time are all that show it.
LEMMA InstantsShow ==
  ASSUME NEW z \in Zones, NEW c \in Int
  PROVE  \A t : t \in Instants(z, c) <=> t \in Int /\ t + Offset(z, t) = c
<1>1. z.shift \in Int
  BY ScheduleAssumption
<1>2. ASSUME NEW t \in Int, t + Offset(z, t) = c PROVE t \in {c, c - z.shift}
  BY <1>1, <1>2 DEF Offset
<1> QED BY <1>1, <1>2 DEF Instants

\* A civil time that no instant shows is skipped.
LEMMA SkippedTimes ==
  ASSUME NEW z \in Zones, NEW c \in Int
  PROVE  Instants(z, c) = {} <=> c \in Skipped(z)
<1>1. /\ z.shift \in Int /\ z.from \in Nat /\ z.until \in Nat
      /\ z.from < z.until => 2 * z.shift <= z.until - z.from /\ -2 * z.shift <= z.until - z.from
  BY ScheduleAssumption
<1>2. Instants(z, c) = {} <=> c \notin Instants(z, c) /\ c - z.shift \notin Instants(z, c)
  BY DEF Instants
<1>3. c \in Instants(z, c) <=> c + Offset(z, c) = c
  BY InstantsShow
<1>4. c - z.shift \in Instants(z, c) <=> c - z.shift + Offset(z, c - z.shift) = c
  BY <1>1, InstantsShow
<1>5. c \in Instants(z, c) <=> z.shift = 0 \/ ~(z.from <= c /\ c < z.until)
  BY <1>1, <1>3, ZoneOffsets
<1>6. c - z.shift \in Instants(z, c) <=>
        z.shift = 0 \/ (z.from <= c - z.shift /\ c - z.shift < z.until)
  <2>1. c - z.shift \in Int
    BY <1>1
  <2>2. Offset(z, c - z.shift) =
          IF z.from <= c - z.shift /\ c - z.shift < z.until THEN z.shift ELSE 0
    BY <2>1, ZoneOffsets
  <2> QED BY <1>1, <1>4, <2>2
<1> QED BY <1>1, <1>2, <1>5, <1>6 DEF Skipped

\* The clock before a skipped time is behind by the gap, or not at all.
LEMMA BehindIs ==
  ASSUME NEW z \in Zones
  PROVE  Behind(z) = IF z.shift < 0 THEN z.shift ELSE 0
<1>1. z.shift \in Int
  BY ScheduleAssumption
<1> DEFINE S == {0, z.shift}
           least == IF z.shift < 0 THEN z.shift ELSE 0
<1>2. least \in S /\ \A y \in S : least <= y
  BY <1>1
<1>3. \A x \in S : (\A y \in S : x <= y) => x = least
  BY <1>1
<1> HIDE DEF S, least
<1>4. Min(S) = least
  BY <1>2, <1>3 DEF Min
<1> QED BY <1>4 DEF Behind, S, least

\* Min of numbers is the least of them.
LEMMA MinIsLeast ==
  ASSUME NEW T, T \subseteq Nat, T # {}
  PROVE  Min(T) \in T /\ \A m \in T : Min(T) <= m
<1>1. \E n \in T : \A m \in T : n <= m
  BY Least
<1> QED BY <1>1 DEF Min

\* A skipped time goes forward by the whole gap, where that is found.
LEMMA SkippedForward ==
  ASSUME NEW z \in Zones, NEW c \in Skipped(z), NormalizeNonexistent(z, c) # None
  PROVE  /\ c \in Int
         /\ NormalizeNonexistent(z, c) = c + (IF z.shift > 0 THEN z.shift ELSE -z.shift)
<1>1. /\ z.shift \in Int /\ z.from \in Nat /\ z.until \in Nat /\ ScanTicks \in Nat
  BY ScheduleAssumption
<1>2. c \in Int
  BY <1>1 DEF Skipped
<1> DEFINE distances(sign) == {d \in 1..ScanTicks : Instants(z, c + sign * d) # {}}
           after == Min(distances(1))
           before == Min(distances(-1))
           gap == after + before - 1
<1>3. /\ distances(1) # {} /\ distances(-1) # {}
      /\ NormalizeNonexistent(z, c) = c + gap
  BY DEF NormalizeNonexistent
<1>4. /\ after \in 1..ScanTicks /\ c + after \notin Skipped(z)
      /\ \A d \in 1..(after - 1) : c + d \in Skipped(z)
  <2>1. after \in distances(1) /\ \A d \in distances(1) : after <= d
    <3>1. distances(1) \subseteq Nat
      OBVIOUS
    <3> QED BY <1>3, <3>1, MinIsLeast
  <2>2. \A d \in 1..ScanTicks : d \in distances(1) <=> c + d \notin Skipped(z)
    <3>1. ASSUME NEW d \in 1..ScanTicks
          PROVE  d \in distances(1) <=> c + d \notin Skipped(z)
      <4>1. c + d \in Int /\ c + 1 * d = c + d
        BY <1>1, <1>2
      <4>2. d \in distances(1) <=> Instants(z, c + d) # {}
        BY <4>1
      <4> QED BY <4>1, <4>2, SkippedTimes
    <3> QED BY <3>1
  <2>3. distances(1) \subseteq 1..ScanTicks
    OBVIOUS
  <2> HIDE DEF distances, after
  <2> QED BY <1>1, <2>1, <2>2, <2>3
<1>5. /\ before \in 1..ScanTicks /\ c - before \notin Skipped(z)
      /\ \A d \in 1..(before - 1) : c - d \in Skipped(z)
  <2>1. before \in distances(-1) /\ \A d \in distances(-1) : before <= d
    <3>1. distances(-1) \subseteq Nat
      OBVIOUS
    <3> QED BY <1>3, <3>1, MinIsLeast
  <2>2. \A d \in 1..ScanTicks : d \in distances(-1) <=> c - d \notin Skipped(z)
    <3>1. ASSUME NEW d \in 1..ScanTicks
          PROVE  d \in distances(-1) <=> c - d \notin Skipped(z)
      <4>1. c - d \in Int /\ c + (-1) * d = c - d
        BY <1>1, <1>2
      <4>2. d \in distances(-1) <=> Instants(z, c - d) # {}
        BY <4>1
      <4> QED BY <4>1, <4>2, SkippedTimes
    <3> QED BY <3>1
  <2>3. distances(-1) \subseteq 1..ScanTicks
    OBVIOUS
  <2> HIDE DEF distances, before
  <2> QED BY <1>1, <2>1, <2>2, <2>3
<1> HIDE DEF after, before
<1>6. CASE z.shift > 0
  <2>1. c \in z.from..(z.from + z.shift - 1) /\ Skipped(z) = z.from..(z.from + z.shift - 1)
    BY <1>6 DEF Skipped
  <2>2. after = z.from + z.shift - c
    <3> DEFINE d == z.from + z.shift - c
    <3>1. d \in 1..(after - 1) => c + d \in Skipped(z)
      BY <1>4
    <3>2. ~(d < after)
      BY <1>1, <1>2, <1>4, <2>1, <3>1
    <3> QED BY <1>1, <1>2, <1>4, <2>1, <3>2
  <2>3. before = c - z.from + 1
    <3> DEFINE d == c - z.from + 1
    <3>1. d \in 1..(before - 1) => c - d \in Skipped(z)
      BY <1>5
    <3>2. ~(d < before)
      BY <1>1, <1>2, <1>5, <2>1, <3>1
    <3> QED BY <1>1, <1>2, <1>5, <2>1, <3>2
  <2> QED BY <1>1, <1>2, <1>3, <1>6, <2>2, <2>3
<1>7. CASE ~(z.shift > 0)
  <2>1. /\ c \in (z.until + z.shift)..(z.until - 1)
        /\ Skipped(z) = (z.until + z.shift)..(z.until - 1)
    BY <1>7 DEF Skipped
  <2>2. after = z.until - c
    <3> DEFINE d == z.until - c
    <3>1. d \in 1..(after - 1) => c + d \in Skipped(z)
      BY <1>4
    <3>2. ~(d < after)
      BY <1>1, <1>2, <1>4, <2>1, <3>1
    <3> QED BY <1>1, <1>2, <1>4, <2>1, <3>2
  <2>3. before = c - (z.until + z.shift) + 1
    <3> DEFINE d == c - (z.until + z.shift) + 1
    <3>1. d \in 1..(before - 1) => c - d \in Skipped(z)
      BY <1>5
    <3>2. ~(d < before)
      BY <1>1, <1>2, <1>5, <2>1, <3>1
    <3> QED BY <1>1, <1>2, <1>5, <2>1, <3>2
  <2> QED BY <1>1, <1>2, <1>3, <1>7, <2>2, <2>3
<1> QED BY <1>2, <1>6, <1>7

\* What a candidate stands for that has passed: an instant that shows it, or
\* the one that the clocks showed instead.
LEMMA ResolvedIs ==
  ASSUME NEW z \in Zones, NEW c \in Int, NEW t \in Int, Shown(z, c) # None
  PROVE  LET stands(u) == IF c \in Skipped(z) THEN u + Behind(z) = c ELSE u + Offset(z, u) = c
             found == ResolveBoundary(z, c, t)
         IN  /\ \A u : u \in Instants(z, Shown(z, c)) <=> u \in Int /\ stands(u)
             /\ \/ found = None /\ \A u \in Int : stands(u) => u > t
                \/ /\ found \in Int /\ found <= t /\ stands(found)
                   /\ \A u \in Int : stands(u) /\ u <= t => u <= found
<1> DEFINE stands(u) == IF c \in Skipped(z) THEN u + Behind(z) = c ELSE u + Offset(z, u) = c
           instants == Instants(z, Shown(z, c))
           past == {u \in instants : u <= t}
           found == ResolveBoundary(z, c, t)
<1>1. /\ z.shift \in Int /\ z.from \in Nat /\ z.until \in Nat /\ None \notin Int
      /\ z.from < z.until => 2 * z.shift <= z.until - z.from /\ -2 * z.shift <= z.until - z.from
  BY ScheduleAssumption
<1>2. \A u : u \in instants <=> u \in Int /\ stands(u)
  <2>1. CASE c \in Skipped(z)
    <3> DEFINE move == IF z.shift > 0 THEN z.shift ELSE -z.shift
    <3>1. Shown(z, c) = c + move /\ c + move \in Int
      BY <1>1, <2>1, SkippedTimes, SkippedForward DEF Shown
    <3>2. \A u : u \in instants <=> u \in Int /\ u + Offset(z, u) = c + move
      <4> HIDE DEF move
      <4> QED BY <3>1, InstantsShow
    <3>3. ASSUME NEW u \in Int PROVE u + Offset(z, u) = c + move <=> u + Behind(z) = c
      BY <1>1, <2>1, ZoneOffsets, BehindIs DEF Skipped
    <3> QED BY <2>1, <3>2, <3>3
  <2>2. CASE c \notin Skipped(z)
    <3>1. Shown(z, c) = c
      BY <2>2, SkippedTimes DEF Shown
    <3> QED BY <2>2, <3>1, InstantsShow
  <2> QED BY <2>1, <2>2
<1>3. \E x, y \in Int : \A u \in instants : u = x \/ u = y
  <2>1. c \in Int /\ Shown(z, c) \in Int
    <3>1. CASE c \in Skipped(z)
      BY <1>1, <3>1, SkippedTimes, SkippedForward DEF Shown
    <3>2. CASE c \notin Skipped(z)
      BY <3>2, SkippedTimes DEF Shown
    <3> QED BY <3>1, <3>2
  <2>2. Shown(z, c) - z.shift \in Int
    BY <1>1, <2>1
  <2>3. \A u \in instants : u = Shown(z, c) \/ u = Shown(z, c) - z.shift
    BY DEF Instants
  <2> QED BY <2>1, <2>2, <2>3
<1>4. found = IF past = {} THEN None ELSE Max(past)
  BY DEF ResolveBoundary, LatestNotAfter
<1>5. CASE past = {}
  <2>1. \A u \in instants : ~(u <= t)
    BY <1>5
  <2>2. \A u \in Int : stands(u) => u > t
    BY <1>2, <2>1
  <2> QED BY <1>2, <1>4, <1>5, <2>2
<1>6. CASE past # {}
  <2>1. past \subseteq Int
    BY <1>2
  <2>2. \E x \in past : \A y \in past : x >= y
    <3>1. PICK x, y \in Int : \A u \in past : u = x \/ u = y
      BY <1>3
    <3> HIDE DEF past
    <3>2. CASE x \notin past \/ y \notin past
      <4>1. PICK u \in past : TRUE
        BY <1>6
      <4>2. \A v \in past : v = u
        BY <3>1, <3>2
      <4> QED BY <2>1, <4>1, <4>2
    <3>3. CASE x \in past /\ y \in past
      BY <3>1, <3>3
    <3> QED BY <3>2, <3>3
  <2>3. found \in past /\ \A y \in past : found >= y
    <3> HIDE DEF past, found
    <3> QED BY <1>4, <1>6, <2>2 DEF Max
  <2>4. found \in instants /\ found <= t
    BY <2>3
  <2>5. \A u \in Int : stands(u) /\ u <= t => u <= found
    <3>1. SUFFICES ASSUME NEW u \in Int, stands(u), u <= t PROVE u <= found
      OBVIOUS
    <3>2. u \in past
      BY <1>2, <3>1
    <3>3. found \in Int
      BY <2>1, <2>3
    <3> HIDE DEF found, past
    <3> QED BY <2>3, <3>2, <3>3
  <2> HIDE DEF found, instants, past
  <2>6. found \in Int /\ stands(found)
    BY <1>2, <2>4
  <2> QED BY <1>2, <2>4, <2>5, <2>6 DEF found, instants
<1> QED BY <1>5, <1>6

-----------------------------------------------------------------------------
(* most_recent_preferred: its candidates, and what it makes of each *)

\* The four candidates of most_recent_preferred, as the function that defines them.
Candidates(c, s, civil) ==
  c = [k \in 0..3 |-> IF k = 0 THEN FirstCandidate(s, civil)
                      ELSE PreviousCandidate(s, c[k - 1])]

\* What is found from each of the candidates on, likewise.
Tries(tried, c, z, t) ==
  tried = [k \in 0..4 |->
             IF k = 4 \/ c[k] = None \/ Shown(z, c[k]) = None THEN None
             ELSE LET found == ResolveBoundary(z, c[k], t)
                  IN  IF found # None THEN found ELSE tried[k + 1]]

\* The recursive definition of the four candidates has a solution.
LEMMA CandidatesExist ==
  ASSUME NEW s, NEW civil
  PROVE  \E c : Candidates(c, s, civil)
<1> DEFINE c0 == FirstCandidate(s, civil)
           c1 == PreviousCandidate(s, c0)
           c2 == PreviousCandidate(s, c1)
           c3 == PreviousCandidate(s, c2)
           c == [k \in 0..3 |-> IF k = 0 THEN c0 ELSE IF k = 1 THEN c1
                                ELSE IF k = 2 THEN c2 ELSE c3]
<1>1. c[0] = c0 /\ c[1] = c1 /\ c[2] = c2 /\ c[3] = c3
  <2> HIDE DEF c0, c1, c2, c3
  <2> QED OBVIOUS
<1>2. ASSUME NEW k \in 0..3
      PROVE  c[k] = IF k = 0 THEN FirstCandidate(s, civil) ELSE PreviousCandidate(s, c[k - 1])
  <2>1. k = 0 \/ k = 1 \/ k = 2 \/ k = 3
    OBVIOUS
  <2> HIDE DEF c
  <2>2. CASE k = 0
    BY <1>1, <2>2
  <2>3. CASE k = 1
    BY <1>1, <2>3
  <2>4. CASE k = 2
    BY <1>1, <2>4
  <2>5. CASE k = 3
    BY <1>1, <2>5
  <2> QED BY <2>1, <2>2, <2>3, <2>4, <2>5
<1>3. c = [k \in 0..3 |-> IF k = 0 THEN FirstCandidate(s, civil)
                          ELSE PreviousCandidate(s, c[k - 1])]
  <2> HIDE DEF c0, c1, c2, c3
  <2> QED BY <1>2
<1> HIDE DEF c
<1> QED BY <1>3 DEF Candidates

\* The recursive definition of the tries has a solution.
LEMMA TriesExist ==
  ASSUME NEW c, NEW z, NEW t
  PROVE  \E tried : Tries(tried, c, z, t)
<1> DEFINE try(k, rest) ==
             IF k = 4 \/ c[k] = None \/ Shown(z, c[k]) = None THEN None
             ELSE LET found == ResolveBoundary(z, c[k], t)
                  IN  IF found # None THEN found ELSE rest
           t3 == try(3, None)
           t2 == try(2, t3)
           t1 == try(1, t2)
           t0 == try(0, t1)
           tried == [k \in 0..4 |-> IF k = 0 THEN t0 ELSE IF k = 1 THEN t1
                                    ELSE IF k = 2 THEN t2 ELSE IF k = 3 THEN t3 ELSE None]
<1>1. tried[0] = t0 /\ tried[1] = t1 /\ tried[2] = t2 /\ tried[3] = t3 /\ tried[4] = None
  <2> HIDE DEF t0, t1, t2, t3
  <2> QED OBVIOUS
<1>2. ASSUME NEW k \in 0..4 PROVE tried[k] = try(k, tried[k + 1])
  <2>1. k = 0 \/ k = 1 \/ k = 2 \/ k = 3 \/ k = 4
    OBVIOUS
  <2> HIDE DEF tried
  <2>2. CASE k = 0
    BY <1>1, <2>2
  <2>3. CASE k = 1
    BY <1>1, <2>3
  <2>4. CASE k = 2
    BY <1>1, <2>4
  <2>5. CASE k = 3
    BY <1>1, <2>5
  <2>6. CASE k = 4
    BY <1>1, <2>6
  <2> QED BY <2>1, <2>2, <2>3, <2>4, <2>5, <2>6
<1>3. tried = [k \in 0..4 |-> try(k, tried[k + 1])]
  <2> HIDE DEF t0, t1, t2, t3, try
  <2> QED BY <1>2
<1> HIDE DEF tried
<1> QED BY <1>3 DEF Tries

\* What most_recent_preferred returns is what its first candidate stands for,
\* or, when that has not passed, its second one, and so on.
LEMMA MostRecentTries ==
  ASSUME NEW z, NEW s, NEW t
  PROVE  \E c, tried : /\ Candidates(c, s, t + Offset(z, t)) /\ Tries(tried, c, z, t)
                       /\ MostRecentPreferred(z, s, t) = tried[0]
<1> DEFINE c == CHOOSE f : Candidates(f, s, t + Offset(z, t))
           tried == CHOOSE g : Tries(g, c, z, t)
<1>1. MostRecentPreferred(z, s, t) = tried[0]
  BY DEF MostRecentPreferred, Candidates, Tries
<1>2. Candidates(c, s, t + Offset(z, t))
  BY CandidatesExist
<1> HIDE DEF c
<1>3. Tries(tried, c, z, t)
  BY TriesExist
<1> HIDE DEF tried
<1> QED BY <1>1, <1>2, <1>3

\* Each try is the found instant or the next try.
LEMMA TriesSteps ==
  ASSUME NEW c, NEW tried, NEW z, NEW t, Tries(tried, c, z, t), NEW k \in 0..3
  PROVE  tried[k] = IF c[k] = None \/ Shown(z, c[k]) = None THEN None
                    ELSE IF ResolveBoundary(z, c[k], t) # None THEN ResolveBoundary(z, c[k], t)
                    ELSE tried[k + 1]
<1>1. k \in 0..4 /\ k # 4
  OBVIOUS
<1> QED BY <1>1 DEF Tries

\* Whatever most_recent_preferred returns is an instant that the schedule asks
\* for, now or before.
LEMMA PreferredIsAskedFor ==
  ASSUME NEW z \in Zones, NEW s \in Schedules, NEW t \in Int,
         MostRecentPreferred(z, s, t) # None
  PROVE  /\ MostRecentPreferred(z, s, t) \in Int /\ MostRecentPreferred(z, s, t) <= t
         /\ IsBoundary(z, s, MostRecentPreferred(z, s, t))
<1>1. PICK c, tried : /\ Candidates(c, s, t + Offset(z, t)) /\ Tries(tried, c, z, t)
                      /\ MostRecentPreferred(z, s, t) = tried[0]
  BY MostRecentTries
<1>2. t + Offset(z, t) \in Int
  BY ZoneOffsets
<1>3. c[0] = FirstCandidate(s, t + Offset(z, t)) /\ c[1] = PreviousCandidate(s, c[0])
      /\ c[2] = PreviousCandidate(s, c[1]) /\ c[3] = PreviousCandidate(s, c[2])
  <2>1. \A k \in 0..3 : c[k] = IF k = 0 THEN FirstCandidate(s, t + Offset(z, t))
                               ELSE PreviousCandidate(s, c[k - 1])
    BY <1>1 DEF Candidates
  <2> QED BY <2>1
<1> DEFINE asked(u) == u # None => u \in Int /\ u <= t /\ IsBoundary(z, s, u)
<1>4. ASSUME NEW k \in 0..3, c[k] # None, Shown(z, c[k]) # None, c[k] \in Int, Scheduled(s, c[k])
      PROVE  asked(ResolveBoundary(z, c[k], t))
  <2> DEFINE found == ResolveBoundary(z, c[k], t)
  <2>1. found # None => /\ found \in Int /\ found <= t
                        /\ IF c[k] \in Skipped(z) THEN found + Behind(z) = c[k]
                           ELSE found + Offset(z, found) = c[k]
    BY <1>4, ResolvedIs
  <2> HIDE DEF found
  <2> QED BY <1>4, <2>1, SkippedTimes DEF IsBoundary, found
<1>5. asked(tried[4])
  BY <1>1 DEF Tries
<1>6. ASSUME c[3] # None => c[3] \in Int /\ Scheduled(s, c[3]) PROVE asked(tried[3])
  BY <1>1, <1>4, <1>5, <1>6, TriesSteps
<1>7. ASSUME c[2] # None => c[2] \in Int /\ Scheduled(s, c[2]) PROVE asked(tried[2])
  <2>1. c[2] # None => (c[3] # None => c[3] \in Int /\ Scheduled(s, c[3]))
    BY <1>3, <1>7, PreviousScheduled
  <2> QED BY <1>1, <1>4, <1>6, <1>7, <2>1, TriesSteps
<1>8. ASSUME c[1] # None => c[1] \in Int /\ Scheduled(s, c[1]) PROVE asked(tried[1])
  <2>1. c[1] # None => (c[2] # None => c[2] \in Int /\ Scheduled(s, c[2]))
    BY <1>3, <1>8, PreviousScheduled
  <2> QED BY <1>1, <1>4, <1>7, <1>8, <2>1, TriesSteps
<1>9. c[0] # None => c[0] \in Int /\ Scheduled(s, c[0])
  BY <1>2, <1>3, FirstScheduled
<1>10. c[0] # None => (c[1] # None => c[1] \in Int /\ Scheduled(s, c[1]))
  BY <1>3, <1>9, PreviousScheduled
<1>11. asked(tried[0])
  BY <1>1, <1>4, <1>8, <1>9, <1>10, TriesSteps
<1> QED BY <1>1, <1>11

-----------------------------------------------------------------------------
(* The planner in time *)

\* boundary is the last instant up to now that the schedule asks for.
AskedForLast ==
  /\ boundary # None => boundary \in 0..now /\ IsBoundary(zone, schedule, boundary)
  /\ \A u \in 0..now : IsBoundary(zone, schedule, u) => boundary # None /\ u <= boundary

\* The inductive invariant.
Planned ==
  /\ zone \in Zones /\ schedule \in Schedules /\ now \in Nat
  /\ newest # None => newest \in 0..now
  /\ AskedForLast

\* ScheduleInit looks for the last boundary among all instants up to Start.
LEMMA InitPlanned == ScheduleInit => Planned
<1> SUFFICES ASSUME ScheduleInit PROVE Planned
  OBVIOUS
<1> DEFINE past == {t \in 0..Start : IsBoundary(zone, schedule, t)}
<1>1. /\ zone \in Zones /\ schedule \in Schedules /\ now = Start /\ Start \in Nat
      /\ newest = None /\ None \notin Int /\ boundary = IF past = {} THEN None ELSE Max(past)
  BY ScheduleAssumption DEF ScheduleInit
<1>2. CASE past = {}
  <2>1. \A u \in 0..now : ~IsBoundary(zone, schedule, u)
    BY <1>1, <1>2
  <2> QED BY <1>1, <1>2, <2>1 DEF Planned, AskedForLast
<1>3. CASE past # {}
  <2>1. past \subseteq 0..Start
    OBVIOUS
  <2>2. boundary \in past /\ \A u \in past : u <= boundary
    <3> HIDE DEF past
    <3> QED BY <1>1, <1>3, <2>1, Greatest
  <2>3. boundary \in 0..now /\ IsBoundary(zone, schedule, boundary)
    BY <1>1, <2>2
  <2>4. boundary # None
    BY <1>1, <2>3
  <2>5. \A u \in 0..now : IsBoundary(zone, schedule, u) => u <= boundary
    BY <1>1, <2>2
  <2> QED BY <1>1, <2>3, <2>4, <2>5 DEF Planned, AskedForLast
<1> QED BY <1>2, <1>3

\* Every tick looks whether it is a boundary, and a snapshot is taken now.
LEMMA NextPlanned == Planned /\ [ScheduleNext]_scheduleVars => Planned'
<1> SUFFICES ASSUME Planned, [ScheduleNext]_scheduleVars PROVE Planned'
  OBVIOUS
<1>1. None \notin Int
  BY ScheduleAssumption
<1>2. CASE Tick
  <2>1. /\ now' = now + 1 /\ UNCHANGED <<zone, schedule, newest>>
        /\ boundary' = IF IsBoundary(zone, schedule, now') THEN now' ELSE boundary
    BY <1>2 DEF Tick
  <2>2. now' \in Nat /\ \A u \in 0..now' : u \in 0..now \/ u = now'
    BY <2>1 DEF Planned
  <2>3. AskedForLast'
    <3>1. CASE IsBoundary(zone, schedule, now')
      <4>1. boundary' = now'
        BY <2>1, <3>1
      <4> QED BY <1>1, <2>1, <2>2, <3>1, <4>1 DEF AskedForLast
    <3>2. CASE ~IsBoundary(zone, schedule, now')
      <4>1. boundary' = boundary
        BY <2>1, <3>2
      <4>2. boundary # None => boundary \in 0..now' /\ IsBoundary(zone, schedule, boundary)
        BY <2>1 DEF Planned, AskedForLast
      <4>3. \A u \in 0..now' : IsBoundary(zone, schedule, u) => boundary # None /\ u <= boundary
        BY <2>2, <3>2 DEF Planned, AskedForLast
      <4> QED BY <2>1, <4>1, <4>2, <4>3 DEF AskedForLast
    <3> QED BY <3>1, <3>2
  <2>4. newest' # None => newest' \in 0..now'
    BY <2>1 DEF Planned
  <2> QED BY <2>1, <2>2, <2>3, <2>4 DEF Planned
<1>3. CASE TakeSnapshot
  BY <1>3 DEF TakeSnapshot, Planned, AskedForLast
<1>4. CASE UNCHANGED scheduleVars
  BY <1>4 DEF scheduleVars, Planned, AskedForLast
<1> QED BY <1>2, <1>3, <1>4 DEF ScheduleNext

\* The history holds the last boundary throughout.
LEMMA PlannedAlways == ScheduleSpec => []Planned
BY InitPlanned, NextPlanned, PTL DEF ScheduleSpec

\* The instant that makes a snapshot due has been asked for, since the newest
\* snapshot of the class.
THEOREM OneSnapshotPerBoundary == ScheduleSpec => OncePerBoundary
<1>1. Planned /\ [ScheduleNext]_scheduleVars =>
        [newest' # newest => newest = None \/ boundary > newest]_scheduleVars
  <2> SUFFICES ASSUME Planned, ScheduleNext, newest' # newest, newest # None
               PROVE  boundary > newest
    BY DEF scheduleVars
  <2>1. TakeSnapshot
    BY DEF ScheduleNext, Tick
  <2> DEFINE preferred == MostRecentPreferred(zone, schedule, now)
  <2>2. preferred # None /\ newest < preferred
    BY <2>1 DEF TakeSnapshot, Due, SnapshotDue
  <2>3. preferred \in Int /\ preferred <= now /\ IsBoundary(zone, schedule, preferred)
    BY <2>2, PreferredIsAskedFor DEF Planned
  <2> HIDE DEF preferred
  <2>4. newest \in 0..now /\ now \in Nat
    BY DEF Planned
  <2>5. preferred \in 0..now
    BY <2>2, <2>3, <2>4
  <2>6. boundary # None /\ preferred <= boundary /\ boundary \in 0..now
    BY <2>3, <2>5 DEF Planned, AskedForLast
  <2> QED BY <2>2, <2>3, <2>4, <2>6
<1> QED BY <1>1, PlannedAlways, PTL DEF ScheduleSpec, OncePerBoundary

-----------------------------------------------------------------------------
(* Scheduled times are a unit apart, and candidates leave none of them out *)

\* The unit of a kind of schedule.
LEMMA Units ==
  ASSUME NEW s \in Schedules
  PROVE  /\ Unit(s) \in Nat \ {0}
         /\ s.kind = "frequently" => Unit(s) = s.period
         /\ s.kind = "hourly" => Unit(s) = HourTicks
         /\ s.kind \in {"daily", "weekly", "monthly", "yearly"} => Unit(s) = DayTicks
<1>1. CASE s.kind = "frequently"
  BY <1>1, Policies DEF Unit
<1>2. CASE s.kind = "hourly"
  BY <1>2, Ticks DEF Unit
<1>3. CASE s.kind \in {"daily", "weekly", "monthly", "yearly"}
  BY <1>3, Ticks DEF Unit
<1> QED BY <1>1, <1>2, <1>3, Policies DEF Kinds

\* Of two numbers of one remainder the greater is a unit later.
LEMMA SameRemainder ==
  ASSUME NEW d \in Nat \ {0}, NEW b \in Int, NEW c \in Int, b % d = c % d, b < c
  PROVE  b + d <= c
<1> DEFINE p == b \div d
           q == c \div d
           r == b % d
<1>1. b = d * p + r /\ c = d * q + r /\ p \in Int /\ q \in Int /\ r \in Int
  OBVIOUS
<1> HIDE DEF p, q, r
<1>2. p < q
  <2>1. q <= p => d * q <= d * p
    BY <1>1
  <2> QED BY <1>1, <2>1
<1>3. d * (p + 1) <= d * q
  BY <1>1, <1>2
<1> QED BY <1>1, <1>3

\* Multiples keep the order.
LEMMA Scaled ==
  ASSUME NEW d \in Nat, NEW p \in Int, NEW q \in Int, p <= q
  PROVE  d * p <= d * q
OBVIOUS

\* Quotients are in the order of the numbers.
LEMMA QuotientsInOrder ==
  ASSUME NEW d \in Nat \ {0}, NEW b \in Int, NEW c \in Int
  PROVE  /\ b <= c => b \div d <= c \div d
         /\ b \div d = c \div d => c < b + d
<1> DEFINE p == b \div d
           q == c \div d
           r == b % d
           t == c % d
<1>1. /\ b = d * p + r /\ c = d * q + t /\ p \in Int /\ q \in Int
      /\ r \in 0..(d - 1) /\ t \in 0..(d - 1)
  OBVIOUS
<1> HIDE DEF p, q, r, t
<1>2. b <= c => p <= q
  <2>1. q + 1 <= p => d * (q + 1) <= d * p
    BY <1>1
  <2> QED BY <1>1, <2>1
<1>3. p = q => c < b + d
  BY <1>1
<1> QED BY <1>2, <1>3 DEF p, q

\* What a scheduled time is, by kind.
LEMMA ScheduledIs ==
  ASSUME NEW s \in Schedules, NEW c \in Int, Scheduled(s, c)
  PROVE  /\ s.kind = "frequently" => c % s.period = 0
         /\ s.kind = "hourly" => c % HourTicks = s.min
         /\ s.kind \in {"daily", "weekly", "monthly", "yearly"} =>
              Day(c) \in Int /\ c = Day(c) * DayTicks + s.hour * HourTicks + s.min
         /\ s.kind = "weekly" => Day(c) % WeekDays = s.wday
         /\ s.kind = "monthly" => Dates[Day(c) + 1][3] = s.mday
         /\ s.kind = "yearly" => Yearly(s, Dates[Day(c) + 1])
<1>1. s.kind = "frequently" => c % s.period = 0
  BY PeriodOfHour DEF Scheduled
<1>2. s.kind \in {"daily", "weekly", "monthly", "yearly"} => Hour(c) = s.hour /\ Minute(c) = s.min
  BY DEF Scheduled
<1>3. Day(c) \in Int /\ c = Day(c) * DayTicks + Hour(c) * HourTicks + Minute(c)
  BY Civil
<1>4. s.kind = "hourly" => c % HourTicks = s.min
  BY DEF Scheduled, Minute
<1>5. s.kind = "weekly" => Day(c) % WeekDays = s.wday
  BY DEF Scheduled
<1>6. /\ s.kind = "monthly" => Dates[Day(c) + 1][3] = s.mday
      /\ s.kind = "yearly" => Yearly(s, Dates[Day(c) + 1])
  BY DEF Scheduled
<1> QED BY <1>1, <1>2, <1>3, <1>4, <1>5, <1>6

\* Two scheduled times are a unit apart.
LEMMA UnitApart ==
  ASSUME NEW s \in Schedules, NEW b \in Int, NEW c \in Int,
         Scheduled(s, b), Scheduled(s, c), b < c
  PROVE  b + Unit(s) <= c
<1>1. CASE s.kind = "frequently"
  <2>1. b % Unit(s) = 0 /\ c % Unit(s) = 0 /\ Unit(s) \in Nat \ {0}
    BY <1>1, Units, ScheduledIs
  <2> QED BY <2>1, SameRemainder
<1>2. CASE s.kind = "hourly"
  <2>1. b % Unit(s) = s.min /\ c % Unit(s) = s.min /\ Unit(s) \in Nat \ {0}
    BY <1>2, Units, ScheduledIs
  <2> QED BY <2>1, SameRemainder
<1>3. CASE s.kind \in {"daily", "weekly", "monthly", "yearly"}
  <2> DEFINE p == Day(b)
             q == Day(c)
             r == s.hour * HourTicks + s.min
  <2>1. p \in Int /\ q \in Int /\ r \in Int /\ DayTicks \in Nat
    <3>1. s.hour \in Int /\ HourTicks \in Int /\ s.min \in Int
      BY Ticks, Policies
    <3>2. r \in Int
      BY <3>1
    <3>3. p \in Int /\ q \in Int /\ DayTicks \in Nat
      BY Civil, Ticks
    <3> QED BY <3>2, <3>3
  <2>2. b = p * DayTicks + r /\ c = q * DayTicks + r
    <3>1. b = p * DayTicks + s.hour * HourTicks + s.min
          /\ c = q * DayTicks + s.hour * HourTicks + s.min
      BY <1>3, ScheduledIs
    <3>2. s.hour \in Int /\ HourTicks \in Int /\ s.min \in Int
      BY Ticks, Policies
    <3> HIDE DEF p, q
    <3> QED BY <2>1, <3>1, <3>2
  <2> HIDE DEF p, q, r
  <2>3. p < q
    <3>1. q <= p => q * DayTicks <= p * DayTicks
      BY <2>1
    <3> QED BY <2>1, <2>2, <3>1
  <2>4. (p + 1) * DayTicks <= q * DayTicks
    BY <2>1, <2>3
  <2>5. Unit(s) = DayTicks
    BY <1>3, Units
  <2> QED BY <2>1, <2>2, <2>4, <2>5
<1> QED BY <1>1, <1>2, <1>3, Policies DEF Kinds

\* So a unit has no two of them.
LEMMA OneInUnit ==
  ASSUME NEW s \in Schedules, NEW b \in Int, NEW c \in Int,
         Scheduled(s, b), Scheduled(s, c), b \div Unit(s) = c \div Unit(s)
  PROVE  b = c
<1>1. Unit(s) \in Nat \ {0}
  BY Units
<1>2. c < b + Unit(s) /\ b < c + Unit(s)
  BY <1>1, QuotientsInOrder
<1>3. b < c => b + Unit(s) <= c
  BY UnitApart
<1>4. c < b => c + Unit(s) <= b
  BY UnitApart
<1> DEFINE u == Unit(s)
<1> HIDE DEF u
<1> QED BY <1>1, <1>2, <1>3, <1>4

\* Times on days: the later day has the later time.
LEMMA DaysInOrder ==
  ASSUME NEW s \in Schedules, NEW b \in Int, NEW c \in Int,
         Scheduled(s, b), Scheduled(s, c),
         s.kind \in {"daily", "weekly", "monthly", "yearly"}
  PROVE  /\ Day(b) \in Int /\ Day(c) \in Int
         /\ Day(b) <= Day(c) => b <= c
         /\ b < c => Day(b) < Day(c)
<1> DEFINE p == Day(b)
           q == Day(c)
           r == s.hour * HourTicks + s.min
<1>1. s.hour \in Int /\ HourTicks \in Int /\ s.min \in Int /\ DayTicks \in Nat \ {0}
  BY Ticks, Policies
<1>2. r \in Int
  BY <1>1
<1>3. p \in Int /\ q \in Int
  BY Civil
<1>4. b = p * DayTicks + s.hour * HourTicks + s.min
      /\ c = q * DayTicks + s.hour * HourTicks + s.min
  BY ScheduledIs
<1> HIDE DEF p, q
<1>5. b = p * DayTicks + r /\ c = q * DayTicks + r
  BY <1>1, <1>3, <1>4
<1> HIDE DEF r
<1>6. p <= q => p * DayTicks <= q * DayTicks
  BY <1>1, <1>3
<1>7. q <= p => q * DayTicks <= p * DayTicks
  BY <1>1, <1>3
<1>8. p * DayTicks \in Int /\ q * DayTicks \in Int
  BY <1>1, <1>3
<1>9. (p <= q => b <= c) /\ (b < c => p < q)
  BY <1>2, <1>3, <1>5, <1>6, <1>7, <1>8
<1> QED BY <1>3, <1>9 DEF p, q

\* The calendar has this day.
OnCalendar(c) == Day(c) + 1 \in 1..Len(Dates)

\* The date of a day that the calendar has.
LEMMA DateIs ==
  ASSUME NEW i \in 1..Len(Dates)
  PROVE  /\ Dates[i][1] \in Int /\ Dates[i][2] \in Int /\ Dates[i][3] \in Int
         /\ Dates[i] = <<Dates[i][1], Dates[i][2], Dates[i][3]>>
         /\ Dates[i] \in Range(Dates)
<1>1. Dates \in Seq(Int \X Int \X Int)
  BY ScheduleAssumption
<1>2. Dates[i] \in Int \X Int \X Int /\ i \in DOMAIN Dates
  BY <1>1
<1> QED BY <1>2 DEF Range

\* The days are in the order of their dates.
LEMMA DatesInOrder ==
  ASSUME RegularCalendar, NEW i \in 1..Len(Dates), NEW j \in 1..Len(Dates),
         ~ Before(Dates[j], Dates[i])
  PROVE  i <= j
<1>1. j < i => Before(Dates[j], Dates[i])
  BY DEF RegularCalendar
<1> QED BY <1>1

\* A later day has no earlier year, nor an earlier month of that year.
LEMMA DatesFollow ==
  ASSUME RegularCalendar, NEW i \in 1..Len(Dates), NEW j \in 1..Len(Dates), i <= j
  PROVE  /\ Dates[i][1] <= Dates[j][1]
         /\ Dates[i][1] = Dates[j][1] => Dates[i][2] <= Dates[j][2]
         /\ i < j => Before(Dates[i], Dates[j])
<1>1. i < j => Before(Dates[i], Dates[j])
  BY DEF RegularCalendar
<1>2. i = j \/ i < j
  OBVIOUS
<1> QED BY <1>1, <1>2, DateIs DEF Before

\* Its years are without a gap and have the same dates, but for the leap day.
LEMMA WholeYears ==
  ASSUME RegularCalendar, NEW i \in 1..Len(Dates), NEW j \in 1..Len(Dates),
         NEW y \in Dates[i][1]..Dates[j][1]
  PROVE  /\ Months \in Nat /\ Dates[i][2] \in 1..Months
         /\ \A m \in 1..Months, d \in 1..MonthlyDays : <<y, m, d>> \in Range(Dates)
         /\ \A k \in 1..Len(Dates) :
              \/ <<y, Dates[k][2], Dates[k][3]>> \in Range(Dates)
              \/ Dates[k][2] = 2 /\ Dates[k][3] = LeapDay
         /\ <<y, 2, LeapDay - 1>> \in Range(Dates)
<1> DEFINE years == {date[1] : date \in Range(Dates)}
<1>1. Dates[i][1] \in years /\ Dates[j][1] \in years
  BY DateIs
<1>2. y \in years
  BY <1>1 DEF RegularCalendar
<1>3. Months \in Nat /\ Dates[i][2] \in 1..Months
  BY DateIs DEF RegularCalendar
<1>4. \A m \in 1..Months, d \in 1..MonthlyDays : <<y, m, d>> \in Range(Dates)
  BY <1>2 DEF RegularCalendar
<1>5. /\ \A date \in Range(Dates) : <<y, date[2], date[3]>> \in Range(Dates)
                                     \/ (date[2] = 2 /\ date[3] = LeapDay)
      /\ <<y, 2, LeapDay - 1>> \in Range(Dates)
  BY <1>2 DEF RegularCalendar
<1> QED BY <1>3, <1>4, <1>5, DateIs

\* A date that the calendar has is found, and on the calendar.
LEMMA DateFound ==
  ASSUME NEW s \in Schedules, NEW date \in Range(Dates)
  PROVE  /\ OnDate(date, s) # None /\ OnDate(date, s) \in Int /\ OnCalendar(OnDate(date, s))
         /\ Dates[Day(OnDate(date, s)) + 1] = date
<1>1. PICK d \in DOMAIN Dates : Dates[d] = date
  BY DEF Range
<1>2. d \in 1..Len(Dates)
  BY Calendar
<1>3. OnDate(date, s) \in Int
  BY <1>1, <1>2, OnDateFinds
<1> DEFINE c == OnDate(date, s)
<1>4. c \in Int /\ c # None
  BY <1>3, Ticks
<1> HIDE DEF c
<1>5. OnCalendar(c) /\ Dates[Day(c) + 1] = date
  BY <1>4, OnDateFound DEF OnCalendar, c
<1> QED BY <1>4, <1>5 DEF c

\* A year has one date of a yearly schedule,
LEMMA OneInYear ==
  ASSUME RegularCalendar, NEW s \in Schedules, s.kind = "yearly",
         NEW b \in Int, NEW c \in Int, Scheduled(s, b), Scheduled(s, c),
         OnCalendar(b), OnCalendar(c), Year(b) = Year(c)
  PROVE  Day(b) = Day(c)
<1> DEFINE i == Day(b) + 1
           j == Day(c) + 1
<1>1. /\ i \in 1..Len(Dates) /\ j \in 1..Len(Dates)
      /\ Yearly(s, Dates[i]) /\ Yearly(s, Dates[j]) /\ Dates[i][1] = Dates[j][1]
  BY ScheduledIs DEF OnCalendar, Year
<1>2. Day(b) \in Int /\ Day(c) \in Int
  BY Civil
<1> HIDE DEF i, j
<1>3. /\ Dates[i] = <<Dates[i][1], Dates[i][2], Dates[i][3]>> /\ Dates[i] \in Range(Dates)
      /\ Dates[j] = <<Dates[j][1], Dates[j][2], Dates[j][3]>> /\ Dates[j] \in Range(Dates)
  BY <1>1, DateIs
<1>4. Dates[i] = Dates[j]
  BY <1>1, <1>3 DEF Yearly
<1>5. ~ Before(Dates[i], Dates[i]) /\ Dates[i][1] \in Int
  BY <1>1, DateIs DEF Before
<1>6. i <= j /\ j <= i
  BY <1>1, <1>4, <1>5, DatesInOrder
<1>7. i = j
  BY <1>1, <1>6
<1> QED BY <1>2, <1>7 DEF i, j

\* and every year of the calendar does, if one has.
LEMMA EveryYear ==
  ASSUME RegularCalendar, NEW s \in Schedules, s.kind = "yearly",
         NEW b \in Int, Scheduled(s, b), OnCalendar(b),
         NEW i \in 1..Len(Dates), NEW j \in 1..Len(Dates), NEW y \in Dates[i][1]..Dates[j][1]
  PROVE  /\ YearlyDate(y, s) # None /\ YearlyDate(y, s) \in Int
         /\ OnCalendar(YearlyDate(y, s)) /\ Year(YearlyDate(y, s)) = y
<1> DEFINE date == <<y, s.mon, s.mday>>
           k == Day(b) + 1
<1>1. CASE date \in Range(Dates)
  <2>1. YearlyDate(y, s) = OnDate(date, s)
    BY <1>1, DateFound DEF YearlyDate
  <2>2. /\ OnDate(date, s) # None /\ OnDate(date, s) \in Int /\ OnCalendar(OnDate(date, s))
        /\ Dates[Day(OnDate(date, s)) + 1] = date
    BY <1>1, DateFound
  <2> QED BY <2>1, <2>2 DEF Year
<1>2. CASE date \notin Range(Dates)
  <2>1. k \in 1..Len(Dates) /\ Yearly(s, Dates[k])
    BY ScheduledIs DEF OnCalendar
  <2>2. s.mon = 2 /\ s.mday = LeapDay
    <3>1. CASE Dates[k][2] = s.mon /\ Dates[k][3] = s.mday
      <4> HIDE DEF k
      <4>1. <<y, Dates[k][2], Dates[k][3]>> \in Range(Dates)
              \/ (Dates[k][2] = 2 /\ Dates[k][3] = LeapDay)
        BY <2>1, WholeYears
      <4> QED BY <1>2, <3>1, <4>1
    <3> QED BY <2>1, <3>1 DEF Yearly
  <2>3. OnDate(date, s) = None
    <3>1. \A d \in 1..Len(Dates) : Dates[d] # date
      BY <1>2, DateIs
    <3>2. {d \in 1..Len(Dates) : Dates[d] = date} = {}
      BY <3>1
    <3> QED BY <3>2 DEF OnDate
  <2> DEFINE other == <<y, 2, LeapDay - 1>>
  <2>4. YearlyDate(y, s) = OnDate(other, s)
    BY <2>2, <2>3 DEF YearlyDate
  <2>5. other \in Range(Dates)
    BY WholeYears
  <2>6. /\ OnDate(other, s) # None /\ OnDate(other, s) \in Int /\ OnCalendar(OnDate(other, s))
        /\ Dates[Day(OnDate(other, s)) + 1] = other
    BY <2>5, DateFound
  <2> QED BY <2>4, <2>6 DEF Year
<1> QED BY <1>1, <1>2

\* The kinds that ask for a time of day.
DayKinds == {"daily", "weekly", "monthly", "yearly"}

\* No scheduled time up to the unit of a civil time is after the first
\* candidate, and there is one if there is such a time.
LEMMA FirstIsLast ==
  ASSUME RegularCalendar, NEW s \in Schedules, NEW x \in Int, OnCalendar(x),
         NEW b \in Int, Scheduled(s, b), OnCalendar(b), b \div Unit(s) <= x \div Unit(s)
  PROVE  FirstCandidate(s, x) # None /\ b <= FirstCandidate(s, x)
<1> DEFINE c == FirstCandidate(s, x)
<1>1. Unit(s) \in Nat \ {0} /\ None \notin Int
  BY Units, Ticks
<1>2. CASE s.kind = "frequently"
  <2> DEFINE u == s.period
             p == b \div u
             q == x \div u
  <2>1. u = Unit(s) /\ u \in Nat \ {0} /\ b % u = 0
    BY <1>1, <1>2, Units, ScheduledIs
  <2>2. c = x - (x % u)
    BY <1>2, PeriodOfHour DEF FirstCandidate
  <2> HIDE DEF u, c
  <2>3. b = u * p /\ c = u * q /\ p \in Int /\ q \in Int
    <3> DEFINE r == b % u
               t == x % u
    <3>1. /\ b = u * p + r /\ x = u * q + t /\ p \in Int /\ q \in Int /\ t \in Int
      <4>1. u \in Nat \ {0}
        BY <2>1
      <4> QED BY <4>1
    <3>2. r = 0 /\ c = x - t
      BY <2>1, <2>2
    <3> HIDE DEF p, q, r, t
    <3> QED BY <2>1, <3>1, <3>2
  <2>4. p <= q
    BY <2>1
  <2> HIDE DEF p, q
  <2>5. u * p <= u * q
    BY <2>1, <2>3, <2>4, Scaled
  <2> QED BY <1>1, <2>1, <2>3, <2>5 DEF c
<1>3. CASE s.kind = "hourly"
  <2> DEFINE m == s.min
             u == HourTicks
             p == b \div u
             q == x \div u
  <2>1. u = Unit(s) /\ u \in Nat \ {0} /\ b % u = m /\ m \in Int
    BY <1>1, <1>3, Units, ScheduledIs, Policies
  <2>2. c = x - (x % u) + m
    BY <1>3 DEF FirstCandidate, Minute
  <2> HIDE DEF u, m, c
  <2>3. b = u * p + m /\ c = u * q + m /\ p \in Int /\ q \in Int
    <3> DEFINE r == b % u
               t == x % u
    <3>1. /\ b = u * p + r /\ x = u * q + t /\ p \in Int /\ q \in Int /\ t \in Int
      <4>1. u \in Nat \ {0}
        BY <2>1
      <4> QED BY <4>1
    <3>2. r = m /\ c = x - t + m /\ m \in Int
      BY <2>1, <2>2
    <3> HIDE DEF p, q, r, t
    <3> QED BY <2>1, <3>1, <3>2
  <2>4. p <= q
    BY <2>1
  <2> HIDE DEF p, q
  <2>5. u * p <= u * q
    BY <2>1, <2>3, <2>4, Scaled
  <2>6. c \in Int /\ b <= c
    BY <2>1, <2>3, <2>5
  <2> QED BY <1>1, <2>6 DEF c
<1>4. CASE s.kind \in DayKinds
  <2>1. Day(b) <= Day(x) /\ Day(b) \in Int /\ Day(x) \in Int
    BY <1>4, Units, Civil DEF Day, DayKinds
  <2>2. SUFFICES c # None /\ Day(b) <= Day(c)
    <3>1. c # None => c \in Int /\ Scheduled(s, c)
      BY FirstScheduled
    <3> HIDE DEF c
    <3>2. c # None /\ Day(b) <= Day(c) => b <= c
      BY <1>4, <3>1, DaysInOrder DEF DayKinds
    <3> QED BY <3>2 DEF c
  <2>3. CASE s.kind = "daily"
    <3>1. c \in Int /\ Day(c) = Day(x)
      BY <2>3, FirstDay
    <3> HIDE DEF c
    <3> QED BY <1>1, <2>1, <3>1
  <2>4. CASE s.kind = "weekly"
    <3>1. /\ c \in Int /\ Day(c) \in Int /\ Day(x) < Day(c) + WeekDays
          /\ Day(c) % WeekDays = s.wday
      BY <2>4, FirstDay
    <3>2. Day(b) % WeekDays = Day(c) % WeekDays
      BY <2>4, <3>1, ScheduledIs
    <3> HIDE DEF c
    <3>3. Day(c) < Day(b) => Day(c) + WeekDays <= Day(b)
      BY <2>1, <3>1, <3>2, Ticks, SameRemainder
    <3> QED BY <1>1, <2>1, <3>1, <3>3, Ticks
  <2>5. CASE s.kind = "monthly"
    <3> DEFINE date == <<Year(x), Month(x), s.mday>>
               i == Day(b) + 1
               k == Day(x) + 1
    <3>1. i \in 1..Len(Dates) /\ k \in 1..Len(Dates) /\ i <= k
      BY <2>1 DEF OnCalendar
    <3>2. s.mday \in 1..MonthlyDays
      BY <2>5, ScheduleAssumption DEF Validates
    <3>3. date \in Range(Dates)
      <4>1. Dates[k][1] \in Dates[k][1]..Dates[k][1]
        BY <3>1, DateIs
      <4> QED BY <3>1, <3>2, <4>1, WholeYears DEF Year, Month
    <3>4. c = OnDate(date, s)
      BY <2>5 DEF FirstCandidate
    <3>5. c # None /\ OnCalendar(c) /\ Dates[Day(c) + 1] = date /\ c \in Int
      BY <3>3, <3>4, DateFound
    <3> DEFINE j == Day(c) + 1
    <3>6. j \in 1..Len(Dates) /\ Dates[j] = date
      BY <3>5 DEF OnCalendar
    <3>7. Dates[j][1] = Dates[k][1] /\ Dates[j][2] = Dates[k][2] /\ Dates[j][3] = s.mday
      BY <3>6 DEF Year, Month
    <3>8. Dates[i][3] = s.mday
      BY <2>5, ScheduledIs
    <3> HIDE DEF i, j, k
    <3>9. ~ Before(Dates[j], Dates[i])
      <4>1. /\ Dates[i][1] <= Dates[k][1]
            /\ Dates[i][1] = Dates[k][1] => Dates[i][2] <= Dates[k][2]
        BY <3>1, DatesFollow
      <4>2. /\ Dates[i][1] \in Int /\ Dates[i][2] \in Int /\ Dates[i][3] \in Int
            /\ Dates[k][1] \in Int /\ Dates[k][2] \in Int
        BY <3>1, DateIs
      <4> QED BY <3>7, <3>8, <4>1, <4>2 DEF Before
    <3>10. i <= j
      BY <3>1, <3>6, <3>9, DatesInOrder
    <3> HIDE DEF c
    <3>11. Day(c) \in Int
      BY <3>5, Civil
    <3> QED BY <2>1, <3>5, <3>10, <3>11 DEF i, j
  <2>6. CASE s.kind = "yearly"
    <3> DEFINE i == Day(b) + 1
               k == Day(x) + 1
    <3>1. i \in 1..Len(Dates) /\ k \in 1..Len(Dates) /\ i <= k
      BY <2>1 DEF OnCalendar
    <3>2. Dates[k][1] \in Dates[k][1]..Dates[k][1] /\ Dates[k][1] = Year(x)
      BY <3>1, DateIs DEF Year
    <3>3. c = YearlyDate(Year(x), s)
      BY <2>6 DEF FirstCandidate
    <3>4. c # None /\ c \in Int /\ OnCalendar(c) /\ Year(c) = Year(x)
      <4> HIDE DEF k, c
      <4> QED BY <2>6, <3>1, <3>2, <3>3, EveryYear
    <3>5. Scheduled(s, c)
      BY <3>4, FirstScheduled
    <3> HIDE DEF c
    <3> DEFINE j == Day(c) + 1
    <3>6. j \in 1..Len(Dates) /\ Dates[j][1] = Dates[k][1] /\ Day(c) \in Int
      BY <3>4, Civil DEF OnCalendar, Year
    <3>7. CASE Dates[i][1] = Dates[k][1]
      <4>1. Year(b) = Year(c)
        BY <3>4, <3>7 DEF Year
      <4>2. Day(b) = Day(c)
        BY <2>6, <3>4, <3>5, <4>1, OneInYear
      <4> QED BY <2>1, <3>4, <4>2
    <3>8. CASE Dates[i][1] # Dates[k][1]
      <4> HIDE DEF i, j, k
      <4>1. ~ Before(Dates[j], Dates[i])
        BY <3>1, <3>6, <3>8, DatesFollow, DateIs DEF Before
      <4>2. i <= j
        BY <3>1, <3>6, <4>1, DatesInOrder
      <4> QED BY <2>1, <3>4, <3>6, <4>2 DEF i, j
    <3> QED BY <3>7, <3>8
  <2> QED BY <1>4, <2>3, <2>4, <2>5, <2>6 DEF DayKinds
<1> QED BY <1>2, <1>3, <1>4, Policies DEF Kinds, DayKinds

\* The date of a year is in that year.
LEMMA YearlyDateOf ==
  ASSUME NEW s \in Schedules, NEW y, YearlyDate(y, s) # None
  PROVE  OnCalendar(YearlyDate(y, s)) /\ Year(YearlyDate(y, s)) = y
<1>1. PICK m, d : YearlyDate(y, s) = OnDate(<<y, m, d>>, s)
  BY DEF YearlyDate
<1> DEFINE c == OnDate(<<y, m, d>>, s)
<1>2. OnCalendar(c) /\ Dates[Day(c) + 1] = <<y, m, d>>
  BY <1>1, OnDateFound DEF OnCalendar
<1> QED BY <1>1, <1>2 DEF Year

\* The candidates of months and years are on the calendar.
LEMMA OnCalendarAlways ==
  ASSUME NEW s \in Schedules, s.kind \in {"monthly", "yearly"}, NEW c, c # None,
         \E civil : c = FirstCandidate(s, civil) \/ c = PreviousCandidate(s, civil)
  PROVE  OnCalendar(c)
<1>1. CASE s.kind = "monthly"
  <2>1. PICK date : c = OnDate(date, s)
    BY <1>1 DEF FirstCandidate, PreviousCandidate
  <2> QED BY <2>1, OnDateFound DEF OnCalendar
<1>2. CASE s.kind = "yearly"
  <2>1. PICK y : c = YearlyDate(y, s)
    BY <1>2 DEF FirstCandidate, PreviousCandidate
  <2> QED BY <2>1, YearlyDateOf
<1> QED BY <1>1, <1>2

\* A day of the calendar with an earlier year, or month, is an earlier day.
LEMMA EarlierMonth ==
  ASSUME RegularCalendar, NEW b \in Int, NEW c \in Int, OnCalendar(b), OnCalendar(c),
         Year(b) < Year(c) \/ (Year(b) = Year(c) /\ Month(b) < Month(c))
  PROVE  Day(b) < Day(c)
<1> DEFINE i == Day(b) + 1
           j == Day(c) + 1
<1>1. /\ i \in 1..Len(Dates) /\ j \in 1..Len(Dates)
      /\ Dates[i][1] < Dates[j][1] \/ (Dates[i][1] = Dates[j][1] /\ Dates[i][2] < Dates[j][2])
  BY DEF OnCalendar, Year, Month
<1>2. Day(b) \in Int /\ Day(c) \in Int
  BY Civil
<1> HIDE DEF i, j
<1>3. ~(j <= i)
  BY <1>1, DatesFollow, DateIs
<1>4. i < j
  BY <1>1, <1>3
<1> QED BY <1>2, <1>4 DEF i, j

\* A civil time of an earlier day, hour or period has passed.
LEMMA EarlierDay ==
  ASSUME NEW b \in Int, NEW c \in Int, Day(b) < Day(c)
  PROVE  b < c
<1>1. c <= b => Day(c) <= Day(b)
  BY Ticks, QuotientsInOrder DEF Day
<1>2. Day(b) \in Int /\ Day(c) \in Int
  BY Civil
<1> QED BY <1>1, <1>2

\* The candidate before one of a month or a year is in an earlier one.
LEMMA PreviousMonth ==
  ASSUME NEW s \in Schedules, s.kind \in {"monthly", "yearly"}, NEW c \in Int, OnCalendar(c),
         NEW p, p = PreviousCandidate(s, c), p # None
  PROVE  /\ OnCalendar(p)
         /\ Year(p) < Year(c) \/ (s.kind = "monthly" /\ Year(p) = Year(c) /\ Month(p) < Month(c))
<1>1. OnCalendar(p)
  BY OnCalendarAlways
<1>2. Year(c) \in Int /\ Month(c) \in Int
  BY DateIs DEF OnCalendar, Year, Month
<1>3. CASE s.kind = "yearly"
  <2>1. Year(p) = Year(c) - 1
    BY <1>3, YearlyDateOf DEF PreviousCandidate
  <2> QED BY <1>1, <1>2, <2>1
<1>4. CASE s.kind = "monthly"
  <2> DEFINE date == IF Month(c) = 1 THEN <<Year(c) - 1, Months, s.mday>>
                     ELSE <<Year(c), Month(c) - 1, s.mday>>
  <2>1. p = OnDate(date, s)
    BY <1>4 DEF PreviousCandidate
  <2>2. Dates[Day(p) + 1] = date
    BY <2>1, OnDateFound
  <2>3. CASE Month(c) = 1
    <3>1. Year(p) = Year(c) - 1
      BY <2>2, <2>3 DEF Year
    <3> QED BY <1>1, <1>2, <3>1
  <2>4. CASE Month(c) # 1
    <3>1. Year(p) = Year(c) /\ Month(p) = Month(c) - 1
      BY <2>2, <2>4 DEF Year, Month
    <3> QED BY <1>1, <1>2, <1>4, <3>1
  <2> QED BY <2>3, <2>4
<1> QED BY <1>3, <1>4

\* The candidate before another is earlier than it.
LEMMA PreviousEarlier ==
  ASSUME RegularCalendar, NEW s \in Schedules, NEW c \in Int, Scheduled(s, c),
         s.kind \in {"monthly", "yearly"} => OnCalendar(c), PreviousCandidate(s, c) # None
  PROVE  PreviousCandidate(s, c) \in Int /\ PreviousCandidate(s, c) + Unit(s) <= c
<1> DEFINE p == PreviousCandidate(s, c)
<1>1. p \in Int /\ Scheduled(s, p)
  BY PreviousScheduled
<1>2. SUFFICES p < c
  <2> HIDE DEF p
  <2> QED BY <1>1, UnitApart DEF p
<1>3. CASE s.kind = "frequently"
  BY <1>3, Policies DEF PreviousCandidate
<1>4. CASE s.kind = "hourly"
  BY <1>4, Ticks DEF PreviousCandidate
<1>5. CASE s.kind = "daily"
  BY <1>5, Ticks DEF PreviousCandidate
<1>6. CASE s.kind = "weekly"
  <2>1. WeekDays * DayTicks > 0
    BY Ticks
  <2>2. WeekDays * DayTicks \in Int
    BY Ticks
  <2> QED BY <1>6, <2>1, <2>2 DEF PreviousCandidate
<1>7. CASE s.kind \in {"monthly", "yearly"}
  <2>1. /\ OnCalendar(c) /\ OnCalendar(p)
        /\ Year(p) < Year(c) \/ (Year(p) = Year(c) /\ Month(p) < Month(c))
    BY <1>7, PreviousMonth
  <2> HIDE DEF p
  <2> QED BY <1>1, <2>1, EarlierMonth, EarlierDay
<1> QED BY <1>3, <1>4, <1>5, <1>6, <1>7, Policies DEF Kinds

\* No scheduled time is between a candidate and the one before it, and there is
\* one before it if there is such a time.
LEMMA PreviousIsLast ==
  ASSUME RegularCalendar, NEW s \in Schedules, NEW c \in Int, Scheduled(s, c),
         s.kind \in {"monthly", "yearly"} => OnCalendar(c),
         NEW b \in Int, Scheduled(s, b), OnCalendar(b), b < c
  PROVE  PreviousCandidate(s, c) # None /\ b <= PreviousCandidate(s, c)
<1> DEFINE p == PreviousCandidate(s, c)
<1>1. Unit(s) \in Nat \ {0} /\ None \notin Int /\ b + Unit(s) <= c
  BY Units, Ticks, UnitApart
<1>2. CASE s.kind = "frequently"
  <2>1. p = c - Unit(s)
    BY <1>2, Units DEF PreviousCandidate
  <2> HIDE DEF p
  <2> QED BY <1>1, <2>1 DEF p
<1>3. CASE s.kind = "hourly"
  <2>1. p = c - Unit(s)
    BY <1>3, Units DEF PreviousCandidate
  <2> HIDE DEF p
  <2> QED BY <1>1, <2>1 DEF p
<1>4. CASE s.kind = "daily"
  <2>1. p = c - Unit(s)
    BY <1>4, Units DEF PreviousCandidate
  <2> HIDE DEF p
  <2> QED BY <1>1, <2>1 DEF p
<1>5. CASE s.kind = "weekly"
  <2>1. p = c - WeekDays * DayTicks
    BY <1>5 DEF PreviousCandidate
  <2>2. p \in Int /\ p # None
    <3> HIDE DEF p
    <3> QED BY <2>1, Ticks
  <2>3. Scheduled(s, p)
    BY <2>2, PreviousScheduled
  <2>4. Day(p) = Day(c) - WeekDays /\ Day(b) \in Int /\ Day(c) \in Int
    <3>1. WeekDays \in Int
      BY Ticks
    <3> HIDE DEF p
    <3> QED BY <2>1, <3>1, DaysBefore, Civil
  <2>5. Day(b) % WeekDays = Day(c) % WeekDays /\ Day(b) < Day(c)
    BY <1>5, ScheduledIs, DaysInOrder
  <2>6. Day(b) + WeekDays <= Day(c)
    BY <2>4, <2>5, Ticks, SameRemainder
  <2>7. Day(b) <= Day(p)
    BY <2>4, <2>6, Ticks
  <2> HIDE DEF p
  <2>8. b <= p
    BY <1>5, <2>2, <2>3, <2>7, DaysInOrder
  <2> QED BY <2>2, <2>8 DEF p
<1>6. CASE s.kind \in {"monthly", "yearly"}
  <2> DEFINE i == Day(b) + 1
             j == Day(c) + 1
  <2>1. /\ Day(b) < Day(c) /\ Day(b) \in Int /\ Day(c) \in Int
        /\ OnCalendar(c)
    BY <1>6, DaysInOrder
  <2>2. i \in 1..Len(Dates) /\ j \in 1..Len(Dates) /\ i < j
    BY <2>1 DEF OnCalendar
  <2>3. Dates[i][1] = Year(b) /\ Dates[i][2] = Month(b)
        /\ Dates[j][1] = Year(c) /\ Dates[j][2] = Month(c)
    BY DEF Year, Month
  <2> HIDE DEF i, j
  <2>4. /\ Year(b) \in Int /\ Year(c) \in Int /\ Month(b) \in Int /\ Month(c) \in Int
        /\ Year(b) <= Year(c) /\ Before(Dates[i], Dates[j])
    BY <2>2, <2>3, DateIs, DatesFollow
  <2>5. /\ Months \in Nat /\ Month(b) \in 1..Months /\ Month(c) \in 1..Months
    <3>1. Dates[i][1] \in Dates[i][1]..Dates[j][1] /\ Dates[j][1] \in Dates[j][1]..Dates[j][1]
      BY <2>3, <2>4
    <3> QED BY <2>2, <2>3, <3>1, WholeYears
  <2>6. SUFFICES p # None /\ ~(Day(p) < Day(b))
    <3>1. p # None => p \in Int /\ Scheduled(s, p)
      BY PreviousScheduled
    <3> HIDE DEF p
    <3>2. p # None => Day(p) \in Int
      BY <3>1, Civil
    <3>3. p # None /\ Day(b) <= Day(p) => b <= p
      BY <1>6, <3>1, DaysInOrder
    <3> QED BY <2>1, <3>2, <3>3 DEF p
  <2>7. CASE s.kind = "monthly"
    <3>1. s.mday \in 1..MonthlyDays /\ Dates[i][3] = s.mday /\ Dates[j][3] = s.mday
      BY <2>7, ScheduleAssumption, ScheduledIs DEF Validates, i, j
    <3>2. Year(b) < Year(c) \/ (Year(b) = Year(c) /\ Month(b) < Month(c))
      BY <2>2, <2>3, <2>4, <3>1, DateIs DEF Before
    <3> DEFINE date == IF Month(c) = 1 THEN <<Year(c) - 1, Months, s.mday>>
                       ELSE <<Year(c), Month(c) - 1, s.mday>>
    <3>3. p = OnDate(date, s)
      BY <2>7 DEF PreviousCandidate
    <3>4. date \in Range(Dates)
      <4>1. CASE Month(c) = 1
        <5>1. Year(c) - 1 \in Dates[i][1]..Dates[j][1]
          BY <2>3, <2>4, <2>5, <3>2, <4>1
        <5>2. Months \in 1..Months
          BY <2>5
        <5> QED BY <2>2, <3>1, <4>1, <5>1, <5>2, WholeYears
      <4>2. CASE Month(c) # 1
        <5>1. Year(c) \in Dates[i][1]..Dates[j][1] /\ Month(c) - 1 \in 1..Months
          BY <2>3, <2>4, <2>5, <4>2
        <5> QED BY <2>2, <3>1, <4>2, <5>1, WholeYears
      <4> QED BY <4>1, <4>2
    <3>5. p # None /\ p \in Int /\ OnCalendar(p) /\ Dates[Day(p) + 1] = date
      BY <3>3, <3>4, DateFound
    <3> DEFINE k == Day(p) + 1
    <3>6. k \in 1..Len(Dates) /\ Dates[k] = date /\ Day(p) \in Int
      BY <3>5, Civil DEF OnCalendar
    <3> HIDE DEF p, k
    <3>7. ~ Before(Dates[k], Dates[i])
      <4>0. Dates[i][1] = Year(b) /\ Dates[i][2] = Month(b) /\ Dates[i][3] \in Int
        BY <2>2, <2>3, DateIs
      <4>1. CASE Month(c) = 1
        <5>1. Dates[k][1] = Year(c) - 1 /\ Dates[k][2] = Months /\ Dates[k][3] = s.mday
          BY <3>6, <4>1
        <5> QED BY <2>4, <2>5, <3>1, <3>2, <4>0, <4>1, <5>1 DEF Before
      <4>2. CASE Month(c) # 1
        <5>1. Dates[k][1] = Year(c) /\ Dates[k][2] = Month(c) - 1 /\ Dates[k][3] = s.mday
          BY <3>6, <4>2
        <5> QED BY <2>4, <2>5, <3>1, <3>2, <4>0, <4>2, <5>1 DEF Before
      <4> QED BY <4>1, <4>2
    <3>8. i <= k
      BY <2>2, <3>6, <3>7, DatesInOrder
    <3> QED BY <2>1, <3>5, <3>6, <3>8 DEF i, k
  <2>8. CASE s.kind = "yearly"
    <3>1. Year(b) # Year(c)
      BY <2>1, <2>8, OneInYear
    <3>2. Year(c) - 1 \in Dates[i][1]..Dates[j][1]
      BY <2>3, <2>4, <3>1
    <3>3. p = YearlyDate(Year(c) - 1, s)
      BY <2>8 DEF PreviousCandidate
    <3>4. p # None /\ p \in Int /\ OnCalendar(p) /\ Year(p) = Year(c) - 1
      <4> HIDE DEF p
      <4> QED BY <2>2, <2>8, <3>2, <3>3, EveryYear
    <3>5. Scheduled(s, p)
      BY <3>4, PreviousScheduled
    <3> HIDE DEF p
    <3>6. Day(p) \in Int
      BY <3>4, Civil
    <3>7. CASE Year(b) = Year(p)
      <4>1. Day(b) = Day(p)
        BY <2>8, <3>4, <3>5, <3>7, OneInYear
      <4> QED BY <2>1, <3>4, <4>1
    <3>8. CASE Year(b) # Year(p)
      <4>1. Year(b) < Year(p)
        BY <2>4, <3>1, <3>4, <3>8
      <4>2. Day(b) < Day(p)
        BY <3>4, <4>1, EarlierMonth
      <4> QED BY <2>1, <3>4, <3>6, <4>2
    <3> QED BY <3>7, <3>8
  <2> QED BY <1>6, <2>7, <2>8
<1> QED BY <1>2, <1>3, <1>4, <1>5, <1>6, Policies DEF Kinds

\* At the latest the second candidate is not after the civil time itself.
LEMMA SecondPassed ==
  ASSUME RegularCalendar, NEW s \in Schedules, NEW x \in Int, OnCalendar(x),
         FirstCandidate(s, x) # None, PreviousCandidate(s, FirstCandidate(s, x)) # None
  PROVE  /\ PreviousCandidate(s, FirstCandidate(s, x)) <= x
         /\ s.kind = "frequently" => FirstCandidate(s, x) <= x
<1> DEFINE c == FirstCandidate(s, x)
           p == PreviousCandidate(s, c)
<1>1. c \in Int /\ Scheduled(s, c) /\ (s.kind \in {"monthly", "yearly"} => OnCalendar(c))
  BY FirstScheduled, OnCalendarAlways
<1>2. p \in Int /\ p + Unit(s) <= c /\ Scheduled(s, p)
  <2> HIDE DEF c
  <2> QED BY <1>1, PreviousEarlier, PreviousScheduled DEF c
<1>3. CASE s.kind = "frequently"
  <2>1. c = x - (x % s.period)
    BY <1>3, PeriodOfHour DEF FirstCandidate
  <2> DEFINE u == s.period
  <2>2. u \in Nat \ {0} /\ Unit(s) = u
    BY <1>3, Policies, Units
  <2> HIDE DEF u, p, c
  <2>3. x % u >= 0 /\ x % u \in Int
    BY <2>2
  <2> DEFINE r == x % u
  <2>4. c = x - r /\ r \in Nat
    BY <2>1, <2>3 DEF u
  <2> HIDE DEF r
  <2> QED BY <1>2, <2>2, <2>4 DEF p, c
<1>4. CASE s.kind = "hourly"
  <2>1. c = x - (x % HourTicks) + s.min
    BY <1>4 DEF FirstCandidate, Minute
  <2>2. HourTicks \in Nat \ {0} /\ Unit(s) = HourTicks /\ s.min \in 0..(HourTicks - 1)
    BY <1>4, Ticks, Policies, Units
  <2>3. x % HourTicks \in Nat
    BY <2>2
  <2> HIDE DEF p, c
  <2> DEFINE r == x % HourTicks
  <2>4. c = x - r + s.min /\ r \in Nat
    BY <2>1, <2>3
  <2> HIDE DEF r
  <2> QED BY <1>2, <1>4, <2>2, <2>4 DEF p, c
<1>5. CASE s.kind \in DayKinds
  <2>1. p < c
    <3> HIDE DEF p, c
    <3> QED BY <1>1, <1>2, Units
  <2>2. SUFFICES Day(p) < Day(x)
    <3> HIDE DEF p
    <3>1. p < x
      BY <1>2, <2>2, EarlierDay
    <3> QED BY <1>2, <1>5, <3>1 DEF p, DayKinds
  <2>3. CASE s.kind \in {"daily", "weekly"}
    <3>1. Day(c) <= Day(x) /\ Day(x) \in Int
      BY <2>3, FirstDay
    <3>2. Day(p) < Day(c) /\ Day(p) \in Int /\ Day(c) \in Int
      <4> HIDE DEF p, c
      <4> QED BY <1>1, <1>2, <2>1, <2>3, DaysInOrder
    <3> QED BY <3>1, <3>2
  <2>4. CASE s.kind \in {"monthly", "yearly"}
    <3>1. OnCalendar(c)
      BY <1>1, <2>4
    <3>2. /\ OnCalendar(p)
          /\ Year(p) < Year(c) \/ (s.kind = "monthly" /\ Year(p) = Year(c) /\ Month(p) < Month(c))
      BY <1>1, <2>4, <3>1, PreviousMonth
    <3>3. Year(c) = Year(x) /\ (s.kind = "monthly" => Month(c) = Month(x))
      <4>1. CASE s.kind = "yearly"
        BY <4>1, YearlyDateOf DEF FirstCandidate
      <4>2. CASE s.kind = "monthly"
        <5>1. c = OnDate(<<Year(x), Month(x), s.mday>>, s)
          BY <4>2 DEF FirstCandidate
        <5>2. Dates[Day(c) + 1] = <<Year(x), Month(x), s.mday>>
          BY <5>1, OnDateFound
        <5> HIDE DEF c
        <5>3. Year(c) = Year(x) /\ Month(c) = Month(x)
          BY <5>2 DEF Year, Month
        <5> QED BY <5>3
      <4> QED BY <2>4, <4>1, <4>2
    <3> HIDE DEF p, c
    <3> QED BY <1>2, <3>2, <3>3, EarlierMonth
  <2> QED BY <1>5, <2>3, <2>4 DEF DayKinds
<1> QED BY <1>3, <1>4, <1>5, Policies DEF Kinds, DayKinds

-----------------------------------------------------------------------------
(* The names of snapshots *)

\* Two instants that show one civil time are all that do, and the later of the
\* two is the greater.
LEMMA TwoPasses ==
  ASSUME NEW z \in Zones, NEW i \in Int, NEW j \in Int, i < j, NEW c,
         i + Offset(z, i) = c, j + Offset(z, j) = c
  PROVE  Cardinality(Instants(z, c)) = 2 /\ Max(Instants(z, c)) = j
<1>1. z.shift \in Int /\ Offset(z, i) \in {0, z.shift} /\ Offset(z, j) \in {0, z.shift}
  BY ScheduleAssumption DEF Offset
<1>2. c \in Int /\ i \in {c, c - z.shift} /\ j \in {c, c - z.shift}
  BY <1>1
<1>3. Instants(z, c) = {i, j}
  <2>1. {c, c - z.shift} = {i, j}
    BY <1>2
  <2> QED BY <2>1 DEF Instants
<1>4. Cardinality({i, j}) = 2
  <2>1. IsFiniteSet({i}) /\ Cardinality({i}) = 1
    BY FS_Singleton
  <2>2. j \notin {i}
    OBVIOUS
  <2>3. Cardinality({i} \cup {j}) = Cardinality({i}) + 1
    BY <2>1, <2>2, FS_AddElement
  <2>4. {i, j} = {i} \cup {j}
    OBVIOUS
  <2> QED BY <2>1, <2>3, <2>4
<1>5. Max({i, j}) = j
  <2>1. j \in {i, j} /\ \A y \in {i, j} : j >= y
    OBVIOUS
  <2>2. \A x \in {i, j} : (\A y \in {i, j} : x >= y) => x = j
    OBVIOUS
  <2> QED BY <2>1, <2>2 DEF Max
<1> QED BY <1>3, <1>4, <1>5

\* A civil time that comes twice is named with a suffix at its second pass, so no
\* two snapshots of a class have one name, however the clocks move.
THEOREM NamesNeverClash == ScheduleSpec => []NamesDistinct
<1>1. Planned => NamesDistinct
  <2> SUFFICES ASSUME Planned, NEW t \in (now - DayTicks)..(now - 1),
                      SnapshotTimestamp(zone, t) = SnapshotTimestamp(zone, now)
               PROVE  FALSE
    BY DEF NamesDistinct
  <2>1. zone \in Zones /\ now \in Int /\ t \in Int /\ t < now
    BY ScheduleAssumption DEF Planned, DayTicks
  <2> DEFINE c == now + Offset(zone, now)
  <2>2. t + Offset(zone, t) = c
    BY DEF SnapshotTimestamp
  <2>3. Cardinality(Instants(zone, c)) = 2 /\ Max(Instants(zone, c)) = now
    BY <2>1, <2>2, TwoPasses
  <2>4. SnapshotTimestamp(zone, now) = <<c, "dst">>
    BY <2>3 DEF SnapshotTimestamp
  <2>5. SnapshotTimestamp(zone, t) = <<c, "">>
    BY <2>1, <2>2, <2>3 DEF SnapshotTimestamp
  <2>6. <<c, "dst">> # <<c, "">>
    OBVIOUS
  <2> QED BY <2>4, <2>5, <2>6
<1> QED BY <1>1, PlannedAlways, PTL

-----------------------------------------------------------------------------
(* What a scheduled civil time stands for: the instants that show it, or,   *)
(* when the zone skips it, the instant that shows it a gap later.           *)

\* How far the clocks move.
Size(z) == IF z.shift < 0 THEN -z.shift ELSE z.shift

\* What the clocks show for a civil time.
Shows(z, c) == IF c \in Skipped(z) THEN c + Size(z) ELSE c

\* Two transitions are farther apart than the clocks move.
LEMMA ZoneSizes ==
  ASSUME NEW z \in Zones
  PROVE  /\ z.shift \in Int /\ z.from \in Nat /\ z.until \in Nat
         /\ Size(z) = (IF z.shift < 0 THEN -z.shift ELSE z.shift) /\ Size(z) \in Nat
         /\ z.from < z.until => 2 * Size(z) <= z.until - z.from
<1>1. /\ z.shift \in Int /\ z.from \in Nat /\ z.until \in Nat
      /\ z.from < z.until => 2 * z.shift <= z.until - z.from /\ -2 * z.shift <= z.until - z.from
  BY ScheduleAssumption
<1> QED BY <1>1 DEF Size

\* Size is the larger of a shift and its opposite.
LEMMA SizeIs ==
  ASSUME NEW z \in Zones
  PROVE  Max({z.shift, -z.shift}) = Size(z)
<1>1. z.shift \in Int
  BY ZoneSizes
<1> DEFINE S == {z.shift, -z.shift}
           most == IF z.shift < 0 THEN -z.shift ELSE z.shift
<1>2. most \in S /\ \A y \in S : most >= y
  BY <1>1
<1>3. \A x \in S : (\A y \in S : x >= y) => x = most
  BY <1>1
<1> HIDE DEF S, most
<1>4. Max(S) = most
  BY <1>2, <1>3 DEF Max
<1> QED BY <1>4 DEF Size, S, most

\* The civil times that a zone skips, as a condition.
LEMMA SkippedIs ==
  ASSUME NEW z \in Zones, NEW c \in Int
  PROVE  c \in Skipped(z) <=> /\ z.from < z.until
                              /\ \/ z.shift > 0 /\ z.from <= c /\ c < z.from + z.shift
                                 \/ z.shift <= 0 /\ z.until + z.shift <= c /\ c < z.until
BY ZoneSizes DEF Skipped

\* A time is found for every candidate when the gap is within the scan.
LEMMA ShownIs ==
  ASSUME NEW z \in Zones, NEW c \in Int, z.from < z.until => Size(z) <= ScanTicks
  PROVE  Shown(z, c) # None /\ Shown(z, c) = Shows(z, c) /\ Shows(z, c) \in Int
<1>1. CASE c \notin Skipped(z)
  BY <1>1, SkippedTimes, Ticks DEF Shown, Shows
<1>2. CASE c \in Skipped(z)
  <2> DEFINE S == Size(z)
  <2>0. ScanTicks \in Nat
    BY ScheduleAssumption
  <2>1. S \in 1..ScanTicks
    <3>1. z.from < z.until /\ z.shift # 0
      BY <1>2, ZoneSizes, SkippedIs
    <3> QED BY <2>0, <3>1, ZoneSizes
  <2>2. c + S \in Int /\ c - S \in Int
    BY <2>1
  <2>3. c + S \notin Skipped(z) /\ c - S \notin Skipped(z)
    BY <1>2, <2>1, <2>2, ZoneSizes, SkippedIs
  <2> HIDE DEF S
  <2>4. Instants(z, c + 1 * S) # {} /\ Instants(z, c + (-1) * S) # {}
    <3>1. c + 1 * S = c + S /\ c + (-1) * S = c - S
      BY <2>1
    <3> QED BY <2>2, <2>3, <3>1, SkippedTimes
  <2> DEFINE distances(sign) == {d \in 1..ScanTicks : Instants(z, c + sign * d) # {}}
             gap == Min(distances(1)) + Min(distances(-1)) - 1
  <2>5. distances(1) # {} /\ distances(-1) # {}
    BY <2>1, <2>4
  <2>6. NormalizeNonexistent(z, c) = IF gap <= 0 THEN None ELSE c + gap
    BY <2>5 DEF NormalizeNonexistent
  <2>7. gap \in Nat \ {0}
    <3>1. ASSUME NEW T, T \subseteq 1..ScanTicks, T # {} PROVE Min(T) \in Nat \ {0}
      <4>1. T \subseteq Nat
        BY <2>0, <3>1
      <4>2. Min(T) \in T
        BY <3>1, <4>1, MinIsLeast
      <4>3. Min(T) \in 1..ScanTicks
        BY <3>1, <4>2
      <4> QED BY <2>0, <4>3
    <3>2. distances(1) \subseteq 1..ScanTicks /\ distances(-1) \subseteq 1..ScanTicks
      OBVIOUS
    <3> HIDE DEF distances
    <3> QED BY <2>5, <3>1, <3>2
  <2> HIDE DEF gap
  <2>8. NormalizeNonexistent(z, c) # None
    BY <2>6, <2>7, Ticks
  <2>9. NormalizeNonexistent(z, c) = c + S
    BY <1>2, <2>8, SkippedForward, ZoneSizes DEF S
  <2> QED BY <1>2, <2>2, <2>8, <2>9, SkippedTimes DEF Shown, Shows, S
<1> QED BY <1>1, <1>2

\* What the planner finds for a candidate: the last instant up to t that shows
\* its time.
LEMMA FoundIs ==
  ASSUME NEW z \in Zones, NEW c \in Int, NEW t \in Int,
         z.from < z.until => Size(z) <= ScanTicks
  PROVE  \/ /\ ResolveBoundary(z, c, t) = None
            /\ \A u \in Int : u + Offset(z, u) = Shows(z, c) => u > t
         \/ /\ ResolveBoundary(z, c, t) \in Int /\ ResolveBoundary(z, c, t) <= t
            /\ ResolveBoundary(z, c, t) + Offset(z, ResolveBoundary(z, c, t)) = Shows(z, c)
            /\ \A u \in Int : u + Offset(z, u) = Shows(z, c) /\ u <= t
                                => u <= ResolveBoundary(z, c, t)
<1> DEFINE stands(u) == IF c \in Skipped(z) THEN u + Behind(z) = c ELSE u + Offset(z, u) = c
           found == ResolveBoundary(z, c, t)
<1>1. \A u \in Int : stands(u) <=> u + Offset(z, u) = Shows(z, c)
  <2>1. SUFFICES ASSUME NEW u \in Int PROVE stands(u) <=> u + Offset(z, u) = Shows(z, c)
    OBVIOUS
  <2> QED BY ZoneOffsets, ZoneSizes, SkippedIs, BehindIs DEF Shows
<1>2. \/ found = None /\ \A u \in Int : stands(u) => u > t
      \/ /\ found \in Int /\ found <= t /\ stands(found)
         /\ \A u \in Int : stands(u) /\ u <= t => u <= found
  BY ShownIs, ResolvedIs
<1> HIDE DEF stands, found
<1>3. QED BY <1>1, <1>2 DEF found

-----------------------------------------------------------------------------
(* The clock of a zone: it shows later times at later instants, but where   *)
(* it is put back.                                                          *)

\* The instant at which the clock is put back.
PutBack(z) == IF z.shift > 0 THEN z.until ELSE z.from

\* The clocks do move.
Shifts(z) == z.from < z.until /\ z.shift # 0

\* The clock goes back only at PutBack, among the times that it repeats.
LEMMA ClockRuns ==
  ASSUME NEW z \in Zones, NEW w \in Int, NEW u \in Int, w < u,
         u + Offset(z, u) <= w + Offset(z, w)
  PROVE  /\ Shifts(z) /\ w < PutBack(z) /\ PutBack(z) <= u
         /\ w + Offset(z, w) \in Repeated(z) /\ u + Offset(z, u) \in Repeated(z)
<1>1. /\ z.shift \in Int /\ z.from \in Nat /\ z.until \in Nat
      /\ Offset(z, w) = IF z.from <= w /\ w < z.until THEN z.shift ELSE 0
      /\ Offset(z, u) = IF z.from <= u /\ u < z.until THEN z.shift ELSE 0
  BY ZoneOffsets
<1>2. w + Offset(z, w) \in Int /\ u + Offset(z, u) \in Int
  BY <1>1
<1>3. Shifts(z) /\ w < PutBack(z) /\ PutBack(z) <= u
  BY <1>1 DEF PutBack, Shifts
<1> DEFINE x == w + Offset(z, w)
           y == u + Offset(z, u)
<1>4. x \in Repeated(z) /\ y \in Repeated(z)
  <2>1. CASE z.shift > 0
    <3>1. /\ z.until <= x /\ x < z.until + z.shift
          /\ z.until <= y /\ y < z.until + z.shift
      BY <1>1, <1>3, <2>1 DEF PutBack
    <3> HIDE DEF x, y
    <3> QED BY <1>1, <1>2, <2>1, <3>1 DEF Repeated, x, y
  <2>2. CASE ~(z.shift > 0)
    <3>1. /\ z.from + z.shift <= x /\ x < z.from
          /\ z.from + z.shift <= y /\ y < z.from
      BY <1>1, <1>3, <2>2, ZoneSizes DEF PutBack
    <3> HIDE DEF x, y
    <3> QED BY <1>1, <1>2, <2>2, <3>1 DEF Repeated, x, y
  <2> QED BY <2>1, <2>2
<1> QED BY <1>3, <1>4

\* A clock never shows a skipped time, and a skipped time goes forward to one
\* that is not repeated.
LEMMA SkippedShows ==
  ASSUME NEW z \in Zones, NEW c \in Int
  PROVE  /\ c + Offset(z, c) \notin Skipped(z)
         /\ Shows(z, c) \in Int /\ Shows(z, c) \notin Skipped(z)
         /\ c \in Skipped(z) => Shifts(z) /\ Shows(z, c) \notin Repeated(z)
<1> DEFINE skipped(d) ==
      /\ z.from < z.until
      /\ \/ z.shift > 0 /\ z.from <= d /\ d < z.from + z.shift
         \/ z.shift <= 0 /\ z.until + z.shift <= d /\ d < z.until
<1>1. /\ z.shift \in Int /\ z.from \in Nat /\ z.until \in Nat
      /\ Offset(z, c) = IF z.from <= c /\ c < z.until THEN z.shift ELSE 0
  BY ZoneOffsets
<1>2. /\ Size(z) = (IF z.shift < 0 THEN -z.shift ELSE z.shift) /\ Size(z) \in Nat
      /\ z.from < z.until => 2 * Size(z) <= z.until - z.from
  BY ZoneSizes
<1>3. \A d \in Int : d \in Skipped(z) <=> skipped(d)
  BY SkippedIs
<1> DEFINE x == c + Offset(z, c)
<1>4. x \in Int /\ ~ skipped(x)
  BY <1>1, <1>2
<1>5. Shows(z, c) = IF skipped(c) THEN c + Size(z) ELSE c
  BY <1>3 DEF Shows
<1>6. Shows(z, c) \in Int /\ ~ skipped(Shows(z, c))
  BY <1>1, <1>2, <1>5
<1>7. skipped(c) => Shifts(z) /\ Shows(z, c) \notin Repeated(z)
  <2>1. SUFFICES ASSUME skipped(c) PROVE Shifts(z) /\ Shows(z, c) \notin Repeated(z)
    OBVIOUS
  <2>2. Shows(z, c) = c + Size(z) /\ c + Size(z) \in Int
    BY <1>2, <1>5, <2>1
  <2>3. Shifts(z)
    BY <1>1, <2>1 DEF Shifts
  <2>4. CASE z.shift > 0
    <3>1. c + Size(z) < z.until
      BY <1>1, <1>2, <2>1, <2>4
    <3> QED BY <1>1, <2>2, <2>3, <2>4, <3>1 DEF Repeated
  <2>5. CASE ~(z.shift > 0)
    <3>1. c + Size(z) >= z.from
      BY <1>1, <1>2, <2>1, <2>5
    <3> QED BY <1>1, <2>2, <2>3, <2>5, <3>1 DEF Repeated
  <2> QED BY <2>3, <2>4, <2>5
<1> HIDE DEF skipped, x
<1> QED BY <1>3, <1>4, <1>6, <1>7 DEF x

\* The clock has shown every time before the one that it shows.
LEMMA ClockShows ==
  ASSUME NEW z \in Zones, NEW c \in Int, NEW t \in Int,
         c \notin Skipped(z), c <= t + Offset(z, t)
  PROVE  \E w \in Int : w <= t /\ w + Offset(z, w) = c
<1>1. /\ z.shift \in Int /\ z.from \in Nat /\ z.until \in Nat
      /\ Offset(z, t) = IF z.from <= t /\ t < z.until THEN z.shift ELSE 0
  BY ZoneOffsets
<1>2. ~ /\ z.from < z.until
        /\ \/ z.shift > 0 /\ z.from <= c /\ c < z.from + z.shift
           \/ z.shift <= 0 /\ z.until + z.shift <= c /\ c < z.until
  BY SkippedIs
<1>3. z.from < z.until => 2 * z.shift <= z.until - z.from /\ -2 * z.shift <= z.until - z.from
  BY <1>1, ZoneSizes
<1> DEFINE w == IF z.from <= c /\ c - z.shift < z.until /\ z.from <= c - z.shift
                THEN c - z.shift ELSE c
<1>4. w \in Int
  BY <1>1
<1>5. Offset(z, w) = IF z.from <= w /\ w < z.until THEN z.shift ELSE 0
  <2> HIDE DEF w
  <2> QED BY <1>4, ZoneOffsets
<1>6. w <= t /\ w + Offset(z, w) = c
  BY <1>1, <1>2, <1>3, <1>5
<1> HIDE DEF w
<1> QED BY <1>4, <1>6

-----------------------------------------------------------------------------
(* Boundaries and the scheduled times that they stand for *)

\* The clocks move by whole periods.
ByPeriods(z, s) ==
  s.kind = "frequently" /\ \A n \in {z.shift, z.from, z.until} : n % s.period = 0

\* The clocks move within one unit, by half of it at most, or by the hour.
InUnit(z, s) ==
  /\ \A c, d \in Repeated(z) : c \div Unit(s) = d \div Unit(s)
  /\ 2 * Size(z) <= Unit(s) \/ (s.kind = "hourly" /\ Size(z) = HourTicks)

\* What is assumed of a zone whose clocks do move.
LEMMA UndisturbedIs ==
  ASSUME NEW z \in Zones, NEW s \in Schedules, Undisturbed(z, s), Shifts(z)
  PROVE  Size(z) <= z.from /\ Size(z) <= ScanTicks /\ (ByPeriods(z, s) \/ InUnit(z, s))
<1>1. z.shift # 0 /\ ~(z.until <= z.from)
  BY ZoneSizes DEF Shifts
<1> QED BY <1>1, SizeIs DEF Undisturbed, ByPeriods, InUnit

\* Numbers that a period divides.
LEMMA Divides ==
  ASSUME NEW p \in Nat \ {0}, NEW m \in Int, m % p = 0
  PROVE  /\ (-m) % p = 0
         /\ \A b \in Int : b % p = 0 => (b + m) % p = 0
<1>1. \A b \in Int : b % p = 0 => b = p * (b \div p) /\ b \div p \in Int
  BY Division
<1>2. \A q \in Int : (p * q) % p = 0
  <2>1. SUFFICES ASSUME NEW q \in Int PROVE (p * q) % p = 0
    OBVIOUS
  <2>2. 0 \in 0..(p - 1) /\ p * q + 0 = p * q
    OBVIOUS
  <2> QED BY <2>2, Divided
<1> DEFINE q == m \div p
<1>3. q \in Int /\ m = p * q
  BY <1>1
<1> HIDE DEF q
<1>4. -m = p * (-q) /\ -q \in Int
  BY <1>3
<1>5. (-m) % p = 0
  BY <1>2, <1>4
<1>6. ASSUME NEW b \in Int, b % p = 0 PROVE (b + m) % p = 0
  <2> DEFINE r == b \div p
  <2>1. r \in Int /\ b = p * r
    BY <1>1, <1>6
  <2> HIDE DEF r
  <2>2. b + m = p * (q + r) /\ q + r \in Int
    BY <1>3, <2>1
  <2> QED BY <1>2, <2>2
<1> QED BY <1>5, <1>6

\* A gap later the same schedule asks again.
SameAfterGap(z, s) == ByPeriods(z, s) \/ (s.kind = "hourly" /\ Size(z) = HourTicks)

\* Such a schedule asks for a skipped time and for the one shown instead.
LEMMA ScheduledAfterGap ==
  ASSUME NEW z \in Zones, NEW s \in Schedules, SameAfterGap(z, s),
         NEW b \in Int, Scheduled(s, b)
  PROVE  Scheduled(s, b + Size(z))
<1>1. Size(z) \in Nat /\ z.shift \in Int /\ Size(z) = (IF z.shift < 0 THEN -z.shift ELSE z.shift)
  BY ZoneSizes
<1>2. CASE ByPeriods(z, s)
  <2> DEFINE p == s.period
             n == Size(z)
  <2>1. p \in Nat \ {0} /\ n \in Nat
    BY <1>1, Policies
  <2>2. b % p = 0
    BY <1>2, ScheduledIs DEF ByPeriods
  <2>3. n % p = 0
    <3>1. z.shift % p = 0 /\ z.shift \in Int
      BY <1>1, <1>2 DEF ByPeriods
    <3>2. n = z.shift \/ n = -z.shift
      BY <1>1
    <3> HIDE DEF p, n
    <3> QED BY <2>1, <3>1, <3>2, Divides
  <2> HIDE DEF p, n
  <2>4. n \in Int /\ b + n \in Int
    BY <2>1
  <2>5. (b + n) % p = 0
    BY <2>1, <2>2, <2>3, <2>4, Divides
  <2>6. Minute(b + n) % s.period = 0
    BY <2>4, <2>5, PeriodOfHour DEF p
  <2> QED BY <1>2, <2>6 DEF ByPeriods, Scheduled, n
<1>3. CASE s.kind = "hourly" /\ Size(z) = HourTicks
  <2>1. b % HourTicks = s.min
    BY <1>3, ScheduledIs
  <2>2. (b + HourTicks) % HourTicks = s.min
    BY <2>1, Ticks, WholeUnits
  <2> QED BY <1>3, <2>2 DEF Scheduled, Minute
<1> QED BY <1>2, <1>3 DEF SameAfterGap

\* The clock shows at u what it shows for the scheduled time b.
StandsFor(z, s, b, u) ==
  /\ b \in Int /\ Scheduled(s, b) /\ u + Offset(z, u) = Shows(z, b)
  /\ SameAfterGap(z, s) => b \notin Skipped(z)

\* Every boundary stands for a scheduled time that is no later on the clock.
LEMMA BoundaryStands ==
  ASSUME NEW z \in Zones, NEW s \in Schedules, Undisturbed(z, s),
         NEW u \in Nat, IsBoundary(z, s, u)
  PROVE  \E b \in Nat : StandsFor(z, s, b, u) /\ b <= u + Offset(z, u)
<1> DEFINE x == u + Offset(z, u)
<1>1. x \in Int /\ x \notin Skipped(z)
  BY ZoneOffsets, SkippedShows
<1>2. x \in Nat
  <2>1. Shifts(z) => Size(z) <= z.from
    BY UndisturbedIs
  <2>2. /\ z.shift \in Int /\ z.from \in Nat /\ z.until \in Nat
        /\ Offset(z, u) = IF z.from <= u /\ u < z.until THEN z.shift ELSE 0
        /\ Size(z) = (IF z.shift < 0 THEN -z.shift ELSE z.shift)
    BY ZoneOffsets, ZoneSizes
  <2> QED BY <2>1, <2>2 DEF Shifts
<1>3. ASSUME Scheduled(s, x) PROVE StandsFor(z, s, x, u)
  BY <1>1, <1>3 DEF StandsFor, Shows
<1>4. CASE Scheduled(s, x)
  BY <1>2, <1>3, <1>4
<1>5. CASE ~ Scheduled(s, x)
  <2> DEFINE b == u + Behind(z)
  <2>1. /\ z.shift \in Int /\ z.from \in Nat /\ z.until \in Nat
        /\ Offset(z, u) = IF z.from <= u /\ u < z.until THEN z.shift ELSE 0
        /\ Size(z) = (IF z.shift < 0 THEN -z.shift ELSE z.shift)
        /\ z.from < z.until => 2 * Size(z) <= z.until - z.from
        /\ Behind(z) = IF z.shift < 0 THEN z.shift ELSE 0
    BY ZoneOffsets, ZoneSizes, BehindIs
  <2>2. b \in Int
    BY <2>1
  <2>3. b \in Skipped(z) /\ Scheduled(s, b)
    BY <1>5, <2>2, SkippedTimes DEF IsBoundary
  <2>4. /\ z.from < z.until
        /\ \/ z.shift > 0 /\ z.from <= b /\ b < z.from + z.shift
           \/ z.shift <= 0 /\ z.until + z.shift <= b /\ b < z.until
    BY <2>2, <2>3, SkippedIs
  <2>5. x = b + Size(z) /\ b \in Nat /\ b <= x
    BY <2>1, <2>2, <2>4
  <2>6. ~ SameAfterGap(z, s)
    BY <1>5, <2>2, <2>3, <2>5, ScheduledAfterGap
  <2>7. StandsFor(z, s, b, u)
    BY <2>2, <2>3, <2>5, <2>6 DEF StandsFor, Shows
  <2> QED BY <2>5, <2>7
<1> QED BY <1>4, <1>5

\* A candidate that is not before the scheduled time of a boundary is not found
\* before that boundary.
LEMMA FoundInOrder ==
  ASSUME NEW z \in Zones, NEW s \in Schedules, Undisturbed(z, s), NEW t \in Int,
         NEW u \in Int, u <= t, NEW b, StandsFor(z, s, b, u),
         NEW c \in Int, Scheduled(s, c), b <= c,
         s.kind = "frequently" => c <= t + Offset(z, t),
         NEW w \in Int, w <= t, w + Offset(z, w) = Shows(z, c),
         \A v \in Int : v + Offset(z, v) = Shows(z, c) /\ v <= t => v <= w
  PROVE  u <= w
<1> SUFFICES ASSUME w < u PROVE FALSE
  OBVIOUS
<1>1. /\ b \in Int /\ Scheduled(s, b) /\ u + Offset(z, u) = Shows(z, b)
      /\ SameAfterGap(z, s) => b \notin Skipped(z)
  BY DEF StandsFor
<1>2. Shows(z, b) \in Int /\ Shows(z, c) \in Int
  BY <1>1, SkippedShows
<1>3. CASE Shows(z, b) = Shows(z, c)
  BY <1>1, <1>3
<1>4. CASE Shows(z, b) < Shows(z, c)
  <2>1. /\ Shifts(z) /\ w < PutBack(z) /\ PutBack(z) <= u
        /\ Shows(z, b) \in Repeated(z) /\ Shows(z, c) \in Repeated(z)
    <3>1. u + Offset(z, u) <= w + Offset(z, w)
      BY <1>1, <1>2, <1>4
    <3>2. /\ Shifts(z) /\ w < PutBack(z) /\ PutBack(z) <= u
          /\ w + Offset(z, w) \in Repeated(z) /\ u + Offset(z, u) \in Repeated(z)
      BY <3>1, ClockRuns
    <3> QED BY <1>1, <3>2
  <2>2. Shows(z, b) = b /\ Shows(z, c) = c
    BY <1>1, <2>1, SkippedShows DEF Shows
  <2>3. CASE InUnit(z, s)
    <3>1. b = c
      BY <1>1, <2>1, <2>2, <2>3, OneInUnit DEF InUnit
    <3> QED BY <1>2, <1>4, <3>1
  <2>4. CASE ByPeriods(z, s)
    <3> DEFINE v == IF z.shift > 0 THEN c ELSE c - z.shift
    <3>1. c <= t + Offset(z, t)
      BY <2>4 DEF ByPeriods
    <3>2. /\ z.shift \in Int /\ z.from \in Nat /\ z.until \in Nat
          /\ Offset(z, t) = IF z.from <= t /\ t < z.until THEN z.shift ELSE 0
          /\ Size(z) = (IF z.shift < 0 THEN -z.shift ELSE z.shift)
          /\ z.from < z.until /\ 2 * Size(z) <= z.until - z.from /\ z.shift # 0
      BY <2>1, ZoneOffsets, ZoneSizes DEF Shifts
    <3>3. v \in Int /\ v <= t /\ PutBack(z) <= v /\ v + Offset(z, v) = c
      <4>1. v \in Int
        BY <3>2
      <4>2. Offset(z, v) = IF z.from <= v /\ v < z.until THEN z.shift ELSE 0
        <5> HIDE DEF v
        <5> QED BY <4>1, ZoneOffsets
      <4>3. CASE z.shift > 0
        <5>1. z.until <= c /\ c < z.until + z.shift /\ z.until <= u
          BY <2>1, <2>2, <3>2, <4>3 DEF Repeated, PutBack
        <5> QED BY <3>1, <3>2, <4>2, <4>3, <5>1 DEF PutBack
      <4>4. CASE z.shift < 0
        <5>1. z.from + z.shift <= c /\ c < z.from /\ z.from <= u
          BY <2>1, <2>2, <3>2, <4>4 DEF Repeated, PutBack
        <5> QED BY <3>1, <3>2, <4>1, <4>2, <4>4, <5>1 DEF PutBack
      <4> QED BY <3>2, <4>3, <4>4
    <3> HIDE DEF v
    <3>4. v <= w
      BY <2>2, <3>3
    <3>5. PutBack(z) \in Int
      BY <3>2 DEF PutBack
    <3> QED BY <2>1, <3>3, <3>4, <3>5
  <2> QED BY <2>1, <2>3, <2>4, UndisturbedIs
<1>5. CASE Shows(z, c) < Shows(z, b)
  <2>1. Size(z) \in Nat
    BY ZoneSizes
  <2>2. b \in Skipped(z) /\ b < c /\ c < b + Size(z)
    BY <1>1, <1>5, <2>1 DEF Shows
  <2>3. Shifts(z) /\ InUnit(z, s) /\ ~(s.kind = "hourly" /\ Size(z) = HourTicks)
    BY <1>1, <2>2, SkippedShows, UndisturbedIs DEF SameAfterGap
  <2>4. b + Unit(s) <= c /\ Unit(s) \in Nat
    BY <1>1, <2>2, UnitApart, Units
  <2> QED BY <1>1, <2>1, <2>2, <2>3, <2>4 DEF InUnit
<1> QED BY <1>2, <1>3, <1>4, <1>5

\* A boundary, or one after it, stands for a scheduled time of the present unit
\* or before it.
LEMMA BoundaryBefore ==
  ASSUME NEW z \in Zones, NEW s \in Schedules, Undisturbed(z, s), NEW t \in Nat,
         NEW u \in 0..t, IsBoundary(z, s, u)
  PROVE  \E v \in u..t, b \in Nat : /\ StandsFor(z, s, b, v) /\ b <= v + Offset(z, v)
                                    /\ b \div Unit(s) <= (t + Offset(z, t)) \div Unit(s)
<1> DEFINE x == t + Offset(z, t)
           y == u + Offset(z, u)
<1>1. PICK b \in Nat : StandsFor(z, s, b, u) /\ b <= y
  BY BoundaryStands
<1>2. x \in Int /\ y \in Int
  BY ZoneOffsets
<1>3. Unit(s) \in Nat \ {0}
  BY Units
<1>4. CASE b <= x
  <2>1. b \div Unit(s) <= x \div Unit(s)
    <3> HIDE DEF x
    <3> QED BY <1>2, <1>3, <1>4, QuotientsInOrder
  <2> QED BY <1>1, <2>1
<1>5. CASE x < b
  <2>1. x < y /\ u < t
    BY <1>1, <1>2, <1>5
  <2>2. /\ Shifts(z) /\ u < PutBack(z) /\ PutBack(z) <= t
        /\ y \in Repeated(z) /\ x \in Repeated(z)
    <3>1. u \in Int /\ t \in Int /\ u < t /\ t + Offset(z, t) <= u + Offset(z, u)
      BY <1>2, <2>1
    <3> QED BY <3>1, ClockRuns
  <2>3. b = y
    <3>1. y = Shows(z, b)
      BY <1>1 DEF StandsFor
    <3> QED BY <2>2, <3>1, SkippedShows DEF Shows
  <2>4. CASE InUnit(z, s)
    <3>1. b \div Unit(s) = x \div Unit(s) /\ b \div Unit(s) \in Int
      BY <1>3, <2>2, <2>3, <2>4, Division DEF InUnit
    <3>2. b \div Unit(s) <= x \div Unit(s)
      BY <3>1
    <3> QED BY <1>1, <3>2
  <2>5. CASE ByPeriods(z, s)
    <3> DEFINE v == PutBack(z)
               d == v + Offset(z, v)
    <3>1. /\ z.shift \in Int /\ z.from \in Nat /\ z.until \in Nat
          /\ Size(z) = (IF z.shift < 0 THEN -z.shift ELSE z.shift)
          /\ z.from < z.until /\ z.shift # 0 /\ Size(z) <= z.from
      BY <2>2, ZoneSizes, UndisturbedIs DEF Shifts
    <3>2. v \in Nat /\ v \in u..t
      BY <2>2, <3>1 DEF PutBack
    <3>3. d \in Nat /\ (d = z.until \/ d = z.from + z.shift)
      <4>1. v \in Int
        BY <3>2
      <4>2. Offset(z, v) = IF z.from <= v /\ v < z.until THEN z.shift ELSE 0
        <5> HIDE DEF v
        <5> QED BY <4>1, ZoneOffsets
      <4> QED BY <3>1, <4>2 DEF PutBack
    <3>4. d % s.period = 0
      <4>1. s.period \in Nat \ {0}
        BY Policies
      <4>2. z.shift % s.period = 0 /\ z.from % s.period = 0 /\ z.until % s.period = 0
        BY <2>5 DEF ByPeriods
      <4>3. (z.from + z.shift) % s.period = 0
        BY <3>1, <4>1, <4>2, Divides
      <4> HIDE DEF d
      <4> QED BY <3>3, <4>2, <4>3
    <3>5. d \notin Skipped(z)
      <4> HIDE DEF v
      <4> QED BY <3>2, SkippedShows
    <3>6. d <= x
      <4> SUFFICES ASSUME x < d PROVE FALSE
        BY <1>2, <3>3
      <4>1. v < t
        BY <3>2, <1>2
      <4>2. v < PutBack(z)
        <5> HIDE DEF v
        <5> QED BY <1>2, <3>2, <3>3, <4>1, ClockRuns
      <4> QED BY <3>2, <4>2
    <3>7. Scheduled(s, d)
      <4> HIDE DEF d
      <4> QED BY <2>5, <3>3, <3>4, PeriodOfHour DEF ByPeriods, Scheduled
    <3>8. StandsFor(z, s, d, v)
      BY <3>3, <3>5, <3>7 DEF StandsFor, Shows
    <3>9. d \div Unit(s) <= x \div Unit(s)
      <4> HIDE DEF d, x
      <4> QED BY <1>2, <1>3, <3>3, <3>6, QuotientsInOrder
    <3> QED BY <3>2, <3>3, <3>8, <3>9
  <2> QED BY <2>2, <2>4, <2>5, UndisturbedIs
<1> QED BY <1>1, <1>2, <1>4, <1>5

-----------------------------------------------------------------------------
(* The planner's candidates up to the last boundary *)

\* The runs stay on the calendar.
LEMMA CalendarTimes ==
  ASSUME RegularCalendar, NEW z \in Zones, NEW v \in Nat, v <= End,
         NEW c \in Nat, c <= v + Offset(z, v)
  PROVE  OnCalendar(c)
<1>0. End \in Nat
  BY ScheduleAssumption
<1>1. /\ z.shift \in Int /\ Size(z) \in Nat /\ z.shift <= Size(z) /\ End \in Nat
      /\ Offset(z, v) = z.shift \/ Offset(z, v) = 0
  BY <1>0, ZoneOffsets, ZoneSizes
<1>2. DayTicks \in Nat \ {0} /\ Len(Dates) \in Nat
  BY Ticks
<1>3. End + Size(z) < Len(Dates) * DayTicks
  <2>1. Size(z) \in {z.shift, -z.shift}
    BY DEF Size
  <2> QED BY <2>1 DEF RegularCalendar
<1> DEFINE d == DayTicks
           l == Len(Dates)
           q == c \div d
<1>4. q \in Int /\ c = d * q + (c % d) /\ c % d \in 0..(d - 1)
  BY <1>2, Division
<1>5. c < l * d
  BY <1>1, <1>2, <1>3
<1> HIDE DEF d, l, q
<1> DEFINE r == c % d
<1>6. r \in 0..(d - 1) /\ c = d * q + r
  BY <1>4
<1> HIDE DEF r
<1>7. q >= 0
  <2> SUFFICES ASSUME q <= -1 PROVE FALSE
    BY <1>4
  <2>1. d * q <= d * (-1)
    BY <1>2, <1>4, Scaled DEF d
  <2> QED BY <1>2, <1>4, <1>6, <2>1 DEF d
<1>8. q < l
  <2> SUFFICES ASSUME l <= q PROVE FALSE
    BY <1>2, <1>4 DEF l
  <2>1. d * l <= d * q
    BY <1>2, <1>4, Scaled DEF d, l
  <2>2. d * l = l * d
    BY <1>2 DEF d, l
  <2> QED BY <1>2, <1>4, <1>5, <1>6, <2>1, <2>2 DEF d, l
<1>9. Day(c) + 1 \in 1..Len(Dates)
  <2>1. q + 1 \in 1..l
    BY <1>2, <1>4, <1>7, <1>8 DEF l
  <2> QED BY <2>1 DEF Day, q, d, l
<1> QED BY <1>9 DEF OnCalendar

\* The civil times of the runs are on the calendar, weeks after its first day.
LEMMA PresentTimes ==
  ASSUME RegularCalendar, NEW z \in Zones, NEW t \in Nat, Start <= t, t <= End
  PROVE  /\ t + Offset(z, t) \in Nat /\ OnCalendar(t + Offset(z, t))
         /\ 4 * (WeekDays * DayTicks) <= t + Offset(z, t)
<1>1. /\ z.shift \in Int /\ Size(z) \in Nat /\ -z.shift <= Size(z)
      /\ Offset(z, t) = z.shift \/ Offset(z, t) = 0
  BY ZoneOffsets, ZoneSizes
<1>2. DayTicks \in Nat /\ WeekDays \in Nat /\ Start \in Nat
  BY Ticks, ScheduleAssumption
<1>3. Size(z) <= DayTicks
  <2>1. Size(z) \in {z.shift, -z.shift}
    BY DEF Size
  <2> QED BY <2>1 DEF RegularCalendar
<1>4. 4 * (WeekDays * DayTicks) + DayTicks <= Start /\ WeekDays * DayTicks \in Nat
  <2>1. (4 * WeekDays + 1) * DayTicks <= Start
    BY <1>2 DEF RegularCalendar
  <2>2. (4 * WeekDays + 1) * DayTicks = 4 * (WeekDays * DayTicks) + DayTicks
    BY <1>2
  <2> QED BY <1>2, <2>1, <2>2
<1> DEFINE x == t + Offset(z, t)
<1>5. x \in Nat /\ 4 * (WeekDays * DayTicks) <= x
  <2> DEFINE n == WeekDays * DayTicks
  <2>1. n \in Nat /\ 4 * n + DayTicks <= Start
    BY <1>4
  <2> HIDE DEF n
  <2>2. x \in Nat /\ 4 * n <= x
    BY <1>1, <1>2, <1>3, <2>1
  <2> QED BY <2>2 DEF n
<1>6. OnCalendar(x)
  <2>1. x <= x
    BY <1>5
  <2> QED BY <1>5, <2>1, CalendarTimes
<1> QED BY <1>5, <1>6

\* A candidate whose time the clock has shown is found.
LEMMA CandidateFound ==
  ASSUME NEW z \in Zones, NEW c \in Int, NEW t \in Int,
         z.from < z.until => Size(z) <= ScanTicks, Shows(z, c) <= t + Offset(z, t)
  PROVE  ResolveBoundary(z, c, t) # None
<1>1. PICK w \in Int : w <= t /\ w + Offset(z, w) = Shows(z, c)
  BY SkippedShows, ClockShows
<1>2. ~ (w > t)
  BY <1>1
<1>3. ResolveBoundary(z, c, t) \in Int \/ ~ \A u \in Int : u + Offset(z, u) = Shows(z, c) => u > t
  BY <1>1, <1>2
<1> QED BY <1>1, <1>3, FoundIs, Ticks

\* Where the clocks move by whole periods, the first candidate is not skipped.
LEMMA PeriodNotSkipped ==
  ASSUME NEW z \in Zones, NEW s \in Schedules, ByPeriods(z, s), Shifts(z),
         NEW t \in Int
  PROVE  FirstCandidate(s, t + Offset(z, t)) \notin Skipped(z)
<1> DEFINE x == t + Offset(z, t)
           c == FirstCandidate(s, x)
           g == IF z.shift > 0 THEN z.from + z.shift ELSE z.until
<1>1. /\ z.shift \in Int /\ z.from \in Nat /\ z.until \in Nat /\ x \in Int
      /\ z.from < z.until /\ z.shift # 0
  BY ZoneOffsets DEF Shifts
<1>2. s.kind = "frequently" /\ s.period \in Nat \ {0} /\ Unit(s) = s.period
  BY Policies, Units DEF ByPeriods
<1>3. g \in Int /\ g % s.period = 0
  <2>1. z.shift % s.period = 0 /\ z.from % s.period = 0 /\ z.until % s.period = 0
    BY DEF ByPeriods
  <2> QED BY <1>1, <1>2, <2>1, Divides
<1>4. c = x - (x % s.period) /\ x % s.period \in 0..(s.period - 1)
  <2>1. c = x - (Minute(x) % s.period)
    BY <1>2 DEF FirstCandidate
  <2>2. Minute(x) % s.period = x % s.period
    BY <1>1, PeriodOfHour
  <2> HIDE DEF x, c
  <2> QED BY <1>1, <1>2, <2>1, <2>2, Division
<1>5. c \in Int /\ c <= x /\ x < c + s.period
  <2> DEFINE r == x % s.period
  <2>1. c = x - r /\ r \in 0..(s.period - 1)
    BY <1>4
  <2> HIDE DEF r, c, x
  <2> QED BY <1>1, <1>2, <2>1
<1> SUFFICES ASSUME c \in Skipped(z) PROVE FALSE
  OBVIOUS
<1>6. c < g
  <2> HIDE DEF c
  <2> QED BY <1>1, <1>5, SkippedIs
<1>7. g <= x
  <2>1. x \notin Skipped(z)
    BY SkippedShows
  <2>2. /\ z.shift > 0 => z.from <= c
        /\ z.shift <= 0 => z.until + z.shift <= c
    <3> HIDE DEF c, x
    <3> QED BY <1>1, <1>5, SkippedIs
  <2> HIDE DEF x, c
  <2> QED BY <1>1, <1>5, <2>1, <2>2, SkippedIs
<1>8. Scheduled(s, g)
  <2> HIDE DEF g
  <2> QED BY <1>2, <1>3, PeriodOfHour DEF Scheduled
<1>9. c + s.period <= g
  <2>1. c # None
    BY <1>5, Ticks
  <2> HIDE DEF g
  <2>2. Scheduled(s, c)
    BY <1>1, <2>1, FirstScheduled
  <2> HIDE DEF c
  <2> QED BY <1>2, <1>3, <1>5, <1>6, <1>8, <2>2, UnitApart
<1> HIDE DEF c, g, x
<1> QED BY <1>1, <1>2, <1>3, <1>5, <1>7, <1>9

\* One of the first three candidates is found, not before the last boundary.
LEMMA PreferredNotBefore ==
  ASSUME RegularCalendar, NEW z \in Zones, NEW s \in Schedules, Undisturbed(z, s),
         NEW t \in Nat, Start <= t, t <= End, NEW u \in 0..t, IsBoundary(z, s, u)
  PROVE  MostRecentPreferred(z, s, t) # None /\ u <= MostRecentPreferred(z, s, t)
<1> DEFINE x == t + Offset(z, t)
<1>1. PICK v \in u..t, b \in Nat : /\ StandsFor(z, s, b, v) /\ b <= v + Offset(z, v)
                                   /\ b \div Unit(s) <= x \div Unit(s)
  BY BoundaryBefore
<1>2. PICK c, tried : /\ Candidates(c, s, x) /\ Tries(tried, c, z, t)
                      /\ MostRecentPreferred(z, s, t) = tried[0]
  BY MostRecentTries
<1>3. x \in Int /\ OnCalendar(x) /\ OnCalendar(b)
  <2>1. v \in Nat /\ v <= End
    <3>1. End \in Nat
      BY ScheduleAssumption
    <3> QED BY <3>1
  <2> QED BY <1>1, <2>1, PresentTimes, CalendarTimes
<1> HIDE DEF x
<1>4. b \in Int /\ Scheduled(s, b) /\ v \in Int /\ v <= t /\ v + Offset(z, v) = Shows(z, b)
  BY <1>1 DEF StandsFor
<1>5. z.from < z.until => Size(z) <= ScanTicks
  <2>1. ScanTicks \in Nat
    BY ScheduleAssumption
  <2>2. z.shift = 0 => Size(z) = 0
    BY DEF Size
  <2>3. CASE Shifts(z)
    BY <2>3, UndisturbedIs
  <2> QED BY <2>1, <2>2, <2>3 DEF Shifts
<1> DEFINE Latest(i) == tried[i] # None /\ u <= tried[i]
           Missed(i) == tried[i] = tried[i + 1] /\ x < Shows(z, c[i]) /\ b # c[i]
<1>6. ASSUME NEW i \in 0..3, c[i] \in Int, Scheduled(s, c[i]), b <= c[i],
             s.kind = "frequently" => c[i] <= x
      PROVE  Latest(i) \/ Missed(i)
  <2> DEFINE d == c[i]
             w == ResolveBoundary(z, d, t)
  <2>1. d # None /\ Shown(z, d) # None
    BY <1>5, <1>6, Ticks, ShownIs
  <2>2. tried[i] = IF w # None THEN w ELSE tried[i + 1]
    BY <1>2, <2>1, TriesSteps
  <2> HIDE DEF d, w
  <2>3. d \in Int /\ Scheduled(s, d) /\ b <= d /\ (s.kind = "frequently" => d <= x)
    BY <1>6 DEF d
  <2>4. Shows(z, d) \in Int
    BY <2>3, SkippedShows
  <2>5. \/ w = None /\ \A n \in Int : n + Offset(z, n) = Shows(z, d) => n > t
        \/ /\ w \in Int /\ w <= t /\ w + Offset(z, w) = Shows(z, d)
           /\ \A n \in Int : n + Offset(z, n) = Shows(z, d) /\ n <= t => n <= w
    BY <1>5, <2>3, FoundIs DEF w
  <2>6. CASE w = None
    <3>1. ~(Shows(z, d) <= x)
      BY <1>5, <2>3, <2>6, CandidateFound DEF w, x
    <3>2. b # d
      <4>1. SUFFICES ASSUME b = d PROVE FALSE
        OBVIOUS
      <4>2. v > t
        BY <1>4, <2>5, <2>6, <4>1, Ticks
      <4> QED BY <1>4, <4>2
    <3> QED BY <1>3, <2>2, <2>4, <2>6, <3>1, <3>2 DEF d
  <2>7. CASE w # None
    <3>1. v <= w
      <4>1. s.kind = "frequently" => d <= t + Offset(z, t)
        BY <2>3 DEF x
      <4>2. /\ w \in Int /\ w <= t /\ w + Offset(z, w) = Shows(z, d)
            /\ \A n \in Int : n + Offset(z, n) = Shows(z, d) /\ n <= t => n <= w
        BY <2>5, <2>7
      <4>3. StandsFor(z, s, b, v)
        BY <1>1
      <4> QED BY <1>4, <2>3, <4>1, <4>2, <4>3, FoundInOrder
    <3>2. w \in Int /\ u <= w
      BY <1>1, <2>5, <2>7, <3>1
    <3> QED BY <2>2, <2>7, <3>2
  <2> QED BY <2>6, <2>7
<1>7. /\ c[0] = FirstCandidate(s, x)
      /\ c[1] = PreviousCandidate(s, c[0]) /\ c[2] = PreviousCandidate(s, c[1])
  BY <1>2 DEF Candidates
<1>8. c[0] \in Int /\ Scheduled(s, c[0]) /\ b <= c[0]
  BY <1>1, <1>3, <1>4, <1>7, FirstIsLast, FirstScheduled
<1>9. s.kind = "frequently" => c[0] <= x
  <2>1. SUFFICES ASSUME s.kind = "frequently" PROVE c[0] <= x
    OBVIOUS
  <2>2. PreviousCandidate(s, c[0]) \in Int
    BY <1>8, <2>1, Policies DEF PreviousCandidate
  <2> QED BY <1>3, <1>7, <1>8, <2>1, <2>2, SecondPassed, Ticks
<1>10. CASE Latest(0)
  BY <1>2, <1>10
<1>11. CASE Missed(0)
  <2>1. s.kind \in {"monthly", "yearly"} => OnCalendar(c[0])
    BY <1>7, <1>8, OnCalendarAlways, Ticks
  <2>2. b < c[0]
    BY <1>4, <1>8, <1>11
  <2>3. c[1] # None /\ b <= c[1]
    BY <1>3, <1>4, <1>7, <1>8, <2>1, <2>2, PreviousIsLast
  <2>4. c[1] \in Int /\ Scheduled(s, c[1])
    BY <1>7, <1>8, <2>3, PreviousScheduled
  <2>5. c[1] <= x
    BY <1>3, <1>7, <1>8, <2>3, Ticks, SecondPassed
  <2>6. 1 \in 0..3 /\ 2 \in 0..3 /\ 0 + 1 = 1 /\ 1 + 1 = 2
    OBVIOUS
  <2>7. Latest(1) \/ Missed(1)
    BY <1>6, <2>3, <2>4, <2>5, <2>6
  <2>8. CASE Latest(1)
    BY <1>2, <1>11, <2>6, <2>8
  <2>9. CASE Missed(1)
    <3>1. s.kind \in {"monthly", "yearly"} => OnCalendar(c[1])
      BY <1>7, <2>3, OnCalendarAlways
    <3>2. b < c[1]
      BY <1>4, <2>3, <2>4, <2>9
    <3>3. c[2] # None /\ b <= c[2]
      BY <1>3, <1>4, <1>7, <2>4, <3>1, <3>2, PreviousIsLast
    <3>4. c[2] \in Int /\ Scheduled(s, c[2])
      BY <1>7, <2>4, <3>3, PreviousScheduled
    <3>5. c[2] + Unit(s) <= c[1] /\ Unit(s) \in Nat \ {0}
      BY <1>7, <2>4, <3>1, <3>3, PreviousEarlier, Units
    <3>6. c[2] <= x
      BY <1>3, <2>4, <2>5, <3>4, <3>5
    <3>7. Latest(2) \/ Missed(2)
      BY <1>6, <2>6, <3>3, <3>4, <3>6
    <3>8. c[1] \in Skipped(z)
      BY <1>3, <2>4, <2>5, <2>9 DEF Shows
    <3>9. ASSUME c[2] \in Skipped(z) PROVE FALSE
      <4>1. Shifts(z) /\ Unit(s) < Size(z)
        <5>1. Shifts(z)
          BY <2>4, <3>8, SkippedShows
        <5>2. \A d \in Int : d \in Skipped(z) <=>
                /\ z.from < z.until
                /\ \/ z.shift > 0 /\ z.from <= d /\ d < z.from + z.shift
                   \/ z.shift <= 0 /\ z.until + z.shift <= d /\ d < z.until
          BY SkippedIs
        <5>3. c[1] < c[2] + Size(z)
          BY <2>4, <3>4, <3>8, <3>9, <5>2, ZoneSizes
        <5> QED BY <2>4, <3>4, <3>5, <5>1, <5>3, ZoneSizes
      <4>2. ~ InUnit(z, s)
        BY <4>1, Units, ZoneSizes DEF InUnit
      <4>3. ByPeriods(z, s)
        BY <4>1, <4>2, UndisturbedIs
      <4>4. c[0] \notin Skipped(z)
        BY <1>7, <4>1, <4>3, PeriodNotSkipped DEF x
      <4> QED BY <1>3, <1>8, <1>9, <1>11, <4>3, <4>4 DEF Shows, ByPeriods
    <3>10. Latest(2)
      BY <1>3, <3>4, <3>6, <3>7, <3>9 DEF Shows
    <3> QED BY <1>2, <1>11, <2>6, <2>9, <3>10
  <2> QED BY <2>7, <2>8, <2>9
<1> QED BY <1>6, <1>8, <1>9, <1>10, <1>11

\* The candidates of the days reach back four weeks at most.
LEMMA CandidatesNear ==
  ASSUME NEW s \in Schedules, s.kind \notin {"monthly", "yearly"}, NEW x \in Int
  PROVE  /\ WeekDays * DayTicks \in Nat
         /\ FirstCandidate(s, x) \in Int /\ x - WeekDays * DayTicks < FirstCandidate(s, x)
         /\ PreviousCandidate(s, x) \in Int /\ x - WeekDays * DayTicks <= PreviousCandidate(s, x)
<1> DEFINE n == WeekDays * DayTicks
           c == FirstCandidate(s, x)
           p == PreviousCandidate(s, x)
<1>1. /\ HourTicks \in Nat \ {0} /\ DayTicks \in Nat \ {0} /\ WeekDays \in Nat \ {0}
      /\ s.kind \in {"frequently", "hourly", "daily", "weekly"}
      /\ s.period \in Nat \ {0} /\ s.period <= HourTicks /\ s.min \in 0..(HourTicks - 1)
  BY Ticks, Policies DEF Kinds
<1>2. n \in Nat /\ HourTicks <= DayTicks /\ DayTicks <= n
  <2>1. DayHours \in Nat \ {0}
    BY Ticks
  <2>2. HourTicks * 1 <= HourTicks * DayHours
    BY <1>1, <2>1, Scaled
  <2>3. DayTicks * 1 <= DayTicks * WeekDays
    BY <1>1, Scaled
  <2>4. DayTicks * WeekDays = n /\ n \in Nat
    BY <1>1
  <2> QED BY <1>1, <2>2, <2>3, <2>4 DEF DayTicks
<1> HIDE DEF n
<1>3. p \in Int /\ x - n <= p
  <2>1. p = x - s.period \/ p = x - HourTicks \/ p = x - DayTicks \/ p = x - n
    BY <1>1 DEF PreviousCandidate, n
  <2> HIDE DEF p
  <2> QED BY <1>1, <1>2, <2>1
<1>4. CASE s.kind = "frequently"
  <2> DEFINE r == Minute(x) % s.period
  <2>1. c = x - r
    BY <1>4 DEF FirstCandidate
  <2>2. r = x % s.period
    BY PeriodOfHour
  <2> HIDE DEF r, c
  <2>3. r \in 0..(s.period - 1)
    BY <1>1, <2>2, Division
  <2>4. c \in Int /\ x - n < c
    BY <1>1, <1>2, <2>1, <2>3
  <2> QED BY <1>2, <1>3, <2>4 DEF c, p, n
<1>5. CASE s.kind = "hourly"
  <2> DEFINE r == Minute(x)
  <2>1. c = x - r + s.min
    BY <1>5 DEF FirstCandidate
  <2> HIDE DEF c
  <2>2. r \in 0..(HourTicks - 1)
    BY <1>1, Civil
  <2> HIDE DEF r
  <2>3. c \in Int /\ x - n < c
    BY <1>1, <1>2, <2>1, <2>2
  <2> QED BY <1>2, <1>3, <2>3 DEF c, p, n
<1>6. CASE s.kind \in {"daily", "weekly"}
  <2>1. /\ c \in Int /\ Day(c) \in Int /\ Day(x) \in Int /\ Day(x) < Day(c) + WeekDays
    BY <1>6, FirstDay
  <2> HIDE DEF c
  <2> DEFINE d == DayTicks
             i == Day(c)
             j == Day(x)
  <2>2. c = d * i + (c % d) /\ x = d * j + (x % d) /\ c % d \in 0..(d - 1) /\ x % d \in 0..(d - 1)
    BY <1>1, <2>1, Division DEF Day
  <2>3. i \in Int /\ j \in Int /\ j + 1 <= i + WeekDays
    BY <1>1, <2>1
  <2> HIDE DEF i, j, d
  <2>4. d * (j + 1) <= d * (i + WeekDays)
    BY <1>1, <2>3, Scaled DEF d
  <2>5. d * (j + 1) = d * j + d /\ d * (i + WeekDays) = d * i + n
    BY <1>1, <2>3 DEF d, n
  <2> DEFINE q == d * i
             r == d * j
             y == c % d
             w == x % d
  <2>6. /\ q \in Int /\ r \in Int /\ y \in 0..(d - 1) /\ w \in 0..(d - 1) /\ d \in Nat
        /\ c = q + y /\ x = r + w /\ r + d <= q + n
    BY <1>1, <2>2, <2>3, <2>4, <2>5 DEF d
  <2> HIDE DEF q, r, y, w
  <2>7. x - n < c
    BY <1>2, <2>1, <2>6
  <2> QED BY <1>2, <1>3, <2>1, <2>7 DEF c, p, n
<1> QED BY <1>1, <1>4, <1>5, <1>6

\* What the planner finds is no earlier than the calendar's first day.
LEMMA PreferredOnCalendar ==
  ASSUME RegularCalendar, NEW z \in Zones, NEW s \in Schedules, NEW t \in Nat,
         Start <= t, t <= End, MostRecentPreferred(z, s, t) # None
  PROVE  MostRecentPreferred(z, s, t) \in Nat
<1> DEFINE x == t + Offset(z, t)
           n == WeekDays * DayTicks
           m == MostRecentPreferred(z, s, t)
<1>1. x \in Nat /\ OnCalendar(x) /\ 4 * n <= x
  BY PresentTimes
<1>2. PICK c, tried : Candidates(c, s, x) /\ Tries(tried, c, z, t) /\ m = tried[0]
  BY MostRecentTries
<1> HIDE DEF x, n
<1>3. /\ c[0] = FirstCandidate(s, x) /\ c[1] = PreviousCandidate(s, c[0])
      /\ c[2] = PreviousCandidate(s, c[1]) /\ c[3] = PreviousCandidate(s, c[2])
  BY <1>2 DEF Candidates
<1>4. \A k \in 0..3 : c[k] # None => c[k] \in Nat
  <2>1. CASE s.kind \in {"monthly", "yearly"}
    <3>1. SUFFICES ASSUME NEW k \in 0..3, c[k] # None PROVE c[k] \in Nat
      OBVIOUS
    <3>2. \/ c[k] = FirstCandidate(s, x)
          \/ \E civil : c[k] = PreviousCandidate(s, civil)
      BY <1>3
    <3>3. OnCalendar(c[k])
      BY <2>1, <3>1, <3>2, OnCalendarAlways
    <3>4. c[k] \in Int
      <4>1. ASSUME NEW civil, c[k] = PreviousCandidate(s, civil) PROVE c[k] \in Int
        <5>1. CASE s.kind = "monthly"
          <6>1. PICK date : c[k] = OnDate(date, s)
            BY <4>1, <5>1 DEF PreviousCandidate
          <6> QED BY <3>1, <6>1, OnDateFound
        <5>2. CASE s.kind = "yearly"
          BY <3>1, <4>1, <5>2, YearlyDateScheduled DEF PreviousCandidate
        <5> QED BY <2>1, <5>1, <5>2
      <4> QED BY <1>1, <3>1, <3>2, <4>1, FirstScheduled
    <3>5. ~(c[k] < 0)
      <4>0. Day(0) = 0
        <5>1. DayTicks * 0 + 0 = 0 /\ 0 \in 0..(DayTicks - 1)
          BY Ticks
        <5> QED BY <5>1, Ticks, Divided DEF Day
      <4>1. /\ Day(c[k]) \in Int /\ Day(0) = 0
        BY <3>4, <4>0, Civil
      <4>2. c[k] <= 0 => Day(c[k]) <= Day(0)
        BY <3>4, Ticks, QuotientsInOrder DEF Day
      <4>3. Day(c[k]) >= 0
        BY <3>3, <4>1, Ticks DEF OnCalendar
      <4> SUFFICES ASSUME c[k] < 0 PROVE FALSE
        OBVIOUS
      <4>4. Day(c[k]) = 0
        BY <3>4, <4>1, <4>2, <4>3
      <4>5. c[k] = 0 * DayTicks + Hour(c[k]) * HourTicks + Minute(c[k])
        BY <3>4, <4>4, Civil
      <4>6. /\ Hour(c[k]) \in 0..(DayHours - 1) /\ Minute(c[k]) \in 0..(HourTicks - 1)
            /\ HourTicks \in Nat /\ DayHours \in Nat /\ DayTicks \in Nat
        BY <3>4, Civil, Ticks
      <4>7. Hour(c[k]) * HourTicks \in Nat
        BY <4>6
      <4> QED BY <3>4, <4>5, <4>6, <4>7
    <3> QED BY <3>4, <3>5
  <2>2. CASE s.kind \notin {"monthly", "yearly"}
    <3>1. n \in Nat
      BY <1>1, <2>2, CandidatesNear DEF n
    <3>2. c[0] \in Int /\ x - n < c[0]
      BY <1>1, <1>3, <2>2, CandidatesNear DEF n
    <3>3. c[1] \in Int /\ c[0] - n <= c[1]
      BY <1>3, <2>2, <3>2, CandidatesNear DEF n
    <3>4. c[2] \in Int /\ c[1] - n <= c[2]
      BY <1>3, <2>2, <3>3, CandidatesNear DEF n
    <3>5. c[3] \in Int /\ c[2] - n <= c[3]
      BY <1>3, <2>2, <3>4, CandidatesNear DEF n
    <3> QED BY <1>1, <3>1, <3>2, <3>3, <3>4, <3>5
  <2> QED BY <2>1, <2>2
<1> DEFINE asked(u) == u # None => u \in Nat
<1>5. ASSUME NEW k \in 0..3, c[k] # None, Shown(z, c[k]) # None
      PROVE  asked(ResolveBoundary(z, c[k], t))
  <2> DEFINE found == ResolveBoundary(z, c[k], t)
  <2>1. c[k] \in Nat
    BY <1>4, <1>5
  <2>2. found # None => /\ found \in Int
                        /\ IF c[k] \in Skipped(z) THEN found + Behind(z) = c[k]
                           ELSE found + Offset(z, found) = c[k]
    BY <1>5, <2>1, ResolvedIs
  <2> HIDE DEF found
  <2>3. SUFFICES ASSUME found # None PROVE found \in Nat
    BY DEF found
  <2>4. found \in Int
    BY <2>2, <2>3
  <2>5. /\ z.shift \in Int /\ z.from \in Nat /\ z.until \in Nat
        /\ Offset(z, found) = IF z.from <= found /\ found < z.until THEN z.shift ELSE 0
        /\ Behind(z) = IF z.shift < 0 THEN z.shift ELSE 0
    BY <2>4, ZoneOffsets, BehindIs
  <2> QED BY <2>1, <2>2, <2>3, <2>4, <2>5
<1> HIDE DEF asked
<1>6. ASSUME NEW k \in 0..3, asked(tried[k + 1]) PROVE asked(tried[k])
  BY <1>2, <1>5, <1>6, TriesSteps DEF asked
<1>7. asked(tried[4])
  BY <1>2 DEF Tries, asked
<1>8. asked(tried[0])
  <2>1. 0 \in 0..3 /\ 1 \in 0..3 /\ 2 \in 0..3 /\ 3 \in 0..3
    OBVIOUS
  <2>2. asked(tried[3])
    BY <1>6, <1>7, <2>1
  <2>3. asked(tried[2])
    BY <1>6, <2>1, <2>2
  <2>4. asked(tried[1])
    BY <1>6, <2>1, <2>3
  <2> QED BY <1>6, <2>1, <2>4
<1> QED BY <1>2, <1>8 DEF asked, m

-----------------------------------------------------------------------------
(* The last boundary *)

\* The runs go through the instants of the calendar.
InRuns == Start <= now /\ now <= End /\ Undisturbed(zone, schedule)

\* Time stops at End, and neither the zone nor the schedule changes.
LEMMA InRunsAlways == ScheduleSpec /\ Undisturbed(zone, schedule) => []InRuns
<1>1. ScheduleInit /\ Undisturbed(zone, schedule) => InRuns
  <2>1. Start \in Nat /\ End \in Nat /\ Start <= End
    BY ScheduleAssumption
  <2> QED BY <2>1 DEF ScheduleInit, InRuns
<1>2. Planned /\ InRuns /\ [ScheduleNext]_scheduleVars => InRuns'
  <2> SUFFICES ASSUME Planned, InRuns, [ScheduleNext]_scheduleVars PROVE InRuns'
    OBVIOUS
  <2>1. Start \in Nat /\ End \in Nat /\ now \in Nat
    BY ScheduleAssumption DEF Planned
  <2>2. zone' = zone /\ schedule' = schedule
    BY DEF ScheduleNext, Tick, TakeSnapshot, scheduleVars
  <2>3. now' = now \/ (now' = now + 1 /\ now < End)
    BY DEF ScheduleNext, Tick, TakeSnapshot, scheduleVars
  <2> QED BY <2>1, <2>2, <2>3 DEF InRuns
<1> QED BY <1>1, <1>2, PlannedAlways, PTL DEF ScheduleSpec

\* The boundary that the planner computes is the last one the schedule asked
\* for, on every regular calendar and in every zone whose clocks do not
\* disturb the schedule.
THEOREM PlannerFindsLatest ==
  ASSUME RegularCalendar
  PROVE  ScheduleSpec /\ Undisturbed(zone, schedule) => []BoundaryIsLatest
<1>1. Planned /\ InRuns => BoundaryIsLatest
  <2> SUFFICES ASSUME Planned, InRuns PROVE BoundaryIsLatest
    OBVIOUS
  <2> DEFINE m == MostRecentPreferred(zone, schedule, now)
  <2>1. /\ zone \in Zones /\ schedule \in Schedules /\ now \in Nat
        /\ Start <= now /\ now <= End /\ Undisturbed(zone, schedule)
    BY DEF Planned, InRuns
  <2>2. ASSUME NEW u \in 0..now, IsBoundary(zone, schedule, u) PROVE m # None /\ u <= m
    BY <2>1, <2>2, PreferredNotBefore
  <2>3. m # None => m \in 0..now /\ IsBoundary(zone, schedule, m)
    <3>1. m # None => /\ m \in Int /\ m <= now
                      /\ IsBoundary(zone, schedule, m)
      BY <2>1, PreferredIsAskedFor
    <3>2. m # None => m \in Nat
      BY <2>1, PreferredOnCalendar
    <3> HIDE DEF m
    <3> QED BY <2>1, <3>1, <3>2
  <2> HIDE DEF m
  <2>4. m = boundary
    <3>1. boundary # None => boundary \in 0..now /\ IsBoundary(zone, schedule, boundary)
      BY DEF Planned, AskedForLast
    <3>2. m # None => boundary # None /\ m <= boundary
      BY <2>3 DEF Planned, AskedForLast
    <3>3. boundary # None => m # None /\ boundary <= m
      BY <2>2, <3>1
    <3>4. CASE m = None
      BY <3>3, <3>4
    <3>5. CASE m # None
      BY <2>1, <2>3, <3>1, <3>2, <3>3, <3>5
    <3> QED BY <3>4, <3>5
  <2> QED BY <2>4 DEF BoundaryIsLatest, m
<1> QED BY <1>1, InRunsAlways, PlannedAlways, PTL
=============================================================================
