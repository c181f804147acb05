------------------------------ MODULE Schedule ------------------------------
(***************************************************************************)
(* When a class of snapshots is due and what its snapshot is called         *)
(* (src/planner.rs): the scheduled civil time before now is computed from    *)
(* the policy and the calendar, mapped to an instant in a time zone with    *)
(* daylight saving, and compared with the newest snapshot of the class.     *)
(* An instant is a number of ticks (the code's minutes); a civil time is    *)
(* the number of ticks a wall clock of that zone shows.  The planner runs   *)
(* whenever it likes, late or twice, and takes the snapshot when it is due. *)
(***************************************************************************)
EXTENDS Integers, FiniteSetsExt, SequencesExt

CONSTANTS
  HourTicks, DayHours, WeekDays,
  Dates,       \* the calendar: the <<year, month, day>> of day 0, 1, 2, ...
  LeapDay,     \* the day of month 2 that only leap years have
  MonthlyDays, \* the days every month has
  MaxMonthDays,\* the days of the longest month
  ScanTicks,   \* how far a valid civil time is searched for around a gap
  Zones,       \* [shift, from, until]: clocks are shift ahead in from..until-1
  Schedules,   \* the kinds with their policies
  Start, End,  \* the instants the runs go through
  MaxLate,     \* the longest a due snapshot waits for the planner
  None

Kinds == {"frequently", "hourly", "daily", "weekly", "monthly", "yearly"}

DayTicks == HourTicks * DayHours
Day(civil) == civil \div DayTicks
Hour(civil) == (civil % DayTicks) \div HourTicks
Minute(civil) == civil % HourTicks
Year(civil) == Dates[Day(civil) + 1][1]
Month(civil) == Dates[Day(civil) + 1][2]

\* Policy::validate for the fields of a schedule.  The fields a kind does not
\* read (one hour, one min, ... stand for those of every kind) do not matter.
Validates(s) ==
  /\ s.kind \in Kinds
  /\ s.period \in 1..HourTicks /\ HourTicks % s.period = 0
  /\ s.min \in 0..(HourTicks - 1)
  /\ s.hour \in 0..(DayHours - 1)
  /\ s.wday \in 0..(WeekDays - 1)
  /\ s.mon \in {date[2] : date \in Range(Dates)}
  /\ s.mday \in 1..(IF s.kind = "monthly" THEN MonthlyDays ELSE MaxMonthDays)

ASSUME ScheduleAssumption ==
  /\ {HourTicks, DayHours, WeekDays, ScanTicks} \subseteq Nat \ {0}
  /\ Dates \in Seq(Int \X Int \X Int)
  /\ Start \in Nat /\ End \in Nat /\ Start <= End /\ MaxLate \in Nat /\ None \notin Int
  /\ \A z \in Zones :
       /\ z.shift \in Int /\ z.from \in Nat /\ z.until \in Nat
       \* Two transitions are farther apart than the clocks move.
       /\ z.from < z.until => \A move \in {z.shift, -z.shift} : 2 * move <= z.until - z.from
  /\ \A s \in Schedules : Validates(s)

VARIABLES
  zone,      \* the time zone; it never changes
  schedule,  \* the kind and its policy; it never changes
  now,
  newest,    \* creation of the newest snapshot of the class, or None
  boundary   \* history: the last instant the schedule asks for a snapshot at

scheduleVars == <<zone, schedule, now, newest, boundary>>

-----------------------------------------------------------------------------
(* Time zones *)

Offset(z, t) == IF t \in z.from..(z.until - 1) THEN z.shift ELSE 0

\* from_local_datetime: none, one, or two instants show a civil time.
Instants(z, civil) == {t \in {civil, civil - z.shift} : t + Offset(z, t) = civil}

\* A skipped civil time goes forward by the gap around it.
NormalizeNonexistent(z, civil) ==
  LET distances(sign) == {d \in 1..ScanTicks : Instants(z, civil + sign * d) # {}}
  IN  IF distances(-1) = {} \/ distances(1) = {} THEN None
      ELSE LET gap == Min(distances(1)) + Min(distances(-1)) - 1
           IN  IF gap <= 0 THEN None ELSE civil + gap

\* Mutant: the first of two occurrences, when it has passed.
EarliestNotAfter(instants, t) ==
  LET past == {i \in instants : i <= t}
  IN  IF past = {} THEN None ELSE Min(past)

LatestNotAfter(instants, t) ==
  LET past == {i \in instants : i <= t}
  IN  IF past = {} THEN None ELSE Max(past)

-----------------------------------------------------------------------------
(* The scheduled time before now.  A date that the calendar lacks is None:  *)
(* the code returns an error, and the whole plan fails.                     *)

OnDate(date, s) ==
  LET days == {d \in 1..Len(Dates) : Dates[d] = date}
  IN  IF days = {} THEN None
      ELSE (Max(days) - 1) * DayTicks + s.hour * HourTicks + s.min

YearlyDate(year, s) ==
  LET wanted == OnDate(<<year, s.mon, s.mday>>, s)
  IN  IF wanted = None /\ s.mon = 2 /\ s.mday = LeapDay
      THEN OnDate(<<year, 2, LeapDay - 1>>, s)
      ELSE wanted

FirstCandidate(s, civil) ==
  LET today == Day(civil) * DayTicks
  IN  CASE s.kind = "frequently" -> civil - (Minute(civil) % s.period)
        [] s.kind = "hourly"     -> civil - Minute(civil) + s.min
        [] s.kind = "daily"      -> today + s.hour * HourTicks + s.min
        [] s.kind = "weekly"     ->
             today - (((Day(civil) % WeekDays) - s.wday) % WeekDays) * DayTicks
               + s.hour * HourTicks + s.min
        [] s.kind = "monthly"    -> OnDate(<<Year(civil), Month(civil), s.mday>>, s)
        [] s.kind = "yearly"     -> YearlyDate(Year(civil), s)

Months == Max({date[2] : date \in Range(Dates)})

PreviousCandidate(s, civil) ==
  CASE s.kind = "frequently" -> civil - s.period
    [] s.kind = "hourly"     -> civil - HourTicks
    [] s.kind = "daily"      -> civil - DayTicks
    [] s.kind = "weekly"     -> civil - WeekDays * DayTicks
    [] s.kind = "monthly"    ->
         OnDate(IF Month(civil) = 1 THEN <<Year(civil) - 1, Months, s.mday>>
                ELSE <<Year(civil), Month(civil) - 1, s.mday>>, s)
    [] s.kind = "yearly"     -> YearlyDate(Year(civil) - 1, s)

\* resolve_boundary: the civil time a candidate stands for, and its last instant.
Shown(z, civil) ==
  IF Instants(z, civil) = {} THEN NormalizeNonexistent(z, civil) ELSE civil

ResolveBoundary(z, civil, t) == LatestNotAfter(Instants(z, Shown(z, civil)), t)

\* most_recent_preferred: up to four candidates, each before the other; None
\* when there is no such date or time, or none of the four has passed.
MostRecentPreferred(z, s, t) ==
  LET candidate[k \in 0..3] ==
        IF k = 0 THEN FirstCandidate(s, t + Offset(z, t))
        ELSE PreviousCandidate(s, candidate[k - 1])
      try[k \in 0..4] ==
        IF k = 4 \/ candidate[k] = None \/ Shown(z, candidate[k]) = None THEN None
        ELSE LET found == ResolveBoundary(z, candidate[k], t)
             IN  IF found # None THEN found ELSE try[k + 1]
  IN  try[0]

\* Mutant: a snapshot taken on the boundary itself does not count.
DueOnBoundary(z, s, created, t) ==
  LET preferred == MostRecentPreferred(z, s, t)
  IN  preferred # None /\ (created # None => created <= preferred)

\* Without a preferred instant the plan fails and nothing is taken.
SnapshotDue(z, s, created, t) ==
  LET preferred == MostRecentPreferred(z, s, t)
  IN  preferred # None /\ (created # None => created < preferred)

\* Mutant: no suffix in the repeated hour.
PlainTimestamp(z, t) == <<t + Offset(z, t), "">>

\* The civil time, with a suffix at its second occurrence.
SnapshotTimestamp(z, t) ==
  LET civil == t + Offset(z, t)
  IN  <<civil, IF Cardinality(Instants(z, civil)) = 2 /\ Max(Instants(z, civil)) = t
               THEN "dst" ELSE "">>

-----------------------------------------------------------------------------
(* What the schedule asks for, read from the policy's fields alone: the     *)
(* wall clock shows a scheduled time, or would show it had it not been put  *)
(* forward across it.                                                       *)

Yearly(s, date) ==
  \/ date[2] = s.mon /\ date[3] = s.mday
  \/ /\ s.mon = 2 /\ s.mday = LeapDay /\ date[2] = 2 /\ date[3] = LeapDay - 1
     /\ <<date[1], 2, LeapDay>> \notin Range(Dates)

Scheduled(s, civil) ==
  LET date == Dates[Day(civil) + 1]
      atTime == Hour(civil) = s.hour /\ Minute(civil) = s.min
  IN  \/ s.kind = "frequently" /\ Minute(civil) % s.period = 0
      \/ s.kind = "hourly" /\ Minute(civil) = s.min
      \/ s.kind = "daily" /\ atTime
      \/ s.kind = "weekly" /\ atTime /\ Day(civil) % WeekDays = s.wday
      \/ s.kind = "monthly" /\ atTime /\ date[3] = s.mday
      \/ s.kind = "yearly" /\ atTime /\ Yearly(s, date)

\* The clock before it is put forward.
Behind(z) == Min({0, z.shift})

IsBoundary(z, s, t) ==
  \/ Scheduled(s, t + Offset(z, t))
  \/ Instants(z, t + Behind(z)) = {} /\ Scheduled(s, t + Behind(z))

-----------------------------------------------------------------------------
(* Where the planner's four candidates are enough: the calendar has whole   *)
(* years of whole months and begins weeks before the runs, and the clocks   *)
(* are not put back across a scheduled time in a way its unit does not fit. *)

Before(d, e) ==
  \/ d[1] < e[1]
  \/ d[1] = e[1] /\ (d[2] < e[2] \/ (d[2] = e[2] /\ d[3] < e[3]))

RegularCalendar ==
  LET years == {date[1] : date \in Range(Dates)}
      has(y, m, d) == <<y, m, d>> \in Range(Dates)
  IN  /\ \A i, j \in 1..Len(Dates) : i < j => Before(Dates[i], Dates[j])
      /\ \A y, z \in years : y..z \subseteq years
      /\ Months \in Nat /\ \A date \in Range(Dates) : date[2] \in 1..Months
      /\ \A y \in years :
           /\ \A m \in 1..Months, d \in 1..MonthlyDays : has(y, m, d)
           /\ \A date \in Range(Dates) :
                \/ has(y, date[2], date[3])
                \/ date[2] = 2 /\ date[3] = LeapDay
           /\ has(y, 2, LeapDay - 1)
      /\ Start >= (4 * WeekDays + 1) * DayTicks
      /\ \A z \in Zones : \A move \in {z.shift, -z.shift} :
           move <= DayTicks /\ End + move < Len(Dates) * DayTicks

\* What the clocks show twice.
Repeated(z) ==
  IF z.shift > 0 THEN z.until..(z.until + z.shift - 1) ELSE (z.from + z.shift)..(z.from - 1)

Unit(s) ==
  CASE s.kind = "frequently" -> s.period
    [] s.kind = "hourly"     -> HourTicks
    [] OTHER                 -> DayTicks

\* The clocks move by whole periods, or within one unit and by no more than half
\* of it, or by the hour.
Undisturbed(z, s) ==
  LET size == Max({z.shift, -z.shift})
  IN  \/ z.shift = 0 \/ z.until <= z.from
      \/ /\ size <= z.from /\ size <= ScanTicks
         /\ \/ s.kind = "frequently" /\ \A n \in {z.shift, z.from, z.until} : n % s.period = 0
            \/ /\ \A c, d \in Repeated(z) : c \div Unit(s) = d \div Unit(s)
               /\ 2 * size <= Unit(s) \/ (s.kind = "hourly" /\ size = HourTicks)

-----------------------------------------------------------------------------
(* The planner in time *)

ScheduleInit ==
  /\ zone \in Zones
  /\ schedule \in Schedules
  /\ now = Start
  /\ newest = None
  /\ LET past == {t \in 0..Start : IsBoundary(zone, schedule, t)}
     IN  boundary = IF past = {} THEN None ELSE Max(past)

Due == SnapshotDue(zone, schedule, newest, now)

Tick ==
  /\ now < End
  /\ Due => now - boundary < MaxLate
  /\ now' = now + 1
  /\ boundary' = IF IsBoundary(zone, schedule, now') THEN now' ELSE boundary
  /\ UNCHANGED <<zone, schedule, newest>>

\* An invocation of zsnap that plans and takes the snapshot.
TakeSnapshot ==
  /\ Due
  /\ newest' = now
  /\ UNCHANGED <<zone, schedule, now, boundary>>

ScheduleNext == Tick \/ TakeSnapshot

ScheduleSpec == ScheduleInit /\ [][ScheduleNext]_scheduleVars

-----------------------------------------------------------------------------
(* Properties *)

\* The boundary the planner computes from now is the last instant the schedule
\* asked for: across gaps, repeated hours, month and year ends and leap days
\* it is never after now, never an earlier one, and it is missing, with an
\* error for the whole plan, only for a date that is in no year.
BoundaryIsLatest == MostRecentPreferred(zone, schedule, now) = boundary

\* No two instants give a class the same snapshot name, the two passes of a
\* repeated hour included (a second `zfs snapshot` of that name would fail).
NamesDistinct ==
  \A t \in (now - DayTicks)..(now - 1) :
    SnapshotTimestamp(zone, t) # SnapshotTimestamp(zone, now)

\* However late, or often, the planner runs, a second snapshot of a class is
\* taken only when the schedule has asked for one since the first.
OncePerBoundary ==
  [][newest' # newest => newest = None \/ boundary > newest]_scheduleVars
=============================================================================
