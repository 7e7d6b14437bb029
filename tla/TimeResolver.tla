---------------------------- MODULE TimeResolver ----------------------------
(***************************************************************************)
(* TimeResolver: what a relative time phrase denotes, given the local day  *)
(* on which it was said.  Pure: operators only.                            *)
(*                                                                         *)
(* A local date is a record, a local day also a number (as toordinal), an  *)
(* instant a number of hours.  A zone has one offset until two in the      *)
(* morning of some day and another from then on.  Dates are far from the   *)
(* first and the last year datetime has.                                   *)
(***************************************************************************)
EXTENDS Integers

CONSTANTS
    Years,        \* the years in which phrases are said
    Zones,        \* [change: day, before, after: hours ahead of UTC]
    Quantities    \* the numbers phrases may name

ASSUME CalendarAssumption ==
    /\ Years \subseteq 2..9000
    /\ \A z \in Zones : /\ z.change \in Nat
                        /\ {z.before, z.after} \subseteq -14..14
    /\ Quantities \subseteq Nat

Units == {"day", "week", "month", "quarter", "year"}
Modifiers == {"last", "this", "next"}
Absent == "absent"
NoNumber == -1

\* RelativeDescriptor, as the model fills it in.
Descriptor(weekday, modifier, quantity, unit, direction) ==
    [weekday |-> weekday, modifier |-> modifier, quantity |-> quantity,
     unit |-> unit, direction |-> direction]

-----------------------------------------------------------------------------
\* The calendar of datetime

Leap(y) == y % 4 = 0 /\ (y % 100 # 0 \/ y % 400 = 0)
MonthDays(y, m) ==
    CASE m \in {4, 6, 9, 11} -> 30
      [] m = 2 -> IF Leap(y) THEN 29 ELSE 28
      [] OTHER -> 31

Date(y, m, d) == [y |-> y, m |-> m, d |-> d]
Dates == UNION {{Date(y, m, d) : d \in 1..MonthDays(y, m)} : y \in Years, m \in 1..12}

\* 1 January of the year 1 is day 1, a Monday.
DaysBeforeYear(y) == 365 * (y - 1) + (y - 1) \div 4 - (y - 1) \div 100 + (y - 1) \div 400
\* The days of a common year before each month, and the leap day.
DaysBeforeMonth(y, m) ==
    <<0, 31, 59, 90, 120, 151, 181, 212, 243, 273, 304, 334>>[m]
        + (IF m > 2 /\ Leap(y) THEN 1 ELSE 0)
DayNumber(date) == DaysBeforeYear(date.y) + DaysBeforeMonth(date.y, date.m) + date.d
Weekday(day) == (day - 1) % 7

-----------------------------------------------------------------------------
\* Variant: the day runs over into the month after the target.
AddMonthsOver(date, months) ==
    LET total == date.y * 12 + date.m - 1 + months
        y == total \div 12
        m == (total % 12) + 1
    IN  IF date.d <= MonthDays(y, m) THEN Date(y, m, date.d)
        ELSE IF m = 12 THEN Date(y + 1, 1, date.d - MonthDays(y, m))
        ELSE Date(y, m + 1, date.d - MonthDays(y, m))

\* add_months: the day is clamped to the target month.
AddMonths(date, months) ==
    LET total == date.y * 12 + date.m - 1 + months
        y == total \div 12
        m == (total % 12) + 1
    IN  Date(y, m, IF date.d <= MonthDays(y, m) THEN date.d ELSE MonthDays(y, m))

QuarterOf(date) == (date.m - 1) \div 3 + 1

\* _to_utc: local midnight of a day, as an instant.
MidnightUtc(day, zone) ==
    24 * day - (IF day <= zone.change THEN zone.before ELSE zone.after)

\* An instant at some hour of a local day.
InstantAt(day, hour, zone) ==
    24 * day + hour
        - (IF day < zone.change \/ (day = zone.change /\ hour < 2)
           THEN zone.before ELSE zone.after)

\* _window: the whole period a target denotes, as local days, from and to.
DayWindow(day) == <<day, day + 1>>
WeekWindow(day) == <<day - Weekday(day), day - Weekday(day) + 7>>
MonthsFrom(first, months) == <<DayNumber(first), DayNumber(AddMonths(first, months))>>

\* _shift and _window: the period of some unit, steps periods away.
Shifted(date, steps, unit) ==
    CASE unit = "day" -> DayWindow(DayNumber(date) + steps)
      [] unit = "week" -> WeekWindow(DayNumber(date) + 7 * steps)
      [] unit = "month" ->
            LET target == AddMonths(date, steps)
            IN  MonthsFrom(Date(target.y, target.m, 1), 1)
      [] unit = "quarter" ->
            LET target == AddMonths(date, 3 * steps)
            IN  MonthsFrom(Date(target.y, 3 * (QuarterOf(target) - 1) + 1, 1), 3)
      [] unit = "year" ->
            LET target == AddMonths(date, 12 * steps)
            IN  MonthsFrom(Date(target.y, 1, 1), 12)

\* _resolve_weekday: strictly before, strictly after, or in this week.
OrSeven(n) == IF n = 0 THEN 7 ELSE n
ResolveWeekday(day, weekday, modifier) ==
    CASE modifier = "last" -> day - OrSeven((Weekday(day) - weekday) % 7)
      [] modifier = "next" -> day + OrSeven((weekday - Weekday(day)) % 7)
      [] modifier = "this" -> day - Weekday(day) + weekday

\* is_resolvable, by its three shapes.
NamesWeekday(p) == p.weekday # NoNumber /\ p.modifier # Absent
Counts(p) == p.quantity # NoNumber /\ p.unit # Absent /\ p.direction # "none"
NamesUnit(p) == p.modifier # Absent /\ p.unit # Absent

Unresolved == <<>>

\* resolve: the weekday comes first, a count before a modifier; nothing is
\* guessed of a phrase with none of the shapes.
ResolveLocal(p, date) ==
    CASE NamesWeekday(p) ->
            DayWindow(ResolveWeekday(DayNumber(date), p.weekday, p.modifier))
      [] Counts(p) /\ ~NamesWeekday(p) ->
            Shifted(date, IF p.direction = "past" THEN -p.quantity ELSE p.quantity, p.unit)
      [] NamesUnit(p) /\ ~Counts(p) /\ ~NamesWeekday(p) ->
            Shifted(date, CASE p.modifier = "last" -> -1
                            [] p.modifier = "this" -> 0
                            [] p.modifier = "next" -> 1, p.unit)
      [] OTHER -> Unresolved

Resolve(p, date, zone) ==
    LET local == ResolveLocal(p, date)
    IN  IF local = Unresolved THEN Unresolved
        ELSE <<MidnightUtc(local[1], zone), MidnightUtc(local[2], zone)>>

-----------------------------------------------------------------------------
Ago(q, unit) == Descriptor(NoNumber, Absent, q, unit, "past")
Ahead(q, unit) == Descriptor(NoNumber, Absent, q, unit, "future")
Named(modifier, unit) == Descriptor(NoNumber, modifier, NoNumber, unit, "none")
Called(weekday, modifier) == Descriptor(weekday, modifier, NoNumber, Absent, "none")

\* On every day, in every zone and across its change of offset: the period of
\* zero units ago holds the moment of speaking, and counting back or ahead one
\* more unit gives the period that touches the one before, with no gap and no
\* overlap, at the ends of months of any length too; "last" and "next" are one
\* ago and one ahead.
PeriodsTile ==
    \A date \in Dates, zone \in Zones, unit \in Units :
        LET here == Resolve(Ago(0, unit), date, zone) IN
        /\ \A hour \in {0, 12, 23} :
              /\ here[1] <= InstantAt(DayNumber(date), hour, zone)
              /\ InstantAt(DayNumber(date), hour, zone) < here[2]
        /\ \A q \in Quantities :
              /\ Resolve(Ago(q + 1, unit), date, zone)[2]
                    = Resolve(Ago(q, unit), date, zone)[1]
              /\ Resolve(Ahead(q + 1, unit), date, zone)[1]
                    = Resolve(Ahead(q, unit), date, zone)[2]
        /\ Resolve(Named("last", unit), date, zone) = Resolve(Ago(1, unit), date, zone)
        /\ Resolve(Named("next", unit), date, zone) = Resolve(Ahead(1, unit), date, zone)

\* "last Tuesday" is a Tuesday of the seven days before this one, "next" of the
\* seven after, "this" of the week that "this week" denotes.
WeekdaysAreNear ==
    \A date \in Dates, weekday \in 0..6 :
        LET today == DayNumber(date)
            On(modifier) == ResolveLocal(Called(weekday, modifier), date)[1]
            week == ResolveLocal(Named("this", "week"), date)
        IN  /\ \A modifier \in Modifiers : Weekday(On(modifier)) = weekday
            /\ On("last") \in (today - 7)..(today - 1)
            /\ On("next") \in (today + 1)..(today + 7)
            /\ week[1] <= On("this") /\ On("this") < week[2]
=============================================================================
