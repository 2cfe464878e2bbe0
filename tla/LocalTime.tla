------------------------------ MODULE LocalTime ------------------------------
(***************************************************************************)
(* Instants and wall clocks of a tenant's time zone, as luxon computes      *)
(* them.  An instant is a number of units since midnight UTC of day 0, a    *)
(* Sunday; the zone runs Gap units ahead of UTC from Spring to Autumn and   *)
(* with UTC otherwise, so that its clock skips Gap units at Spring and      *)
(* repeats Gap units at Autumn.                                             *)
(***************************************************************************)
EXTENDS Integers

CONSTANTS
    DAY,        \* units in a day
    Gap, Spring, Autumn,
    NowOffset   \* the zone's offset at the time of the call

ASSUME ZoneAssumption ==
    /\ DAY \in Nat /\ Gap \in 1..(DAY - 1)
    /\ Spring \in Nat /\ Autumn \in Nat /\ Spring + Gap < Autumn
    /\ NowOffset \in {0, Gap}

Offset(u) == IF Spring <= u /\ u < Autumn THEN Gap ELSE 0

Local(u) == u + Offset(u)

\* The instant of a local time, tried with the offset o first.  A time the
\* clock skips is moved forward; of a time it repeats, o chooses.
FixOffset(local, o) ==
    LET o2 == Offset(local - o)
        o3 == Offset(local - o2)
    IN IF o2 = o3 \/ o = o2 THEN local - o2 ELSE local - (IF o2 < o3 THEN o2 ELSE o3)

DayOf(u) == Local(u) \div DAY
MinuteOf(u) == Local(u) % DAY
Weekday(u) == DayOf(u) % 7

\* The day of the Monday on which the week of u begins.
WeekStart(u) == DayOf(u) - ((DayOf(u) + 6) % 7)

\* DateTime.fromISO(d), set({ hour, minute }), plus({ days }), endOf('day').
FromISO(d) == FixOffset(d * DAY, NowOffset)
SetMinute(u, minute) == FixOffset(DayOf(u) * DAY + minute, Offset(u))
PlusDays(u, n) == FixOffset(Local(u) + n * DAY, Offset(u))
EndOfDay(u) == SetMinute(PlusDays(u, 1), 0) - 1

\* The instants at which the clock shows a minute of a day: none, one or two.
Instants(d, minute) ==
    {u \in {d * DAY + minute, d * DAY + minute - Gap} : Local(u) = d * DAY + minute}

-----------------------------------------------------------------------------

\* Mutant of localMinutesToUtc: minutes are added to midnight.
localMinutesSinceMidnight(d, minutes) == SetMinute(FromISO(d), 0) + minutes

localMinutesToUtc(d, minutes) == SetMinute(SetMinute(FromISO(d), 0), minutes)

weekdayInZone(d) == Weekday(FromISO(d))
=============================================================================
