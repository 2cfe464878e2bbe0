------------------------- MODULE ScheduleProperties -------------------------
(***************************************************************************)
(* What working hours, availability and recurrence promise.                 *)
(***************************************************************************)
EXTENDS Schedule

(* "multiple intervals per weekday are allowed but must not overlap"        *)
(* (working-hours.entity.ts:4), although two requests may pass the check    *)
(* before either inserts: the constraint is the race-proof backstop.        *)
WindowsDisjoint ==
    \A s \in Staff : \A v, w \in Of(db["hours"], s) : v # w => ~Clash(v, w)

\* A window whose bounds the clock shows exactly once on day d.
Regular(d, w) ==
    \A m \in {w.startMin, w.endMin} : \E u \in Instants(d, m) : Instants(d, m) = {u}

\* The interval x is inside the window w on the wall clock of day d.
Inside(x, d, w) ==
    \A u \in x.start..(x.end - 1) :
        DayOf(u) = d /\ w.startMin <= MinuteOf(u) /\ MinuteOf(u) < w.endMin

\* A slot offered for the day of the query.
Sound(x) ==
    /\ \E w \in HoursOn(seen["hours"], x.staff, date) :
           Overlaps(x.at, WindowOn(date, w)) /\ (Regular(date, w) => Inside(x.at, date, w))
    /\ \A i \in Of(kept["timeOff"], x.staff) : ~Overlaps(x.at, i)
    /\ \A b \in Of(kept["bookings"], x.staff) :
           ~Overlaps(x.at, b) /\
           (Overlaps(b, Day(date)) =>
               x.at.end + bufferBefore <= b.start \/ b.end + bufferAfter <= x.at.start)

(* What is offered can be had: a slot lies, on the tenant's wall clock, in  *)
(* hours that were there at some time during the query, on days when the    *)
(* clock changes too, and it avoids all the time off and, by the service's  *)
(* buffers, all the bookings of the day that were there throughout (compute *)
(* reads the tables one after the other while they change).                 *)
OffersAreSound ==
    pc = "answered" => \A x \in slots : Sound(x)

\* The members of staff a query is about and who could be booked throughout.
Bookable ==
    {s \in kept["roster"] \cap kept["active"] \cap kept["links"] : who \in {s, NoStaff}}

\* The slots of a member of staff are offered or blocked.
Complete(s) ==
    \A w \in HoursOn(kept["hours"], s, date), n \in 0..DAY :
        LET from == localMinutesToUtc(date, w.startMin) + n * Duration
            x == Between(from, from + Duration)
        IN \/ x.end > localMinutesToUtc(date, w.endMin)
           \/ [staff |-> s, at |-> x] \in slots
           \/ \E i \in Of(seen["timeOff"], s) : Overlaps(x, i)
           \/ \E b \in Of(seen["bookings"], s) :
                  x.end + bufferBefore > b.start /\ b.end + bufferAfter > x.start

(* Nothing free is missed: the n-th slot of hours that were there throughout *)
(* is offered unless some time off or booking, there at some time during the *)
(* query, blocks it.  Slots and blockers may touch.                          *)
OffersAreComplete ==
    pc = "answered" => \A s \in Bookable : Complete(s)

-----------------------------------------------------------------------------
(* A rule, by the calendar. *)

WeekOf(d) == (d + 6) \div 7

Named(rule, d) ==
    /\ rule.until # NoDate => d <= rule.until
    /\ IF rule.freq = "daily" THEN (d - rule.startDate) % rule.interval = 0
       ELSE /\ (WeekOf(d) - WeekOf(rule.startDate)) % rule.interval = 0
            /\ IF rule.weekdays = {} THEN d % 7 = rule.startDate % 7
               ELSE d % 7 \in rule.weekdays

\* Days among which a rule has its first MAX_OCCURRENCES days.
Horizon(rule) == rule.startDate..(rule.startDate + 7 * rule.interval * (MAX_OCCURRENCES + 1))

FirstDays(rule, n) ==
    LET named == {d \in Horizon(rule) : Named(rule, d)}
    IN {d \in named : Cardinality({e \in named : e < d}) < n}

(* "Anchored to the local wall clock ... always bounded by                   *)
(* count/until/MAX_OCCURRENCES" (recurrence-expander.ts:19): a rule has an   *)
(* occurrence on each of the first days it names, as many as it asks for and *)
(* allows, none is lost to the bound of the scan; and as long as no day has  *)
(* skipped the time of the rule, each is at that time on the wall clock,     *)
(* across changes of the clock.  After such a day the code stays late by the *)
(* gap.                                                                      *)
RuleIsKept ==
    expanded # NoRule /\ series = NoStaff =>
        LET rule == expanded.rule
            found == expanded.out
            days == FirstDays(rule, IF rule.count \in 1..MAX_OCCURRENCES THEN rule.count
                                    ELSE MAX_OCCURRENCES)
        IN /\ {DayOf(u) : u \in found} = days
           /\ Cardinality(found) = Cardinality(days)
           /\ \A u \in found :
                  (\A d \in rule.startDate..DayOf(u) : Instants(d, rule.startMinutes) # {})
                      => MinuteOf(u) = rule.startMinutes
=============================================================================
