------------------------- MODULE RecurrenceExpander -------------------------
(***************************************************************************)
(* The occurrences of a recurrence rule (recurrence-expander.ts), round by  *)
(* round of its loops.  The list of instants it builds increases, and is    *)
(* the set of them here.                                                    *)
(***************************************************************************)
EXTENDS LocalTime, FiniteSets, FiniteSetsExt

CONSTANTS
    MAX_OCCURRENCES,
    NoCount, NoDate   \* an absent count, an absent until

Start(rule) == SetMinute(FromISO(rule.startDate), rule.startMinutes)

Limit(rule) ==
    IF rule.count = NoCount THEN MAX_OCCURRENCES ELSE Min({rule.count, MAX_OCCURRENCES})

Past(rule, u) == rule.until # NoDate /\ u > EndOfDay(FromISO(rule.until))

\* The days on which a weekly rule fires; without any, the one it starts on.
Weekdays(rule) == IF rule.weekdays = {} THEN {Weekday(Start(rule))} ELSE rule.weekdays

\* Mutant of MaxScanDays: the interval is forgotten.
MaxScanDaysEachWeek(rule) ==
    LET n == Cardinality(Weekdays(rule)) IN ((Limit(rule) + n - 1) \div n) * 7 + 7

\* Limit, divided by the days per week and rounded up, active weeks and one more.
MaxScanDays(rule) ==
    LET n == Cardinality(Weekdays(rule))
    IN ((Limit(rule) + n - 1) \div n) * rule.interval * 7 + 7

Fires(rule, u) ==
    /\ ((WeekStart(u) - WeekStart(Start(rule))) \div 7) % rule.interval = 0
    /\ Weekday(u) \in Weekdays(rule)

\* Where a call stands: its rule, its cursor, the days a weekly rule has
\* scanned, the occurrences so far.
expandRecurrence(rule) ==
    [rule |-> rule, cursor |-> Start(rule), scanned |-> 0, out |-> {}]

Ends(x) ==
    \/ Cardinality(x.out) = Limit(x.rule)
    \/ x.rule.freq = "weekly" /\ x.scanned = MaxScanDays(x.rule)
    \/ Past(x.rule, x.cursor)

\* A round of the loop.
expandDaily(x) ==
    [rule |-> x.rule, cursor |-> PlusDays(x.cursor, x.rule.interval),
     scanned |-> x.scanned, out |-> x.out \cup {x.cursor}]

expandWeekly(x) ==
    [rule |-> x.rule, cursor |-> PlusDays(x.cursor, 1), scanned |-> x.scanned + 1,
     out |-> IF Fires(x.rule, x.cursor) THEN x.out \cup {x.cursor} ELSE x.out]

Round(x) == IF x.rule.freq = "daily" THEN expandDaily(x) ELSE expandWeekly(x)
=============================================================================
