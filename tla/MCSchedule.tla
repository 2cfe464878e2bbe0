----------------------------- MODULE MCSchedule -----------------------------
(***************************************************************************)
(* An instance of Schedule for TLC.  A day has six units; on day 8, a       *)
(* Monday, the clock skips the third, and on day 10, a Wednesday, it        *)
(* repeats the third.                                                       *)
(***************************************************************************)
EXTENDS ScheduleProperties, TLC

Hours(d, from, to) == [weekday |-> d, startMin |-> from, endMin |-> to]

AllDay == {Hours(1, 1, 6), Hours(3, 1, 4)}

\* Clashing with the first hours, and with each other.
NewHours == {Hours(1, 0, 2), Hours(3, 4, 6), Hours(3, 5, 6)}

\* Part of each of the days, and from one into the other.
Absences == {Between(49, 51), Between(52, 61)}

\* On both days, one of them at midnight.
Starts == {51, 59, 62}

Rules ==
    [freq: {"daily"}, interval: {1, 2, 3}, weekdays: {{}}, startDate: {5, 7, 8},
     startMinutes: {0, 2, 5}, count: {NoCount, 1, 3, 5}, until: {NoDate, 8, 12}]
    \cup
    [freq: {"weekly"}, interval: {1, 2, 3}, weekdays: {{}, {1}, {0, 3}, {1, 2, 6}},
     startDate: {1, 3, 6, 7}, startMinutes: {2, 4}, count: {NoCount, 1, 3, 5},
     until: {NoDate, 8, 20}]

Symmetric == Permutations(Staff) \cup Permutations(Admin)
=============================================================================
