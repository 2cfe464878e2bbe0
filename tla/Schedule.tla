------------------------------ MODULE Schedule ------------------------------
(***************************************************************************)
(* The schedule of a tenant's staff (who works, performs the service, when, *)
(* and is away or booked when) and the availability query that reads it,    *)
(* table after table, while it changes.  Each read sees what is committed   *)
(* at that moment.  One service; a change that is one statement is one      *)
(* step, and so is the creation of bookings, which BookingService has in    *)
(* detail.                                                                  *)
(*                                                                         *)
(* kept and seen are history: the rows that were there during the whole of  *)
(* the running query, and at some time during it.                           *)
(***************************************************************************)
EXTENDS RecurrenceExpander

CONSTANTS
    Staff, NoStaff,
    Date,              \* the days clients ask for
    Window,            \* weekly hours an admin may enter
    Absence,           \* intervals of time off
    BookingStart,      \* instants clients book
    Rule,              \* recurrence rules clients send
    FirstHours,        \* the weekly hours everyone has at first
    Duration, bufferBefore, bufferAfter,   \* of the service
    Admin,             \* requests that add working hours
    NoWork, NoRule,
    MaxChanges         \* bound on changes of the schedule

ASSUME ServiceAssumption ==
    /\ Duration \in Nat \ {0} /\ bufferBefore \in Nat /\ bufferAfter \in Nat
    /\ MaxChanges \in Nat

\* Two weekly windows that overlap.
Clash(v, w) ==
    /\ v.weekday = w.weekday
    /\ v.startMin < w.endMin /\ w.startMin < v.endMin

\* An interval of instants.
Between(s, t) == [start |-> s, end |-> t]
Interval == [start: Int, end: Int]
Overlaps(a, b) == a.start < b.end /\ b.start < a.end

\* What the DTOs let through.
ASSUME InputAssumption ==
    /\ Date \subseteq Int /\ BookingStart \subseteq Int /\ Absence \subseteq Interval
    /\ \A w \in Window \cup FirstHours : w.startMin \in 0..DAY /\ w.endMin \in 0..DAY
    /\ \A rule \in Rule :
           /\ rule.freq \in {"daily", "weekly"} /\ rule.interval \in Nat \ {0}
           /\ rule.weekdays \subseteq 0..6
           /\ rule.startDate \in Int /\ rule.startMinutes \in 0..(DAY - 1)
           /\ rule.count \in (Nat \ {0}) \cup {NoCount} /\ rule.until \in Int \cup {NoDate}
    /\ MAX_OCCURRENCES \in Nat \ {0} /\ NoCount \notin Nat
    /\ NoStaff \notin Staff

ASSUME HoursAssumption ==
    /\ \A v, w \in FirstHours : v # w => ~Clash(v, w)
    /\ NoWork \notin [staff: Staff, window: Window, at: {"check", "insert", "commit"}]

VARIABLES
    db,         \* the tables, each a set of rows
    admin,      \* admin[a]: the hours a request is adding and how far it is
    series,     \* the staff member a series is being created for
    expanded,   \* the expansion of its rule
    changes,
    pc, date, who,   \* the query: what it reads next, for which day and whom
    todo, cur,       \* the staff it has yet to look at, the one it looks at
    windows, offs,   \* the hours and the time off it has read
    slots,           \* what it offers
    kept, seen

query == <<pc, date, who, todo, cur, windows, offs, slots>>
vars == <<db, admin, series, expanded, changes, query, kept, seen>>

Table == {"roster", "active", "links", "hours", "timeOff", "bookings"}
NoRows == [t \in Table |-> {}]

\* A table of rows with a staff member.
Of(table, s) == {row[2] : row \in {r \in table : r[1] = s}}

TypeOK ==
    /\ DOMAIN db = Table
    /\ db["roster"] \subseteq Staff /\ db["active"] \subseteq Staff /\ db["links"] \subseteq Staff
    /\ db["hours"] \subseteq Staff \X (Window \cup FirstHours)
    /\ \A t \in {"timeOff", "bookings"} : \A row \in db[t] :
           row[1] \in Staff /\ row[2] \in Interval
    /\ \A a \in Admin : admin[a] = NoWork \/ admin[a].at \in {"check", "insert", "commit"}
    /\ series \in Staff \cup {NoStaff} /\ changes \in 0..MaxChanges
    /\ pc \in {"idle", "capable", "perform", "staff", "hours", "timeOff", "bookings", "answered"}
    /\ todo \subseteq Staff
    /\ cur \in IF pc \in {"perform", "staff", "hours", "timeOff", "bookings"} THEN todo ELSE {NoStaff}
    /\ \A x \in slots : x.staff \in Staff /\ x.at \in Interval

Init ==
    /\ db = [NoRows EXCEPT !["roster"] = Staff, !["active"] = Staff, !["links"] = Staff,
                           !["hours"] = Staff \X FirstHours]
    /\ admin = [a \in Admin |-> NoWork]
    /\ series = NoStaff /\ expanded = NoRule
    /\ changes = 0
    /\ pc = "idle" /\ date = NoDate /\ who = NoStaff
    /\ todo = {} /\ cur = NoStaff /\ windows = {} /\ offs = {} /\ slots = {}
    /\ kept = NoRows /\ seen = NoRows

-----------------------------------------------------------------------------
(* Changes of the schedule. *)

Watching == pc \notin {"idle", "answered"}

\* A table changes, and a running query's history with it.
Write(t, rows) ==
    /\ db' = [db EXCEPT ![t] = rows]
    /\ kept' = IF Watching THEN [kept EXCEPT ![t] = @ \cap rows] ELSE kept
    /\ seen' = IF Watching THEN [seen EXCEPT ![t] = @ \cup rows] ELSE seen
    /\ UNCHANGED query

Count == changes < MaxChanges /\ changes' = changes + 1

UpdateStaff(s) ==
    /\ Count /\ s \in db["roster"]
    /\ \E rows \in {db["active"] \cup {s}, db["active"] \ {s}} :
           rows # db["active"] /\ Write("active", rows)
    /\ UNCHANGED <<admin, series, expanded>>

\* softRemove: links, hours and time off stay.
RemoveStaff(s) ==
    /\ Count /\ s \in db["roster"]
    /\ Write("roster", db["roster"] \ {s})
    /\ UNCHANGED <<admin, series, expanded>>

Link(s) ==
    /\ Count /\ s \in db["roster"] \ db["links"]
    /\ Write("links", db["links"] \cup {s})
    /\ UNCHANGED <<admin, series, expanded>>

Unlink(s) ==
    /\ Count /\ s \in db["links"]
    /\ Write("links", db["links"] \ {s})
    /\ UNCHANGED <<admin, series, expanded>>

AddTimeOff(s, i) ==
    /\ Count /\ s \in db["roster"]
    /\ i.start < i.end
    /\ Write("timeOff", db["timeOff"] \cup {<<s, i>>})
    /\ UNCHANGED <<admin, series, expanded>>

RemoveTimeOff(row) ==
    /\ Count
    /\ Write("timeOff", db["timeOff"] \ {row})
    /\ UNCHANGED <<admin, series, expanded>>

RemoveHours(row) ==
    /\ Count
    /\ Write("hours", db["hours"] \ {row})
    /\ UNCHANGED <<admin, series, expanded>>

\* canPerform, and the constraint on overlapping bookings.
Book(s, t) ==
    LET i == Between(t, t + Duration) IN
    /\ Count /\ s \in db["links"]
    /\ \A b \in Of(db["bookings"], s) : ~Overlaps(i, b)
    /\ Write("bookings", db["bookings"] \cup {<<s, i>>})
    /\ UNCHANGED <<admin, series, expanded>>

CancelBooking(row) ==
    /\ Count
    /\ Write("bookings", db["bookings"] \ {row})
    /\ UNCHANGED <<admin, series, expanded>>

\* RecurrenceService.create.  The bound: a series is the only change of its
\* behaviour, so that no occurrence conflicts.
CreateRecurrence(s, rule) ==
    /\ changes = 0 /\ changes' = MaxChanges
    /\ pc = "idle"
    /\ rule.freq = "daily" => rule.weekdays = {}
    /\ s \in db["links"]
    /\ series' = s
    /\ expanded' = expandRecurrence(rule)
    /\ UNCHANGED <<db, admin, query, kept, seen>>

\* The expansion runs without interruption.
Expand ==
    /\ ~Ends(expanded)
    /\ expanded' = Round(expanded)
    /\ UNCHANGED <<db, admin, series, changes, query, kept, seen>>

\* A rule without occurrences is refused, and changes nothing.
InsertOccurrences ==
    /\ Ends(expanded)
    /\ Write("bookings", {<<series, Between(u, u + Duration)>> : u \in expanded.out})
    /\ series' = NoStaff
    /\ UNCHANGED <<admin, expanded, changes>>

-----------------------------------------------------------------------------
(* Working hours: a check, then an insert that a constraint guards. *)

Adding(a, p) == admin[a] # NoWork /\ admin[a].at = p
Drop(a) == admin' = [admin EXCEPT ![a] = NoWork]

CreateHours(a, s, w) ==
    /\ Count /\ admin[a] = NoWork
    /\ s \in db["roster"]
    /\ w.startMin < w.endMin
    /\ admin' = [admin EXCEPT ![a] = [staff |-> s, window |-> w, at |-> "check"]]
    /\ UNCHANGED <<db, series, expanded, query, kept, seen>>

\* The friendly check, which reads what is committed.
CheckHours(a) ==
    LET x == admin[a] IN
    /\ Adding(a, "check")
    /\ IF \E v \in Of(db["hours"], x.staff) : Clash(v, x.window) THEN Drop(a)
       ELSE admin' = [admin EXCEPT ![a].at = "insert"]
    /\ UNCHANGED <<db, series, expanded, changes, query, kept, seen>>

\* Mutant of InsertHours: the check is all there is.
InsertHoursUnchecked(a) ==
    /\ Adding(a, "insert")
    /\ admin' = [admin EXCEPT ![a].at = "commit"]
    /\ UNCHANGED <<db, series, expanded, changes, query, kept, seen>>

\* no_overlap_working_hours: the insert waits for another that is not committed
\* yet, and fails on one that is.
InsertHours(a) ==
    LET x == admin[a] IN
    /\ Adding(a, "insert")
    /\ \A o \in Admin \ {a} : Adding(o, "commit") =>
           ~(admin[o].staff = x.staff /\ Clash(admin[o].window, x.window))
    /\ IF \E v \in Of(db["hours"], x.staff) : Clash(v, x.window) THEN Drop(a)
       ELSE admin' = [admin EXCEPT ![a].at = "commit"]
    /\ UNCHANGED <<db, series, expanded, changes, query, kept, seen>>

CommitHours(a) ==
    /\ Adding(a, "commit")
    /\ Drop(a)
    /\ Write("hours", db["hours"] \cup {<<admin[a].staff, admin[a].window>>})
    /\ UNCHANGED <<series, expanded, changes>>

HoursFail(a) ==
    /\ admin[a] # NoWork
    /\ Drop(a)
    /\ UNCHANGED <<db, series, expanded, changes, query, kept, seen>>

-----------------------------------------------------------------------------
(* AvailabilityService.compute. *)

Reading(p) == pc = p /\ UNCHANGED <<db, admin, series, expanded, changes>>

\* A day, and one member of staff or all of them.
Ask(d, s) ==
    /\ Reading("idle")
    /\ pc' = IF s = NoStaff THEN "capable" ELSE "perform"
    /\ date' = d /\ who' = s
    /\ todo' = IF s = NoStaff THEN {} ELSE {s}
    /\ cur' = s
    /\ kept' = db /\ seen' = db
    /\ UNCHANGED <<windows, offs, slots>>

\* Mutant of Continue: the loop does not move on.
ContinueSame(rest) ==
    /\ todo' = rest
    /\ IF rest = {} THEN pc' = "answered" /\ cur' = NoStaff
       ELSE pc' = "staff" /\ cur' = cur
    /\ windows' = {} /\ offs' = {}

\* The loop goes on with another member of staff, or ends.
Continue(rest) ==
    /\ todo' = rest
    /\ IF rest = {} THEN pc' = "answered" /\ cur' = NoStaff
       ELSE pc' = "staff" /\ cur' \in rest
    /\ windows' = {} /\ offs' = {}

CapableStaff ==
    /\ Reading("capable")
    /\ Continue(db["links"])
    /\ UNCHANGED <<date, who, slots, kept, seen>>

CanPerform ==
    /\ Reading("perform")
    /\ IF cur \in db["links"] THEN pc' = "staff" /\ UNCHANGED <<todo, cur, windows, offs>>
       ELSE Continue({})
    /\ UNCHANGED <<date, who, slots, kept, seen>>

FindStaff ==
    /\ Reading("staff")
    /\ IF cur \in db["roster"] \cap db["active"]
       THEN pc' = "hours" /\ UNCHANGED <<todo, cur, windows, offs>>
       ELSE Continue(todo \ {cur})
    /\ UNCHANGED <<date, who, slots, kept, seen>>

\* The hours of a member of staff on a day.
HoursOn(table, s, d) == {w \in Of(table, s) : w.weekday = weekdayInZone(d)}

ReadHours ==
    /\ Reading("hours")
    /\ LET found == HoursOn(db["hours"], cur, date) IN
       IF found = {} THEN Continue(todo \ {cur})
       ELSE windows' = found /\ pc' = "timeOff" /\ UNCHANGED <<todo, cur, offs>>
    /\ UNCHANGED <<date, who, slots, kept, seen>>

Day(d) == Between(localMinutesToUtc(d, 0), localMinutesToUtc(d, DAY))

ReadTimeOff ==
    /\ Reading("timeOff")
    /\ offs' = {i \in Of(db["timeOff"], cur) : Overlaps(i, Day(date))}
    /\ pc' = "bookings"
    /\ UNCHANGED <<date, who, todo, cur, windows, slots, kept, seen>>

Padded(b) == Between(b.start - bufferBefore, b.end + bufferAfter)

\* Mutant of generateSlots: a slot must not touch a blocker.
generateSlotsApart(w, blockers) ==
    {x \in {Between(w.start + k * Duration, w.start + (k + 1) * Duration) :
                k \in 0..(w.end - w.start)} :
        x.end <= w.end /\ \A b \in blockers : ~(x.start <= b.end /\ b.start <= x.end)}

generateSlots(w, blockers) ==
    {x \in {Between(w.start + k * Duration, w.start + (k + 1) * Duration) :
                k \in 0..(w.end - w.start)} :
        x.end <= w.end /\ \A b \in blockers : ~Overlaps(x, b)}

WindowOn(d, w) == Between(localMinutesToUtc(d, w.startMin), localMinutesToUtc(d, w.endMin))

ReadBookings ==
    LET booked == {b \in Of(db["bookings"], cur) : Overlaps(b, Day(date))}
        blockers == offs \cup {Padded(b) : b \in booked}
        free == UNION {generateSlots(WindowOn(date, w), blockers) : w \in windows}
    IN /\ Reading("bookings")
       /\ slots' = slots \cup {[staff |-> cur, at |-> x] : x \in free}
       /\ Continue(todo \ {cur})
       /\ UNCHANGED <<date, who, kept, seen>>

\* The answer is sent; a later query starts afresh.
Answer ==
    /\ Reading("answered")
    /\ pc' = "idle" /\ date' = NoDate /\ who' = NoStaff /\ slots' = {}
    /\ kept' = NoRows /\ seen' = NoRows
    /\ UNCHANGED <<todo, cur, windows, offs>>

-----------------------------------------------------------------------------
Change ==
    \/ \E s \in Staff : UpdateStaff(s) \/ RemoveStaff(s) \/ Link(s) \/ Unlink(s)
    \/ \E s \in Staff, i \in Absence : AddTimeOff(s, i)
    \/ \E row \in db["timeOff"] : RemoveTimeOff(row)
    \/ \E row \in db["hours"] : RemoveHours(row)
    \/ \E s \in Staff, t \in BookingStart : Book(s, t)
    \/ \E row \in db["bookings"] : CancelBooking(row)
    \/ \E s \in Staff, rule \in Rule : CreateRecurrence(s, rule)

AdminStep(a) ==
    \/ \E s \in Staff, w \in Window : CreateHours(a, s, w)
    \/ CheckHours(a) \/ InsertHours(a) \/ CommitHours(a) \/ HoursFail(a)

Query ==
    \/ \E d \in Date, s \in Staff \cup {NoStaff} : Ask(d, s)
    \/ CapableStaff \/ CanPerform \/ FindStaff
    \/ ReadHours \/ ReadTimeOff \/ ReadBookings \/ Answer

Next ==
    \/ series = NoStaff /\ (Change \/ (\E a \in Admin : AdminStep(a)) \/ Query)
    \/ series # NoStaff /\ (Expand \/ InsertOccurrences)

Spec == Init /\ [][Next]_vars
=============================================================================
