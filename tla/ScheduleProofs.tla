--------------------------- MODULE ScheduleProofs ---------------------------
(***************************************************************************)
(* Proofs for any staff, windows, rules, zone and number of requests: the   *)
(* weekly hours of a member of staff never overlap (WindowsDisjoint), the   *)
(* state keeps its types, what an availability query offers while the       *)
(* tables change is sound and complete (OffersAreSound, OffersAreComplete), *)
(* and a series has the occurrences its rule names (RuleIsKept).            *)
(*                                                                         *)
(* WindowsDisjoint alone is not inductive: the windows inserted and not yet *)
(* committed must clash neither with the committed ones nor with each other *)
(* (HInv).  The offers need what a query knows at each of its reads, in     *)
(* terms of the rows kept and seen since it began (QueryOK), and that       *)
(* whoever it is done with is complete (LeftToDo).  A rule needs the count  *)
(* of what each week of the scan has contributed (Scan).                    *)
(***************************************************************************)
EXTENDS ScheduleProperties, FiniteSetTheorems, TLAPS

AdminWork == [staff: Staff, window: Window, at: {"check", "insert", "commit"}]

\* The tables, and the requests that add hours.
Shape == /\ db = [t \in Table |-> db[t]]
         /\ admin \in [Admin -> AdminWork \cup {NoWork}]

\* A window inserted by an open transaction does not clash with the table.
InsertedFits ==
    \A a \in Admin : Adding(a, "commit") =>
        \A v \in Of(db["hours"], admin[a].staff) : ~Clash(v, admin[a].window)

\* Nor do the windows of two open transactions clash with each other.
InsertedApart ==
    \A a, b \in Admin :
        a # b /\ Adding(a, "commit") /\ Adding(b, "commit") /\ admin[a].staff = admin[b].staff
            => ~Clash(admin[a].window, admin[b].window)

HInv == Shape /\ WindowsDisjoint /\ InsertedFits /\ InsertedApart

-----------------------------------------------------------------------------

\* Everyone starts with the same hours, which do not overlap.
LEMMA HInvInit == Init => HInv
  <1> SUFFICES ASSUME Init PROVE HInv
    OBVIOUS
  <1>1. Shape
    BY DEF Init, Shape, NoRows, Table
  <1>2. db["hours"] = Staff \X FirstHours
    BY DEF Init, NoRows, Table
  <1>3. ASSUME NEW s \in Staff, NEW v \in Of(db["hours"], s)
        PROVE  v \in FirstHours
    BY <1>2, <1>3 DEF Of
  <1>4. WindowsDisjoint
    BY <1>3, HoursAssumption DEF WindowsDisjoint
  <1>5. InsertedFits /\ InsertedApart
    BY DEF Init, InsertedFits, InsertedApart, Adding
  <1> QED
    BY <1>1, <1>4, <1>5 DEF HInv

\* A step that leaves the requests alone and takes rows of the hours away, if
\* it touches them.
LEMMA HInvFewer ==
    ASSUME HInv, admin' = admin, db' = [t \in Table |-> db'[t]],
           db'["hours"] \subseteq db["hours"]
    PROVE  HInv'
  <1>1. \A s : Of(db'["hours"], s) \subseteq Of(db["hours"], s)
    BY DEF Of
  <1>2. Shape'
    BY DEF HInv, Shape
  <1>3. WindowsDisjoint'
    BY <1>1 DEF HInv, WindowsDisjoint
  <1>4. InsertedFits' /\ InsertedApart'
    BY <1>1 DEF HInv, InsertedFits, InsertedApart, Adding
  <1> QED
    BY <1>2, <1>3, <1>4 DEF HInv

\* What a write of a table leaves in the table of hours.
LEMMA WriteHours ==
    ASSUME HInv, NEW t \in Table, NEW rows, Write(t, rows)
    PROVE  /\ db' = [x \in Table |-> db'[x]]
           /\ db'["hours"] = IF t = "hours" THEN rows ELSE db["hours"]
  BY DEF HInv, Shape, Write, Table

\* Changes of the schedule other than the addition of hours.
LEMMA HInvChange ==
    ASSUME HInv, Change
    PROVE  HInv'
  <1>1. ASSUME NEW s \in Staff, UpdateStaff(s) \/ RemoveStaff(s) \/ Link(s) \/ Unlink(s)
        PROVE  HInv'
    <2>0. PICK t \in {"active", "roster", "links"} : \E rows : Write(t, rows)
      BY <1>1, Zenon DEF UpdateStaff, RemoveStaff, Link, Unlink
    <2>1. PICK rows : Write(t, rows)
      BY <2>0
    <2>2. admin' = admin
      BY <1>1 DEF UpdateStaff, RemoveStaff, Link, Unlink
    <2> QED
      BY <2>1, <2>2, WriteHours, HInvFewer DEF Table
  <1>2. ASSUME NEW s \in Staff, NEW i \in Absence, AddTimeOff(s, i)
        PROVE  HInv'
    BY <1>2, WriteHours, HInvFewer DEF AddTimeOff, Table
  <1>3. ASSUME NEW row \in db["timeOff"], RemoveTimeOff(row)
        PROVE  HInv'
    BY <1>3, WriteHours, HInvFewer DEF RemoveTimeOff, Table
  <1>4. ASSUME NEW row \in db["hours"], RemoveHours(row)
        PROVE  HInv'
    BY <1>4, WriteHours, HInvFewer DEF RemoveHours, Table
  <1>5. ASSUME NEW s \in Staff, NEW t \in BookingStart, Book(s, t)
        PROVE  HInv'
    BY <1>5, WriteHours, HInvFewer DEF Book, Table
  <1>6. ASSUME NEW row \in db["bookings"], CancelBooking(row)
        PROVE  HInv'
    BY <1>6, WriteHours, HInvFewer DEF CancelBooking, Table
  <1>7. ASSUME NEW s \in Staff, NEW rule \in Rule, CreateRecurrence(s, rule)
        PROVE  HInv'
    BY <1>7, HInvFewer DEF CreateRecurrence, HInv, Shape
  <1> QED
    BY <1>1, <1>2, <1>3, <1>4, <1>5, <1>6, <1>7 DEF Change

\* A request gives up, or begins: no window is inserted by it.
LEMMA HInvDrop ==
    ASSUME HInv, NEW a \in Admin, db' = db,
           NEW w \in AdminWork \cup {NoWork}, w = NoWork \/ w.at # "commit",
           admin' = [admin EXCEPT ![a] = w]
    PROVE  HInv'
  <1>1. Shape'
    BY DEF HInv, Shape
  <1>2. \A b \in Admin : Adding(b, "commit")' => Adding(b, "commit") /\ admin'[b] = admin[b]
    BY DEF HInv, Shape, Adding
  <1>3. WindowsDisjoint'
    BY DEF HInv, WindowsDisjoint
  <1>4. InsertedFits' /\ InsertedApart'
    BY <1>2 DEF HInv, InsertedFits, InsertedApart
  <1> QED
    BY <1>1, <1>3, <1>4 DEF HInv

\* The insert passes the constraint: it clashes with no committed window, and
\* with none of another open transaction.
LEMMA HInvInsert ==
    ASSUME HInv, NEW a \in Admin, InsertHours(a)
    PROVE  HInv'
  <1> DEFINE x == admin[a]
             done == [staff |-> x.staff, window |-> x.window, at |-> "commit"]
  <1>0. x \in AdminWork /\ db' = db
    BY DEF HInv, Shape, InsertHours, Adding
  <1>1. CASE \E v \in Of(db["hours"], x.staff) : Clash(v, x.window)
    <2>1. admin' = [admin EXCEPT ![a] = NoWork]
      BY <1>1 DEF InsertHours, Drop
    <2> QED
      BY <1>0, <2>1, HInvDrop
  <1>2. CASE ~\E v \in Of(db["hours"], x.staff) : Clash(v, x.window)
    <2>1. admin' = [admin EXCEPT ![a] = done]
      BY <1>0, <1>2 DEF InsertHours, HInv, Shape, AdminWork
    <2>2. done \in AdminWork
      BY <1>0 DEF AdminWork
    <2> HIDE DEF done
    <2>3. Shape'
      BY <1>0, <2>1, <2>2 DEF HInv, Shape
    <2>4. admin'[a] = done /\ \A b \in Admin \ {a} : admin'[b] = admin[b]
      BY <2>1 DEF HInv, Shape
    <2>5. done.staff = x.staff /\ done.window = x.window
      BY DEF done
    <2>6. InsertedFits'
      BY <1>0, <1>2, <2>4, <2>5 DEF HInv, InsertedFits, Adding
    <2>7. \A o \in Admin \ {a} : Adding(o, "commit") =>
             ~(admin[o].staff = x.staff /\ Clash(admin[o].window, x.window))
      BY DEF InsertHours
    <2>8. InsertedApart'
      BY <2>4, <2>5, <2>7 DEF HInv, InsertedApart, Adding, Clash
    <2>9. WindowsDisjoint'
      BY <1>0 DEF HInv, WindowsDisjoint
    <2> QED
      BY <2>3, <2>6, <2>8, <2>9 DEF HInv
  <1> QED
    BY <1>1, <1>2

\* The commit adds one window, which fits.
LEMMA HInvCommit ==
    ASSUME HInv, NEW a \in Admin, CommitHours(a)
    PROVE  HInv'
  <1> DEFINE x == admin[a]
             rows == db["hours"] \cup {<<x.staff, x.window>>}
  <1>1. /\ db' = [t \in Table |-> db'[t]] /\ db'["hours"] = rows
        /\ admin' = [admin EXCEPT ![a] = NoWork]
    BY WriteHours DEF CommitHours, Drop, Table
  <1>2. /\ x \in AdminWork /\ Adding(a, "commit")
    BY DEF HInv, Shape, CommitHours, Adding
  <1>3. \A s : Of(rows, s) \subseteq Of(db["hours"], s) \cup {x.window}
    BY DEF Of
  <1>4. \A s : s # x.staff => Of(rows, s) \subseteq Of(db["hours"], s)
    BY DEF Of
  <1> HIDE DEF rows
  <1>5. Shape'
    BY <1>1 DEF HInv, Shape
  <1>6. WindowsDisjoint'
    <2> SUFFICES ASSUME NEW s \in Staff, NEW v \in Of(rows, s), NEW w \in Of(rows, s), v # w
                 PROVE  ~Clash(v, w)
      BY <1>1 DEF WindowsDisjoint
    <2>1. CASE s # x.staff
      BY <1>4, <2>1 DEF HInv, WindowsDisjoint
    <2>2. CASE s = x.staff
      <3>1. CASE v \in Of(db["hours"], s) /\ w \in Of(db["hours"], s)
        BY <3>1 DEF HInv, WindowsDisjoint
      <3>2. \A u \in Of(db["hours"], s) : ~Clash(u, x.window) /\ ~Clash(x.window, u)
        BY <1>2, <2>2 DEF HInv, InsertedFits, Clash
      <3> QED
        BY <1>3, <3>1, <3>2
    <2> QED
      BY <2>1, <2>2
  <1>7. \A b \in Admin : Adding(b, "commit")' =>
           b # a /\ Adding(b, "commit") /\ admin'[b] = admin[b]
    BY <1>1 DEF HInv, Shape, Adding
  <1>8. InsertedApart'
    BY <1>7 DEF HInv, InsertedApart
  <1>9. InsertedFits'
    <2> SUFFICES ASSUME NEW b \in Admin, b # a, Adding(b, "commit"), admin'[b] = admin[b],
                        NEW v \in Of(rows, admin[b].staff)
                 PROVE  ~Clash(v, admin[b].window)
      BY <1>1, <1>7 DEF InsertedFits
    <2>1. CASE v \in Of(db["hours"], admin[b].staff)
      BY <2>1 DEF HInv, InsertedFits
    <2>2. CASE v \notin Of(db["hours"], admin[b].staff)
      <3>1. v = x.window /\ admin[b].staff = x.staff
        BY <1>3, <1>4, <2>2
      <3> QED
        BY <1>2, <3>1 DEF HInv, InsertedApart
    <2> QED
      BY <2>1, <2>2
  <1> QED
    BY <1>5, <1>6, <1>8, <1>9 DEF HInv

\* Steps of a request that adds hours.
LEMMA HInvAdmin ==
    ASSUME HInv, NEW a \in Admin, AdminStep(a)
    PROVE  HInv'
  <1>1. ASSUME NEW s \in Staff, NEW w \in Window, CreateHours(a, s, w)
        PROVE  HInv'
    <2> DEFINE new == [staff |-> s, window |-> w, at |-> "check"]
    <2>1. new \in AdminWork /\ new.at # "commit"
      BY DEF AdminWork
    <2>2. db' = db /\ admin' = [admin EXCEPT ![a] = new]
      BY <1>1 DEF CreateHours
    <2> HIDE DEF new
    <2> QED
      BY <2>1, <2>2, HInvDrop
  <1>2. CASE CheckHours(a)
    <2> DEFINE new == [staff |-> admin[a].staff, window |-> admin[a].window, at |-> "insert"]
    <2>1. admin[a] \in AdminWork /\ db' = db
      BY <1>2 DEF HInv, Shape, CheckHours, Adding
    <2>2. new \in AdminWork /\ new.at # "commit"
      BY <2>1 DEF AdminWork
    <2>3. admin' = [admin EXCEPT ![a] = NoWork] \/ admin' = [admin EXCEPT ![a] = new]
      BY <1>2, <2>1 DEF CheckHours, Drop, HInv, Shape, AdminWork
    <2> HIDE DEF new
    <2> QED
      BY <2>1, <2>2, <2>3, HInvDrop
  <1>3. CASE HoursFail(a)
    BY <1>3, HInvDrop DEF HoursFail, Drop
  <1> QED
    BY <1>1, <1>2, <1>3, HInvInsert, HInvCommit DEF AdminStep

\* Every step of the schedule.
LEMMA HInvNext == HInv /\ [Next]_vars => HInv'
  <1> SUFFICES ASSUME HInv, [Next]_vars PROVE HInv'
    OBVIOUS
  <1>1. CASE Query \/ Expand \/ UNCHANGED vars
    <2>1. db' = db /\ admin' = admin
      BY <1>1 DEF Query, Expand, Ask, CapableStaff, CanPerform, FindStaff, ReadHours,
                  ReadTimeOff, ReadBookings, Answer, Reading, vars
    <2> QED
      BY <2>1, HInvFewer DEF HInv, Shape
  <1>2. CASE InsertOccurrences
    BY <1>2, WriteHours, HInvFewer DEF InsertOccurrences, Table
  <1> QED
    BY <1>1, <1>2, HInvChange, HInvAdmin DEF Next

\* The weekly hours of a member of staff never overlap, whatever requests add
\* and remove at the same time (WorkingHoursService.create and the constraint
\* no_overlap_working_hours).
THEOREM ScheduleWindowsDisjoint == Spec => []WindowsDisjoint
  <1>1. HInv => WindowsDisjoint
    BY DEF HInv
  <1> QED
    BY <1>1, HInvInit, HInvNext, PTL DEF Spec

-----------------------------------------------------------------------------
(* The clock. *)

\* The zone's constants, as the provers use them.
LEMMA ZoneTypes ==
    /\ DAY \in Nat /\ DAY > 1 /\ Gap \in Nat /\ 0 < Gap /\ Gap < DAY
    /\ Spring \in Nat /\ Autumn \in Nat /\ Spring + Gap < Autumn
    /\ NowOffset \in {0, Gap}
  BY ZoneAssumption

\* The zone has two offsets.
LEMMA OffsetCases == \A u : Offset(u) \in {0, Gap}
  BY DEF Offset

\* What FixOffset computes: a local time from the end of the gap to the change
\* in autumn is Gap earlier, and so is a repeated one if o is summer's offset.
Placed(local, o) ==
    IF Spring + Gap <= local /\ local < Autumn + o THEN local - Gap ELSE local

\* The two tries of FixOffset come to that.
LEMMA FixOffsetIs ==
    ASSUME NEW local \in Int, NEW o \in {0, Gap}
    PROVE  FixOffset(local, o) = Placed(local, o)
  BY ZoneTypes DEF FixOffset, Offset, Placed

\* The clock at the instant of a local time shows that time, or Gap later if it
\* is skipped.
LEMMA LocalOfPlaced ==
    ASSUME NEW local \in Int, NEW o \in {0, Gap}
    PROVE  /\ Placed(local, o) \in Int
           /\ Local(Placed(local, o)) \in {local, local + Gap}
  BY ZoneTypes DEF Placed, Local, Offset

\* Quotient and remainder of a number given by them.
LEMMA Division ==
    ASSUME NEW N \in Nat, N > 0, NEW d \in Int, NEW k \in 0..(N - 1)
    PROVE  (d * N + k) \div N = d /\ (d * N + k) % N = k
  OBVIOUS

\* Midnight of a day, skipped or not, is an instant of the day.
LEMMA DayOfMidnight ==
    ASSUME NEW d \in Int, NEW o \in {0, Gap}
    PROVE  /\ FixOffset(d * DAY, o) \in Int
           /\ DayOf(FixOffset(d * DAY, o)) = d
  <1>1. d * DAY \in Int
    BY ZoneTypes
  <1>2. FixOffset(d * DAY, o) = Placed(d * DAY, o)
    BY <1>1, FixOffsetIs
  <1>3. /\ Placed(d * DAY, o) \in Int
        /\ Local(Placed(d * DAY, o)) \in {d * DAY, d * DAY + Gap}
    BY <1>1, LocalOfPlaced
  <1>4. (d * DAY + 0) \div DAY = d /\ (d * DAY + Gap) \div DAY = d
    BY ZoneTypes, Division
  <1>5. d * DAY + 0 = d * DAY
    BY <1>1
  <1> QED
    BY <1>2, <1>3, <1>4, <1>5 DEF DayOf

\* The offset localMinutesToUtc resolves the minutes of a day with.
OffsetOn(d) == Offset(FixOffset(d * DAY, Offset(FromISO(d))))

\* All minutes of a day are resolved with one offset.
LEMMA MinutesToUtc ==
    ASSUME NEW d \in Int, NEW m \in Int
    PROVE  /\ OffsetOn(d) \in {0, Gap} /\ d * DAY + m \in Int
           /\ localMinutesToUtc(d, m) = Placed(d * DAY + m, OffsetOn(d))
           /\ localMinutesToUtc(d, m) \in Int
  <1> DEFINE u0 == FromISO(d)
             u1 == FixOffset(d * DAY, Offset(u0))
  <1>0. d * DAY \in Int /\ d * DAY + m \in Int /\ d * DAY + 0 = d * DAY
    BY ZoneTypes
  <1>1. DayOf(u0) = d
    BY ZoneTypes, DayOfMidnight DEF FromISO
  <1>2. DayOf(u1) = d
    BY OffsetCases, DayOfMidnight
  <1>3. SetMinute(u0, 0) = u1
    BY <1>0, <1>1 DEF SetMinute
  <1>4. localMinutesToUtc(d, m) = FixOffset(d * DAY + m, OffsetOn(d))
    BY <1>2, <1>3 DEF localMinutesToUtc, SetMinute, OffsetOn
  <1>5. OffsetOn(d) \in {0, Gap}
    BY OffsetCases DEF OffsetOn
  <1> QED
    BY <1>0, <1>4, <1>5, FixOffsetIs, LocalOfPlaced

\* Calculations with instants give instants.
LEMMA MinuteTypes ==
    ASSUME NEW u \in Int, NEW m \in Int, NEW n \in Int
    PROVE  /\ SetMinute(u, m) \in Int /\ PlusDays(u, n) \in Int
  <1>1. Local(u) \in Int /\ Offset(u) \in {0, Gap}
    BY ZoneTypes DEF Local, Offset
  <1>2. DayOf(u) \in Int
    BY <1>1, ZoneTypes DEF DayOf
  <1>3. DayOf(u) * DAY + m \in Int /\ Local(u) + n * DAY \in Int
    BY <1>1, <1>2, ZoneTypes
  <1> QED
    BY <1>1, <1>3, FixOffsetIs, LocalOfPlaced DEF SetMinute, PlusDays

\* A time shown exactly once is neither skipped nor repeated.
LEMMA ShownOnce ==
    ASSUME NEW d \in Int, NEW m \in Int, NEW u, Instants(d, m) = {u}
    PROVE  LET local == d * DAY + m
           IN /\ local < Spring \/ Spring + Gap <= local
              /\ local < Autumn \/ Autumn + Gap <= local
  <1> DEFINE local == d * DAY + m
  <1>0. local \in Int /\ Instants(d, m) = {v \in {local, local - Gap} : Local(v) = local}
    BY ZoneTypes DEF Instants
  <1> HIDE DEF local
  <1>1. Local(local) = local \/ Local(local - Gap) = local
    BY <1>0
  <1>2. ~(Local(local) = local /\ Local(local - Gap) = local)
    BY <1>0, ZoneTypes
  <1>3. /\ local < Spring \/ Spring + Gap <= local
        /\ local < Autumn \/ Autumn + Gap <= local
    BY <1>0, <1>1, <1>2, ZoneTypes DEF Local, Offset
  <1> QED
    BY <1>3 DEF local

\* Between two times shown once the clock shows the times between them.
LEMMA ClockBetween ==
    ASSUME NEW a \in Int, NEW b \in Int, NEW o \in {0, Gap}, NEW u \in Int,
           a < Spring \/ Spring + Gap <= a, a < Autumn \/ Autumn + Gap <= a,
           b < Spring \/ Spring + Gap <= b, b < Autumn \/ Autumn + Gap <= b,
           Placed(a, o) <= u, u < Placed(b, o)
    PROVE  a <= Local(u) /\ Local(u) < b
  BY ZoneTypes DEF Placed, Local, Offset

\* A local time of day d, by its minute.
LEMMA MinuteOfDay ==
    ASSUME NEW d \in Int, NEW s \in 0..DAY, NEW e \in 0..DAY, NEW u \in Int,
           d * DAY + s <= Local(u), Local(u) < d * DAY + e
    PROVE  DayOf(u) = d /\ s <= MinuteOf(u) /\ MinuteOf(u) < e
  <1> DEFINE k == Local(u) - d * DAY
  <1>1. Local(u) \in Int /\ d * DAY \in Int
    BY ZoneTypes DEF Local, Offset
  <1>2. k \in 0..(DAY - 1) /\ s <= k /\ k < e
    BY <1>1, ZoneTypes
  <1>3. Local(u) = d * DAY + k
    BY <1>1
  <1> HIDE DEF k
  <1>4. (d * DAY + k) \div DAY = d /\ (d * DAY + k) % DAY = k
    BY <1>2, ZoneTypes, Division
  <1> QED
    BY <1>2, <1>3, <1>4 DEF DayOf, MinuteOf

\* The bounds of an interval.
LEMMA BetweenFields == \A s, t : Between(s, t).start = s /\ Between(s, t).end = t
  BY DEF Between

\* Part of a window whose bounds are shown once is inside it on the clock.
LEMMA InsideWindow ==
    ASSUME NEW d \in Int, NEW w, w.startMin \in 0..DAY, w.endMin \in 0..DAY,
           NEW x \in Interval,
           WindowOn(d, w).start <= x.start, x.end <= WindowOn(d, w).end, Regular(d, w)
    PROVE  Inside(x, d, w)
  <1> DEFINE a == d * DAY + w.startMin
             b == d * DAY + w.endMin
             o == OffsetOn(d)
  <1>0. w.startMin \in Int /\ w.endMin \in Int
    BY ZoneTypes
  <1>1. /\ a \in Int /\ b \in Int /\ o \in {0, Gap}
        /\ localMinutesToUtc(d, w.startMin) = Placed(a, o)
        /\ localMinutesToUtc(d, w.endMin) = Placed(b, o)
    BY <1>0, MinutesToUtc
  <1>2. WindowOn(d, w).start = Placed(a, o) /\ WindowOn(d, w).end = Placed(b, o)
    BY <1>1, BetweenFields DEF WindowOn
  <1>3. /\ \E u : Instants(d, w.startMin) = {u}
        /\ \E u : Instants(d, w.endMin) = {u}
    BY DEF Regular
  <1>5. /\ a < Spring \/ Spring + Gap <= a
        /\ a < Autumn \/ Autumn + Gap <= a
    BY <1>0, <1>3, ShownOnce
  <1>6. /\ b < Spring \/ Spring + Gap <= b
        /\ b < Autumn \/ Autumn + Gap <= b
    BY <1>0, <1>3, ShownOnce
  <1> SUFFICES ASSUME NEW u \in x.start..(x.end - 1)
               PROVE  DayOf(u) = d /\ w.startMin <= MinuteOf(u) /\ MinuteOf(u) < w.endMin
    BY DEF Inside
  <1>7. x.start \in Int /\ x.end \in Int
    BY DEF Interval
  <1>8. Placed(a, o) \in Int /\ Placed(b, o) \in Int
    BY <1>1, LocalOfPlaced
  <1>9. u \in Int /\ Placed(a, o) <= u /\ u < Placed(b, o)
    BY <1>2, <1>7, <1>8
  <1> HIDE DEF o
  <1>10. a <= Local(u) /\ Local(u) < b
    BY <1>1, <1>5, <1>6, <1>9, ClockBetween
  <1> QED
    BY <1>9, <1>10, MinuteOfDay

\* The clock does not skip the beginning of a day, nor a time that it then moves
\* over the end of the day.
MidnightsShown ==
    \A d \in Date : /\ d * DAY <= Spring \/ Spring + Gap <= d * DAY
                    /\ (d + 1) * DAY < Spring + Gap \/ Spring + 2 * Gap <= (d + 1) * DAY

\* Under such midnights a time between two others is placed between them.
LEMMA PlacedInDay ==
    ASSUME NEW s \in Int, NEW e \in Int, NEW a \in Int, NEW b \in Int, NEW o \in {0, Gap},
           s <= Spring \/ Spring + Gap <= s,
           e < Spring + Gap \/ Spring + 2 * Gap <= e,
           s <= a, b <= e
    PROVE  Placed(s, o) <= Placed(a, o) /\ Placed(b, o) <= Placed(e, o)
  BY ZoneTypes DEF Placed

\* A window is then inside its day.
LEMMA WindowInDay ==
    ASSUME MidnightsShown, NEW d \in Date, NEW w, w.startMin \in 0..DAY, w.endMin \in 0..DAY
    PROVE  Day(d).start <= WindowOn(d, w).start /\ WindowOn(d, w).end <= Day(d).end
  <1> DEFINE a == d * DAY + w.startMin
             b == d * DAY + w.endMin
             s == d * DAY + 0
             e == d * DAY + DAY
             o == OffsetOn(d)
  <1>0. d \in Int /\ w.startMin \in Int /\ w.endMin \in Int /\ 0 \in Int /\ DAY \in Int
    BY InputAssumption, ZoneTypes
  <1>1. /\ a \in Int /\ b \in Int /\ s \in Int /\ e \in Int /\ o \in {0, Gap}
        /\ localMinutesToUtc(d, w.startMin) = Placed(a, o)
        /\ localMinutesToUtc(d, w.endMin) = Placed(b, o)
        /\ localMinutesToUtc(d, 0) = Placed(s, o)
        /\ localMinutesToUtc(d, DAY) = Placed(e, o)
    BY <1>0, MinutesToUtc
  <1>2. s = d * DAY /\ e = (d + 1) * DAY
    BY <1>0, ZoneTypes
  <1>3. s <= a /\ b <= e
    BY <1>0, <1>1, ZoneTypes
  <1>4. /\ s <= Spring \/ Spring + Gap <= s
        /\ e < Spring + Gap \/ Spring + 2 * Gap <= e
    BY <1>2 DEF MidnightsShown
  <1> HIDE DEF a, b, s, e, o
  <1>5. Placed(s, o) <= Placed(a, o) /\ Placed(b, o) <= Placed(e, o)
    BY <1>1, <1>3, <1>4, PlacedInDay
  <1> QED
    BY <1>1, <1>5, BetweenFields DEF WindowOn, Day

-----------------------------------------------------------------------------
(* The inductive invariant of the query. *)

\* The expansion of a series that is being created.
ExpandedOK == series # NoStaff =>
    /\ expanded = [rule |-> expanded.rule, cursor |-> expanded.cursor,
                   scanned |-> expanded.scanned, out |-> expanded.out]
    /\ expanded.rule \in Rule /\ expanded.cursor \in Int
    /\ expanded.out \subseteq Int

\* What a table of the schedule may hold.
Fits(t, rows) ==
    /\ t \in {"roster", "active", "links"} => rows \subseteq Staff
    /\ t = "hours" => rows \subseteq Staff \X (Window \cup FirstHours)
    /\ t \in {"timeOff", "bookings"} => \A row \in rows : row[1] \in Staff /\ row[2] \in Interval

TablesFit == \A t \in Table : Fits(t, db[t])

CountOK == series \in Staff \cup {NoStaff} /\ changes \in 0..MaxChanges

Looking == pc \in {"perform", "staff", "hours", "timeOff", "bookings"}

\* The query's variables.
QueryShape ==
    /\ pc \in {"idle", "capable", "perform", "staff", "hours", "timeOff", "bookings", "answered"}
    /\ todo \subseteq Staff
    /\ IF Looking THEN cur \in todo ELSE cur = NoStaff
    /\ \A x \in slots : x.staff \in Staff /\ x.at \in Interval

\* The history of a running query.
HistoryOK ==
    /\ kept = [t \in Table |-> kept[t]] /\ seen = [t \in Table |-> seen[t]]
    /\ Watching => \A t \in Table : kept[t] \subseteq db[t] /\ db[t] \subseteq seen[t]

\* The intervals of a member of staff that touch a day.
OffOn(table, s, d) == {i \in Of(table, s) : Overlaps(i, Day(d))}

\* What a query knows: the hours and the time off it has read.
QueryOK ==
    /\ pc = "idle" => slots = {}
    /\ pc # "idle" => date \in Date
    /\ pc = "perform" => who # NoStaff /\ todo = {who}
    /\ pc \in {"timeOff", "bookings"} =>
         /\ HoursOn(kept["hours"], cur, date) \subseteq windows
         /\ windows \subseteq HoursOn(seen["hours"], cur, date)
         /\ windows \subseteq Window \cup FirstHours
    /\ pc = "bookings" =>
         /\ OffOn(kept["timeOff"], cur, date) \subseteq offs
         /\ offs \subseteq Of(seen["timeOff"], cur)
         /\ offs \subseteq Interval

\* Whoever the query is done with has got all the slots.
LeftToDo ==
    /\ Looking => \A s \in Bookable \ todo : Complete(s)
    /\ OffersAreComplete

SInv ==
    /\ HInv /\ TablesFit /\ CountOK /\ ExpandedOK
    /\ QueryShape /\ HistoryOK /\ QueryOK /\ LeftToDo

\* All that is offered so far is sound.
SlotsOK == \A x \in slots : Sound(x)

-----------------------------------------------------------------------------
(* The slots of a window. *)

\* The invariant implies the types.
LEMMA SInvTypeOK == SInv => TypeOK
  <1> SUFFICES ASSUME SInv PROVE TypeOK
    OBVIOUS
  <1>1. DOMAIN db = Table
    BY DEF SInv, HInv, Shape
  <1>2. /\ db["roster"] \subseteq Staff /\ db["active"] \subseteq Staff /\ db["links"] \subseteq Staff
        /\ db["hours"] \subseteq Staff \X (Window \cup FirstHours)
        /\ \A t \in {"timeOff", "bookings"} : \A row \in db[t] :
               row[1] \in Staff /\ row[2] \in Interval
    BY DEF SInv, TablesFit, Fits, Table
  <1>3. \A a \in Admin : admin[a] = NoWork \/ admin[a].at \in {"check", "insert", "commit"}
    BY DEF SInv, HInv, Shape, AdminWork
  <1>4. cur \in IF pc \in {"perform", "staff", "hours", "timeOff", "bookings"} THEN todo ELSE {NoStaff}
    BY DEF SInv, QueryShape, Looking
  <1> QED
    BY <1>1, <1>2, <1>3, <1>4 DEF SInv, CountOK, QueryShape, TypeOK

\* Multiples of the duration.
LEMMA Multiples ==
    ASSUME NEW n \in Nat, NEW k \in Nat \ {0}
    PROVE  n * k \in Nat /\ n <= n * k /\ (n + 1) * k = n * k + k
  OBVIOUS

\* A slot that is generated.
LEMMA SlotIs ==
    ASSUME NEW w \in Interval, NEW blockers, NEW x \in generateSlots(w, blockers)
    PROVE  /\ x \in Interval
           /\ w.start <= x.start /\ x.end <= w.end /\ x.start < x.end
           /\ \A b \in blockers : ~Overlaps(x, b)
  <1>0. w.start \in Int /\ w.end \in Int
    BY DEF Interval
  <1>1. /\ \E k \in 0..(w.end - w.start) :
               x = Between(w.start + k * Duration, w.start + (k + 1) * Duration)
        /\ x.end <= w.end /\ \A b \in blockers : ~Overlaps(x, b)
    BY Zenon DEF generateSlots
  <1>2. PICK k \in 0..(w.end - w.start) :
               x = Between(w.start + k * Duration, w.start + (k + 1) * Duration)
    BY <1>1
  <1>3. /\ Duration \in Nat /\ Duration > 0 /\ k \in Nat
        /\ k * Duration \in Nat /\ (k + 1) * Duration = k * Duration + Duration
    BY <1>0, ServiceAssumption, Multiples
  <1>4. x.start = w.start + k * Duration /\ x.end = w.start + (k + 1) * Duration
    BY <1>2, BetweenFields
  <1>5. x.start \in Int /\ x.end \in Int /\ x = [start |-> x.start, end |-> x.end]
    BY <1>0, <1>2, <1>3, <1>4 DEF Between
  <1>6. x \in Interval
    BY <1>5 DEF Interval
  <1>7. w.start <= x.start /\ x.start < x.end
    BY <1>0, <1>3, <1>4
  <1> QED
    BY <1>1, <1>6, <1>7

\* The n-th slot of a window, if it fits and nothing blocks it, is generated.
LEMMA SlotIsFound ==
    ASSUME NEW w \in Interval, NEW blockers, NEW n \in Nat,
           w.start + n * Duration + Duration <= w.end,
           \A b \in blockers :
               ~Overlaps(Between(w.start + n * Duration, w.start + n * Duration + Duration), b)
    PROVE  Between(w.start + n * Duration, w.start + n * Duration + Duration)
               \in generateSlots(w, blockers)
  <1> DEFINE x == Between(w.start + n * Duration, w.start + n * Duration + Duration)
  <1>0. w.start \in Int /\ w.end \in Int /\ Duration \in Nat /\ Duration > 0
    BY ServiceAssumption DEF Interval
  <1>1. n * Duration \in Nat /\ n <= n * Duration /\ (n + 1) * Duration = n * Duration + Duration
    BY ServiceAssumption, Multiples
  <1>2. n \in 0..(w.end - w.start)
    BY <1>0, <1>1
  <1>3. w.start + n * Duration + Duration = w.start + (n + 1) * Duration
    BY <1>0, <1>1
  <1>4. x = Between(w.start + n * Duration, w.start + (n + 1) * Duration)
    BY <1>3
  <1>5. x.end <= w.end
    BY BetweenFields
  <1> HIDE DEF x
  <1>6. \A b \in blockers : ~Overlaps(x, b)
    BY DEF x
  <1>7. x \in generateSlots(w, blockers)
    BY <1>2, <1>4, <1>5, <1>6 DEF generateSlots
  <1> QED
    BY <1>7 DEF x

\* A window on a day, in instants.
LEMMA WindowType ==
    ASSUME NEW d \in Date, NEW w \in Window \cup FirstHours
    PROVE  /\ WindowOn(d, w) \in Interval
           /\ WindowOn(d, w).start = localMinutesToUtc(d, w.startMin)
           /\ WindowOn(d, w).end = localMinutesToUtc(d, w.endMin)
           /\ w.startMin \in 0..DAY /\ w.endMin \in 0..DAY
  <1>0. w.startMin \in 0..DAY /\ w.endMin \in 0..DAY /\ d \in Int
    BY InputAssumption
  <1>1. w.startMin \in Int /\ w.endMin \in Int
    BY <1>0, ZoneTypes
  <1>2. localMinutesToUtc(d, w.startMin) \in Int /\ localMinutesToUtc(d, w.endMin) \in Int
    BY <1>0, <1>1, MinutesToUtc
  <1>3. WindowOn(d, w) \in Interval
    BY <1>2 DEF WindowOn, Between, Interval
  <1> QED
    BY <1>0, <1>3, BetweenFields DEF WindowOn

-----------------------------------------------------------------------------
(* Reading bookings: the slots of one member of staff. *)

Blockers == offs \cup {Padded(b) : b \in OffOn(db["bookings"], cur, date)}
Free == UNION {generateSlots(WindowOn(date, w), Blockers) : w \in windows}

\* The step that reads the bookings, in these terms.
LEMMA ReadBookingsIs ==
    ASSUME ReadBookings
    PROVE  /\ pc = "bookings"
           /\ slots' = slots \cup {[staff |-> cur, at |-> x] : x \in Free}
           /\ Continue(todo \ {cur})
           /\ date' = date /\ who' = who /\ kept' = kept /\ seen' = seen
           /\ db' = db /\ admin' = admin /\ series' = series /\ expanded' = expanded
           /\ changes' = changes
  BY Zenon DEF ReadBookings, Free, Blockers, OffOn, Reading

\* A free slot: part of a window, clear of the blockers.
LEMMA FreeIs ==
    ASSUME SInv, pc = "bookings", NEW x \in Free
    PROVE  \E w \in windows :
             /\ w \in Window \cup FirstHours /\ x \in Interval
             /\ WindowOn(date, w).start <= x.start /\ x.end <= WindowOn(date, w).end
             /\ x.start < x.end /\ WindowOn(date, w) \in Interval
             /\ \A b \in Blockers : ~Overlaps(x, b)
  <1>1. PICK w \in windows : x \in generateSlots(WindowOn(date, w), Blockers)
    BY DEF Free
  <1>2. w \in Window \cup FirstHours /\ date \in Date
    BY DEF SInv, QueryOK
  <1>3. WindowOn(date, w) \in Interval
    BY <1>2, WindowType
  <1> QED
    BY <1>1, <1>2, <1>3, SlotIs

\* What is offered is sound.
LEMMA FreeIsSound ==
    ASSUME MidnightsShown, SInv, pc = "bookings", NEW x \in Free
    PROVE  Sound([staff |-> cur, at |-> x])
  <1>1. PICK w \in windows :
             /\ w \in Window \cup FirstHours /\ x \in Interval
             /\ WindowOn(date, w).start <= x.start /\ x.end <= WindowOn(date, w).end
             /\ x.start < x.end /\ WindowOn(date, w) \in Interval
             /\ \A b \in Blockers : ~Overlaps(x, b)
    BY FreeIs
  <1>2. /\ date \in Date /\ date \in Int /\ w.startMin \in 0..DAY /\ w.endMin \in 0..DAY
        /\ w \in HoursOn(seen["hours"], cur, date)
        /\ OffOn(kept["timeOff"], cur, date) \subseteq offs
    BY <1>1, InputAssumption DEF SInv, QueryOK
  <1> DEFINE W == WindowOn(date, w)
             D == Day(date)
  <1>3. /\ x.start \in Int /\ x.end \in Int /\ W.start \in Int /\ W.end \in Int
    BY <1>1 DEF Interval
  <1>4. D.start \in Int /\ D.end \in Int
    <2>1. 0 \in Int /\ DAY \in Int
      BY ZoneTypes
    <2>2. localMinutesToUtc(date, 0) \in Int /\ localMinutesToUtc(date, DAY) \in Int
      BY <1>2, <2>1, MinutesToUtc
    <2> QED
      BY <2>2, BetweenFields DEF Day
  <1>5. D.start <= W.start /\ W.end <= D.end
    BY <1>2, WindowInDay
  <1> HIDE DEF W, D
  <1>6. D.start <= x.start /\ x.end <= D.end
    BY <1>1, <1>3, <1>4, <1>5 DEF W
  <1>7. Overlaps(x, W)
    BY <1>1, <1>3 DEF Overlaps, W
  <1>8. Regular(date, w) => Inside(x, date, w)
    BY <1>1, <1>2, InsideWindow
  <1>9. ASSUME NEW i \in Interval, ~Overlaps(i, D) PROVE ~Overlaps(x, i)
    BY <1>3, <1>4, <1>6, <1>9 DEF Overlaps, Interval
  <1>10. TypeOK /\ \A t \in Table : kept[t] \subseteq db[t]
    BY SInvTypeOK DEF SInv, HistoryOK, Watching
  <1>11. /\ \A i \in Of(db["timeOff"], cur) : i \in Interval
         /\ \A i \in Of(db["bookings"], cur) : i \in Interval
    BY <1>10 DEF TypeOK, Of
  <1>12. /\ Of(kept["timeOff"], cur) \subseteq Of(db["timeOff"], cur)
         /\ Of(kept["bookings"], cur) \subseteq Of(db["bookings"], cur)
    BY <1>10 DEF Of, Table
  <1>13. ASSUME NEW i \in Of(kept["timeOff"], cur) PROVE ~Overlaps(x, i)
    <2>1. CASE Overlaps(i, D)
      BY <1>1, <1>2, <2>1 DEF OffOn, Blockers, D
    <2>2. CASE ~Overlaps(i, D)
      BY <1>9, <1>11, <1>12, <2>2
    <2> QED
      BY <2>1, <2>2
  <1>14. ASSUME NEW b \in Of(kept["bookings"], cur)
         PROVE  /\ ~Overlaps(x, b)
                /\ Overlaps(b, D) =>
                     x.end + bufferBefore <= b.start \/ b.end + bufferAfter <= x.start
    <2>0. b \in Of(db["bookings"], cur) /\ b.start \in Int /\ b.end \in Int
      BY <1>11, <1>12 DEF Interval
    <2>1. CASE Overlaps(b, D)
      <3>1. ~Overlaps(x, Padded(b))
        BY <1>1, <2>0, <2>1 DEF OffOn, Blockers, D
      <3>2. /\ Padded(b).start = b.start - bufferBefore
            /\ Padded(b).end = b.end + bufferAfter
        BY BetweenFields DEF Padded
      <3> QED
        BY <1>3, <2>0, <3>1, <3>2, ServiceAssumption DEF Overlaps
    <2>2. CASE ~Overlaps(b, D)
      BY <1>9, <1>11, <1>12, <2>2
    <2> QED
      BY <2>1, <2>2
  <1> DEFINE y == [staff |-> cur, at |-> x]
  <1>15. y.staff = cur /\ y.at = x
    OBVIOUS
  <1> HIDE DEF y
  <1>16. Sound(y)
    BY <1>2, <1>7, <1>8, <1>13, <1>14, <1>15 DEF Sound, W, D
  <1> QED
    BY <1>16 DEF y

\* Nothing free is missed.
LEMMA FreeIsComplete ==
    ASSUME SInv, pc = "bookings",
           NEW w \in HoursOn(kept["hours"], cur, date), NEW n \in 0..DAY
    PROVE  LET from == localMinutesToUtc(date, w.startMin) + n * Duration
               x == Between(from, from + Duration)
           IN \/ x.end > localMinutesToUtc(date, w.endMin)
              \/ x \in Free
              \/ \E i \in Of(seen["timeOff"], cur) : Overlaps(x, i)
              \/ \E b \in Of(seen["bookings"], cur) :
                     x.end + bufferBefore > b.start /\ b.end + bufferAfter > x.start
  <1> DEFINE W == WindowOn(date, w)
             from == localMinutesToUtc(date, w.startMin) + n * Duration
             x == Between(from, from + Duration)
  <1>1. /\ w \in windows /\ w \in Window \cup FirstHours /\ date \in Date
        /\ offs \subseteq Of(seen["timeOff"], cur)
    BY DEF SInv, QueryOK
  <1>2. /\ W \in Interval /\ W.start \in Int /\ W.end \in Int
        /\ W.start = localMinutesToUtc(date, w.startMin)
        /\ W.end = localMinutesToUtc(date, w.endMin)
    BY <1>1, WindowType DEF Interval
  <1>3. n \in Nat /\ Duration \in Nat /\ n * Duration \in Nat
    BY ZoneTypes, ServiceAssumption, Multiples
  <1>4. from = W.start + n * Duration /\ from \in Int /\ from + Duration \in Int
    BY <1>2, <1>3
  <1>5. x.start = from /\ x.end = from + Duration
    BY BetweenFields
  <1> HIDE DEF W, from, x
  <1>6. SUFFICES ASSUME ~(x.end > W.end),
                        \A i \in Of(seen["timeOff"], cur) : ~Overlaps(x, i),
                        \A b \in Of(seen["bookings"], cur) :
                           ~(x.end + bufferBefore > b.start /\ b.end + bufferAfter > x.start)
                 PROVE  x \in Free
    BY <1>2 DEF from, x
  <1>7. \A t \in Table : db[t] \subseteq seen[t]
    BY DEF SInv, HistoryOK, Watching
  <1>8. Of(db["bookings"], cur) \subseteq Of(seen["bookings"], cur)
    BY <1>7 DEF Of, Table
  <1>9. \A b \in Of(db["bookings"], cur) : b \in Interval
    BY SInvTypeOK DEF TypeOK, Of
  <1>10. ASSUME NEW b \in Blockers PROVE ~Overlaps(x, b)
    <2>1. CASE b \in offs
      BY <1>1, <1>6, <2>1
    <2>2. CASE b \notin offs
      <3>1. PICK c \in Of(db["bookings"], cur) : b = Padded(c)
        BY <2>2 DEF Blockers, OffOn
      <3>2. /\ b.start = c.start - bufferBefore
            /\ b.end = c.end + bufferAfter
        BY <3>1, BetweenFields DEF Padded
      <3>3. ~(x.end + bufferBefore > c.start /\ c.end + bufferAfter > x.start)
        BY <1>6, <1>8
      <3>4. c.start \in Int /\ c.end \in Int /\ x.start \in Int /\ x.end \in Int
        BY <1>4, <1>5, <1>9 DEF Interval
      <3> QED
        BY <3>2, <3>3, <3>4, ServiceAssumption DEF Overlaps
    <2> QED
      BY <2>1, <2>2
  <1>11. /\ W.start + n * Duration + Duration <= W.end
         /\ x = Between(W.start + n * Duration, W.start + n * Duration + Duration)
    BY <1>2, <1>3, <1>4, <1>5, <1>6 DEF x
  <1>12. x \in generateSlots(W, Blockers)
    BY <1>2, <1>3, <1>10, <1>11, SlotIsFound
  <1> QED
    BY <1>1, <1>12 DEF Free, W

-----------------------------------------------------------------------------
(* The initial state. *)

\* No query is running, no series is being created.
LEMMA SInvInit == Init => SInv /\ SlotsOK
  <1> SUFFICES ASSUME Init PROVE SInv /\ SlotsOK
    OBVIOUS
  <1>1. /\ db["roster"] = Staff /\ db["active"] = Staff /\ db["links"] = Staff
        /\ db["hours"] = Staff \X FirstHours /\ db["timeOff"] = {} /\ db["bookings"] = {}
    BY DEF Init, NoRows, Table
  <1>2. TablesFit
    BY <1>1 DEF TablesFit, Fits, Table
  <1>3. CountOK /\ ExpandedOK
    BY ServiceAssumption DEF Init, CountOK, ExpandedOK
  <1>4. QueryShape /\ QueryOK /\ LeftToDo /\ SlotsOK
    BY DEF Init, QueryShape, QueryOK, LeftToDo, Looking, OffersAreComplete, SlotsOK
  <1>5. HistoryOK
    BY DEF Init, HistoryOK, Watching, NoRows
  <1> QED
    BY <1>2, <1>3, <1>4, <1>5, HInvInit DEF SInv

-----------------------------------------------------------------------------
(* Rows come and go while a query runs. *)

\* The history moves on: less was kept, more was seen.
Later == \A t \in Table : kept'[t] \subseteq kept[t] /\ seen[t] \subseteq seen'[t]

\* Of fewer rows, fewer are found.
LEMMA Fewer ==
    ASSUME NEW A, NEW B, A \subseteq B
    PROVE  /\ \A s : Of(A, s) \subseteq Of(B, s)
           /\ \A s, d : HoursOn(A, s, d) \subseteq HoursOn(B, s, d)
           /\ \A s, d : OffOn(A, s, d) \subseteq OffOn(B, s, d)
  <1>1. \A s : Of(A, s) \subseteq Of(B, s)
    BY DEF Of
  <1> QED
    BY <1>1 DEF HoursOn, OffOn

\* A sound offer stays sound.
LEMMA SoundLater ==
    ASSUME Later, date' = date, NEW x, Sound(x)
    PROVE  Sound(x)'
  <1>1. /\ HoursOn(seen["hours"], x.staff, date) \subseteq HoursOn(seen'["hours"], x.staff, date)
        /\ Of(kept'["timeOff"], x.staff) \subseteq Of(kept["timeOff"], x.staff)
        /\ Of(kept'["bookings"], x.staff) \subseteq Of(kept["bookings"], x.staff)
    BY Fewer DEF Later, Table
  <1>2. PICK w \in HoursOn(seen["hours"], x.staff, date) :
           Overlaps(x.at, WindowOn(date, w)) /\ (Regular(date, w) => Inside(x.at, date, w))
    BY DEF Sound
  <1>3. /\ \A i \in Of(kept["timeOff"], x.staff) : ~Overlaps(x.at, i)
        /\ \A b \in Of(kept["bookings"], x.staff) :
               ~Overlaps(x.at, b) /\
               (Overlaps(b, Day(date)) =>
                   x.at.end + bufferBefore <= b.start \/ b.end + bufferAfter <= x.at.start)
    BY DEF Sound
  <1> QED
    BY <1>1, <1>2, <1>3 DEF Sound

\* A complete offer stays complete.
LEMMA CompleteLater ==
    ASSUME Later, date' = date, slots \subseteq slots', NEW s, Complete(s)
    PROVE  Complete(s)'
  <1>1. /\ HoursOn(kept'["hours"], s, date) \subseteq HoursOn(kept["hours"], s, date)
        /\ Of(seen["timeOff"], s) \subseteq Of(seen'["timeOff"], s)
        /\ Of(seen["bookings"], s) \subseteq Of(seen'["bookings"], s)
    BY Fewer DEF Later, Table
  <1> SUFFICES ASSUME NEW w \in HoursOn(kept'["hours"], s, date), NEW n \in 0..DAY
               PROVE  LET from == localMinutesToUtc(date, w.startMin) + n * Duration
                          x == Between(from, from + Duration)
                      IN \/ x.end > localMinutesToUtc(date, w.endMin)
                         \/ [staff |-> s, at |-> x] \in slots'
                         \/ \E i \in Of(seen'["timeOff"], s) : Overlaps(x, i)
                         \/ \E b \in Of(seen'["bookings"], s) :
                                x.end + bufferBefore > b.start /\ b.end + bufferAfter > x.start
    BY Zenon DEF Complete
  <1> DEFINE from == localMinutesToUtc(date, w.startMin) + n * Duration
             x == Between(from, from + Duration)
  <1>2. \/ x.end > localMinutesToUtc(date, w.endMin)
        \/ [staff |-> s, at |-> x] \in slots
        \/ \E i \in Of(seen["timeOff"], s) : Overlaps(x, i)
        \/ \E b \in Of(seen["bookings"], s) :
               x.end + bufferBefore > b.start /\ b.end + bufferAfter > x.start
    BY <1>1 DEF Complete
  <1> HIDE DEF x
  <1>3. \/ x.end > localMinutesToUtc(date, w.endMin)
        \/ [staff |-> s, at |-> x] \in slots'
        \/ \E i \in Of(seen'["timeOff"], s) : Overlaps(x, i)
        \/ \E b \in Of(seen'["bookings"], s) :
               x.end + bufferBefore > b.start /\ b.end + bufferAfter > x.start
    BY <1>1, <1>2
  <1> QED
    BY <1>3 DEF x

\* Nobody becomes bookable throughout.
LEMMA BookableLater ==
    ASSUME Later, who' = who
    PROVE  Bookable' \subseteq Bookable
  BY DEF Later, Table, Bookable

\* A query that makes no step while the tables change.
LEMMA QueryWaits ==
    ASSUME Later, query' = query, QueryShape, QueryOK, LeftToDo
    PROVE  QueryShape' /\ QueryOK' /\ LeftToDo' /\ (SlotsOK => SlotsOK')
  <1>0. /\ pc' = pc /\ date' = date /\ who' = who /\ todo' = todo /\ cur' = cur
        /\ windows' = windows /\ offs' = offs /\ slots' = slots
    BY DEF query
  <1>1. QueryShape'
    BY <1>0 DEF QueryShape, Looking
  <1>2. /\ HoursOn(kept'["hours"], cur, date) \subseteq HoursOn(kept["hours"], cur, date)
        /\ HoursOn(seen["hours"], cur, date) \subseteq HoursOn(seen'["hours"], cur, date)
        /\ OffOn(kept'["timeOff"], cur, date) \subseteq OffOn(kept["timeOff"], cur, date)
        /\ Of(seen["timeOff"], cur) \subseteq Of(seen'["timeOff"], cur)
    BY Fewer DEF Later, Table
  <1>3. QueryOK'
    BY <1>0, <1>2 DEF QueryOK
  <1>4. LeftToDo'
    BY <1>0, BookableLater, CompleteLater DEF LeftToDo, Looking, OffersAreComplete
  <1>5. SlotsOK => SlotsOK'
    BY <1>0, SoundLater DEF SlotsOK
  <1> QED
    BY <1>1, <1>3, <1>4, <1>5

\* A write of a table.
LEMMA SInvWrite ==
    ASSUME SInv, HInv', NEW t \in Table, NEW rows, Write(t, rows), Fits(t, rows),
           CountOK', ExpandedOK'
    PROVE  SInv' /\ (SlotsOK => SlotsOK')
  <1>1. db'[t] = rows /\ \A u \in Table \ {t} : db'[u] = db[u]
    BY DEF Write, SInv, HInv, Shape
  <1>2. TablesFit'
    <2> SUFFICES ASSUME NEW u \in Table PROVE Fits(u, db'[u])
      BY DEF TablesFit
    <2> QED
      BY <1>1 DEF SInv, TablesFit
  <1>3. kept = [u \in Table |-> kept[u]] /\ seen = [u \in Table |-> seen[u]]
    BY DEF SInv, HistoryOK
  <1>4. query' = query /\ pc' = pc /\ Watching' = Watching
    BY DEF Write, query, Watching
  <1>5. CASE Watching
    <2>1. kept' = [kept EXCEPT ![t] = kept[t] \cap rows] /\ seen' = [seen EXCEPT ![t] = seen[t] \cup rows]
      BY <1>5 DEF Write
    <2>2. /\ kept' = [u \in Table |-> kept'[u]] /\ seen' = [u \in Table |-> seen'[u]]
      BY <1>3, <2>1
    <2>3. /\ kept'[t] = kept[t] \cap rows /\ seen'[t] = seen[t] \cup rows
          /\ \A u \in Table \ {t} : kept'[u] = kept[u] /\ seen'[u] = seen[u]
      BY <1>3, <2>1
    <2>4. Later
      BY <2>3 DEF Later
    <2>5. \A u \in Table : kept[u] \subseteq db[u] /\ db[u] \subseteq seen[u]
      BY <1>5 DEF SInv, HistoryOK
    <2>6. \A u \in Table : kept'[u] \subseteq db'[u] /\ db'[u] \subseteq seen'[u]
      BY <1>1, <2>3, <2>5
    <2>7. HistoryOK'
      BY <2>2, <2>6 DEF HistoryOK
    <2> QED
      BY <1>2, <1>4, <2>4, <2>7, QueryWaits DEF SInv
  <1>6. CASE ~Watching
    <2>1. kept' = kept /\ seen' = seen
      BY <1>6 DEF Write
    <2>2. Later
      BY <2>1 DEF Later
    <2>3. HistoryOK'
      BY <1>3, <1>4, <1>6, <2>1 DEF HistoryOK
    <2> QED
      BY <1>2, <1>4, <2>2, <2>3, QueryWaits DEF SInv
  <1> QED
    BY <1>5, <1>6

\* A step that touches neither the tables nor the query.
LEMMA SInvApart ==
    ASSUME SInv, HInv', db' = db, query' = query, kept' = kept, seen' = seen,
           CountOK', ExpandedOK'
    PROVE  SInv' /\ (SlotsOK => SlotsOK')
  <1>1. Later
    BY DEF Later
  <1>2. TablesFit'
    BY DEF SInv, TablesFit
  <1>3. HistoryOK'
    BY DEF SInv, HistoryOK, Watching, query
  <1> QED
    BY <1>1, <1>2, <1>3, QueryWaits DEF SInv

-----------------------------------------------------------------------------
(* Changes of the schedule. *)

\* The changes of the tables keep to what the tables may hold.
LEMMA SInvChange ==
    ASSUME SInv, HInv', Change, series = NoStaff
    PROVE  SInv' /\ (SlotsOK => SlotsOK')
  <1>0. TypeOK /\ TablesFit /\ changes \in 0..MaxChanges /\ MaxChanges \in Nat
    BY SInvTypeOK, ServiceAssumption DEF SInv, TypeOK
  <1>1. Count => changes' \in 0..MaxChanges
    BY <1>0 DEF Count
  <1>2. series' = series /\ Count => CountOK' /\ ExpandedOK'
    BY <1>1 DEF CountOK, ExpandedOK
  <1>3. ASSUME NEW s \in Staff, UpdateStaff(s)
        PROVE  SInv' /\ (SlotsOK => SlotsOK')
    <2>1. PICK rows \in {db["active"] \cup {s}, db["active"] \ {s}} : Write("active", rows)
      BY <1>3 DEF UpdateStaff
    <2>2. Fits("active", rows)
      BY <1>0, <2>1 DEF Fits, TypeOK
    <2> QED
      BY <1>2, <1>3, <2>1, <2>2, SInvWrite DEF UpdateStaff, Table
  <1>4. ASSUME NEW s \in Staff, RemoveStaff(s)
        PROVE  SInv' /\ (SlotsOK => SlotsOK')
    <2>1. Fits("roster", db["roster"] \ {s})
      BY <1>0 DEF Fits, TypeOK
    <2> QED
      BY <1>2, <1>4, <2>1, SInvWrite DEF RemoveStaff, Table
  <1>5. ASSUME NEW s \in Staff, Link(s)
        PROVE  SInv' /\ (SlotsOK => SlotsOK')
    <2>1. Fits("links", db["links"] \cup {s})
      BY <1>0 DEF Fits, TypeOK
    <2> QED
      BY <1>2, <1>5, <2>1, SInvWrite DEF Link, Table
  <1>6. ASSUME NEW s \in Staff, Unlink(s)
        PROVE  SInv' /\ (SlotsOK => SlotsOK')
    <2>1. Fits("links", db["links"] \ {s})
      BY <1>0 DEF Fits, TypeOK
    <2> QED
      BY <1>2, <1>6, <2>1, SInvWrite DEF Unlink, Table
  <1>7. ASSUME NEW s \in Staff, NEW i \in Absence, AddTimeOff(s, i)
        PROVE  SInv' /\ (SlotsOK => SlotsOK')
    <2>1. Fits("timeOff", db["timeOff"] \cup {<<s, i>>})
      BY <1>0, InputAssumption DEF Fits, TypeOK
    <2> QED
      BY <1>2, <1>7, <2>1, SInvWrite DEF AddTimeOff, Table
  <1>8. ASSUME NEW row \in db["timeOff"], RemoveTimeOff(row)
        PROVE  SInv' /\ (SlotsOK => SlotsOK')
    <2>1. Fits("timeOff", db["timeOff"] \ {row})
      BY <1>0 DEF Fits, TypeOK
    <2> QED
      BY <1>2, <1>8, <2>1, SInvWrite DEF RemoveTimeOff, Table
  <1>9. ASSUME NEW row \in db["hours"], RemoveHours(row)
        PROVE  SInv' /\ (SlotsOK => SlotsOK')
    <2>1. Fits("hours", db["hours"] \ {row})
      BY <1>0 DEF Fits, TypeOK
    <2> QED
      BY <1>2, <1>9, <2>1, SInvWrite DEF RemoveHours, Table
  <1>10. ASSUME NEW s \in Staff, NEW t \in BookingStart, Book(s, t)
         PROVE  SInv' /\ (SlotsOK => SlotsOK')
    <2> DEFINE i == Between(t, t + Duration)
    <2>1. i \in Interval
      BY InputAssumption, ServiceAssumption DEF Between, Interval
    <2>2. Fits("bookings", db["bookings"] \cup {<<s, i>>})
      BY <1>0, <2>1 DEF Fits, TypeOK
    <2>3. /\ Write("bookings", db["bookings"] \cup {<<s, i>>}) /\ Count
          /\ series' = series
      BY <1>10, Zenon DEF Book
    <2> HIDE DEF i
    <2> QED
      BY <1>2, <2>2, <2>3, SInvWrite DEF Table
  <1>11. ASSUME NEW row \in db["bookings"], CancelBooking(row)
         PROVE  SInv' /\ (SlotsOK => SlotsOK')
    <2>1. Fits("bookings", db["bookings"] \ {row})
      BY <1>0 DEF Fits, TypeOK
    <2> QED
      BY <1>2, <1>11, <2>1, SInvWrite DEF CancelBooking, Table
  <1>12. ASSUME NEW s \in Staff, NEW rule \in Rule, CreateRecurrence(s, rule)
         PROVE  SInv' /\ (SlotsOK => SlotsOK')
    <2>1. FromISO(rule.startDate) \in Int
      BY InputAssumption, ZoneTypes, DayOfMidnight DEF FromISO
    <2>2. rule.startMinutes \in Int
      BY InputAssumption, ZoneTypes
    <2>3. Start(rule) \in Int
      BY <2>1, <2>2, MinuteTypes DEF Start
    <2>4. ExpandedOK'
      BY <1>12, <2>3 DEF CreateRecurrence, expandRecurrence, ExpandedOK
    <2>5. CountOK'
      BY <1>0, <1>12 DEF CreateRecurrence, CountOK
    <2> QED
      BY <1>12, <2>4, <2>5, SInvApart DEF CreateRecurrence
  <1> QED
    BY <1>3, <1>4, <1>5, <1>6, <1>7, <1>8, <1>9, <1>10, <1>11, <1>12 DEF Change

\* Requests that add hours.
LEMMA SInvAdmin ==
    ASSUME SInv, HInv', series = NoStaff, NEW a \in Admin, AdminStep(a)
    PROVE  SInv' /\ (SlotsOK => SlotsOK')
  <1>0. /\ TypeOK /\ changes \in 0..MaxChanges /\ MaxChanges \in Nat
        /\ admin \in [Admin -> AdminWork \cup {NoWork}]
    BY SInvTypeOK, ServiceAssumption DEF SInv, TypeOK, HInv, Shape
  <1>1. ASSUME NEW s \in Staff, NEW w \in Window, CreateHours(a, s, w)
        PROVE  SInv' /\ (SlotsOK => SlotsOK')
    <2>1. CountOK' /\ ExpandedOK'
      BY <1>0, <1>1 DEF CreateHours, Count, CountOK, ExpandedOK
    <2> QED
      BY <1>1, <2>1, SInvApart DEF CreateHours
  <1>2. CASE CheckHours(a) \/ InsertHours(a) \/ HoursFail(a)
    <2>1. /\ db' = db /\ query' = query /\ kept' = kept /\ seen' = seen
          /\ series' = series /\ changes' = changes
      BY <1>2, Zenon DEF CheckHours, InsertHours, HoursFail
    <2>2. CountOK' /\ ExpandedOK'
      BY <1>0, <2>1 DEF CountOK, ExpandedOK
    <2> QED
      BY <2>1, <2>2, SInvApart
  <1>3. CASE CommitHours(a)
    <2> DEFINE row == <<admin[a].staff, admin[a].window>>
    <2>1. admin[a] \in AdminWork
      BY <1>0, <1>3 DEF CommitHours, Adding
    <2>2. row \in Staff \X (Window \cup FirstHours)
      BY <2>1 DEF AdminWork
    <2>3. /\ Write("hours", db["hours"] \cup {row}) /\ series' = series /\ changes' = changes
      BY <1>3 DEF CommitHours
    <2> HIDE DEF row
    <2>4. Fits("hours", db["hours"] \cup {row})
      BY <1>0, <2>2 DEF Fits, TypeOK
    <2>5. CountOK' /\ ExpandedOK'
      BY <1>0, <2>3 DEF CountOK, ExpandedOK
    <2> QED
      BY <2>3, <2>4, <2>5, SInvWrite DEF Table
  <1> QED
    BY <1>1, <1>2, <1>3 DEF AdminStep

\* The expansion of a series and its insertion.
LEMMA SInvSeries ==
    ASSUME SInv, HInv', series # NoStaff, Expand \/ InsertOccurrences
    PROVE  SInv' /\ (SlotsOK => SlotsOK')
  <1> DEFINE x == expanded
  <1>0. /\ x = [rule |-> x.rule, cursor |-> x.cursor, scanned |-> x.scanned, out |-> x.out]
        /\ x.rule \in Rule /\ x.cursor \in Int /\ x.out \subseteq Int
        /\ series \in Staff /\ changes \in 0..MaxChanges
    BY DEF SInv, ExpandedOK, CountOK
  <1>1. CASE Expand
    <2>1. x.rule.interval \in Int /\ PlusDays(x.cursor, x.rule.interval) \in Int
      BY <1>0, InputAssumption, MinuteTypes
    <2>2. PlusDays(x.cursor, 1) \in Int
      BY <1>0, MinuteTypes
    <2>3. expanded' = Round(x) /\ series' = series /\ changes' = changes
      BY <1>1 DEF Expand
    <2>4. CASE x.rule.freq = "daily"
      <3>1. expanded' = expandDaily(x)
        BY <2>3, <2>4 DEF Round
      <3>2. ExpandedOK'
        BY <1>0, <2>1, <3>1 DEF expandDaily, ExpandedOK
      <3>3. CountOK'
        BY <1>0, <2>3 DEF CountOK
      <3> QED
        BY <1>1, <3>2, <3>3, SInvApart DEF Expand
    <2>5. CASE x.rule.freq # "daily"
      <3>1. expanded' = expandWeekly(x)
        BY <2>3, <2>5 DEF Round
      <3>2. ExpandedOK'
        BY <1>0, <2>2, <3>1 DEF expandWeekly, ExpandedOK
      <3>3. CountOK'
        BY <1>0, <2>3 DEF CountOK
      <3> QED
        BY <1>1, <3>2, <3>3, SInvApart DEF Expand
    <2> QED
      BY <2>4, <2>5
  <1>2. CASE InsertOccurrences
    <2> DEFINE rows == {<<series, Between(u, u + Duration)>> : u \in x.out}
    <2>1. \A u \in x.out : Between(u, u + Duration) \in Interval
      BY <1>0, ServiceAssumption DEF Between, Interval
    <2>2. Fits("bookings", rows)
      BY <1>0, <2>1 DEF Fits
    <2>3. Write("bookings", rows) /\ series' = NoStaff /\ changes' = changes
      BY <1>2 DEF InsertOccurrences
    <2> HIDE DEF rows
    <2>4. CountOK' /\ ExpandedOK'
      BY <1>0, <2>3 DEF CountOK, ExpandedOK
    <2> QED
      BY <2>2, <2>3, <2>4, SInvWrite DEF Table
  <1> QED
    BY <1>1, <1>2

-----------------------------------------------------------------------------
(* The query. *)

\* What a step of the query leaves alone.
Frame ==
    /\ db' = db /\ admin' = admin /\ series' = series /\ expanded' = expanded
    /\ changes' = changes

\* The schedule stays as it is.
LEMMA FrameKeeps ==
    ASSUME SInv, Frame
    PROVE  TablesFit' /\ CountOK' /\ ExpandedOK'
  BY DEF SInv, Frame, TablesFit, CountOK, ExpandedOK

\* The history and the question stay.
Same == kept' = kept /\ seen' = seen /\ date' = date /\ who' = who

\* No change is a special case of a change.
LEMMA SameIsLater == Same => Later
  BY DEF Same, Later

\* The query goes on with the staff in rest: whoever is not among them must be
\* complete.
LEMMA SInvContinue ==
    ASSUME SInv, HInv', Frame, Same, pc \notin {"idle", "answered"},
           NEW rest, rest \subseteq Staff, Continue(rest),
           \A x \in slots' : x.staff \in Staff /\ x.at \in Interval,
           \A s : s \in Bookable \ rest => Complete(s)'
    PROVE  SInv'
  <1>1. /\ todo' = rest /\ pc' \in {"answered", "staff"}
        /\ pc' = "answered" => rest = {} /\ cur' = NoStaff
        /\ pc' = "staff" => cur' \in rest
    BY DEF Continue
  <1>2. TablesFit' /\ CountOK' /\ ExpandedOK'
    BY FrameKeeps
  <1>3. QueryShape'
    BY <1>1 DEF QueryShape, Looking
  <1>4. HistoryOK'
    BY DEF SInv, HistoryOK, Watching, Frame, Same
  <1>5. QueryOK'
    BY <1>1 DEF SInv, QueryOK, Same
  <1>6. Bookable' = Bookable
    BY DEF Bookable, Same
  <1>7. LeftToDo'
    BY <1>1, <1>6 DEF LeftToDo, OffersAreComplete
  <1> QED
    BY <1>2, <1>3, <1>4, <1>5, <1>7 DEF SInv

\* The query goes on with the same member of staff.
LEMMA SInvStay ==
    ASSUME SInv, HInv', Frame, Same, Looking, Looking', pc' # "perform",
           todo' = todo, cur' = cur, slots' = slots, QueryOK'
    PROVE  SInv'
  <1>1. TablesFit' /\ CountOK' /\ ExpandedOK'
    BY FrameKeeps
  <1>2. QueryShape'
    BY DEF SInv, QueryShape, Looking
  <1>3. HistoryOK'
    BY DEF SInv, HistoryOK, Watching, Frame, Same, Looking
  <1>4. Bookable' = Bookable
    BY DEF Bookable, Same
  <1>5. Later
    BY SameIsLater
  <1>6. LeftToDo'
    BY <1>4, <1>5, CompleteLater DEF SInv, LeftToDo, OffersAreComplete, Same, Looking
  <1> QED
    BY <1>1, <1>2, <1>3, <1>6 DEF SInv

\* A query begins: everything there is kept and seen.
LEMMA SInvAsk ==
    ASSUME SInv, HInv', NEW d \in Date, NEW s \in Staff \cup {NoStaff}, Ask(d, s)
    PROVE  SInv' /\ SlotsOK'
  <1>0. /\ pc = "idle" /\ Frame /\ date' = d /\ who' = s /\ cur' = s
        /\ kept' = db /\ seen' = db /\ slots' = slots
    BY DEF Ask, Reading, Frame
  <1>1. slots' = {}
    BY <1>0 DEF SInv, QueryOK
  <1>2. TablesFit' /\ CountOK' /\ ExpandedOK'
    BY <1>0, FrameKeeps
  <1>3. db = [t \in Table |-> db[t]]
    BY DEF SInv, HInv, Shape
  <1>4. HistoryOK'
    BY <1>0, <1>3 DEF HistoryOK, Frame
  <1>5. CASE s = NoStaff
    <2>1. pc' = "capable" /\ todo' = {}
      BY <1>5 DEF Ask
    <2>2. QueryShape' /\ QueryOK' /\ LeftToDo'
      BY <1>0, <1>1, <1>5, <2>1 DEF QueryShape, QueryOK, LeftToDo, Looking, OffersAreComplete
    <2> QED
      BY <1>1, <1>2, <1>4, <2>2 DEF SInv, SlotsOK
  <1>6. CASE s # NoStaff
    <2>1. pc' = "perform" /\ todo' = {s}
      BY <1>6 DEF Ask
    <2>2. QueryShape' /\ QueryOK'
      BY <1>0, <1>1, <1>6, <2>1 DEF QueryShape, QueryOK, Looking
    <2>3. Bookable' \subseteq {s}
      BY <1>0, <1>6 DEF Bookable
    <2>4. LeftToDo'
      BY <2>1, <2>3 DEF LeftToDo, OffersAreComplete
    <2> QED
      BY <1>1, <1>2, <1>4, <2>2, <2>4 DEF SInv, SlotsOK
  <1> QED
    BY <1>5, <1>6

\* Those who do not perform the service, are not there or have no hours have
\* nothing to be offered.
LEMMA SInvReads ==
    ASSUME SInv, HInv', CapableStaff \/ CanPerform \/ FindStaff \/ ReadHours \/ ReadTimeOff
    PROVE  SInv' /\ (SlotsOK => SlotsOK')
  <1>0. Frame /\ Same /\ slots' = slots
    BY DEF CapableStaff, CanPerform, FindStaff, ReadHours, ReadTimeOff, Reading, Frame, Same
  <1>1. Later
    BY <1>0, SameIsLater
  <1>2. SlotsOK => SlotsOK'
    BY <1>0, <1>1, SoundLater DEF SlotsOK, Same
  <1>3. pc \in {"capable", "perform", "staff", "hours", "timeOff"}
    BY DEF CapableStaff, CanPerform, FindStaff, ReadHours, ReadTimeOff, Reading
  <1>4. /\ \A t \in Table : kept[t] \subseteq db[t] /\ db[t] \subseteq seen[t]
        /\ date \in Date /\ todo \subseteq Staff
        /\ \A x \in slots' : x.staff \in Staff /\ x.at \in Interval
    BY <1>0, <1>3 DEF SInv, HistoryOK, Watching, QueryOK, QueryShape
  <1>5. Bookable \subseteq db["links"] /\ Bookable \subseteq db["roster"] \cap db["active"]
    BY <1>4 DEF Bookable, Table
  <1>6. \A s : Complete(s) => Complete(s)'
    BY <1>0, <1>1, CompleteLater DEF Same
  <1>7. Looking => \A s \in Bookable \ todo : Complete(s)
    BY DEF SInv, LeftToDo
  <1>8. CASE CapableStaff
    <2>1. Continue(db["links"])
      BY <1>8 DEF CapableStaff
    <2>2. db["links"] \subseteq Staff
      BY SInvTypeOK DEF TypeOK
    <2>3. SInv'
      BY <1>0, <1>3, <1>4, <1>5, <2>1, <2>2, SInvContinue
    <2> QED
      BY <1>2, <2>3
  <1>9. CASE CanPerform
    <2>0. pc = "perform" /\ who # NoStaff /\ todo = {who} /\ cur = who
      BY <1>9 DEF CanPerform, Reading, SInv, QueryOK, QueryShape, Looking
    <2>1. CASE cur \in db["links"]
      <3>1. pc' = "staff" /\ todo' = todo /\ cur' = cur
        BY <1>9, <2>1 DEF CanPerform
      <3>2. QueryOK'
        BY <1>0, <1>4, <3>1 DEF QueryOK, Same
      <3> QED
        BY <1>0, <1>2, <2>0, <3>1, <3>2, SInvStay DEF Looking
    <2>2. CASE cur \notin db["links"]
      <3>1. Continue({})
        BY <1>9, <2>2 DEF CanPerform
      <3>2. Bookable = {}
        BY <1>5, <2>0, <2>2 DEF Bookable
      <3>3. SInv'
        BY <1>0, <1>3, <1>4, <3>1, <3>2, SInvContinue
      <3> QED
        BY <1>2, <3>3
    <2> QED
      BY <2>1, <2>2
  <1>10. CASE FindStaff
    <2>0. pc = "staff" /\ Looking
      BY <1>10 DEF FindStaff, Reading, Looking
    <2>1. CASE cur \in db["roster"] \cap db["active"]
      <3>1. pc' = "hours" /\ todo' = todo /\ cur' = cur
        BY <1>10, <2>1 DEF FindStaff
      <3>2. QueryOK'
        BY <1>0, <1>4, <3>1 DEF QueryOK, Same
      <3> QED
        BY <1>0, <1>2, <2>0, <3>1, <3>2, SInvStay DEF Looking
    <2>2. CASE cur \notin db["roster"] \cap db["active"]
      <3>1. Continue(todo \ {cur})
        BY <1>10, <2>2 DEF FindStaff
      <3>2. \A s : s \in Bookable \ (todo \ {cur}) => Complete(s)'
        BY <1>5, <1>6, <1>7, <2>0, <2>2
      <3>3. SInv'
        BY <1>0, <1>3, <1>4, <3>1, <3>2, SInvContinue
      <3> QED
        BY <1>2, <3>3
    <2> QED
      BY <2>1, <2>2
  <1>11. CASE ReadHours
    <2> DEFINE found == HoursOn(db["hours"], cur, date)
    <2>0. pc = "hours" /\ Looking
      BY <1>11 DEF ReadHours, Reading, Looking
    <2>1. /\ HoursOn(kept["hours"], cur, date) \subseteq found
          /\ found \subseteq HoursOn(seen["hours"], cur, date)
      BY <1>4, Fewer DEF Table
    <2>2. found \subseteq Window \cup FirstHours
      BY SInvTypeOK DEF TypeOK, HoursOn, Of
    <2>3. CASE found = {}
      <3>1. Continue(todo \ {cur})
        BY <1>11, <2>3 DEF ReadHours
      <3>2. Complete(cur)
        BY <2>1, <2>3 DEF Complete
      <3>3. \A s : s \in Bookable \ (todo \ {cur}) => Complete(s)'
        BY <1>6, <1>7, <2>0, <3>2
      <3>4. SInv'
        BY <1>0, <1>3, <1>4, <3>1, <3>3, SInvContinue
      <3> QED
        BY <1>2, <3>4
    <2>4. CASE found # {}
      <3>1. pc' = "timeOff" /\ todo' = todo /\ cur' = cur /\ windows' = found
        BY <1>11, <2>4 DEF ReadHours
      <3> HIDE DEF found
      <3>2. QueryOK'
        BY <1>0, <1>4, <2>1, <2>2, <3>1 DEF QueryOK, Same
      <3> QED
        BY <1>0, <1>2, <2>0, <3>1, <3>2, SInvStay DEF Looking
    <2> QED
      BY <2>3, <2>4
  <1>12. CASE ReadTimeOff
    <2> DEFINE found == OffOn(db["timeOff"], cur, date)
    <2>0. /\ pc = "timeOff" /\ Looking /\ pc' = "bookings" /\ todo' = todo /\ cur' = cur
          /\ windows' = windows /\ offs' = found
      BY <1>12 DEF ReadTimeOff, Reading, Looking, OffOn
    <2>1. /\ OffOn(kept["timeOff"], cur, date) \subseteq found
          /\ found \subseteq OffOn(seen["timeOff"], cur, date)
      BY <1>4, Fewer DEF Table
    <2>2. found \subseteq Of(seen["timeOff"], cur)
      BY <2>1 DEF OffOn
    <2>3. found \subseteq Interval
      BY SInvTypeOK DEF TypeOK, OffOn, Of
    <2> HIDE DEF found
    <2>4. QueryOK'
      BY <1>0, <1>4, <2>0, <2>1, <2>2, <2>3 DEF SInv, QueryOK, Same
    <2> QED
      BY <1>0, <1>2, <2>0, <2>4, SInvStay DEF Looking
  <1> QED
    BY <1>8, <1>9, <1>10, <1>11, <1>12

\* The slots of one member of staff are added.
LEMMA SInvReadBookings ==
    ASSUME SInv, HInv', ReadBookings
    PROVE  SInv' /\ (MidnightsShown /\ SlotsOK => SlotsOK')
  <1> DEFINE new == {[staff |-> cur, at |-> x] : x \in Free}
  <1>0. /\ pc = "bookings" /\ slots' = slots \cup new /\ Continue(todo \ {cur})
        /\ Frame /\ Same
    BY ReadBookingsIs DEF Frame, Same
  <1>1. Later /\ Looking /\ cur \in todo /\ todo \subseteq Staff
    BY <1>0, SameIsLater DEF Looking, SInv, QueryShape
  <1>2. \A x \in Free : x \in Interval
    BY <1>0, FreeIs
  <1>3. \A y \in slots' : y.staff \in Staff /\ y.at \in Interval
    BY <1>0, <1>1, <1>2 DEF SInv, QueryShape
  <1>4. \A s : s = cur => Complete(s)'
    <2> SUFFICES ASSUME NEW s, s = cur,
                        NEW w \in HoursOn(kept["hours"], s, date), NEW n \in 0..DAY
                 PROVE  LET from == localMinutesToUtc(date, w.startMin) + n * Duration
                            x == Between(from, from + Duration)
                        IN \/ x.end > localMinutesToUtc(date, w.endMin)
                           \/ [staff |-> s, at |-> x] \in slots'
                           \/ \E i \in Of(seen["timeOff"], s) : Overlaps(x, i)
                           \/ \E b \in Of(seen["bookings"], s) :
                                  x.end + bufferBefore > b.start /\ b.end + bufferAfter > x.start
      BY <1>0, Zenon DEF Complete, Same
    <2> DEFINE from == localMinutesToUtc(date, w.startMin) + n * Duration
               x == Between(from, from + Duration)
    <2>1. \/ x.end > localMinutesToUtc(date, w.endMin)
          \/ x \in Free
          \/ \E i \in Of(seen["timeOff"], cur) : Overlaps(x, i)
          \/ \E b \in Of(seen["bookings"], cur) :
                 x.end + bufferBefore > b.start /\ b.end + bufferAfter > x.start
      BY <1>0, FreeIsComplete
    <2> HIDE DEF x
    <2>2. x \in Free => [staff |-> s, at |-> x] \in slots'
      BY <1>0
    <2>3. \/ x.end > localMinutesToUtc(date, w.endMin)
          \/ [staff |-> s, at |-> x] \in slots'
          \/ \E i \in Of(seen["timeOff"], s) : Overlaps(x, i)
          \/ \E b \in Of(seen["bookings"], s) :
                 x.end + bufferBefore > b.start /\ b.end + bufferAfter > x.start
      BY <2>1, <2>2
    <2> QED
      BY <2>3 DEF x
  <1>5. \A s : Complete(s) => Complete(s)'
    BY <1>0, <1>1, CompleteLater DEF Same
  <1>6. \A s : s \in Bookable \ (todo \ {cur}) => Complete(s)'
    BY <1>1, <1>4, <1>5 DEF SInv, LeftToDo
  <1>7. SInv'
    BY <1>0, <1>1, <1>3, <1>6, SInvContinue
  <1>8. ASSUME MidnightsShown, SlotsOK PROVE SlotsOK'
    <2>1. \A y \in slots' : Sound(y)
      BY <1>0, <1>8, FreeIsSound DEF SlotsOK
    <2>2. \A y : Sound(y) => Sound(y)'
      BY <1>0, <1>1, SoundLater DEF Same
    <2> QED
      BY <2>1, <2>2 DEF SlotsOK
  <1> QED
    BY <1>7, <1>8

\* The query is over.
LEMMA SInvAnswer ==
    ASSUME SInv, HInv', Answer
    PROVE  SInv' /\ SlotsOK'
  <1>0. /\ pc = "answered" /\ pc' = "idle" /\ slots' = {} /\ todo' = todo /\ cur' = cur
        /\ kept' = NoRows /\ seen' = NoRows /\ Frame
    BY DEF Answer, Reading, Frame
  <1>1. TablesFit' /\ CountOK' /\ ExpandedOK'
    BY <1>0, FrameKeeps
  <1>2. QueryShape' /\ QueryOK' /\ LeftToDo' /\ SlotsOK'
    BY <1>0 DEF SInv, QueryShape, QueryOK, LeftToDo, Looking, OffersAreComplete, SlotsOK
  <1>3. HistoryOK'
    BY <1>0 DEF HistoryOK, Watching, NoRows
  <1> QED
    BY <1>1, <1>2, <1>3 DEF SInv

\* Every step of the schedule and the query.
LEMMA SInvNext ==
    ASSUME SInv, [Next]_vars
    PROVE  SInv' /\ (MidnightsShown /\ SlotsOK => SlotsOK')
  <1>0. HInv'
    BY HInvNext DEF SInv
  <1>1. CASE UNCHANGED vars
    <2>1. CountOK' /\ ExpandedOK'
      BY <1>1 DEF SInv, CountOK, ExpandedOK, vars
    <2>2. db' = db /\ query' = query /\ kept' = kept /\ seen' = seen
      BY <1>1 DEF vars
    <2> QED
      BY <1>0, <2>1, <2>2, SInvApart
  <1>2. CASE series = NoStaff /\ Change
    BY <1>0, <1>2, SInvChange
  <1>3. ASSUME series = NoStaff, NEW a \in Admin, AdminStep(a)
        PROVE  SInv' /\ (MidnightsShown /\ SlotsOK => SlotsOK')
    BY <1>0, <1>3, SInvAdmin
  <1>4. CASE Query
    BY <1>0, <1>4, SInvAsk, SInvReads, SInvReadBookings, SInvAnswer DEF Query
  <1>5. CASE series # NoStaff /\ (Expand \/ InsertOccurrences)
    BY <1>0, <1>5, SInvSeries
  <1> QED
    BY <1>1, <1>2, <1>3, <1>4, <1>5 DEF Next

\* The inductive invariant of the schedule and the availability query.
THEOREM ScheduleInvariance == Spec => []SInv
  <1>1. Init => SInv
    BY SInvInit
  <1>2. SInv /\ [Next]_vars => SInv'
    BY SInvNext
  <1> QED
    BY <1>1, <1>2, PTL DEF Spec

\* The tables, the requests and the query keep their types.
THEOREM ScheduleTypeCorrect == Spec => []TypeOK
  BY ScheduleInvariance, SInvTypeOK, PTL

\* AvailabilityService.compute misses nothing that was free throughout, whatever
\* changes while it reads one table after the other.
THEOREM ScheduleOffersAreComplete == Spec => []OffersAreComplete
  <1>1. SInv => OffersAreComplete
    BY DEF SInv, LeftToDo
  <1> QED
    BY <1>1, ScheduleInvariance, PTL

\* AvailabilityService.compute offers nothing that was blocked throughout and
\* nothing outside of the hours, whatever changes while it reads, in a zone that
\* does not skip the end of a day.  Without the hypothesis the theorem is false:
\* hours that end at a skipped 23:30 end at 0:30 of the next day, whose time off
\* and bookings compute has not read.
THEOREM ScheduleOffersAreSound ==
    ASSUME MidnightsShown
    PROVE  Spec => []OffersAreSound
  <1>1. Init => SInv /\ SlotsOK
    BY SInvInit
  <1>2. SInv /\ SlotsOK /\ [Next]_vars => SInv' /\ SlotsOK'
    BY SInvNext
  <1>3. SlotsOK => OffersAreSound
    BY DEF SlotsOK, OffersAreSound
  <1> QED
    BY <1>1, <1>2, <1>3, PTL DEF Spec

-----------------------------------------------------------------------------
(* The calendar of a zone whose changes do not cross midnight. *)

\* The changes of the clock are more than a day apart, no time is moved over
\* midnight by the one and no midnight is shown again by the other.
ChangesWithinDays ==
    /\ Spring + DAY + Gap <= Autumn
    /\ \A d \in Int : /\ d * DAY <= Spring \/ Spring + 2 * Gap <= d * DAY
                      /\ d * DAY <= Autumn \/ Autumn + Gap <= d * DAY

\* Division with remainder.
LEMMA Euclid ==
    ASSUME NEW a \in Int, NEW N \in Nat, N > 0
    PROVE  /\ a \div N \in Int /\ a % N \in 0..(N - 1)
           /\ a = (a \div N) * N + (a % N)
  OBVIOUS

\* Quotients are as large as the multiples they contain.
LEMMA QuotientIs ==
    ASSUME NEW a \in Int, NEW N \in Nat, N > 0, NEW k \in Int
    PROVE  k * N <= a <=> k <= a \div N
  <1> DEFINE q == a \div N
             r == a % N
  <1>1. q \in Int /\ r \in 0..(N - 1) /\ a = q * N + r
    BY Euclid
  <1> HIDE DEF q, r
  <1>2. k <= q => k * N <= q * N
    BY <1>1
  <1>3. q + 1 <= k => (q + 1) * N <= k * N
    BY <1>1
  <1>4. k * N \in Int /\ q * N \in Int /\ (q + 1) * N = q * N + N
    BY <1>1
  <1>5. k * N <= a <=> k <= q
    BY <1>1, <1>2, <1>3, <1>4
  <1> QED
    BY <1>5 DEF q

\* The clock at an instant.
LEMMA ClockTypes ==
    ASSUME NEW u \in Int
    PROVE  /\ Local(u) \in Int /\ Offset(u) \in {0, Gap}
           /\ DayOf(u) \in Int /\ MinuteOf(u) \in 0..(DAY - 1)
           /\ Local(u) = DayOf(u) * DAY + MinuteOf(u)
  <1>1. Local(u) \in Int /\ Offset(u) \in {0, Gap}
    BY ZoneTypes DEF Local, Offset
  <1> QED
    BY <1>1, ZoneTypes, Euclid DEF DayOf, MinuteOf

\* A time of a day is an instant of the day, and shown then if it is shown at all.
LEMMA DayOfTime ==
    ASSUME ChangesWithinDays, NEW d \in Int, NEW m \in 0..(DAY - 1), NEW o \in {0, Gap}
    PROVE  LET u == FixOffset(d * DAY + m, o)
           IN u \in Int /\ DayOf(u) = d /\ (Instants(d, m) # {} => MinuteOf(u) = m)
  <1> DEFINE L == d * DAY + m
             N == (d + 1) * DAY
             u == Placed(L, o)
  <1>1. /\ L \in Int /\ N \in Int /\ m \in Int /\ d * DAY \in Int /\ N = d * DAY + DAY
        /\ m < DAY /\ L < N
    BY ZoneTypes
  <1>2. FixOffset(L, o) = u /\ u \in Int
    BY <1>1, FixOffsetIs, LocalOfPlaced
  <1>3. N <= Spring \/ Spring + 2 * Gap <= N
    BY DEF ChangesWithinDays
  <1>0. Instants(d, m) = {v \in {L, L - Gap} : Local(v) = L}
    BY <1>1, ZoneTypes DEF Instants
  <1> HIDE DEF L, N
  <1>4. Instants(d, m) # {} => L < Spring \/ Spring + Gap <= L
    <2>2. Instants(d, m) # {} => Local(L) = L \/ Local(L - Gap) = L
      BY <1>0
    <2>3. Local(L) = L \/ Local(L - Gap) = L => L < Spring \/ Spring + Gap <= L
      BY <1>1, ZoneTypes DEF Local, Offset
    <2> QED
      BY <2>2, <2>3
  <1>5. CASE L < Spring \/ Spring + Gap <= L
    <2>1. Local(u) = L
      BY <1>1, <1>5, ZoneTypes DEF Placed, Local, Offset
    <2>2. L \div DAY = d /\ L % DAY = m
      BY <1>1, ZoneTypes, Division DEF L
    <2> QED
      BY <1>2, <2>1, <2>2 DEF DayOf, MinuteOf, L
  <1>6. CASE ~(L < Spring \/ Spring + Gap <= L)
    <2>1. Local(u) = L + Gap
      BY <1>1, <1>6, ZoneTypes DEF Placed, Local, Offset
    <2>2. L + Gap < N
      BY <1>1, <1>3, <1>6, ZoneTypes
    <2>3. m + Gap \in 0..(DAY - 1) /\ L + Gap = d * DAY + (m + Gap)
      BY <1>1, <2>2, ZoneTypes DEF L
    <2>4. (L + Gap) \div DAY = d
      BY <2>3, ZoneTypes, Division
    <2> QED
      BY <1>2, <1>4, <1>6, <2>1, <2>4 DEF DayOf, L
  <1> QED
    BY <1>5, <1>6

\* n days later.
LEMMA DayOfPlusDays ==
    ASSUME ChangesWithinDays, NEW u \in Int, NEW n \in Int
    PROVE  /\ PlusDays(u, n) \in Int /\ DayOf(PlusDays(u, n)) = DayOf(u) + n
           /\ Instants(DayOf(u) + n, MinuteOf(u)) # {} => MinuteOf(PlusDays(u, n)) = MinuteOf(u)
  <1> DEFINE d == DayOf(u)
             m == MinuteOf(u)
             o == Offset(u)
  <1>1. d \in Int /\ m \in 0..(DAY - 1) /\ o \in {0, Gap} /\ Local(u) = d * DAY + m
    BY ClockTypes
  <1>2. PlusDays(u, n) = FixOffset(Local(u) + n * DAY, o)
    BY DEF PlusDays
  <1> HIDE DEF d, m, o
  <1>3. Local(u) + n * DAY = (d + n) * DAY + m /\ d + n \in Int
    BY <1>1, ZoneTypes
  <1>4. LET v == FixOffset((d + n) * DAY + m, o)
        IN v \in Int /\ DayOf(v) = d + n /\ (Instants(d + n, m) # {} => MinuteOf(v) = m)
    BY <1>1, <1>3, DayOfTime
  <1> QED
    BY <1>2, <1>3, <1>4 DEF d, m

\* Whether an instant is after a day is whether it is not before the midnight
\* that ends it.
LEMMA AfterMidnight ==
    ASSUME NEW u \in Int, NEW L \in Int, NEW o \in {0, Gap},
           L <= Spring \/ Spring + 2 * Gap <= L, L <= Autumn \/ Autumn + Gap <= L,
           L = Autumn => o = Gap
    PROVE  Placed(L, o) <= u <=> L <= Local(u)
  BY ZoneTypes DEF Placed, Local, Offset

\* The bound by a last day: an instant is past it iff its day is.
LEMMA PastIs ==
    ASSUME ChangesWithinDays, NEW u \in Int, NEW t \in Int
    PROVE  u > EndOfDay(FromISO(t)) <=> DayOf(u) > t
  <1> DEFINE v == FromISO(t)
             w == PlusDays(v, 1)
             L == (t + 1) * DAY
             o == Offset(w)
  <1>1. v \in Int /\ DayOf(v) = t
    BY ZoneTypes, DayOfMidnight DEF FromISO
  <1>2. w \in Int /\ DayOf(w) = t + 1 /\ o \in {0, Gap}
    <2>1. 1 \in Int
      OBVIOUS
    <2>2. w \in Int /\ DayOf(w) = DayOf(v) + 1
      BY <1>1, <2>1, DayOfPlusDays
    <2> QED
      BY <1>1, <2>2, OffsetCases
  <1>3. L \in Int /\ L + 0 = L /\ t * DAY \in Int /\ L = t * DAY + DAY
    BY ZoneTypes
  <1>4. EndOfDay(v) = Placed(L, o) - 1
    <2>1. EndOfDay(v) = FixOffset(DayOf(w) * DAY + 0, o) - 1
      BY DEF EndOfDay, SetMinute
    <2>2. DayOf(w) * DAY + 0 = L
      BY <1>2, <1>3
    <2> QED
      BY <1>2, <1>3, <2>1, <2>2, FixOffsetIs
  <1>5. L = Autumn => o = Gap
    <2> SUFFICES ASSUME L = Autumn PROVE o = Gap
      OBVIOUS
    <2>1. t * DAY = Autumn - DAY /\ Spring + Gap <= t * DAY /\ t * DAY < Autumn
      BY <1>3, ZoneTypes DEF ChangesWithinDays
    <2>2. v = t * DAY - Gap
      BY <1>3, <2>1, ZoneTypes, FixOffsetIs DEF FromISO, Placed
    <2>3. Offset(v) = Gap /\ Local(v) = t * DAY
      BY <1>3, <2>1, <2>2, ZoneTypes DEF Offset, Local
    <2>4. w = FixOffset(Autumn, Gap)
      BY <1>3, <2>1, <2>3, ZoneTypes DEF PlusDays
    <2>5. w = Autumn - Gap
      BY <2>4, ZoneTypes, FixOffsetIs DEF Placed
    <2> QED
      BY <2>5, ZoneTypes DEF Offset
  <1>6. /\ L <= Spring \/ Spring + 2 * Gap <= L
        /\ L <= Autumn \/ Autumn + Gap <= L
    BY DEF ChangesWithinDays
  <1> HIDE DEF L, o
  <1>7. Placed(L, o) <= u <=> L <= Local(u)
    BY <1>2, <1>3, <1>5, <1>6, AfterMidnight
  <1>8. Placed(L, o) \in Int
    BY <1>2, <1>3, LocalOfPlaced
  <1>9. L <= Local(u) <=> t + 1 <= DayOf(u)
    <2>1. Local(u) \in Int /\ t + 1 \in Int /\ DAY > 0 /\ DAY \in Nat
      BY ClockTypes, ZoneTypes
    <2> QED
      BY <2>1, QuotientIs DEF DayOf, L
  <1>10. DayOf(u) \in Int
    BY ClockTypes
  <1> QED
    BY <1>4, <1>7, <1>8, <1>9, <1>10

-----------------------------------------------------------------------------
(* The rule. *)

\* The days before a day that a rule names.
DaysBefore(rule, day) == {d \in rule.startDate..(day - 1) : Named(rule, d)}

\* Up to a day the clock shows the time of the rule every day.
NeverSkipped(rule, day) == \A d \in rule.startDate..day : Instants(d, rule.startMinutes) # {}

OnTime(rule, u) == NeverSkipped(rule, DayOf(u)) => MinuteOf(u) = rule.startMinutes

\* The weeks from the beginning of a rule to a day, and the weekdays of the rule
\* before the day in its week, which begins on a Monday.
WeeksTo(rule, day) == WeekOf(day) - WeekOf(rule.startDate)
Passed(rule, day) == {wd \in Weekdays(rule) : (wd + 6) % 7 < (day + 6) % 7}

\* What the scan of a weekly rule has found when it reaches a day in a later
\* week: an occurrence for each weekday of the active weeks that are over, the
\* first one not counted, and for each weekday passed of the present one.
FullWeeks(rule, day) ==
    Cardinality(Weekdays(rule)) * ((WeeksTo(rule, day) - 1) \div rule.interval)

Scan(rule, day, k) ==
    WeeksTo(rule, day) >= 1 =>
        /\ k >= FullWeeks(rule, day)
        /\ WeeksTo(rule, day) % rule.interval = 0 =>
               k >= FullWeeks(rule, day) + Cardinality(Passed(rule, day))

\* Occurrences found on the days before a day.
Found(rule, day, out) ==
    /\ out \subseteq Int /\ IsFiniteSet(out)
    /\ {DayOf(u) : u \in out} = DaysBefore(rule, day)
    /\ Cardinality(out) = Cardinality(DaysBefore(rule, day))
    /\ Cardinality(out) <= Limit(rule)

-----------------------------------------------------------------------------

\* What the DTO guarantees of a rule.
LEMMA RuleTypes ==
    ASSUME NEW rule \in Rule
    PROVE  /\ rule.freq \in {"daily", "weekly"}
           /\ rule.interval \in Nat /\ rule.interval > 0
           /\ rule.startDate \in Int /\ rule.startMinutes \in 0..(DAY - 1)
           /\ rule.until # NoDate => rule.until \in Int
  BY InputAssumption

\* The number of occurrences a rule asks for and is allowed.
LEMMA LimitIs ==
    ASSUME NEW rule \in Rule
    PROVE  /\ Limit(rule) = IF rule.count \in 1..MAX_OCCURRENCES THEN rule.count ELSE MAX_OCCURRENCES
           /\ Limit(rule) \in Nat /\ Limit(rule) > 0 /\ Limit(rule) <= MAX_OCCURRENCES
           /\ MAX_OCCURRENCES \in Nat /\ MAX_OCCURRENCES > 0
  <1>0. /\ rule.count = NoCount \/ (rule.count \in Nat /\ rule.count > 0)
        /\ MAX_OCCURRENCES \in Nat /\ MAX_OCCURRENCES > 0 /\ NoCount \notin Nat
    BY InputAssumption
  <1>1. CASE rule.count = NoCount
    <2>1. Limit(rule) = MAX_OCCURRENCES
      BY <1>1 DEF Limit
    <2>2. rule.count \notin 1..MAX_OCCURRENCES
      BY <1>0, <1>1
    <2> QED
      BY <1>0, <2>1, <2>2
  <1>2. CASE rule.count # NoCount
    <2> DEFINE c == rule.count
    <2>0. c \in Nat /\ c > 0
      BY <1>0, <1>2
    <2>1. Limit(rule) = Min({c, MAX_OCCURRENCES})
      BY <1>2 DEF Limit
    <2> HIDE DEF c
    <2>2. \E x \in {c, MAX_OCCURRENCES} : \A y \in {c, MAX_OCCURRENCES} : x <= y
      BY <1>0, <2>0
    <2>3. /\ Min({c, MAX_OCCURRENCES}) \in {c, MAX_OCCURRENCES}
          /\ \A y \in {c, MAX_OCCURRENCES} : Min({c, MAX_OCCURRENCES}) <= y
      BY <2>2 DEF Min
    <2>4. Limit(rule) \in {c, MAX_OCCURRENCES} /\ Limit(rule) <= c /\ Limit(rule) <= MAX_OCCURRENCES
      BY <2>1, <2>3
    <2>5. CASE c \in 1..MAX_OCCURRENCES
      <3>1. Limit(rule) = c
        BY <1>0, <2>0, <2>4, <2>5
      <3> QED
        BY <1>0, <2>0, <2>5, <3>1 DEF c
    <2>6. CASE c \notin 1..MAX_OCCURRENCES
      <3>1. Limit(rule) = MAX_OCCURRENCES
        BY <1>0, <2>0, <2>4, <2>6
      <3> QED
        BY <1>0, <2>0, <2>6, <3>1 DEF c
    <2> QED
      BY <2>5, <2>6
  <1> QED
    BY <1>1, <1>2

\* The first candidate.
LEMMA StartIs ==
    ASSUME ChangesWithinDays, NEW rule \in Rule
    PROVE  /\ Start(rule) \in Int /\ DayOf(Start(rule)) = rule.startDate
           /\ OnTime(rule, Start(rule))
  <1> DEFINE u == FromISO(rule.startDate)
  <1>0. rule.startDate \in Int /\ rule.startMinutes \in 0..(DAY - 1)
    BY RuleTypes
  <1>1. DayOf(u) = rule.startDate
    BY <1>0, ZoneTypes, DayOfMidnight DEF FromISO
  <1>2. Start(rule) = FixOffset(rule.startDate * DAY + rule.startMinutes, Offset(u))
    BY <1>1 DEF Start, SetMinute
  <1>3. Offset(u) \in {0, Gap}
    BY OffsetCases
  <1> HIDE DEF u
  <1>4. /\ Start(rule) \in Int /\ DayOf(Start(rule)) = rule.startDate
        /\ Instants(rule.startDate, rule.startMinutes) # {} =>
               MinuteOf(Start(rule)) = rule.startMinutes
    BY <1>0, <1>2, <1>3, DayOfTime
  <1>5. rule.startDate \in rule.startDate..rule.startDate
    BY <1>0
  <1> QED
    BY <1>4, <1>5 DEF OnTime, NeverSkipped

\* The weekdays of a rule.
LEMMA WeekdaysAre ==
    ASSUME ChangesWithinDays, NEW rule \in Rule
    PROVE  /\ Weekdays(rule) \subseteq 0..6 /\ IsFiniteSet(Weekdays(rule))
           /\ Cardinality(Weekdays(rule)) \in Nat /\ Cardinality(Weekdays(rule)) > 0
           /\ rule.weekdays = {} => Weekdays(rule) = {rule.startDate % 7}
           /\ rule.weekdays # {} => Weekdays(rule) = rule.weekdays
  <1>0. rule.startDate \in Int /\ rule.weekdays \subseteq 0..6
    BY InputAssumption
  <1>1. Weekday(Start(rule)) = rule.startDate % 7
    BY StartIs DEF Weekday
  <1>2. /\ rule.weekdays = {} => Weekdays(rule) = {rule.startDate % 7}
        /\ rule.weekdays # {} => Weekdays(rule) = rule.weekdays
    BY <1>1 DEF Weekdays
  <1>3. rule.startDate % 7 \in 0..6
    BY <1>0
  <1>4. Weekdays(rule) \subseteq 0..6 /\ Weekdays(rule) # {}
    BY <1>0, <1>2, <1>3
  <1>5. IsFiniteSet(0..6)
    <2>1. 0 \in Int /\ 6 \in Int
      OBVIOUS
    <2> QED
      BY <2>1, FS_Interval
  <1>6. IsFiniteSet(Weekdays(rule))
    BY <1>4, <1>5, FS_Subset
  <1>7. Cardinality(Weekdays(rule)) \in Nat /\ Cardinality(Weekdays(rule)) # 0
    <2>1. Cardinality(Weekdays(rule)) \in Nat
      BY <1>6, FS_CardinalityType
    <2>2. Cardinality(Weekdays(rule)) = 0 <=> Weekdays(rule) = {}
      BY <1>6, FS_EmptySet
    <2> QED
      BY <1>4, <2>1, <2>2
  <1>8. Cardinality(Weekdays(rule)) > 0
    BY <1>7
  <1> QED
    BY <1>2, <1>4, <1>6, <1>7, <1>8

\* The rule's last day.
LEMMA PastRuleIs ==
    ASSUME ChangesWithinDays, NEW rule \in Rule, NEW u \in Int
    PROVE  Past(rule, u) <=> rule.until # NoDate /\ DayOf(u) > rule.until
  BY RuleTypes, PastIs DEF Past

\* The scan of a weekly rule stops where the calendar says.
LEMMA FiresIs ==
    ASSUME ChangesWithinDays, NEW rule \in Rule, rule.freq = "weekly", NEW u \in Int,
           ~Past(rule, u)
    PROVE  Fires(rule, u) <=> Named(rule, DayOf(u))
  <1> DEFINE D == DayOf(u)
             S == rule.startDate
  <1>0. D \in Int /\ S \in Int /\ DayOf(Start(rule)) = S
    BY ClockTypes, RuleTypes, StartIs
  <1>1. WeekStart(u) = D - ((D + 6) % 7) /\ WeekStart(Start(rule)) = S - ((S + 6) % 7)
    BY <1>0 DEF WeekStart
  <1>2. rule.until # NoDate => D <= rule.until
    BY <1>0, PastRuleIs, RuleTypes
  <1>3. Weekday(u) = D % 7
    BY DEF Weekday
  <1>4. Weekday(u) \in Weekdays(rule) <=>
           IF rule.weekdays = {} THEN D % 7 = S % 7 ELSE D % 7 \in rule.weekdays
    BY <1>3, WeekdaysAre
  <1> HIDE DEF D, S
  <1>5. (WeekStart(u) - WeekStart(Start(rule))) \div 7 = WeekOf(D) - WeekOf(S)
    <2> DEFINE a == (D + 6) \div 7
               b == (S + 6) \div 7
               i == (D + 6) % 7
               j == (S + 6) % 7
    <2>1. a \in Int /\ i \in 0..6 /\ D + 6 = a * 7 + i
      BY <1>0
    <2>2. b \in Int /\ j \in 0..6 /\ S + 6 = b * 7 + j
      BY <1>0
    <2>3. WeekStart(u) = D - i /\ WeekStart(Start(rule)) = S - j
      BY <1>1
    <2> HIDE DEF a, b, i, j
    <2>4. WeekStart(u) - WeekStart(Start(rule)) = (a - b) * 7 + 0
      BY <1>0, <2>1, <2>2, <2>3
    <2>5. ((a - b) * 7 + 0) \div 7 = a - b
      BY <2>1, <2>2
    <2> QED
      BY <2>4, <2>5 DEF WeekOf, a, b
  <1>6. rule.freq # "daily"
    OBVIOUS
  <1> QED
    BY <1>2, <1>4, <1>5, <1>6 DEF Fires, Named, D, S

-----------------------------------------------------------------------------

\* The definition, by its elements.
LEMMA DaysAre ==
    ASSUME NEW rule, NEW day
    PROVE  \A d : d \in DaysBefore(rule, day) <=> d \in rule.startDate..(day - 1) /\ Named(rule, d)
  BY DEF DaysBefore

\* The named days before a day are finitely many.
LEMMA DaysFinite ==
    ASSUME NEW rule \in Rule, NEW day \in Int
    PROVE  /\ IsFiniteSet(DaysBefore(rule, day)) /\ Cardinality(DaysBefore(rule, day)) \in Nat
           /\ DaysBefore(rule, day) \subseteq rule.startDate..(day - 1)
  <1>1. DaysBefore(rule, day) \subseteq rule.startDate..(day - 1)
    BY DEF DaysBefore
  <1>2. rule.startDate \in Int /\ day - 1 \in Int
    BY RuleTypes
  <1>3. IsFiniteSet(rule.startDate..(day - 1))
    BY <1>2, FS_Interval
  <1>4. IsFiniteSet(DaysBefore(rule, day))
    BY <1>1, <1>3, FS_Subset
  <1> QED
    BY <1>1, <1>4, FS_CardinalityType

\* A round that finds an occurrence.
LEMMA FoundMore ==
    ASSUME NEW rule \in Rule, NEW out, NEW D \in Int, NEW E \in Int, NEW c \in Int,
           Found(rule, D, out), DayOf(c) = D, Cardinality(out) # Limit(rule),
           DaysBefore(rule, E) = DaysBefore(rule, D) \cup {D}
    PROVE  /\ Found(rule, E, out \cup {c})
           /\ Cardinality(out \cup {c}) = Cardinality(out) + 1
  <1>1. D \notin DaysBefore(rule, D)
    BY RuleTypes DEF DaysBefore
  <1>2. c \notin out
    BY <1>1 DEF Found
  <1>3. /\ IsFiniteSet(out \cup {c}) /\ Cardinality(out \cup {c}) = Cardinality(out) + 1
    BY <1>2, FS_AddElement DEF Found
  <1>4. Cardinality(DaysBefore(rule, E)) = Cardinality(DaysBefore(rule, D)) + 1
    BY <1>1, DaysFinite, FS_AddElement
  <1>5. Cardinality(out) \in Nat /\ Limit(rule) \in Nat
    BY FS_CardinalityType, LimitIs DEF Found
  <1>6. Cardinality(out \cup {c}) <= Limit(rule)
    BY <1>3, <1>5 DEF Found
  <1>7. {DayOf(u) : u \in out \cup {c}} = {DayOf(u) : u \in out} \cup {D}
    OBVIOUS
  <1> QED
    BY <1>3, <1>4, <1>6, <1>7 DEF Found

\* A daily rule names no day within an interval after an occurrence.
LEMMA DailyStep ==
    ASSUME NEW rule \in Rule, rule.freq = "daily", NEW k \in Nat, NEW D \in Int,
           D = rule.startDate + k * rule.interval, rule.until # NoDate => D <= rule.until
    PROVE  DaysBefore(rule, D + rule.interval) = DaysBefore(rule, D) \cup {D}
  <1> DEFINE S == rule.startDate
             I == rule.interval
  <1>0. S \in Int /\ I \in Nat /\ I > 0 /\ k * I \in Nat
    BY RuleTypes
  <1>1. Named(rule, D)
    <2>1. (k * I + 0) % I = 0
      BY <1>0, Division
    <2>2. D - S = k * I + 0
      BY <1>0
    <2>3. (D - S) % I = 0
      BY <2>1, <2>2
    <2> QED
      BY <2>3 DEF Named
  <1>2. ASSUME NEW d \in (D + 1)..(D + I - 1) PROVE ~Named(rule, d)
    <2> DEFINE j == d - D
    <2>1. j \in 0..(I - 1) /\ j # 0 /\ d - S = k * I + j
      BY <1>0
    <2> HIDE DEF j
    <2>2. (k * I + j) % I = j
      <3>1. k \in Int
        OBVIOUS
      <3> HIDE DEF I
      <3> QED
        BY <1>0, <2>1, <3>1, Division
    <2>3. (d - S) % I # 0
      BY <2>1, <2>2
    <2> QED
      BY <2>3 DEF Named
  <1>6. /\ \A d : d \in DaysBefore(rule, D + I) <=> d \in S..(D + I - 1) /\ Named(rule, d)
        /\ \A d : d \in DaysBefore(rule, D) <=> d \in S..(D - 1) /\ Named(rule, d)
    BY <1>0, DaysAre
  <1>3. D \in S..(D + I - 1) /\ S <= D
    BY <1>0
  <1> HIDE DEF S, I
  <1>4. \A d : d \in S..(D + I - 1) <=> d \in S..(D - 1) \/ d = D \/ d \in (D + 1)..(D + I - 1)
    BY <1>0, <1>3
  <1>5. \A d : d \in S..(D + I - 1) /\ Named(rule, d) <=> (d \in S..(D - 1) /\ Named(rule, d)) \/ d = D
    BY <1>1, <1>2, <1>4
  <1>7. DaysBefore(rule, D + I) = DaysBefore(rule, D) \cup {D}
    BY <1>5, <1>6
  <1> QED
    BY <1>7 DEF I

\* The next day of the scan.
LEMMA DayStep ==
    ASSUME NEW rule \in Rule, NEW D \in Int, rule.startDate <= D
    PROVE  DaysBefore(rule, D + 1) =
               IF Named(rule, D) THEN DaysBefore(rule, D) \cup {D} ELSE DaysBefore(rule, D)
  <1>0. rule.startDate \in Int
    BY RuleTypes
  <1>1. \A d : d \in rule.startDate..(D + 1 - 1) <=> d \in rule.startDate..(D - 1) \/ d = D
    BY <1>0
  <1> QED
    BY <1>1 DEF DaysBefore

-----------------------------------------------------------------------------
(* The bound of the weekly scan. *)

\* From one day to the next in the weeks.
LEMMA WeekStep ==
    ASSUME NEW D \in Int
    PROVE  /\ WeekOf(D) \in Int /\ (D + 6) % 7 \in 0..6 /\ (D % 7) \in 0..6
           /\ ((D % 7) + 6) % 7 = (D + 6) % 7
           /\ (D + 6) % 7 < 6 => WeekOf(D + 1) = WeekOf(D) /\ (D + 1 + 6) % 7 = ((D + 6) % 7) + 1
           /\ (D + 6) % 7 = 6 => WeekOf(D + 1) = WeekOf(D) + 1 /\ (D + 1 + 6) % 7 = 0
  BY DEF WeekOf

\* The position of a weekday determines it.
LEMMA PositionInjective ==
    ASSUME NEW v \in 0..6, NEW w \in 0..6, (v + 6) % 7 = (w + 6) % 7
    PROVE  v = w
  OBVIOUS

\* Quotients of consecutive numbers.
LEMMA QuotientStep ==
    ASSUME NEW q \in Int, NEW I \in Nat, I > 0
    PROVE  /\ (q - 1) \div I \in Int
           /\ q % I = 0 => q \div I = ((q - 1) \div I) + 1
           /\ q % I # 0 => q \div I = (q - 1) \div I
  <1> DEFINE a == (q - 1) \div I
             b == (q - 1) % I
  <1>1. a \in Int /\ b \in 0..(I - 1) /\ q - 1 = a * I + b /\ a * I \in Int
    BY Euclid
  <1> HIDE DEF a, b
  <1>2. CASE b + 1 < I
    <2>1. q = a * I + (b + 1) /\ b + 1 \in 0..(I - 1)
      BY <1>1, <1>2
    <2>2. (a * I + (b + 1)) \div I = a /\ (a * I + (b + 1)) % I = b + 1
      BY <1>1, <2>1, Division
    <2>3. q \div I = a /\ q % I = b + 1 /\ b + 1 # 0
      BY <1>1, <2>1, <2>2
    <2> QED
      BY <1>1, <2>3 DEF a
  <1>3. CASE ~(b + 1 < I)
    <2>1. q = (a + 1) * I + 0 /\ 0 \in 0..(I - 1) /\ a + 1 \in Int
      BY <1>1, <1>3
    <2>2. ((a + 1) * I + 0) \div I = a + 1 /\ ((a + 1) * I + 0) % I = 0
      BY <2>1, Division
    <2>3. q \div I = a + 1 /\ q % I = 0
      BY <2>1, <2>2
    <2> QED
      BY <1>1, <2>3 DEF a
  <1> QED
    BY <1>2, <1>3

\* A weekly rule names the days of its weekdays in active weeks.
LEMMA NamedWeekly ==
    ASSUME ChangesWithinDays, NEW rule \in Rule, rule.freq = "weekly", NEW D \in Int,
           rule.until # NoDate => D <= rule.until
    PROVE  Named(rule, D) <=> WeeksTo(rule, D) % rule.interval = 0 /\ (D % 7) \in Weekdays(rule)
  <1>1. (D % 7) \in Weekdays(rule) <=>
           IF rule.weekdays = {} THEN D % 7 = rule.startDate % 7 ELSE D % 7 \in rule.weekdays
    BY WeekdaysAre
  <1>2. rule.freq # "daily"
    OBVIOUS
  <1> QED
    BY <1>1, <1>2 DEF Named, WeeksTo

\* The weekdays passed at the next day, and at the end of a week.
LEMMA PassedStep ==
    ASSUME ChangesWithinDays, NEW rule \in Rule, NEW D \in Int
    PROVE  LET more == Cardinality(Passed(rule, D)) +
                           (IF (D % 7) \in Weekdays(rule) THEN 1 ELSE 0)
           IN /\ Cardinality(Passed(rule, D)) \in Nat
              /\ (D + 6) % 7 < 6 => Cardinality(Passed(rule, D + 1)) = more
              /\ (D + 6) % 7 = 6 => /\ Cardinality(Weekdays(rule)) = more
                                    /\ Cardinality(Passed(rule, D + 1)) = 0
  <1> DEFINE W == Weekdays(rule)
             P == Passed(rule, D)
             p == (D + 6) % 7
             wd == D % 7
  <1>0. W \subseteq 0..6 /\ IsFiniteSet(W)
    BY WeekdaysAre
  <1>1. P \subseteq W /\ \A v \in W : v \in P <=> (v + 6) % 7 < p
    BY DEF Passed
  <1>2. p \in 0..6 /\ wd \in 0..6 /\ (wd + 6) % 7 = p
    BY WeekStep
  <1>3. IsFiniteSet(P) /\ Cardinality(P) \in Nat
    BY <1>0, <1>1, FS_Subset, FS_CardinalityType
  <1> HIDE DEF W, P, p, wd
  <1>4. wd \notin P
    BY <1>1, <1>2
  <1>5. \A v \in W : (v + 6) % 7 \in 0..6 /\ ((v + 6) % 7 = p => v = wd)
    BY <1>0, <1>2, PositionInjective
  <1>6. Cardinality(P \cup {wd}) = Cardinality(P) + 1
    BY <1>3, <1>4, FS_AddElement
  <1> DEFINE more == Cardinality(P) + (IF wd \in W THEN 1 ELSE 0)
  <1>7. ASSUME p < 6 PROVE Cardinality(Passed(rule, D + 1)) = more
    <2>1. (D + 1 + 6) % 7 = p + 1
      BY <1>7, WeekStep DEF p
    <2>2. Passed(rule, D + 1) = {v \in W : (v + 6) % 7 < p + 1}
      BY <2>1 DEF Passed, W
    <2>3. \A v \in W : (v + 6) % 7 < p + 1 <=> v \in P \/ v = wd
      BY <1>1, <1>2, <1>5
    <2>4. CASE wd \in W
      <3>1. Passed(rule, D + 1) = P \cup {wd}
        BY <1>1, <2>2, <2>3, <2>4
      <3> QED
        BY <1>6, <2>4, <3>1
    <2>5. CASE wd \notin W
      <3>1. Passed(rule, D + 1) = P
        BY <1>1, <2>2, <2>3, <2>5
      <3> QED
        BY <1>3, <2>5, <3>1
    <2> QED
      BY <2>4, <2>5
  <1>8. ASSUME p = 6 PROVE Cardinality(W) = more /\ Cardinality(Passed(rule, D + 1)) = 0
    <2>1. (D + 1 + 6) % 7 = 0
      BY <1>8, WeekStep DEF p
    <2>2. Passed(rule, D + 1) = {}
      BY <1>5, <2>1 DEF Passed, W
    <2>3. \A v \in W : v \in P \/ v = wd
      BY <1>1, <1>2, <1>5, <1>8
    <2>4. CASE wd \in W
      <3>1. W = P \cup {wd}
        BY <1>1, <2>3, <2>4
      <3> QED
        BY <1>6, <2>2, <2>4, <3>1, FS_EmptySet
    <2>5. CASE wd \notin W
      <3>1. W = P
        BY <1>1, <2>3, <2>5
      <3> QED
        BY <1>3, <2>2, <2>5, <3>1, FS_EmptySet
    <2> QED
      BY <2>4, <2>5
  <1> QED
    BY <1>3, <1>7, <1>8 DEF W, P, p, wd

\* A day is scanned.
LEMMA ScanNext ==
    ASSUME ChangesWithinDays, NEW rule \in Rule, rule.freq = "weekly", NEW D \in Int,
           rule.startDate <= D, rule.until # NoDate => D <= rule.until,
           NEW k \in Nat, NEW l \in Nat, Scan(rule, D, k),
           l = IF Named(rule, D) THEN k + 1 ELSE k
    PROVE  Scan(rule, D + 1, l)
  <1> DEFINE q == WeeksTo(rule, D)
             I == rule.interval
             N == Cardinality(Weekdays(rule))
             P == Cardinality(Passed(rule, D))
             one == IF (D % 7) \in Weekdays(rule) THEN 1 ELSE 0
             f == (q - 1) \div I
             p == (D + 6) % 7
             q2 == WeeksTo(rule, D + 1)
             P2 == Cardinality(Passed(rule, D + 1))
  <1>0. rule.startDate \in Int /\ I \in Nat /\ I > 0
    BY RuleTypes
  <1>1. N \in Nat /\ P \in Nat /\ one \in 0..1
    BY WeekdaysAre, PassedStep
  <1>2. /\ p < 6 => P2 = P + one
        /\ p = 6 => N = P + one /\ P2 = 0
    BY PassedStep
  <1>3. q \in Int /\ p \in 0..6 /\ WeekOf(D) \in Int /\ WeekOf(rule.startDate) \in Int
    BY <1>0, WeekStep DEF WeeksTo
  <1>4. /\ p < 6 => q2 = q
        /\ p = 6 => q2 = q + 1
    BY <1>3, WeekStep DEF WeeksTo
  <1>5. /\ f \in Int
        /\ q % I = 0 => q \div I = f + 1
        /\ q % I # 0 => q \div I = f
    BY <1>0, <1>3, QuotientStep
  <1>6. q % I = 0 => l = k + one
    BY NamedWeekly
  <1>7. l >= k
    OBVIOUS
  <1>8. q >= 1 => k >= N * f /\ (q % I = 0 => k >= N * f + P)
    BY DEF Scan, FullWeeks
  <1>9. N * f \in Int /\ N * (f + 1) = N * f + N
    BY <1>1, <1>5
  <1>10. FullWeeks(rule, D + 1) = N * ((q2 - 1) \div I)
    BY DEF FullWeeks
  <1>11. SUFFICES q2 >= 1 => /\ l >= N * ((q2 - 1) \div I)
                             /\ q2 % I = 0 => l >= N * ((q2 - 1) \div I) + P2
    BY <1>10 DEF Scan
  <1>12. q >= 0
    BY <1>0 DEF WeeksTo, WeekOf
  <1> HIDE DEF q, I, N, P, one, f, p, q2, P2
  <1>13. CASE p < 6
    <2>1. q2 = q /\ P2 = P + one
      BY <1>2, <1>4, <1>13
    <2>2. (q2 - 1) \div I = f
      BY <2>1 DEF f
    <2> QED
      BY <1>1, <1>6, <1>7, <1>8, <1>9, <2>1, <2>2
  <1>14. CASE p = 6
    <2>1. q2 = q + 1 /\ P2 = 0 /\ N = P + one
      BY <1>2, <1>4, <1>14
    <2>2. q2 - 1 = q
      BY <1>3, <2>1
    <2>3. CASE q >= 1 /\ q % I = 0
      <3>1. (q2 - 1) \div I = f + 1
        BY <1>5, <2>2, <2>3
      <3>2. l >= N * (f + 1)
        BY <1>1, <1>6, <1>8, <1>9, <2>1, <2>3
      <3> QED
        BY <2>1, <3>1, <3>2, <1>1, <1>9
    <2>4. CASE q >= 1 /\ q % I # 0
      <3>1. (q2 - 1) \div I = f
        BY <1>5, <2>2, <2>4
      <3> QED
        BY <1>7, <1>8, <1>9, <2>1, <2>4, <3>1
    <2>5. CASE q = 0
      <3>1. (0 * I + 0) \div I = 0
        BY <1>0, Division
      <3>2. (q2 - 1) \div I = 0
        BY <1>0, <2>2, <2>5, <3>1
      <3> QED
        BY <1>1, <2>1, <3>2
    <2> QED
      BY <1>3, <1>12, <2>3, <2>4, <2>5
  <1> QED
    BY <1>3, <1>13, <1>14

\* The quotient, rounded up, is enough.
LEMMA RoundedUp ==
    ASSUME NEW l \in Nat, NEW n \in Nat, l > 0, n > 0
    PROVE  LET c == (l + n - 1) \div n
           IN c \in Nat /\ n * c >= l /\ c <= l
  <1> DEFINE a == l + n - 1
             c == a \div n
             r == a % n
  <1>1. a \in Nat /\ c \in Int /\ r \in 0..(n - 1) /\ a = c * n + r
    BY Euclid
  <1>2. a = l + n - 1
    OBVIOUS
  <1> HIDE DEF a, c, r
  <1>3. c * n \in Int /\ n * c = c * n
    BY <1>1
  <1>4. n * c >= l
    BY <1>1, <1>2, <1>3
  <1>5. c >= 0
    BY <1>1, <1>3, <1>4
  <1>6. c <= l
    <2> SUFFICES ASSUME l + 1 <= c PROVE FALSE
      BY <1>1
    <2>1. (l + 1) * n <= c * n
      BY <1>1
    <2>2. (l + 1) * n = l * n + n /\ l <= l * n /\ l * n \in Nat
      OBVIOUS
    <2> QED
      BY <1>1, <1>2, <1>3, <2>1, <2>2
  <1> QED
    BY <1>1, <1>4, <1>5, <1>6 DEF a, c

\* The scan is long enough, and stays within the horizon.
LEMMA ScanEnough ==
    ASSUME ChangesWithinDays, NEW rule \in Rule
    PROVE  LET M == MaxScanDays(rule)
               S == rule.startDate
           IN /\ M \in Nat /\ M <= 7 * rule.interval * (MAX_OCCURRENCES + 1)
              /\ \A k \in Nat : Scan(rule, S + M, k) => k >= Limit(rule)
  <1> DEFINE S == rule.startDate
             I == rule.interval
             N == Cardinality(Weekdays(rule))
             l == Limit(rule)
             c == (l + N - 1) \div N
             t == c * I
             M == MaxScanDays(rule)
  <1>0. S \in Int /\ I \in Nat /\ I > 0 /\ N \in Nat /\ N > 0
    BY RuleTypes, WeekdaysAre
  <1>1. l \in Nat /\ l > 0 /\ l <= MAX_OCCURRENCES /\ MAX_OCCURRENCES \in Nat
    BY LimitIs
  <1>2. c \in Nat /\ N * c >= l /\ c <= l
    BY <1>0, <1>1, RoundedUp
  <1>3. M = t * 7 + 7
    BY DEF MaxScanDays
  <1> HIDE DEF S, I, N, l, M, c
  <1>4. t \in Nat
    BY <1>0, <1>2
  <1>5. c * I <= MAX_OCCURRENCES * I
    BY <1>0, <1>1, <1>2
  <1>6. MAX_OCCURRENCES * I \in Nat /\ 7 * I * (MAX_OCCURRENCES + 1) = 7 * (MAX_OCCURRENCES * I) + 7 * I
    BY <1>0, <1>1
  <1>7. M \in Nat /\ M <= 7 * I * (MAX_OCCURRENCES + 1)
    BY <1>0, <1>3, <1>4, <1>5, <1>6
  <1>8. WeeksTo(rule, S + M) = t + 1
    <2> HIDE DEF t
    <2>1. S + M = S + 7 * (t + 1)
      BY <1>0, <1>3, <1>4
    <2>2. (S + 7 * (t + 1) + 6) \div 7 = ((S + 6) \div 7) + (t + 1)
      BY <1>0, <1>4
    <2>3. (S + 6) \div 7 \in Int
      BY <1>0
    <2> QED
      BY <1>4, <2>1, <2>2, <2>3 DEF WeeksTo, WeekOf, S
  <1>9. (t + 1 - 1) \div I = c
    <2>1. (c * I + 0) \div I = c
      BY <1>0, <1>2, Division
    <2>2. t + 1 - 1 = c * I + 0
      BY <1>4
    <2> QED
      BY <2>1, <2>2
  <1>10. ASSUME NEW k \in Nat, Scan(rule, S + M, k) PROVE k >= l
    <2>1. k >= FullWeeks(rule, S + M)
      BY <1>4, <1>8, <1>10 DEF Scan
    <2>2. FullWeeks(rule, S + M) = N * c
      <3>1. FullWeeks(rule, S + M) = N * ((WeeksTo(rule, S + M) - 1) \div I)
        BY DEF FullWeeks, N, I
      <3> HIDE DEF t
      <3> QED
        BY <1>0, <1>2, <1>4, <1>8, <1>9, <3>1
    <2>3. N * c \in Nat
      BY <1>0, <1>2
    <2> QED
      BY <1>1, <1>2, <2>1, <2>2, <2>3
  <1> QED
    BY <1>7, <1>10 DEF M, S, I, l

-----------------------------------------------------------------------------
(* The end of an expansion. *)

\* The days found are the first ones, if they are as many as asked for or no day
\* follows them.
LEMMA FirstDaysAre ==
    ASSUME NEW rule \in Rule, NEW D \in Int, NEW n \in Nat,
           rule.startDate <= D,
           D <= rule.startDate + 7 * rule.interval * (MAX_OCCURRENCES + 1),
           Cardinality(DaysBefore(rule, D)) <= n,
           \/ Cardinality(DaysBefore(rule, D)) = n
           \/ \A d \in Int : D <= d => ~Named(rule, d)
    PROVE  FirstDays(rule, n) = DaysBefore(rule, D)
  <1> DEFINE H == rule.startDate + 7 * rule.interval * (MAX_OCCURRENCES + 1)
             named == {d \in rule.startDate..H : Named(rule, d)}
             found == DaysBefore(rule, D)
             before(d) == {e \in named : e < d}
  <1>0. rule.startDate \in Int /\ H \in Int /\ D <= H
    BY RuleTypes, LimitIs
  <1>1. FirstDays(rule, n) = {d \in named : Cardinality(before(d)) < n}
    BY DEF FirstDays, Horizon
  <1>2. \A d : d \in found <=> d \in rule.startDate..(D - 1) /\ Named(rule, d)
    BY DaysAre
  <1>3. IsFiniteSet(found) /\ Cardinality(found) \in Nat
    BY DaysFinite
  <1>4. IsFiniteSet(named)
    BY <1>0, FS_Interval, FS_Subset
  <1> HIDE DEF H
  <1>5. \A d \in named : d \in Int /\ rule.startDate <= d /\ Named(rule, d)
    BY <1>0
  <1>6. \A d : d \in found <=> d \in named /\ d < D
    BY <1>0, <1>2
  <1> HIDE DEF named, found
  <1>7. ASSUME NEW d \in named, d < D PROVE Cardinality(before(d)) < n
    <2>1. before(d) \subseteq found /\ d \in found /\ d \notin before(d)
      BY <1>0, <1>5, <1>6, <1>7
    <2>2. /\ IsFiniteSet(before(d)) /\ Cardinality(before(d)) <= Cardinality(found)
          /\ Cardinality(found) = Cardinality(before(d)) => found = before(d)
      BY <1>3, <2>1, FS_Subset
    <2>3. Cardinality(before(d)) \in Nat
      BY <2>2, FS_CardinalityType
    <2>4. Cardinality(before(d)) # Cardinality(found)
      BY <2>1, <2>2
    <2>5. Cardinality(found) <= n
      BY DEF found
    <2> QED
      BY <1>3, <2>2, <2>3, <2>4, <2>5
  <1>8. ASSUME NEW d \in named, ~(d < D) PROVE ~(Cardinality(before(d)) < n)
    <2>1. D <= d /\ Named(rule, d) /\ d \in Int
      BY <1>5, <1>8
    <2>2. Cardinality(found) = n
      BY <2>1 DEF found
    <2>3. found \subseteq before(d) /\ before(d) \subseteq named
      <3>1. \A e \in found : e \in named /\ e \in Int /\ e < D
        BY <1>5, <1>6
      <3>2. \A e \in found : e \in named /\ e < d
        BY <2>1, <3>1
      <3> QED
        BY <3>2
    <2>4. IsFiniteSet(before(d))
      BY <1>4, <2>3, FS_Subset
    <2>5. Cardinality(found) <= Cardinality(before(d)) /\ Cardinality(before(d)) \in Nat
      BY <2>3, <2>4, FS_Subset, FS_CardinalityType
    <2> QED
      BY <2>2, <2>5
  <1>9. {d \in named : Cardinality(before(d)) < n} = found
    <2> HIDE DEF before
    <2> QED
      BY <1>6, <1>7, <1>8
  <1> QED
    BY <1>1, <1>9 DEF found

-----------------------------------------------------------------------------
(* The expansion, round by round. *)

\* Where a call of expandRecurrence stands: it has found the days before that of
\* its cursor, which is on time as the occurrences are.
RoundsOK(x) ==
    /\ x = [rule |-> x.rule, cursor |-> x.cursor, scanned |-> x.scanned, out |-> x.out]
    /\ x.rule \in Rule /\ x.cursor \in Int
    /\ x.rule.startDate <= DayOf(x.cursor)
    /\ Found(x.rule, DayOf(x.cursor), x.out)
    /\ \A u \in x.out \cup {x.cursor} : OnTime(x.rule, u)
    /\ x.rule.freq = "daily" =>
         DayOf(x.cursor) = x.rule.startDate + Cardinality(x.out) * x.rule.interval
    /\ x.rule.freq = "weekly" =>
         /\ x.scanned \in 0..MaxScanDays(x.rule)
         /\ DayOf(x.cursor) = x.rule.startDate + x.scanned
         /\ Scan(x.rule, DayOf(x.cursor), Cardinality(x.out))

\* An expansion that is used has ended.
RuleInv ==
    series # NoStaff \/ expanded # NoRule =>
        RoundsOK(expanded) /\ (series = NoStaff => Ends(expanded))

\* A call begins.
LEMMA RoundsBegin ==
    ASSUME ChangesWithinDays, NEW rule \in Rule
    PROVE  RoundsOK(expandRecurrence(rule))
  <1> DEFINE x == expandRecurrence(rule)
             S == rule.startDate
  <1>1. /\ x.rule = rule /\ x.cursor = Start(rule) /\ x.scanned = 0 /\ x.out = {}
        /\ x = [rule |-> x.rule, cursor |-> x.cursor, scanned |-> x.scanned, out |-> x.out]
    BY DEF expandRecurrence
  <1> HIDE DEF x
  <1>2. /\ Start(rule) \in Int /\ DayOf(Start(rule)) = S /\ OnTime(rule, Start(rule))
        /\ S \in Int /\ rule.interval \in Nat
    BY StartIs, RuleTypes
  <1>3. DaysBefore(rule, S) = {}
    BY <1>2 DEF DaysBefore
  <1>4. IsFiniteSet({}) /\ Cardinality({}) = 0
    BY FS_EmptySet
  <1>5. Found(rule, S, {})
    BY <1>3, <1>4, LimitIs DEF Found
  <1>6. S = S + 0 * rule.interval /\ S = S + 0
    BY <1>2
  <1>7. 0 \in 0..MaxScanDays(rule)
    BY ScanEnough
  <1>8. Scan(rule, S, 0)
    BY <1>2, WeekStep DEF Scan, WeeksTo
  <1> HIDE DEF S
  <1>9. RoundsOK(x)
    BY <1>1, <1>2, <1>4, <1>5, <1>6, <1>7, <1>8 DEF RoundsOK, S
  <1> QED
    BY <1>9 DEF x

\* The cursor stays on time.
LEMMA OnTimeNext ==
    ASSUME ChangesWithinDays, NEW rule \in Rule, NEW c \in Int, NEW n \in Nat,
           rule.startDate <= DayOf(c), OnTime(rule, c)
    PROVE  OnTime(rule, PlusDays(c, n))
  <1> DEFINE D == DayOf(c)
             S == rule.startDate
  <1>0. S \in Int /\ D \in Int /\ n \in Int
    BY RuleTypes, ClockTypes
  <1>1. DayOf(PlusDays(c, n)) = D + n
    BY <1>0, DayOfPlusDays
  <1>2. SUFFICES ASSUME \A d \in S..(D + n) : Instants(d, rule.startMinutes) # {}
                 PROVE  MinuteOf(PlusDays(c, n)) = rule.startMinutes
    BY <1>1 DEF OnTime, NeverSkipped
  <1>3. \A d \in S..D : d \in S..(D + n)
    BY <1>0
  <1>4. MinuteOf(c) = rule.startMinutes
    BY <1>2, <1>3 DEF OnTime, NeverSkipped
  <1>5. D + n \in S..(D + n)
    BY <1>0
  <1> QED
    BY <1>0, <1>2, <1>4, <1>5, DayOfPlusDays

\* A round of a daily rule.
LEMMA RoundsDaily ==
    ASSUME ChangesWithinDays, NEW x, RoundsOK(x), x.rule.freq = "daily", ~Ends(x)
    PROVE  RoundsOK(expandDaily(x))
  <1> DEFINE rule == x.rule
             c == x.cursor
             D == DayOf(c)
             k == Cardinality(x.out)
             I == rule.interval
             n == PlusDays(c, I)
             y == expandDaily(x)
  <1>0. /\ x = [rule |-> x.rule, cursor |-> x.cursor, scanned |-> x.scanned, out |-> x.out]
        /\ rule \in Rule /\ c \in Int /\ rule.startDate <= D
        /\ Found(rule, D, x.out) /\ D = rule.startDate + k * I
        /\ \A u \in x.out \cup {c} : OnTime(rule, u)
    BY DEF RoundsOK
  <1>1. /\ y.rule = rule /\ y.cursor = n /\ y.scanned = x.scanned /\ y.out = x.out \cup {c}
        /\ y = [rule |-> y.rule, cursor |-> y.cursor, scanned |-> y.scanned, out |-> y.out]
    BY <1>0 DEF expandDaily
  <1> HIDE DEF y
  <1>2. D \in Int /\ rule.startDate \in Int /\ I \in Nat /\ I > 0 /\ I \in Int
    BY <1>0, ClockTypes, RuleTypes
  <1>3. k \in Nat /\ k # Limit(rule) /\ ~Past(rule, c)
    BY <1>0, FS_CardinalityType DEF Found, Ends
  <1>4. rule.until # NoDate => D <= rule.until
    BY <1>0, <1>2, <1>3, PastRuleIs, RuleTypes
  <1>5. n \in Int /\ DayOf(n) = D + I
    BY <1>0, <1>2, DayOfPlusDays
  <1>6. OnTime(rule, n)
    BY <1>0, <1>2, OnTimeNext
  <1> HIDE DEF rule, c, D, k, I, n
  <1>7. DaysBefore(rule, D + I) = DaysBefore(rule, D) \cup {D}
    BY <1>0, <1>2, <1>3, <1>4, DailyStep DEF I, rule
  <1>8. /\ Found(rule, D + I, x.out \cup {c})
        /\ Cardinality(x.out \cup {c}) = k + 1
    <2>1. D + I \in Int /\ DayOf(c) = D /\ Cardinality(x.out) = k
      BY <1>2 DEF D, k
    <2> QED
      BY <1>0, <1>2, <1>3, <1>7, <2>1, FoundMore
  <1>9. D + I = rule.startDate + (k + 1) * I
    BY <1>0, <1>2, <1>3
  <1>10. rule.startDate <= D + I
    BY <1>0, <1>2
  <1>11. \A u \in y.out \cup {y.cursor} : OnTime(rule, u)
    BY <1>0, <1>1, <1>6
  <1>12. rule.freq = "daily" /\ rule.freq # "weekly"
    BY DEF rule
  <1> QED
    <2>1. RoundsOK(y)
      BY <1>0, <1>1, <1>5, <1>8, <1>9, <1>10, <1>11, <1>12 DEF RoundsOK, I
    <2> QED
      BY <2>1 DEF y

\* A round of a weekly rule.
LEMMA RoundsWeekly ==
    ASSUME ChangesWithinDays, NEW x, RoundsOK(x), x.rule.freq = "weekly", ~Ends(x)
    PROVE  RoundsOK(expandWeekly(x))
  <1> DEFINE rule == x.rule
             c == x.cursor
             D == DayOf(c)
             k == Cardinality(x.out)
             n == PlusDays(c, 1)
             more == IF Fires(rule, c) THEN x.out \cup {c} ELSE x.out
             y == expandWeekly(x)
  <1>0. /\ x = [rule |-> x.rule, cursor |-> x.cursor, scanned |-> x.scanned, out |-> x.out]
        /\ rule \in Rule /\ c \in Int /\ rule.startDate <= D
        /\ Found(rule, D, x.out) /\ Scan(rule, D, k)
        /\ x.scanned \in 0..MaxScanDays(rule) /\ D = rule.startDate + x.scanned
        /\ \A u \in x.out \cup {c} : OnTime(rule, u)
    BY DEF RoundsOK
  <1>1. /\ y.rule = rule /\ y.cursor = n /\ y.scanned = x.scanned + 1 /\ y.out = more
        /\ y = [rule |-> y.rule, cursor |-> y.cursor, scanned |-> y.scanned, out |-> y.out]
    BY <1>0 DEF expandWeekly
  <1> HIDE DEF y
  <1>2. D \in Int /\ rule.startDate \in Int /\ D + 1 \in Int
    BY <1>0, ClockTypes, RuleTypes
  <1>3. k \in Nat /\ k # Limit(rule) /\ ~Past(rule, c) /\ x.scanned # MaxScanDays(rule)
    BY <1>0, FS_CardinalityType DEF Found, Ends
  <1>4. rule.until # NoDate => D <= rule.until
    BY <1>0, <1>2, <1>3, PastRuleIs, RuleTypes
  <1>5. n \in Int /\ DayOf(n) = D + 1 /\ OnTime(rule, n)
    <2>1. 1 \in Int /\ 1 \in Nat
      OBVIOUS
    <2> QED
      BY <1>0, <2>1, DayOfPlusDays, OnTimeNext
  <1>6. Fires(rule, c) <=> Named(rule, D)
    BY <1>0, <1>3, FiresIs
  <1>7. MaxScanDays(rule) \in Nat
    BY <1>0, ScanEnough
  <1>8. x.scanned + 1 \in 0..MaxScanDays(rule) /\ D + 1 = rule.startDate + (x.scanned + 1)
    BY <1>0, <1>2, <1>3, <1>7
  <1>9. more \subseteq x.out \cup {c}
    OBVIOUS
  <1>10. rule.freq = "weekly" /\ rule.freq # "daily"
    OBVIOUS
  <1> HIDE DEF rule, c, D, k, n
  <1>11. /\ Found(rule, D + 1, more)
         /\ Cardinality(more) = IF Named(rule, D) THEN k + 1 ELSE k
    <2>0. DayOf(c) = D /\ Cardinality(x.out) = k
      BY DEF D, k
    <2>1. CASE Named(rule, D)
      <3>1. DaysBefore(rule, D + 1) = DaysBefore(rule, D) \cup {D}
        BY <1>0, <1>2, <2>1, DayStep
      <3>2. more = x.out \cup {c}
        BY <1>6, <2>1
      <3>3. Found(rule, D + 1, x.out \cup {c}) /\ Cardinality(x.out \cup {c}) = k + 1
        BY <1>0, <1>2, <1>3, <2>0, <3>1, FoundMore
      <3> QED
        BY <2>1, <3>2, <3>3
    <2>2. CASE ~Named(rule, D)
      <3>1. DaysBefore(rule, D + 1) = DaysBefore(rule, D)
        BY <1>0, <1>2, <2>2, DayStep
      <3>2. more = x.out
        BY <1>6, <2>2
      <3>3. Found(rule, D + 1, x.out)
        BY <1>0, <3>1 DEF Found
      <3> QED
        BY <2>0, <2>2, <3>2, <3>3
    <2> QED
      BY <2>1, <2>2
  <1> HIDE DEF more
  <1>12. Cardinality(more) \in Nat
    BY <1>11, FS_CardinalityType DEF Found
  <1>13. Scan(rule, D + 1, Cardinality(more))
    BY <1>0, <1>2, <1>3, <1>4, <1>10, <1>11, <1>12, ScanNext
  <1>14. rule.startDate <= D + 1
    BY <1>0, <1>2
  <1>15. \A u \in y.out \cup {y.cursor} : OnTime(rule, u)
    BY <1>0, <1>1, <1>5, <1>9
  <1>16. RoundsOK(y)
    BY <1>0, <1>1, <1>5, <1>8, <1>10, <1>11, <1>13, <1>14, <1>15 DEF RoundsOK
  <1> QED
    BY <1>16 DEF y

\* A call ends: with as many days as asked for, or after the last one.
LEMMA RoundsEnd ==
    ASSUME ChangesWithinDays, NEW x, RoundsOK(x), Ends(x)
    PROVE  FirstDays(x.rule, Limit(x.rule)) = DaysBefore(x.rule, DayOf(x.cursor))
  <1> DEFINE rule == x.rule
             D == DayOf(x.cursor)
             k == Cardinality(x.out)
             I == rule.interval
             H == 7 * I * (MAX_OCCURRENCES + 1)
  <1>0. /\ rule \in Rule /\ x.cursor \in Int /\ rule.startDate <= D
        /\ Found(rule, D, x.out)
    BY DEF RoundsOK
  <1>1. D \in Int /\ rule.startDate \in Int /\ I \in Nat /\ I > 0 /\ rule.freq \in {"daily", "weekly"}
    BY <1>0, ClockTypes, RuleTypes
  <1>2. /\ Limit(rule) \in Nat /\ Limit(rule) <= MAX_OCCURRENCES /\ MAX_OCCURRENCES \in Nat
    BY <1>0, LimitIs
  <1>3. k \in Nat /\ k <= Limit(rule) /\ k = Cardinality(DaysBefore(rule, D))
    BY <1>0, FS_CardinalityType DEF Found
  <1>4. D <= rule.startDate + H
    <2>1. CASE rule.freq = "daily"
      <3>1. D = rule.startDate + k * I
        BY <2>1 DEF RoundsOK
      <3> HIDE DEF rule, D, k, I
      <3>2. k * I <= MAX_OCCURRENCES * I /\ k * I \in Nat
        BY <1>1, <1>2, <1>3
      <3>3. MAX_OCCURRENCES * I \in Nat /\ H = 7 * (MAX_OCCURRENCES * I) + 7 * I
        BY <1>1, <1>2
      <3> QED
        BY <1>1, <3>1, <3>2, <3>3
    <2>2. CASE rule.freq = "weekly"
      <3>1. D = rule.startDate + x.scanned /\ x.scanned \in 0..MaxScanDays(rule)
        BY <2>2 DEF RoundsOK
      <3>2. MaxScanDays(rule) \in Nat /\ MaxScanDays(rule) <= H
        BY <1>0, ScanEnough
      <3>3. H \in Nat
        BY <1>1, <1>2
      <3> HIDE DEF rule, D, H
      <3> QED
        BY <1>1, <3>1, <3>2, <3>3
    <2> QED
      BY <1>1, <2>1, <2>2
  <1>5. k = Limit(rule) \/ \A d \in Int : D <= d => ~Named(rule, d)
    <2>1. CASE Past(rule, x.cursor)
      <3>1. rule.until # NoDate /\ D > rule.until /\ rule.until \in Int
        BY <1>0, <2>1, PastRuleIs, RuleTypes
      <3> QED
        BY <1>1, <3>1 DEF Named
    <2>2. CASE rule.freq = "weekly" /\ x.scanned = MaxScanDays(rule)
      <3>1. Scan(rule, rule.startDate + MaxScanDays(rule), k)
        BY <2>2 DEF RoundsOK
      <3>2. k >= Limit(rule)
        BY <1>0, <1>3, <3>1, ScanEnough
      <3> QED
        BY <1>2, <1>3, <3>2
    <2> QED
      BY <2>1, <2>2 DEF Ends
  <1> HIDE DEF rule, D, k, H
  <1>6. FirstDays(rule, Limit(rule)) = DaysBefore(rule, D)
    BY <1>0, <1>1, <1>2, <1>3, <1>4, <1>5, FirstDaysAre DEF H
  <1> QED
    BY <1>6 DEF rule, D

\* The expansion of a rule that is in force.
LEMMA RuleInvKept ==
    ASSUME ChangesWithinDays, RuleInv
    PROVE  RuleIsKept
  <1> SUFFICES ASSUME expanded # NoRule, series = NoStaff PROVE RuleIsKept
    BY DEF RuleIsKept
  <1> DEFINE x == expanded
             n == IF x.rule.count \in 1..MAX_OCCURRENCES THEN x.rule.count ELSE MAX_OCCURRENCES
  <1>1. RoundsOK(x) /\ Ends(x)
    BY DEF RuleInv
  <1>2. n = Limit(x.rule)
    BY <1>1, LimitIs DEF RoundsOK
  <1>3. FirstDays(x.rule, n) = DaysBefore(x.rule, DayOf(x.cursor))
    BY <1>1, <1>2, RoundsEnd
  <1> HIDE DEF n
  <1>4. /\ {DayOf(u) : u \in x.out} = FirstDays(x.rule, n)
        /\ Cardinality(x.out) = Cardinality(FirstDays(x.rule, n))
    BY <1>1, <1>3 DEF RoundsOK, Found
  <1>5. \A u \in x.out :
           (\A d \in x.rule.startDate..DayOf(u) : Instants(d, x.rule.startMinutes) # {})
               => MinuteOf(u) = x.rule.startMinutes
    BY <1>1 DEF RoundsOK, OnTime, NeverSkipped
  <1> QED
    BY <1>4, <1>5 DEF RuleIsKept, n

\* Only the creation of a series and its rounds touch the expansion.
LEMMA RuleInvNext ==
    ASSUME ChangesWithinDays, RuleInv, [Next]_vars
    PROVE  RuleInv'
  <1>1. ASSUME series' = series, expanded' = expanded PROVE RuleInv'
    BY <1>1 DEF RuleInv, RoundsOK, Ends
  <1>2. CASE UNCHANGED vars
    BY <1>1, <1>2 DEF vars
  <1>3. CASE Query
    BY <1>1, <1>3 DEF Query, Ask, CapableStaff, CanPerform, FindStaff, ReadHours,
                      ReadTimeOff, ReadBookings, Answer, Reading
  <1>4. ASSUME NEW a \in Admin, AdminStep(a) PROVE RuleInv'
    BY <1>1, <1>4, Zenon DEF AdminStep, CreateHours, CheckHours, InsertHours, CommitHours, HoursFail
  <1>5. ASSUME NEW s \in Staff, NEW rule \in Rule, CreateRecurrence(s, rule) PROVE RuleInv'
    <2>1. RoundsOK(expandRecurrence(rule))
      BY RoundsBegin
    <2>2. expanded' = expandRecurrence(rule) /\ series' = s /\ s # NoStaff
      BY <1>5, InputAssumption DEF CreateRecurrence
    <2>3. RoundsOK(expanded')
      BY <2>1, <2>2
    <2> QED
      BY <2>2, <2>3 DEF RuleInv
  <1>6. CASE Change /\ ~\E s \in Staff, rule \in Rule : CreateRecurrence(s, rule)
    <2>1. series' = series /\ expanded' = expanded
      BY <1>6, Zenon DEF Change, UpdateStaff, RemoveStaff, Link, Unlink, AddTimeOff, RemoveTimeOff,
                         RemoveHours, Book, CancelBooking
    <2> QED
      BY <1>1, <2>1
  <1>7. CASE series # NoStaff /\ Expand
    <2>0. RoundsOK(expanded) /\ ~Ends(expanded)
      BY <1>7 DEF RuleInv, Expand
    <2>1. expanded.rule \in Rule
      BY <2>0 DEF RoundsOK
    <2>2. expanded.rule.freq \in {"daily", "weekly"}
      BY <2>1, RuleTypes
    <2>3. RoundsOK(Round(expanded))
      BY <2>0, <2>2, RoundsDaily, RoundsWeekly DEF Round
    <2>4. expanded' = Round(expanded) /\ series' = series
      BY <1>7 DEF Expand
    <2>5. RoundsOK(expanded')
      BY <2>3, <2>4
    <2> QED
      BY <1>7, <2>4, <2>5 DEF RuleInv
  <1>8. CASE series # NoStaff /\ InsertOccurrences
    <2>1. RoundsOK(expanded) /\ Ends(expanded) /\ expanded' = expanded
      BY <1>8 DEF RuleInv, InsertOccurrences
    <2>2. RoundsOK(expanded') /\ Ends(expanded')
      BY <2>1
    <2> QED
      BY <2>2 DEF RuleInv
  <1> QED
    BY <1>2, <1>3, <1>4, <1>5, <1>6, <1>7, <1>8 DEF Next, Change

\* A rule has an occurrence on each of the first days it names, as many as asked
\* for and allowed, at its time of the wall clock until a day skips that time
\* (recurrence-expander.ts), in a zone whose changes do not cross midnight.
THEOREM ScheduleRuleIsKept ==
    ASSUME ChangesWithinDays
    PROVE  Spec => []RuleIsKept
  <1>1. Init => RuleInv
    BY DEF Init, RuleInv
  <1>2. RuleInv /\ [Next]_vars => RuleInv'
    BY RuleInvNext
  <1>3. RuleInv => RuleIsKept
    BY RuleInvKept
  <1> QED
    BY <1>1, <1>2, <1>3, PTL DEF Spec
=============================================================================
