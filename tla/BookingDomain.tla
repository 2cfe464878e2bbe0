---------------------------- MODULE BookingDomain ----------------------------
(***************************************************************************)
(* The vocabulary of the booking component: the lifecycle of a booking, the *)
(* row of the bookings table and the overlap test of its EXCLUDE            *)
(* constraint.  It has no state; Booking (the transactional service) and    *)
(* Calendar (what it promises) both build on it.                            *)
(*                                                                         *)
(* One tenant is modelled: tenant_id is part of every key, unique index and *)
(* constraint of the tables involved, and row-level security keeps a        *)
(* transaction inside its tenant.                                           *)
(***************************************************************************)
EXTENDS Integers

CONSTANTS
    Booking,    \* ids of bookings (uuids)
    Staff,      \* ids of staff members
    Service,    \* ids of services
    Series,     \* ids of recurrences
    Time,       \* the instants a booking may start at
    Duration,   \* Duration[s]: length of service s (durationMin)
    NoRow,      \* "no such row"
    NoSeries    \* recurrence_id of a booking that belongs to no series

ASSUME TimeAssumption == Time \subseteq Int
ASSUME DurationAssumption == Duration \in [Service -> Nat \ {0}]

Status == {"pending", "confirmed", "completed", "cancelled", "no_show"}

\* Statuses that occupy a slot; the EXCLUDE constraint only guards these.
ACTIVE_BOOKING_STATUSES == {"pending", "confirmed"}

\* The lifecycle table: the statuses a booking may move to.
TRANSITIONS ==
    [s \in Status |->
        CASE s = "pending"   -> {"confirmed", "cancelled", "no_show"}
          [] s = "confirmed" -> {"completed", "cancelled", "no_show"}
          [] OTHER           -> {}]

CanTransition(from, to) == to \in TRANSITIONS[from]

\* A row of the bookings table (customer and price are left out: no guard reads them).
Row == [staff: Staff, service: Service, start: Int, end: Int,
        status: Status, version: Nat \ {0}, series: Series \cup {NoSeries}]

ASSUME NoRowAssumption == NoRow \notin Row

Active(row) == row # NoRow /\ row.status \in ACTIVE_BOOKING_STATUSES

\* tstzrange(starts_at, ends_at) && tstzrange(starts_at, ends_at) for one staff
\* member; the ranges are half-open.
Overlap(x, y) ==
    /\ x.staff = y.staff
    /\ x.start < y.end
    /\ y.start < x.end

\* Two rows that the EXCLUDE constraint does not allow to be in the table together.
Clash(x, y) == Active(x) /\ Active(y) /\ Overlap(x, y)

EndsAt(service, start) == start + Duration[service]

\* Mutant of NewRow: the version column starts at 0.
NewRowVersionZero(staff, service, start, series) ==
    [staff |-> staff, service |-> service, start |-> start,
     end |-> EndsAt(service, start), status |-> "pending", version |-> 0,
     series |-> series]

\* The row that a create (or one occurrence of a series) inserts.
NewRow(staff, service, start, series) ==
    [staff |-> staff, service |-> service, start |-> start,
     end |-> EndsAt(service, start), status |-> "pending", version |-> 1,
     series |-> series]

\* The row after applyStatus and after applyReschedule: every update bumps the version.
WithStatus(row, to) ==
    [staff |-> row.staff, service |-> row.service, start |-> row.start,
     end |-> row.end, status |-> to, version |-> row.version + 1,
     series |-> row.series]

WithStart(row, start) ==
    [staff |-> row.staff, service |-> row.service, start |-> start,
     end |-> EndsAt(row.service, start), status |-> row.status,
     version |-> row.version + 1, series |-> row.series]
=============================================================================
