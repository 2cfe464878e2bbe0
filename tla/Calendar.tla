------------------------------ MODULE Calendar ------------------------------
(***************************************************************************)
(* What the booking component promises to everyone who reads the bookings   *)
(* table: one calendar that changes in atomic steps, each of which is a     *)
(* create (of one booking or of the occurrences of a series), a legal       *)
(* status change, a move of an active booking, or the cancellation of       *)
(* active bookings of a series, and which never holds two clashing          *)
(* bookings.  Requests, transactions, locks and failures do not appear.     *)
(***************************************************************************)
EXTENDS BookingDomain

VARIABLE rows

NoDoubleBooking ==
    \A b, c \in Booking : b # c => ~Clash(rows[b], rows[c])

Init == rows = [b \in Booking |-> NoRow]

\* The bookings of B appear, pending, with version 1; all of them are new, and
\* they have the same staff member, service and series.
Create(B) ==
    /\ \A b \in B : rows[b] = NoRow
    /\ \E staff \in Staff, service \in Service, s \in Series \cup {NoSeries} :
        \A b \in B : \E t \in Time : rows'[b] = NewRow(staff, service, t, s)

Transition(b, to) ==
    /\ rows[b] # NoRow
    /\ CanTransition(rows[b].status, to)
    /\ rows'[b] = WithStatus(rows[b], to)

Reschedule(b, t) ==
    /\ Active(rows[b])
    /\ rows'[b] = WithStart(rows[b], t)

\* Some active bookings of one series are cancelled together.
CancelSeries(B) ==
    \E s \in Series :
        \A b \in B : /\ Active(rows[b]) /\ rows[b].series = s
                     /\ rows'[b] = WithStatus(rows[b], "cancelled")

Change(B) ==
    \/ Create(B)
    \/ CancelSeries(B)
    \/ \E b \in B : B = {b} /\ \/ \E to \in Status : Transition(b, to)
                               \/ \E t \in Time : Reschedule(b, t)

Next ==
    \E B \in SUBSET Booking :
        /\ rows' \in [Booking -> Row \cup {NoRow}]
        /\ Change(B)
        /\ \A b \in Booking \ B : rows'[b] = rows[b]
        /\ NoDoubleBooking'

Spec == Init /\ [][Next]_rows
=============================================================================
