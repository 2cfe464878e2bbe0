-------------------------- MODULE BookingProperties --------------------------
(***************************************************************************)
(* What BookingService guarantees, stated over its committed tables and the *)
(* requests in flight.                                                      *)
(***************************************************************************)
EXTENDS BookingService

\* The committed bookings are a Calendar.
C == INSTANCE Calendar WITH rows <- rows

\* No two active bookings of one staff member overlap, however the statements
\* of concurrent creates, series, transitions and reschedules interleave and
\* whichever of them fail (the EXCLUDE constraint, BookingsCore migration).
NoDoubleBooking ==
    \A b, c \in Booking : b # c => ~Clash(rows[b], rows[c])

\* Every committed change of the bookings table is one of the changes the
\* service offers: no status change outside the lifecycle table, no update
\* applied to another version than the one the client named, no booking
\* changed twice in a version (transition, reschedule, cancelSeries, create).
RefinesCalendar == C!Spec

\* A booking event applied to the status a consumer last knew.
StatusFrom(event) == IF event = "created" THEN "pending" ELSE event

\* The outbox tells exactly what happened: every committed version of a
\* booking has its event and no other, so a consumer that applies a booking's
\* events in commit order ends with its status (emit inside the transaction).
\* "And no other" is about handlers that run to their end: an event that stays
\* although a disconnect has rolled its change back is the subject of TenantTx.
OutboxTellsHistory ==
    \A b \in Booking :
        IF rows[b] = NoRow
        THEN outbox[b] = <<>>
        ELSE /\ Len(outbox[b]) = rows[b].version
             /\ outbox[b][1] = "created"
             /\ \E i \in 1..Len(outbox[b]) :
                    /\ outbox[b][i] # "rescheduled"
                    /\ StatusFrom(outbox[b][i]) = rows[b].status
                    /\ \A j \in (i + 1)..Len(outbox[b]) : outbox[b][j] = "rescheduled"

\* All the 201s ever given for one Idempotency-Key name one committed booking
\* and answer one body, through concurrent duplicates, failures and retries
\* (IdempotencyService.run claims the key before it creates); and a request that
\* lost the claim finds the winner's response, so the branch "still in progress"
\* of replay is unreachable, as its comment says.
OneBookingPerKey ==
    /\ \A x, y \in answered : x.key = y.key => x = y
    /\ \A x \in answered : x.booking \in Booking /\ rows[x.booking] # NoRow
    /\ \A r \in Slot : pc[r] = "replay" =>
         /\ keys[req[r].key] # NoClaim
         /\ keys[req[r].key].booking # NoBooking

\* A series created with all_or_nothing has a booking for each of its
\* occurrences or does not exist; a booking never names a series whose own row
\* is missing (recurrence and occurrences share the request's transaction).
SeriesAllOrNothing ==
    \A s \in Series :
        LET members == {b \in Booking : rows[b] # NoRow /\ rows[b].series = s} IN
        IF recurrences[s] = NoRecurrence
        THEN members = {}
        ELSE recurrences[s].policy = "all_or_nothing" =>
                Cardinality(members) = Cardinality(recurrences[s].starts)

\* Every request ends: it commits, or its transaction is undone and its locks
\* are gone, although transactions wait for each other on rows, keys and slots.
RequestsEnd == \A r \in Slot : pc[r] # "idle" ~> pc[r] = "idle"

\* "All allowed status changes live here" (booking-state-machine.ts:5): a
\* committed status change is one of the lifecycle table, whatever version the
\* client sends.
LifecycleTableRules ==
    [][\A b \in Booking :
        rows[b] # NoRow /\ rows'[b].status # rows[b].status =>
            CanTransition(rows[b].status, rows'[b].status)]_rows
=============================================================================
