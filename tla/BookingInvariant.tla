--------------------------- MODULE BookingInvariant ---------------------------
(***************************************************************************)
(* The inductive invariant of BookingService, in named parts.               *)
(***************************************************************************)
EXTENDS BookingProperties

\* Where a handler can be for the request it serves, and what it has then.
PcOK(r) ==
    /\ pc[r] = "idle" => /\ ws[r] = NothingWritten /\ ev[r] = NoEvents
                         /\ claim[r] = NoClaim
    /\ pc[r] # "idle" => req[r] \in Request
    /\ pc[r] \in {"claim", "replay"} => req[r].op = "create" /\ req[r].key # NoKey
    /\ pc[r] = "replay" => keys[req[r].key] # NoClaim
    /\ pc[r] = "read" => Updates(r)
    /\ pc[r] = "write" => Updates(r) \/ Inserts(r)
    /\ pc[r] = "cancel" => req[r].op = "cancelSeries"
    /\ pc[r] = "check" => /\ Updates(r) \/ Inserts(r)
                          /\ cur[r] \in Booking /\ Holds(r, cur[r])

\* A request that updates a booking inserts nothing, and its booking exists.
UpdateOK(r) ==
    pc[r] # "idle" /\ Updates(r) => starts[r] = {} /\ rows[req[r].booking] # NoRow

\* The versions clients were shown: a change decided on the row that was read
\* is still allowed if the row still has the version the client named.
ReadOK(r) ==
    ~AnyVersion /\ pc[r] \in {"read", "write"} /\ Updates(r) =>
        LET row == rows[req[r].booking] IN
        /\ req[r].version <= row.version
        /\ pc[r] = "write" /\ row.version = req[r].version => Allowed(req[r], row)

\* An uncommitted row version is what the request's statement makes of the
\* committed row, which the row lock keeps as it was.
WriteOK(r) ==
    \A b \in Booking : Holds(r, b) =>
        /\ pc[r] # "idle"
        /\ Inserts(r) =>
            /\ rows[b] = NoRow
            /\ \E t \in Time :
                ws[r][b] = NewRow(StaffOf(req[r]), ServiceOf(req[r]), t, SeriesOf(req[r]))
        /\ Updates(r) =>
            /\ b = req[r].booking
            /\ ~AnyVersion => Allowed(req[r], rows[b])
            /\ ws[r][b] = Changed(req[r], rows[b])
        /\ req[r].op = "cancelSeries" =>
            /\ InFutureSeries(rows[b], req[r].series)
            /\ ws[r][b] = WithStatus(rows[b], "cancelled")

\* A row is locked by one transaction at most.
RowLocks ==
    \A r, q \in Slot, b \in Booking : Holds(r, b) /\ Holds(q, b) => r = q

\* A row version whose constraint check has passed.
Checked(r, b) == Holds(r, b) /\ ~(pc[r] = "check" /\ cur[r] = b)

\* A checked version clashes with no committed row its transaction leaves in
\* place and with no other checked version.
CheckedOK ==
    \A r \in Slot, b \in Booking : Checked(r, b) =>
        /\ \A c \in Booking \ {b} : ~Holds(r, c) => ~Clash(ws[r][b], rows[c])
        /\ \A q \in Slot, c \in Booking \ {b} : Checked(q, c) => ~Clash(ws[r][b], ws[q][c])

Inv ==
    /\ TypeOK
    /\ \A r \in Slot : PcOK(r) /\ UpdateOK(r) /\ ReadOK(r) /\ WriteOK(r)
    /\ RowLocks
    /\ NoDoubleBooking
    /\ CheckedOK

-----------------------------------------------------------------------------
(* What a commit is going to publish beside the rows.                       *)

\* The event a request records for each booking it changes.
Emitted(q) == IF q.op = "cancelSeries" THEN "cancelled" ELSE EventOf(q)

\* A transaction has the event of each version that passed its check, and no
\* other; one that has still to update its booking has written nothing.
EventsOK(r) ==
    /\ pc[r] \in {"read", "write"} /\ Updates(r) => ws[r] = NothingWritten
    /\ \A b \in Booking : ev[r][b] = IF Checked(r, b) THEN Emitted(req[r]) ELSE NoEvent

\* The claim of a transaction is that of its request and not yet committed; a
\* create under a key that is past its claim has it, or replays what is stored.
ClaimOK(r) ==
    LET Keyed == req[r].op = "create" /\ req[r].key # NoKey IN
    /\ claim[r] # NoClaim =>
         /\ pc[r] \in {"write", "check", "commit", "rollback"} /\ req[r].op = "create"
         /\ claim[r].key = req[r].key /\ claim[r].body = req[r].body
         /\ keys[req[r].key] = NoClaim
         /\ pc[r] = "commit" =>
              cur[r] \in Booking /\ Holds(r, cur[r]) /\ claim[r].booking = cur[r]
    /\ pc[r] \in {"write", "check"} /\ Keyed => claim[r] # NoClaim
    /\ pc[r] = "commit" /\ Keyed /\ claim[r] = NoClaim =>
         keys[req[r].key] = [body |-> req[r].body, booking |-> cur[r]]

\* A key is claimed once; a committed one has its booking, and every answer
\* given under it is the stored one.
KeysOK ==
    /\ \A r, q \in Slot :
         claim[r] # NoClaim /\ claim[q] # NoClaim /\ claim[r].key = claim[q].key => r = q
    /\ \A k \in Key : keys[k] # NoClaim =>
         keys[k].booking \in Booking /\ rows[keys[k].booking] # NoRow
    /\ \A x \in answered : keys[x.key] = [body |-> x.body, booking |-> x.booking]

Written(r) == {b \in Booking : Holds(r, b)}
Creates(r, s) == pc[r] # "idle" /\ req[r].op = "series" /\ req[r].series = s

\* A series is created by one request, and does not exist before.
SeriesOnce(r) ==
    pc[r] # "idle" /\ req[r].op = "series" =>
        /\ recurrences[req[r].series] = NoRecurrence
        /\ \A p \in Slot : Creates(p, req[r].series) => p = r

\* It has written a booking for each occurrence it got past, unless it may
\* skip some.
SeriesCount(r) ==
    pc[r] # "idle" /\ req[r].op = "series" =>
        /\ pc[r] = "commit" => starts[r] = {}
        /\ starts[r] \subseteq req[r].starts
        /\ ~SkipsConflicts(req[r]) =>
             /\ IsFiniteSet(Written(r)) /\ IsFiniteSet(req[r].starts \ starts[r])
             /\ Cardinality(Written(r)) = Cardinality(req[r].starts \ starts[r])

HInv ==
    /\ OutboxTellsHistory /\ KeysOK /\ SeriesAllOrNothing
    /\ \A r \in Slot : EventsOK(r) /\ ClaimOK(r) /\ SeriesOnce(r) /\ SeriesCount(r)
=============================================================================
