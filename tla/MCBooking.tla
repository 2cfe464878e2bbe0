------------------------------ MODULE MCBooking ------------------------------
(***************************************************************************)
(* Instances of BookingService for TLC.  One staff member; a haircut takes  *)
(* two units of time, so starts 0 and 1 clash, 1 and 2 clash, and 0 and 2   *)
(* do not; nobody performs the massage.                                     *)
(***************************************************************************)
EXTENDS BookingProperties, TLC

CONSTANTS anna, haircut, massage, s1, s2, k1

MCStaff == {anna}
MCService == {haircut, massage}
MCSeries == {s1, s2}
MCTime == 0..2
MCDuration == [v \in MCService |-> 2]
MCCanPerform == {<<anna, haircut>>}
MCNow == 0

BodyAt(v, t) == [staff |-> anna, service |-> v, start |-> t]
CreateAt(t, k) == [op |-> "create", body |-> BodyAt(haircut, t), key |-> k]
RefusedCreate == [op |-> "create", body |-> BodyAt(massage, 0), key |-> NoKey]

Transitions(V) ==
    [op: {"transition"}, booking: Booking, version: V, to: Status \ {"pending"}]
Reschedules(V, T) == [op: {"reschedule"}, booking: Booking, version: V, start: T]
SeriesOver(s, S, p) ==
    [op |-> "series", staff |-> anna, service |-> haircut, starts |-> S,
     policy |-> p, series |-> s]
CancelAll(s) == [op |-> "cancelSeries", series |-> s]

\* Creates, keyed and not, for clashing and free slots, and changes of what
\* they created.
MixedRequests ==
    {CreateAt(0, NoKey), CreateAt(1, NoKey), CreateAt(0, k1), RefusedCreate}
        \cup Transitions({1, 2, 3}) \cup Reschedules({1, 2, 3}, {0, 2})

\* Series of both policies and a bulk cancellation, creates under one key with
\* equal and different bodies, and changes of what they created: requests that
\* wait for each other on keys, rows and slots.
SeriesRequests ==
    {SeriesOver(s1, {0, 2}, "all_or_nothing"), SeriesOver(s2, {0, 2}, "skip_conflicts"),
     CreateAt(0, k1), CreateAt(2, k1), CancelAll(s1), RefusedCreate}
        \cup Reschedules({1}, {0, 2})
        \cup [op: {"transition"}, booking: Booking, version: {1},
              to: {"confirmed", "cancelled"}]

\* A create and the changes of one booking.
LifecycleRequests == {CreateAt(0, NoKey)} \cup Transitions({1, 2})

Symmetric == Permutations(Booking) \cup Permutations(Slot)
=============================================================================
