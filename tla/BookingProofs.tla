---------------------------- MODULE BookingProofs ----------------------------
(***************************************************************************)
(* Proofs about BookingService, for every set of slots, bookings, staff,    *)
(* services, times and requests.  Inv is proved in three layers, each of    *)
(* which uses the ones before it: Shape (types and handler positions),      *)
(* Writes (row locks and what uncommitted versions are), NoClash (which     *)
(* versions have passed the constraint check).                              *)
(***************************************************************************)
EXTENDS BookingInvariant, TLAPS

\* The conflict test of the EXCLUDE constraint does not depend on which row is
\* new.
LEMMA ClashSymmetric ==
    ASSUME NEW x \in Row \cup {NoRow}, NEW y \in Row \cup {NoRow}
    PROVE  Clash(x, y) <=> Clash(y, x)
  BY NoRowAssumption DEF Clash, Active, Overlap, Row

\* The row that create inserts is a row of the bookings table.
LEMMA NewRowType ==
    ASSUME NEW staff \in Staff, NEW service \in Service, NEW t \in Time,
           NEW s \in Series \cup {NoSeries}
    PROVE  NewRow(staff, service, t, s) \in Row
  BY TimeAssumption, DurationAssumption DEF NewRow, Row, EndsAt, Status

\* applyStatus leaves a row of the bookings table.
LEMMA WithStatusType ==
    ASSUME NEW row \in Row, NEW to \in Status
    PROVE  WithStatus(row, to) \in Row
  BY DEF WithStatus, Row

\* applyReschedule leaves a row of the bookings table.
LEMMA WithStartType ==
    ASSUME NEW row \in Row, NEW t \in Time
    PROVE  WithStart(row, t) \in Row
  <1>1. EndsAt(row.service, t) \in Int /\ t \in Int
    BY TimeAssumption, DurationAssumption DEF EndsAt, Row
  <1>2. QED
    BY <1>1 DEF WithStart, Row

\* The validated DTO of each operation has the fields its handler reads.
LEMMA RequestFields ==
    ASSUME NEW q \in Request
    PROVE  /\ q.op \in {"create", "series", "transition", "reschedule", "cancelSeries"}
           /\ q.op = "create" => q.body \in Body /\ q.key \in Key \cup {NoKey}
           /\ q.op = "series" => /\ q.staff \in Staff /\ q.service \in Service
                                 /\ q.starts \in SUBSET Time /\ q.series \in Series
                                 /\ q.policy \in {"skip_conflicts", "all_or_nothing"}
           /\ q.op = "transition" => /\ q.booking \in Booking /\ q.version \in Nat
                                     /\ q.to \in Status \ {"pending"}
           /\ q.op = "reschedule" => /\ q.booking \in Booking /\ q.version \in Nat
                                     /\ q.start \in Time
           /\ q.op = "cancelSeries" => q.series \in Series
  BY RequestAssumption
  DEF AnyRequest, CreateRequest, SeriesRequest, TransitionRequest, RescheduleRequest,
      CancelSeriesRequest

\* What doCreate or createOccurrence inserts for a request is a row.
LEMMA InsertedRow ==
    ASSUME NEW q \in Request, q.op \in {"create", "series"}, NEW t \in Time
    PROVE  NewRow(StaffOf(q), ServiceOf(q), t, SeriesOf(q)) \in Row
  <1>1. StaffOf(q) \in Staff /\ ServiceOf(q) \in Service /\ SeriesOf(q) \in Series \cup {NoSeries}
    BY RequestFields DEF StaffOf, ServiceOf, SeriesOf, Body
  <1>2. QED
    BY <1>1, NewRowType

\* What transition or reschedule makes of an existing row is a row.
LEMMA UpdatedRow ==
    ASSUME NEW q \in Request, q.op \in {"transition", "reschedule"}, NEW row \in Row
    PROVE  Changed(q, row) \in Row
  BY RequestFields, WithStatusType, WithStartType DEF Changed

-----------------------------------------------------------------------------

Shape == TypeOK /\ \A p \in Slot : PcOK(p) /\ UpdateOK(p)

\* With no request in flight every handler is where it may be.
LEMMA ShapeInit == Init => Shape
  BY DEF Init, Shape, TypeOK, PcOK, UpdateOK, NothingWritten, NoEvents, Label

\* The middleware puts a handler on its first statement.
LEMMA ShapeBegin ==
    ASSUME Shape, NEW r \in Slot, Begin(r)
    PROVE  Shape'
  <1> USE DEF Shape, tables
  <1>1. PICK q \in Request :
          /\ MaySend(q)
          /\ req' = [req EXCEPT ![r] = q]
          /\ pc' = [pc EXCEPT ![r] = FirstLabel(q)]
          /\ starts' = [starts EXCEPT ![r] = OccurrencesOf(q)]
          /\ targets' = [targets EXCEPT ![r] =
                          IF q.op = "cancelSeries"
                          THEN {b \in Booking : InFutureSeries(rows[b], q.series)}
                          ELSE {}]
    BY DEF Begin
  <1>2. /\ FirstLabel(q) \in Label /\ OccurrencesOf(q) \in SUBSET Time
        /\ q.op = "cancelSeries" => FirstLabel(q) = "cancel"
        /\ q.op \in {"transition", "reschedule"} =>
               FirstLabel(q) = "read" /\ OccurrencesOf(q) = {}
        /\ q.op = "series" => FirstLabel(q) = "write"
        /\ q.op = "create" => FirstLabel(q) = (IF q.key # NoKey THEN "claim" ELSE "write")
    BY RequestFields DEF FirstLabel, OccurrencesOf, Label, Body
  <1>3. TypeOK'
    BY <1>1, <1>2 DEF Begin, TypeOK
  <1>4. ASSUME NEW p \in Slot
        PROVE  PcOK(p)' /\ UpdateOK(p)'
    <2>1. CASE p = r
      BY <1>1, <1>2, <2>1, RequestFields
      DEF Begin, TypeOK, PcOK, UpdateOK, Updates, Inserts, Holds, MaySend, Label
    <2>2. CASE p # r
      BY <1>1, <2>2 DEF Begin, TypeOK, PcOK, UpdateOK, Updates, Inserts, Holds
    <2>3. QED
      BY <2>1, <2>2
  <1>5. QED
    BY <1>3, <1>4

\* A transaction that is undone leaves its slot empty (rollback).
LEMMA ShapeAbort ==
    ASSUME Shape, NEW r \in Slot, Abort(r)
    PROVE  Shape'
  <1> USE DEF Shape, Abort, Release, tables
  <1>1. TypeOK'
    BY DEF TypeOK, Label, NothingWritten, NoEvents
  <1>2. ASSUME NEW p \in Slot
        PROVE  PcOK(p)' /\ UpdateOK(p)'
    BY DEF TypeOK, PcOK, UpdateOK, Updates, Inserts, Holds
  <1>3. QED
    BY <1>1, <1>2

\* A handler that throws waits for its rollback with what it wrote.
LEMMA ShapeThrow ==
    ASSUME Shape, NEW r \in Slot, pc[r] # "idle", Throw(r)
    PROVE  Shape'
  <1> USE DEF Shape, Throw, tables
  <1>1. TypeOK'
    BY DEF TypeOK, Label
  <1>2. ASSUME NEW p \in Slot
        PROVE  PcOK(p)' /\ UpdateOK(p)'
    BY DEF TypeOK, PcOK, UpdateOK, Updates, Inserts, Holds
  <1>3. QED
    BY <1>1, <1>2

\* A commit publishes rows, events, key and recurrence of their types, and no
\* booking that another request updates disappears by it.
LEMMA ShapeCommit ==
    ASSUME Shape, NEW r \in Slot, Commit(r)
    PROVE  Shape'
  <1> USE DEF Shape, Commit, Release
  <1>0. req[r] \in Request
    BY DEF PcOK
  <1>1. rows' \in [Booking -> Row \cup {NoRow}]
    BY DEF TypeOK, Holds
  <1>2. outbox' \in [Booking -> Seq(EventType)]
    <2>1. ASSUME NEW b \in Booking
          PROVE  (IF ev[r][b] # NoEvent THEN Append(outbox[b], ev[r][b]) ELSE outbox[b])
                    \in Seq(EventType)
      BY DEF TypeOK
    <2>2. QED
      BY <2>1
  <1>3. keys' \in [Key -> KeyRow \cup {NoClaim}]
    BY DEF TypeOK, KeyRow
  <1>4. recurrences' \in [Series -> Recurrence \cup {NoRecurrence}]
    BY <1>0, RequestFields DEF TypeOK, Recurrence
  <1>5. answered' \subseteq [key: Key, body: Body, booking: Booking \cup {NoBooking}]
    BY <1>0, RequestFields DEF TypeOK
  <1>6. TypeOK'
    BY <1>1, <1>2, <1>3, <1>4, <1>5 DEF TypeOK, Label, NothingWritten, NoEvents
  <1>7. ASSUME NEW b \in Booking, rows[b] # NoRow
        PROVE  rows'[b] # NoRow
    BY <1>7 DEF Holds
  <1>8. ASSUME NEW p \in Slot
        PROVE  PcOK(p)' /\ UpdateOK(p)'
    <2>0. ASSUME NEW k \in Key, keys[k] # NoClaim
          PROVE  keys'[k] # NoClaim
      BY <2>0, NoValueAssumption DEF TypeOK, KeyRow
    <2>1. PcOK(p)'
      BY <2>0, RequestFields DEF TypeOK, PcOK, Updates, Inserts, Holds
    <2>2. UpdateOK(p)'
      BY <1>7, RequestFields DEF TypeOK, PcOK, UpdateOK, Updates
    <2>3. QED
      BY <2>1, <2>2
  <1>9. QED
    BY <1>6, <1>8

\* Claiming or replaying a key, reading a booking and ending a bulk UPDATE move
\* a handler forward.
LEMMA ShapeLocal ==
    ASSUME Shape, NEW r \in Slot,
           ClaimKey(r) \/ Replay(r) \/ ReadBooking(r) \/ CancelDone(r)
    PROVE  Shape'
  <1> USE DEF Shape, tables
  <1>0. req[r] \in Request /\ pc[r] # "idle"
    BY DEF PcOK, ClaimKey, Replay, ReadBooking, CancelDone
  <1>1. CASE ClaimKey(r)
    <2>1. req[r].key \in Key /\ req[r].body \in Body
      BY <1>0, <1>1, RequestFields DEF ClaimKey, PcOK
    <2>2. TypeOK'
      <3>1. CASE keys[req[r].key] # NoClaim
        BY <1>1, <3>1 DEF ClaimKey, TypeOK, Label
      <3>2. CASE keys[req[r].key] = NoClaim
        <4>1. [key |-> req[r].key, body |-> req[r].body, booking |-> NoBooking]
                \in [key: Key, body: Body, booking: Booking \cup {NoBooking}]
          BY <2>1
        <4>2. claim' \in [Slot -> [key: Key, body: Body, booking: Booking \cup {NoBooking}]
                                     \cup {NoClaim}]
          BY <1>1, <3>2, <4>1 DEF ClaimKey, TypeOK
        <4>3. pc' \in [Slot -> Label]
          BY <1>1, <3>2 DEF ClaimKey, TypeOK, Label
        <4>4. QED
          BY <1>1, <4>2, <4>3 DEF ClaimKey, TypeOK
      <3>3. QED
        BY <3>1, <3>2
    <2>3. ASSUME NEW p \in Slot
          PROVE  PcOK(p)' /\ UpdateOK(p)'
      BY <1>1 DEF ClaimKey, TypeOK, PcOK, UpdateOK, Updates, Inserts, Holds
    <2>4. QED
      BY <2>2, <2>3
  <1>2. CASE Replay(r)
    <2>1. req[r].key \in Key
      BY <1>0, <1>2, RequestFields DEF Replay, PcOK
    <2>2. keys[req[r].key].booking \in Booking \cup {NoBooking}
      BY <1>2, <2>1 DEF Replay, PcOK, TypeOK, KeyRow
    <2>3. TypeOK'
      BY <1>2, <2>2 DEF Replay, TypeOK, Label
    <2>4. ASSUME NEW p \in Slot
          PROVE  PcOK(p)' /\ UpdateOK(p)'
      BY <1>2 DEF Replay, TypeOK, PcOK, UpdateOK, Updates, Inserts, Holds
    <2>5. QED
      BY <2>3, <2>4
  <1>3. CASE ReadBooking(r)
    <2>1. TypeOK'
      BY <1>3 DEF ReadBooking, TypeOK, Label
    <2>2. ASSUME NEW p \in Slot
          PROVE  PcOK(p)' /\ UpdateOK(p)'
      BY <1>3 DEF ReadBooking, TypeOK, PcOK, UpdateOK, Updates, Inserts, Holds
    <2>3. QED
      BY <2>1, <2>2
  <1>4. CASE CancelDone(r)
    <2>1. TypeOK'
      BY <1>4 DEF CancelDone, TypeOK, Label
    <2>2. ASSUME NEW p \in Slot
          PROVE  PcOK(p)' /\ UpdateOK(p)'
      BY <1>4 DEF CancelDone, TypeOK, PcOK, UpdateOK, Updates, Inserts, Holds
    <2>3. QED
      BY <2>1, <2>2
  <1>5. QED
    BY <1>1, <1>2, <1>3, <1>4

\* An INSERT leaves its handler before the constraint check of the new row.
LEMMA ShapeInsert ==
    ASSUME Shape, NEW r \in Slot, InsertBooking(r)
    PROVE  Shape'
  <1> USE DEF Shape, tables
  <1>1. req[r] \in Request /\ Inserts(r)
    BY DEF PcOK, InsertBooking
  <1>2. PICK b \in Booking, t \in Time :
          /\ ws' = [ws EXCEPT ![r][b] =
                      NewRow(StaffOf(req[r]), ServiceOf(req[r]), t, SeriesOf(req[r]))]
          /\ cur' = [cur EXCEPT ![r] = b]
          /\ starts' = [starts EXCEPT ![r] = @ \ {t}]
    BY DEF InsertBooking
  <1>3. NewRow(StaffOf(req[r]), ServiceOf(req[r]), t, SeriesOf(req[r])) \in Row
    BY <1>1, InsertedRow DEF Inserts
  <1>4. TypeOK'
    BY <1>2, <1>3 DEF InsertBooking, TypeOK, Label
  <1>5. ASSUME NEW p \in Slot
        PROVE  PcOK(p)' /\ UpdateOK(p)'
    BY <1>1, <1>2, <1>3, NoRowAssumption
    DEF InsertBooking, TypeOK, PcOK, UpdateOK, Updates, Inserts, Holds
  <1>6. QED
    BY <1>4, <1>5

\* An UPDATE leaves its handler before the constraint check of the row.
LEMMA ShapeUpdate ==
    ASSUME Shape, NEW r \in Slot, ApplyUpdate(r)
    PROVE  Shape'
  <1> USE DEF Shape, tables
  <1> DEFINE b == req[r].booking
  <1>1. req[r] \in Request /\ Updates(r) /\ b \in Booking /\ rows[b] \in Row
    BY RequestFields DEF PcOK, UpdateOK, ApplyUpdate, Updates, TypeOK
  <1>2. Changed(req[r], rows[b]) \in Row
    BY <1>1, UpdatedRow DEF Updates
  <1>3. TypeOK'
    BY <1>1, <1>2 DEF ApplyUpdate, TypeOK, Label
  <1>4. ASSUME NEW p \in Slot
        PROVE  PcOK(p)' /\ UpdateOK(p)'
    BY <1>1, <1>2, NoRowAssumption
    DEF ApplyUpdate, TypeOK, PcOK, UpdateOK, Updates, Inserts, Holds
  <1>5. QED
    BY <1>3, <1>4

\* The bulk UPDATE of cancelFutureSeries writes rows and cancelled events.
LEMMA ShapeCancelOne ==
    ASSUME Shape, NEW r \in Slot, CancelOne(r)
    PROVE  Shape'
  <1> USE DEF Shape, tables
  <1>1. PICK b \in targets[r] :
          /\ targets' = [targets EXCEPT ![r] = @ \ {b}]
          /\ IF InFutureSeries(rows[b], req[r].series)
             THEN /\ ws' = [ws EXCEPT ![r][b] = WithStatus(rows[b], "cancelled")]
                  /\ ev' = [ev EXCEPT ![r][b] = "cancelled"]
             ELSE UNCHANGED <<ws, ev>>
    BY DEF CancelOne
  <1>2. /\ b \in Booking
        /\ pc[r] = "cancel"
        /\ UNCHANGED <<rows, outbox, keys, recurrences, pc, req, claim, starts, cur,
                       answered, begun>>
    BY DEF TypeOK, CancelOne
  <1>3. CASE InFutureSeries(rows[b], req[r].series)
    <2>1. WithStatus(rows[b], "cancelled") \in Row
      BY <1>2, <1>3, WithStatusType DEF InFutureSeries, Active, TypeOK, Status
    <2>2. "cancelled" \in EventType
      BY DEF EventType, Status
    <2>3. TypeOK'
      <3>0. /\ ws' = [ws EXCEPT ![r][b] = WithStatus(rows[b], "cancelled")]
            /\ ev' = [ev EXCEPT ![r][b] = "cancelled"]
        BY <1>1, <1>3
      <3>1. ws' \in [Slot -> [Booking -> Row \cup {NoRow}]]
        BY <1>2, <2>1, <3>0 DEF TypeOK
      <3>2. ev' \in [Slot -> [Booking -> EventType \cup {NoEvent}]]
        BY <1>2, <2>2, <3>0 DEF TypeOK
      <3>3. QED
        BY <1>1, <1>2, <3>1, <3>2 DEF TypeOK
    <2>4. ASSUME NEW p \in Slot
          PROVE  PcOK(p)' /\ UpdateOK(p)'
      BY <1>1, <1>2, <1>3 DEF TypeOK, PcOK, UpdateOK, Updates, Inserts, Holds
    <2>5. QED
      BY <2>3, <2>4
  <1>4. CASE ~InFutureSeries(rows[b], req[r].series)
    <2>1. TypeOK'
      BY <1>1, <1>2, <1>4 DEF TypeOK
    <2>2. ASSUME NEW p \in Slot
          PROVE  PcOK(p)' /\ UpdateOK(p)'
      BY <1>1, <1>2, <1>4 DEF TypeOK, PcOK, UpdateOK, Updates, Inserts, Holds
    <2>3. QED
      BY <2>1, <2>2
  <1>5. QED
    BY <1>3, <1>4

\* A check that passes, and a rollback to the savepoint of an occurrence, send
\* the handler to the next occurrence, the commit or the rollback.
LEMMA ShapeCheck ==
    ASSUME Shape, NEW r \in Slot,
           CheckPasses(r) \/ OccurrenceSkipped(r) \/ OccurrenceFailed(r)
    PROVE  Shape'
  <1> USE DEF Shape, tables
  <1>1. /\ pc[r] = "check" /\ req[r] \in Request /\ cur[r] \in Booking
        /\ Updates(r) \/ Inserts(r)
    BY DEF PcOK, CheckPasses, OccurrenceSkipped, OccurrenceFailed, InSavepoint
  <1>2. /\ AfterCheck(r) \in {"write", "commit"}
        /\ Updates(r) => AfterCheck(r) = "commit"
    BY <1>1 DEF AfterCheck, UpdateOK
  <1>3. CASE CheckPasses(r)
    <2>1. EventOf(req[r]) \in EventType
      BY <1>1, RequestFields DEF EventOf, EventType
    <2>2. (IF claim[r] = NoClaim THEN NoClaim ELSE [claim[r] EXCEPT !.booking = cur[r]])
            \in [key: Key, body: Body, booking: Booking \cup {NoBooking}] \cup {NoClaim}
      BY <1>1 DEF TypeOK
    <2>3. TypeOK'
      BY <1>1, <1>2, <1>3, <2>1, <2>2 DEF CheckPasses, TypeOK, Label
    <2>4. ASSUME NEW p \in Slot
          PROVE  PcOK(p)' /\ UpdateOK(p)'
      BY <1>1, <1>2, <1>3 DEF CheckPasses, TypeOK, PcOK, UpdateOK, Updates, Inserts, Holds
    <2>5. QED
      BY <2>3, <2>4
  <1>4. CASE OccurrenceSkipped(r) \/ OccurrenceFailed(r)
    <2>1. PICK l \in {"write", "commit", "rollback"} :
            /\ UndoOccurrence(r, l)
            /\ Updates(r) => l # "write"
      BY <1>2, <1>4 DEF OccurrenceSkipped, OccurrenceFailed
    <2>2. TypeOK'
      BY <1>1, <2>1 DEF UndoOccurrence, TypeOK, Label
    <2>3. ASSUME NEW p \in Slot
          PROVE  PcOK(p)' /\ UpdateOK(p)'
      BY <1>1, <2>1 DEF UndoOccurrence, TypeOK, PcOK, UpdateOK, Updates, Inserts, Holds
    <2>4. QED
      BY <2>2, <2>3
  <1>5. QED
    BY <1>3, <1>4

\* The actions that end a request without a commit, and the ones that throw.
LEMMA Failures ==
    ASSUME Shape, NEW r \in Slot
    PROVE  /\ Rollback(r) \/ StatementCancelled(r) \/ ConnectionLost(r) \/ SlotTaken(r)
                => Abort(r)
           /\ ReplayRefused(r) \/ CreateRefused(r) \/ ChangeRefused(r) \/ StaleVersion(r)
                => Throw(r) /\ pc[r] \in {"replay", "write", "read"}
  BY DEF Rollback, StatementCancelled, ConnectionLost, SlotTaken, ReplayRefused,
         CreateRefused, ChangeRefused, StaleVersion

\* Types and handler positions are kept by every step of the service.
LEMMA ShapeNext == Shape /\ [Next]_vars => Shape'
  <1> SUFFICES ASSUME Shape, [Next]_vars
               PROVE  Shape'
    OBVIOUS
  <1>1. CASE UNCHANGED vars
    BY <1>1 DEF vars, Shape, TypeOK, PcOK, UpdateOK, Updates, Inserts, Holds
  <1>2. ASSUME NEW r \in Slot, Begin(r)
        PROVE  Shape'
    BY <1>2, ShapeBegin
  <1>3. ASSUME NEW r \in Slot, StatementCancelled(r) \/ ConnectionLost(r)
        PROVE  Shape'
    BY <1>3, Failures, ShapeAbort
  <1>4. ASSUME NEW r \in Slot, Step(r)
        PROVE  Shape'
    BY <1>4, Failures, ShapeAbort, ShapeThrow, ShapeCommit, ShapeLocal, ShapeInsert,
       ShapeUpdate, ShapeCancelOne, ShapeCheck
    DEF Step
  <1>5. QED
    BY <1>1, <1>2, <1>3, <1>4, ShapeCheck DEF Next, Quiet

-----------------------------------------------------------------------------

Writes == RowLocks /\ \A p \in Slot : ReadOK(p) /\ WriteOK(p)

\* Nothing is written and nothing is locked at the start.
LEMMA WritesInit == Init => Writes
  BY DEF Init, Writes, RowLocks, ReadOK, WriteOK, Holds, NothingWritten

\* What WriteOK and ReadOK of a slot depend on.
LEMMA WriteFrame ==
    ASSUME NEW p \in Slot, WriteOK(p), pc[p] # "idle" => pc'[p] # "idle",
           rows' = rows, ws'[p] = ws[p], req'[p] = req[p]
    PROVE  WriteOK(p)'
  BY DEF WriteOK, Holds, Inserts, Updates

\* What ReadOK of a slot depends on: its label, its request and its booking.
LEMMA ReadFrame ==
    ASSUME NEW p \in Slot, ReadOK(p), pc'[p] \in {"read", "write"} => pc'[p] = pc[p],
           rows' = rows, req'[p] = req[p]
    PROVE  ReadOK(p)'
  BY DEF ReadOK, Updates

\* An uncommitted version of an existing row is one version ahead of it.
LEMMA HeldVersion ==
    ASSUME Shape, Writes, NEW p \in Slot, NEW b \in Booking, Holds(p, b), rows[b] # NoRow
    PROVE  /\ rows[b] \in Row /\ ws[p][b] \in Row
           /\ ws[p][b].version = rows[b].version + 1
  <1>1. rows[b] \in Row /\ ws[p][b] \in Row
    BY DEF Shape, TypeOK, Holds
  <1>2. req[p] \in Request
    BY DEF Shape, PcOK, Writes, WriteOK
  <1>3. \/ \E to \in Status : ws[p][b] = WithStatus(rows[b], to)
        \/ \E t \in Time : ws[p][b] = WithStart(rows[b], t)
    <2>1. ~Inserts(p)
      BY DEF Writes, WriteOK
    <2>2. CASE req[p].op = "transition"
      <3>1. ws[p][b] = Changed(req[p], rows[b]) /\ req[p].to \in Status
        BY <1>2, <2>2, RequestFields DEF Writes, WriteOK, Updates
      <3>2. QED
        BY <2>2, <3>1 DEF Changed
    <2>3. CASE req[p].op = "reschedule"
      <3>1. ws[p][b] = Changed(req[p], rows[b]) /\ req[p].start \in Time
        BY <1>2, <2>3, RequestFields DEF Writes, WriteOK, Updates
      <3>2. QED
        BY <2>3, <3>1 DEF Changed
    <2>4. CASE req[p].op = "cancelSeries"
      BY <2>4 DEF Writes, WriteOK, Status
    <2>5. QED
      BY <1>2, <2>1, <2>2, <2>3, <2>4, RequestFields DEF Inserts
  <1>4. ASSUME NEW to \in Status
        PROVE  WithStatus(rows[b], to).version = rows[b].version + 1
    BY DEF WithStatus
  <1>5. ASSUME NEW t \in Time
        PROVE  WithStart(rows[b], t).version = rows[b].version + 1
    BY DEF WithStart
  <1>6. QED
    BY <1>1, <1>3, <1>4, <1>5

\* A new request has written nothing, and what its client was shown is what is
\* committed or older.
LEMMA WritesBegin ==
    ASSUME Shape, Writes, NEW r \in Slot, Begin(r)
    PROVE  Writes'
  <1> USE DEF Writes, tables
  <1>1. PICK q \in Request : /\ MaySend(q)
                             /\ req' = [req EXCEPT ![r] = q]
                             /\ pc' = [pc EXCEPT ![r] = FirstLabel(q)]
    BY DEF Begin
  <1>2. pc[r] = "idle" /\ ws[r] = NothingWritten /\ rows' = rows /\ ws' = ws
    BY DEF Begin, Shape, PcOK
  <1>3. RowLocks'
    BY <1>2 DEF RowLocks, Holds
  <1>4. ASSUME NEW p \in Slot, p # r
        PROVE  ReadOK(p)' /\ WriteOK(p)'
    <2>1. pc'[p] = pc[p] /\ req'[p] = req[p]
      BY <1>1, <1>4 DEF Shape, TypeOK
    <2>2. QED
      BY <1>2, <2>1, WriteFrame, ReadFrame
  <1>5. WriteOK(r)'
    BY <1>2 DEF WriteOK, Holds, NothingWritten
  <1>6. ReadOK(r)'
    <2>1. req'[r] = q /\ pc'[r] = FirstLabel(q)
      BY <1>1 DEF Shape, TypeOK
    <2>2. CASE q.op \in {"transition", "reschedule"}
      <3>1. FirstLabel(q) = "read"
        BY <2>2 DEF FirstLabel
      <3>2. QED
        BY <1>1, <1>2, <2>1, <2>2, <3>1 DEF ReadOK, Updates, MaySend
    <2>3. CASE ~(q.op \in {"transition", "reschedule"})
      BY <2>1, <2>3 DEF ReadOK, Updates
    <2>4. QED
      BY <2>2, <2>3
  <1>7. QED
    BY <1>3, <1>4, <1>5, <1>6

\* An undone transaction gives its locks up and disturbs no other.
LEMMA WritesAbort ==
    ASSUME Shape, Writes, NEW r \in Slot, Abort(r)
    PROVE  Writes'
  <1> USE DEF Writes, Abort, Release, tables
  <1>1. ws'[r] = NothingWritten /\ pc'[r] = "idle" /\ rows' = rows
    BY DEF Shape, TypeOK
  <1>2. RowLocks'
    BY DEF RowLocks, Holds, NothingWritten, Shape, TypeOK
  <1>3. ASSUME NEW p \in Slot, p # r
        PROVE  ReadOK(p)' /\ WriteOK(p)'
    <2>1. pc'[p] = pc[p] /\ req'[p] = req[p] /\ ws'[p] = ws[p]
      BY <1>3 DEF Shape, TypeOK
    <2>2. QED
      BY <1>1, <2>1, WriteFrame, ReadFrame
  <1>4. ReadOK(r)' /\ WriteOK(r)'
    BY <1>1 DEF ReadOK, WriteOK, Holds, NothingWritten
  <1>5. QED
    BY <1>2, <1>3, <1>4

\* Steps that write no row and read none: the label moves forward.
LEMMA WritesLocal ==
    ASSUME Shape, Writes, NEW r \in Slot, pc[r] # "idle",
           UNCHANGED <<rows, req, ws>>, NEW l \in Label \ {"idle"},
           pc' = [pc EXCEPT ![r] = l],
           l \in {"read", "write"} => ~Updates(r)
    PROVE  Writes'
  <1> USE DEF Writes
  <1>1. RowLocks'
    BY DEF RowLocks, Holds
  <1>2. ASSUME NEW p \in Slot
        PROVE  WriteOK(p)'
    BY WriteFrame DEF Shape, TypeOK
  <1>3. ASSUME NEW p \in Slot
        PROVE  ReadOK(p)'
    <2>1. CASE p = r
      BY <2>1 DEF ReadOK, Updates, Shape, TypeOK
    <2>2. CASE p # r
      BY <2>2, ReadFrame DEF Shape, TypeOK
    <2>3. QED
      BY <2>1, <2>2
  <1>4. QED
    BY <1>1, <1>2, <1>3

\* transition and reschedule go on to their UPDATE only if the committed row
\* allows the change.
LEMMA WritesRead ==
    ASSUME Shape, Writes, NEW r \in Slot, ReadBooking(r)
    PROVE  Writes'
  <1> USE DEF Writes, ReadBooking, tables
  <1>1. RowLocks'
    BY DEF RowLocks, Holds
  <1>2. ASSUME NEW p \in Slot
        PROVE  WriteOK(p)'
    BY WriteFrame DEF Shape, TypeOK
  <1>3. ASSUME NEW p \in Slot
        PROVE  ReadOK(p)'
    <2>1. CASE p = r
      BY <2>1 DEF ReadOK, Updates, Shape, TypeOK
    <2>2. CASE p # r
      BY <2>2, ReadFrame DEF Shape, TypeOK
    <2>3. QED
      BY <2>1, <2>2
  <1>4. QED
    BY <1>1, <1>2, <1>3

\* A new row is locked by the transaction that inserts it alone (a fresh uuid).
LEMMA WritesInsert ==
    ASSUME Shape, Writes, NEW r \in Slot, InsertBooking(r)
    PROVE  Writes'
  <1> USE DEF Writes
  <1>1. PICK b \in Booking, t \in Time :
          /\ Unused(b)
          /\ ws' = [ws EXCEPT ![r][b] =
                      NewRow(StaffOf(req[r]), ServiceOf(req[r]), t, SeriesOf(req[r]))]
    BY DEF InsertBooking
  <1>2. /\ rows' = rows /\ req' = req /\ Inserts(r) /\ pc[r] # "idle"
        /\ pc' = [pc EXCEPT ![r] = "check"]
    BY DEF InsertBooking, tables
  <1>3. RowLocks'
    BY <1>1 DEF RowLocks, Holds, Unused, Shape, TypeOK
  <1>4. ASSUME NEW p \in Slot
        PROVE  ReadOK(p)'
    BY <1>2, ReadFrame DEF Shape, TypeOK
  <1>5. ASSUME NEW p \in Slot, p # r
        PROVE  WriteOK(p)'
    BY <1>1, <1>2, <1>5, WriteFrame DEF Shape, TypeOK
  <1>6. WriteOK(r)'
    <2> SUFFICES ASSUME NEW c \in Booking, Holds(r, c)'
                 PROVE  /\ rows[c] = NoRow
                        /\ \E u \in Time : ws'[r][c] =
                              NewRow(StaffOf(req[r]), ServiceOf(req[r]), u, SeriesOf(req[r]))
      BY <1>2 DEF WriteOK, Inserts, Updates, Shape, TypeOK
    <2>1. CASE c = b
      BY <1>1, <2>1 DEF Unused, Shape, TypeOK
    <2>2. CASE c # b
      BY <1>1, <1>2, <2>2 DEF WriteOK, Holds, Shape, TypeOK
    <2>3. QED
      BY <2>1, <2>2
  <1>7. QED
    BY <1>3, <1>4, <1>5, <1>6

\* An UPDATE that matched the version locks the row and applies the change to
\* the committed row, which still allows it.
LEMMA WritesUpdate ==
    ASSUME Shape, Writes, NEW r \in Slot, ApplyUpdate(r)
    PROVE  Writes'
  <1> USE DEF Writes
  <1> DEFINE b == req[r].booking
  <1>1. /\ rows' = rows /\ req' = req /\ Updates(r) /\ pc[r] = "write"
        /\ pc' = [pc EXCEPT ![r] = "check"] /\ ~LockedByOther(r, b)
        /\ rows[b].version = req[r].version
        /\ ws' = [ws EXCEPT ![r][b] = Changed(req[r], rows[b])]
    BY DEF ApplyUpdate, tables
  <1>2. b \in Booking
    BY <1>1, RequestFields DEF Shape, PcOK, Updates
  <1>3. RowLocks'
    BY <1>1, <1>2 DEF RowLocks, Holds, LockedByOther, Shape, TypeOK
  <1>4. ASSUME NEW p \in Slot
        PROVE  ReadOK(p)'
    BY <1>1, ReadFrame DEF Shape, TypeOK
  <1>5. ASSUME NEW p \in Slot, p # r
        PROVE  WriteOK(p)'
    BY <1>1, <1>2, <1>5, WriteFrame DEF Shape, TypeOK
  <1>6. WriteOK(r)'
    <2> SUFFICES ASSUME NEW c \in Booking, Holds(r, c)'
                 PROVE  /\ c = b
                        /\ ~AnyVersion => Allowed(req[r], rows[c])
                        /\ ws'[r][c] = Changed(req[r], rows[c])
      BY <1>1 DEF WriteOK, Inserts, Updates, Shape, TypeOK
    <2>1. ~AnyVersion => Allowed(req[r], rows[b])
      BY <1>1 DEF ReadOK
    <2>2. CASE c = b
      BY <1>1, <1>2, <2>1, <2>2 DEF Shape, TypeOK
    <2>3. CASE c # b
      BY <1>1, <1>2, <2>3 DEF WriteOK, Holds, Shape, TypeOK
    <2>4. QED
      BY <2>2, <2>3
  <1>7. QED
    BY <1>3, <1>4, <1>5, <1>6

\* The bulk UPDATE locks rows nobody else holds and cancels only rows that its
\* WHERE clause selects when they are locked.
LEMMA WritesCancelOne ==
    ASSUME Shape, Writes, NEW r \in Slot, CancelOne(r)
    PROVE  Writes'
  <1> USE DEF Writes
  <1>1. PICK b \in targets[r] :
          /\ ~LockedByOther(r, b)
          /\ IF InFutureSeries(rows[b], req[r].series)
             THEN ws' = [ws EXCEPT ![r][b] = WithStatus(rows[b], "cancelled")]
             ELSE ws' = ws
    BY DEF CancelOne
  <1>2. /\ rows' = rows /\ req' = req /\ pc' = pc /\ pc[r] = "cancel"
        /\ req[r].op = "cancelSeries" /\ b \in Booking
    BY DEF CancelOne, tables, Shape, PcOK, TypeOK
  <1>3. ASSUME NEW p \in Slot
        PROVE  ReadOK(p)'
    BY <1>2, ReadFrame
  <1>4. CASE ~InFutureSeries(rows[b], req[r].series)
    <2>1. ws' = ws
      BY <1>1, <1>4
    <2>2. RowLocks'
      BY <2>1 DEF RowLocks, Holds
    <2>3. ASSUME NEW p \in Slot
          PROVE  WriteOK(p)'
      BY <1>2, <2>1, WriteFrame
    <2>4. QED
      BY <1>3, <2>2, <2>3
  <1>5. CASE InFutureSeries(rows[b], req[r].series)
    <2>1. ws' = [ws EXCEPT ![r][b] = WithStatus(rows[b], "cancelled")]
      BY <1>1, <1>5
    <2>2. RowLocks'
      BY <1>1, <1>2, <2>1 DEF RowLocks, Holds, LockedByOther, Shape, TypeOK
    <2>3. ASSUME NEW p \in Slot, p # r
          PROVE  WriteOK(p)'
      BY <1>2, <2>1, <2>3, WriteFrame DEF Shape, TypeOK
    <2>4. WriteOK(r)'
      <3> SUFFICES ASSUME NEW c \in Booking, Holds(r, c)'
                   PROVE  /\ InFutureSeries(rows[c], req[r].series)
                          /\ ws'[r][c] = WithStatus(rows[c], "cancelled")
        BY <1>2 DEF WriteOK, Inserts, Updates
      <3>1. CASE c = b
        BY <1>2, <1>5, <2>1, <3>1 DEF Shape, TypeOK
      <3>2. CASE c # b
        BY <1>2, <2>1, <3>2 DEF WriteOK, Holds, Shape, TypeOK
      <3>3. QED
        BY <3>1, <3>2
    <2>5. QED
      BY <1>3, <2>2, <2>3, <2>4
  <1>6. QED
    BY <1>4, <1>5

\* A rollback to a savepoint unlocks one new row and nothing else.
LEMMA WritesSkip ==
    ASSUME Shape, Writes, NEW r \in Slot, OccurrenceSkipped(r) \/ OccurrenceFailed(r)
    PROVE  Writes'
  <1> USE DEF Writes
  <1>0. PICK l : l # "idle" /\ UndoOccurrence(r, l)
    BY DEF OccurrenceSkipped, OccurrenceFailed, AfterCheck
  <1>1. /\ rows' = rows /\ req' = req /\ pc[r] = "check" /\ req[r].op = "series"
        /\ pc' = [pc EXCEPT ![r] = l] /\ l # "idle"
        /\ ws' = [ws EXCEPT ![r][cur[r]] = NoRow]
    BY <1>0 DEF OccurrenceSkipped, OccurrenceFailed, InSavepoint, SkipsConflicts,
                UndoOccurrence, tables
  <1>2. cur[r] \in Booking
    BY <1>1 DEF Shape, PcOK
  <1>3. RowLocks'
    BY <1>1, <1>2 DEF RowLocks, Holds, Shape, TypeOK
  <1>4. ASSUME NEW p \in Slot
        PROVE  ReadOK(p)'
    <2>1. CASE p = r
      BY <1>1, <2>1 DEF ReadOK, Updates
    <2>2. CASE p # r
      BY <1>1, <2>2, ReadFrame DEF Shape, TypeOK
    <2>3. QED
      BY <2>1, <2>2
  <1>5. ASSUME NEW p \in Slot, p # r
        PROVE  WriteOK(p)'
    BY <1>1, <1>2, <1>5, WriteFrame DEF Shape, TypeOK
  <1>6. WriteOK(r)'
    BY <1>1, <1>2 DEF WriteOK, Holds, Inserts, Updates, Shape, TypeOK
  <1>7. QED
    BY <1>3, <1>4, <1>5, <1>6

\* A commit changes only rows its transaction locked, so it changes under no
\* other request's lock, and raises their versions, so a decision another
\* request took on the old version is stale.
LEMMA WritesCommit ==
    ASSUME Shape, Writes, NEW r \in Slot, Commit(r)
    PROVE  Writes'
  <1> USE DEF Writes
  <1>1. /\ rows' = [b \in Booking |-> IF Holds(r, b) THEN ws[r][b] ELSE rows[b]]
        /\ ws' = [ws EXCEPT ![r] = NothingWritten]
        /\ req' = [req EXCEPT ![r] = NoRequest]
        /\ pc' = [pc EXCEPT ![r] = "idle"]
    BY DEF Commit, Release
  <1>2. RowLocks'
    BY <1>1 DEF RowLocks, Holds, NothingWritten, Shape, TypeOK
  <1>3. ReadOK(r)' /\ WriteOK(r)'
    BY <1>1 DEF ReadOK, WriteOK, Holds, NothingWritten, Shape, TypeOK
  <1>4. ASSUME NEW p \in Slot, p # r
        PROVE  ReadOK(p)' /\ WriteOK(p)'
    <2>1. pc'[p] = pc[p] /\ req'[p] = req[p] /\ ws'[p] = ws[p]
      BY <1>1, <1>4 DEF Shape, TypeOK
    <2>2. ASSUME NEW b \in Booking, Holds(p, b)
          PROVE  rows'[b] = rows[b]
      BY <1>1, <1>4, <2>2 DEF RowLocks
    <2>3. WriteOK(p)'
      BY <2>1, <2>2 DEF WriteOK, Holds, Inserts, Updates
    <2>4. ReadOK(p)'
      <3> SUFFICES ASSUME ~AnyVersion, pc[p] \in {"read", "write"}, Updates(p)
                   PROVE  ReadOK(p)'
        BY <2>1 DEF ReadOK, Updates
      <3> DEFINE b == req[p].booking
      <3>1. b \in Booking /\ rows[b] # NoRow /\ req[p].version \in Nat
        BY RequestFields DEF Shape, PcOK, UpdateOK, Updates
      <3>2. /\ rows[b] \in Row
            /\ rows'[b] = rows[b] \/ rows'[b].version = rows[b].version + 1
        <4>1. CASE Holds(r, b)
          BY <1>1, <3>1, <4>1, HeldVersion
        <4>2. CASE ~Holds(r, b)
          BY <1>1, <3>1, <4>2 DEF Shape, TypeOK
        <4>3. QED
          BY <4>1, <4>2
      <3>3. rows[b].version \in Nat
        BY <3>2 DEF Row
      <3>4. /\ req[p].version <= rows[b].version
            /\ pc[p] = "write" /\ rows[b].version = req[p].version => Allowed(req[p], rows[b])
        BY DEF ReadOK
      <3>5. CASE rows'[b] = rows[b]
        BY <2>1, <3>4, <3>5 DEF ReadOK, Updates
      <3>6. CASE rows'[b].version = rows[b].version + 1
        BY <2>1, <3>1, <3>3, <3>4, <3>6 DEF ReadOK, Updates
      <3>7. QED
        BY <3>2, <3>5, <3>6
    <2>5. QED
      BY <2>3, <2>4
  <1>5. QED
    BY <1>2, <1>3, <1>4

\* Row locks, uncommitted versions and pending decisions are kept by every step.
LEMMA WritesNext == Shape /\ Writes /\ [Next]_vars => Writes'
  <1> SUFFICES ASSUME Shape, Writes, [Next]_vars
               PROVE  Writes'
    OBVIOUS
  <1>1. CASE UNCHANGED vars
    <2>1. RowLocks'
      BY <1>1 DEF vars, Writes, RowLocks, Holds
    <2>2. ASSUME NEW p \in Slot
          PROVE  ReadOK(p)' /\ WriteOK(p)'
      BY <1>1, ReadFrame, WriteFrame DEF vars, Writes
    <2>3. QED
      BY <2>1, <2>2 DEF Writes
  <1>2. ASSUME NEW r \in Slot, StatementCancelled(r) \/ ConnectionLost(r)
        PROVE  Writes'
    BY <1>2, Failures, WritesAbort
  <1>3. ASSUME NEW r \in Slot, Throw(r), pc[r] # "idle"
        PROVE  Writes'
    <2>1. "rollback" \in Label \ {"idle"}
      BY DEF Label
    <2>2. QED
      BY <1>3, <2>1, WritesLocal DEF Throw, tables
  <1>4. ASSUME NEW r \in Slot, ClaimKey(r) \/ Replay(r) \/ CancelDone(r) \/ CheckPasses(r)
        PROVE  Writes'
    <2>1. PICK l \in Label \ {"idle"} :
            /\ pc' = [pc EXCEPT ![r] = l]
            /\ l \in {"read", "write"} => ~Updates(r)
      <3>1. CASE ClaimKey(r)
        <4>1. ~Updates(r) /\ {"replay", "write"} \subseteq Label \ {"idle"}
          BY <3>1 DEF ClaimKey, Label, Shape, PcOK, Updates
        <4>2. \/ pc' = [pc EXCEPT ![r] = "replay"]
              \/ pc' = [pc EXCEPT ![r] = "write"]
          BY <3>1 DEF ClaimKey
        <4>3. QED
          BY <4>1, <4>2
      <3>2. CASE Replay(r) \/ CancelDone(r)
        <4>1. "commit" \in Label \ {"idle"} /\ pc' = [pc EXCEPT ![r] = "commit"]
          BY <3>2 DEF Replay, CancelDone, Label
        <4>2. QED
          BY <4>1
      <3>4. CASE CheckPasses(r)
        <4>1. AfterCheck(r) \in Label \ {"idle"}
          BY DEF AfterCheck, Label
        <4>2. AfterCheck(r) \in {"read", "write"} => ~Updates(r)
          BY <3>4 DEF CheckPasses, AfterCheck, Shape, UpdateOK
        <4>3. QED
          BY <3>4, <4>1, <4>2 DEF CheckPasses
      <3>5. QED
        BY <1>4, <3>1, <3>2, <3>4
    <2>2. pc[r] # "idle" /\ UNCHANGED <<rows, req, ws>>
      BY <1>4 DEF ClaimKey, Replay, CancelDone, CheckPasses, tables
    <2>3. QED
      BY <2>1, <2>2, WritesLocal
  <1>5. ASSUME NEW r \in Slot, Step(r)
        PROVE  Writes'
    BY <1>3, <1>4, <1>5, Failures, WritesAbort, WritesRead, WritesInsert, WritesUpdate,
       WritesCancelOne, WritesSkip, WritesCommit
    DEF Step
  <1>6. QED
    BY <1>1, <1>2, <1>5, WritesBegin, WritesSkip DEF Next, Quiet

-----------------------------------------------------------------------------

NoClash == NoDoubleBooking /\ CheckedOK

\* An empty calendar has no clash.
LEMMA NoClashInit == Init => NoClash
  BY DEF Init, NoClash, NoDoubleBooking, CheckedOK, Checked, Holds,
         NothingWritten, Clash, Active

\* Steps that commit nothing and after which no version is newly checked, except
\* one that occupies no slot.
LEMMA NoClashFrame ==
    ASSUME NoClash, rows' = rows,
           \A p \in Slot, b \in Booking : Checked(p, b)' =>
               \/ Checked(p, b) /\ ws'[p][b] = ws[p][b]
               \/ ~Active(ws'[p][b]),
           \A p \in Slot, b, c \in Booking :
               Checked(p, b)' /\ ~Holds(p, c)' => ~Holds(p, c) \/ rows[c] = NoRow
    PROVE  NoClash'
  <1> USE DEF NoClash
  <1>1. NoDoubleBooking'
    BY DEF NoDoubleBooking
  <1>2. ASSUME NEW p \in Slot, NEW b \in Booking, Checked(p, b)',
               NEW c \in Booking \ {b}, ~Holds(p, c)'
        PROVE  ~Clash(ws'[p][b], rows'[c])
    BY <1>2 DEF CheckedOK, Clash, Active
  <1>3. ASSUME NEW p \in Slot, NEW b \in Booking, Checked(p, b)',
               NEW q \in Slot, NEW c \in Booking \ {b}, Checked(q, c)'
        PROVE  ~Clash(ws'[p][b], ws'[q][c])
    BY <1>3 DEF CheckedOK, Clash
  <1>4. QED
    BY <1>1, <1>2, <1>3 DEF CheckedOK

\* A version that passes the check of the EXCLUDE constraint clashes with no
\* settled and with no checked version: the search saw every open transaction.
LEMMA NoClashCheckPasses ==
    ASSUME Shape, NoClash, NEW r \in Slot, CheckPasses(r)
    PROVE  NoClash'
  <1> USE DEF NoClash
  <1> DEFINE b == cur[r]
  <1>1. /\ rows' = rows /\ ws' = ws /\ cur' = cur /\ b \in Booking
        /\ ~HardConflict(r, b) /\ ~SoftConflict(r, b)
        /\ \A p \in Slot : p # r => pc'[p] = pc[p]
    BY DEF CheckPasses, tables, Shape, PcOK, TypeOK
  <1>2. NoDoubleBooking'
    BY <1>1 DEF NoDoubleBooking
  <1>3. ASSUME NEW p \in Slot, NEW c \in Booking, Checked(p, c)', ~(p = r /\ c = b)
        PROVE  Checked(p, c)
    BY <1>1, <1>3 DEF Checked, Holds
  <1>4. ASSUME NEW c \in Booking \ {b}, ~Holds(r, c)
        PROVE  ~Clash(ws[r][b], rows[c])
    BY <1>1, <1>4 DEF HardConflict, SoftConflict
  <1>5. ASSUME NEW q \in Slot, NEW c \in Booking \ {b}, Holds(q, c)
        PROVE  ~Clash(ws[r][b], ws[q][c]) /\ ~Clash(ws[q][c], ws[r][b])
    <2>1. ~Clash(ws[r][b], ws[q][c])
      BY <1>1, <1>5 DEF HardConflict, SoftConflict
    <2>2. ws[r][b] \in Row \cup {NoRow} /\ ws[q][c] \in Row \cup {NoRow}
      BY <1>1 DEF Shape, TypeOK
    <2>3. QED
      BY <2>1, <2>2, ClashSymmetric
  <1>6. ASSUME NEW p \in Slot, NEW c \in Booking, Checked(p, c)',
               NEW d \in Booking \ {c}, ~Holds(p, d)
        PROVE  ~Clash(ws[p][c], rows[d])
    BY <1>3, <1>4, <1>6 DEF CheckedOK
  <1>7. ASSUME NEW p \in Slot, NEW c \in Booking, Checked(p, c)',
               NEW q \in Slot, NEW d \in Booking \ {c}, Checked(q, d)'
        PROVE  ~Clash(ws[p][c], ws[q][d])
    <2>1. Holds(p, c) /\ Holds(q, d)
      BY <1>1, <1>7 DEF Checked, Holds
    <2>2. CASE p = r /\ c = b
      BY <1>5, <2>1, <2>2
    <2>3. CASE q = r /\ d = b
      BY <1>5, <2>1, <2>3
    <2>4. CASE ~(p = r /\ c = b) /\ ~(q = r /\ d = b)
      BY <1>3, <1>7, <2>4 DEF CheckedOK
    <2>5. QED
      BY <2>2, <2>3, <2>4
  <1>8. CheckedOK'
    BY <1>1, <1>6, <1>7 DEF CheckedOK, Holds
  <1>9. QED
    BY <1>2, <1>8

\* A commit publishes checked versions together, so no committed rows clash and
\* the checked versions of others stay free of the new rows.
LEMMA NoClashCommit ==
    ASSUME Shape, NoClash, NEW r \in Slot, Commit(r)
    PROVE  NoClash'
  <1> USE DEF NoClash
  <1>1. /\ rows' = [b \in Booking |-> IF Holds(r, b) THEN ws[r][b] ELSE rows[b]]
        /\ ws' = [ws EXCEPT ![r] = NothingWritten]
        /\ \A p \in Slot : p # r => pc'[p] = pc[p] /\ cur'[p] = cur[p] /\ ws'[p] = ws[p]
        /\ pc[r] = "commit"
    BY DEF Commit, Release, Shape, TypeOK
  <1>2. ASSUME NEW b \in Booking, Holds(r, b)
        PROVE  Checked(r, b)
    BY <1>1, <1>2 DEF Checked
  <1>3. ASSUME NEW b \in Booking, NEW c \in Booking, b # c
        PROVE  ~Clash(rows'[b], rows'[c])
    <2>1. CASE Holds(r, b) /\ Holds(r, c)
      BY <1>1, <1>2, <1>3, <2>1 DEF CheckedOK
    <2>2. CASE Holds(r, b) /\ ~Holds(r, c)
      BY <1>1, <1>2, <1>3, <2>2 DEF CheckedOK
    <2>3. CASE ~Holds(r, b) /\ Holds(r, c)
      <3>1. ~Clash(ws[r][c], rows[b])
        BY <1>2, <1>3, <2>3 DEF CheckedOK
      <3>2. ws[r][c] \in Row \cup {NoRow} /\ rows[b] \in Row \cup {NoRow}
        BY DEF Shape, TypeOK
      <3>3. ~Clash(rows[b], ws[r][c])
        BY <3>1, <3>2, ClashSymmetric
      <3>4. QED
        BY <1>1, <2>3, <3>3
    <2>4. CASE ~Holds(r, b) /\ ~Holds(r, c)
      BY <1>1, <1>3, <2>4 DEF NoDoubleBooking
    <2>5. QED
      BY <2>1, <2>2, <2>3, <2>4
  <1>4. ASSUME NEW p \in Slot, NEW b \in Booking, Checked(p, b)'
        PROVE  p # r /\ Checked(p, b) /\ ws'[p] = ws[p]
    BY <1>1, <1>4 DEF Checked, Holds, NothingWritten, Shape, TypeOK
  <1>5. ASSUME NEW p \in Slot, NEW b \in Booking, Checked(p, b)',
               NEW c \in Booking \ {b}, ~Holds(p, c)'
        PROVE  ~Clash(ws'[p][b], rows'[c])
    BY <1>1, <1>2, <1>4, <1>5 DEF CheckedOK, Holds
  <1>6. ASSUME NEW p \in Slot, NEW b \in Booking, Checked(p, b)',
               NEW q \in Slot, NEW c \in Booking \ {b}, Checked(q, c)'
        PROVE  ~Clash(ws'[p][b], ws'[q][c])
    BY <1>4, <1>6 DEF CheckedOK
  <1>7. QED
    BY <1>3, <1>5, <1>6 DEF NoDoubleBooking, CheckedOK

\* No row version occupies a slot that its request did not check.
LEMMA NoClashNext == Shape /\ Writes /\ NoClash /\ [Next]_vars => NoClash'
  <1> SUFFICES ASSUME Shape, Writes, NoClash, [Next]_vars
               PROVE  NoClash'
    OBVIOUS
  <1>1. ASSUME UNCHANGED <<rows, ws>>,
               \A p \in Slot : \/ pc'[p] = pc[p] /\ cur'[p] = cur[p]
                               \/ pc[p] # "check"
        PROVE  NoClash'
    BY <1>1, NoClashFrame DEF Checked, Holds
  <1>2. CASE UNCHANGED vars
    BY <1>1, <1>2 DEF vars
  <1>3. ASSUME NEW r \in Slot, Begin(r)
        PROVE  NoClash'
    <2>1. UNCHANGED <<rows, ws>> /\ pc[r] = "idle" /\ UNCHANGED cur
      BY <1>3 DEF Begin, tables
    <2>2. \A p \in Slot : p # r => pc'[p] = pc[p]
      BY <1>3 DEF Begin, Shape, TypeOK
    <2>3. QED
      BY <1>1, <2>1, <2>2
  <1>4. ASSUME NEW r \in Slot, Abort(r)
        PROVE  NoClash'
    BY <1>4, NoClashFrame DEF Abort, Release, tables, Checked, Holds, NothingWritten, Shape, TypeOK
  <1>5. ASSUME NEW r \in Slot,
               \/ Throw(r) /\ pc[r] \in {"replay", "write", "read"}
               \/ ClaimKey(r) \/ Replay(r) \/ ReadBooking(r) \/ CancelDone(r)
        PROVE  NoClash'
    <2>1. UNCHANGED <<rows, ws>> /\ pc[r] # "check"
      BY <1>5 DEF Throw, ClaimKey, Replay, ReadBooking, CancelDone, tables
    <2>2. \A p \in Slot : p # r => pc'[p] = pc[p] /\ cur'[p] = cur[p]
      BY <1>5 DEF Throw, ClaimKey, Replay, ReadBooking, CancelDone, Shape, TypeOK
    <2>3. QED
      BY <1>1, <2>1, <2>2
  <1>6. ASSUME NEW r \in Slot, InsertBooking(r) \/ ApplyUpdate(r)
        PROVE  NoClash'
    <2>1. PICK b \in Booking, row \in Row :
            /\ ws' = [ws EXCEPT ![r][b] = row]
            /\ cur' = [cur EXCEPT ![r] = b]
            /\ pc' = [pc EXCEPT ![r] = "check"]
            /\ rows' = rows /\ pc[r] = "write"
      <3>1. CASE InsertBooking(r)
        BY <3>1, InsertedRow DEF InsertBooking, tables, Shape, PcOK, Inserts
      <3>2. CASE ApplyUpdate(r)
        <4>1. /\ req[r] \in Request /\ req[r].booking \in Booking
              /\ rows[req[r].booking] \in Row
          BY <3>2, RequestFields DEF ApplyUpdate, Shape, PcOK, UpdateOK, Updates, TypeOK
        <4>2. Changed(req[r], rows[req[r].booking]) \in Row
          BY <3>2, <4>1, UpdatedRow DEF ApplyUpdate, Updates
        <4>3. QED
          BY <3>2, <4>1, <4>2 DEF ApplyUpdate, tables
      <3>3. QED
        BY <1>6, <3>1, <3>2
    <2>2. ASSUME NEW p \in Slot, NEW c \in Booking, Checked(p, c)'
          PROVE  Checked(p, c) /\ ws'[p][c] = ws[p][c]
      BY <2>1, <2>2 DEF Checked, Holds, Shape, TypeOK
    <2>3. ASSUME NEW p \in Slot, NEW c \in Booking, ~Holds(p, c)'
          PROVE  ~Holds(p, c)
      BY <2>1, <2>3, NoRowAssumption DEF Holds, Shape, TypeOK
    <2>4. QED
      BY <2>1, <2>2, <2>3, NoClashFrame
  <1>7. ASSUME NEW r \in Slot, CancelOne(r)
        PROVE  NoClash'
    <2>1. PICK b \in targets[r] :
            \/ /\ InFutureSeries(rows[b], req[r].series)
               /\ ws' = [ws EXCEPT ![r][b] = WithStatus(rows[b], "cancelled")]
            \/ ws' = ws
      BY <1>7, Zenon DEF CancelOne
    <2>2. rows' = rows /\ pc' = pc /\ cur' = cur /\ pc[r] = "cancel" /\ b \in Booking
      BY <1>7 DEF CancelOne, tables, Shape, TypeOK
    <2>3. CASE ws' = ws
      BY <1>1, <2>2, <2>3
    <2>4. CASE /\ InFutureSeries(rows[b], req[r].series)
               /\ ws' = [ws EXCEPT ![r][b] = WithStatus(rows[b], "cancelled")]
      <3> DEFINE row == WithStatus(rows[b], "cancelled")
      <3>1. row \in Row /\ row.status = "cancelled"
        <4>1. rows[b] \in Row
          BY <2>2, <2>4 DEF InFutureSeries, Active, Shape, TypeOK
        <4>2. QED
          BY <4>1, WithStatusType DEF WithStatus, Status
      <3>2. row # NoRow /\ ~Active(row)
        BY <3>1, NoRowAssumption DEF Active, ACTIVE_BOOKING_STATUSES
      <3> HIDE DEF row
      <3>3. QED
        BY <2>2, <2>4, <3>2, NoClashFrame DEF row, Checked, Holds, Shape, TypeOK
    <2>5. QED
      BY <2>1, <2>3, <2>4
  <1>8. ASSUME NEW r \in Slot, OccurrenceSkipped(r) \/ OccurrenceFailed(r)
        PROVE  NoClash'
    <2>0. InSavepoint(r) /\ \E l : UndoOccurrence(r, l)
      BY <1>8 DEF OccurrenceSkipped, OccurrenceFailed
    <2>1. /\ rows' = rows /\ cur' = cur /\ pc[r] = "check" /\ cur[r] \in Booking
          /\ ws' = [ws EXCEPT ![r][cur[r]] = NoRow]
          /\ \A p \in Slot : p # r => pc'[p] = pc[p]
      BY <2>0 DEF InSavepoint, UndoOccurrence, tables, Shape, PcOK, TypeOK
    <2>2. rows[cur[r]] = NoRow
      BY <2>0, <2>1 DEF InSavepoint, SkipsConflicts, Shape, PcOK, Writes, WriteOK, Inserts
    <2>3. QED
      BY <2>1, <2>2, NoClashFrame DEF Checked, Holds, Shape, TypeOK
  <1>9. ASSUME NEW r \in Slot, StatementCancelled(r) \/ ConnectionLost(r) \/ Step(r)
        PROVE  NoClash'
    BY <1>4, <1>5, <1>6, <1>7, <1>8, <1>9, Failures, NoClashCheckPasses, NoClashCommit
    DEF Step
  <1>10. QED
    BY <1>2, <1>3, <1>8, <1>9 DEF Next, Quiet

\* The whole invariant is preserved by every step of the service.
THEOREM Invariance == Spec => []Inv
  <1>1. Inv <=> Shape /\ Writes /\ NoClash
    BY DEF Inv, Shape, Writes, NoClash
  <1>2. Init => Shape /\ Writes /\ NoClash
    BY ShapeInit, WritesInit, NoClashInit
  <1>3. Shape /\ Writes /\ NoClash /\ [Next]_vars => (Shape /\ Writes /\ NoClash)'
    BY ShapeNext, WritesNext, NoClashNext
  <1>4. QED
    BY <1>1, <1>2, <1>3, PTL DEF Spec

\* Every table and every handler's local state keeps its type in every
\* behaviour of the booking service.
THEOREM TypeCorrect == Spec => []TypeOK
  BY Invariance, PTL DEF Inv

\* For any numbers of requests, staff, services and times, no two active
\* bookings of a staff member overlap (EXCLUDE constraint, create, reschedule).
THEOREM NeverDoubleBooked == Spec => []NoDoubleBooking
  BY Invariance, PTL DEF Inv

-----------------------------------------------------------------------------

\* The instance's copies of the domain operators are the same operators.
LEMMA SameDomain ==
    /\ C!Row = Row /\ C!Status = Status
    /\ \A x : C!Active(x) <=> Active(x)
    /\ \A x, y : C!Clash(x, y) <=> Clash(x, y)
    /\ \A x, y : C!CanTransition(x, y) <=> CanTransition(x, y)
    /\ \A a, b, t, s : C!NewRow(a, b, t, s) = NewRow(a, b, t, s)
    /\ \A x, to : C!WithStatus(x, to) = WithStatus(x, to)
    /\ \A x, t : C!WithStart(x, t) = WithStart(x, t)
  BY DEF C!Row, Row, C!Status, Status, C!Active, Active, C!ACTIVE_BOOKING_STATUSES,
         ACTIVE_BOOKING_STATUSES, C!Clash, Clash, C!Overlap, Overlap, C!CanTransition,
         CanTransition, C!TRANSITIONS, TRANSITIONS, C!NewRow, NewRow, C!EndsAt, EndsAt,
         C!WithStatus, WithStatus, C!WithStart, WithStart

\* Only the COMMIT of the TenantTransactionInterceptor changes what others see.
LEMMA OnlyCommitChangesRows ==
    ASSUME [Next]_vars, rows' # rows
    PROVE  \E r \in Slot : Commit(r)
  BY DEF Next, vars, Quiet, Begin, StatementCancelled, ConnectionLost, Step, Abort, Throw, tables,
         Rollback, ClaimKey, Replay, ReplayRefused, CreateRefused, InsertBooking,
         CheckPasses, OccurrenceSkipped, OccurrenceFailed, UndoOccurrence, SlotTaken,
         ReadBooking, ChangeRefused,
         ApplyUpdate, StaleVersion, CancelOne, CancelDone

\* What a request's transaction publishes is one change of the calendar.
LEMMA CommitRefines ==
    ASSUME ~AnyVersion, Inv, Inv', NEW r \in Slot, Commit(r), rows' # rows
    PROVE  C!Next
  <1> DEFINE B == {b \in Booking : Holds(r, b)}
  <1>1. /\ rows' = [b \in Booking |-> IF Holds(r, b) THEN ws[r][b] ELSE rows[b]]
        /\ rows' \in [Booking -> Row \cup {NoRow}]
        /\ pc[r] = "commit" /\ req[r] \in Request /\ WriteOK(r)
    BY DEF Commit, Inv, TypeOK, PcOK
  <1>2. /\ B \in SUBSET Booking
        /\ \A b \in Booking \ B : rows'[b] = rows[b]
        /\ \A b \in B : rows'[b] = ws[r][b] /\ Holds(r, b)
    BY <1>1
  <1>3. C!NoDoubleBooking'
    BY SameDomain DEF Inv, NoDoubleBooking, C!NoDoubleBooking
  <1>4. C!Change(B)
    <2>1. CASE Inserts(r)
      <3>1. /\ StaffOf(req[r]) \in Staff /\ ServiceOf(req[r]) \in Service
            /\ SeriesOf(req[r]) \in Series \cup {NoSeries}
        BY <1>1, <2>1, RequestFields DEF Inserts, StaffOf, ServiceOf, SeriesOf, Body
      <3>2. \A b \in B : /\ rows[b] = NoRow
                         /\ \E t \in Time : rows'[b] =
                               NewRow(StaffOf(req[r]), ServiceOf(req[r]), t, SeriesOf(req[r]))
        BY <1>1, <1>2, <2>1 DEF WriteOK
      <3>3. C!Create(B)
        BY <3>1, <3>2, SameDomain DEF C!Create
      <3>4. QED
        BY <3>3 DEF C!Change
    <2>2. CASE req[r].op = "cancelSeries"
      <3>1. \A b \in B : /\ Active(rows[b]) /\ rows[b].series = req[r].series
                         /\ rows'[b] = WithStatus(rows[b], "cancelled")
        BY <1>1, <1>2, <2>2 DEF WriteOK, InFutureSeries
      <3>2. req[r].series \in Series
        BY <1>1, <2>2, RequestFields
      <3>3. C!CancelSeries(B)
        BY <3>1, <3>2, SameDomain DEF C!CancelSeries
      <3>4. QED
        BY <3>3 DEF C!Change
    <2>3. CASE Updates(r) /\ B # {}
      <3> DEFINE b == req[r].booking
      <3>1. B = {b} /\ b \in Booking
        BY <1>1, <1>2, <2>3 DEF WriteOK
      <3>2. /\ rows[b] # NoRow
            /\ Allowed(req[r], rows[b]) /\ rows'[b] = Changed(req[r], rows[b])
        BY <1>1, <1>2, <2>3, <3>1 DEF WriteOK, Inv, UpdateOK
      <3>3. CASE req[r].op = "transition"
        <4>1. req[r].to \in Status
          BY <1>1, <3>3, RequestFields
        <4>2. C!Transition(b, req[r].to)
          BY <3>2, <3>3, SameDomain DEF C!Transition, Allowed, Changed
        <4>3. QED
          BY <3>1, <4>1, <4>2, SameDomain DEF C!Change
      <3>4. CASE req[r].op = "reschedule"
        <4>1. req[r].start \in Time
          BY <1>1, <3>4, RequestFields
        <4>2. C!Reschedule(b, req[r].start)
          BY <3>2, <3>4, SameDomain DEF C!Reschedule, Allowed, Changed
        <4>3. QED
          BY <3>1, <4>1, <4>2 DEF C!Change
      <3>5. QED
        BY <2>3, <3>3, <3>4 DEF Updates
    <2>4. B # {}
      BY <1>1, <1>2 DEF Inv, TypeOK
    <2>5. QED
      BY <1>1, <2>1, <2>2, <2>3, <2>4, RequestFields DEF Inserts, Updates
  <1>5. QED
    BY <1>1, <1>2, <1>3, <1>4, SameDomain DEF C!Next

\* When clients send only versions they were shown, the bookings table is a
\* Calendar: every commit is one of its changes and leaves no two clashing rows.
THEOREM ImplementsCalendar == ASSUME ~AnyVersion PROVE Spec => RefinesCalendar
  <1>1. Init => C!Init
    BY DEF Init, C!Init, NothingWritten
  <1>2. Inv /\ Inv' /\ [Next]_vars => [C!Next]_rows
    BY OnlyCommitChangesRows, CommitRefines
  <1>3. QED
    BY <1>1, <1>2, Invariance, PTL DEF Spec, C!Spec, RefinesCalendar
=============================================================================
