------------------------ MODULE BookingHistoryProofs ------------------------
(***************************************************************************)
(* What the booking service publishes beside its rows: the events of the    *)
(* outbox, the answers under an Idempotency-Key and the recurrences.  HInv  *)
(* (module BookingInvariant) is proved on top of Inv, in three layers that  *)
(* do not depend on each other: events, keys, series.                       *)
(***************************************************************************)
EXTENDS BookingProofs, FiniteSetTheorems

\* A step of slot r, and what such a step leaves to another slot.
SlotStep(r) ==
    Begin(r) \/ Step(r) \/ StatementCancelled(r) \/ OccurrenceFailed(r) \/ ConnectionLost(r)

SameSlot(p) ==
    /\ pc'[p] = pc[p] /\ req'[p] = req[p] /\ ws'[p] = ws[p] /\ ev'[p] = ev[p]
    /\ claim'[p] = claim[p] /\ starts'[p] = starts[p] /\ cur'[p] = cur[p]

SameTables == UNCHANGED <<rows, outbox, keys, recurrences, answered>>

Undo(r) == OccurrenceSkipped(r) \/ OccurrenceFailed(r)

\* The steps of a slot, with the ones that throw or abort taken together.
LEMMA StepKinds ==
    ASSUME Inv, NEW r \in Slot, SlotStep(r)
    PROVE  \/ Begin(r) \/ Commit(r) \/ Abort(r)
           \/ Throw(r) /\ pc[r] \in {"replay", "write", "read"}
           \/ ClaimKey(r) \/ Replay(r) \/ ReadBooking(r) \/ CancelDone(r)
           \/ InsertBooking(r) \/ ApplyUpdate(r) \/ CancelOne(r) \/ CheckPasses(r)
           \/ Undo(r)
  <1>1. Shape
    BY DEF Inv, Shape
  <1> QED
    BY <1>1, Failures DEF SlotStep, Step, Undo

\* A step of one slot changes the local state of no other.
LEMMA OthersKept ==
    ASSUME Inv, NEW r \in Slot, SlotStep(r), NEW p \in Slot, p # r
    PROVE  SameSlot(p)
  <1>1. TypeOK
    BY DEF Inv
  <1> USE <1>1 DEF TypeOK, SameSlot, tables
  <1>2. CASE Begin(r)
    BY <1>2 DEF Begin
  <1>3. CASE Commit(r) \/ Abort(r)
    BY <1>3 DEF Commit, Abort, Release
  <1>4. CASE Throw(r) \/ Replay(r) \/ ReadBooking(r) \/ CancelDone(r)
    BY <1>4 DEF Throw, Replay, ReadBooking, CancelDone
  <1>5. CASE ClaimKey(r)
    BY <1>5 DEF ClaimKey
  <1>6. CASE InsertBooking(r)
    BY <1>6 DEF InsertBooking
  <1>7. CASE ApplyUpdate(r)
    BY <1>7 DEF ApplyUpdate
  <1>8. CASE CancelOne(r)
    BY <1>8 DEF CancelOne
  <1>9. CASE CheckPasses(r)
    BY <1>9 DEF CheckPasses
  <1>10. CASE Undo(r)
    BY <1>10 DEF Undo, OccurrenceSkipped, OccurrenceFailed, UndoOccurrence
  <1> QED
    BY <1>2, <1>3, <1>4, <1>5, <1>6, <1>7, <1>8, <1>9, <1>10, StepKinds

\* Nothing but a commit changes what others see.
LEMMA OnlyCommitPublishes ==
    ASSUME Inv, NEW r \in Slot, SlotStep(r), ~Commit(r)
    PROVE  SameTables
  BY StepKinds
  DEF SameTables, tables, Begin, Abort, Throw, ClaimKey, Replay, ReadBooking, CancelDone,
      InsertBooking, ApplyUpdate, CancelOne, CheckPasses, Undo, OccurrenceSkipped,
      OccurrenceFailed, UndoOccurrence

\* A transaction that ends leaves an idle slot with nothing in it.
LEMMA Emptied ==
    ASSUME Inv, NEW r \in Slot, Commit(r) \/ Abort(r)
    PROVE  /\ pc'[r] = "idle" /\ ws'[r] = NothingWritten /\ ev'[r] = NoEvents
           /\ claim'[r] = NoClaim
  BY DEF Commit, Abort, Release, Inv, TypeOK

-----------------------------------------------------------------------------
(* Events. *)

\* A slot that has written nothing has no event.
LEMMA EventsIdle ==
    ASSUME NEW r \in Slot, ws[r] = NothingWritten, ev[r] = NoEvents
    PROVE  EventsOK(r)
  BY DEF EventsOK, Checked, Holds, NothingWritten, NoEvents

LEMMA EventsStep ==
    ASSUME Inv, NEW r \in Slot, SlotStep(r), \A p \in Slot : EventsOK(p)
    PROVE  \A p \in Slot : EventsOK(p)'
  <1>1. TypeOK /\ PcOK(r) /\ UpdateOK(r)
    BY DEF Inv
  <1>2. \A p \in Slot : p # r => EventsOK(p)'
    BY OthersKept DEF SameSlot, EventsOK, Checked, Holds, Updates
  <1>3. EventsOK(r)
    OBVIOUS
  <1>4. CASE Commit(r) \/ Abort(r)
    <2>1. EventsOK(r)'
      BY <1>4, Emptied DEF EventsOK, Checked, Holds, NothingWritten, NoEvents
    <2> QED
      BY <1>2, <2>1
  <1>5. CASE Begin(r)
    <2>1. pc[r] = "idle" /\ ws' = ws /\ ev' = ev
      BY <1>5 DEF Begin
    <2>2. ws'[r] = NothingWritten /\ ev'[r] = NoEvents
      BY <1>1, <2>1 DEF PcOK
    <2>3. EventsOK(r)'
      BY <2>2 DEF EventsOK, Checked, Holds, NothingWritten, NoEvents
    <2> QED
      BY <1>2, <2>3
  <1>6. CASE \/ Throw(r) /\ pc[r] \in {"replay", "write", "read"}
             \/ ClaimKey(r) \/ Replay(r) \/ ReadBooking(r) \/ CancelDone(r)
    <2>1. ws' = ws /\ ev' = ev /\ req' = req
      BY <1>6 DEF Throw, ClaimKey, Replay, ReadBooking, CancelDone
    <2>2. pc[r] # "check" /\ pc'[r] # "check"
      BY <1>1, <1>6 DEF TypeOK, Throw, ClaimKey, Replay, ReadBooking, CancelDone
    <2>3. pc'[r] \in {"read", "write"} /\ Updates(r)' => pc[r] \in {"read", "write"} /\ Updates(r)
      BY <1>1, <1>6, <2>1
      DEF TypeOK, PcOK, Updates, Throw, ClaimKey, Replay, ReadBooking, CancelDone
    <2>4. EventsOK(r)'
      BY <1>3, <2>1, <2>2, <2>3 DEF EventsOK, Checked, Holds
    <2> QED
      BY <1>2, <2>4
  <1>7. CASE InsertBooking(r)
    <2>1. PICK b \in Booking, row \in Row :
            /\ ws' = [ws EXCEPT ![r][b] = row] /\ cur' = [cur EXCEPT ![r] = b]
            /\ Unused(b) /\ pc' = [pc EXCEPT ![r] = "check"] /\ pc[r] = "write"
            /\ ev' = ev /\ req' = req
      BY <1>1, <1>7, InsertedRow DEF InsertBooking, PcOK, Inserts
    <2>2. /\ \A c \in Booking : c # b => ws'[r][c] = ws[r][c]
          /\ ~Holds(r, b) /\ pc'[r] = "check" /\ cur'[r] = b
      BY <1>1, <2>1 DEF TypeOK, Unused
    <2>3. \A c \in Booking : Checked(r, c)' <=> Checked(r, c)
      BY <2>1, <2>2 DEF Checked, Holds
    <2>4. EventsOK(r)'
      BY <1>3, <2>1, <2>2, <2>3 DEF EventsOK
    <2> QED
      BY <1>2, <2>4
  <1>8. CASE ApplyUpdate(r)
    <2>1. PICK b \in Booking : b = req[r].booking
      BY <1>1, <1>8, RequestFields DEF ApplyUpdate, PcOK, Updates
    <2>2. /\ ws[r] = NothingWritten /\ ev' = ev /\ req' = req
          /\ \A c \in Booking : c # b => ws'[r][c] = ws[r][c]
          /\ pc'[r] = "check" /\ cur'[r] = b
      BY <1>1, <1>3, <1>8, <2>1 DEF ApplyUpdate, EventsOK, TypeOK
    <2>3. \A c \in Booking : ~Checked(r, c)' /\ ~Checked(r, c)
      BY <2>2 DEF Checked, Holds, NothingWritten
    <2>4. EventsOK(r)'
      BY <1>3, <2>2, <2>3 DEF EventsOK
    <2> QED
      BY <1>2, <2>4
  <1>9. CASE CancelOne(r)
    <2>1. /\ pc[r] = "cancel" /\ pc' = pc /\ req' = req /\ req[r].op = "cancelSeries"
      BY <1>1, <1>9 DEF CancelOne, PcOK
    <2>2. \/ ws' = ws /\ ev' = ev
          \/ \E b \in Booking :
               /\ InFutureSeries(rows[b], req[r].series)
               /\ ws' = [ws EXCEPT ![r][b] = WithStatus(rows[b], "cancelled")]
               /\ ev' = [ev EXCEPT ![r][b] = "cancelled"]
      <3>1. PICK b \in targets[r] :
              IF InFutureSeries(rows[b], req[r].series)
              THEN /\ ws' = [ws EXCEPT ![r][b] = WithStatus(rows[b], "cancelled")]
                   /\ ev' = [ev EXCEPT ![r][b] = "cancelled"]
              ELSE UNCHANGED <<ws, ev>>
        BY <1>9 DEF CancelOne
      <3>2. b \in Booking
        BY <1>1 DEF TypeOK
      <3>3. CASE InFutureSeries(rows[b], req[r].series)
        BY <3>1, <3>2, <3>3, Zenon
      <3>4. CASE ~InFutureSeries(rows[b], req[r].series)
        BY <3>1, <3>4
      <3> QED
        BY <3>3, <3>4
    <2>3. ASSUME ws' = ws, ev' = ev
          PROVE  EventsOK(r)'
      BY <1>3, <2>1, <2>3 DEF EventsOK, Checked, Holds
    <2>4. ASSUME NEW b \in Booking, InFutureSeries(rows[b], req[r].series),
                 ws' = [ws EXCEPT ![r][b] = WithStatus(rows[b], "cancelled")],
                 ev' = [ev EXCEPT ![r][b] = "cancelled"]
          PROVE  EventsOK(r)'
      <3>1. WithStatus(rows[b], "cancelled") # NoRow
        BY <1>1, <2>4, WithStatusType, NoRowAssumption
        DEF InFutureSeries, Active, TypeOK, Status
      <3>2. /\ Holds(r, b)' /\ ev'[r][b] = "cancelled"
            /\ \A c \in Booking : c # b => ws'[r][c] = ws[r][c] /\ ev'[r][c] = ev[r][c]
        BY <1>1, <2>4, <3>1 DEF TypeOK, Holds
      <3>3. \A c \in Booking : Checked(r, c)' <=> Checked(r, c) \/ c = b
        BY <2>1, <3>2 DEF Checked, Holds
      <3>4. \A c \in Booking :
              ev'[r][c] = IF Checked(r, c)' THEN Emitted(req[r]) ELSE NoEvent
        BY <1>3, <2>1, <3>2, <3>3 DEF EventsOK, Emitted
      <3> QED
        BY <2>1, <3>4 DEF EventsOK
    <2> QED
      BY <1>2, <2>2, <2>3, <2>4
  <1>10. CASE CheckPasses(r)
    <2>1. PICK b \in Booking : b = cur[r]
      BY <1>1, <1>10 DEF CheckPasses, PcOK
    <2>2. /\ pc[r] = "check" /\ Holds(r, b) /\ ws' = ws /\ req' = req /\ cur' = cur
          /\ ev'[r][b] = EventOf(req[r]) /\ \A c \in Booking : c # b => ev'[r][c] = ev[r][c]
          /\ pc'[r] = AfterCheck(r) /\ EventOf(req[r]) = Emitted(req[r])
      BY <1>1, <1>10, <2>1 DEF CheckPasses, PcOK, TypeOK, Emitted, Updates, Inserts
    <2>3. pc'[r] \in {"write", "commit"} /\ (Updates(r) => pc'[r] = "commit")
      BY <1>1, <2>2 DEF AfterCheck, UpdateOK
    <2>4. \A c \in Booking : Checked(r, c)' <=> Checked(r, c) \/ c = b
      BY <2>1, <2>2, <2>3 DEF Checked, Holds
    <2>5. \A c \in Booking :
            ev'[r][c] = IF Checked(r, c)' THEN Emitted(req[r]) ELSE NoEvent
      BY <1>3, <2>2, <2>4 DEF EventsOK
    <2>6. EventsOK(r)'
      BY <2>2, <2>3, <2>5 DEF EventsOK, Updates
    <2> QED
      BY <1>2, <2>6
  <1>11. CASE Undo(r)
    <2>1. PICK b \in Booking : b = cur[r]
      BY <1>1, <1>11 DEF Undo, OccurrenceSkipped, OccurrenceFailed, InSavepoint, PcOK
    <2>2. /\ pc[r] = "check" /\ req[r].op = "series" /\ ev' = ev /\ req' = req
          /\ ws'[r][b] = NoRow /\ \A c \in Booking : c # b => ws'[r][c] = ws[r][c]
          /\ pc'[r] \in {"write", "commit", "rollback"}
      BY <1>1, <1>11, <2>1
      DEF Undo, OccurrenceSkipped, OccurrenceFailed, InSavepoint, SkipsConflicts,
          UndoOccurrence, AfterCheck, TypeOK
    <2>3. \A c \in Booking : Checked(r, c)' <=> Checked(r, c)
      BY <2>1, <2>2 DEF Checked, Holds
    <2>4. EventsOK(r)'
      BY <1>3, <2>2, <2>3 DEF EventsOK, Updates
    <2> QED
      BY <1>2, <2>4
  <1> QED
    BY <1>4, <1>5, <1>6, <1>7, <1>8, <1>9, <1>10, <1>11, StepKinds

\* A history tells a row: one event for each version, the first a creation,
\* and the last one that is not a reschedule names the status.
Tells(events, row) ==
    /\ Len(events) = row.version
    /\ events[1] = "created"
    /\ \E i \in 1..Len(events) :
          /\ events[i] # "rescheduled"
          /\ StatusFrom(events[i]) = row.status
          /\ \A j \in (i + 1)..Len(events) : events[j] = "rescheduled"

LEMMA TellsHistory ==
    OutboxTellsHistory <=>
        \A b \in Booking : IF rows[b] = NoRow THEN outbox[b] = <<>> ELSE Tells(outbox[b], rows[b])
  BY DEF OutboxTellsHistory, Tells

LEMMA AppendFacts ==
    ASSUME NEW events \in Seq(EventType), NEW e \in EventType
    PROVE  /\ Len(events) \in Nat
           /\ Append(events, e) \in Seq(EventType)
           /\ Len(Append(events, e)) = Len(events) + 1
           /\ Append(events, e)[Len(events) + 1] = e
           /\ \A i \in 1..Len(events) : Append(events, e)[i] = events[i]
  OBVIOUS

\* The event of a new row.
LEMMA TellsNew ==
    ASSUME NEW staff, NEW service, NEW t, NEW s
    PROVE  Tells(Append(<<>>, "created"), NewRow(staff, service, t, s))
  <1> DEFINE h == Append(<<>>, "created")
             row == NewRow(staff, service, t, s)
  <1>1. Len(h) = 1 /\ h[1] = "created"
    OBVIOUS
  <1>2. row.version = 1 /\ row.status = "pending"
    BY DEF NewRow
  <1> HIDE DEF h, row
  <1>3. StatusFrom(h[1]) = row.status /\ h[1] # "rescheduled" /\ \A j \in 2..1 : h[j] = "rescheduled"
    BY <1>1, <1>2 DEF StatusFrom
  <1>4. Tells(h, row)
    BY <1>1, <1>2, <1>3 DEF Tells
  <1> QED
    BY <1>4 DEF h, row

\* The event of a change of status.
LEMMA TellsStatus ==
    ASSUME NEW events \in Seq(EventType), NEW row \in Row, Tells(events, row),
           NEW to \in Status \ {"pending"}
    PROVE  Tells(Append(events, to), WithStatus(row, to))
  <1> DEFINE h == Append(events, to)
             new == WithStatus(row, to)
             n == Len(events)
  <1>1. to \in EventType /\ to # "created" /\ to # "rescheduled"
    BY DEF EventType, Status
  <1>2. /\ n \in Nat /\ n >= 1 /\ Len(h) = n + 1 /\ h[n + 1] = to /\ h[1] = "created"
    <2>1. /\ n \in Nat /\ Len(h) = n + 1 /\ h[n + 1] = to
          /\ \A i \in 1..n : h[i] = events[i]
      BY <1>1, AppendFacts
    <2>2. n >= 1 /\ events[1] = "created"
      BY <2>1 DEF Tells, Row
    <2> QED
      BY <2>1, <2>2
  <1>3. new.version = n + 1 /\ new.status = to
    BY DEF WithStatus, Tells
  <1> HIDE DEF h, new, n
  <1>4. StatusFrom(h[n + 1]) = new.status /\ h[n + 1] # "rescheduled"
    BY <1>1, <1>2, <1>3 DEF StatusFrom
  <1>5. (n + 1) \in 1..Len(h) /\ \A j \in (n + 1 + 1)..Len(h) : h[j] = "rescheduled"
    BY <1>2
  <1>6. Tells(h, new)
    BY <1>2, <1>3, <1>4, <1>5 DEF Tells
  <1> QED
    BY <1>6 DEF h, new

\* The event of a reschedule.
LEMMA TellsStart ==
    ASSUME NEW events \in Seq(EventType), NEW row \in Row, Tells(events, row), NEW t
    PROVE  Tells(Append(events, "rescheduled"), WithStart(row, t))
  <1> DEFINE h == Append(events, "rescheduled")
             new == WithStart(row, t)
             n == Len(events)
  <1>1. /\ n \in Nat /\ Len(h) = n + 1 /\ h[n + 1] = "rescheduled"
        /\ \A i \in 1..n : h[i] = events[i]
    BY AppendFacts DEF EventType
  <1>2. new.version = n + 1 /\ new.status = row.status
    BY DEF WithStart, Tells
  <1>3. PICK i \in 1..n : /\ events[i] # "rescheduled" /\ StatusFrom(events[i]) = row.status
                          /\ \A j \in (i + 1)..n : events[j] = "rescheduled"
    BY DEF Tells
  <1>4. events[1] = "created"
    BY DEF Tells
  <1> HIDE DEF h, new, n
  <1>5. i \in 1..Len(h) /\ h[i] # "rescheduled" /\ StatusFrom(h[i]) = new.status
    BY <1>1, <1>2, <1>3
  <1>6. ASSUME NEW j \in (i + 1)..Len(h)
        PROVE  h[j] = "rescheduled"
    <2>1. j = n + 1 \/ (j \in 1..n /\ j \in (i + 1)..n)
      BY <1>1, <1>3
    <2> QED
      BY <1>1, <1>3, <2>1
  <1>7. h[1] = "created"
    BY <1>1, <1>3, <1>4
  <1>8. Tells(h, new)
    BY <1>1, <1>2, <1>5, <1>6, <1>7 DEF Tells
  <1> QED
    BY <1>8 DEF h, new

\* A commit appends to the history of each row it changes the event of that
\* change.
LEMMA HistoryCommit ==
    ASSUME Inv, NEW r \in Slot, Commit(r), EventsOK(r), OutboxTellsHistory
    PROVE  OutboxTellsHistory'
  <1>1. TypeOK /\ PcOK(r) /\ UpdateOK(r) /\ WriteOK(r) /\ pc[r] = "commit" /\ req[r] \in Request
    BY DEF Inv, Commit, PcOK
  <1> SUFFICES ASSUME NEW b \in Booking
               PROVE  IF rows'[b] = NoRow THEN outbox'[b] = <<>> ELSE Tells(outbox'[b], rows'[b])
    <2>1. OutboxTellsHistory' <=>
            \A b \in Booking :
               IF rows'[b] = NoRow THEN outbox'[b] = <<>> ELSE Tells(outbox'[b], rows'[b])
      BY DEF OutboxTellsHistory, Tells
    <2> QED
      BY <2>1
  <1>2. /\ outbox[b] \in Seq(EventType) /\ rows[b] \in Row \cup {NoRow}
        /\ IF rows[b] = NoRow THEN outbox[b] = <<>> ELSE Tells(outbox[b], rows[b])
    BY <1>1, TellsHistory DEF TypeOK
  <1>3. CASE ~Holds(r, b)
    <2>1. rows'[b] = rows[b] /\ ev[r][b] = NoEvent
      BY <1>3 DEF Commit, EventsOK, Checked
    <2>2. outbox'[b] = outbox[b]
      BY <2>1 DEF Commit
    <2> QED
      BY <1>2, <2>1, <2>2
  <1>4. CASE Holds(r, b)
    <2>1. ev[r][b] = Emitted(req[r])
      BY <1>1, <1>4 DEF EventsOK, Checked
    <2>2. Emitted(req[r]) \in EventType
      BY <1>1, RequestFields DEF Emitted, EventOf, EventType, Status
    <2>3. rows'[b] = ws[r][b] /\ outbox'[b] = Append(outbox[b], Emitted(req[r]))
      BY <1>4, <2>1, <2>2, NoValueAssumption DEF Commit
    <2>4. ws[r][b] \in Row /\ ws[r][b] # NoRow
      BY <1>1, <1>4 DEF TypeOK, Holds
    <2>5. CASE Inserts(r)
      <3>1. rows[b] = NoRow /\ Emitted(req[r]) = "created"
        BY <1>1, <1>4, <2>5 DEF WriteOK, Inserts, Emitted, EventOf
      <3>2. PICK t \in Time :
              ws[r][b] = NewRow(StaffOf(req[r]), ServiceOf(req[r]), t, SeriesOf(req[r]))
        BY <1>1, <1>4, <2>5 DEF WriteOK
      <3> QED
        BY <1>2, <2>3, <2>4, <3>1, <3>2, TellsNew
    <2>6. CASE req[r].op = "transition"
      <3>1. /\ rows[b] # NoRow /\ ws[r][b] = WithStatus(rows[b], req[r].to)
            /\ req[r].to \in Status \ {"pending"} /\ Emitted(req[r]) = req[r].to
        BY <1>1, <1>4, <2>6, RequestFields
        DEF WriteOK, UpdateOK, Updates, Changed, Emitted, EventOf
      <3> QED
        BY <1>2, <2>3, <2>4, <3>1, TellsStatus
    <2>7. CASE req[r].op = "reschedule"
      <3>1. /\ rows[b] # NoRow /\ ws[r][b] = WithStart(rows[b], req[r].start)
            /\ Emitted(req[r]) = "rescheduled"
        BY <1>1, <1>4, <2>7 DEF WriteOK, UpdateOK, Updates, Changed, Emitted, EventOf
      <3> QED
        BY <1>2, <2>3, <2>4, <3>1, TellsStart
    <2>8. CASE req[r].op = "cancelSeries"
      <3>1. /\ rows[b] # NoRow /\ ws[r][b] = WithStatus(rows[b], "cancelled")
            /\ Emitted(req[r]) = "cancelled" /\ "cancelled" \in Status \ {"pending"}
        BY <1>1, <1>4, <2>8 DEF WriteOK, InFutureSeries, Active, Emitted, Status
      <3> QED
        BY <1>2, <2>3, <2>4, <3>1, TellsStatus
    <2> QED
      BY <1>1, <2>5, <2>6, <2>7, <2>8, RequestFields DEF Inserts
  <1> QED
    BY <1>3, <1>4

-----------------------------------------------------------------------------
(* Keys. *)

Claims == KeysOK /\ \A p \in Slot : ClaimOK(p)

\* The local state and the key of another slot stay; so does what holds of them.
LEMMA ClaimFrame ==
    ASSUME NEW p \in Slot, ClaimOK(p), SameSlot(p), keys' = keys
    PROVE  ClaimOK(p)'
  BY DEF ClaimOK, SameSlot, Holds

\* No claim changes and nothing is published.
LEMMA KeysFrame ==
    ASSUME KeysOK, SameTables, \A p \in Slot : claim'[p] = claim[p]
    PROVE  KeysOK'
  BY DEF KeysOK, SameTables

\* Steps that take, keep or give up a claim without publishing it.
LEMMA ClaimsStep ==
    ASSUME Inv, NEW r \in Slot, SlotStep(r), ~Commit(r), Claims
    PROVE  Claims'
  <1>1. TypeOK /\ PcOK(r) /\ UpdateOK(r) /\ ClaimOK(r) /\ KeysOK
    BY DEF Inv, Claims
  <1>2. SameTables
    BY OnlyCommitPublishes
  <1>3. \A p \in Slot : p # r => ClaimOK(p)' /\ claim'[p] = claim[p]
    BY <1>2, OthersKept, ClaimFrame DEF Claims, SameTables, SameSlot
  <1>4. ASSUME claim'[r] = claim[r], ClaimOK(r)'
        PROVE  Claims'
    BY <1>1, <1>2, <1>3, <1>4, KeysFrame DEF Claims
  <1>5. CASE Abort(r)
    <2>1. claim'[r] = NoClaim /\ pc'[r] = "idle"
      BY <1>5, Emptied
    <2>2. ClaimOK(r)'
      BY <2>1 DEF ClaimOK
    <2>3. KeysOK'
      BY <1>1, <1>2, <1>3, <2>1 DEF KeysOK, SameTables
    <2> QED
      BY <1>3, <2>2, <2>3 DEF Claims
  <1>6. CASE Begin(r)
    <2>1. claim'[r] = NoClaim
      BY <1>1, <1>6 DEF Begin, PcOK
    <2>2. PICK q \in Request : req'[r] = q /\ pc'[r] = FirstLabel(q)
      BY <1>1, <1>6 DEF Begin, TypeOK
    <2>3. /\ q.op = "create" /\ q.key # NoKey => FirstLabel(q) = "claim"
          /\ q.op \in {"create", "series", "transition", "reschedule", "cancelSeries"}
      BY RequestFields DEF FirstLabel
    <2>4. ClaimOK(r)'
      BY <2>1, <2>2, <2>3 DEF ClaimOK
    <2>5. claim'[r] = claim[r]
      BY <1>6 DEF Begin
    <2> QED
      BY <1>4, <2>4, <2>5
  <1>7. CASE Throw(r) /\ pc[r] \in {"replay", "write", "read"}
    <2>1. claim' = claim /\ req' = req /\ pc'[r] = "rollback"
      BY <1>1, <1>7 DEF Throw, TypeOK
    <2>2. ClaimOK(r)'
      BY <1>1, <1>2, <2>1 DEF ClaimOK, SameTables
    <2> QED
      BY <1>4, <2>1, <2>2
  <1>8. CASE ReadBooking(r) \/ CancelDone(r)
    <2>1. /\ claim' = claim /\ req' = req /\ req[r].op # "create"
      BY <1>1, <1>8 DEF ReadBooking, CancelDone, PcOK, Updates
    <2>2. ClaimOK(r)'
      BY <1>1, <2>1 DEF ClaimOK
    <2> QED
      BY <1>4, <2>1, <2>2
  <1>9. CASE Replay(r)
    <2>1. /\ pc[r] = "replay" /\ pc'[r] = "commit" /\ claim' = claim /\ req' = req
          /\ cur'[r] = keys[req[r].key].booking /\ keys[req[r].key].body = req[r].body
      BY <1>1, <1>9 DEF Replay, TypeOK
    <2>2. claim[r] = NoClaim
      BY <1>1, <2>1 DEF ClaimOK
    <2>3. keys[req[r].key] \in KeyRow
      BY <1>1, <2>1, RequestFields DEF PcOK, TypeOK
    <2>4. keys[req[r].key] = [body |-> req[r].body, booking |-> cur'[r]]
      BY <2>1, <2>3 DEF KeyRow
    <2>5. ClaimOK(r)'
      BY <1>2, <2>1, <2>2, <2>4 DEF ClaimOK, SameTables
    <2> QED
      BY <1>4, <2>1, <2>5
  <1>10. CASE InsertBooking(r)
    <2>1. pc[r] = "write" /\ pc'[r] = "check" /\ claim' = claim /\ req' = req
      BY <1>1, <1>10 DEF InsertBooking, TypeOK
    <2>2. ClaimOK(r)'
      BY <1>1, <1>2, <2>1 DEF ClaimOK, SameTables
    <2> QED
      BY <1>4, <2>1, <2>2
  <1>11. CASE ApplyUpdate(r) \/ CancelOne(r) \/ Undo(r)
    <2>1. claim' = claim /\ req' = req /\ req[r].op # "create"
      BY <1>1, <1>11
      DEF ApplyUpdate, CancelOne, Undo, OccurrenceSkipped, OccurrenceFailed, UndoOccurrence,
          InSavepoint, SkipsConflicts, PcOK, Updates
    <2>2. ClaimOK(r)'
      BY <1>1, <2>1 DEF ClaimOK
    <2> QED
      BY <1>4, <2>1, <2>2
  <1>12. CASE CheckPasses(r)
    <2>1. /\ pc[r] = "check" /\ pc'[r] = AfterCheck(r) /\ req' = req /\ cur' = cur /\ ws' = ws
          /\ cur[r] \in Booking /\ Holds(r, cur[r])
          /\ claim'[r] = IF claim[r] = NoClaim THEN NoClaim
                         ELSE [claim[r] EXCEPT !.booking = cur[r]]
      BY <1>1, <1>12 DEF CheckPasses, TypeOK, PcOK
    <2>2. AfterCheck(r) \in {"write", "commit"}
      BY DEF AfterCheck
    <2>3. CASE claim[r] = NoClaim
      <3>1. ClaimOK(r)'
        BY <1>1, <2>1, <2>2, <2>3 DEF ClaimOK
      <3> QED
        BY <1>4, <2>1, <2>3, <3>1
    <2>4. CASE claim[r] # NoClaim
      <3>1. claim[r] \in [key: Key, body: Body, booking: Booking \cup {NoBooking}]
        BY <1>1, <2>4 DEF TypeOK
      <3>2. /\ claim'[r].key = claim[r].key /\ claim'[r].body = claim[r].body
            /\ claim'[r].booking = cur[r] /\ claim'[r] # NoClaim
        <4>1. claim'[r] = [claim[r] EXCEPT !.booking = cur[r]]
          BY <2>1, <2>4
        <4>2. claim'[r] \in [key: Key, body: Body, booking: Booking \cup {NoBooking}]
          BY <2>1, <3>1, <4>1
        <4> QED
          BY <3>1, <4>1, <4>2, NoValueAssumption
      <3>3. ClaimOK(r)'
        BY <1>1, <1>2, <2>1, <2>2, <2>4, <3>2 DEF ClaimOK, SameTables, Holds
      <3>4. KeysOK'
        BY <1>1, <1>2, <1>3, <2>4, <3>2 DEF KeysOK, SameTables
      <3> QED
        BY <1>3, <3>3, <3>4 DEF Claims
    <2> QED
      BY <2>3, <2>4
  <1>13. CASE ClaimKey(r)
    <2>1. /\ pc[r] = "claim" /\ req' = req /\ claim[r] = NoClaim
          /\ req[r].op = "create" /\ req[r].key \in Key
      BY <1>1, <1>13, RequestFields DEF ClaimKey, ClaimOK, PcOK
    <2>2. CASE keys[req[r].key] # NoClaim
      <3>1. claim' = claim /\ pc'[r] = "replay"
        BY <1>1, <1>13, <2>2 DEF ClaimKey, TypeOK
      <3>2. ClaimOK(r)'
        BY <2>1, <3>1 DEF ClaimOK
      <3> QED
        BY <1>4, <3>1, <3>2
    <2>3. CASE keys[req[r].key] = NoClaim
      <3>1. /\ pc'[r] = "write" /\ ~KeyTakenByOther(r, req[r].key)
            /\ claim'[r] = [key |-> req[r].key, body |-> req[r].body, booking |-> NoBooking]
        BY <1>1, <1>13, <2>3 DEF ClaimKey, TypeOK
      <3>2. claim'[r].key = req[r].key /\ claim'[r].body = req[r].body /\ claim'[r] # NoClaim
        <4>1. req[r].body \in Body
          BY <1>1, <2>1, RequestFields DEF PcOK
        <4> QED
          BY <2>1, <3>1, <4>1, NoValueAssumption
      <3>3. ClaimOK(r)'
        BY <1>2, <2>1, <2>3, <3>1, <3>2 DEF ClaimOK, SameTables
      <3>4. KeysOK'
        BY <1>1, <1>2, <1>3, <3>1, <3>2 DEF KeysOK, SameTables, KeyTakenByOther
      <3> QED
        BY <1>3, <3>3, <3>4 DEF Claims
    <2> QED
      BY <2>2, <2>3
  <1> QED
    BY <1>5, <1>6, <1>7, <1>8, <1>9, <1>10, <1>11, <1>12, <1>13, StepKinds

\* A commit stores the answer under the key it claimed, or answers what is stored.
LEMMA ClaimsCommit ==
    ASSUME Inv, NEW r \in Slot, Commit(r), Claims
    PROVE  Claims'
  <1>1. /\ TypeOK /\ PcOK(r) /\ ClaimOK(r) /\ KeysOK /\ pc[r] = "commit"
        /\ req[r] \in Request
    BY DEF Inv, Claims, Commit, PcOK
  <1>2. \A p \in Slot : p # r => SameSlot(p)
    BY OthersKept DEF SlotStep, Step
  <1>3. claim'[r] = NoClaim /\ pc'[r] = "idle"
    BY Emptied
  <1>4. \A b \in Booking : rows[b] # NoRow \/ Holds(r, b) => rows'[b] # NoRow
    BY DEF Commit, Holds
  <1>5. /\ \A k \in Key : k # req[r].key \/ claim[r] = NoClaim => keys'[k] = keys[k]
        /\ claim[r] # NoClaim => /\ req[r].key \in Key /\ keys[req[r].key] = NoClaim
                                 /\ keys'[req[r].key] = [body |-> req[r].body, booking |-> cur[r]]
    <2>1. claim[r] # NoClaim => claim[r].key \in Key
      BY <1>1 DEF TypeOK
    <2> QED
      BY <1>1, <2>1 DEF Commit, ClaimOK
  <1>6. \A k \in Key : keys[k] # NoClaim => keys'[k] = keys[k]
    BY <1>5
  <1>7. \A p \in Slot : ClaimOK(p)'
    <2> SUFFICES ASSUME NEW p \in Slot
                 PROVE  ClaimOK(p)'
      OBVIOUS
    <2>1. CASE p = r
      BY <1>3, <2>1 DEF ClaimOK
    <2>2. CASE p # r
      <3>1. SameSlot(p) /\ ClaimOK(p)
        BY <1>2, <2>2 DEF Claims
      <3>2. claim[p] # NoClaim => keys'[req[p].key] = NoClaim
        <4>1. claim[p] # NoClaim => req[p].key \in Key /\ keys[req[p].key] = NoClaim
          BY <1>1, <3>1 DEF ClaimOK, TypeOK
        <4>2. claim[p] # NoClaim /\ claim[r] # NoClaim => req[p].key # req[r].key
          BY <1>1, <2>2, <3>1 DEF ClaimOK, KeysOK
        <4> QED
          BY <1>5, <4>1, <4>2
      <3>3. pc[p] = "commit" /\ req[p].op = "create" /\ req[p].key # NoKey /\ claim[p] = NoClaim
              => keys'[req[p].key] = [body |-> req[p].body, booking |-> cur[p]]
        <4> SUFFICES ASSUME pc[p] = "commit", req[p].op = "create", req[p].key # NoKey,
                            claim[p] = NoClaim
                     PROVE  keys'[req[p].key] = [body |-> req[p].body, booking |-> cur[p]]
          OBVIOUS
        <4>1. /\ req[p].key \in Key /\ req[p].body \in Body
              /\ keys[req[p].key] = [body |-> req[p].body, booking |-> cur[p]]
          BY <3>1, RequestFields DEF ClaimOK, Inv, PcOK
        <4>2. keys[req[p].key] # NoClaim
          <5>1. cur[p] \in Booking \cup {NoBooking}
            BY <1>1 DEF TypeOK
          <5> QED
            BY <4>1, <5>1, NoValueAssumption DEF KeyRow
        <4> QED
          BY <1>6, <4>1, <4>2
      <3> QED
        BY <3>1, <3>2, <3>3 DEF ClaimOK, SameSlot, Holds
    <2> QED
      BY <2>1, <2>2
  <1>8. \A p, q \in Slot :
          claim'[p] # NoClaim /\ claim'[q] # NoClaim /\ claim'[p].key = claim'[q].key => p = q
    BY <1>1, <1>2, <1>3 DEF KeysOK, SameSlot
  <1>9. ASSUME NEW k \in Key, keys'[k] # NoClaim
        PROVE  keys'[k].booking \in Booking /\ rows'[keys'[k].booking] # NoRow
    <2>1. CASE keys'[k] = keys[k]
      BY <1>1, <1>4, <1>9, <2>1 DEF KeysOK
    <2>2. CASE keys'[k] # keys[k]
      <3>1. claim[r] # NoClaim /\ keys'[k] = [body |-> req[r].body, booking |-> cur[r]]
        BY <1>5, <2>2
      <3>2. cur[r] \in Booking /\ Holds(r, cur[r])
        BY <1>1, <3>1 DEF ClaimOK
      <3> QED
        BY <1>4, <3>1, <3>2
    <2> QED
      BY <2>1, <2>2
  <1>10. ASSUME NEW x \in answered'
         PROVE  keys'[x.key] = [body |-> x.body, booking |-> x.booking]
    <2>1. CASE x \in answered
      <3>1. /\ x.key \in Key /\ x.body \in Body /\ x.booking \in Booking \cup {NoBooking}
            /\ keys[x.key] = [body |-> x.body, booking |-> x.booking]
        BY <1>1, <2>1 DEF TypeOK, KeysOK
      <3>2. keys[x.key] # NoClaim
        BY <3>1, NoValueAssumption DEF KeyRow
      <3> QED
        BY <1>6, <3>1, <3>2
    <2>2. CASE x \notin answered
      <3>1. /\ req[r].op = "create" /\ req[r].key # NoKey
            /\ x = [key |-> req[r].key, body |-> req[r].body, booking |-> cur[r]]
        BY <1>10, <2>2 DEF Commit
      <3>2. keys'[req[r].key] = [body |-> req[r].body, booking |-> cur[r]]
        <4>1. req[r].key \in Key
          BY <1>1, <3>1, RequestFields
        <4>2. CASE claim[r] = NoClaim
          BY <1>1, <1>5, <3>1, <4>1, <4>2 DEF ClaimOK
        <4> QED
          BY <1>5, <4>2
      <3> QED
        BY <3>1, <3>2
    <2> QED
      BY <2>1, <2>2
  <1> QED
    BY <1>7, <1>8, <1>9, <1>10 DEF Claims, KeysOK

LEMMA ClaimsKeep ==
    ASSUME Inv, Claims
    PROVE  OneBookingPerKey
  <1>1. TypeOK /\ KeysOK /\ \A r \in Slot : PcOK(r)
    BY DEF Inv, Claims
  <1>2. ASSUME NEW x \in answered, NEW y \in answered, x.key = y.key
        PROVE  x = y
    <2>1. /\ x \in [key: Key, body: Body, booking: Booking \cup {NoBooking}]
          /\ y \in [key: Key, body: Body, booking: Booking \cup {NoBooking}]
      BY <1>1 DEF TypeOK
    <2>2. [body |-> x.body, booking |-> x.booking] = [body |-> y.body, booking |-> y.booking]
      BY <1>1, <1>2 DEF KeysOK
    <2>3. x.body = y.body /\ x.booking = y.booking
      BY <2>2
    <2> QED
      BY <1>2, <2>1, <2>3
  <1>3. ASSUME NEW x \in answered
        PROVE  x.booking \in Booking /\ rows[x.booking] # NoRow
    <2>1. /\ x.key \in Key /\ x.body \in Body /\ x.booking \in Booking \cup {NoBooking}
          /\ keys[x.key] = [body |-> x.body, booking |-> x.booking]
      BY <1>1 DEF TypeOK, KeysOK
    <2>2. keys[x.key] # NoClaim /\ keys[x.key].booking = x.booking
      BY <2>1, NoValueAssumption DEF KeyRow
    <2> QED
      BY <1>1, <2>1, <2>2 DEF KeysOK
  <1>4. ASSUME NEW r \in Slot, pc[r] = "replay"
        PROVE  keys[req[r].key] # NoClaim /\ keys[req[r].key].booking # NoBooking
    <2>1. req[r].key \in Key /\ keys[req[r].key] # NoClaim
      BY <1>1, <1>4, RequestFields DEF PcOK
    <2> QED
      BY <1>1, <2>1, NoValueAssumption DEF KeysOK
  <1> QED
    BY <1>2, <1>3, <1>4 DEF OneBookingPerKey

-----------------------------------------------------------------------------
(* Series. *)

Recurrences == \A p \in Slot : SeriesOnce(p) /\ SeriesCount(p)

\* Counting goes on with the occurrence that is inserted.
LEMMA OneMore ==
    ASSUME NEW S, NEW T, NEW x, NEW y, x \notin S, y \notin T,
           IsFiniteSet(S), IsFiniteSet(T), Cardinality(S) = Cardinality(T)
    PROVE  /\ IsFiniteSet(S \cup {x}) /\ IsFiniteSet(T \cup {y})
           /\ Cardinality(S \cup {x}) = Cardinality(T \cup {y})
  BY FS_AddElement

LEMMA SeriesCountStep ==
    ASSUME Inv, NEW r \in Slot, SlotStep(r), ~Commit(r), SeriesCount(r)
    PROVE  SeriesCount(r)'
  <1>1. TypeOK /\ PcOK(r)
    BY DEF Inv
  <1>2. CASE Abort(r)
    BY <1>2, Emptied DEF SeriesCount
  <1>3. CASE Begin(r)
    <2>1. PICK q \in Request :
            req'[r] = q /\ pc'[r] = FirstLabel(q) /\ starts'[r] = OccurrencesOf(q)
      BY <1>1, <1>3 DEF Begin, TypeOK
    <2>2. q.op = "series" => FirstLabel(q) = "write" /\ OccurrencesOf(q) = q.starts
      BY DEF FirstLabel, OccurrencesOf
    <2>3. Written(r)' = {}
      BY <1>1, <1>3 DEF Begin, PcOK, Written, Holds, NothingWritten
    <2>4. \A S : S \ S = {}
      OBVIOUS
    <2>5. IsFiniteSet({})
      BY FS_EmptySet
    <2> QED
      BY <2>1, <2>2, <2>3, <2>4, <2>5 DEF SeriesCount
  <1>4. ASSUME ws'[r] = ws[r], req'[r] = req[r], starts'[r] = starts[r], pc[r] # "idle",
               pc'[r] = "commit" /\ req[r].op = "series" => starts[r] = {}
        PROVE  SeriesCount(r)'
    <2>1. Written(r)' = Written(r)
      BY <1>4 DEF Written, Holds
    <2> QED
      BY <1>4, <2>1 DEF SeriesCount
  <1>5. CASE \/ Throw(r) /\ pc[r] \in {"replay", "write", "read"}
             \/ ClaimKey(r) \/ ReadBooking(r)
    <2>1. /\ ws' = ws /\ req' = req /\ starts' = starts /\ pc[r] # "idle"
          /\ pc'[r] # "commit"
      BY <1>1, <1>5 DEF Throw, ClaimKey, ReadBooking, TypeOK
    <2> QED
      BY <1>4, <2>1
  <1>6. CASE Replay(r) \/ CancelDone(r) \/ ApplyUpdate(r) \/ CancelOne(r)
    <2>1. req' = req /\ req[r].op # "series"
      BY <1>1, <1>6 DEF Replay, CancelDone, ApplyUpdate, CancelOne, PcOK, Updates
    <2> QED
      BY <2>1 DEF SeriesCount
  <1>7. CASE CheckPasses(r)
    <2>1. /\ ws' = ws /\ req' = req /\ starts' = starts /\ pc[r] # "idle"
          /\ pc'[r] = "commit" => starts[r] = {}
      BY <1>1, <1>7 DEF CheckPasses, AfterCheck, TypeOK
    <2> QED
      BY <1>4, <2>1
  <1>8. CASE Undo(r)
    <2>1. /\ req' = req /\ starts' = starts /\ pc[r] = "check" /\ SkipsConflicts(req[r])
          /\ pc'[r] = "commit" => starts[r] = {}
      BY <1>1, <1>8
      DEF Undo, OccurrenceSkipped, OccurrenceFailed, UndoOccurrence, InSavepoint, AfterCheck,
          TypeOK
    <2> QED
      BY <2>1 DEF SeriesCount
  <1>9. CASE InsertBooking(r)
    <2>1. PICK b \in Booking, t \in Time :
            /\ Unused(b) /\ t \in starts[r]
            /\ ws' = [ws EXCEPT ![r][b] =
                        NewRow(StaffOf(req[r]), ServiceOf(req[r]), t, SeriesOf(req[r]))]
            /\ starts' = [starts EXCEPT ![r] = @ \ {t}]
      BY <1>9 DEF InsertBooking, NextStart
    <2>2. req' = req /\ pc[r] = "write" /\ pc'[r] = "check" /\ Inserts(r) /\ req[r] \in Request
      BY <1>1, <1>9 DEF InsertBooking, TypeOK, PcOK
    <2>3. NewRow(StaffOf(req[r]), ServiceOf(req[r]), t, SeriesOf(req[r])) # NoRow
      BY <2>2, InsertedRow, NoRowAssumption DEF Inserts
    <2>4. /\ Holds(r, b)' /\ ~Holds(r, b)
          /\ \A c \in Booking : c # b => (Holds(r, c)' <=> Holds(r, c))
      BY <1>1, <2>1, <2>3 DEF TypeOK, Holds, Unused
    <2>5. Written(r)' = Written(r) \cup {b} /\ b \notin Written(r)
      BY <2>4 DEF Written
    <2>6. starts'[r] = starts[r] \ {t}
      BY <1>1, <2>1 DEF TypeOK
    <2> SUFFICES ASSUME req[r].op = "series"
                 PROVE  SeriesCount(r)'
      BY <2>2 DEF SeriesCount
    <2>7. starts[r] \subseteq req[r].starts
      BY <2>2 DEF SeriesCount
    <2>8. /\ req[r].starts \ starts'[r] = (req[r].starts \ starts[r]) \cup {t}
          /\ t \notin req[r].starts \ starts[r]
      BY <2>1, <2>6, <2>7
    <2>9. ~SkipsConflicts(req[r]) =>
             /\ IsFiniteSet(Written(r)') /\ IsFiniteSet(req[r].starts \ starts'[r])
             /\ Cardinality(Written(r)') = Cardinality(req[r].starts \ starts'[r])
      <3> DEFINE W == Written(r)
                 T == req[r].starts \ starts[r]
      <3>1. ~SkipsConflicts(req[r]) =>
             IsFiniteSet(W) /\ IsFiniteSet(T) /\ Cardinality(W) = Cardinality(T)
        BY <2>2 DEF SeriesCount
      <3>2. W \cup {b} = Written(r)' /\ b \notin W
        BY <2>5
      <3>3. T \cup {t} = req[r].starts \ starts'[r] /\ t \notin T
        BY <2>8
      <3> HIDE DEF W, T
      <3>4. ~SkipsConflicts(req[r]) =>
             /\ IsFiniteSet(W \cup {b}) /\ IsFiniteSet(T \cup {t})
             /\ Cardinality(W \cup {b}) = Cardinality(T \cup {t})
        BY <3>1, <3>2, <3>3, OneMore
      <3> QED
        BY <3>2, <3>3, <3>4, Zenon
    <2> QED
      BY <2>2, <2>6, <2>7, <2>9 DEF SeriesCount
  <1> QED
    BY <1>2, <1>3, <1>5, <1>6, <1>7, <1>8, <1>9, StepKinds

\* No two requests create one series: its id is generated afresh.
LEMMA SeriesOnceStep ==
    ASSUME Inv, NEW r \in Slot, SlotStep(r), ~Commit(r), \A p \in Slot : SeriesOnce(p)
    PROVE  \A p \in Slot : SeriesOnce(p)'
  <1>1. TypeOK /\ \A p \in Slot : PcOK(p)
    BY DEF Inv
  <1>2. recurrences' = recurrences
    BY OnlyCommitPublishes DEF SameTables
  <1>3. \A p \in Slot : p # r => pc'[p] = pc[p] /\ req'[p] = req[p]
    BY OthersKept DEF SameSlot
  <1>4. CASE Begin(r)
    <2>1. PICK q \in Request : MaySend(q) /\ req'[r] = q /\ pc[r] = "idle"
      BY <1>1, <1>4 DEF Begin, TypeOK
    <2>2. \A p \in Slot : pc[p] # "idle" => req[p] # NoRequest
      BY <1>1, NoValueAssumption DEF PcOK
    <2>3. q.op = "series" => /\ recurrences[q.series] = NoRecurrence
                             /\ \A p \in Slot : ~Creates(p, q.series)
      BY <2>1, <2>2 DEF MaySend, Creates
    <2>4. \A p \in Slot : p # r => \A s : Creates(p, s)' <=> Creates(p, s)
      BY <1>3 DEF Creates
    <2>5. \A p \in Slot : p # r => SeriesOnce(p)'
      BY <1>2, <1>3, <2>1, <2>3, <2>4 DEF SeriesOnce, Creates
    <2>6. SeriesOnce(r)'
      BY <1>2, <2>1, <2>3, <2>4 DEF SeriesOnce
    <2> QED
      BY <2>5, <2>6
  <1>5. CASE ~Begin(r)
    <2>1. pc'[r] = "idle" \/ (pc[r] # "idle" /\ req'[r] = req[r])
      <3>1. CASE Abort(r)
        BY <3>1, Emptied
      <3>2. CASE ~Abort(r)
        BY <1>5, <3>2, StepKinds
        DEF Throw, ClaimKey, Replay, ReadBooking, CancelDone, InsertBooking, ApplyUpdate,
            CancelOne, CheckPasses, Undo, OccurrenceSkipped, OccurrenceFailed,
            UndoOccurrence, InSavepoint
      <3> QED
        BY <3>1, <3>2
    <2>2. \A p \in Slot : pc'[p] # "idle" => pc[p] # "idle" /\ req'[p] = req[p]
      BY <1>3, <2>1
    <2> QED
      BY <1>2, <2>2 DEF SeriesOnce, Creates
  <1> QED
    BY <1>4, <1>5

\* A commit creates its series with its bookings and touches no other series.
LEMMA SeriesCommit ==
    ASSUME Inv, NEW r \in Slot, Commit(r), Recurrences, SeriesAllOrNothing
    PROVE  Recurrences' /\ SeriesAllOrNothing'
  <1>1. /\ TypeOK /\ PcOK(r) /\ UpdateOK(r) /\ WriteOK(r) /\ pc[r] = "commit"
        /\ req[r] \in Request /\ SeriesOnce(r) /\ SeriesCount(r)
    BY DEF Inv, Commit, PcOK, Recurrences
  <1>2. \A p \in Slot : p # r => SameSlot(p)
    BY OthersKept DEF SlotStep, Step
  <1>3. pc'[r] = "idle"
    BY Emptied
  <1>4. \A s \in Series : ~Creates(r, s) => recurrences'[s] = recurrences[s]
    BY <1>1 DEF Commit, Creates
  <1>5. Recurrences'
    <2> SUFFICES ASSUME NEW p \in Slot
                 PROVE  SeriesOnce(p)' /\ SeriesCount(p)'
      BY DEF Recurrences
    <2>1. CASE p = r
      BY <1>3, <2>1 DEF SeriesOnce, SeriesCount
    <2>2. CASE p # r
      <3>1. SameSlot(p) /\ SeriesOnce(p) /\ SeriesCount(p) /\ PcOK(p)
        BY <1>2, <2>2 DEF Recurrences, Inv
      <3>2. Written(p)' = Written(p)
        BY <3>1 DEF SameSlot, Written, Holds
      <3>3. SeriesCount(p)'
        BY <3>1, <3>2 DEF SameSlot, SeriesCount
      <3>4. \A q \in Slot, s \in Series : Creates(q, s)' => Creates(q, s)
        BY <1>2, <1>3 DEF SameSlot, Creates
      <3>5. ASSUME pc[p] # "idle", req[p].op = "series"
            PROVE  /\ req[p].series \in Series
                   /\ recurrences'[req[p].series] = NoRecurrence
        <4>1. req[p].series \in Series
          BY <3>1, <3>5, RequestFields DEF PcOK
        <4>2. ~Creates(r, req[p].series)
          BY <2>2, <3>1, <3>5 DEF SeriesOnce
        <4> QED
          BY <1>4, <3>1, <3>5, <4>1, <4>2 DEF SeriesOnce
      <3>6. SeriesOnce(p)'
        BY <3>1, <3>4, <3>5 DEF SameSlot, SeriesOnce
      <3> QED
        BY <3>3, <3>6
    <2> QED
      BY <2>1, <2>2
  <1>6. ASSUME NEW s \in Series
        PROVE  LET members == {b \in Booking : rows'[b] # NoRow /\ rows'[b].series = s} IN
               IF recurrences'[s] = NoRecurrence
               THEN members = {}
               ELSE recurrences'[s].policy = "all_or_nothing" =>
                       Cardinality(members) = Cardinality(recurrences'[s].starts)
    <2> DEFINE M == {b \in Booking : rows[b] # NoRow /\ rows[b].series = s}
               N == {b \in Booking : rows'[b] # NoRow /\ rows'[b].series = s}
    <2>1. IF recurrences[s] = NoRecurrence
          THEN M = {}
          ELSE recurrences[s].policy = "all_or_nothing" =>
                  Cardinality(M) = Cardinality(recurrences[s].starts)
      BY DEF SeriesAllOrNothing
    <2>2. \A b \in Booking : ~Holds(r, b) => rows'[b] = rows[b]
      BY DEF Commit
    <2>3. \A b \in Booking : Holds(r, b) => rows'[b] = ws[r][b] /\ rows'[b] # NoRow
      BY DEF Commit, Holds
    <2>4. ASSUME NEW b \in Booking, Holds(r, b), ~Inserts(r)
          PROVE  rows[b] # NoRow /\ rows'[b].series = rows[b].series
      <3>1. Updates(r) \/ req[r].op = "cancelSeries"
        BY <1>1, <2>4, RequestFields DEF Inserts, Updates
      <3>2. /\ rows[b] # NoRow
            /\ \/ \E to : ws[r][b] = WithStatus(rows[b], to)
               \/ \E t : ws[r][b] = WithStart(rows[b], t)
        BY <1>1, <2>4, <3>1 DEF WriteOK, UpdateOK, Updates, Changed, InFutureSeries, Active
      <3>3. \A to : WithStatus(rows[b], to).series = rows[b].series
        BY DEF WithStatus
      <3>4. \A t : WithStart(rows[b], t).series = rows[b].series
        BY DEF WithStart
      <3> QED
        BY <2>3, <2>4, <3>2, <3>3, <3>4
    <2>5. ASSUME NEW b \in Booking, Holds(r, b), Inserts(r)
          PROVE  rows[b] = NoRow /\ rows'[b].series = SeriesOf(req[r])
      <3>1. /\ rows[b] = NoRow
            /\ \E t \in Time : ws[r][b] = NewRow(StaffOf(req[r]), ServiceOf(req[r]), t,
                                                 SeriesOf(req[r]))
        BY <1>1, <2>5 DEF WriteOK
      <3>2. \A t : NewRow(StaffOf(req[r]), ServiceOf(req[r]), t, SeriesOf(req[r])).series
                     = SeriesOf(req[r])
        BY DEF NewRow
      <3> QED
        BY <2>3, <2>5, <3>1, <3>2
    <2>6. CASE Creates(r, s)
      <3>1. /\ recurrences[s] = NoRecurrence /\ Inserts(r) /\ SeriesOf(req[r]) = s
            /\ recurrences'[s] = [starts |-> req[r].starts, policy |-> req[r].policy]
        BY <1>1, <2>6 DEF Creates, SeriesOnce, Inserts, SeriesOf, Commit
      <3>2. recurrences'[s] # NoRecurrence
        BY <1>1, <2>6, <3>1, RequestFields, NoValueAssumption DEF Creates, Recurrence
      <3>3. N = Written(r)
        <4>1. ASSUME NEW b \in Booking
              PROVE  b \in N <=> Holds(r, b)
          BY <2>1, <2>2, <2>3, <2>5, <3>1
        <4> QED
          BY <4>1 DEF Written
      <3>4. req[r].policy = "all_or_nothing" => Cardinality(N) = Cardinality(req[r].starts)
        <4> SUFFICES ASSUME req[r].policy = "all_or_nothing"
                     PROVE  Cardinality(N) = Cardinality(req[r].starts)
          OBVIOUS
        <4>1. starts[r] = {} /\ Cardinality(Written(r)) = Cardinality(req[r].starts \ starts[r])
          BY <1>1, <2>6 DEF SeriesCount, SkipsConflicts, Creates
        <4>2. req[r].starts \ starts[r] = req[r].starts
          BY <4>1
        <4> QED
          BY <3>3, <4>1, <4>2
      <3> HIDE DEF N
      <3>5. /\ recurrences'[s].starts = req[r].starts /\ recurrences'[s].policy = req[r].policy
        BY <3>1
      <3>6. IF recurrences'[s] = NoRecurrence THEN N = {}
            ELSE recurrences'[s].policy = "all_or_nothing" =>
                    Cardinality(N) = Cardinality(recurrences'[s].starts)
        BY <3>2, <3>4, <3>5
      <3> QED
        BY <3>6 DEF N
    <2>7. CASE ~Creates(r, s)
      <3>1. Inserts(r) => SeriesOf(req[r]) # s
        BY <1>1, <2>7, NoValueAssumption DEF Inserts, SeriesOf, Creates
      <3>2. \A b \in Booking : b \in N <=> b \in M
        BY <2>2, <2>3, <2>4, <2>5, <3>1
      <3>3. N = M
        BY <3>2
      <3>4. recurrences'[s] = recurrences[s]
        BY <1>4, <2>7
      <3> HIDE DEF N, M
      <3>5. IF recurrences'[s] = NoRecurrence THEN N = {}
            ELSE recurrences'[s].policy = "all_or_nothing" =>
                    Cardinality(N) = Cardinality(recurrences'[s].starts)
        BY <2>1, <3>3, <3>4
      <3> QED
        BY <3>5 DEF N
    <2> QED
      BY <2>6, <2>7
  <1> QED
    BY <1>5, <1>6 DEF SeriesAllOrNothing

-----------------------------------------------------------------------------

LEMMA HInvInit == Init => HInv
  <1> SUFFICES ASSUME Init
               PROVE  HInv
    OBVIOUS
  <1> USE DEF Init
  <1>1. OutboxTellsHistory /\ KeysOK
    BY DEF OutboxTellsHistory, KeysOK, NothingWritten
  <1>2. SeriesAllOrNothing
    BY DEF SeriesAllOrNothing, NothingWritten
  <1>3. ASSUME NEW r \in Slot
        PROVE  EventsOK(r) /\ ClaimOK(r) /\ SeriesOnce(r) /\ SeriesCount(r)
    BY EventsIdle DEF ClaimOK, SeriesOnce, SeriesCount
  <1> QED
    BY <1>1, <1>2, <1>3 DEF HInv

LEMMA HInvStutter == ASSUME HInv, UNCHANGED vars PROVE HInv'
  <1>1. OutboxTellsHistory' /\ KeysOK' /\ SeriesAllOrNothing'
    BY DEF HInv, vars, OutboxTellsHistory, KeysOK, SeriesAllOrNothing
  <1>2. ASSUME NEW r \in Slot
        PROVE  EventsOK(r)' /\ ClaimOK(r)' /\ SeriesOnce(r)' /\ SeriesCount(r)'
    <2>1. EventsOK(r)' /\ ClaimOK(r)' /\ SeriesOnce(r)'
      BY DEF HInv, vars, EventsOK, Checked, Holds, Updates, ClaimOK, SeriesOnce, Creates
    <2>2. Written(r)' = Written(r)
      BY DEF vars, Written, Holds
    <2>3. SeriesCount(r)'
      BY <2>2 DEF HInv, vars, SeriesCount
    <2> QED
      BY <2>1, <2>3
  <1> QED
    BY <1>1, <1>2 DEF HInv

LEMMA HInvNext == Inv /\ HInv /\ [Next]_vars => HInv'
  <1> SUFFICES ASSUME Inv, HInv, [Next]_vars
               PROVE  HInv'
    OBVIOUS
  <1>1. ASSUME NEW r \in Slot, SlotStep(r)
        PROVE  HInv'
    <2>1. /\ Claims /\ Recurrences /\ OutboxTellsHistory /\ SeriesAllOrNothing
          /\ \A p \in Slot : EventsOK(p) /\ SeriesOnce(p) /\ SeriesCount(p)
      BY DEF HInv, Claims, Recurrences
    <2>2. \A p \in Slot : EventsOK(p)'
      BY <1>1, <2>1, EventsStep
    <2>3. CASE Commit(r)
      <3>1. OutboxTellsHistory'
        BY <2>1, <2>3, HistoryCommit
      <3>2. Claims'
        BY <2>1, <2>3, ClaimsCommit
      <3>3. Recurrences' /\ SeriesAllOrNothing'
        BY <2>1, <2>3, SeriesCommit
      <3> QED
        BY <2>2, <3>1, <3>2, <3>3 DEF HInv, Claims, Recurrences
    <2>4. CASE ~Commit(r)
      <3>1. SameTables
        BY <1>1, <2>4, OnlyCommitPublishes
      <3>2. OutboxTellsHistory' /\ SeriesAllOrNothing'
        BY <2>1, <3>1 DEF SameTables, OutboxTellsHistory, SeriesAllOrNothing
      <3>3. Claims'
        BY <1>1, <2>1, <2>4, ClaimsStep
      <3>4. \A p \in Slot : SeriesOnce(p)'
        BY <1>1, <2>1, <2>4, SeriesOnceStep
      <3>5. ASSUME NEW p \in Slot
            PROVE  SeriesCount(p)'
        <4>1. CASE p = r
          BY <1>1, <2>1, <2>4, <4>1, SeriesCountStep
        <4>2. CASE p # r
          <5>1. SameSlot(p)
            BY <1>1, <4>2, OthersKept
          <5>2. Written(p)' = Written(p)
            BY <5>1 DEF SameSlot, Written, Holds
          <5> QED
            BY <2>1, <5>1, <5>2 DEF SameSlot, SeriesCount
        <4> QED
          BY <4>1, <4>2
      <3> QED
        BY <2>2, <3>2, <3>3, <3>4, <3>5 DEF HInv, Claims
    <2> QED
      BY <2>3, <2>4
  <1>2. CASE UNCHANGED vars
    BY <1>2, HInvStutter
  <1> QED
    BY <1>1, <1>2 DEF Next, Quiet, SlotStep

\* What a transaction is going to publish beside its rows is right at every step
\* of every request.
THEOREM HistoryInvariance == Spec => [](Inv /\ HInv)
  <1>1. Inv /\ Inv' /\ HInv /\ [Next]_vars => HInv'
    BY HInvNext
  <1> QED
    BY <1>1, HInvInit, Invariance, PTL DEF Spec

\* For any requests, versions and interleaving, the committed events of a booking
\* are one for each of its versions and end with its status (emit inside the
\* transaction of the change), where no disconnect overtakes a handler.
THEOREM HistoryIsTold == Spec => []OutboxTellsHistory
  <1>1. Inv /\ HInv => OutboxTellsHistory
    BY DEF HInv
  <1> QED
    BY <1>1, HistoryInvariance, PTL

\* However many requests carry one Idempotency-Key, fail and are retried, all the
\* answers given under it name one committed booking, and a replay finds the
\* stored answer (IdempotencyService.run and replay).
THEOREM KeyHasOneBooking == Spec => []OneBookingPerKey
  <1>1. Inv /\ HInv => OneBookingPerKey
    BY ClaimsKeep DEF HInv, Claims
  <1> QED
    BY <1>1, HistoryInvariance, PTL

\* A series created all or nothing has as many bookings as it has occurrences,
\* whatever is rescheduled or cancelled later, and a booking never names a series
\* that does not exist (createSeries in the request's transaction).
THEOREM SeriesIsComplete == Spec => []SeriesAllOrNothing
  <1>1. Inv /\ HInv => SeriesAllOrNothing
    BY DEF HInv
  <1> QED
    BY <1>1, HistoryInvariance, PTL
=============================================================================
