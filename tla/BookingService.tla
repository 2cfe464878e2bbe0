---------------------------- MODULE BookingService ----------------------------
(***************************************************************************)
(* The booking component as the API process runs it: concurrent requests,   *)
(* each inside its own tenant transaction (READ COMMITTED), that create,    *)
(* transition and reschedule bookings, create and cancel recurrences, claim *)
(* and replay idempotency keys and record outbox events.                    *)
(*                                                                         *)
(* A request slot r runs one handler at a time.  What its transaction wrote *)
(* and has not committed is private to it (ws, ev, claim) but not           *)
(* invisible: an uncommitted row version holds a row lock, and the EXCLUDE  *)
(* constraint and the unique index on keys make other transactions wait for *)
(* it.  Steps are SQL statements; statements that only touch private state  *)
(* are merged with the one before them.                                     *)
(*                                                                         *)
(* PostgreSQL (external) runs an INSERT or UPDATE under an EXCLUDE          *)
(* constraint in two steps: the new row version enters the heap and the     *)
(* index, then the index is searched for conflicts.  A conflict with a      *)
(* committed version that nobody is changing raises 23P01; a conflict with  *)
(* a version that an open transaction wrote or is replacing makes the       *)
(* statement wait for that transaction and search again.                    *)
(***************************************************************************)
EXTENDS BookingDomain, Sequences, FiniteSets

CONSTANTS
    Slot,         \* concurrent requests the API process serves
    Key,          \* Idempotency-Key values
    Request,      \* the requests clients send
    CanPerform,   \* staff_services: <<staff, service>> pairs
    Now,          \* the instant cancelSeries compares starts_at with
    AnyVersion,   \* TRUE: clients may send versions they have not been shown
    MaxRequests,  \* bound: requests served in a behaviour
    NoKey, NoRequest, NoEvent, NoBooking, NoClaim, NoRecurrence

ASSUME BoundAssumption == MaxRequests \in Nat
ASSUME NowAssumption == Now \in Int
ASSUME CanPerformAssumption == CanPerform \subseteq Staff \X Service
ASSUME AnyVersionAssumption == AnyVersion \in BOOLEAN

Body == [staff: Staff, service: Service, start: Time]

CreateRequest == [op: {"create"}, body: Body, key: Key \cup {NoKey}]
SeriesRequest == [op: {"series"}, staff: Staff, service: Service,
                  starts: SUBSET Time \ {{}}, policy: {"skip_conflicts", "all_or_nothing"},
                  series: Series]
TransitionRequest == [op: {"transition"}, booking: Booking, version: Nat,
                      to: Status \ {"pending"}]
RescheduleRequest == [op: {"reschedule"}, booking: Booking, version: Nat, start: Time]
CancelSeriesRequest == [op: {"cancelSeries"}, series: Series]

AnyRequest == CreateRequest \cup SeriesRequest \cup TransitionRequest
                \cup RescheduleRequest \cup CancelSeriesRequest

ASSUME RequestAssumption == \A q \in Request : q \in AnyRequest

\* booking.created, booking.rescheduled and booking.<status>
EventType == {"created", "rescheduled"} \cup (Status \ {"pending"})
KeyRow == [body: Body, booking: Booking \cup {NoBooking}]
Recurrence == [starts: SUBSET Time, policy: {"skip_conflicts", "all_or_nothing"}]

ASSUME NoValueAssumption ==
    /\ NoKey \notin Key /\ NoRequest \notin Request
    /\ NoEvent \notin EventType
    /\ NoBooking \notin Booking
    /\ NoSeries \notin Series
    /\ NoClaim \notin [key: Key, body: Body, booking: Booking \cup {NoBooking}]
    /\ NoClaim \notin KeyRow
    /\ NoRecurrence \notin Recurrence

VARIABLES
    rows,         \* committed bookings table
    outbox,       \* committed outbox events of each booking, in commit order
    keys,         \* committed idempotency_keys table
    recurrences,  \* committed recurrences table: the occurrences asked for; the policy is history
    pc,           \* where the handler of each slot is
    req,          \* the request it serves
    ws,           \* row versions its transaction wrote; a written row is locked
    ev,           \* outbox events its transaction wrote
    claim,        \* the idempotency_keys row its transaction inserted
    starts,       \* occurrences still to be inserted
    targets,      \* rows the bulk UPDATE of cancelFutureSeries has still to visit
    cur,          \* the booking last written, or replayed
    answered,     \* history: <<key, body, booking>> of every 201 for a keyed create
    begun         \* requests begun, for the bound MaxRequests

tables == <<rows, outbox, keys, recurrences>>
vars == <<rows, outbox, keys, recurrences, pc, req, ws, ev, claim, starts,
          targets, cur, answered, begun>>

Label == {"idle", "claim", "replay", "read", "write", "check", "cancel",
          "commit", "rollback"}

TypeOK ==
    /\ rows \in [Booking -> Row \cup {NoRow}]
    /\ outbox \in [Booking -> Seq(EventType)]
    /\ keys \in [Key -> KeyRow \cup {NoClaim}]
    /\ recurrences \in [Series -> Recurrence \cup {NoRecurrence}]
    /\ pc \in [Slot -> Label]
    /\ req \in [Slot -> Request \cup {NoRequest}]
    /\ ws \in [Slot -> [Booking -> Row \cup {NoRow}]]
    /\ ev \in [Slot -> [Booking -> EventType \cup {NoEvent}]]
    /\ claim \in [Slot -> [key: Key, body: Body, booking: Booking \cup {NoBooking}]
                            \cup {NoClaim}]
    /\ starts \in [Slot -> SUBSET Time]
    /\ targets \in [Slot -> SUBSET Booking]
    /\ cur \in [Slot -> Booking \cup {NoBooking}]
    /\ answered \subseteq [key: Key, body: Body, booking: Booking \cup {NoBooking}]
    /\ begun \in Nat

NothingWritten == [b \in Booking |-> NoRow]
NoEvents == [b \in Booking |-> NoEvent]

Init ==
    /\ rows = NothingWritten
    /\ outbox = [b \in Booking |-> <<>>]
    /\ keys = [k \in Key |-> NoClaim]
    /\ recurrences = [s \in Series |-> NoRecurrence]
    /\ pc = [r \in Slot |-> "idle"]
    /\ req = [r \in Slot |-> NoRequest]
    /\ ws = [r \in Slot |-> NothingWritten]
    /\ ev = [r \in Slot |-> NoEvents]
    /\ claim = [r \in Slot |-> NoClaim]
    /\ starts = [r \in Slot |-> {}]
    /\ targets = [r \in Slot |-> {}]
    /\ cur = [r \in Slot |-> NoBooking]
    /\ answered = {}
    /\ begun = 0

-----------------------------------------------------------------------------
(* Locks and conflicts.                                                     *)

Holds(r, b) == ws[r][b] # NoRow
LockedByOther(r, b) == \E q \in Slot \ {r} : Holds(q, b)

\* Mutant of HardConflict: the constraint's WHERE clause guards pending rows only.
HardConflictPendingOnly(r, b) ==
    \E c \in Booking \ {b} :
        \/ Clash(ws[r][b], ws[r][c])
        \/ /\ \A q \in Slot : ~Holds(q, c)
           /\ Clash(ws[r][b], rows[c])
           /\ rows[c].status = "pending"

\* The version of row c that r must not clash with is settled: r wrote it
\* itself, or it is committed and no open transaction is replacing it.
HardConflict(r, b) ==
    \E c \in Booking \ {b} :
        \/ Clash(ws[r][b], ws[r][c])
        \/ (\A q \in Slot : ~Holds(q, c)) /\ Clash(ws[r][b], rows[c])

\* Another open transaction wrote a clashing version, or is replacing a
\* committed one: the outcome depends on how it ends.
SoftConflict(r, b) ==
    \E q \in Slot \ {r}, c \in Booking \ {b} :
        /\ Holds(q, c)
        /\ Clash(ws[r][b], ws[q][c]) \/ Clash(ws[r][b], rows[c])

\* Another open transaction has inserted the same key.
KeyTakenByOther(r, k) == \E q \in Slot \ {r} : claim[q] # NoClaim /\ claim[q].key = k

\* Rows that the WHERE clause of cancelFutureSeries selects.
InFutureSeries(row, s) == Active(row) /\ row.series = s /\ row.start > Now

\* Mutant of SkipsConflicts: the conflict policy is ignored.
SkipsAlways(q) == q.op = "series"

SkipsConflicts(q) == q.op = "series" /\ q.policy = "skip_conflicts"

Inserts(r) == req[r].op \in {"create", "series"}
Updates(r) == req[r].op \in {"transition", "reschedule"}

\* The statement of slot r is waiting for another transaction.
Waiting(r) ==
    \/ pc[r] = "claim" /\ KeyTakenByOther(r, req[r].key)
    \/ /\ pc[r] = "write"
       /\ Updates(r)
       /\ rows[req[r].booking].version = req[r].version
       /\ LockedByOther(r, req[r].booking)
    \/ pc[r] = "check" /\ SoftConflict(r, cur[r])
    \/ pc[r] = "cancel" /\ \E b \in targets[r] : LockedByOther(r, b)

-----------------------------------------------------------------------------
(* The tenant transaction of a request.                                     *)

\* Everything the transaction wrote is gone; the slot can serve another request.
Release(r) ==
    /\ pc' = [pc EXCEPT ![r] = "idle"]
    /\ req' = [req EXCEPT ![r] = NoRequest]
    /\ ws' = [ws EXCEPT ![r] = NothingWritten]
    /\ ev' = [ev EXCEPT ![r] = NoEvents]
    /\ claim' = [claim EXCEPT ![r] = NoClaim]
    /\ starts' = [starts EXCEPT ![r] = {}]
    /\ targets' = [targets EXCEPT ![r] = {}]
    /\ cur' = [cur EXCEPT ![r] = NoBooking]
    /\ UNCHANGED begun

\* A database error, or the loss of the connection, ends the transaction at once.
Abort(r) == Release(r) /\ UNCHANGED <<tables, answered>>

\* The handler throws: the response is sent, and the transaction stays open,
\* with its locks, until the response's finish handler rolls it back.
Throw(r) ==
    /\ pc' = [pc EXCEPT ![r] = "rollback"]
    /\ UNCHANGED <<tables, req, ws, ev, claim, starts, targets, cur, answered, begun>>

FirstLabel(q) ==
    CASE q.op = "create" -> IF q.key # NoKey THEN "claim" ELSE "write"
      [] q.op = "series" -> "write"
      [] q.op = "cancelSeries" -> "cancel"
      [] OTHER -> "read"

OccurrencesOf(q) ==
    CASE q.op = "create" -> {q.body.start}
      [] q.op = "series" -> q.starts
      [] OTHER -> {}

\* What a client can know when it sends q: ids of committed bookings, versions
\* it was shown (unless AnyVersion), and a recurrence id is generated afresh.
MaySend(q) ==
    /\ q.op \in {"transition", "reschedule"} =>
        /\ rows[q.booking] # NoRow
        /\ AnyVersion \/ q.version <= rows[q.booking].version
    /\ q.op = "series" =>
        /\ recurrences[q.series] = NoRecurrence
        /\ \A p \in Slot : req[p] # NoRequest /\ req[p].op = "series" => req[p].series # q.series

\* The middleware opens the tenant transaction and the handler starts.  The
\* snapshot of cancelFutureSeries is taken when its UPDATE starts.
Begin(r) ==
    /\ pc[r] = "idle"
    /\ begun < MaxRequests
    /\ \E q \in Request :
        /\ MaySend(q)
        /\ req' = [req EXCEPT ![r] = q]
        /\ pc' = [pc EXCEPT ![r] = FirstLabel(q)]
        /\ starts' = [starts EXCEPT ![r] = OccurrencesOf(q)]
        /\ targets' = [targets EXCEPT ![r] =
                        IF q.op = "cancelSeries"
                        THEN {b \in Booking : InFutureSeries(rows[b], q.series)}
                        ELSE {}]
    /\ begun' = begun + 1
    /\ UNCHANGED <<tables, ws, ev, claim, cur, answered>>

\* TenantTransactionInterceptor: the handler returned, its writes become
\* visible together, and only then is the response sent.
Commit(r) ==
    /\ pc[r] = "commit"
    /\ rows' = [b \in Booking |-> IF Holds(r, b) THEN ws[r][b] ELSE rows[b]]
    /\ outbox' = [b \in Booking |-> IF ev[r][b] # NoEvent
                                    THEN Append(outbox[b], ev[r][b])
                                    ELSE outbox[b]]
    /\ keys' = [k \in Key |-> IF claim[r] # NoClaim /\ claim[r].key = k
                              THEN [body |-> claim[r].body, booking |-> claim[r].booking]
                              ELSE keys[k]]
    /\ recurrences' = [s \in Series |->
                        IF req[r].op = "series" /\ req[r].series = s
                        THEN [starts |-> req[r].starts, policy |-> req[r].policy]
                        ELSE recurrences[s]]
    /\ answered' = IF req[r].op = "create" /\ req[r].key # NoKey
                   THEN answered \cup {[key |-> req[r].key, body |-> req[r].body,
                                        booking |-> cur[r]]}
                   ELSE answered
    /\ Release(r)

\* Mutant of Rollback: the finish handler returns without rolling back.
RollbackSkipped(r) == pc[r] = "rollback" /\ UNCHANGED vars

\* The response is finished and the transaction still open.  A response that is
\* closed while the handler goes on is in TenantTx.
Rollback(r) == pc[r] = "rollback" /\ Abort(r)

\* skipConflicts runs each occurrence between SAVEPOINT and RELEASE.
InSavepoint(r) == pc[r] = "check" /\ SkipsConflicts(req[r])

\* statement_timeout, or being the victim PostgreSQL picks in a wait cycle,
\* cancels a waiting statement; no mapping catches these codes.
StatementCancelled(r) == Waiting(r) /\ ~InSavepoint(r) /\ Abort(r)

\* The process dies, the connection drops, idle_in_transaction_session_timeout
\* fires, or COMMIT itself fails: at any point of the handler.
ConnectionLost(r) == pc[r] # "idle" /\ Abort(r)

-----------------------------------------------------------------------------
(* IdempotencyService.run and replay.                                       *)

\* Mutant of ClaimKey: the key is looked up and inserted with no unique index.
ClaimKeyNoIndex(r) ==
    LET k == req[r].key IN
    /\ pc[r] = "claim"
    /\ IF keys[k] # NoClaim
       THEN pc' = [pc EXCEPT ![r] = "replay"] /\ UNCHANGED claim
       ELSE /\ pc' = [pc EXCEPT ![r] = "write"]
            /\ claim' = [claim EXCEPT ![r] =
                            [key |-> k, body |-> req[r].body, booking |-> NoBooking]]
    /\ UNCHANGED <<tables, req, ws, ev, starts, targets, cur, answered, begun>>

\* INSERT ... ON CONFLICT DO NOTHING on the key: waits for an open transaction
\* that inserted it, and inserts nothing if the key is committed.
ClaimKey(r) ==
    LET k == req[r].key IN
    /\ pc[r] = "claim"
    /\ ~KeyTakenByOther(r, k)
    /\ IF keys[k] # NoClaim
       THEN pc' = [pc EXCEPT ![r] = "replay"] /\ UNCHANGED claim
       ELSE /\ pc' = [pc EXCEPT ![r] = "write"]
            /\ claim' = [claim EXCEPT ![r] =
                            [key |-> k, body |-> req[r].body, booking |-> NoBooking]]
    /\ UNCHANGED <<tables, req, ws, ev, starts, targets, cur, answered, begun>>

\* Same key and body: the stored response is the answer.
Replay(r) ==
    LET stored == keys[req[r].key] IN
    /\ pc[r] = "replay"
    /\ stored.body = req[r].body /\ stored.booking # NoBooking
    /\ cur' = [cur EXCEPT ![r] = stored.booking]
    /\ pc' = [pc EXCEPT ![r] = "commit"]
    /\ UNCHANGED <<tables, req, ws, ev, claim, starts, targets, answered, begun>>

\* 422 IDEMPOTENCY_KEY_REUSED, or 409 if the stored response were missing.
ReplayRefused(r) ==
    LET stored == keys[req[r].key] IN
    /\ pc[r] = "replay"
    /\ stored.body # req[r].body \/ stored.booking = NoBooking
    /\ Throw(r)

-----------------------------------------------------------------------------
(* doCreate, createOccurrence: an INSERT, its constraint check, its event.   *)

\* Occurrences are inserted in the order expandRecurrence lists them.
NextStart(r, t) == t \in starts[r] /\ \A u \in starts[r] : t <= u

StaffOf(q) == IF q.op = "create" THEN q.body.staff ELSE q.staff
ServiceOf(q) == IF q.op = "create" THEN q.body.service ELSE q.service
SeriesOf(q) == IF q.op = "series" THEN q.series ELSE NoSeries

\* uuid_generate_v4: an id that no row, committed or not, has.
Unused(b) == rows[b] = NoRow /\ \A q \in Slot : ~Holds(q, b)

\* The staff member cannot perform the service (400), or a lookup fails (404).
CreateRefused(r) ==
    /\ pc[r] = "write" /\ Inserts(r)
    /\ <<StaffOf(req[r]), ServiceOf(req[r])>> \notin CanPerform
    /\ Throw(r)

\* BookingRepository.create: the row version is written, not yet checked.
InsertBooking(r) ==
    /\ pc[r] = "write" /\ Inserts(r)
    /\ <<StaffOf(req[r]), ServiceOf(req[r])>> \in CanPerform
    /\ \E b \in Booking, t \in Time :
        /\ Unused(b) /\ NextStart(r, t)
        /\ ws' = [ws EXCEPT ![r][b] =
                    NewRow(StaffOf(req[r]), ServiceOf(req[r]), t, SeriesOf(req[r]))]
        /\ cur' = [cur EXCEPT ![r] = b]
        /\ starts' = [starts EXCEPT ![r] = @ \ {t}]
    /\ pc' = [pc EXCEPT ![r] = "check"]
    /\ UNCHANGED <<tables, req, ev, claim, targets, answered, begun>>

EventOf(q) ==
    CASE q.op = "transition" -> q.to
      [] q.op = "reschedule" -> "rescheduled"
      [] OTHER -> "created"

AfterCheck(r) == IF starts[r] # {} THEN "write" ELSE "commit"

\* No conflict: the statement succeeds, the handler records the event, stores
\* the response under a claimed key, and goes on to the next occurrence.
CheckPasses(r) ==
    /\ pc[r] = "check"
    /\ ~HardConflict(r, cur[r]) /\ ~SoftConflict(r, cur[r])
    /\ ev' = [ev EXCEPT ![r][cur[r]] = EventOf(req[r])]
    /\ claim' = [claim EXCEPT ![r] =
                    IF @ = NoClaim THEN NoClaim ELSE [@ EXCEPT !.booking = cur[r]]]
    /\ pc' = [pc EXCEPT ![r] = AfterCheck(r)]
    /\ UNCHANGED <<tables, req, ws, starts, targets, cur, answered, begun>>

\* ROLLBACK TO SAVEPOINT undoes the occurrence being inserted and nothing else.
UndoOccurrence(r, label) ==
    /\ ws' = [ws EXCEPT ![r][cur[r]] = NoRow]
    /\ pc' = [pc EXCEPT ![r] = label]
    /\ UNCHANGED <<tables, req, ev, claim, starts, targets, cur, answered, begun>>

\* 23P01 inside the savepoint: the series goes on without the occurrence.
OccurrenceSkipped(r) ==
    /\ InSavepoint(r)
    /\ HardConflict(r, cur[r])
    /\ UndoOccurrence(r, AfterCheck(r))

\* The occurrence's INSERT is cancelled while it waits: skipConflicts rethrows,
\* and the outer transaction keeps its locks until it is rolled back.
OccurrenceFailed(r) ==
    /\ InSavepoint(r)
    /\ Waiting(r)
    /\ UndoOccurrence(r, "rollback")

\* 23P01 anywhere else: 409 BOOKING_SLOT_TAKEN, the whole transaction is undone.
SlotTaken(r) ==
    /\ pc[r] = "check"
    /\ HardConflict(r, cur[r])
    /\ ~InSavepoint(r)
    /\ Abort(r)

-----------------------------------------------------------------------------
(* transition and reschedule: read, decide, then UPDATE ... WHERE version.   *)

\* assertCanTransition, or "only active bookings can be rescheduled".
Allowed(q, row) ==
    IF q.op = "transition" THEN CanTransition(row.status, q.to) ELSE Active(row)

ReadBooking(r) ==
    /\ pc[r] = "read"
    /\ Allowed(req[r], rows[req[r].booking])
    /\ pc' = [pc EXCEPT ![r] = "write"]
    /\ UNCHANGED <<tables, req, ws, ev, claim, starts, targets, cur, answered, begun>>

\* 422: the booking is in no state for this change.
ChangeRefused(r) ==
    /\ pc[r] = "read"
    /\ ~Allowed(req[r], rows[req[r].booking])
    /\ Throw(r)

Changed(q, row) ==
    IF q.op = "transition" THEN WithStatus(row, q.to) ELSE WithStart(row, q.start)

\* Mutant of ApplyUpdate: the UPDATE has no version in its WHERE clause.
ApplyUpdateUnguarded(r) ==
    LET b == req[r].booking IN
    /\ pc[r] = "write" /\ Updates(r)
    /\ ~LockedByOther(r, b)
    /\ ws' = [ws EXCEPT ![r][b] = Changed(req[r], rows[b])]
    /\ cur' = [cur EXCEPT ![r] = b]
    /\ pc' = [pc EXCEPT ![r] = "check"]
    /\ UNCHANGED <<tables, req, ev, claim, starts, targets, answered, begun>>

\* A row whose committed version matches is locked, waiting for the transaction
\* that holds it, and matched again on what is committed by then, which need
\* not be what was read.
ApplyUpdate(r) ==
    LET b == req[r].booking IN
    /\ pc[r] = "write" /\ Updates(r)
    /\ ~LockedByOther(r, b)
    /\ rows[b].version = req[r].version
    /\ ws' = [ws EXCEPT ![r][b] = Changed(req[r], rows[b])]
    /\ cur' = [cur EXCEPT ![r] = b]
    /\ pc' = [pc EXCEPT ![r] = "check"]
    /\ UNCHANGED <<tables, req, ev, claim, starts, targets, answered, begun>>

\* No row matched: 409 STALE_BOOKING, or 412 under If-Match.
StaleVersion(r) ==
    /\ pc[r] = "write" /\ Updates(r)
    /\ rows[req[r].booking].version # req[r].version
    /\ Throw(r)

-----------------------------------------------------------------------------
(* cancelSeries: one bulk UPDATE that visits the rows of its snapshot.       *)

\* Mutant of CancelOne: the cancelled occurrences emit no event.
CancelOneSilent(r) ==
    /\ pc[r] = "cancel"
    /\ \E b \in targets[r] :
        /\ ~LockedByOther(r, b)
        /\ targets' = [targets EXCEPT ![r] = @ \ {b}]
        /\ ws' = IF InFutureSeries(rows[b], req[r].series)
                 THEN [ws EXCEPT ![r][b] = WithStatus(rows[b], "cancelled")]
                 ELSE ws
    /\ UNCHANGED <<tables, pc, req, ev, claim, starts, cur, answered, begun>>

\* The UPDATE locks the next row, in the order of its scan, and re-evaluates
\* the WHERE clause on the version committed by then; the handler then records
\* a cancelled event for every row that was updated.
CancelOne(r) ==
    /\ pc[r] = "cancel"
    /\ \E b \in targets[r] :
        /\ ~LockedByOther(r, b)
        /\ targets' = [targets EXCEPT ![r] = @ \ {b}]
        /\ IF InFutureSeries(rows[b], req[r].series)
           THEN /\ ws' = [ws EXCEPT ![r][b] = WithStatus(rows[b], "cancelled")]
                /\ ev' = [ev EXCEPT ![r][b] = "cancelled"]
           ELSE UNCHANGED <<ws, ev>>
    /\ UNCHANGED <<tables, pc, req, claim, starts, cur, answered, begun>>

CancelDone(r) ==
    /\ pc[r] = "cancel"
    /\ targets[r] = {}
    /\ pc' = [pc EXCEPT ![r] = "commit"]
    /\ UNCHANGED <<tables, req, ws, ev, claim, starts, targets, cur, answered, begun>>

-----------------------------------------------------------------------------

\* A step of the handler that does not depend on a failure.
Step(r) ==
    \/ Commit(r) \/ Rollback(r)
    \/ ClaimKey(r) \/ Replay(r) \/ ReplayRefused(r)
    \/ CreateRefused(r) \/ InsertBooking(r)
    \/ CheckPasses(r) \/ OccurrenceSkipped(r) \/ SlotTaken(r)
    \/ ReadBooking(r) \/ ChangeRefused(r) \/ ApplyUpdate(r) \/ StaleVersion(r)
    \/ CancelOne(r) \/ CancelDone(r)

\* Every request of the bound has been served.
Served == begun = MaxRequests /\ \A r \in Slot : pc[r] = "idle"
Quiet == Served /\ UNCHANGED vars

Next ==
    \/ \E r \in Slot : \/ Begin(r) \/ Step(r)
                       \/ StatementCancelled(r) \/ OccurrenceFailed(r) \/ ConnectionLost(r)
    \/ Quiet

Spec == Init /\ [][Next]_vars

\* The event loop and the database keep running handlers, and statement_timeout
\* ends a statement that waits for ever; no client is obliged to send anything.
FairSpec ==
    /\ Spec
    /\ \A r \in Slot : /\ WF_vars(Step(r))
                       /\ WF_vars(StatementCancelled(r) \/ OccurrenceFailed(r))
=============================================================================
