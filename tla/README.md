# A TLA+ model of the booking platform API

The repository is a multi-tenant booking API (Express, TypeORM, PostgreSQL,
BullMQ on Redis). This directory models the parts whose correctness depends on
how requests, transactions, background jobs and failures interleave, checks them
with TLC on small instances, and proves the most important facts with TLAPS for
every instance. Paths below are relative to the repository root.

## 1. The system and its components

| component | state it keeps | operations | interacts with |
|---|---|---|---|
| Booking (`src/modules/booking`) | `bookings` rows: staff, range, status, version | create, confirm/complete/cancel/no-show, reschedule, bulk cancel | runs in a tenant transaction; idempotency keys; outbox |
| Idempotency (`src/modules/idempotency`) | `idempotency_keys`: key, body hash, response | claim, complete, replay | wraps booking create, in its transaction |
| Recurrence (`src/modules/recurrence`) | `recurrences`; bookings with a `recurrence_id` | create a series (two conflict policies), cancel a series | inserts and cancels bookings; savepoints |
| Tenant transaction (`src/common/middlewares`, `interceptors`, `tenant`, `src/index.ts`) | one connection and one transaction per request, `tenantTxSettled`; the pool | begin, commit before the response, roll back on finish/close, shut down | every tenant-scoped component; the connection pool; the authorization checker |
| Outbox relay and workers (`src/modules/outbox`, `src/jobs`, `src/worker.ts`) | `outbox_events`: status, attempts, available_at; BullMQ jobs | record, claim a batch, dispatch, mark; deliver mail and webhooks; drain and stop | booking transactions write it; Redis; mail and webhook receivers |
| Refresh tokens and sessions (`src/modules/refresh-token`, `auth`) | `refresh_tokens`: family, used, revoked | login, refresh (rotate), reuse detection, logout | autocommit statements, no tenant transaction |
| Billing (`src/modules/subscription`, `payment`, `plan`) | `subscriptions`, `webhook_receipts` | subscribe, consume a provider webhook, staff limit | staff creation |
| Staff and schedule (`src/modules/staff`, `working-hours`, `time-off`, `staff-service`) | staff, weekly hours (EXCLUDE), time off | create, remove, assign | billing limit; availability |
| Availability (`src/modules/availability`) | none | compute free slots of a day | reads hours, time off, bookings |
| Accounts, invite, membership, tenant, admin (`src/modules/auth`, `user`, `invite`, ...) | users, invites, memberships, tenants, append-only audit log | register, password and Google sign-in, invite/accept, onboard, suspend/reactivate, audited view | begins sessions; the tenant middleware reads the tenant's status |
| Webhook endpoints (`src/modules/webhook`) | one active endpoint per tenant | create, remove, deliver | webhook worker |
| Customer, service catalogue, reporting, monitoring, config, seeds | tables without cross-row rules, or nothing | CRUD and reads | |

What is hard here: READ COMMITTED transactions that read, decide and then write;
constraints and unique indexes that make one transaction wait for another;
at-least-once delivery across a database and a queue; processes that die between
two steps; clients that retry; counters and limits checked before an insert.
`PROJECT.json` lists these hazards line by line.

## 2. Modules

| module | what it is |
|---|---|
| `BookingDomain` | statuses, lifecycle table, the row, the overlap test; no state |
| `Calendar` | abstract specification: what readers of `bookings` may rely on |
| `BookingService` | the detailed one: concurrent requests as SQL statements |
| `BookingProperties` | its invariants, the refinement of `Calendar` (`INSTANCE ... WITH`), liveness, and the claim it refutes |
| `BookingInvariant` | the inductive invariants, in named parts: `Inv` of the rows, `HInv` of what a commit publishes beside them |
| `BookingProofs` | theorems about the rows, the refinement |
| `BookingHistoryProofs` | theorems about the outbox, the keys and the series |
| `MCBooking` | instances for TLC |
| `Outbox`, `OutboxProperties`, `OutboxProofs`, `MCOutbox` | the relay, the job queues and the worker processes |
| `Session`, `SessionProperties`, `SessionProofs`, `MCSession` | refresh tokens, rotation, replay, logout, membership |
| `Billing`, `BillingProperties`, `BillingProofs`, `MCBilling` | subscriptions, payment webhooks, the staff limit |
| `TenantTx`, `TenantTxProperties`, `TenantTxProofs`, `MCTenantTx` | the transaction of a request, the connection pool, disconnects, shutdown |
| `LocalTime` | instants and wall clocks of a zone whose clock changes; no state |
| `RecurrenceExpander` | the expansion of a recurrence rule; no state |
| `Schedule`, `ScheduleProperties`, `ScheduleProofs`, `MCSchedule` | staff, weekly hours, time off, and the availability query that reads them |
| `Tenancy`, `TenancyProperties`, `TenancyInvariant`, `TenancyProofs`, `MCTenancy` | accounts, tenants, memberships, invites, administration, webhook endpoints |

`Outbox` takes up where `BookingService` leaves off: the events a committed booking
transaction leaves in the outbox are the events `Outbox` records. `TenantTx` is the
carrier of the transactions of `BookingService`, `Billing` and `Schedule`: they take
from it that a transaction commits before its success is answered, or not at all.
`Schedule` has the bookings as one-statement changes that `BookingService` has in
detail, and contains the expander whose result `BookingService` takes as input.
`Tenancy` ends where `Session` begins, at the first token of a session.

### BookingService

A slot `r` serves one request at a time. `pc[r]` says which statement its handler
is about to run; `ws[r]`, `ev[r]`, `claim[r]` are the row versions, events and key
its transaction wrote. `rows`, `outbox`, `keys`, `recurrences` are the committed
tables. An uncommitted version of a row is the row lock (`Holds`).

PostgreSQL is external code and is modelled from what the repository relies on:
an `INSERT` or `UPDATE` puts the new row version in the index (`InsertBooking`,
`ApplyUpdate`) and then searches it (`CheckPasses`, `SlotTaken`,
`OccurrenceSkipped`); a conflict with a version whose fate is open makes it wait
(`SoftConflict`). `UPDATE ... WHERE version = v` waits for the row lock and matches
again on what is committed by then. `INSERT ... ON CONFLICT DO NOTHING` waits for an
open transaction with the same key. A wait ends with the other transaction or with
`statement_timeout` / deadlock detection (`StatementCancelled`,
`OccurrenceFailed`). An error outside a savepoint aborts the transaction and frees
its locks at once; an exception of the handler leaves it open until the response's
finish handler rolls it back (`Throw`, `Rollback`). A response that is closed while its
handler still runs is left to `TenantTx`: the statements after such a rollback are what
`tenant_disconnect` is about, and `OutboxTellsHistory` speaks of handlers that run to their
end.

One tenant is modelled: every key, unique index and constraint starts with
`tenant_id`, and row-level security confines a transaction to its tenant. The
customer, prices and read-only endpoints are left out because no guard depends on
them. `MaySend` says what a client can know: ids of committed bookings and, unless
`AnyVersion`, versions it has been shown.

### Outbox

A worker process `p` runs one relay and the two job workers. `pc[p]` is the position
of its tick: claim a batch, enqueue the email job, enqueue the webhook job, mark,
commit. `batch[p]` is what its transaction has locked, `ok[p]` and `failed[p]` what it
has marked and not committed. `due` stands for `available_at <= now()`. BullMQ is
external: `Add` ignores an id it still has, `Delivered` removes the job
(`removeOnComplete`), `Stalled` gives a dead worker's job back once. `Crash` ends a
process at any point; `Shutdown`, `RelayStopped`, `WorkersClosed` are the three stages
of `worker.ts`. A live worker whose job lock expires (a blocked event loop) is left out.

### Session

One user and one tenant. Every statement commits by itself, so each is an action:
`Refresh` finds the token, `Consume` is the conditional `UPDATE`, `Resolve` re-reads
the membership, `Issue` inserts the successor, `RevokeFamily` burns. A family is named
by its first token. An expired token is one whose refresh is never sent. No endpoint
changes or removes a membership; `ChangeMembership` is external, because the code and
its comments provide for it. `parent`, `held`, `quiet` are history variables that no
guard reads.

### Billing

A slot `r` runs one transaction: a payment webhook (`Deliver`, `ClaimEvent`,
`ReadSubscription`, `UpdateStatus`, `Commit`), a subscribe (`Subscribe`,
`InsertSubscription`, `Commit`) or a staff creation (`CreateStaff`, `WithinLimit`,
`InsertStaff`, `Commit`). Its writes live in `ev`, `sub`, `to`, `choice`, `person` until
`Commit`. Waiting for an open insert of the same unique key, or for a row lock, is a
guard (`ClaimedByOther`, `OtherPending`, `Locked`). An event about a reference that has
no subscription cannot occur: the reference leaves the system in the response, after
the commit. Subscriptions are numbered by their inserts, while `findActive` orders by
`created_at`, the start of the inserting transaction; the two differ only where a
cancellation comes between the inserts of two overlapping subscribes, and no property
depends on it. Cancellation has no endpoint; `Cancel` is external and is bounded with the
failures by `MaxFaults`. `alone` is a history variable.

### TenantTx

A request `r` walks through the middleware (`Connect`, `Begin`, `Admit` or `TurnAway`),
the authorization checker, which borrows a second connection (`AskUser`, `Authorize`),
its handler (`Issue`, `Throw`) and the interceptor (`Intercept`, `Commit`,
`CommitFails`). `Script` is what the handler writes. Finish and close of the response
call `Rollback`, which does nothing once `settled`. node-postgres is external and is
what makes the module worth having: a connection runs its statements in the order they
were asked for (`queue`), so the ROLLBACK of a disconnect runs after the statement that
is under way and before the statements the handler issues next. Those run outside the
transaction: row-level security refuses rows of tenant tables (`RunFails`), but
`outbox_events` has no policy (`RunAlone`). `IdleTimeout` is
`idle_in_transaction_session_timeout`; `Shutdown`, `DestroyPool`, `Exit` are the stages
of `index.ts`. A request runs once, so that "its rows" is well defined.

### LocalTime, RecurrenceExpander, Schedule

`LocalTime` is luxon (external) as the code uses it: a zone is an offset that changes
twice, a local time that the clock skips is moved forward, one that it repeats is
resolved by the offset tried first (`FixOffset`). `RecurrenceExpander` has one round of
each loop of the expander as an operator on its local variables; `Schedule` runs the
rounds. `Schedule` keeps the tables in `db`; a change that is one statement is one action,
the creation of weekly hours is `CheckHours`, `InsertHours`, `CommitHours` because two of
them can overlap. The availability query reads table after table (`CapableStaff` or
`CanPerform`, then `FindStaff`, `ReadHours`, `ReadTimeOff`, `ReadBookings` for each member
of staff) while the tables change. `kept` and `seen` are history variables: the rows that
were there throughout the query, and at some time during it. They give the properties
their meaning: an answer computed from successive reads can only promise something about
rows that stayed, and may be blamed only on rows that were there.

### Tenancy

A request `r` is of any kind and walks through its statements by `pc[r]`; `in[r]` is what
it was asked. Registration, sign-in, invites and the audited view commit statement by
statement; onboarding and a change of status are transactions whose writes appear at
their commit action; the endpoint's requests run in the tenant transaction. A row is named
by the request that inserted it. PostgreSQL's unique indexes are guards (a second insert
waits for an open one, then fails); TypeORM's `save`, which reads the row and writes only
a difference, is `SaveStatus` and `UpdateStatus`. `Email` contains spellings and
`toLowerCase` maps them, because accounts compare addresses exactly and invites in lower
case. A Google account is known by its id and comes with any address each time, since
`toIdentity` takes both from the profile and `resolveGoogleUser` returns the account linked
to the id whatever the address is. Expiry of an invite is a refusal that may happen at any
time. `signed`, `displaced` and `overlapped` are history variables: the sessions begun, the
Google accounts whose link was replaced by one to another Google account, and the tenants on
which two changes of status overlapped, counted from their BEGIN, whose time is the
`created_at` of the audit entry.

## 3. Runs

| run | shows | bounds |
|---|---|---|
| `booking_mixed` | no double booking, every commit a legal change of `Calendar` | 3 slots, 3 bookings, 5 requests, clashing and free times |
| `booking_series` | one booking per Idempotency-Key, the "in progress" branch of replay unreachable, every commit with its outbox event, a series under `all_or_nothing` has all its occurrences, no booking names a missing series, a bulk cancellation, and every request ends although requests wait in cycles | 2 slots, 4 bookings, 1 key with two bodies, 3 requests, `FairSpec` |
| `outbox_progress` | nothing lost, the cap on attempts, settled events stay, a shutdown drains, every event is settled, every job ends | 2 processes, 1 event, 2 attempts, 2 tries of an email job and 1 of a webhook, 2 faults, `FairSpec` |
| `session_rotation` | one unconsumed token per family, a rotated token carries only a recent role, a quiet revocation is final | 2 requests, 3 tokens, 1 role |
| `billing` | one subscription in force; an acknowledged event is applied, once; a staff creation no other commit overlaps keeps the limit; every event sent gets its receipt | 2 transactions, 2 subscriptions, 2 events, 2 persons, 1 fault, `FairSpec` |
| `tenant_tx` | no connection returns with an open transaction; a success is durable; rows of a request are committed together or not at all; every request ends although all may wait for a second connection; a shutdown ends | 2 requests, 2 connections, 3 statements, any number of failures, `FairSpec` |
| `schedule` | weekly hours never overlap; what is offered is free on the wall clock, what is free is offered, under concurrent changes and on days the clock changes; a rule has exactly the occurrences the calendar names | 2 members of staff, 2 days, 2 changes, 2 admins, 1476 rules |
| `tenancy` | sign-ins with one address, and sign-ins of one Google account, agree on the account as far as the code can tell; no invite is wasted; the audit log tells a tenant's status; a success leaves what it was for | 3 requests, 2 addresses that differ in case, 2 Google accounts, 2 slugs, 1 fault |

Why the bounds are enough to be of use: two actors give every pairwise race, and the
further request, fault or slot uses what the race left behind; the time grid has a pair
that clashes, a pair that does not, and an overlap that is not equality; four bookings
are all that the three requests of `booking_series` can make; two attempts let a relay
fail an event another one dispatches; three tokens are a login, its successor and either
a second successor or a second family; one role and its absence let the membership go
between two statements (a change between two roles is covered by the theorem); two
subscriptions are an old canceled one and a new one; two requests and two connections
are the smallest pool in which everyone can hold one connection and wait for another;
the days of `schedule` are six units long, one of them skips a unit and one repeats it,
with windows, absences and bookings on both sides of the change and across midnight; in
`tenancy` one failing statement and two racing requests leave a third to meet the result.
Batches of more than one event are covered by the theorems of `OutboxProofs` and not by
TLC. `MaxRequests`, `MaxChanges` and `MaxFaults` end
the behaviours; everything else is finite by itself. Deadlock is checked in every run.

### Disagreements found

| run | what TLC shows | what the repository says |
|---|---|---|
| `booking_unseen_version` | a client that sends the next version moves a booking along no edge of the table | "All allowed status changes live here" (`booking-state-machine.ts:5`) |
| `outbox_redelivery` | an event dispatched again after its email completed gets a second email | "makes the at-least-once relay redelivery a no-op" (`email.queue.ts:50`) |
| `session_logout_race` | a refresh that has consumed its token issues a live successor after the logout | "Revokes the token's whole family" (`refresh-token.service.ts:64`) |
| `tenant_disconnect` | a client disconnects while a row is being inserted; its event is then inserted outside the rolled-back transaction and stays | "atomic with the state change" (`outbox.service.ts:20`) |

The models show more behaviours a reader of the code should know. They have no run of
their own; the properties of the passing runs state how far the promise goes, or the
reachable states of the model contain the case:

- two overlapping creates can each enter the index before either searches it and wait
  for each other; the deadlock victim answers 500 rather than 409 (`BookingService`,
  `StatementCancelled`), although `docs/system-architecture.md:90` says "no race window".
  `RequestsEnd` shows that nothing is stuck;
- two staff creations that overlap can together exceed the plan (`staff.service.ts:27`),
  although `subscription.service.ts:98` says "fail-closed on overage";
  `LoneCreateKeepsLimit` says what holds;
- a `Cancel` between a webhook's `ReadSubscription` and its `UpdateStatus` is overwritten
  with `active` or `past_due`, since `updateStatus` matches the id alone
  (`subscription.service.ts:93`); no endpoint cancels yet;
- after a day that skips the wall-clock time of a recurrence, all later occurrences stay
  late by the gap (`recurrence-expander.ts:78`); `RuleIsKept` excludes them;
- the buffer of a booking that ends just before midnight does not block the first slots of
  the next day, because bookings are fetched for the day and padded afterwards
  (`availability.service.ts:106`); `OffersAreSound` promises buffers only around bookings
  of the day;
- the loser of two registrations of one address, or of a registration and a Google
  sign-in, answers 500: no handler maps the unique violation (`auth.service.ts:48`);
- a Google account whose address has changed keeps its account (`auth.service.ts:67`), so a
  Google sign-in and a password sign-in with the new address begin sessions of two accounts
  when somebody has registered it. `SignInsAgree` says that this is the only way: it excepts
  Google accounts that have come with two verified addresses;
- a Google sign-in links the account of its address even if that is linked to another Google
  account (`user.repository.ts:30` overwrites the link). The other one is then a stranger:
  its next sign-in links it again or, with another address, begins a session of another
  account. `SignInsAgree` excepts these Google accounts (`displaced`);
- addresses are compared exactly by registration and in lower case by invites, so two
  accounts whose addresses differ only in case can accept one invite at the same time, or
  one after the other when the mark of the first failed (`invite.service.ts:68`);
- a reactivation that reads a tenant as active while a suspension of it is open writes no
  row but its audit entry, which may follow that of the suspension: the log ends with a
  reactivation of a suspended tenant (`admin.service.ts:78`). `AuditTells` therefore
  excepts tenants on which two changes overlapped.

## 4. Fairness

Safety runs use `Spec`, without fairness. The liveness runs assume only:

- running code goes on: `WF` on the steps of a request, relay or transaction. A step
  that waits for a lock is disabled, so nothing is promised about it;
- a statement that waits is cancelled in the end (`statement_timeout`,
  `deadlock_timeout`): `WF` on `StatementCancelled \/ OccurrenceFailed`;
- timers fire (the poll, the backoff), BullMQ hands waiting jobs to live workers, and
  a worker process that is down is started again by its supervisor;
- a payment provider repeats an event until it is acknowledged: `SF` on its delivery,
  because the few transaction slots are a bound of the model and may be busy whenever
  it tries. No fairness is given to failures, new requests or new events;
- in `TenantTx`, PostgreSQL terminates sessions that idle in a transaction
  (`data-source.ts:20`), the response to a client that is there finishes, and while the
  process drains, the server cuts the requests that outlive the grace period. `connect`
  gets no more than `WF`: with a steady stream of requests one could starve, and `RequestsEnd`
  shows only that requests do not wait for each other for ever.

## 5. Theorems

Every safety property of the passing runs, invariants and action properties, is also a
theorem, for all values of the constants under the named assumptions of the modules.
Each proof goes through an inductive invariant, since the properties are not inductive:
they speak about committed tables, and what will be committed is in the local state of
running transactions. The invariants were checked with TLC on the instances of section 3
before they were proved.

The assumptions: sets are finite only where a cardinality is taken; the sentinels (`NoRow`,
`NoConn`, ...) are outside the sets they mark; limits and durations are what the
configuration and the DTOs admit. `InputAssumption` of `Schedule` is the validation of the
request bodies (an interval and a count are at least 1, a time of day is inside the day,
weekdays are 0 to 6); `HoursAssumption` says that the first hours do not overlap;
`ZoneAssumption` is a zone with one forward and one backward change of less than a day.

- `BookingProofs`: `Inv` adds to `NoDoubleBooking` that row locks are exclusive, what each
  uncommitted version is, and that a version that passed its constraint check clashes
  with no committed row and no other checked version. `NeverDoubleBooked` and
  `TypeCorrect` follow; `ImplementsCalendar` shows that each step is a `Calendar` step or a
  stutter, given `~AnyVersion` (clients send versions they were shown).
- `BookingHistoryProofs`: `HInv`, on top of `Inv`, in three layers. A transaction has the
  event of each version that passed its check and no other, so a commit appends to the
  outbox what it does to the rows (`HistoryIsTold`). A claim is held by one transaction and
  is that of its request, and a stored answer never changes, so all answers under a key name
  one booking (`KeyHasOneBooking`). A series is created by one request, which under
  `all_or_nothing` has written as many bookings as the occurrences it has got past
  (`SeriesIsComplete`, by counting).
- `OutboxProofs`: locks of different processes are disjoint, marks stay inside the locked
  batch, an event between its enqueues has the jobs made so far, and only pending events
  are locked. From it: `OutboxNothingLost`, `OutboxDeadAtTheCap`, `OutboxStopDrains`,
  `OutboxSettledStays`.
- `SessionProofs`: a family has one unconsumed token or one request rotating it, never
  both; what a request resolved is in the history of the membership. From it:
  `SessionOneUnusedToken`, `SessionAuthorityIsRecent`, `SessionQuietRevocationIsFinal`.
- `BillingProofs`: `BInv` says what a transaction holds at each statement, that an event
  is held by one transaction and not after its receipt, and that one transaction writes
  a subscription while no other subscription is in force. From it:
  `BillingOneSubscription`, `BillingAckedIsApplied`, `BillingOneChangePerEvent`. For
  `BillingLoneCreateKeepsLimit`, `LoneInv` adds that a creation no commit has overlapped has
  counted at least the staff there is, and was let through by the plan still in force.
- `TenantTxProofs`: `TInv` relates the three places a request is known: its position, the
  connection it borrowed, and the queues. A queued statement is the one its handler awaits,
  possibly on a connection already given back; a queued ROLLBACK holds its connection; the
  work of an open transaction is the statements its handler has got past. From it:
  `TenantTxPoolIsClean`, `TenantTxRowsTogether`, `TenantTxOkIsDurable`, for any pool, any
  number of requests and any script.
- `ScheduleProofs`, weekly hours: a window that has passed its insert clashes with no
  committed window of the same member of staff and with no other such window. From it:
  `ScheduleWindowsDisjoint`.
- `ScheduleProofs`, availability: `SInv` says what the query knows at each of its reads (what
  it has read lies between the rows `kept` and the rows `seen`) and that whoever it is done
  with has all their slots. `FixOffset` has a closed form (`Placed`), and all times of one day
  are placed with one offset. From it: `ScheduleOffersAreComplete`, in any zone, and
  `ScheduleOffersAreSound`, in a zone with `MidnightsShown`. The hypothesis came out of a
  failed proof attempt: where the clock skips the end of a day (America/Nuuk since 2024), hours
  that end at a skipped 23:30 end at 0:30 of the next day, whose time off and bookings
  `compute` has not read; with such constants TLC finds a slot offered across an absence.
- `ScheduleProofs`, recurrence: `RuleInv` says that a call of `expandRecurrence` has found the
  days the rule names before the day of its cursor, no other, and is on time as long as no
  day has skipped its time. That the bound of the weekly scan loses no occurrence is a count:
  every active week that is over has contributed one for each weekday (`Scan`), so the limit
  is reached before the bound (`ScanEnough`). From it: `ScheduleRuleIsKept`, for any rule, in
  a zone with `ChangesWithinDays`. With a forward change that moves a time over midnight it
  is false, as TLC shows: the cursor is on the next day and a day is passed over. That the
  backward change stays within a day is used by the proof; no counterexample without it is
  known. The constants of `MCSchedule` satisfy both hypotheses, as do the zones that change
  at 1:00, 2:00 or 3:00.
- `TenancyProofs`, accounts and invites: `AInv` says that addresses, ids and
  linked Google accounts are unique, that a linked account has an address its Google
  account has come with (`Came`), that the account a sign-in has found has the address it was
  asked for or one its Google account has come with, and is linked to that unless the link
  was replaced (`Owned`), and that an acceptance about to mark its invite has its membership.
  Nothing is assumed about which addresses a Google account comes with. Rows are only added
  or changed in columns the rest of a request does not look at (`Kept`), so what a request
  relies on outlives the steps of the others. From it: `TenancySignInsAgree`, `TenancyInviteNotWasted`.
- `TenancyProofs`, tenants, endpoints and audit: `OInv` says of each position what the request
  was asked (`Fits`), which rows its next write refers to (`Refers`) and what it has left
  behind (`Leaves`); open onboardings hold different slugs and an uncommitted endpoint is the
  only live one of its tenant; two changes of one tenant that are under way together are
  marked as overlapping. From it: `TenancyAuditTells`, `TenancyAnswersHold`.
- Type correctness is proved for all seven components.

Only model-checked: the liveness properties (`RequestsEnd`, `EventsSettle`, `JobsEnd`,
`EventsAcknowledged`, `ShutdownEnds`), because the prover has no rules for fairness and
`ENABLED`; and the four refuted claims, which TLC refutes on an instance.

## 6. Not modelled

Row-level security as such (the models of bookings, outbox, sessions, billing and schedule
are one tenant; `TenantTx` has it where it refuses a write outside a transaction); signatures,
token encodings, passwords and URL validation; prices, customers and the service catalogue
(single statements behind unique indexes); reports (read-only aggregates whose result is
computed by the database); metrics, configuration, fixtures, routing and validation of
bodies; the contents of mails, and the welcome and invite mails, which are enqueued outside
the outbox and are best effort.

## 7. Plan

1. The safety half of the liveness results: that a request which waits has someone to wait
   for (`BookingService`, `TenantTx`), as invariants with proofs; the rest stays with TLC.
2. Lemmas that recur in several proof modules (finite sets with one more element, appended
   sequences) gathered in one place.
3. The backward change in `ScheduleRuleIsKept`: a proof without the hypothesis, or a
   counterexample.
