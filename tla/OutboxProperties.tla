--------------------------- MODULE OutboxProperties ---------------------------
(***************************************************************************)
(* What the outbox relay and the job workers guarantee.                     *)
(***************************************************************************)
EXTENDS Outbox

\* The email and the webhook of an event are in Redis, or were and have ended.
Queued(q, e) == <<q, e>> \in ended \/ job[q][e] \in {"waiting", "active"}

\* "A crash can never lose or fabricate an event": an event is marked
\* dispatched only if both of its jobs are in their queues or have ended,
\* whatever failed or was retried on the way (dispatch, then markDispatched, in
\* one transaction); and no job exists for an event that was not committed.
NothingLost ==
    \A e \in Event :
        /\ status[e] = "dispatched" => \A q \in Queue : Queued(q, e)
        /\ status[e] = "unrecorded" => \A q \in Queue : ~Queued(q, e)

\* A dispatched or dead event stays so, although other processes claim, fail
\* and commit batches at the same time (FOR UPDATE SKIP LOCKED).
SettledStays ==
    [][\A e \in Event : status[e] \in {"dispatched", "dead"} => status'[e] = status[e]]_vars

\* Only an event whose last allowed dispatch failed is dead, and an event with
\* attempts left is still claimed (markFailed counts on the locked row).
DeadAtTheCap ==
    \A e \in Event : status[e] # "dispatched" =>
        (status[e] = "dead" <=> attempts[e] = OUTBOX_MAX_ATTEMPTS)

\* "no live transaction is aborted mid-flight" (outbox-relay.worker.ts:70): when
\* a shutdown closes the workers and the data source, its relay is in no tick.
StopDrains ==
    \A p \in Process : proc[p] \in {"closing", "down"} => pc[p] = "idle" /\ batch[p] = {}

\* Every committed event is dispatched or given up in the end, through
\* failures, crashes and shutdowns (poll, backoff, cap on attempts).
EventsSettle ==
    \A e \in Event : status[e] = "pending" ~> status[e] \in {"dispatched", "dead"}

\* Every job of a dispatched event is delivered or fails for good.
JobsEnd ==
    \A e \in Event : status[e] = "dispatched" ~> \A q \in Queue : <<q, e>> \in ended

\* "jobId (the outbox event id) makes the at-least-once relay redelivery a
\* no-op" (email.queue.ts:50): no email job is made for an event whose email job
\* has completed.
RedeliveryIsNoOp ==
    [][\A e \in Event : <<"email", e>> \in ended /\ job["email"][e] = "none"
                            => job'["email"][e] = "none"]_vars
=============================================================================
