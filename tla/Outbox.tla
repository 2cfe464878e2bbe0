-------------------------------- MODULE Outbox --------------------------------
(***************************************************************************)
(* The outbox relay and the BullMQ workers, as several worker processes run *)
(* them: poll the committed outbox events, enqueue an email job and a       *)
(* webhook job for each, mark them in the transaction that locked them, and *)
(* deliver the jobs; with enqueue failures, lost connections, crashes and   *)
(* graceful shutdowns in between.                                           *)
(*                                                                         *)
(* Redis and BullMQ are external: an add under a job id that exists is      *)
(* ignored, a completed job is removed (removeOnComplete), a failed one is  *)
(* kept (removeOnFail keeps 100 and 500 of them, more than an instance      *)
(* has), and a job whose worker died is found stalled and run again once.   *)
(***************************************************************************)
EXTENDS Integers, FiniteSets

CONSTANTS
    Event,        \* outbox events; their order is the order of created_at
    Process,      \* worker processes, each with a relay and the two job workers
    OUTBOX_BATCH_SIZE,
    OUTBOX_MAX_ATTEMPTS,
    MaxTries,     \* MaxTries[q]: attempts of a job of queue q
    MaxFaults,    \* bound: crashes, rolled-back batches and shutdowns
    NoProcess

Queue == {"email", "webhook"}

ASSUME EventAssumption == Event \subseteq Nat
ASSUME LimitAssumption == /\ OUTBOX_BATCH_SIZE \in Nat \ {0}
                          /\ OUTBOX_MAX_ATTEMPTS \in Nat \ {0}
                          /\ MaxTries \in [Queue -> Nat \ {0}]
                          /\ MaxFaults \in Nat
ASSUME NoProcessAssumption == NoProcess \notin Process

VARIABLES
    status,     \* status column of outbox_events; "unrecorded": no such row yet
    attempts,   \* attempts column
    due,        \* the events with available_at <= now()
    proc,       \* the life of each worker process
    pc,         \* where its relay's tick is
    batch,      \* events its open transaction has locked
    ok,         \* those it has marked dispatched
    failed,     \* those it has marked failed
    job,        \* the job of each queue and event
    holder,     \* the process that runs an active job
    tries,      \* failed attempts of the job
    stalls,     \* how often the job was found stalled
    ended,      \* history: queues and events a job of which has completed or failed for good
    faults

relay == <<pc, batch, ok, failed>>
jobs == <<job, holder, tries, stalls, ended>>
vars == <<status, attempts, due, proc, pc, batch, ok, failed, job, holder, tries,
          stalls, ended, faults>>

OutboxStatus == {"pending", "dispatched", "dead"}
JobState == {"none", "waiting", "active", "failed"}

TypeOK ==
    /\ status \in [Event -> OutboxStatus \cup {"unrecorded"}]
    /\ attempts \in [Event -> 0..OUTBOX_MAX_ATTEMPTS]
    /\ due \subseteq Event
    /\ proc \in [Process -> {"up", "draining", "closing", "down"}]
    /\ pc \in [Process -> {"idle", "claim", "email", "webhook", "mark", "commit"}]
    /\ batch \in [Process -> SUBSET Event]
    /\ ok \in [Process -> SUBSET Event]
    /\ failed \in [Process -> SUBSET Event]
    /\ job \in [Queue -> [Event -> JobState]]
    /\ holder \in [Queue -> [Event -> Process \cup {NoProcess}]]
    /\ tries \in [Queue -> [Event -> Nat]]
    /\ stalls \in [Queue -> [Event -> Nat]]
    /\ ended \subseteq Queue \X Event
    /\ faults \in Nat

Init ==
    /\ status = [e \in Event |-> "unrecorded"]
    /\ attempts = [e \in Event |-> 0]
    /\ due = Event
    /\ proc = [p \in Process |-> "up"]
    /\ pc = [p \in Process |-> "idle"]
    /\ batch = [p \in Process |-> {}]
    /\ ok = [p \in Process |-> {}]
    /\ failed = [p \in Process |-> {}]
    /\ job = [q \in Queue |-> [e \in Event |-> "none"]]
    /\ holder = [q \in Queue |-> [e \in Event |-> NoProcess]]
    /\ tries = [q \in Queue |-> [e \in Event |-> 0]]
    /\ stalls = [q \in Queue |-> [e \in Event |-> 0]]
    /\ ended = {}
    /\ faults = 0

-----------------------------------------------------------------------------
(* Producers and time.                                                      *)

\* A request's transaction commits the event.  created_at is the time that
\* transaction began, so events need not appear in their order.
Record(e) ==
    /\ status[e] = "unrecorded"
    /\ status' = [status EXCEPT ![e] = "pending"]
    /\ UNCHANGED <<attempts, due, proc, relay, jobs, faults>>

\* The backoff of a failed event has passed.
BackoffEnds(e) ==
    /\ e \notin due
    /\ due' = due \cup {e}
    /\ UNCHANGED <<status, attempts, proc, relay, jobs, faults>>

-----------------------------------------------------------------------------
(* The relay: tick and processBatch.                                        *)

\* Mutant of Claimable: a plain SELECT, with no lock.
ClaimableUnlocked == {e \in Event : status[e] = "pending" /\ e \in due}

\* Mutant of Claimable: events that failed once are not looked at again.
ClaimableFresh == {e \in Event : /\ status[e] = "pending" /\ attempts[e] = 0
                                 /\ \A p \in Process : e \notin batch[p]}

\* Due pending events that no open transaction has locked (SKIP LOCKED).
Claimable == {e \in Event : /\ status[e] = "pending" /\ e \in due
                            /\ \A p \in Process : e \notin batch[p]}

\* The poll timer fires; inFlight and stopped keep a second tick out.
Tick(p) ==
    /\ proc[p] = "up" /\ pc[p] = "idle"
    /\ pc' = [pc EXCEPT ![p] = "claim"]
    /\ UNCHANGED <<status, attempts, due, proc, batch, ok, failed, jobs, faults>>

\* claimBatch locks the oldest claimable events; an empty batch ends the tick.
ClaimBatch(p) ==
    /\ pc[p] = "claim"
    /\ \E B \in SUBSET Claimable :
        /\ \/ B = Claimable /\ Cardinality(B) <= OUTBOX_BATCH_SIZE
           \/ Cardinality(B) = OUTBOX_BATCH_SIZE
        /\ \A e \in B, f \in Claimable \ B : e < f
        /\ batch' = [batch EXCEPT ![p] = B]
        /\ pc' = [pc EXCEPT ![p] = IF B = {} THEN "idle" ELSE "email"]
    /\ UNCHANGED <<status, attempts, due, proc, ok, failed, jobs, faults>>

Todo(p) == batch[p] \ (ok[p] \cup failed[p])

\* The event the loop of processBatch is at.
Current(p, e) == e \in Todo(p) /\ \A f \in Todo(p) : e <= f

\* BullMQ ignores an add under the id of a job it still has.
Add(q, e) ==
    IF job[q][e] = "none"
    THEN /\ job' = [job EXCEPT ![q][e] = "waiting"]
         /\ UNCHANGED <<holder, tries, stalls, ended>>
    ELSE UNCHANGED jobs

EnqueueBookingEmail(p) ==
    /\ pc[p] = "email"
    /\ \E e \in Event : Current(p, e) /\ Add("email", e)
    /\ pc' = [pc EXCEPT ![p] = "webhook"]
    /\ UNCHANGED <<status, attempts, due, proc, batch, ok, failed, faults>>

\* Mutant of EnqueueWebhook: dispatch returns before the second enqueue.
EnqueueWebhookDropped(p) ==
    /\ pc[p] = "webhook"
    /\ pc' = [pc EXCEPT ![p] = "mark"]
    /\ UNCHANGED <<status, attempts, due, proc, batch, ok, failed, jobs, faults>>

EnqueueWebhook(p) ==
    /\ pc[p] = "webhook"
    /\ \E e \in Event : Current(p, e) /\ Add("webhook", e)
    /\ pc' = [pc EXCEPT ![p] = "mark"]
    /\ UNCHANGED <<status, attempts, due, proc, batch, ok, failed, faults>>

AfterEvent(p, e) == IF Todo(p) = {e} THEN "commit" ELSE "email"

MarkDispatched(p) ==
    /\ pc[p] = "mark"
    /\ \E e \in Event :
        /\ Current(p, e)
        /\ ok' = [ok EXCEPT ![p] = @ \cup {e}]
        /\ pc' = [pc EXCEPT ![p] = AfterEvent(p, e)]
    /\ UNCHANGED <<status, attempts, due, proc, batch, failed, jobs, faults>>

\* Mutant of DispatchFails: the error is logged and the event marked dispatched.
DispatchFailsSwallowed(p) ==
    /\ pc[p] \in {"email", "webhook"}
    /\ \E e \in Event :
        /\ Current(p, e)
        /\ ok' = [ok EXCEPT ![p] = @ \cup {e}]
        /\ pc' = [pc EXCEPT ![p] = AfterEvent(p, e)]
    /\ UNCHANGED <<status, attempts, due, proc, batch, failed, jobs, faults>>

\* An enqueue throws, whether or not Redis took the job: markFailed.
DispatchFails(p) ==
    /\ pc[p] \in {"email", "webhook"}
    /\ \E e \in Event :
        /\ Current(p, e)
        /\ Add(pc[p], e) \/ UNCHANGED jobs
        /\ failed' = [failed EXCEPT ![p] = @ \cup {e}]
        /\ pc' = [pc EXCEPT ![p] = AfterEvent(p, e)]
    /\ UNCHANGED <<status, attempts, due, proc, batch, ok, faults>>

\* Mutant of Dies: off by one at the cap.
DiesLate(e) == attempts[e] + 1 > OUTBOX_MAX_ATTEMPTS

\* markFailed: one attempt more, then a backoff, or dead at the cap.
Dies(e) == attempts[e] + 1 >= OUTBOX_MAX_ATTEMPTS

\* The batch commits; the tick goes on while something was dispatched and the
\* relay is not stopped.
CommitBatch(p) ==
    /\ pc[p] = "commit"
    /\ status' = [e \in Event |-> CASE e \in ok[p] -> "dispatched"
                                    [] e \in failed[p] /\ Dies(e) -> "dead"
                                    [] OTHER -> status[e]]
    /\ attempts' = [e \in Event |-> IF e \in failed[p] THEN attempts[e] + 1 ELSE attempts[e]]
    /\ due' = due \ {e \in failed[p] : ~Dies(e)}
    /\ pc' = [pc EXCEPT ![p] = IF ok[p] # {} /\ proc[p] = "up" THEN "claim" ELSE "idle"]
    /\ batch' = [batch EXCEPT ![p] = {}]
    /\ ok' = [ok EXCEPT ![p] = {}]
    /\ failed' = [failed EXCEPT ![p] = {}]
    /\ UNCHANGED <<proc, jobs, faults>>

\* The relay's transaction is gone, with its locks and marks.
Undo(p) ==
    /\ pc' = [pc EXCEPT ![p] = "idle"]
    /\ batch' = [batch EXCEPT ![p] = {}]
    /\ ok' = [ok EXCEPT ![p] = {}]
    /\ failed' = [failed EXCEPT ![p] = {}]

\* A statement or the COMMIT fails, the connection drops, or the session times
\* out while an enqueue hangs: tick logs the error and ends.
BatchRolledBack(p) ==
    /\ pc[p] # "idle" /\ faults < MaxFaults
    /\ Undo(p)
    /\ faults' = faults + 1
    /\ UNCHANGED <<status, attempts, due, proc, jobs>>

-----------------------------------------------------------------------------
(* The email and webhook workers.                                           *)

Take(p, q, e) ==
    /\ proc[p] \in {"up", "draining"}
    /\ job[q][e] = "waiting"
    /\ job' = [job EXCEPT ![q][e] = "active"]
    /\ holder' = [holder EXCEPT ![q][e] = p]
    /\ UNCHANGED <<status, attempts, due, proc, relay, tries, stalls, ended, faults>>

\* The job leaves the worker: for another attempt, or for good with its counters.
Leave(q, e, state) ==
    /\ job' = [job EXCEPT ![q][e] = state]
    /\ holder' = [holder EXCEPT ![q][e] = NoProcess]
    /\ ended' = IF state = "waiting" THEN ended ELSE ended \cup {<<q, e>>}
    /\ UNCHANGED <<status, attempts, due, proc, relay, faults>>

\* The mail or the POST went out, or there is nobody to send it to.
Delivered(p, q, e) ==
    /\ job[q][e] = "active" /\ holder[q][e] = p
    /\ Leave(q, e, "none")
    /\ tries' = [tries EXCEPT ![q][e] = 0]
    /\ stalls' = [stalls EXCEPT ![q][e] = 0]

\* The provider fails or the endpoint answers no 2xx in time: retried, up to
\* the attempts of the job.
DeliveryFails(p, q, e) ==
    LET last == tries[q][e] + 1 >= MaxTries[q] IN
    /\ job[q][e] = "active" /\ holder[q][e] = p
    /\ Leave(q, e, IF last THEN "failed" ELSE "waiting")
    /\ tries' = [tries EXCEPT ![q][e] = IF last THEN 0 ELSE @ + 1]
    /\ stalls' = [stalls EXCEPT ![q][e] = IF last THEN 0 ELSE @]

\* A live worker finds the job of a dead one: it runs again, once.
Stalled(p, q, e) ==
    LET last == stalls[q][e] >= 1 IN
    /\ proc[p] \in {"up", "draining"}
    /\ job[q][e] = "active" /\ holder[q][e] = NoProcess
    /\ Leave(q, e, IF last THEN "failed" ELSE "waiting")
    /\ tries' = [tries EXCEPT ![q][e] = IF last THEN 0 ELSE @]
    /\ stalls' = [stalls EXCEPT ![q][e] = IF last THEN 0 ELSE @ + 1]

Work(p, q, e) == Take(p, q, e) \/ Delivered(p, q, e) \/ DeliveryFails(p, q, e) \/ Stalled(p, q, e)

-----------------------------------------------------------------------------
(* The life of a worker process.                                            *)

Start(p) ==
    /\ proc[p] = "down"
    /\ proc' = [proc EXCEPT ![p] = "up"]
    /\ UNCHANGED <<status, attempts, due, relay, jobs, faults>>

\* SIGINT or SIGTERM: stopRelay sets stopped, and waits for the running tick.
Shutdown(p) ==
    /\ proc[p] = "up" /\ faults < MaxFaults
    /\ proc' = [proc EXCEPT ![p] = "draining"]
    /\ faults' = faults + 1
    /\ UNCHANGED <<status, attempts, due, relay, jobs>>

\* Mutant of RelayStopped: stop does not wait for the tick in flight.
RelayStoppedAtOnce(p) ==
    /\ proc[p] = "draining"
    /\ proc' = [proc EXCEPT ![p] = "closing"]
    /\ UNCHANGED <<status, attempts, due, relay, jobs, faults>>

RelayStopped(p) ==
    /\ proc[p] = "draining" /\ pc[p] = "idle"
    /\ proc' = [proc EXCEPT ![p] = "closing"]
    /\ UNCHANGED <<status, attempts, due, relay, jobs, faults>>

\* The workers have finished their active jobs; the data source is destroyed.
WorkersClosed(p) ==
    /\ proc[p] = "closing"
    /\ \A q \in Queue, e \in Event : holder[q][e] # p
    /\ proc' = [proc EXCEPT ![p] = "down"]
    /\ UNCHANGED <<status, attempts, due, relay, jobs, faults>>

Crash(p) ==
    /\ proc[p] # "down" /\ faults < MaxFaults
    /\ proc' = [proc EXCEPT ![p] = "down"]
    /\ Undo(p)
    /\ holder' = [q \in Queue |-> [e \in Event |->
                    IF holder[q][e] = p THEN NoProcess ELSE holder[q][e]]]
    /\ faults' = faults + 1
    /\ UNCHANGED <<status, attempts, due, job, tries, stalls, ended>>

-----------------------------------------------------------------------------

RelayStep(p) ==
    \/ ClaimBatch(p) \/ EnqueueBookingEmail(p) \/ EnqueueWebhook(p)
    \/ MarkDispatched(p) \/ DispatchFails(p) \/ CommitBatch(p)

Next ==
    \/ \E e \in Event : Record(e) \/ BackoffEnds(e)
    \/ \E p \in Process :
        \/ Tick(p) \/ RelayStep(p) \/ BatchRolledBack(p)
        \/ Start(p) \/ Shutdown(p) \/ RelayStopped(p) \/ WorkersClosed(p) \/ Crash(p)
        \/ \E q \in Queue, e \in Event : Work(p, q, e)

Spec == Init /\ [][Next]_vars

\* What a live process goes on to do, and the restart of a dead one.
ProcessStep(p) == Tick(p) \/ RelayStep(p) \/ RelayStopped(p) \/ WorkersClosed(p) \/ Start(p)

\* Timers fire, running code and the workers go on, and operators restart a
\* process that is down; nothing else is promised.
FairSpec ==
    /\ Spec
    /\ \A e \in Event : WF_vars(BackoffEnds(e))
    /\ \A p \in Process : WF_vars(ProcessStep(p))
    /\ \A q \in Queue, e \in Event : WF_vars(\E p \in Process : Work(p, q, e))
=============================================================================
