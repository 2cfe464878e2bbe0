----------------------------- MODULE OutboxProofs -----------------------------
(***************************************************************************)
(* Proofs about Outbox, for any numbers of events, worker processes, faults *)
(* and attempts.                                                            *)
(***************************************************************************)
EXTENDS OutboxProperties, TLAPS

\* An event is locked by one process at most; a locked event is pending with
\* attempts left, and the marks of a transaction are on its own events.
LocksOK ==
    /\ \A p, r \in Process : p # r => batch[p] \cap batch[r] = {}
    /\ \A p \in Process : \A e \in batch[p] :
        status[e] = "pending" /\ attempts[e] < OUTBOX_MAX_ATTEMPTS
    /\ \A p \in Process : /\ ok[p] \subseteq batch[p] /\ failed[p] \subseteq batch[p]
                          /\ ok[p] \cap failed[p] = {}

\* Outside a batch nothing is locked, and a stopped process is in no tick.
TickOK ==
    \A p \in Process :
        /\ pc[p] \in {"idle", "claim"} => batch[p] = {}
        /\ proc[p] \in {"closing", "down"} => pc[p] = "idle"

\* How far the dispatch of the current event and of the marked ones has come.
DispatchOK ==
    \A p \in Process, e \in Event :
        /\ e \in ok[p] => \A q \in Queue : Queued(q, e)
        /\ pc[p] \in {"webhook", "mark"} /\ Current(p, e) => Queued("email", e)
        /\ pc[p] = "mark" /\ Current(p, e) => Queued("webhook", e)

\* A failed job has ended, so an add that BullMQ ignores loses nothing.
JobsOK == \A q \in Queue, e \in Event : job[q][e] = "failed" => <<q, e>> \in ended

OInv == /\ TypeOK /\ LocksOK /\ TickOK /\ DispatchOK /\ JobsOK
        /\ NothingLost /\ DeadAtTheCap

\* No event is recorded, claimed, queued or marked at the start.
LEMMA OInvInit == Init => OInv
  BY LimitAssumption
  DEF Init, OInv, TypeOK, LocksOK, TickOK, DispatchOK, JobsOK, NothingLost, DeadAtTheCap,
      Queued, Current, Todo, OutboxStatus, JobState, Queue

\* An add leaves the job of the event in its queue, or ended, and takes nothing
\* from any other event (enqueueBookingEmail, enqueueWebhook).
LEMMA AddQueues ==
    ASSUME TypeOK, JobsOK, NEW q \in Queue, NEW e \in Event, Add(q, e)
    PROVE  /\ job' \in [Queue -> [Event -> JobState]]
           /\ UNCHANGED <<holder, tries, stalls, ended>>
           /\ JobsOK'
           /\ Queued(q, e)'
           /\ \A k \in Queue, f \in Event : Queued(k, f) => Queued(k, f)'
           /\ \A k \in Queue, f \in Event : f # e => (Queued(k, f)' => Queued(k, f))
  <1>1. CASE job[q][e] = "none"
    <2>1. /\ job' = [job EXCEPT ![q][e] = "waiting"]
          /\ UNCHANGED <<holder, tries, stalls, ended>>
      BY <1>1 DEF Add
    <2>2. job' \in [Queue -> [Event -> JobState]]
      BY <2>1 DEF TypeOK, JobState
    <2>3. /\ job'[q][e] = "waiting"
          /\ \A k \in Queue, f \in Event : k # q \/ f # e => job'[k][f] = job[k][f]
      BY <2>1 DEF TypeOK
    <2>4. JobsOK'
      BY <2>1, <2>3 DEF JobsOK
    <2>5. \A k \in Queue, f \in Event : Queued(k, f) => Queued(k, f)'
      BY <2>1, <2>3 DEF Queued
    <2>6. \A k \in Queue, f \in Event : f # e => (Queued(k, f)' => Queued(k, f))
      BY <2>1, <2>3 DEF Queued
    <2>7. Queued(q, e)'
      BY <2>3 DEF Queued
    <2>8. QED
      BY <2>1, <2>2, <2>4, <2>5, <2>6, <2>7
  <1>2. CASE job[q][e] # "none"
    <2>1. UNCHANGED <<job, holder, tries, stalls, ended>>
      BY <1>2 DEF Add, jobs
    <2>2. job[q][e] \in {"waiting", "active", "failed"}
      BY <1>2 DEF TypeOK, JobState
    <2>3. Queued(q, e)
      BY <2>2 DEF Queued, JobsOK
    <2>4. QED
      BY <2>1, <2>3 DEF TypeOK, JobsOK, Queued
  <1>3. QED
    BY <1>1, <1>2

\* The loop of processBatch is at one event.
LEMMA OneCurrent ==
    ASSUME TypeOK, NEW p \in Process, NEW e, NEW f, Current(p, e), Current(p, f)
    PROVE  e = f /\ e \in batch[p]
  BY EventAssumption DEF Current, Todo, TypeOK

\* What a step can disturb of the invariant when it changes neither the queues
\* nor the events of any open transaction.
LEMMA ONextFrame ==
    ASSUME OInv, UNCHANGED <<status, attempts, due, batch, ok, failed, job, holder, tries, stalls, ended>>,
           pc' = pc, faults' \in Nat,
           proc' \in [Process -> {"up", "draining", "closing", "down"}],
           \A p \in Process : proc'[p] \in {"closing", "down"} => pc[p] = "idle"
    PROVE  OInv'
  <1>1. TypeOK'
    BY DEF OInv, TypeOK
  <1>2. LocksOK' /\ JobsOK' /\ NothingLost' /\ DeadAtTheCap'
    BY DEF OInv, LocksOK, JobsOK, NothingLost, DeadAtTheCap, Queued
  <1>3. TickOK'
    BY DEF OInv, TickOK
  <1>4. DispatchOK'
    BY DEF OInv, DispatchOK, Queued, Current, Todo
  <1>5. QED
    BY <1>1, <1>2, <1>3, <1>4 DEF OInv

\* A commit of a producer and the end of a backoff touch no locked event.
LEMMA OInvProduce ==
    ASSUME OInv, NEW e \in Event, Record(e) \/ BackoffEnds(e)
    PROVE  OInv'
  <1> USE DEF OInv
  <1>1. UNCHANGED <<attempts, proc, pc, batch, ok, failed, job, holder, tries, stalls, ended, faults>>
    BY DEF Record, BackoffEnds, relay, jobs
  <1>2. \/ status' = status /\ due' = due \cup {e}
        \/ status[e] = "unrecorded" /\ status' = [status EXCEPT ![e] = "pending"] /\ due' = due
    BY DEF Record, BackoffEnds
  <1>3. TypeOK'
    BY <1>1, <1>2 DEF TypeOK, OutboxStatus
  <1>4. LocksOK'
    BY <1>1, <1>2 DEF LocksOK, TypeOK
  <1>5. TickOK' /\ JobsOK'
    BY <1>1 DEF TickOK, JobsOK
  <1>6. DispatchOK'
    BY <1>1 DEF DispatchOK, Queued, Current, Todo
  <1>7. NothingLost'
    BY <1>1, <1>2 DEF NothingLost, Queued, TypeOK
  <1>8. DeadAtTheCap'
    <2>1. \A f \in Event : \/ status'[f] = status[f]
                           \/ status[f] = "unrecorded" /\ status'[f] = "pending"
      BY <1>2 DEF TypeOK
    <2>2. QED
      BY <1>1, <2>1 DEF DeadAtTheCap
  <1>9. QED
    BY <1>3, <1>4, <1>5, <1>6, <1>7, <1>8

\* The timer and the claim: a new batch has only events nobody has locked
\* (SKIP LOCKED), none of them marked.
LEMMA OInvClaim ==
    ASSUME OInv, NEW p \in Process, Tick(p) \/ ClaimBatch(p)
    PROVE  OInv'
  <1> USE DEF OInv
  <1>1. UNCHANGED <<status, attempts, due, proc, ok, failed, job, holder, tries, stalls, ended, faults>>
    BY DEF Tick, ClaimBatch, jobs
  <1>2. PICK B \in SUBSET Claimable, l \in {"idle", "claim", "email"} :
            /\ batch' = [batch EXCEPT ![p] = B] /\ pc' = [pc EXCEPT ![p] = l]
            /\ l # "email" => B = {}
            /\ proc[p] # "up" => pc[p] # "idle"
    <2>1. CASE Tick(p)
      <3>1. batch' = [batch EXCEPT ![p] = {}]
        BY <2>1 DEF Tick, TickOK, TypeOK
      <3>2. QED
        BY <2>1, <3>1 DEF Tick
    <2>2. CASE ClaimBatch(p)
      <3>1. PICK B \in SUBSET Claimable :
              /\ batch' = [batch EXCEPT ![p] = B]
              /\ pc' = [pc EXCEPT ![p] = IF B = {} THEN "idle" ELSE "email"]
        BY <2>2 DEF ClaimBatch
      <3>2. QED
        BY <2>2, <3>1 DEF ClaimBatch
    <2>3. QED
      BY <2>1, <2>2
  <1>3. Claimable \subseteq Event
    BY DEF Claimable
  <1>4. batch[p] = {} /\ ok[p] = {} /\ failed[p] = {}
    BY DEF Tick, ClaimBatch, TickOK, LocksOK
  <1>5. TypeOK'
    BY <1>1, <1>2, <1>3 DEF TypeOK
  <1>6. LocksOK'
    <2>1. \A e \in Claimable : /\ status[e] = "pending" /\ attempts[e] < OUTBOX_MAX_ATTEMPTS
                                /\ \A r \in Process : e \notin batch[r]
      <3> SUFFICES ASSUME NEW e \in Claimable
                   PROVE  /\ status[e] = "pending" /\ attempts[e] < OUTBOX_MAX_ATTEMPTS
                          /\ \A r \in Process : e \notin batch[r]
        OBVIOUS
      <3>1. /\ e \in Event /\ status[e] = "pending"
            /\ \A r \in Process : e \notin batch[r]
        BY DEF Claimable
      <3>2. attempts[e] # OUTBOX_MAX_ATTEMPTS
        BY <3>1 DEF DeadAtTheCap
      <3>3. attempts[e] \in 0..OUTBOX_MAX_ATTEMPTS
        BY <3>1 DEF TypeOK
      <3>4. QED
        BY <3>1, <3>2, <3>3, LimitAssumption
    <2>2. QED
      BY <1>1, <1>2, <1>4, <2>1 DEF LocksOK, TypeOK
  <1>7. TickOK'
    BY <1>1, <1>2 DEF TickOK, TypeOK
  <1>8. DispatchOK'
    BY <1>1, <1>2, <1>4 DEF DispatchOK, Queued, Current, Todo, TypeOK
  <1>9. JobsOK' /\ NothingLost' /\ DeadAtTheCap'
    BY <1>1 DEF JobsOK, NothingLost, DeadAtTheCap, Queued
  <1>10. QED
    BY <1>5, <1>6, <1>7, <1>8, <1>9

\* An enqueue brings the current event one step further (dispatch).
LEMMA OInvEnqueue ==
    ASSUME OInv, NEW p \in Process, EnqueueBookingEmail(p) \/ EnqueueWebhook(p)
    PROVE  OInv'
  <1> USE DEF OInv
  <1>1. UNCHANGED <<status, attempts, due, proc, batch, ok, failed, faults>>
    BY DEF EnqueueBookingEmail, EnqueueWebhook
  <1>2. PICK q \in Queue, l \in {"webhook", "mark"}, e \in Event :
          /\ pc' = [pc EXCEPT ![p] = l] /\ Current(p, e) /\ Add(q, e)
          /\ l = "webhook" => q = "email"
          /\ l = "mark" => q = "webhook" /\ pc[p] = "webhook"
          /\ pc[p] \in {"email", "webhook"}
    <2>1. CASE EnqueueBookingEmail(p)
      BY <2>1 DEF EnqueueBookingEmail, Queue
    <2>2. CASE EnqueueWebhook(p)
      BY <2>2 DEF EnqueueWebhook, Queue
    <2>3. QED
      BY <2>1, <2>2
  <1>3. /\ job' \in [Queue -> [Event -> JobState]]
        /\ UNCHANGED <<holder, tries, stalls, ended>>
        /\ JobsOK'
        /\ Queued(q, e)'
        /\ \A k \in Queue, f \in Event : Queued(k, f) => Queued(k, f)'
        /\ \A k \in Queue, f \in Event : f # e => (Queued(k, f)' => Queued(k, f))
    BY <1>2, AddQueues
  <1>4. e \in batch[p] /\ status[e] = "pending"
    BY <1>2, OneCurrent DEF LocksOK
  <1>5. TypeOK'
    BY <1>1, <1>2, <1>3 DEF TypeOK
  <1>6. LocksOK'
    BY <1>1 DEF LocksOK
  <1>7. TickOK'
    BY <1>1, <1>2, <1>4 DEF TickOK, TypeOK
  <1>8. DispatchOK'
    <2> SUFFICES ASSUME NEW r \in Process, NEW f \in Event
                 PROVE  /\ f \in ok'[r] => \A k \in Queue : Queued(k, f)'
                        /\ pc'[r] \in {"webhook", "mark"} /\ Current(r, f)' => Queued("email", f)'
                        /\ pc'[r] = "mark" /\ Current(r, f)' => Queued("webhook", f)'
      BY DEF DispatchOK
    <2>1. Current(r, f)' <=> Current(r, f)
      BY <1>1 DEF Current, Todo
    <2>2. {"email", "webhook"} = Queue
      BY DEF Queue
    <2>3. f \in ok'[r] => \A k \in Queue : Queued(k, f)'
      BY <1>1, <1>3 DEF DispatchOK
    <2>4. CASE r # p
      BY <1>2, <1>3, <2>1, <2>2, <2>3, <2>4 DEF DispatchOK, TypeOK
    <2>5. CASE r = p
      <3>1. pc'[r] = l
        BY <1>2, <2>5 DEF TypeOK
      <3>2. Current(r, f)' => f = e
        BY <1>2, <2>1, <2>5, OneCurrent
      <3>3. l = "mark" => Queued("email", e)
        BY <1>2 DEF DispatchOK
      <3>4. QED
        BY <1>2, <1>3, <2>2, <2>3, <3>1, <3>2, <3>3
    <2>6. QED
      BY <2>4, <2>5
  <1>9. NothingLost' /\ DeadAtTheCap'
    BY <1>1, <1>3, <1>4 DEF NothingLost, DeadAtTheCap
  <1>10. QED
    BY <1>3, <1>5, <1>6, <1>7, <1>8, <1>9

\* A mark, of success or of failure, is on the current event alone, and of
\* success only when both of its jobs are queued.
LEMMA OInvMark ==
    ASSUME OInv, NEW p \in Process, MarkDispatched(p) \/ DispatchFails(p)
    PROVE  OInv'
  <1> USE DEF OInv
  <1>1. UNCHANGED <<status, attempts, due, proc, batch, faults>>
    BY DEF MarkDispatched, DispatchFails
  <1>2. PICK e \in Event :
          /\ Current(p, e) /\ pc[p] \in {"email", "webhook", "mark"}
          /\ pc' = [pc EXCEPT ![p] = AfterEvent(p, e)]
          /\ \/ /\ pc[p] = "mark" /\ failed' = failed
                /\ ok' = [ok EXCEPT ![p] = ok[p] \cup {e}]
             \/ /\ ok' = ok
                /\ failed' = [failed EXCEPT ![p] = failed[p] \cup {e}]
          /\ UNCHANGED jobs \/ \E q \in Queue : Add(q, e)
    <2>1. CASE MarkDispatched(p)
      BY <2>1 DEF MarkDispatched
    <2>2. CASE DispatchFails(p)
      BY <2>2 DEF DispatchFails, Queue
    <2>3. QED
      BY <2>1, <2>2
  <1>3. /\ job' \in [Queue -> [Event -> JobState]]
        /\ UNCHANGED <<holder, tries, stalls, ended>>
        /\ JobsOK'
        /\ \A k \in Queue, f \in Event : Queued(k, f) => Queued(k, f)'
        /\ \A k \in Queue, f \in Event : f # e => (Queued(k, f)' => Queued(k, f))
    <2>1. CASE UNCHANGED jobs
      BY <2>1 DEF jobs, TypeOK, JobsOK, Queued
    <2>2. CASE \E q \in Queue : Add(q, e)
      BY <2>2, AddQueues
    <2>3. QED
      BY <1>2, <2>1, <2>2
  <1>4. e \in batch[p] /\ status[e] = "pending" /\ e \in Todo(p)
    BY <1>2, OneCurrent DEF LocksOK, Current
  <1>5. AfterEvent(p, e) \in {"email", "commit"}
    BY DEF AfterEvent
  <1>6. TypeOK'
    <2>1. ok' \in [Process -> SUBSET Event] /\ failed' \in [Process -> SUBSET Event]
      <3>1. CASE ok' = ok /\ failed' = [failed EXCEPT ![p] = failed[p] \cup {e}]
        BY <3>1 DEF TypeOK
      <3>2. CASE failed' = failed /\ ok' = [ok EXCEPT ![p] = ok[p] \cup {e}]
        BY <3>2 DEF TypeOK
      <3>3. QED
        BY <1>2, <3>1, <3>2
    <2>2. QED
      BY <1>1, <1>2, <1>3, <1>5, <2>1 DEF TypeOK
  <1>7. LocksOK'
    <2>1. \A r \in Process : /\ ok'[r] \subseteq batch[r] /\ failed'[r] \subseteq batch[r]
                             /\ ok'[r] \cap failed'[r] = {}
      <3>1. \A r \in Process : r # p => ok'[r] = ok[r] /\ failed'[r] = failed[r]
        BY <1>2 DEF TypeOK
      <3>2. \/ ok'[p] = ok[p] \cup {e} /\ failed'[p] = failed[p]
            \/ ok'[p] = ok[p] /\ failed'[p] = failed[p] \cup {e}
        BY <1>2 DEF TypeOK
      <3>3. e \notin ok[p] /\ e \notin failed[p]
        BY <1>4 DEF Todo
      <3>4. QED
        BY <1>4, <3>1, <3>2, <3>3 DEF LocksOK
    <2>2. QED
      BY <1>1, <2>1 DEF LocksOK
  <1>8. TickOK'
    <2>1. /\ pc'[p] \in {"email", "commit"}
          /\ \A r \in Process : r # p => pc'[r] = pc[r]
      BY <1>2, <1>5 DEF TypeOK
    <2>2. proc[p] \notin {"closing", "down"}
      BY <1>2 DEF TickOK
    <2>3. QED
      BY <1>1, <2>1, <2>2 DEF TickOK
  <1>9. DispatchOK'
    <2> SUFFICES ASSUME NEW r \in Process, NEW f \in Event
                 PROVE  /\ f \in ok'[r] => \A k \in Queue : Queued(k, f)'
                        /\ pc'[r] \in {"webhook", "mark"} /\ Current(r, f)' => Queued("email", f)'
                        /\ pc'[r] = "mark" /\ Current(r, f)' => Queued("webhook", f)'
      BY DEF DispatchOK
    <2>1. {"email", "webhook"} = Queue
      BY DEF Queue
    <2>2. CASE r # p
      <3>1. ok'[r] = ok[r] /\ failed'[r] = failed[r] /\ pc'[r] = pc[r]
        BY <1>2, <2>2 DEF TypeOK
      <3>2. Current(r, f)' <=> Current(r, f)
        BY <1>1, <3>1 DEF Current, Todo
      <3>3. QED
        BY <1>3, <2>1, <3>1, <3>2 DEF DispatchOK
    <2>3. CASE r = p
      <3>1. pc'[r] = AfterEvent(p, e) /\ AfterEvent(p, e) \notin {"webhook", "mark"}
        BY <1>2, <1>5, <2>3 DEF TypeOK
      <3>2. pc[p] = "mark" => \A k \in Queue : Queued(k, e)
        BY <1>2 DEF DispatchOK, Queue
      <3>3. f \in ok'[r] => f \in ok[r] \/ (f = e /\ pc[p] = "mark")
        <4>1. ok' = ok \/ (pc[p] = "mark" /\ ok'[p] = ok[p] \cup {e})
          BY <1>2 DEF TypeOK
        <4>2. ok'[r] = ok[r] \/ (pc[p] = "mark" /\ ok'[r] = ok[r] \cup {e})
          BY <2>3, <4>1
        <4>3. QED
          BY <4>2
      <3>4. f \in ok'[r] => \A k \in Queue : Queued(k, f)
        BY <3>2, <3>3 DEF DispatchOK
      <3>5. QED
        BY <1>3, <3>1, <3>4
    <2>4. QED
      BY <2>2, <2>3
  <1>10. NothingLost' /\ DeadAtTheCap'
    BY <1>1, <1>3, <1>4 DEF NothingLost, DeadAtTheCap
  <1>11. QED
    BY <1>3, <1>6, <1>7, <1>8, <1>9, <1>10

\* A commit settles the marked events and gives up the locks; what it settles
\* is locked by nobody else (CommitBatch).
LEMMA OInvCommit ==
    ASSUME OInv, NEW p \in Process, CommitBatch(p)
    PROVE  OInv' /\ \A e \in Event : status[e] \in {"dispatched", "dead"} => status'[e] = status[e]
  <1> USE DEF OInv
  <1>1. /\ UNCHANGED <<proc, job, holder, tries, stalls, ended, faults>>
        /\ batch' = [batch EXCEPT ![p] = {}] /\ ok' = [ok EXCEPT ![p] = {}]
        /\ failed' = [failed EXCEPT ![p] = {}] /\ pc[p] = "commit"
    BY DEF CommitBatch, jobs
  <1>2. PICK l \in {"claim", "idle"} : pc' = [pc EXCEPT ![p] = l]
    BY DEF CommitBatch
  <1>3. \A e \in Event :
            \/ e \in ok[p] /\ status'[e] = "dispatched" /\ attempts'[e] = attempts[e]
            \/ /\ e \in failed[p] /\ attempts'[e] = attempts[e] + 1
               /\ status'[e] = IF Dies(e) THEN "dead" ELSE status[e]
            \/ e \notin batch[p] /\ status'[e] = status[e] /\ attempts'[e] = attempts[e]
            \/ /\ e \in batch[p] /\ e \notin ok[p] /\ e \notin failed[p]
               /\ status'[e] = status[e] /\ attempts'[e] = attempts[e]
    BY DEF CommitBatch, LocksOK
  <1>4. \A e \in Event : e \notin batch[p] => status'[e] = status[e] /\ attempts'[e] = attempts[e]
    BY <1>3 DEF LocksOK
  <1>5. \A e \in batch[p] : /\ e \in Event /\ status[e] = "pending"
                            /\ attempts[e] \in Nat /\ attempts[e] < OUTBOX_MAX_ATTEMPTS
    BY LimitAssumption DEF LocksOK, TypeOK
  <1>6. TypeOK'
    <2>1. \A e \in Event : status'[e] \in OutboxStatus \cup {"unrecorded"}
      BY <1>3 DEF TypeOK, OutboxStatus
    <2>2. \A e \in Event : attempts'[e] \in 0..OUTBOX_MAX_ATTEMPTS
      <3>1. \A e \in failed[p] : e \in batch[p]
        BY DEF LocksOK
      <3>2. \A e \in Event : \/ attempts'[e] = attempts[e]
                             \/ e \in batch[p] /\ attempts'[e] = attempts[e] + 1
        BY <1>3, <3>1
      <3>3. \A e \in Event : attempts[e] \in 0..OUTBOX_MAX_ATTEMPTS
        BY DEF TypeOK
      <3>4. QED
        BY <1>5, <3>2, <3>3, LimitAssumption
    <2>3. DOMAIN status' = Event /\ DOMAIN attempts' = Event /\ due' \subseteq Event
      BY DEF CommitBatch, TypeOK
    <2>4. status' \in [Event -> OutboxStatus \cup {"unrecorded"}]
      BY <2>1, <2>3 DEF CommitBatch
    <2>5. attempts' \in [Event -> 0..OUTBOX_MAX_ATTEMPTS]
      BY <2>2, <2>3 DEF CommitBatch
    <2>6. QED
      BY <1>1, <1>2, <2>3, <2>4, <2>5 DEF TypeOK
  <1>7. LocksOK'
    <2>1. \A r \in Process : /\ r # p => /\ batch'[r] = batch[r] /\ ok'[r] = ok[r]
                                         /\ failed'[r] = failed[r]
                             /\ r = p => batch'[r] = {} /\ ok'[r] = {} /\ failed'[r] = {}
      BY <1>1 DEF TypeOK
    <2>2. \A r \in Process : r # p => \A e \in batch[r] : e \in Event /\ e \notin batch[p]
      BY DEF LocksOK, TypeOK
    <2>3. \A r \in Process : \A e \in batch'[r] :
            status'[e] = "pending" /\ attempts'[e] < OUTBOX_MAX_ATTEMPTS
      BY <1>4, <2>1, <2>2 DEF LocksOK
    <2>4. QED
      BY <2>1, <2>3 DEF LocksOK
  <1>8. TickOK'
    BY <1>1, <1>2 DEF TickOK, TypeOK
  <1>9. DispatchOK'
    <2> SUFFICES ASSUME NEW r \in Process, NEW f \in Event
                 PROVE  /\ f \in ok'[r] => \A k \in Queue : Queued(k, f)
                        /\ pc'[r] \in {"webhook", "mark"} /\ Current(r, f)' => Queued("email", f)
                        /\ pc'[r] = "mark" /\ Current(r, f)' => Queued("webhook", f)
      BY <1>1 DEF DispatchOK, Queued
    <2>1. CASE r = p
      BY <1>1, <1>2, <2>1 DEF TypeOK
    <2>2. CASE r # p
      <3>1. batch'[r] = batch[r] /\ ok'[r] = ok[r] /\ failed'[r] = failed[r] /\ pc'[r] = pc[r]
        BY <1>1, <1>2, <2>2 DEF TypeOK
      <3>2. Current(r, f)' <=> Current(r, f)
        BY <3>1 DEF Current, Todo
      <3>3. QED
        BY <3>1, <3>2 DEF DispatchOK
    <2>3. QED
      BY <2>1, <2>2
  <1>10. JobsOK'
    BY <1>1 DEF JobsOK
  <1>11. NothingLost'
    <2>1. \A e \in Event : /\ status'[e] = "dispatched" => status[e] = "dispatched" \/ e \in ok[p]
                           /\ status'[e] = "unrecorded" => status[e] = "unrecorded"
      BY <1>3
    <2>2. QED
      BY <1>1, <2>1 DEF NothingLost, DispatchOK, Queued
  <1>12. DeadAtTheCap'
    <2> SUFFICES ASSUME NEW e \in Event, status'[e] # "dispatched"
                 PROVE  status'[e] = "dead" <=> attempts'[e] = OUTBOX_MAX_ATTEMPTS
      BY DEF DeadAtTheCap
    <2>1. CASE status'[e] = status[e] /\ attempts'[e] = attempts[e]
      BY <2>1 DEF DeadAtTheCap
    <2>2. CASE /\ e \in failed[p] /\ attempts'[e] = attempts[e] + 1
               /\ status'[e] = IF Dies(e) THEN "dead" ELSE status[e]
      <3>1. e \in batch[p]
        BY <2>2 DEF LocksOK
      <3>2. /\ status[e] = "pending"
            /\ attempts[e] \in Nat /\ attempts[e] < OUTBOX_MAX_ATTEMPTS
        BY <1>5, <3>1
      <3>3. QED
        BY <2>2, <3>2, LimitAssumption DEF Dies
    <2>3. QED
      BY <1>3, <2>1, <2>2
  <1>13. \A e \in Event : status[e] \in {"dispatched", "dead"} => status'[e] = status[e]
    BY <1>4, <1>5
  <1>14. QED
    BY <1>6, <1>7, <1>8, <1>9, <1>10, <1>11, <1>12, <1>13

\* A rolled-back batch, and a crash, free the locks and lose only marks
\* (BatchRolledBack, Crash).
LEMMA OInvUndo ==
    ASSUME OInv, NEW p \in Process, BatchRolledBack(p) \/ Crash(p)
    PROVE  OInv'
  <1> USE DEF OInv
  <1>1. /\ UNCHANGED <<status, attempts, due, job, tries, stalls, ended>>
        /\ batch' = [batch EXCEPT ![p] = {}] /\ ok' = [ok EXCEPT ![p] = {}]
        /\ failed' = [failed EXCEPT ![p] = {}] /\ pc' = [pc EXCEPT ![p] = "idle"]
        /\ proc' = proc \/ proc' = [proc EXCEPT ![p] = "down"]
        /\ faults' = faults + 1
    BY DEF BatchRolledBack, Crash, Undo, jobs
  <1>2. holder' \in [Queue -> [Event -> Process \cup {NoProcess}]]
    <2>1. CASE BatchRolledBack(p)
      BY <2>1 DEF BatchRolledBack, jobs, TypeOK
    <2>2. CASE Crash(p)
      BY <2>2 DEF Crash, TypeOK
    <2>3. QED
      BY <2>1, <2>2
  <1>3. TypeOK'
    <2>1. proc' \in [Process -> {"up", "draining", "closing", "down"}]
      BY <1>1 DEF TypeOK
    <2>2. /\ batch' \in [Process -> SUBSET Event] /\ ok' \in [Process -> SUBSET Event]
          /\ failed' \in [Process -> SUBSET Event]
      BY <1>1 DEF TypeOK
    <2>3. faults' \in Nat
      BY <1>1 DEF TypeOK
    <2>4. QED
      BY <1>1, <1>2, <2>1, <2>2, <2>3 DEF TypeOK
  <1>4. \A r \in Process :
            /\ r = p => batch'[r] = {} /\ ok'[r] = {} /\ failed'[r] = {} /\ pc'[r] = "idle"
            /\ r # p => /\ batch'[r] = batch[r] /\ ok'[r] = ok[r] /\ failed'[r] = failed[r]
                        /\ pc'[r] = pc[r] /\ proc'[r] = proc[r]
    BY <1>1 DEF TypeOK
  <1>5. LocksOK'
    BY <1>1, <1>4 DEF LocksOK
  <1>6. TickOK'
    BY <1>4 DEF TickOK
  <1>7. DispatchOK'
    <2> SUFFICES ASSUME NEW r \in Process, NEW f \in Event
                 PROVE  /\ f \in ok'[r] => \A k \in Queue : Queued(k, f)
                        /\ pc'[r] \in {"webhook", "mark"} /\ Current(r, f)' => Queued("email", f)
                        /\ pc'[r] = "mark" /\ Current(r, f)' => Queued("webhook", f)
      BY <1>1 DEF DispatchOK, Queued
    <2>1. CASE r = p
      <3>1. ok'[r] = {} /\ pc'[r] = "idle"
        BY <1>4, <2>1
      <3>2. QED
        BY <3>1
    <2>2. CASE r # p
      <3>1. Current(r, f)' <=> Current(r, f)
        BY <1>4, <2>2 DEF Current, Todo
      <3>2. QED
        BY <1>4, <2>2, <3>1 DEF DispatchOK
    <2>3. QED
      BY <2>1, <2>2
  <1>8. JobsOK' /\ NothingLost' /\ DeadAtTheCap'
    BY <1>1 DEF JobsOK, NothingLost, DeadAtTheCap, Queued
  <1>9. QED
    BY <1>3, <1>5, <1>6, <1>7, <1>8

\* A job that is taken, delivered, retried or found stalled stays in its queue
\* or has ended, and no job appears for an event that had none.
LEMMA OInvWork ==
    ASSUME OInv, NEW p \in Process, NEW q \in Queue, NEW e \in Event, Work(p, q, e)
    PROVE  OInv'
  <1> USE DEF OInv
  <1>1. UNCHANGED <<status, attempts, due, proc, pc, batch, ok, failed, faults>>
    BY DEF Work, Take, Delivered, DeliveryFails, Stalled, Leave, relay
  <1>2. PICK st \in JobState, h \in Process \cup {NoProcess} :
          /\ job[q][e] \in {"waiting", "active"}
          /\ job' = [job EXCEPT ![q][e] = st]
          /\ holder' = [holder EXCEPT ![q][e] = h]
          /\ \/ st \in {"waiting", "active"} /\ ended' = ended
             \/ ended' = ended \cup {<<q, e>>}
    <2>1. CASE Take(p, q, e)
      BY <2>1 DEF Take, JobState
    <2>2. ASSUME NEW st \in {"none", "waiting", "failed"}, Leave(q, e, st), job[q][e] = "active"
          PROVE  /\ job' = [job EXCEPT ![q][e] = st]
                 /\ holder' = [holder EXCEPT ![q][e] = NoProcess]
                 /\ \/ st \in {"waiting", "active"} /\ ended' = ended
                    \/ ended' = ended \cup {<<q, e>>}
      BY <2>2 DEF Leave
    <2>3. CASE Delivered(p, q, e) \/ DeliveryFails(p, q, e) \/ Stalled(p, q, e)
      <3>1. PICK st \in {"none", "waiting", "failed"} : Leave(q, e, st) /\ job[q][e] = "active"
        BY <2>3 DEF Delivered, DeliveryFails, Stalled
      <3>2. st \in JobState
        BY DEF JobState
      <3>3. QED
        BY <2>2, <3>1, <3>2
    <2>4. QED
      BY <2>1, <2>3 DEF Work
  <1>3. /\ tries' \in [Queue -> [Event -> Nat]] /\ stalls' \in [Queue -> [Event -> Nat]]
    <2>1. CASE Take(p, q, e)
      BY <2>1 DEF Take, TypeOK
    <2>2. CASE ~Take(p, q, e)
      <3>1. tries[q][e] \in Nat /\ stalls[q][e] \in Nat
        BY DEF TypeOK
      <3>2. PICK m, n \in Nat : /\ tries' = [tries EXCEPT ![q][e] = m]
                                /\ stalls' = [stalls EXCEPT ![q][e] = n]
        BY <2>2, <3>1 DEF Work, Delivered, DeliveryFails, Stalled
      <3>3. QED
        BY <3>2 DEF TypeOK
    <2>3. QED
      BY <2>1, <2>2
  <1>4. \A k \in Queue, f \in Event :
            /\ k # q \/ f # e => job'[k][f] = job[k][f]
            /\ k = q /\ f = e => job'[k][f] = st
    BY <1>2 DEF TypeOK
  <1>5. \A k \in Queue, f \in Event : Queued(k, f) <=> Queued(k, f)'
    <2> SUFFICES ASSUME NEW k \in Queue, NEW f \in Event
                 PROVE  Queued(k, f) <=> Queued(k, f)'
      OBVIOUS
    <2>1. CASE k = q /\ f = e
      BY <1>2, <1>4, <2>1 DEF Queued
    <2>2. CASE k # q \/ f # e
      <3>1. <<k, f>> \in ended' <=> <<k, f>> \in ended
        BY <1>2, <2>2
      <3>2. QED
        BY <1>4, <2>2, <3>1 DEF Queued
    <2>3. QED
      BY <2>1, <2>2
  <1>6. TypeOK'
    <2>1. ended' \subseteq Queue \X Event
      <3>1. ended \subseteq Queue \X Event /\ <<q, e>> \in Queue \X Event
        BY DEF TypeOK
      <3>2. ended' = ended \/ ended' = ended \cup {<<q, e>>}
        BY <1>2
      <3>3. QED
        BY <3>1, <3>2
    <2>2. QED
      BY <1>1, <1>2, <1>3, <2>1 DEF TypeOK
  <1>7. JobsOK'
    BY <1>2, <1>4 DEF JobsOK
  <1>8. LocksOK' /\ TickOK' /\ DeadAtTheCap'
    BY <1>1 DEF LocksOK, TickOK, DeadAtTheCap
  <1>9. NothingLost'
    BY <1>1, <1>5 DEF NothingLost
  <1>10. DispatchOK'
    <2>1. \A r \in Process, f \in Event : Current(r, f)' <=> Current(r, f)
      BY <1>1 DEF Current, Todo
    <2>2. {"email", "webhook"} = Queue
      BY DEF Queue
    <2>3. QED
      BY <1>1, <1>5, <2>1, <2>2 DEF DispatchOK
  <1>11. QED
    BY <1>6, <1>7, <1>8, <1>9, <1>10

\* Starting and shutting down a process leaves every batch as it is; a relay
\* that has stopped is in no tick (startOutboxRelay's stop, shutdown).
LEMMA OInvLife ==
    ASSUME OInv, NEW p \in Process,
           Start(p) \/ Shutdown(p) \/ RelayStopped(p) \/ WorkersClosed(p)
    PROVE  OInv'
  <1>1. UNCHANGED <<status, attempts, due, pc, batch, ok, failed, job, holder, tries, stalls, ended>>
    BY DEF Start, Shutdown, RelayStopped, WorkersClosed, relay, jobs
  <1>2. faults' \in Nat
    BY DEF Start, Shutdown, RelayStopped, WorkersClosed, OInv, TypeOK
  <1>3. PICK s \in {"up", "draining", "closing", "down"} :
          /\ proc' = [proc EXCEPT ![p] = s]
          /\ s \in {"closing", "down"} => pc[p] = "idle"
    BY DEF Start, Shutdown, RelayStopped, WorkersClosed, OInv, TickOK
  <1>4. proc' \in [Process -> {"up", "draining", "closing", "down"}]
    BY <1>3 DEF OInv, TypeOK
  <1>5. \A r \in Process : proc'[r] \in {"closing", "down"} => pc[r] = "idle"
    BY <1>3 DEF OInv, TypeOK, TickOK
  <1>6. QED
    BY <1>1, <1>2, <1>4, <1>5, ONextFrame

\* The invariant is preserved by every step of producers, relays, workers and
\* operators.
LEMMA OInvNext == OInv /\ [Next]_vars => OInv'
  <1> SUFFICES ASSUME OInv, [Next]_vars
               PROVE  OInv'
    OBVIOUS
  <1>1. CASE UNCHANGED vars
    <2>1. /\ UNCHANGED <<status, attempts, due, batch, ok, failed, job, holder, tries, stalls, ended>>
          /\ pc' = pc /\ faults' \in Nat /\ proc' = proc
      BY <1>1 DEF vars, OInv, TypeOK
    <2>2. QED
      BY <2>1, ONextFrame DEF OInv, TypeOK, TickOK
  <1>2. CASE Next
    BY <1>2, OInvProduce, OInvClaim, OInvEnqueue, OInvMark, OInvCommit, OInvUndo, OInvWork,
       OInvLife
    DEF Next, RelayStep
  <1>3. QED
    BY <1>1, <1>2

\* The invariant of the relay and the workers holds in every behaviour.
THEOREM OutboxInvariance == Spec => []OInv
  <1>1. Init => OInv
    BY OInvInit
  <1>2. OInv /\ [Next]_vars => OInv'
    BY OInvNext
  <1>3. QED
    BY <1>1, <1>2, PTL DEF Spec

\* The outbox, the relays and the jobs keep their types, attempts within the cap
\* among them (claimBatch, markFailed).
THEOREM OutboxTypeCorrect == Spec => []TypeOK
  <1>1. OInv => TypeOK
    BY DEF OInv
  <1> QED
    BY <1>1, OutboxInvariance, PTL

\* No committed event is lost and none is made up, for any number of worker
\* processes, failures, crashes and shutdowns (record, processBatch, dispatch).
THEOREM OutboxNothingLost == Spec => []NothingLost
  BY OutboxInvariance, PTL DEF OInv

\* An event is dead exactly when its last allowed attempt has failed (markFailed).
THEOREM OutboxDeadAtTheCap == Spec => []DeadAtTheCap
  BY OutboxInvariance, PTL DEF OInv

\* A shutdown closes the workers and the data source only when the relay's
\* transaction is over (stop awaits inFlight).
THEOREM OutboxStopDrains == Spec => []StopDrains
  <1>1. OInv => StopDrains
    BY DEF OInv, TickOK, StopDrains
  <1>2. QED
    BY <1>1, OutboxInvariance, PTL

\* Only the commit of a batch changes the status of a recorded event.
LEMMA OnlyCommitsSettle ==
    ASSUME OInv, [Next]_vars
    PROVE  \A e \in Event : status[e] \in {"dispatched", "dead"} => status'[e] = status[e]
  <1>1. CASE \E p \in Process : CommitBatch(p)
    BY <1>1, OInvCommit
  <1>2. CASE \E f \in Event : Record(f)
    BY <1>2 DEF Record, OInv, TypeOK
  <1>3. CASE /\ ~\E p \in Process : CommitBatch(p)
             /\ ~\E f \in Event : Record(f)
    <2>1. status' = status
      BY <1>3 DEF Next, vars, BackoffEnds, Tick, RelayStep, ClaimBatch, EnqueueBookingEmail,
                  EnqueueWebhook, MarkDispatched, DispatchFails, BatchRolledBack, Start, Shutdown,
                  RelayStopped, WorkersClosed, Crash, Work, Take, Delivered, DeliveryFails,
                  Stalled, Leave
    <2>2. QED
      BY <2>1
  <1>4. QED
    BY <1>1, <1>2, <1>3

\* A dispatched or dead event is never touched again, although relays of
\* several processes run at once (FOR UPDATE SKIP LOCKED).
THEOREM OutboxSettledStays == Spec => SettledStays
  <1>1. OInv /\ [Next]_vars =>
            [\A e \in Event : status[e] \in {"dispatched", "dead"} => status'[e] = status[e]]_vars
    BY OnlyCommitsSettle
  <1>2. QED
    BY <1>1, OutboxInvariance, PTL DEF Spec, SettledStays
=============================================================================
