------------------------------- MODULE Billing -------------------------------
(***************************************************************************)
(* Subscriptions, payment webhooks and the staff limit of one tenant, as    *)
(* the statements of concurrent READ COMMITTED transactions: a webhook      *)
(* claims its event and applies it in one transaction, subscribe checks and *)
(* inserts, staff creation counts, looks up the plan and inserts.           *)
(*                                                                         *)
(* Subscriptions are numbered in the order of their creation.  PostgreSQL   *)
(* is external: an insert that meets an open one under the same unique key  *)
(* waits, as does an update of a row another transaction has updated.       *)
(***************************************************************************)
EXTENDS Integers, FiniteSets

CONSTANTS
    Request,     \* concurrent transactions
    Sub,         \* subscriptions, numbers in the order of creation
    Event,       \* events of the payment providers
    Reference,   \* Reference[e]: the subscription an event is about
    Succeeded,   \* the events of type payment.succeeded; the others report failures
    Plan,
    MaxStaff,    \* MaxStaff[p]: a negative number grants any number of staff
    DefaultPlan, \* the free plan, or NoPlan where none is configured
    Person,      \* members of the tenant that may become staff
    MaxFaults,   \* bound: failed transactions and cancellations
    NoSub, NoEvent, NoPlan, NoPerson

ASSUME SubAssumption == Sub \subseteq Nat /\ NoSub \notin Sub
ASSUME EventAssumption == /\ Reference \in [Event -> Sub] /\ Succeeded \subseteq Event
                          /\ NoEvent \notin Event
ASSUME PlanAssumption == /\ MaxStaff \in [Plan -> Int] /\ NoPlan \notin Plan
                         /\ DefaultPlan \in Plan \cup {NoPlan}
ASSUME PersonAssumption == NoPerson \notin Person /\ IsFiniteSet(Person)
ASSUME FaultAssumption == MaxFaults \in Nat

VARIABLES
    status,     \* committed status of each subscription; "none": no row
    plan,       \* plan_id of each subscription
    sent,       \* events the providers have sent
    receipts,   \* committed rows of webhook_receipts
    staff,      \* committed staff that are not deleted
    pc,         \* the statement each transaction is about to run
    ev,         \* the event it claims or has claimed
    sub,        \* the subscription whose row it has read or written
    to,         \* the status it writes
    choice,     \* the plan it subscribes to
    person,     \* the member it makes staff
    count,      \* the staff it counted
    alone,      \* history: no commit but removals of staff since these counted it
    faults

tables == <<status, plan, sent, receipts, staff>>
locals == <<ev, sub, to, choice, person, count>>
vars == <<status, plan, sent, receipts, staff, pc, ev, sub, to, choice, person, count,
          alone, faults>>

SubscriptionStatus == {"trialing", "active", "past_due", "canceled"}

TypeOK ==
    /\ status \in [Sub -> SubscriptionStatus \cup {"none"}]
    /\ plan \in [Sub -> Plan \cup {NoPlan}]
    /\ \A s \in Sub : status[s] # "none" => plan[s] \in Plan
    /\ sent \subseteq Event
    /\ receipts \subseteq Event
    /\ staff \subseteq Person
    /\ pc \in [Request -> {"idle", "claim", "read", "update", "insert", "entitle",
                           "create", "commit"}]
    /\ ev \in [Request -> Event \cup {NoEvent}]
    /\ sub \in [Request -> Sub \cup {NoSub}]
    /\ to \in [Request -> SubscriptionStatus \cup {"none"}]
    /\ choice \in [Request -> Plan \cup {NoPlan}]
    /\ person \in [Request -> Person \cup {NoPerson}]
    /\ count \in [Request -> Nat]
    /\ alone \subseteq Request
    /\ faults \in Nat

Init ==
    /\ status = [s \in Sub |-> "none"]
    /\ plan = [s \in Sub |-> NoPlan]
    /\ sent = {} /\ receipts = {} /\ staff = {}
    /\ pc = [r \in Request |-> "idle"]
    /\ ev = [r \in Request |-> NoEvent]
    /\ sub = [r \in Request |-> NoSub]
    /\ to = [r \in Request |-> "none"]
    /\ choice = [r \in Request |-> NoPlan]
    /\ person = [r \in Request |-> NoPerson]
    /\ count = [r \in Request |-> 0]
    /\ alone = {}
    /\ faults = 0

-----------------------------------------------------------------------------
(* The lifecycle of a subscription.                                         *)

TRANSITIONS ==
    [trialing |-> {"active", "past_due", "canceled"},
     active   |-> {"past_due", "canceled"},
     past_due |-> {"active", "canceled"},
     canceled |-> {}]

canTransition(from, next) == from = next \/ next \in TRANSITIONS[from]

\* The rows the partial unique index UQ_subscriptions_active covers.
InForce(st) == st \notin {"none", "canceled"}

\* findActive: the newest subscription, whatever its status.  The code orders by
\* created_at, the start of the inserting transaction; the order of the inserts
\* is another one only where two subscribes overlapped and the subscription of
\* the first to insert was canceled before the second inserted.
Current(s) == status[s] # "none" /\ \A u \in Sub : status[u] # "none" => u <= s

-----------------------------------------------------------------------------
(* Transactions.                                                            *)

\* The transaction is over and its local variables are gone.
Over(r) ==
    /\ pc' = [pc EXCEPT ![r] = "idle"]
    /\ ev' = [ev EXCEPT ![r] = NoEvent]
    /\ sub' = [sub EXCEPT ![r] = NoSub]
    /\ to' = [to EXCEPT ![r] = "none"]
    /\ choice' = [choice EXCEPT ![r] = NoPlan]
    /\ person' = [person EXCEPT ![r] = NoPerson]
    /\ count' = [count EXCEPT ![r] = 0]

\* It ends without a write: refused, or nothing to do.
Refused(r) == Over(r) /\ alone' = alone \ {r} /\ UNCHANGED <<tables, faults>>

\* An open transaction has written a version of the subscription.
Locked(s) == \E r \in Request : pc[r] = "commit" /\ sub[r] = s /\ to[r] # "none"

\* Commit makes the writes visible at once: receipt and status, or the new
\* subscription, or the new staff member.
Commit(r) ==
    /\ pc[r] = "commit"
    /\ status' = IF to[r] = "none" THEN status ELSE [status EXCEPT ![sub[r]] = to[r]]
    /\ plan' = IF choice[r] = NoPlan THEN plan ELSE [plan EXCEPT ![sub[r]] = choice[r]]
    /\ receipts' = receipts \cup ({ev[r]} \ {NoEvent})
    /\ staff' = staff \cup ({person[r]} \ {NoPerson})
    /\ Over(r)
    /\ alone' = {}
    /\ UNCHANGED <<sent, faults>>

\* A statement fails, the connection drops or the process dies: rolled back.
Fail(r) ==
    /\ pc[r] # "idle" /\ faults < MaxFaults
    /\ Over(r) /\ alone' = alone \ {r}
    /\ faults' = faults + 1
    /\ UNCHANGED tables

-----------------------------------------------------------------------------
(* Payment webhooks.                                                        *)

\* A provider learns a reference from the checkout, after its subscription is
\* committed; from then on it may send the event, again and again.
Send(e) ==
    /\ e \notin sent /\ status[Reference[e]] # "none"
    /\ sent' = sent \cup {e}
    /\ UNCHANGED <<status, plan, receipts, staff, pc, locals, alone, faults>>

Deliver(r, e) ==
    /\ pc[r] = "idle" /\ e \in sent
    /\ pc' = [pc EXCEPT ![r] = "claim"]
    /\ ev' = [ev EXCEPT ![r] = e]
    /\ UNCHANGED <<tables, sub, to, choice, person, count, alone, faults>>

\* Another open transaction has inserted the receipt of this event.
ClaimedByOther(r) ==
    \E o \in Request \ {r} : ev[o] = ev[r] /\ pc[o] \in {"read", "update", "commit"}

\* Mutant of ClaimEvent: the receipt is looked for among open transactions only.
ClaimEventAgain(r) ==
    /\ pc[r] = "claim" /\ ~ClaimedByOther(r)
    /\ pc' = [pc EXCEPT ![r] = "read"]
    /\ UNCHANGED <<tables, locals, alone, faults>>

\* Mutant of ClaimEvent: the receipt is committed on a connection of its own.
ClaimEventApart(r) ==
    /\ pc[r] = "claim" /\ ev[r] \notin receipts
    /\ receipts' = receipts \cup {ev[r]}
    /\ pc' = [pc EXCEPT ![r] = "read"]
    /\ UNCHANGED <<status, plan, sent, staff, locals, alone, faults>>

\* INSERT ... ON CONFLICT DO NOTHING.
ClaimEvent(r) ==
    /\ pc[r] = "claim" /\ ev[r] \notin receipts /\ ~ClaimedByOther(r)
    /\ pc' = [pc EXCEPT ![r] = "read"]
    /\ UNCHANGED <<tables, locals, alone, faults>>

AlreadyProcessed(r) ==
    /\ pc[r] = "claim" /\ ev[r] \in receipts
    /\ Refused(r)

Outcome(e) == IF e \in Succeeded THEN "active" ELSE "past_due"

\* Mutant of ReadSubscription: an illegal change is an error.
ReadSubscriptionThrows(r) ==
    LET s == Reference[ev[r]] IN
    /\ pc[r] = "read"
    /\ IF canTransition(status[s], Outcome(ev[r]))
       THEN /\ sub' = [sub EXCEPT ![r] = s]
            /\ pc' = [pc EXCEPT ![r] = "update"]
            /\ UNCHANGED <<tables, ev, to, choice, person, count, alone, faults>>
       ELSE Refused(r)

\* findByReference, and the lifecycle check on what it returned: an illegal
\* change is dropped, its receipt kept.
ReadSubscription(r) ==
    LET s == Reference[ev[r]] IN
    /\ pc[r] = "read"
    /\ sub' = [sub EXCEPT ![r] = s]
    /\ pc' = [pc EXCEPT ![r] = IF canTransition(status[s], Outcome(ev[r]))
                               THEN "update" ELSE "commit"]
    /\ UNCHANGED <<tables, ev, to, choice, person, count, alone, faults>>

\* Some other subscription is in force, so one more would break the index.
OtherInForce(s) == \E u \in Sub \ {s} : InForce(status[u])

\* An open transaction may be about to put another subscription in force.
OtherPending(r) ==
    \E o \in Request \ {r} : pc[o] = "commit" /\ sub[o] # sub[r] /\ InForce(to[o])

\* updateStatus: UPDATE by id, on the row as it is by now.
UpdateStatus(r) ==
    /\ pc[r] = "update"
    /\ ~Locked(sub[r]) /\ ~OtherInForce(sub[r]) /\ ~OtherPending(r)
    /\ to' = [to EXCEPT ![r] = Outcome(ev[r])]
    /\ pc' = [pc EXCEPT ![r] = "commit"]
    /\ UNCHANGED <<tables, ev, sub, choice, person, count, alone, faults>>

\* 23505: the provider is answered an error and retries.
UpdateViolatesIndex(r) ==
    /\ pc[r] = "update"
    /\ ~Locked(sub[r]) /\ OtherInForce(sub[r])
    /\ Refused(r)

-----------------------------------------------------------------------------
(* subscribe.                                                               *)

\* Bound: a row of Sub is left for every subscribe that is running.
RowsLeft == Cardinality({s \in Sub : status[s] = "none"})
              > Cardinality({o \in Request : choice[o] # NoPlan})

\* Mutant of Subscribe: the plan is not stored.
SubscribeNoPlan(r, p) ==
    /\ pc[r] = "idle" /\ RowsLeft
    /\ \A s \in Sub : Current(s) => status[s] = "canceled"
    /\ pc' = [pc EXCEPT ![r] = "insert"]
    /\ UNCHANGED <<tables, locals, alone, faults>>

\* findActive and its check; a refused request does nothing.
Subscribe(r, p) ==
    /\ pc[r] = "idle" /\ RowsLeft
    /\ \A s \in Sub : Current(s) => status[s] = "canceled"
    /\ pc' = [pc EXCEPT ![r] = "insert"]
    /\ choice' = [choice EXCEPT ![r] = p]
    /\ UNCHANGED <<tables, ev, sub, to, person, count, alone, faults>>

\* Mutant of InsertSubscription: no partial unique index.
InsertSubscriptionUnchecked(r) ==
    /\ pc[r] = "insert"
    /\ \E s \in Sub :
        /\ status[s] = "none" /\ ~Locked(s)
        /\ \A u \in Sub : u < s => status[u] # "none" \/ Locked(u)
        /\ sub' = [sub EXCEPT ![r] = s]
    /\ to' = [to EXCEPT ![r] = "trialing"]
    /\ pc' = [pc EXCEPT ![r] = "commit"]
    /\ UNCHANGED <<tables, ev, choice, person, count, alone, faults>>

\* The INSERT waits for an open transaction that puts a subscription in force.
InsertSubscription(r) ==
    /\ pc[r] = "insert" /\ ~OtherPending(r)
    /\ \E s \in Sub :
        /\ status[s] = "none" /\ ~OtherInForce(s)
        /\ \A u \in Sub : u < s => status[u] # "none"
        /\ sub' = [sub EXCEPT ![r] = s]
    /\ to' = [to EXCEPT ![r] = "trialing"]
    /\ pc' = [pc EXCEPT ![r] = "commit"]
    /\ UNCHANGED <<tables, ev, choice, person, count, alone, faults>>

\* 23505: "Tenant already has a subscription".
AlreadySubscribed(r) ==
    /\ pc[r] = "insert"
    /\ \E s \in Sub : InForce(status[s])
    /\ Refused(r)

\* A subscription is canceled in the database: no endpoint does it, though
\* subscribe, the webhook and the index are written for it.
Cancel(s) ==
    /\ InForce(status[s]) /\ ~Locked(s) /\ faults < MaxFaults
    /\ status' = [status EXCEPT ![s] = "canceled"]
    /\ faults' = faults + 1
    /\ alone' = {}
    /\ UNCHANGED <<plan, sent, receipts, staff, pc, locals>>

-----------------------------------------------------------------------------
(* Staff.                                                                   *)

\* create counts the staff first.
CreateStaff(r, u) ==
    /\ pc[r] = "idle"
    /\ pc' = [pc EXCEPT ![r] = "entitle"]
    /\ person' = [person EXCEPT ![r] = u]
    /\ count' = [count EXCEPT ![r] = Cardinality(staff)]
    /\ alone' = alone \cup {r}
    /\ UNCHANGED <<tables, ev, sub, to, choice, faults>>

\* The plan of the current subscription unless it is canceled, else the free one.
PlanInForce ==
    IF \E s \in Sub : Current(s) /\ status[s] # "canceled"
    THEN plan[CHOOSE s \in Sub : Current(s)] ELSE DefaultPlan

\* Mutant of Exceeds: off by one.
ExceedsLate(n) == PlanInForce # NoPlan /\ MaxStaff[PlanInForce] >= 0 /\ n > MaxStaff[PlanInForce]

\* assertWithinStaffLimit: no plan or a negative limit means no limit.
Exceeds(n) == PlanInForce # NoPlan /\ MaxStaff[PlanInForce] >= 0 /\ n >= MaxStaff[PlanInForce]

WithinLimit(r) ==
    /\ pc[r] = "entitle" /\ ~Exceeds(count[r])
    /\ pc' = [pc EXCEPT ![r] = "create"]
    /\ UNCHANGED <<tables, locals, alone, faults>>

PlanLimitExceeded(r) ==
    /\ pc[r] = "entitle" /\ Exceeds(count[r])
    /\ Refused(r)

\* UQ_staff_tenant_user: waits for an open insert of the same member.
InsertStaff(r) ==
    /\ pc[r] = "create" /\ person[r] \notin staff
    /\ ~\E o \in Request \ {r} : pc[o] = "commit" /\ person[o] = person[r]
    /\ pc' = [pc EXCEPT ![r] = "commit"]
    /\ UNCHANGED <<tables, locals, alone, faults>>

AlreadyStaff(r) ==
    /\ pc[r] = "create" /\ person[r] \in staff
    /\ Refused(r)

\* softRemove is one statement; its transaction writes nothing else.
RemoveStaff(u) ==
    /\ u \in staff
    /\ staff' = staff \ {u}
    /\ UNCHANGED <<status, plan, sent, receipts, pc, locals, alone, faults>>

-----------------------------------------------------------------------------

Webhook(r) ==
    \/ ClaimEvent(r) \/ AlreadyProcessed(r) \/ ReadSubscription(r)
    \/ UpdateStatus(r) \/ UpdateViolatesIndex(r)

Step(r) ==
    \/ Webhook(r)
    \/ InsertSubscription(r) \/ AlreadySubscribed(r)
    \/ WithinLimit(r) \/ PlanLimitExceeded(r) \/ InsertStaff(r) \/ AlreadyStaff(r)
    \/ Commit(r)

Next ==
    \/ \E r \in Request :
        \/ Step(r) \/ Fail(r)
        \/ \E e \in Event : Deliver(r, e)
        \/ \E p \in Plan : Subscribe(r, p)
        \/ \E u \in Person : CreateStaff(r, u)
    \/ \E e \in Event : Send(e)
    \/ \E s \in Sub : Cancel(s)
    \/ \E u \in Person : RemoveStaff(u)

Spec == Init /\ [][Next]_vars

\* Transactions go on, and a provider repeats an event until it is answered.
FairSpec ==
    /\ Spec
    /\ \A r \in Request : WF_vars(Step(r))
    /\ \A e \in Event : SF_vars(e \notin receipts /\ \E r \in Request : Deliver(r, e))
=============================================================================
