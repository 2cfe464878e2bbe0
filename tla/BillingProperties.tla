-------------------------- MODULE BillingProperties --------------------------
(***************************************************************************)
(* What subscriptions, payment webhooks and the staff limit guarantee.      *)
(***************************************************************************)
EXTENDS Billing

\* "At most one active (non-canceled) subscription per tenant"
\* (subscription.entity.ts:6), whatever subscribes, webhooks and cancellations
\* run at the same time.
OneSubscription ==
    \A s, u \in Sub : InForce(status[s]) /\ InForce(status[u]) => s = u

\* "a failed apply rolls the claim back for the provider to retry"
\* (subscription.service.ts:78): once an event has its receipt, and so is never
\* looked at again, its subscription no longer waits for a payment.
AckedIsApplied ==
    \A e \in receipts : status[Reference[e]] # "trialing"

\* A payment event counts once, however often, late or concurrently it is
\* delivered: the status of a subscription changes only together with the first
\* receipt of an event that says so (consumeWebhook), or by cancellation.
OneChangePerEvent ==
    [][\A s \in Sub : status[s] # "none" /\ status'[s] \notin {status[s], "canceled"} =>
          \E e \in receipts' \ receipts : Reference[e] = s /\ status'[s] = Outcome(e)]_vars

AddsStaff == staff' \ staff # {}

Allowed(n) == PlanInForce = NoPlan \/ MaxStaff[PlanInForce] < 0 \/ n <= MaxStaff[PlanInForce]

\* "Enforces the plan staff limit, fail-closed on overage"
\* (subscription.service.ts:98), as far as the code does it: a creation during
\* which nothing else was committed keeps the number of staff within the plan in
\* force.  Two creations that overlap may exceed it together, as both count the
\* staff before either commits.
LoneCreateKeepsLimit ==
    [][AddsStaff /\ (\E r \in alone : pc[r] = "commit" /\ pc'[r] = "idle") =>
          Allowed(Cardinality(staff'))]_vars

\* Every event a provider has sent gets its receipt in the end.
EventsAcknowledged ==
    \A e \in Event : e \in sent ~> e \in receipts
==============================================================================
