---------------------------- MODULE BillingProofs ----------------------------
(***************************************************************************)
(* Theorems about subscriptions, payment webhooks and the staff limit, for  *)
(* any transactions, subscriptions, events, plans and staff.                *)
(***************************************************************************)
EXTENDS BillingProperties, FiniteSetTheorems, TLAPS

\* The transaction has claimed its event.
Holding(r) == ev[r] # NoEvent /\ pc[r] \in {"read", "update", "commit"}

\* The transaction has written a subscription and not committed it.
Writing(r) == pc[r] = "commit" /\ to[r] # "none"

\* What a transaction knows at each of its statements.
Position(r) ==
    /\ pc[r] = "idle" => ev[r] = NoEvent /\ choice[r] = NoPlan /\ person[r] = NoPerson
    /\ pc[r] \in {"idle", "insert"} => sub[r] = NoSub
    /\ pc[r] \in {"claim", "read", "update"} => ev[r] \in sent /\ choice[r] = NoPlan
    /\ pc[r] = "update" => sub[r] = Reference[ev[r]]
    /\ pc[r] = "insert" => ev[r] = NoEvent /\ choice[r] \in Plan
    /\ pc[r] \in {"entitle", "create"} => ev[r] = NoEvent /\ choice[r] = NoPlan
    /\ pc[r] # "commit" => to[r] = "none"

\* What a transaction is about to commit: an event with its outcome or without
\* one, a subscription, or a member of staff.
Written(r) ==
    pc[r] = "commit" =>
        \/ /\ ev[r] \in sent /\ sub[r] = Reference[ev[r]] /\ choice[r] = NoPlan
           /\ \/ to[r] = Outcome(ev[r])
              \/ to[r] = "none" /\ status[sub[r]] # "trialing"
        \/ /\ ev[r] = NoEvent /\ choice[r] \in Plan /\ sub[r] \in Sub
           /\ to[r] = "trialing" /\ status[sub[r]] = "none"
        \/ ev[r] = NoEvent /\ choice[r] = NoPlan /\ to[r] = "none"

Positions == \A r \in Request : Position(r)
Writes == \A r \in Request : Written(r)

\* An event is sent about a subscription that exists, and receipted once sent.
Known == receipts \subseteq sent /\ \A e \in sent : status[Reference[e]] # "none"

\* An event is held by one transaction, and not after its receipt.
OneHolder ==
    /\ \A r \in Request : Holding(r) => ev[r] \notin receipts
    /\ \A r, o \in Request : Holding(r) /\ Holding(o) /\ ev[r] = ev[o] => r = o

\* One transaction writes a subscription, and no other one is in force then.
OneWriter ==
    /\ \A r, o \in Request : Writing(r) /\ Writing(o) => r = o
    /\ \A r \in Request, s \in Sub : Writing(r) /\ s # sub[r] => ~InForce(status[s])

BInv ==
    /\ TypeOK /\ Positions /\ Writes /\ Known /\ OneHolder /\ OneWriter
    /\ OneSubscription /\ AckedIsApplied

-----------------------------------------------------------------------------

\* The initial state has no row and no running transaction.
LEMMA BInvInit == Init => BInv
  BY DEF Init, BInv, TypeOK, Positions, Position, Writes, Written, Known, OneHolder, OneWriter,
     Holding, Writing, OneSubscription, AckedIsApplied, InForce, SubscriptionStatus

\* What a webhook writes is a status in force.
LEMMA OutcomeType == \A e \in Event : Outcome(e) \in {"active", "past_due"}
  BY DEF Outcome

\* What an open transaction writes is a status in force.
LEMMA WritesInForce ==
    ASSUME BInv, NEW o \in Request, Writing(o)
    PROVE  InForce(to[o]) /\ sub[o] \in Sub
  <1>1. ev[o] \in sent => ev[o] \in Event
    BY DEF BInv, TypeOK
  <1> QED
    BY <1>1, OutcomeType, EventAssumption DEF BInv, Writes, Written, Writing, InForce

\* Steps of one transaction that commit nothing.  They change only its own
\* local variables; the last four assumptions say that it keeps the invariant's
\* demands on itself.
LEMMA LocalStep ==
    ASSUME BInv, NEW r \in Request, TypeOK',
           UNCHANGED <<status, sent, receipts>>,
           \A o \in Request : o # r => /\ pc'[o] = pc[o] /\ ev'[o] = ev[o] /\ sub'[o] = sub[o]
                                       /\ to'[o] = to[o] /\ choice'[o] = choice[o]
                                       /\ person'[o] = person[o],
           Position(r)', Written(r)',
           Holding(r)' => /\ ev'[r] \notin receipts
                          /\ \A o \in Request : Holding(o) /\ ev[o] = ev'[r] => o = r,
           Writing(r)' => /\ \A o \in Request : Writing(o) => o = r
                          /\ \A s \in Sub : s # sub'[r] => ~InForce(status[s])
    PROVE  BInv'
  <1>1. \A o \in Request : o # r => (Holding(o)' <=> Holding(o)) /\ (Writing(o)' <=> Writing(o))
    BY DEF Holding, Writing
  <1>2. Positions'
    BY DEF BInv, Positions, Position
  <1>3. Writes'
    BY DEF BInv, Writes, Written, Outcome
  <1>4. Known'
    BY DEF BInv, Known
  <1>5. OneHolder'
    BY <1>1 DEF BInv, OneHolder
  <1>6. OneWriter'
    BY <1>1 DEF BInv, OneWriter
  <1>7. OneSubscription' /\ AckedIsApplied'
    BY DEF BInv, OneSubscription, AckedIsApplied
  <1> QED
    BY <1>2, <1>3, <1>4, <1>5, <1>6, <1>7 DEF BInv

\* A transaction that ends without a commit (Refused, Fail).
LEMMA OverStep ==
    ASSUME BInv, NEW r \in Request, Over(r), alone' = alone \ {r}, UNCHANGED tables, faults' \in Nat
    PROVE  BInv'
  <1> USE DEF tables
  <1>1. TypeOK'
    BY DEF BInv, TypeOK, Over
  <1>2. /\ pc'[r] = "idle" /\ to'[r] = "none" /\ ev'[r] = NoEvent /\ sub'[r] = NoSub
        /\ choice'[r] = NoPlan /\ person'[r] = NoPerson
        /\ \A o \in Request : o # r => /\ pc'[o] = pc[o] /\ ev'[o] = ev[o] /\ sub'[o] = sub[o]
                                       /\ to'[o] = to[o] /\ choice'[o] = choice[o]
                                       /\ person'[o] = person[o]
    BY DEF BInv, TypeOK, Over
  <1> QED
    BY <1>1, <1>2, LocalStep DEF Holding, Writing, Position, Written

\* The first statement of a transaction (Deliver, Subscribe, CreateStaff).
LEMMA BeginStep ==
    ASSUME BInv, NEW r \in Request,
           \/ \E e \in Event : Deliver(r, e)
           \/ \E p \in Plan : Subscribe(r, p)
           \/ \E u \in Person : CreateStaff(r, u)
    PROVE  BInv'
  <1> USE DEF tables
  <1>1. TypeOK'
    <2>1. CASE \E e \in Event : Deliver(r, e)
      BY <2>1 DEF BInv, TypeOK, Deliver
    <2>2. CASE \E p \in Plan : Subscribe(r, p)
      BY <2>2 DEF BInv, TypeOK, Subscribe
    <2>3. CASE \E u \in Person : CreateStaff(r, u)
      <3>1. Cardinality(staff) \in Nat
        BY PersonAssumption, FS_Subset, FS_CardinalityType DEF BInv, TypeOK
      <3> QED
        BY <2>3, <3>1 DEF BInv, TypeOK, CreateStaff
    <2> QED
      BY <2>1, <2>2, <2>3
  <1>2. \A o \in Request : o # r => /\ pc'[o] = pc[o] /\ ev'[o] = ev[o] /\ sub'[o] = sub[o]
                                    /\ to'[o] = to[o] /\ choice'[o] = choice[o]
                                    /\ person'[o] = person[o]
    BY DEF BInv, TypeOK, Deliver, Subscribe, CreateStaff
  <1>3. UNCHANGED <<status, sent, receipts>>
    BY DEF Deliver, Subscribe, CreateStaff
  <1>4. Position(r) /\ pc[r] = "idle"
    BY DEF BInv, Positions, Deliver, Subscribe, CreateStaff
  <1>5. Position(r)' /\ pc'[r] \notin {"read", "update", "commit"}
    BY <1>4 DEF Position, BInv, TypeOK, Deliver, Subscribe, CreateStaff
  <1> QED
    BY <1>1, <1>2, <1>3, <1>5, LocalStep DEF Holding, Writing, Written

\* A webhook claims its event: no other transaction holds it (ClaimEvent).
LEMMA ClaimStep ==
    ASSUME BInv, NEW r \in Request, ClaimEvent(r)
    PROVE  BInv'
  <1> USE DEF tables, locals
  <1>1. TypeOK'
    BY DEF BInv, TypeOK, ClaimEvent
  <1>2. /\ pc'[r] = "read"
        /\ \A o \in Request : o # r => pc'[o] = pc[o]
        /\ UNCHANGED <<status, sent, receipts, ev, sub, to, choice, person>>
    BY DEF BInv, TypeOK, ClaimEvent
  <1>3. Position(r) /\ pc[r] = "claim"
    BY DEF BInv, Positions, ClaimEvent
  <1>4. Position(r)'
    BY <1>2, <1>3 DEF Position
  <1>5. ev'[r] \notin receipts /\ \A o \in Request : Holding(o) /\ ev[o] = ev'[r] => o = r
    BY <1>2 DEF ClaimEvent, ClaimedByOther, Holding
  <1> QED
    BY <1>1, <1>2, <1>4, <1>5, LocalStep DEF Writing, Written

\* A webhook reads its subscription; an event it drops finds a subscription
\* that no longer waits for its payment (ReadSubscription).
LEMMA ReadStep ==
    ASSUME BInv, NEW r \in Request, ReadSubscription(r)
    PROVE  BInv'
  <1> USE DEF tables
  <1> DEFINE s == Reference[ev[r]]
  <1>1. Position(r) /\ pc[r] = "read" /\ ev[r] \in sent /\ ev[r] \in Event /\ s \in Sub
    BY EventAssumption DEF BInv, Positions, Position, ReadSubscription, TypeOK
  <1>2. /\ sub' = [sub EXCEPT ![r] = s]
        /\ pc' = [pc EXCEPT ![r] = IF canTransition(status[s], Outcome(ev[r]))
                                   THEN "update" ELSE "commit"]
        /\ UNCHANGED <<status, plan, sent, receipts, staff, ev, to, choice, person, count,
                       alone, faults>>
    BY DEF ReadSubscription
  <1>3. TypeOK'
    BY <1>1, <1>2 DEF BInv, TypeOK
  <1>4. sub'[r] = s /\ pc'[r] \in {"update", "commit"}
        /\ \A o \in Request : o # r => pc'[o] = pc[o] /\ sub'[o] = sub[o]
    BY <1>2 DEF BInv, TypeOK
  <1>5. pc'[r] = "commit" => status[s] # "trialing"
    <2>1. SUFFICES ASSUME status[s] = "trialing"
                   PROVE  canTransition(status[s], Outcome(ev[r]))
      BY <1>2 DEF BInv, TypeOK
    <2> QED
      BY <1>1, <2>1, OutcomeType DEF canTransition, TRANSITIONS
  <1>6. Position(r)' /\ Written(r)' /\ ~Writing(r)'
    BY <1>1, <1>2, <1>4, <1>5 DEF Position, Written, Writing
  <1>7. ev'[r] \notin receipts /\ \A o \in Request : Holding(o) /\ ev[o] = ev'[r] => o = r
    <2>1. Holding(r)
      BY <1>1, EventAssumption DEF Holding
    <2> QED
      BY <1>2, <2>1 DEF BInv, OneHolder
  <1> QED
    BY <1>2, <1>3, <1>4, <1>6, <1>7, LocalStep

\* A webhook writes the status of its subscription: no other transaction writes
\* a subscription, and no other one is in force (UpdateStatus).
LEMMA UpdateStep ==
    ASSUME BInv, NEW r \in Request, UpdateStatus(r)
    PROVE  BInv'
  <1> USE DEF tables
  <1>1. /\ Position(r) /\ pc[r] = "update" /\ ev[r] \in sent /\ ev[r] \in Event
        /\ sub[r] = Reference[ev[r]] /\ sub[r] \in Sub
    BY EventAssumption DEF BInv, Positions, Position, UpdateStatus, TypeOK
  <1>2. /\ to' = [to EXCEPT ![r] = Outcome(ev[r])] /\ pc' = [pc EXCEPT ![r] = "commit"]
        /\ UNCHANGED <<status, plan, sent, receipts, staff, ev, sub, choice, person, count,
                       alone, faults>>
    BY DEF UpdateStatus
  <1>3. TypeOK'
    BY <1>1, <1>2, OutcomeType DEF BInv, TypeOK, SubscriptionStatus
  <1>4. /\ to'[r] = Outcome(ev[r]) /\ pc'[r] = "commit"
        /\ \A o \in Request : o # r => pc'[o] = pc[o] /\ to'[o] = to[o]
    BY <1>2 DEF BInv, TypeOK
  <1>5. Position(r)' /\ Written(r)'
    BY <1>1, <1>2, <1>4 DEF Position, Written, Outcome
  <1>6. ev'[r] \notin receipts /\ \A o \in Request : Holding(o) /\ ev[o] = ev'[r] => o = r
    <2>1. Holding(r)
      BY <1>1, EventAssumption DEF Holding
    <2> QED
      BY <1>2, <2>1 DEF BInv, OneHolder
  <1>7. \A o \in Request : Writing(o) => o = r
    BY <1>1, WritesInForce DEF UpdateStatus, Locked, OtherPending, Writing
  <1>8. \A s \in Sub : s # sub'[r] => ~InForce(status[s])
    BY <1>2 DEF UpdateStatus, OtherInForce
  <1> QED
    BY <1>2, <1>3, <1>4, <1>5, <1>6, <1>7, <1>8, LocalStep

\* subscribe inserts its row while no subscription is in force (InsertSubscription).
LEMMA InsertStep ==
    ASSUME BInv, NEW r \in Request, InsertSubscription(r)
    PROVE  BInv'
  <1> USE DEF tables
  <1>1. /\ Position(r) /\ pc[r] = "insert" /\ ev[r] = NoEvent /\ sub[r] = NoSub
        /\ choice[r] \in Plan
    BY DEF BInv, Positions, Position, InsertSubscription
  <1>2. PICK s \in Sub : /\ status[s] = "none" /\ ~OtherInForce(s)
                         /\ sub' = [sub EXCEPT ![r] = s]
    BY DEF InsertSubscription
  <1>3. /\ to' = [to EXCEPT ![r] = "trialing"] /\ pc' = [pc EXCEPT ![r] = "commit"]
        /\ UNCHANGED <<status, plan, sent, receipts, staff, ev, choice, person, count,
                       alone, faults>>
    BY DEF InsertSubscription
  <1>4. TypeOK'
    BY <1>2, <1>3 DEF BInv, TypeOK, SubscriptionStatus
  <1>5. /\ to'[r] = "trialing" /\ pc'[r] = "commit" /\ sub'[r] = s
        /\ \A o \in Request : o # r => pc'[o] = pc[o] /\ to'[o] = to[o] /\ sub'[o] = sub[o]
    BY <1>2, <1>3 DEF BInv, TypeOK
  <1>6. Position(r)' /\ Written(r)' /\ ~Holding(r)'
    BY <1>1, <1>2, <1>3, <1>5 DEF Position, Written, Holding
  <1>7. \A o \in Request : Writing(o) => o = r
    BY <1>1, WritesInForce, SubAssumption DEF InsertSubscription, OtherPending, Writing
  <1>8. \A u \in Sub : u # sub'[r] => ~InForce(status[u])
    BY <1>2, <1>5 DEF OtherInForce
  <1> QED
    BY <1>3, <1>4, <1>5, <1>6, <1>7, <1>8, LocalStep

\* The statements of a staff creation after the first (WithinLimit, InsertStaff).
LEMMA StaffStep ==
    ASSUME BInv, NEW r \in Request, WithinLimit(r) \/ InsertStaff(r)
    PROVE  BInv'
  <1> USE DEF tables, locals
  <1>1. /\ Position(r) /\ pc[r] \in {"entitle", "create"} /\ ev[r] = NoEvent
        /\ choice[r] = NoPlan /\ to[r] = "none"
    BY DEF BInv, Positions, Position, WithinLimit, InsertStaff
  <1>2. /\ UNCHANGED <<status, plan, sent, receipts, staff, ev, sub, to, choice, person, count,
                       alone, faults>>
        /\ pc' = [pc EXCEPT ![r] = "create"] \/ pc' = [pc EXCEPT ![r] = "commit"]
    BY DEF WithinLimit, InsertStaff
  <1>3. TypeOK'
    BY <1>2 DEF BInv, TypeOK
  <1>4. /\ pc'[r] \in {"create", "commit"}
        /\ \A o \in Request : o # r => pc'[o] = pc[o]
    BY <1>2 DEF BInv, TypeOK
  <1>5. Position(r)' /\ Written(r)' /\ ~Holding(r)' /\ ~Writing(r)'
    BY <1>1, <1>2, <1>4 DEF Position, Written, Holding, Writing
  <1> QED
    BY <1>2, <1>3, <1>4, <1>5, LocalStep

\* A provider sends an event about a subscription it was told of (Send).
LEMMA SendStep ==
    ASSUME BInv, NEW e \in Event, Send(e)
    PROVE  BInv'
  <1>1. /\ sent' = sent \cup {e} /\ status[Reference[e]] # "none"
        /\ UNCHANGED <<status, plan, receipts, staff, pc, ev, sub, to, choice, person, count,
                       alone, faults>>
    BY DEF Send, locals
  <1>2. TypeOK'
    BY <1>1 DEF BInv, TypeOK
  <1>3. Positions'
    BY <1>1 DEF BInv, Positions, Position
  <1>4. Writes'
    BY <1>1 DEF BInv, Writes, Written, Outcome
  <1>5. Known'
    BY <1>1 DEF BInv, Known
  <1> QED
    BY <1>1, <1>2, <1>3, <1>4, <1>5
    DEF BInv, OneHolder, OneWriter, Holding, Writing, OneSubscription, AckedIsApplied

\* A subscription nobody writes is canceled in the database (Cancel).
LEMMA CancelStep ==
    ASSUME BInv, NEW s \in Sub, Cancel(s)
    PROVE  BInv'
  <1>1. /\ status' = [status EXCEPT ![s] = "canceled"] /\ InForce(status[s])
        /\ faults' = faults + 1 /\ alone' = {}
        /\ UNCHANGED <<plan, sent, receipts, staff, pc, ev, sub, to, choice, person, count>>
    BY DEF Cancel, locals
  <1>2. status'[s] = "canceled" /\ \A u \in Sub : u # s => status'[u] = status[u]
    BY <1>1 DEF BInv, TypeOK
  <1>3. TypeOK'
    BY <1>1, <1>2 DEF BInv, TypeOK, SubscriptionStatus, InForce
  <1>4. Positions' /\ OneHolder'
    BY <1>1 DEF BInv, Positions, Position, OneHolder, Holding
  <1>5. \A e \in sent : e \in Event /\ Reference[e] \in Sub
    BY EventAssumption DEF BInv, TypeOK
  <1>6. Writes'
    BY <1>1, <1>2, <1>5 DEF BInv, Writes, Written, Outcome, InForce
  <1>7. Known' /\ AckedIsApplied'
    BY <1>1, <1>2, <1>5 DEF BInv, Known, AckedIsApplied
  <1>8. \A u \in Sub : InForce(status'[u]) => InForce(status[u])
    BY <1>2 DEF InForce
  <1>9. OneWriter' /\ OneSubscription'
    BY <1>1, <1>8 DEF BInv, OneWriter, Writing, OneSubscription
  <1> QED
    BY <1>3, <1>4, <1>6, <1>7, <1>9 DEF BInv

\* A member of staff leaves (RemoveStaff).
LEMMA RemoveStep ==
    ASSUME BInv, NEW u \in Person, RemoveStaff(u)
    PROVE  BInv'
  <1>1. /\ staff' = staff \ {u}
        /\ UNCHANGED <<status, plan, sent, receipts, pc, ev, sub, to, choice, person, count,
                       alone, faults>>
    BY DEF RemoveStaff, locals
  <1> QED
    BY <1>1 DEF BInv, TypeOK, Positions, Position, Writes, Written, Outcome, Known, OneHolder,
       OneWriter, Holding, Writing, OneSubscription, AckedIsApplied

\* What a commit does to the tables, whatever transaction it ends.
LEMMA CommitEffect ==
    ASSUME BInv, NEW r \in Request, Commit(r)
    PROVE  /\ \A u \in Sub : ~(Writing(r) /\ u = sub[r]) => status'[u] = status[u]
           /\ Writing(r) => sub[r] \in Sub /\ status'[sub[r]] = to[r]
           /\ \A u \in Sub : status[u] # "none" => status'[u] # "none"
           /\ \A u \in Sub : status'[u] = "trialing" => status[u] \in {"none", "trialing"}
           /\ receipts \subseteq receipts'
           /\ \A e \in receipts' \ receipts : Holding(r) /\ e = ev[r]
  <1>1. /\ pc[r] = "commit" /\ Written(r)
        /\ status' = IF to[r] = "none" THEN status ELSE [status EXCEPT ![sub[r]] = to[r]]
        /\ receipts' = receipts \cup ({ev[r]} \ {NoEvent})
    BY DEF Commit, BInv, Writes
  <1>2. CASE to[r] = "none"
    BY <1>1, <1>2 DEF Writing, Holding
  <1>3. CASE to[r] # "none"
    <2>1. /\ sub[r] \in Sub /\ InForce(to[r])
          /\ status' = [status EXCEPT ![sub[r]] = to[r]]
      BY <1>1, <1>3, WritesInForce DEF Writing
    <2>2. /\ status'[sub[r]] = to[r]
          /\ \A u \in Sub : u # sub[r] => status'[u] = status[u]
      BY <2>1 DEF BInv, TypeOK
    <2>3. to[r] = "trialing" => status[sub[r]] = "none"
      <3>1. ev[r] \in sent => Outcome(ev[r]) # "trialing"
        BY OutcomeType DEF BInv, TypeOK
      <3> QED
        BY <1>1, <1>3, <3>1 DEF Written
    <2> QED
      BY <1>1, <1>3, <2>1, <2>2, <2>3 DEF Writing, Holding, InForce
  <1> QED
    BY <1>2, <1>3

\* A commit keeps every table well-typed (Commit).
LEMMA CommitType ==
    ASSUME BInv, NEW r \in Request, Commit(r)
    PROVE  TypeOK'
  <1>1. /\ pc[r] = "commit" /\ Written(r)
        /\ receipts' = receipts \cup ({ev[r]} \ {NoEvent})
        /\ staff' = staff \cup ({person[r]} \ {NoPerson})
        /\ plan' = IF choice[r] = NoPlan THEN plan ELSE [plan EXCEPT ![sub[r]] = choice[r]]
        /\ status' = IF to[r] = "none" THEN status ELSE [status EXCEPT ![sub[r]] = to[r]]
        /\ Over(r) /\ alone' = {} /\ UNCHANGED <<sent, faults>>
    BY DEF Commit, BInv, Writes
  <1>2. status' \in [Sub -> SubscriptionStatus \cup {"none"}]
    BY <1>1 DEF BInv, TypeOK
  <1>3. plan' \in [Sub -> Plan \cup {NoPlan}]
    BY <1>1 DEF BInv, TypeOK
  <1>4. \A s \in Sub : status'[s] # "none" => plan'[s] \in Plan
    <2>1. CASE choice[r] = NoPlan
      <3>1. Writing(r) => ev[r] \in sent /\ sub[r] = Reference[ev[r]]
        BY <1>1, <2>1, PlanAssumption DEF Written, Writing
      <3>2. \A s \in Sub : status'[s] # "none" => status[s] # "none"
        BY <3>1, CommitEffect DEF BInv, Known
      <3> QED
        BY <1>1, <2>1, <3>2 DEF BInv, TypeOK
    <2>2. CASE choice[r] # NoPlan
      <3>1. choice[r] \in Plan /\ sub[r] \in Sub
        BY <1>1, <2>2 DEF Written
      <3>2. /\ plan'[sub[r]] = choice[r]
            /\ \A s \in Sub : s # sub[r] => plan'[s] = plan[s] /\ status'[s] = status[s]
        BY <1>1, <2>2, <3>1, CommitEffect DEF BInv, TypeOK
      <3> QED
        BY <3>1, <3>2 DEF BInv, TypeOK
    <2> QED
      BY <2>1, <2>2
  <1>5. receipts' \subseteq Event /\ staff' \subseteq Person
    BY <1>1 DEF BInv, TypeOK
  <1> QED
    BY <1>1, <1>2, <1>3, <1>4, <1>5 DEF BInv, TypeOK, Over

\* A commit keeps the invariant: the subscription it writes is the only one that
\* may be in force, and an event gets its receipt with its outcome (Commit).
LEMMA CommitStep ==
    ASSUME BInv, NEW r \in Request, Commit(r)
    PROVE  BInv'
  <1>1. /\ pc[r] = "commit" /\ Over(r) /\ sent' = sent /\ Written(r)
    BY DEF Commit, BInv, Writes
  <1>2. /\ pc'[r] = "idle" /\ to'[r] = "none" /\ ev'[r] = NoEvent /\ sub'[r] = NoSub
        /\ choice'[r] = NoPlan /\ person'[r] = NoPerson
        /\ \A o \in Request : o # r => /\ pc'[o] = pc[o] /\ ev'[o] = ev[o] /\ sub'[o] = sub[o]
                                       /\ to'[o] = to[o] /\ choice'[o] = choice[o]
                                       /\ person'[o] = person[o]
    BY <1>1 DEF BInv, TypeOK, Over
  <1>3. /\ ~Holding(r)' /\ ~Writing(r)'
        /\ \A o \in Request : o # r => (Holding(o)' <=> Holding(o)) /\ (Writing(o)' <=> Writing(o))
    BY <1>2 DEF Holding, Writing
  <1>4. \A e \in sent : e \in Event /\ Reference[e] \in Sub /\ status[Reference[e]] # "none"
    BY EventAssumption DEF BInv, TypeOK, Known
  <1>5. Positions'
    BY <1>1, <1>2 DEF BInv, Positions, Position
  <1>6. Writes'
    <2>1. SUFFICES ASSUME NEW o \in Request, o # r
                   PROVE  Written(o)'
      BY <1>2 DEF Writes, Written
    <2>2. Written(o) /\ (pc'[o] = "commit" /\ to[o] = "trialing" => Writing(o))
      BY <1>2, <2>1 DEF BInv, Writes, Writing
    <2>3. Writing(o) => status' = status
      BY <2>1 DEF BInv, OneWriter, Writing, Commit
    <2> QED
      BY <1>1, <1>2, <1>4, <2>1, <2>2, <2>3, CommitEffect DEF Written, Outcome
  <1>7. receipts' \subseteq sent'
    BY <1>1, CommitEffect, EventAssumption DEF BInv, Known, Written, Holding
  <1>8. Known'
    BY <1>1, <1>4, <1>7, CommitEffect DEF Known
  <1>9. OneHolder'
    BY <1>2, <1>3, CommitEffect DEF BInv, OneHolder
  <1>10. OneWriter'
    BY <1>2, <1>3, CommitEffect DEF BInv, OneWriter
  <1>11. OneSubscription'
    BY CommitEffect DEF BInv, OneWriter, OneSubscription
  <1>12. AckedIsApplied'
    <2>1. SUFFICES ASSUME NEW e \in receipts'
                   PROVE  status'[Reference[e]] # "trialing"
      BY DEF AckedIsApplied
    <2>2. e \in sent /\ Reference[e] \in Sub /\ status[Reference[e]] # "none"
      BY <1>1, <1>4, <1>7
    <2>3. CASE e \in receipts
      BY <2>2, <2>3, CommitEffect DEF BInv, AckedIsApplied
    <2>4. CASE e \notin receipts
      <3>1. e = ev[r] /\ Holding(r)
        BY <2>4, CommitEffect
      <3>2. CASE to[r] = "none"
        BY <1>1, <1>4, <2>2, <3>1, <3>2, CommitEffect, OutcomeType DEF Written, Holding, Writing
      <3>3. CASE to[r] # "none"
        BY <1>1, <1>4, <2>2, <3>1, <3>3, CommitEffect, OutcomeType DEF Written, Holding, Writing
      <3> QED
        BY <3>2, <3>3
    <2> QED
      BY <2>3, <2>4
  <1> QED
    BY <1>5, <1>6, <1>8, <1>9, <1>10, <1>11, <1>12, CommitType DEF BInv

-----------------------------------------------------------------------------

\* Every step preserves the invariant.
LEMMA BInvNext == BInv /\ [Next]_vars => BInv'
  <1> SUFFICES ASSUME BInv, [Next]_vars
               PROVE  BInv'
    OBVIOUS
  <1>1. ASSUME NEW r \in Request, Step(r)
        PROVE  BInv'
    <2>1. CASE AlreadyProcessed(r) \/ UpdateViolatesIndex(r) \/ AlreadySubscribed(r)
                 \/ PlanLimitExceeded(r) \/ AlreadyStaff(r)
      <3>1. Refused(r)
        BY <2>1 DEF AlreadyProcessed, UpdateViolatesIndex, AlreadySubscribed,
           PlanLimitExceeded, AlreadyStaff
      <3> QED
        BY <3>1, OverStep DEF Refused, BInv, TypeOK
    <2>2. CASE ClaimEvent(r) \/ ReadSubscription(r) \/ UpdateStatus(r)
      BY <2>2, ClaimStep, ReadStep, UpdateStep
    <2>3. CASE InsertSubscription(r) \/ WithinLimit(r) \/ InsertStaff(r) \/ Commit(r)
      BY <2>3, InsertStep, StaffStep, CommitStep
    <2> QED
      BY <1>1, <2>1, <2>2, <2>3 DEF Step, Webhook
  <1>2. ASSUME NEW r \in Request, Fail(r)
        PROVE  BInv'
    BY <1>2, OverStep DEF Fail, BInv, TypeOK
  <1>3. ASSUME NEW r \in Request, \/ \E e \in Event : Deliver(r, e)
                                  \/ \E p \in Plan : Subscribe(r, p)
                                  \/ \E u \in Person : CreateStaff(r, u)
        PROVE  BInv'
    BY <1>3, BeginStep
  <1>4. CASE \E e \in Event : Send(e)
    BY <1>4, SendStep
  <1>5. CASE \E s \in Sub : Cancel(s)
    BY <1>5, CancelStep
  <1>6. CASE \E u \in Person : RemoveStaff(u)
    BY <1>6, RemoveStep
  <1>7. CASE UNCHANGED vars
    BY <1>7 DEF vars, BInv, TypeOK, Positions, Position, Writes, Written, Outcome, Known,
       OneHolder, OneWriter, Holding, Writing, OneSubscription, AckedIsApplied
  <1> QED
    BY <1>1, <1>2, <1>3, <1>4, <1>5, <1>6, <1>7 DEF Next

\* The inductive invariant of billing: one transaction at a time holds an event
\* or writes a subscription (claim, the partial unique index).
THEOREM BillingInvariance == Spec => []BInv
  BY BInvInit, BInvNext, PTL DEF Spec

\* Subscriptions, receipts and the requests' positions keep their types, and
\* every subscription has its plan (Subscription).
THEOREM BillingTypeCorrect == Spec => []TypeOK
  <1>1. BInv => TypeOK
    BY DEF BInv
  <1> QED
    BY <1>1, BillingInvariance, PTL

\* A tenant has at most one subscription that is not canceled
\* (UQ_subscriptions_active).
THEOREM BillingOneSubscription == Spec => []OneSubscription
  <1>1. BInv => OneSubscription
    BY DEF BInv
  <1> QED
    BY <1>1, BillingInvariance, PTL

\* An event with a receipt has left its mark on the subscription (consumeWebhook).
THEOREM BillingAckedIsApplied == Spec => []AckedIsApplied
  <1>1. BInv => AckedIsApplied
    BY DEF BInv
  <1> QED
    BY <1>1, BillingInvariance, PTL

\* A payment event changes its subscription once, with its first receipt
\* (consumeWebhook).
THEOREM BillingOneChangePerEvent == Spec => OneChangePerEvent
  <1> DEFINE A == \A s \in Sub :
                    status[s] # "none" /\ status'[s] \notin {status[s], "canceled"} =>
                      \E e \in receipts' \ receipts : Reference[e] = s /\ status'[s] = Outcome(e)
  <1>1. ASSUME BInv, [Next]_vars
        PROVE  [A]_vars
    <2> SUFFICES ASSUME Next, NEW s \in Sub, status[s] # "none",
                        status'[s] \notin {status[s], "canceled"}
                 PROVE  \E e \in receipts' \ receipts :
                          Reference[e] = s /\ status'[s] = Outcome(e)
      BY <1>1 DEF vars
    <2>1. PICK r \in Request : Commit(r)
      <3>1. ASSUME NEW c \in Sub, Cancel(c)
            PROVE  FALSE
        BY <1>1, <3>1 DEF Cancel, BInv, TypeOK
      <3>2. ASSUME NEW r \in Request, Step(r), ~Commit(r)
            PROVE  status' = status
        BY <3>2 DEF Step, Webhook, ClaimEvent, AlreadyProcessed, ReadSubscription, UpdateStatus,
           UpdateViolatesIndex, InsertSubscription, AlreadySubscribed, WithinLimit,
           PlanLimitExceeded, InsertStaff, AlreadyStaff, Refused, tables
      <3> QED
        BY <3>1, <3>2
        DEF Next, Fail, Deliver, Subscribe, CreateStaff, Send, RemoveStaff, tables
    <2>2. Writing(r) /\ s = sub[r] /\ status'[s] = to[r] /\ Written(r)
      BY <1>1, <2>1, CommitEffect DEF BInv, Writes
    <2>3. ev[r] \in sent /\ sub[r] = Reference[ev[r]] /\ to[r] = Outcome(ev[r])
      BY <2>2 DEF Written, Writing
    <2>4. ev[r] \in receipts' \ receipts
      <3>1. ev[r] # NoEvent /\ Holding(r)
        BY <1>1, <2>2, <2>3, EventAssumption DEF BInv, TypeOK, Holding, Writing
      <3> QED
        BY <1>1, <2>1, <3>1 DEF Commit, BInv, OneHolder
    <2> QED
      BY <2>2, <2>3, <2>4
  <1> QED
    BY <1>1, BillingInvariance, PTL DEF Spec, OneChangePerEvent
-----------------------------------------------------------------------------
(* The staff limit. *)

\* A creation during which nothing else was committed has counted at least the
\* staff there is, and has been let through by the plan that is in force.
LoneInv ==
    \A r \in alone :
        /\ pc[r] \in {"entitle", "create", "commit"}
        /\ Cardinality(staff) <= count[r]
        /\ pc[r] # "entitle" => ~Exceeds(count[r])

\* The limit depends on the committed subscriptions alone.
LEMMA SameLimit ==
    ASSUME status' = status, plan' = plan, NEW n
    PROVE  Exceeds(n)' <=> Exceeds(n)
  BY DEF Exceeds, PlanInForce, Current

\* The plan in force is a plan, or there is none.
LEMMA PlanInForceType ==
    ASSUME TypeOK
    PROVE  PlanInForce \in Plan \cup {NoPlan}
  <1>1. CASE \E s \in Sub : Current(s) /\ status[s] # "canceled"
    <2> DEFINE c == CHOOSE s \in Sub : Current(s)
    <2>1. c \in Sub /\ Current(c)
      BY <1>1
    <2>2. plan[c] \in Plan
      BY <2>1 DEF Current, TypeOK
    <2> QED
      BY <1>1, <2>2 DEF PlanInForce
  <1>2. CASE ~\E s \in Sub : Current(s) /\ status[s] # "canceled"
    BY <1>2, PlanAssumption DEF PlanInForce
  <1> QED
    BY <1>1, <1>2

LEMMA StaffFinite ==
    ASSUME TypeOK
    PROVE  IsFiniteSet(staff) /\ Cardinality(staff) \in Nat
  BY PersonAssumption, FS_Subset, FS_CardinalityType DEF TypeOK

\* A step that commits no subscription and adds no staff, and moves no lone creation.
LEMMA LoneKept ==
    ASSUME TypeOK, LoneInv, status' = status, plan' = plan, staff' \subseteq staff,
           alone' \subseteq alone,
           \A o \in alone' : pc'[o] = pc[o] /\ count'[o] = count[o]
    PROVE  LoneInv'
  <1>1. Cardinality(staff') <= Cardinality(staff) /\ Cardinality(staff') \in Nat
    BY StaffFinite, FS_Subset, FS_CardinalityType
  <1>2. ASSUME NEW o \in alone'
        PROVE  /\ pc'[o] \in {"entitle", "create", "commit"}
               /\ Cardinality(staff') <= count'[o]
               /\ pc'[o] # "entitle" => ~Exceeds(count[o])'
    <2>1. /\ o \in alone /\ pc'[o] = pc[o] /\ count'[o] = count[o] /\ o \in Request
          /\ count[o] \in Nat
      BY DEF TypeOK
    <2>2. /\ pc[o] \in {"entitle", "create", "commit"} /\ Cardinality(staff) <= count[o]
          /\ pc[o] # "entitle" => ~Exceeds(count[o])
      BY <2>1 DEF LoneInv
    <2>3. Cardinality(staff') <= count[o]
      BY <1>1, <2>1, <2>2, StaffFinite
    <2>4. PICK n \in Nat : n = count[o] /\ n = count'[o]
      BY <2>1
    <2>5. ~Exceeds(n) => ~Exceeds(n)'
      BY SameLimit
    <2> QED
      BY <2>1, <2>2, <2>3, <2>4, <2>5
  <1> QED
    BY <1>2 DEF LoneInv

\* The statements of a staff creation.
LEMMA LoneCreate ==
    ASSUME BInv, LoneInv, NEW r \in Request, NEW u \in Person, CreateStaff(r, u)
    PROVE  LoneInv'
  <1>1. /\ status' = status /\ plan' = plan /\ staff' = staff
        /\ pc' = [pc EXCEPT ![r] = "entitle"] /\ alone' = alone \cup {r}
        /\ count' = [count EXCEPT ![r] = Cardinality(staff)]
    BY DEF CreateStaff, tables
  <1>2. /\ pc'[r] = "entitle" /\ count'[r] = Cardinality(staff)
        /\ \A o \in alone \ {r} : pc'[o] = pc[o] /\ count'[o] = count[o]
    BY <1>1 DEF BInv, TypeOK
  <1>3. ASSUME NEW o \in alone, o # r
        PROVE  /\ pc'[o] \in {"entitle", "create", "commit"}
               /\ Cardinality(staff) <= count'[o]
               /\ pc'[o] # "entitle" => ~Exceeds(count[o])'
    <2>1. PICK n : n = count[o] /\ n = count'[o]
      BY <1>2, <1>3
    <2>2. Exceeds(n)' <=> Exceeds(n)
      BY <1>1, SameLimit
    <2> QED
      BY <1>2, <1>3, <2>1, <2>2 DEF LoneInv
  <1>4. Cardinality(staff) <= count'[r]
    BY <1>2, StaffFinite DEF BInv
  <1> QED
    BY <1>1, <1>2, <1>3, <1>4 DEF LoneInv

LEMMA LoneStaffStep ==
    ASSUME BInv, LoneInv, NEW r \in Request, WithinLimit(r) \/ InsertStaff(r)
    PROVE  LoneInv'
  <1>1. /\ status' = status /\ plan' = plan /\ staff' = staff /\ alone' = alone
        /\ count' = count
        /\ pc' = [pc EXCEPT ![r] = "create"] \/ pc' = [pc EXCEPT ![r] = "commit"]
        /\ pc[r] # "entitle" \/ ~Exceeds(count[r])
    BY DEF WithinLimit, InsertStaff, tables, locals
  <1>2. /\ pc'[r] \in {"create", "commit"}
        /\ \A o \in alone \ {r} : pc'[o] = pc[o]
    BY <1>1 DEF BInv, TypeOK
  <1>3. ASSUME NEW o \in alone
        PROVE  /\ pc'[o] \in {"entitle", "create", "commit"}
               /\ Cardinality(staff) <= count'[o]
               /\ pc'[o] # "entitle" => ~Exceeds(count[o])'
    <2>1. PICK n : n = count[o] /\ n = count'[o]
      BY <1>1
    <2>2. Exceeds(n)' <=> Exceeds(n)
      BY <1>1, SameLimit
    <2>3. o = r => ~Exceeds(n)
      BY <1>1, <2>1 DEF LoneInv
    <2> QED
      BY <1>1, <1>2, <2>1, <2>2, <2>3 DEF LoneInv
  <1> QED
    BY <1>1, <1>3 DEF LoneInv

LEMMA LoneInvNext == BInv /\ LoneInv /\ [Next]_vars => LoneInv'
  <1> SUFFICES ASSUME BInv, LoneInv, [Next]_vars PROVE LoneInv'
    OBVIOUS
  <1>0. TypeOK
    BY DEF BInv
  <1>1. ASSUME NEW r \in Request,
               \/ AlreadyProcessed(r) \/ UpdateViolatesIndex(r) \/ AlreadySubscribed(r)
               \/ PlanLimitExceeded(r) \/ AlreadyStaff(r) \/ Fail(r)
        PROVE  LoneInv'
    <2>1. Over(r) /\ alone' = alone \ {r} /\ UNCHANGED tables
      BY <1>1 DEF AlreadyProcessed, UpdateViolatesIndex, AlreadySubscribed, PlanLimitExceeded,
                  AlreadyStaff, Fail, Refused
    <2>2. \A o \in alone' : pc'[o] = pc[o] /\ count'[o] = count[o]
      BY <1>0, <2>1 DEF Over, TypeOK
    <2> QED
      BY <1>0, <2>1, <2>2, LoneKept DEF tables
  <1>2. ASSUME NEW r \in Request,
               \/ ClaimEvent(r) \/ ReadSubscription(r) \/ UpdateStatus(r)
               \/ InsertSubscription(r) \/ (\E e \in Event : Deliver(r, e))
               \/ \E p \in Plan : Subscribe(r, p)
        PROVE  LoneInv'
    <2>1. /\ status' = status /\ plan' = plan /\ staff' = staff /\ alone' = alone
          /\ count' = count /\ \E p : pc' = [pc EXCEPT ![r] = p]
          /\ pc[r] \in {"claim", "read", "update", "insert", "idle"}
      BY <1>2 DEF ClaimEvent, ReadSubscription, UpdateStatus, InsertSubscription, Deliver,
                  Subscribe, tables, locals
    <2>2. r \notin alone
      BY <2>1 DEF LoneInv
    <2>3. \A o \in alone' : pc'[o] = pc[o] /\ count'[o] = count[o]
      BY <1>0, <2>1, <2>2 DEF TypeOK
    <2> QED
      BY <1>0, <2>1, <2>3, LoneKept
  <1>3. ASSUME NEW r \in Request, WithinLimit(r) \/ InsertStaff(r)
        PROVE  LoneInv'
    BY <1>3, LoneStaffStep
  <1>4. ASSUME NEW r \in Request, \E u \in Person : CreateStaff(r, u)
        PROVE  LoneInv'
    BY <1>4, LoneCreate
  <1>5. ASSUME NEW r \in Request, Commit(r) PROVE LoneInv'
    BY <1>5 DEF Commit, LoneInv
  <1>6. CASE \E s \in Sub : Cancel(s)
    BY <1>6 DEF Cancel, LoneInv
  <1>7. CASE (\E e \in Event : Send(e)) \/ (\E u \in Person : RemoveStaff(u)) \/ UNCHANGED vars
    <2>1. /\ status' = status /\ plan' = plan /\ staff' \subseteq staff /\ alone' = alone
          /\ count' = count /\ pc' = pc
      BY <1>7 DEF Send, RemoveStaff, vars, locals
    <2> QED
      BY <1>0, <2>1, LoneKept
  <1> QED
    BY <1>1, <1>2, <1>3, <1>4, <1>5, <1>6, <1>7 DEF Next, Step, Webhook

\* A staff creation during which nothing else was committed keeps the number of
\* staff within the plan in force (assertWithinStaffLimit, then the insert).
THEOREM BillingLoneCreateKeepsLimit == Spec => LoneCreateKeepsLimit
  <1> DEFINE A == AddsStaff /\ (\E r \in alone : pc[r] = "commit" /\ pc'[r] = "idle") =>
                    Allowed(Cardinality(staff'))
  <1>1. Init => LoneInv
    BY DEF Init, LoneInv
  <1>2. ASSUME BInv, LoneInv, [Next]_vars
        PROVE  [A]_vars
    <2> SUFFICES ASSUME Next, AddsStaff, NEW r \in alone, pc[r] = "commit", pc'[r] = "idle"
                 PROVE  Allowed(Cardinality(staff'))
      BY <1>2 DEF vars
    <2>0. TypeOK /\ r \in Request
      BY <1>2 DEF BInv, TypeOK
    <2>1. PICK o \in Request : Commit(o)
      <3>1. ASSUME NEW o \in Request, Step(o), ~Commit(o)
            PROVE  staff' = staff
        BY <3>1 DEF Step, Webhook, ClaimEvent, AlreadyProcessed, ReadSubscription, UpdateStatus,
           UpdateViolatesIndex, InsertSubscription, AlreadySubscribed, WithinLimit,
           PlanLimitExceeded, InsertStaff, AlreadyStaff, Refused, tables
      <3>2. staff' \subseteq staff => FALSE
        BY DEF AddsStaff
      <3> QED
        BY <3>1, <3>2
        DEF Next, Fail, Deliver, Subscribe, CreateStaff, Send, Cancel, RemoveStaff, tables
    <2>2. o = r
      BY <2>0, <2>1 DEF Commit, Over, TypeOK
    <2>3. staff' = staff \cup ({person[r]} \ {NoPerson})
      BY <2>1, <2>2 DEF Commit
    <2>4. person[r] # NoPerson /\ staff' = staff \cup {person[r]}
      BY <2>3 DEF AddsStaff
    <2>5. Cardinality(staff') <= Cardinality(staff) + 1 /\ Cardinality(staff') \in Nat
      <3>1. IsFiniteSet(staff) /\ Cardinality(staff) \in Nat
        BY <2>0, StaffFinite
      <3>2. Cardinality(staff') \in {Cardinality(staff), Cardinality(staff) + 1}
        BY <2>4, <3>1, FS_AddElement
      <3> QED
        BY <3>1, <3>2
    <2>6. Cardinality(staff) <= count[r] /\ ~Exceeds(count[r]) /\ count[r] \in Nat
      BY <1>2, <2>0 DEF LoneInv, TypeOK
    <2>7. Cardinality(staff') <= count[r] + 1
      BY <2>0, <2>5, <2>6, StaffFinite
    <2>8. CASE PlanInForce = NoPlan
      BY <2>8 DEF Allowed
    <2>9. CASE PlanInForce \in Plan
      <3>1. PICK m \in Int : m = MaxStaff[PlanInForce]
        BY <2>9, PlanAssumption
      <3>2. PlanInForce # NoPlan
        BY <2>9, PlanAssumption
      <3>3. ~(m >= 0 /\ count[r] >= m)
        BY <2>6, <3>1, <3>2 DEF Exceeds
      <3>4. m < 0 \/ Cardinality(staff') <= m
        BY <2>5, <2>6, <2>7, <3>3
      <3> QED
        BY <3>1, <3>4 DEF Allowed
    <2> QED
      BY <2>0, <2>8, <2>9, PlanInForceType
  <1> QED
    BY <1>1, <1>2, LoneInvNext, BInvInit, BInvNext, PTL DEF Spec, LoneCreateKeepsLimit
=============================================================================
