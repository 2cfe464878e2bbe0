SPECIFICATION FairSpec
CONSTANTS
    free = free
    pro = pro
    paid = paid
    unpaid = unpaid
    Request = {r1, r2}
    Sub = {1, 2}
    Event = {paid, unpaid}
    Reference <- OneReference
    Succeeded = {paid}
    Plan = {free, pro}
    MaxStaff <- Limits
    DefaultPlan = free
    Person = {u1, u2}
    MaxFaults = 1
    NoSub = NoSub
    NoEvent = NoEvent
    NoPlan = NoPlan
    NoPerson = NoPerson
INVARIANTS
    TypeOK
    OneSubscription
    AckedIsApplied
PROPERTIES
    OneChangePerEvent
    LoneCreateKeepsLimit
    EventsAcknowledged
