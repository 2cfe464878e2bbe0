SPECIFICATION Spec
CONSTANTS
    anna = anna
    haircut = haircut
    massage = massage
    s1 = s1
    s2 = s2
    k1 = k1
    Booking = {b1, b2, b3}
    Slot = {r1, r2, r3}
    Key = {k1}
    Staff <- MCStaff
    Service <- MCService
    Series <- MCSeries
    Time <- MCTime
    Duration <- MCDuration
    CanPerform <- MCCanPerform
    Now <- MCNow
    Request <- MixedRequests
    AnyVersion = FALSE
    MaxRequests = 5
    NoRow = NoRow
    NoSeries = NoSeries
    NoKey = NoKey
    NoRequest = NoRequest
    NoEvent = NoEvent
    NoBooking = NoBooking
    NoClaim = NoClaim
    NoRecurrence = NoRecurrence
SYMMETRY Symmetric
INVARIANTS
    TypeOK
    NoDoubleBooking
PROPERTY
    RefinesCalendar
