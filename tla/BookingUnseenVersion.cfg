SPECIFICATION Spec
CONSTANTS
    anna = anna
    haircut = haircut
    massage = massage
    s1 = s1
    s2 = s2
    k1 = k1
    Booking = {b1}
    Slot = {r1, r2}
    Key = {k1}
    Staff <- MCStaff
    Service <- MCService
    Series <- MCSeries
    Time <- MCTime
    Duration <- MCDuration
    CanPerform <- MCCanPerform
    Now <- MCNow
    Request <- LifecycleRequests
    AnyVersion = TRUE
    MaxRequests = 4
    NoRow = NoRow
    NoSeries = NoSeries
    NoKey = NoKey
    NoRequest = NoRequest
    NoEvent = NoEvent
    NoBooking = NoBooking
    NoClaim = NoClaim
    NoRecurrence = NoRecurrence
PROPERTY
    LifecycleTableRules
