SPECIFICATION Spec
CONSTANTS
    DAY = 6
    Gap = 1
    Spring = 50
    Autumn = 62
    NowOffset = 0
    MAX_OCCURRENCES = 4
    NoCount = NoCount
    NoDate = NoDate
    Staff = {anna, ben}
    NoStaff = NoStaff
    Date = {8, 10}
    Window <- NewHours
    Absence <- Absences
    BookingStart <- Starts
    Rule <- Rules
    FirstHours <- AllDay
    Duration = 1
    bufferBefore = 0
    bufferAfter = 1
    Admin = {a1, a2}
    NoWork = NoWork
    NoRule = NoRule
    MaxChanges = 2
SYMMETRY Symmetric
INVARIANTS
    TypeOK
    WindowsDisjoint
    OffersAreSound
    OffersAreComplete
    RuleIsKept
