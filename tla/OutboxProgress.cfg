SPECIFICATION FairSpec
CONSTANTS
    Event = {1}
    Process = {w1, w2}
    OUTBOX_BATCH_SIZE = 1
    OUTBOX_MAX_ATTEMPTS = 2
    MaxTries <- EmailRetried
    MaxFaults = 2
    NoProcess = NoProcess
INVARIANTS
    NothingLost
    TypeOK
    DeadAtTheCap
    StopDrains
PROPERTIES
    SettledStays
    EventsSettle
    JobsEnd
