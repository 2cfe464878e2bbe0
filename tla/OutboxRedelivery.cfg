SPECIFICATION Spec
CONSTANTS
    Event = {1}
    Process = {w1}
    OUTBOX_BATCH_SIZE = 1
    OUTBOX_MAX_ATTEMPTS = 2
    MaxTries <- OneTry
    MaxFaults = 1
    NoProcess = NoProcess
PROPERTY
    RedeliveryIsNoOp
