SPECIFICATION FairSpec
CONSTANTS
    Request = {r1, r2}
    Conn = {c1, c2}
    Script <- TwoRowsAndEvent
    NoRequest = NoRequest
    NoConn = NoConn
INVARIANTS
    TypeOK
    PoolIsClean
    OkIsDurable
    RowsTogether
PROPERTIES
    RequestsEnd
    ShutdownEnds
