SPECIFICATION Spec
CONSTANTS
    Request = {r1}
    Conn = {c1, c2}
    Script <- RowAndEvent
    NoRequest = NoRequest
    NoConn = NoConn
INVARIANT
    EventWithItsChange
