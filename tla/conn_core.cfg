CONSTANTS
    Conn = {c1}
    Other = other
    SendBuffer = 1
    UnregisterBuffer = 1
    BroadcastBuffer = 1
    MaxEvents = 3
    MaxOverflows = 2
SPECIFICATION Spec
INVARIANTS TypeOK BroadcastNeverPanics EventsInOrder
PROPERTIES LaggardsGo PumpsEndTogether
CHECK_DEADLOCK FALSE
