CONSTANTS
    Channel = {a, b}
    None = none
    MaxCalls = 3
    MaxOutside = 2
SPECIFICATION Spec
INVARIANTS TypeOK FramesSentOnce ConnectedIsLive
PROPERTIES JoinEnds LeaveIsServed
CHECK_DEADLOCK FALSE
