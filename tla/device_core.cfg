CONSTANTS
    Capture = capture
    Playback = playback
    Notified = {capture}
SPECIFICATION Spec
INVARIANTS TypeOK NoStaleSignal
PROPERTIES ImplementsDevice CallsReturn
CHECK_DEADLOCK FALSE
