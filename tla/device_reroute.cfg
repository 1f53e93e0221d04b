CONSTANTS
    Capture = capture
    Playback = playback
    Notified = {capture}
SPECIFICATION Spec
PROPERTIES UninitStopsWorker
CHECK_DEADLOCK FALSE
