CONSTANTS
    User = {ann, bob, cat}
    Self = self
    Nobody = nobody
    RingSize = 3
    MaxPeers = 3
    Frame = 2
    Period = 2
    Hangover = 1
    Packets = {2}
    MaxBlocks = 4
    Modes = {TRUE}
SPECIFICATION Spec
INVARIANTS TypeOK CaptureFifo PeerFifo OneSlotPerUser HardwareReleased SpeakingIsLive
CHECK_DEADLOCK FALSE
SYMMETRY Symmetry
