SPECIFICATION SettledSpec
CONSTANTS
    u1 = u1
    u2 = u2
    a1 = a1
    a2 = a2
    Nil = Nil
    User = {u1, u2}
    Channel = {c1, c2}
    Addr = {a1, a2}
    Token = {t1}
    SessionId = {1, 2, 3}
    MaxIdle = 0
    TokenTTL = 0
    AddrsOf <- Private
    Copies = 2
    MaxDelay = 0
    MaxOpen = 1
    Speakers = {u1}
    Muted = {u1}
    Deafened = {u2}
INVARIANTS RoomIsolation FanoutLive
PROPERTIES SilentPeersDropped
