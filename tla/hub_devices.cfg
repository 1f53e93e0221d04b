SPECIFICATION Spec
CONSTANTS
    u1 = u1
    u2 = u2
    u3 = u3
    m = m
    c = c
    d = d
    Nil = Nil
    Run = Run
    User = {u1, u2, u3}
    Conn = {m, c, d}
    Channel = {c1}
    UserOf <- TwoDevices
    Limit = 2
    VoiceConn = {c, d}
    Moderator = {m}
    Movable = {}
    Flagged = {}
    Kickable = {}
    SlowConn = {}
INVARIANT VoiceStateKept
SYMMETRY Symmetry
