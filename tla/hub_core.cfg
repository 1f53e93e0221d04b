SPECIFICATION Spec
CONSTANTS
    u1 = u1
    u2 = u2
    u3 = u3
    m = m
    c = c
    d = d
    Nil = Nil
    Run = Run
    User = {u1, u2, u3}
    Conn = {m, c, d}
    Channel = {c1, c2}
    UserOf <- OneEach
    Limit = 1
    VoiceConn = {c, d}
    Moderator = {m, d}
    Movable = {u2}
    Flagged = {u2}
    Kickable = {u2}
    SlowConn = {c}
INVARIANTS TypeOK RoomsAgree VoiceStateKept VoiceStateBacked
SYMMETRY Symmetry
