SPECIFICATION PlaneSpec
CONSTANTS
    u1 = u1
    u2 = u2
    m = m
    c = c
    a2 = a2
    Nil = Nil
    Run = Run
    User = {u1, u2}
    Conn = {m, c}
    Channel = {c1}
    Addr = {a2}
    Token = {t1}
    SessionId = {s1, s2}
    MaxIdle = 0
    TokenTTL = 0
    AddrsOf <- OneAddress
    Copies = 1
    MaxDelay = 0
    MaxOpen = 1
    Speakers = {}
    Muted = {u2}
    Deafened = {u2}
    UserOf <- Accounts
    Limit = 1
    VoiceConn = {c}
    Moderator = {m}
    Movable = {}
    Flagged = {u2}
    Kickable = {}
    SlowConn = {}
INVARIANT MuteEnforced
