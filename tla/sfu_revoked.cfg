SPECIFICATION Spec
CONSTANTS
    u1 = u1
    u2 = u2
    a1 = a1
    a2 = a2
    Nil = Nil
    User = {u1, u2}
    Channel = {c1, c2}
    Addr = {a1, a2}
    Token = {t1}
    SessionId = {s1, s2, s3}
    MaxIdle = 0
    TokenTTL = 0
    AddrsOf <- Private
    Copies = 1
    MaxDelay = 0
    MaxOpen = 1
    Speakers = {}
    Muted = {}
    Deafened = {}
PROPERTY RevokedIsFinal
