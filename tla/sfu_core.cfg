SPECIFICATION Spec
CONSTANTS
    u1 = u1
    u2 = u2
    a1 = a1
    a2 = a2
    Nil = Nil
    User = {u1, u2}
    Channel = {c1, c2}
    Addr = {a1, a2}
    Token = {t1}
    SessionId = {s1, s2, s3}
    MaxIdle = 0
    TokenTTL = 0
    AddrsOf <- Shared
    Copies = 2
    MaxDelay = 1
    MaxOpen = 1
    Speakers = {u1}
    Muted = {}
    Deafened = {}
INVARIANTS TypeOK OwnTables AddrIndexSound AddressLookupRedundant
PROPERTY KeepAlive
SYMMETRY Symmetry
