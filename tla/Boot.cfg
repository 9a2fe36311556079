SPECIFICATION FairSpec
CONSTANTS
    Instance = {i1, i2}
    NoOne = NoOne
    Key = {k1, k2}
    Admin = {a1, a2}
    Token = {t1, t2}
    Write = {k1, k2, a1, a2, t1, t2}
    MaxFaults = 1
INVARIANTS
    TypeOK
    KeysAgree
    FirstAdminOnce
    BannerHolds
PROPERTIES
    WaitEnds
    ImplementsOneRoot
