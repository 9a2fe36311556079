SPECIFICATION Spec
CONSTANTS
    p1 = p1
    p2 = p2
    main = main
    side = side
    c1 = c1
    c2 = c2
    c3 = c3
    Absent = Absent
    Free = Free
    Push = {p1, p2}
    Name = {"app"}
    Ref = {main, side}
    Commit = {c1, c2, c3}
    Anc <- MCAnc
    NameOf <- MCNameOf
    InitRefs <- MCInitRefs
    InitDefault = main
    InitAdmins = {p1}
    Changes <- MCChanges
    MaxCrashes = 1
    MaxEdits = 1
    MayVanish = TRUE
    MayOmit = TRUE
INVARIANTS
    TypeOK
    ReceivedBeforePointer
    CacheBacked
PROPERTIES
    EntersUnderLock
    DefaultBranchKept
    ImplementsAtomicRefs
CHECK_DEADLOCK FALSE
