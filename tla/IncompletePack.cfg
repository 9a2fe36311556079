SPECIFICATION Spec
CONSTANTS
    p1 = p1
    p2 = p2
    main = main
    side = side
    c1 = c1
    c2 = c2
    c3 = c3
    Absent = Absent
    Free = Free
    Push = {p1, p2}
    Name = {"app"}
    Ref = {main, side}
    Commit = {c1, c2, c3}
    Anc <- MCAnc
    NameOf <- MCNameOf
    InitRefs <- MCInitRefs
    InitDefault = main
    InitAdmins = {p1}
    Changes <- MCChanges
    MaxCrashes = 0
    MaxEdits = 0
    MayVanish = FALSE
    MayOmit = TRUE
INVARIANT
    ContentBeforePointer
CHECK_DEADLOCK FALSE
