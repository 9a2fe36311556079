SPECIFICATION Spec
CONSTANTS
    Instance = {i1, i2}
    NoOne = NoOne
    Write = {r1, r2}
    MaxFaults = 2
    Probed = {}
SYMMETRY Symmetry
INVARIANTS
    TypeOK
    YieldFencesNothing
    NextWriterSeesAcked
PROPERTIES
    ReadsAreCurrent
    ImplementsOneDatabase
CHECK_DEADLOCK FALSE
