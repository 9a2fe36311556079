SPECIFICATION FairSpec
CONSTANTS
    Instance = {i1, i2}
    NoOne = NoOne
    Write = {r1}
    MaxFaults = 1
    Probed = {i1}
PROPERTIES
    TurnsAreTaken
CHECK_DEADLOCK FALSE
