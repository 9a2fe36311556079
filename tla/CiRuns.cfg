SPECIFICATION FairSpec
CONSTANTS
    Files = 2
    Malformed = {1}
    Results = {"passed"}
    MayFail = TRUE
    MaxCrashes = 2
INVARIANTS
    TypeOK
    DoneTailIsOver
    LogBeforePointer
PROPERTIES
    OverForGood
    ClaimedJobsEnd
    BuffersReclaimed
CHECK_DEADLOCK FALSE
